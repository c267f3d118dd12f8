-------------------------- MODULE PipelineRuntime --------------------------
(***************************************************************************)
(* One execution of Pipeline.Run (src/pipeline.go, 241-489): a goroutine   *)
(* per stage, a reader goroutine per edge, a goroutine per fan-in that     *)
(* closes its merged channel, and the context they all share.              *)
(*                                                                         *)
(* The user's callbacks (Source.Run, Process, Consume, Finish) are         *)
(* nondeterministic within the contract of src/etl.go: they emit batches,  *)
(* return nil, fail, or return the context's error, and they forward every *)
(* error Output.Send gives them.  A Process call may forward the batch it  *)
(* was given as its last act, like ProcessorFuncs without a ProcessFunc.   *)
(*                                                                         *)
(* A definition X_Y is X with the mistake Y.  No action uses it: replacing *)
(* X by it shows that a property would notice that mistake in the code.    *)
(***************************************************************************)
EXTENDS Integers, Sequences, FiniteSets

CONSTANTS
  Node,        \* the stages, by node id
  Edge,        \* the edges of the graph
  From, To,    \* the stage that sends on an edge, the stage that reads it
  Out,         \* n.outgoing: a stage's outgoing edges, in the order connected
  Kind,        \* n.kind: "source", "processor" or "sink"
  Cap,         \* Pipeline.bufferSize; 0 makes every edge a rendezvous
  Limit,       \* bound: batches a stage creates in one run
  Endless,     \* sources that resend their last batch until Send fails
  Faulty,      \* stages whose callbacks may fail by themselves
  Aborter,     \* stages that implement Aborter
  Cancellable, \* whether the caller may cancel the context it gave to Run
  Traced,      \* whether sent and got are kept (FALSE with Endless sources)
  NoNode, NoBatch

OutEdges(n) == {e \in Edge : From[e] = n}
InEdges(n)  == {e \in Edge : To[e] = n}
Batch == UNION {{n} \X (1 .. Limit[n]) : n \in Node}

\* The builder connects a new node to streams of nodes it already has, so an
\* edge leads to a higher id, a source has no input and a sink no output.
ASSUME GraphAssumption ==
  /\ Node \subseteq Nat /\ IsFiniteSet(Node) /\ IsFiniteSet(Edge)
  /\ From \in [Edge -> Node] /\ To \in [Edge -> Node]
  /\ \A e \in Edge : From[e] < To[e]
  /\ Kind \in [Node -> {"source", "processor", "sink"}]
  /\ \A e \in Edge : Kind[From[e]] # "sink" /\ Kind[To[e]] # "source"
  /\ Out \in [Node -> Seq(Edge)]
  /\ \A n \in Node : \A e \in Edge :
       From[e] = n <=> \E i \in 1 .. Len(Out[n]) : Out[n][i] = e
  /\ \A n \in Node : \A i, j \in 1 .. Len(Out[n]) :
       Out[n][i] = Out[n][j] => i = j

ASSUME ParameterAssumption ==
  /\ Cap \in Nat
  /\ Limit \in [Node -> Nat]
  /\ Endless \subseteq {n \in Node : Kind[n] = "source" /\ Limit[n] > 0}
  /\ Faulty \subseteq Node
  /\ Aborter \subseteq {n \in Node : Kind[n] # "source"}
  /\ Cancellable \in BOOLEAN /\ Traced \in BOOLEAN
  /\ NoNode \notin Node /\ NoBatch \notin Batch

VARIABLES
  pc,         \* where each stage's goroutine is
  err,        \* what runNode is returning: "nil", "ctx" (the context's error)
              \* or "own" (any other error)
  cur,        \* the batch a Process or Consume call was given
  sending,    \* the batch inside Output.Send
  idx,        \* the position in Out[n] of the edge Send is at, or of the last
              \* edge closeEdges has closed
  produced,   \* how many batches the stage has created
  buf,        \* the edge channel's buffer
  closed,     \* whether the edge channel is closed
  rpc,        \* where each reader goroutine of consumeInputs is
  held,       \* the batch a reader offers to the merged channel
  readersCancelled,  \* cancelReaders() was called
  mergedClosed,      \* the merged channel is closed
  ctxDone,    \* the run's context is cancelled
  recorded,   \* the stage whose error Run will return
  returned,   \* Run has returned
  refs,       \* the reference count of each batch
  \* history, read by the properties only
  aborts, finishes,  \* calls of Abort and Finish
  sent, got,         \* batches pushed on an edge, and delivered from it
  raised,     \* the errors callbacks returned, in that order, and whether the
              \* context was cancelled by then
  external    \* the caller cancelled its context

stageVars == <<pc, err, cur, sending, idx, produced>>
edgeVars  == <<buf, closed>>
readVars  == <<rpc, held, readersCancelled, mergedClosed>>
runVars   == <<ctxDone, recorded, returned>>
callVars  == <<aborts, finishes>>
logVars   == <<sent, got>>
vars == <<stageVars, edgeVars, readVars, runVars, refs, callVars, logVars,
          raised, external>>

----------------------------------------------------------------------------
(* Run starts every goroutine.  A processor merged from no stream skips    *)
(* the loop of consumeInputs.                                              *)
Init ==
  /\ pc = [n \in Node |-> IF Kind[n] = "source" THEN "run"
                          ELSE IF InEdges(n) = {} THEN "check" ELSE "select"]
  /\ err = [n \in Node |-> "nil"]
  /\ cur = [n \in Node |-> NoBatch]
  /\ sending = [n \in Node |-> NoBatch]
  /\ idx = [n \in Node |-> 0]
  /\ produced = [n \in Node |-> 0]
  /\ buf = [e \in Edge |-> <<>>]
  /\ closed = [e \in Edge |-> FALSE]
  /\ rpc = [e \in Edge |-> "recv"]
  /\ held = [e \in Edge |-> NoBatch]
  /\ readersCancelled = [n \in Node |-> FALSE]
  /\ mergedClosed = [n \in Node |-> FALSE]
  /\ ctxDone = FALSE
  /\ recorded = NoNode
  /\ returned = FALSE
  /\ refs = [b \in Batch |-> 0]
  /\ aborts = [n \in Node |-> 0]
  /\ finishes = [n \in Node |-> 0]
  /\ sent = [e \in Edge |-> <<>>]
  /\ got = [e \in Edge |-> <<>>]
  /\ raised = <<>>
  /\ external = FALSE

Log(history, e, b) ==
  IF Traced THEN [history EXCEPT ![e] = Append(@, b)] ELSE history

----------------------------------------------------------------------------
(* A stage's callback.                                                     *)

CallbackPc == {"run", "body", "finish"}

\* The stage's own batches are the ones it created, never one it received.
Owned(n, b) == b[1] = n

\* What a return from Send goes back to.
Caller(n) == IF Kind[n] = "source" THEN "run"
             ELSE IF finishes[n] > 0 THEN "finish" ELSE "body"

\* Where the goroutine goes on after its callback returned x.
AfterCallback_AbortsFailedFinish(n, x) ==
  IF Caller(n) = "body"
  THEN IF x = "nil" THEN "select" ELSE "stop"
  ELSE IF x = "nil" THEN "close"
  ELSE IF Caller(n) = "finish" THEN "abort" ELSE "fail"
AfterCallback(n, x) ==
  IF Caller(n) = "body"
  THEN IF x = "nil" THEN "select" ELSE "stop"
  ELSE IF x = "nil" THEN "close" ELSE "fail"

\* The references a stage gives up when its callback returns: the batch of
\* the Process or Consume call, by a deferred Release.
DeferredRelease_Forgotten(n, r) == r
DeferredRelease(n, r) ==
  IF cur[n] = NoBatch THEN r ELSE [r EXCEPT ![cur[n]] = @ - 1]

\* The callback returns x; r is the reference counts at that point.
CallbackReturns(n, x, r) ==
  /\ refs' = DeferredRelease(n, r)
  /\ cur' = [cur EXCEPT ![n] = NoBatch]
  /\ sending' = [sending EXCEPT ![n] = NoBatch]
  /\ idx' = [idx EXCEPT ![n] = 0]
  /\ err' = [err EXCEPT ![n] = x]
  /\ raised' = IF x = "nil" THEN raised ELSE Append(raised, [stage |-> n, late |-> ctxDone])
  /\ pc' = [pc EXCEPT ![n] = AfterCallback(n, x)]

ReturnNil(n) ==
  /\ pc[n] \in CallbackPc
  /\ n \notin Endless
  /\ CallbackReturns(n, "nil", refs)
  /\ UNCHANGED <<produced, edgeVars, readVars, runVars, callVars, logVars,
                 external>>

\* Any error of the stage's own, "cannot send a nil batch" included.
ReturnOwnError(n) ==
  /\ pc[n] \in CallbackPc
  /\ n \in Faulty
  /\ CallbackReturns(n, "own", refs)
  /\ UNCHANGED <<produced, edgeVars, readVars, runVars, callVars, logVars,
                 external>>

\* A callback that watches the context itself, or whose own deadline passed.
ReturnCtxError(n) ==
  /\ pc[n] \in CallbackPc
  /\ n \notin Endless
  /\ ctxDone \/ n \in Faulty
  /\ CallbackReturns(n, "ctx", refs)
  /\ UNCHANGED <<produced, edgeVars, readVars, runVars, callVars, logVars,
                 external>>

----------------------------------------------------------------------------
(* nodeOutput.Send.                                                        *)

\* Send retains the batch for the edge it is about to push on.
Retain(r, b) == [r EXCEPT ![b] = @ + 1]
Release(r, b) == [r EXCEPT ![b] = @ - 1]

\* The first iteration of Send's loop; r counts the reference its caller holds.
EnterLoop(n, b, r) ==
  /\ IF Out[n] = <<>>
     THEN UNCHANGED <<pc, sending, idx, refs>>
     ELSE /\ pc' = [pc EXCEPT ![n] = "send"]
          /\ sending' = [sending EXCEPT ![n] = b]
          /\ idx' = [idx EXCEPT ![n] = 1]
          /\ refs' = Retain(r, b)
  /\ UNCHANGED <<err, cur, raised>>

\* Send looks at the context before its loop.
EnterSend_Unchecked(n, b, r) == EnterLoop(n, b, r)
EnterSend(n, b, r) ==
  IF ctxDone THEN CallbackReturns(n, "ctx", refs) ELSE EnterLoop(n, b, r)

\* The stage creates a batch and sends it; an endless source has no last one.
Produce(n) ==
  /\ pc[n] \in CallbackPc
  /\ Kind[n] # "sink"
  /\ produced[n] < Limit[n] \/ n \in Endless
  /\ LET k == IF produced[n] < Limit[n] THEN produced[n] + 1 ELSE Limit[n]
     IN  /\ produced' = [produced EXCEPT ![n] = k]
         /\ EnterSend(n, <<n, k>>, Retain(refs, <<n, k>>))
  /\ UNCHANGED <<edgeVars, readVars, runVars, callVars, logVars, external>>

\* return out.Send(ctx, b), with the batch the call was given.  Without an
\* edge and a cancelled context it is the same as ReturnNil.
Forward(n) ==
  /\ pc[n] = "body"
  /\ Kind[n] = "processor"
  /\ Out[n] # <<>> \/ ctxDone
  /\ EnterSend(n, cur[n], refs)
  /\ UNCHANGED <<produced, edgeVars, readVars, runVars, callVars, logVars,
                 external>>

\* The push on edge Out[n][idx[n]] succeeded: go on with the next edge, or
\* return nil and let the caller release its own reference.
SendReturnsNil(n, r) ==
  IF Owned(n, sending[n])
  THEN /\ pc' = [pc EXCEPT ![n] = Caller(n)]
       /\ sending' = [sending EXCEPT ![n] = NoBatch]
       /\ idx' = [idx EXCEPT ![n] = 0]
       /\ refs' = Release(r, sending[n])
       /\ UNCHANGED <<err, cur, raised>>
  ELSE CallbackReturns(n, "nil", r)
NextEdge(n, r) ==
  /\ idx' = [idx EXCEPT ![n] = @ + 1]
  /\ refs' = Retain(r, sending[n])
  /\ UNCHANGED <<pc, err, cur, sending, raised>>
AdvanceSend_PastEnd(n, r) ==
  IF idx[n] <= Len(Out[n]) THEN NextEdge(n, r) ELSE SendReturnsNil(n, r)
AdvanceSend_FirstEdgeOnly(n, r) == SendReturnsNil(n, r)
AdvanceSend(n, r) ==
  IF idx[n] < Len(Out[n]) THEN NextEdge(n, r) ELSE SendReturnsNil(n, r)

\* case e.ch <- envelope{batch: b}, with a free slot in the buffer.
PushBuffered(n) ==
  /\ pc[n] = "send"
  /\ LET e == Out[n][idx[n]] IN
     /\ Len(buf[e]) < Cap
     /\ buf' = [buf EXCEPT ![e] = Append(@, sending[n])]
     /\ sent' = Log(sent, e, sending[n])
  /\ AdvanceSend(n, refs)
  /\ UNCHANGED <<produced, closed, readVars, runVars, callVars, got, external>>

\* The same without a buffer: the edge's reader must be receiving, in its
\* select or in drainEdge, which releases the batch at once.
PushRendezvous(n) ==
  /\ pc[n] = "send"
  /\ Cap = 0
  /\ LET e == Out[n][idx[n]] IN
     /\ \/ /\ rpc[e] = "recv"
           /\ rpc' = [rpc EXCEPT ![e] = "offer"]
           /\ held' = [held EXCEPT ![e] = sending[n]]
           /\ AdvanceSend(n, refs)
        \/ /\ rpc[e] = "drain"
           /\ AdvanceSend(n, Release(refs, sending[n]))
           /\ UNCHANGED <<rpc, held>>
     /\ sent' = Log(sent, e, sending[n])
  /\ UNCHANGED <<produced, edgeVars, readersCancelled, mergedClosed, runVars,
                 callVars, got, external>>

\* case <-ctx.Done(): the run's context, or a deadline the stage put on its
\* own.  The callback returns Send's error.
SendCancelled(n) ==
  /\ pc[n] = "send"
  /\ ctxDone \/ n \in Faulty
  /\ LET b == sending[n]
         r == Release(refs, b)
     IN  CallbackReturns(n, "ctx", IF Owned(n, b) THEN Release(r, b) ELSE r)
  /\ UNCHANGED <<produced, edgeVars, readVars, runVars, callVars, logVars,
                 external>>

----------------------------------------------------------------------------
(* The consumer's side of consumeInputs, then the rest of runNode.         *)

ReadDone(n) == ctxDone \/ readersCancelled[n]

\* The rendezvous on merged: the reader of e offers, the consumer receives
\* and calls Process or Consume.
Deliver(e) ==
  LET n == To[e] IN
  /\ pc[n] = "select"
  /\ rpc[e] = "offer"
  /\ pc' = [pc EXCEPT ![n] = "body"]
  /\ cur' = [cur EXCEPT ![n] = held[e]]
  /\ got' = Log(got, e, held[e])
  /\ held' = [held EXCEPT ![e] = NoBatch]
  /\ rpc' = [rpc EXCEPT ![e] = "recv"]
  /\ UNCHANGED <<err, sending, idx, produced, edgeVars, readersCancelled,
                 mergedClosed, runVars, refs, callVars, sent, raised, external>>

\* merged is closed: consumeInputs returns nil.
EndOfInput_CancelsRun(n) ==
  /\ pc[n] = "select"
  /\ mergedClosed[n]
  /\ pc' = [pc EXCEPT ![n] = "check"]
  /\ ctxDone' = TRUE
  /\ UNCHANGED <<err, cur, sending, idx, produced, edgeVars, readVars, recorded,
                 returned, refs, callVars, logVars, raised, external>>
EndOfInput(n) ==
  /\ pc[n] = "select"
  /\ mergedClosed[n]
  /\ pc' = [pc EXCEPT ![n] = "check"]
  /\ UNCHANGED <<err, cur, sending, idx, produced, edgeVars, readVars, runVars,
                 refs, callVars, logVars, raised, external>>

\* case <-readCtx.Done().
SelectCancelled(n) ==
  /\ pc[n] = "select"
  /\ ReadDone(n)
  /\ err' = [err EXCEPT ![n] = IF ctxDone THEN "ctx" ELSE "nil"]
  /\ pc' = [pc EXCEPT ![n] = "stop"]
  /\ UNCHANGED <<cur, sending, idx, produced, edgeVars, readVars, runVars,
                 refs, callVars, logVars, raised, external>>

\* cancel(); cancelReaders(): the whole run stops, not only these readers.
StopReaders_OnlyReaders(n) ==
  /\ pc[n] = "stop"
  /\ readersCancelled' = [readersCancelled EXCEPT ![n] = TRUE]
  /\ pc' = [pc EXCEPT ![n] = "wait"]
  /\ UNCHANGED <<err, cur, sending, idx, produced, edgeVars, rpc, held,
                 mergedClosed, runVars, refs, callVars, logVars, raised, external>>
StopReaders(n) ==
  /\ pc[n] = "stop"
  /\ ctxDone' = TRUE
  /\ readersCancelled' = [readersCancelled EXCEPT ![n] = TRUE]
  /\ pc' = [pc EXCEPT ![n] = "wait"]
  /\ UNCHANGED <<err, cur, sending, idx, produced, edgeVars, rpc, held,
                 mergedClosed, recorded, returned, refs, callVars, logVars,
                 raised, external>>

ReadersExited_AnyOne(n) == \E e \in InEdges(n) : rpc[e] = "exit"
ReadersExited(n) == \A e \in InEdges(n) : rpc[e] = "exit"

\* readers.Wait() returned, and consumeInputs with it.
JoinReaders_WithoutWait(n) ==
  /\ pc[n] = "wait"
  /\ pc' = [pc EXCEPT ![n] = IF err[n] = "nil" THEN "check" ELSE "abort"]
  /\ UNCHANGED <<err, cur, sending, idx, produced, edgeVars, readVars, runVars,
                 refs, callVars, logVars, raised, external>>
JoinReaders(n) ==
  /\ pc[n] = "wait"
  /\ ReadersExited(n)
  /\ pc' = [pc EXCEPT ![n] = IF err[n] = "nil" THEN "check" ELSE "abort"]
  /\ UNCHANGED <<err, cur, sending, idx, produced, edgeVars, readVars, runVars,
                 refs, callVars, logVars, raised, external>>

\* The one ctx.Err() between consumeInputs and Finish.
CheckCtx_Forgotten(n) ==
  /\ pc[n] = "check"
  /\ pc' = [pc EXCEPT ![n] = "finish"]
  /\ finishes' = [finishes EXCEPT ![n] = @ + 1]
  /\ UNCHANGED <<err, cur, sending, idx, produced, edgeVars, readVars, runVars,
                 refs, aborts, logVars, raised, external>>
CheckCtx(n) ==
  /\ pc[n] = "check"
  /\ IF ctxDone
     THEN /\ err' = [err EXCEPT ![n] = "ctx"]
          /\ pc' = [pc EXCEPT ![n] = "abort"]
          /\ UNCHANGED finishes
     ELSE /\ pc' = [pc EXCEPT ![n] = "finish"]
          /\ finishes' = [finishes EXCEPT ![n] = @ + 1]
          /\ UNCHANGED err
  /\ UNCHANGED <<cur, sending, idx, produced, edgeVars, readVars, runVars,
                 refs, aborts, logVars, raised, external>>

\* abortIfAborter.
Abort(n) ==
  /\ pc[n] = "abort"
  /\ aborts' = IF n \in Aborter THEN [aborts EXCEPT ![n] = @ + 1] ELSE aborts
  /\ pc' = [pc EXCEPT ![n] = "fail"]
  /\ UNCHANGED <<err, cur, sending, idx, produced, edgeVars, readVars, runVars,
                 refs, finishes, logVars, raised, external>>

----------------------------------------------------------------------------
(* The stage's goroutine in Run, after runNode.                            *)

IsCancellationErr(n) == err[n] = "ctx"

\* fail: an error of a stage's own replaces a recorded cancellation error.
Preferred_First(n) == IF recorded = NoNode THEN n ELSE recorded
Preferred_OwnOnly(n) ==
  IF recorded = NoNode /\ ~IsCancellationErr(n) THEN n ELSE recorded
Preferred(n) ==
  IF recorded = NoNode THEN n
  ELSE IF IsCancellationErr(recorded) /\ ~IsCancellationErr(n) THEN n
  ELSE recorded

RecordError_WithoutCancel(n) ==
  /\ pc[n] = "fail"
  /\ recorded' = Preferred(n)
  /\ pc' = [pc EXCEPT ![n] = "close"]
  /\ UNCHANGED <<err, cur, sending, idx, produced, edgeVars, readVars, ctxDone,
                 returned, refs, callVars, logVars, raised, external>>
RecordError(n) ==
  /\ pc[n] = "fail"
  /\ recorded' = Preferred(n)
  /\ pc' = [pc EXCEPT ![n] = "cancel"]
  /\ UNCHANGED <<err, cur, sending, idx, produced, edgeVars, readVars, ctxDone,
                 returned, refs, callVars, logVars, raised, external>>

\* fail: cancel(), before any output is closed.
CancelRun(n) ==
  /\ pc[n] = "cancel"
  /\ ctxDone' = TRUE
  /\ pc' = [pc EXCEPT ![n] = "close"]
  /\ UNCHANGED <<err, cur, sending, idx, produced, edgeVars, readVars, recorded,
                 returned, refs, callVars, logVars, raised, external>>

\* closeEdges: one close per outgoing edge, in order.
EdgesToClose_OnlyFirst(n) == IF Out[n] = <<>> THEN 0 ELSE 1
EdgesToClose(n) == Len(Out[n])

CloseEdge(n) ==
  /\ pc[n] = "close"
  /\ idx[n] < EdgesToClose(n)
  /\ closed' = [closed EXCEPT ![Out[n][idx[n] + 1]] = TRUE]
  /\ idx' = [idx EXCEPT ![n] = @ + 1]
  /\ UNCHANGED <<pc, err, cur, sending, produced, buf, readVars, runVars, refs,
                 callVars, logVars, raised, external>>

\* wg.Done().
StageDone(n) ==
  /\ pc[n] = "close"
  /\ idx[n] = EdgesToClose(n)
  /\ pc' = [pc EXCEPT ![n] = "done"]
  /\ UNCHANGED <<err, cur, sending, idx, produced, edgeVars, readVars, runVars,
                 refs, callVars, logVars, raised, external>>

\* wg.Wait() returned; the deferred cancel runs.
RunReturns ==
  /\ ~returned
  /\ \A n \in Node : pc[n] = "done"
  /\ returned' = TRUE
  /\ ctxDone' = TRUE
  /\ UNCHANGED <<stageVars, edgeVars, readVars, recorded, refs, callVars,
                 logVars, raised, external>>

----------------------------------------------------------------------------
(* The goroutines of consumeInputs.                                        *)

ReaderReceives(e) ==
  /\ rpc[e] = "recv"
  /\ buf[e] # <<>>
  /\ held' = [held EXCEPT ![e] = Head(buf[e])]
  /\ buf' = [buf EXCEPT ![e] = Tail(@)]
  /\ rpc' = [rpc EXCEPT ![e] = "offer"]
  /\ UNCHANGED <<stageVars, closed, readersCancelled, mergedClosed, runVars,
                 refs, callVars, logVars, raised, external>>

\* The edge is closed and empty: the reader's select, or the end of the
\* range in drainEdge.
ReaderExits(e) ==
  /\ rpc[e] \in {"recv", "drain"}
  /\ closed[e] /\ buf[e] = <<>>
  /\ rpc' = [rpc EXCEPT ![e] = "exit"]
  /\ UNCHANGED <<stageVars, edgeVars, held, readersCancelled, mergedClosed,
                 runVars, refs, callVars, logVars, raised, external>>

\* case <-readCtx.Done(), in either select; the inner one holds a batch.
ReaderCancelled_KeepsReference(e) ==
  /\ rpc[e] \in {"recv", "offer"}
  /\ ReadDone(To[e])
  /\ held' = [held EXCEPT ![e] = NoBatch]
  /\ rpc' = [rpc EXCEPT ![e] = "drain"]
  /\ UNCHANGED <<stageVars, edgeVars, readersCancelled, mergedClosed, runVars,
                 refs, callVars, logVars, raised, external>>
ReaderCancelled(e) ==
  /\ rpc[e] \in {"recv", "offer"}
  /\ ReadDone(To[e])
  /\ refs' = IF rpc[e] = "offer" THEN Release(refs, held[e]) ELSE refs
  /\ held' = [held EXCEPT ![e] = NoBatch]
  /\ rpc' = [rpc EXCEPT ![e] = "drain"]
  /\ UNCHANGED <<stageVars, edgeVars, readersCancelled, mergedClosed, runVars,
                 callVars, logVars, raised, external>>

DrainEdge_KeepsReference(e) ==
  /\ rpc[e] = "drain"
  /\ buf[e] # <<>>
  /\ buf' = [buf EXCEPT ![e] = Tail(@)]
  /\ UNCHANGED <<stageVars, closed, readVars, runVars, refs, callVars, logVars,
                 raised, external>>
DrainEdge(e) ==
  /\ rpc[e] = "drain"
  /\ buf[e] # <<>>
  /\ refs' = Release(refs, Head(buf[e]))
  /\ buf' = [buf EXCEPT ![e] = Tail(@)]
  /\ UNCHANGED <<stageVars, closed, readVars, runVars, callVars, logVars,
                 raised, external>>

\* readers.Wait(); close(merged)
CloseMerged(n) ==
  /\ InEdges(n) # {}
  /\ ~mergedClosed[n]
  /\ ReadersExited(n)
  /\ mergedClosed' = [mergedClosed EXCEPT ![n] = TRUE]
  /\ UNCHANGED <<stageVars, edgeVars, rpc, held, readersCancelled, runVars,
                 refs, callVars, logVars, raised, external>>

\* The caller cancels the context it passed to Run.
ExternalCancel ==
  /\ Cancellable
  /\ ~ctxDone
  /\ ctxDone' = TRUE
  /\ external' = TRUE
  /\ UNCHANGED <<stageVars, edgeVars, readVars, recorded, returned, refs,
                 callVars, logVars, raised>>

----------------------------------------------------------------------------
Callback(n) ==
  \/ ReturnNil(n) \/ ReturnOwnError(n) \/ ReturnCtxError(n)
  \/ Produce(n) \/ Forward(n)

Send(n) == PushBuffered(n) \/ PushRendezvous(n) \/ SendCancelled(n)

Consume(n) ==
  \/ \E e \in InEdges(n) : Deliver(e)
  \/ EndOfInput(n) \/ SelectCancelled(n) \/ StopReaders(n) \/ JoinReaders(n)
  \/ CheckCtx(n) \/ Abort(n)

Unwind(n) == RecordError(n) \/ CancelRun(n) \/ CloseEdge(n) \/ StageDone(n)

Stage(n) == Callback(n) \/ Send(n) \/ Consume(n) \/ Unwind(n)

Reader(e) ==
  ReaderReceives(e) \/ ReaderExits(e) \/ ReaderCancelled(e) \/ DrainEdge(e)

\* Run has returned and no goroutine is left.
Finished ==
  /\ returned
  /\ \A n \in Node : InEdges(n) # {} => mergedClosed[n]
  /\ UNCHANGED vars

Next ==
  \/ \E n \in Node : Stage(n) \/ CloseMerged(n)
  \/ \E e \in Edge : Reader(e)
  \/ RunReturns \/ ExternalCancel \/ Finished

Spec == Init /\ [][Next]_vars

\* The Go scheduler runs every goroutine that can run, and a callback of a
\* cooperative stage returns.  The caller need not cancel.
Fairness ==
  /\ \A n \in Node : WF_vars(Stage(n)) /\ WF_vars(CloseMerged(n))
  /\ \A e \in Edge : WF_vars(Reader(e))
  /\ WF_vars(RunReturns)

FairSpec == Spec /\ Fairness

----------------------------------------------------------------------------
(* Properties.                                                             *)

Pcs == {"run", "select", "body", "send", "finish", "stop", "wait", "check",
        "abort", "fail", "cancel", "close", "done"}

\* Every variable stays in its domain.
TypeOK ==
  /\ pc \in [Node -> Pcs]
  /\ err \in [Node -> {"nil", "ctx", "own"}]
  /\ cur \in [Node -> Batch \cup {NoBatch}]
  /\ sending \in [Node -> Batch \cup {NoBatch}]
  /\ idx \in [Node -> Nat] /\ \A n \in Node : idx[n] <= Len(Out[n])
  /\ produced \in [Node -> Nat]
  /\ buf \in [Edge -> Seq(Batch)]
  /\ closed \in [Edge -> BOOLEAN]
  /\ rpc \in [Edge -> {"recv", "offer", "drain", "exit"}]
  /\ held \in [Edge -> Batch \cup {NoBatch}]
  /\ readersCancelled \in [Node -> BOOLEAN]
  /\ mergedClosed \in [Node -> BOOLEAN]
  /\ ctxDone \in BOOLEAN
  /\ recorded \in Node \cup {NoNode}
  /\ returned \in BOOLEAN
  /\ refs \in [Batch -> Int]
  /\ aborts \in [Node -> Nat]
  /\ finishes \in [Node -> Nat]
  /\ sent \in [Edge -> Seq(Batch)]
  /\ got \in [Edge -> Seq(Batch)]
  /\ raised \in Seq([stage : Node, late : BOOLEAN])
  /\ external \in BOOLEAN

\* A stage that runNode left with a nil error.
Succeeded(n) == pc[n] \in {"close", "done"} /\ err[n] = "nil"

\* Finish runs only on complete input: when a stage's Finish is called, every
\* upstream stage has returned nil, its edge is closed and empty, its reader is
\* gone, and every batch pushed on the edge has reached Process or Consume.
\* What makes it hard: a reader leaves the same way at the end of a stream and
\* after a cancelled drain, and a failed stage closes its edges too
\* (pipeline.go 295-300, 330-334, 343-347).
FinishBarrier ==
  \A n \in Node : finishes[n] > 0 =>
    \A e \in InEdges(n) :
      /\ Succeeded(From[e])
      /\ closed[e] /\ buf[e] = <<>> /\ rpc[e] = "exit"
      /\ got[e] = sent[e]

\* Abort is called at most once and never together with Finish, whichever of
\* the failure paths a stage leaves by; an Aborter that will not be finished
\* has been aborted by the time its goroutine ends (etl.go 87-95).
FinishXorAbort ==
  \A n \in Node :
    /\ finishes[n] + aborts[n] <= 1
    /\ n \in Aborter /\ pc[n] = "done" => finishes[n] + aborts[n] = 1

\* The ways a reference of batch b is held: by a slot of an edge, by a reader
\* that offers it, by the call that was given it, by Send for the edge it is
\* pushing on, and by the stage that created it until Send returns.
Holders(b) ==
  LET slots == {s \in Edge \X (1 .. Cap) :
                  s[2] <= Len(buf[s[1]]) /\ buf[s[1]][s[2]] = b}
      offers == {e \in Edge : held[e] = b}
      calls == {n \in Node : cur[n] = b}
      sends == {n \in Node : sending[n] = b}
      owners == {n \in sends : Owned(n, b)}
  IN  Cardinality(slots) + Cardinality(offers) + Cardinality(calls)
        + Cardinality(sends) + Cardinality(owners)

\* Reference counts are exact at every step: no path through fan-out, the
\* readers, a failing callback or a cancelled drain leaks a reference or
\* releases one twice (ARCHITECTURE.md, Batch ownership).
RefBalance == \A b \in Batch : refs[b] = Holders(b)

\* Batches leave an edge in the order they were pushed, none twice and none
\* skipped, and a fan-out gives every edge the same sequence: an edge is at
\* most one batch behind the edges before it in n.outgoing.
PrefixOf(s, t) == Len(s) <= Len(t) /\ s = SubSeq(t, 1, Len(s))
InOrder ==
  /\ \A e \in Edge : PrefixOf(got[e], sent[e])
  /\ \A n \in Node : \A i, j \in 1 .. Len(Out[n]) : i < j =>
       LET ahead == sent[Out[n][i]]
           behind == sent[Out[n][j]]
       IN  PrefixOf(behind, ahead) /\ Len(ahead) - Len(behind) <= 1

\* Run returns nil only for a run that did all of its work: every batch sent
\* was delivered on every edge, every processor and sink was finished, and
\* none was aborted.
NilMeansComplete ==
  returned /\ recorded = NoNode =>
    /\ \A e \in Edge : got[e] = sent[e]
    /\ \A n \in Node : \A i, j \in 1 .. Len(Out[n]) :
         sent[Out[n][i]] = sent[Out[n][j]]
    /\ \A n \in Node : Kind[n] # "source" => finishes[n] = 1 /\ aborts[n] = 0

\* Run reports an error if any stage had one, and a cancellation error only
\* if no stage had an error of its own (pipeline.go 271-286).
ErrorPreference ==
  returned =>
    /\ (\E n \in Node : err[n] # "nil") => recorded # NoNode
    /\ (\E n \in Node : err[n] = "own") => err[recorded] = "own"

\* Run waits for everything it started that touches batches: once it returned,
\* no reader runs, every edge is empty and every reference has been released
\* (pipeline.go 410-415).
NothingLeftBehind ==
  returned =>
    /\ \A e \in Edge : rpc[e] = "exit" /\ buf[e] = <<>>
    /\ \A b \in Batch : refs[b] = 0

\* No stage is stopped without a cause: a stage sees the context cancelled
\* only if the caller cancelled it or some callback returned an error.
CancelHasCause ==
  (\E n \in Node : err[n] # "nil") => external \/ raised # <<>>

\* Once the context is cancelled, by whoever, Run returns, even when a source
\* never stops by itself and a stage downstream of it has failed: its consumer
\* cancels the run before it waits for its readers (pipeline.go 417-420).
CancelUnwinds == ctxDone ~> returned

\* A failing callback stops the run.
FailureUnwinds == raised # <<>> ~> returned

\* Run returns when every source ends: bounded edges never deadlock a graph
\* with fan-out and merge, whatever order the stages consume in.
Terminates == <>returned

----------------------------------------------------------------------------
(* Two statements of the documentation, as the runs that refute them use.  *)

OwnFailures(late) ==
  {raised[i].stage : i \in {i \in 1 .. Len(raised) :
                              raised[i].late = late /\ err[raised[i].stage] = "own"}}

\* "Preferring a non-cancellation error keeps the reported error the actual
\* root cause" (pipeline.go 273-274): an error a stage returned after the run
\* was cancelled is not reported in place of the failure that cancelled it.
RootCauseReported ==
  returned /\ OwnFailures(FALSE) # {} => recorded \in OwnFailures(FALSE)

\* "Only a stage's own returned error is reported, not the mere fact that ctx
\* was canceled" (pipeline.go 232-233): when no callback returned an error, Run
\* returns nil.
OnlyStageErrorsReported == returned /\ raised = <<>> => recorded = NoNode
=============================================================================
