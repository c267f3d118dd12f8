------------------------------ MODULE FileSink ------------------------------
(***************************************************************************)
(* filesink.Sink (src/filesink/sink.go) attached to one node of a running  *)
(* pipeline.  The stage calls it the way runNode does: Consume for every   *)
(* batch, then Finish, or Abort when a Consume failed or the run was       *)
(* cancelled.  The run's context may be cancelled at any step.             *)
(*                                                                         *)
(* The blob library is external: a writer is created under a context; its  *)
(* Close looks at that context, gives up if it is cancelled, and publishes *)
(* the object otherwise.  The context may be cancelled between the look    *)
(* and the publication, and not every backend discards all of a write that *)
(* is given up.  What a format writes is abstracted to the batches it      *)
(* encoded, whether an encoding was cut short, and whether the footer is   *)
(* there.                                                                  *)
(*                                                                         *)
(* A definition X_Y is X with the mistake Y; no action uses it.            *)
(***************************************************************************)
EXTENDS Integers

CONSTANTS
  MaxBatches,  \* bound: batches the stage receives
  NoObject     \* nothing is stored at the key

Stream == [batches : 0 .. MaxBatches, ends : {"rows", "torn", "footer"}]

ASSUME ParameterAssumption == MaxBatches \in Nat /\ NoObject \notin Stream

VARIABLES
  conf,      \* how the sink was built: writerBacked, constructErr, and
             \* explicitSchema (WithSchema was given); discards: the backend
             \* leaves nothing of a write that is given up
  pc,        \* where the stage's goroutine is, inside or between calls
  call,      \* the call it is in: "consume" or "finish"
  ctxDone,   \* the run's context is cancelled
  started, hasWriter, aborted,  \* s.started, s.bw # nil, s.aborted
  cancelled, \* the cancel function of writeCtx was called
  opens, closes,  \* blob writers created, and calls of Close on them
  stream,    \* what the format has written
  object,    \* what is stored at the key
  accepted   \* batches for which Consume returned nil

sinkVars == <<started, hasWriter, aborted>>
blobVars == <<cancelled, opens, closes, object>>
vars == <<conf, pc, call, ctxDone, sinkVars, blobVars, stream, accepted>>

\* New and NewToWriter, with or without a nil destination or format, and
\* with or without WithSchema, over either kind of backend.
Configs == [writerBacked : BOOLEAN, constructErr : BOOLEAN, explicitSchema : BOOLEAN,
            discards : BOOLEAN]

Init ==
  /\ conf \in Configs
  /\ pc = "idle" /\ call = "consume"
  /\ ctxDone = FALSE
  /\ started = FALSE /\ hasWriter = FALSE /\ aborted = FALSE
  /\ cancelled = FALSE /\ opens = 0 /\ closes = 0 /\ object = NoObject
  /\ stream = [batches |-> 0, ends |-> "rows"]
  /\ accepted = 0

----------------------------------------------------------------------------
\* An error returned by Consume makes runNode abort the sink; one returned by
\* Finish does not.
AfterError == IF call = "consume" THEN "abort" ELSE "failed"
AfterOpen  == IF call = "consume" THEN "write" ELSE "closeFormat"

\* writeCtx is derived from the run's context.
WriteCtxDone_Detached == cancelled
WriteCtxDone == cancelled \/ ctxDone

\* What may be at the key after a Close that gave up: "gocloud's cancel-then-Close
\* pattern isn't guaranteed atomic across every backend".
GivenUp ==
  {object} \cup
  (IF conf.discards THEN {} ELSE [batches : 0 .. stream.batches, ends : {"torn", stream.ends}])

\* abort(): cancel, then close, at most once.
AbortWriter_WithoutCancel ==
  IF aborted THEN UNCHANGED <<aborted, cancelled, closes, object>>
  ELSE /\ aborted' = TRUE
       /\ closes' = IF hasWriter THEN closes + 1 ELSE closes
       /\ IF hasWriter /\ ~WriteCtxDone THEN object' = stream ELSE UNCHANGED object
       /\ UNCHANGED cancelled
AbortWriter ==
  IF aborted THEN UNCHANGED <<aborted, cancelled, closes, object>>
  ELSE /\ aborted' = TRUE
       /\ cancelled' = (cancelled \/ hasWriter)
       /\ closes' = IF hasWriter THEN closes + 1 ELSE closes
       /\ IF hasWriter THEN object' \in GivenUp ELSE UNCHANGED object

\* Consume: the batch has a schema and a record, or one of them is nil.
Consume(valid) ==
  /\ pc = "idle"
  /\ accepted < MaxBatches
  /\ pc' = IF ~valid THEN "abort" ELSE IF started THEN "write" ELSE "open"
  /\ UNCHANGED <<conf, call, ctxDone, sinkVars, blobVars, stream, accepted>>

\* open: the construction error, or a format writer over the caller's writer.
OpenOnWriter(ok) ==
  /\ pc = "open"
  /\ conf.constructErr \/ conf.writerBacked
  /\ started' = (ok /\ ~conf.constructErr)
  /\ pc' = IF started' THEN AfterOpen ELSE AfterError
  /\ UNCHANGED <<conf, call, ctxDone, hasWriter, aborted, blobVars, stream,
                 accepted>>

\* open: bucket.NewWriter.
NewBlobWriter(ok) ==
  /\ pc = "open"
  /\ ~conf.constructErr /\ ~conf.writerBacked
  /\ opens' = IF ok THEN opens + 1 ELSE opens
  /\ cancelled' = ~ok
  /\ pc' = IF ok THEN "newFormat" ELSE AfterError
  /\ UNCHANGED <<conf, call, ctxDone, sinkVars, closes, object, stream, accepted>>

\* open: format.NewWriter over the blob writer; when it fails, open cancels
\* and closes the writer itself, before the sink knows of it.
NewFormatWriter_Leaks(ok) ==
  /\ pc = "newFormat"
  /\ started' = ok /\ hasWriter' = ok
  /\ cancelled' = ~ok
  /\ pc' = IF ok THEN AfterOpen ELSE AfterError
  /\ UNCHANGED <<conf, call, ctxDone, aborted, opens, closes, object, stream,
                 accepted>>
NewFormatWriter(ok) ==
  /\ pc = "newFormat"
  /\ started' = ok /\ hasWriter' = ok
  /\ cancelled' = ~ok
  /\ closes' = IF ok THEN closes ELSE closes + 1
  /\ IF ok THEN UNCHANGED object ELSE object' \in GivenUp
  /\ pc' = IF ok THEN AfterOpen ELSE AfterError
  /\ UNCHANGED <<conf, call, ctxDone, aborted, opens, stream, accepted>>

\* Consume: rw.Write.  A write that fails may have written a part.
Write(ok) ==
  /\ pc = "write"
  /\ IF ok
     THEN /\ stream' = [stream EXCEPT !.batches = @ + 1]
          /\ accepted' = accepted + 1
          /\ pc' = "idle"
          /\ UNCHANGED <<aborted, cancelled, closes, object>>
     ELSE /\ stream' = [stream EXCEPT !.ends = "torn"]
          /\ AbortWriter
          /\ pc' = "abort"
          /\ UNCHANGED accepted
  /\ UNCHANGED <<conf, call, ctxDone, started, hasWriter, opens>>

\* runNode: the input ended; Finish runs unless the context is cancelled.
EndOfInput ==
  /\ pc = "idle"
  /\ pc' = IF ctxDone THEN "abort" ELSE "finish"
  /\ call' = IF ctxDone THEN call ELSE "finish"
  /\ UNCHANGED <<conf, ctxDone, sinkVars, blobVars, stream, accepted>>

\* Finish: the construction error, then nothing to write, then an empty
\* object for an explicit schema.
Finish_IgnoresSchema ==
  /\ pc = "finish"
  /\ pc' = IF conf.constructErr THEN "failed"
           ELSE IF started THEN "closeFormat" ELSE "finished"
  /\ UNCHANGED <<conf, call, ctxDone, sinkVars, blobVars, stream, accepted>>
Finish ==
  /\ pc = "finish"
  /\ pc' = IF conf.constructErr THEN "failed"
           ELSE IF started THEN "closeFormat"
           ELSE IF conf.explicitSchema THEN "open" ELSE "finished"
  /\ UNCHANGED <<conf, call, ctxDone, sinkVars, blobVars, stream, accepted>>

\* Finish: rw.Close writes the format's footer.
CloseFormat(ok) ==
  /\ pc = "closeFormat"
  /\ IF ok
     THEN /\ stream' = [stream EXCEPT !.ends = "footer"]
          /\ pc' = IF hasWriter THEN "commit" ELSE "finished"
          /\ UNCHANGED <<aborted, cancelled, closes, object>>
     ELSE /\ stream' = [stream EXCEPT !.ends = "torn"]
          /\ AbortWriter
          /\ pc' = "failed"
  /\ UNCHANGED <<conf, call, ctxDone, started, hasWriter, opens, accepted>>

\* Finish: bw.Close, up to its look at the context.
Commit ==
  /\ pc = "commit"
  /\ closes' = closes + 1
  /\ IF WriteCtxDone
     THEN cancelled' = TRUE /\ object' \in GivenUp /\ pc' = "failed"
     ELSE pc' = "publish" /\ UNCHANGED <<cancelled, object>>
  /\ UNCHANGED <<conf, call, ctxDone, sinkVars, opens, stream, accepted>>

\* bw.Close publishes the object.  When that fails, because of a cancellation that
\* came since or for another reason, the object may be there all the same.
Publish(ok) ==
  /\ pc = "publish"
  /\ IF ok THEN object' = stream ELSE object' \in {stream} \cup GivenUp
  /\ cancelled' = (cancelled \/ ~ok)
  /\ pc' = IF ok THEN "finished" ELSE "failed"
  /\ UNCHANGED <<conf, call, ctxDone, sinkVars, opens, closes, stream, accepted>>

\* Abort, called by runNode.
Abort ==
  /\ pc = "abort"
  /\ AbortWriter
  /\ pc' = "aborted"
  /\ UNCHANGED <<conf, call, ctxDone, started, hasWriter, opens, stream, accepted>>

\* Another stage failed, or the caller cancelled.
CancelRun ==
  /\ ~ctxDone
  /\ ctxDone' = TRUE
  /\ UNCHANGED <<conf, pc, call, sinkVars, blobVars, stream, accepted>>

Ended == pc \in {"finished", "failed", "aborted"}

Terminated == Ended /\ ctxDone /\ UNCHANGED vars

Next ==
  \/ \E ok \in BOOLEAN :
       \/ Consume(ok) \/ OpenOnWriter(ok) \/ NewBlobWriter(ok)
       \/ NewFormatWriter(ok) \/ Write(ok) \/ CloseFormat(ok) \/ Publish(ok)
  \/ EndOfInput \/ Finish \/ Commit \/ Abort \/ CancelRun \/ Terminated

Spec == Init /\ [][Next]_vars

----------------------------------------------------------------------------
\* Every variable stays in its domain.
TypeOK ==
  /\ conf \in Configs
  /\ pc \in {"idle", "open", "newFormat", "write", "finish", "closeFormat",
             "commit", "publish", "abort", "finished", "failed", "aborted"}
  /\ call \in {"consume", "finish"}
  /\ ctxDone \in BOOLEAN
  /\ started \in BOOLEAN /\ hasWriter \in BOOLEAN /\ aborted \in BOOLEAN
  /\ cancelled \in BOOLEAN
  /\ opens \in Nat /\ closes \in Nat
  /\ stream \in Stream
  /\ object \in Stream \cup {NoObject}
  /\ accepted \in 0 .. MaxBatches

\* A partial file is never published.  Whatever fails, the writer of a stream
\* without its footer is closed only after its context was cancelled; so, over a
\* backend that discards such a write, what is stored at the key has every batch
\* Consume accepted, complete, with the format's footer, and was put there by
\* Finish.  "Best-effort": over another backend a part may remain, but never after
\* a Finish that returned nil (sink.go 183-201, 240-242, 270-285).
NoPartialObject ==
  LET whole == [batches |-> accepted, ends |-> "footer"] IN
  /\ closes > 0 => stream = whole \/ cancelled
  /\ object # NoObject /\ (conf.discards \/ pc = "finished") =>
       object = whole /\ pc \in {"finished", "failed"}

\* When Finish returns nil the destination is complete: a stream with its
\* footer, or a stored object; a sink that received no batch and has no
\* explicit schema has written nothing (sink.go 45-56).
FinishCommits ==
  pc = "finished" =>
    IF accepted = 0 /\ ~conf.explicitSchema
    THEN opens = 0 /\ stream = [batches |-> 0, ends |-> "rows"]
    ELSE /\ stream = [batches |-> accepted, ends |-> "footer"]
         /\ conf.writerBacked \/ object = stream

\* No blob writer is closed twice, and once the stage has ended by whichever
\* path (a failing open, write, close or commit, or an abort of the run), every
\* writer it opened has been closed and, unless it was committed, its context
\* cancelled (sink.go 240-242, 270-292).
WriterReleased ==
  /\ closes <= opens
  /\ Ended => closes = opens
  /\ Ended /\ pc # "finished" /\ opens > 0 => cancelled

\* Once the run is cancelled, even while Finish is running, the sink begins no
\* publication: what is stored after that comes from a Close that had looked at the
\* context before, or remains of a write given up over a backend that does not
\* discard it (sink.go 194-200, 203-209).
CancelledRunBeginsNoPublication ==
  [][ctxDone => /\ pc' = "publish" => pc = "publish"
                /\ object' # object /\ conf.discards => pc = "publish"]_vars
=============================================================================
