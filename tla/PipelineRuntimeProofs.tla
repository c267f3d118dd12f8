----------------------- MODULE PipelineRuntimeProofs -----------------------
(***************************************************************************)
(* Theorems about PipelineRuntime for every graph, buffer size and set of  *)
(* faulty, endless or aborting stages, in four parts: the types of its     *)
(* variables and when Finish runs; how a run ends and in which order it    *)
(* delivers; the references to batches; and that it implements Lifecycle.  *)
(***************************************************************************)
EXTENDS PipelineRefinement, SequenceTheorems, FunctionTheorems, FiniteSetTheorems, TLAPS

----------------------------------------------------------------------------
(***************************************************************************)
(* Part 1.  The types of the variables, and that Finish runs on complete   *)
(* input only.                                                             *)
(***************************************************************************)

\* What the place of a goroutine says about the batch it works on.
StageShape ==
  \A n \in Node :
    /\ pc[n] = "run" => Kind[n] = "source"
    /\ pc[n] = "body" => Kind[n] # "source" /\ finishes[n] = 0
    /\ pc[n] = "finish" => Kind[n] # "source" /\ finishes[n] > 0
    /\ pc[n] \in {"select", "stop", "wait", "check"} =>
         Kind[n] # "source" /\ finishes[n] = 0
    /\ pc[n] = "send" => sending[n] \in Batch /\ idx[n] \in 1 .. Len(Out[n])
    /\ pc[n] \in {"body", "send"} /\ Caller(n) = "body" => cur[n] \in Batch

ReaderShape == \A e \in Edge : rpc[e] = "offer" => held[e] \in Batch

Shape == StageShape /\ ReaderShape

TypeInv == TypeOK /\ Shape

----------------------------------------------------------------------------
(* Facts about the graph and about sequences.                              *)

LEMMA GraphFacts ==
  /\ From \in [Edge -> Node] /\ To \in [Edge -> Node]
  /\ Out \in [Node -> Seq(Edge)]
  /\ \A n \in Node : Len(Out[n]) \in Nat
  /\ \A n \in Node : Out[n] = <<>> \/ 1 <= Len(Out[n])
  /\ \A n \in Node : \A i \in 1 .. Len(Out[n]) : Out[n][i] \in Edge /\ From[Out[n][i]] = n
BY GraphAssumption DEF GraphAssumption

LEMMA ParameterFacts ==
  /\ Cap \in Nat
  /\ Limit \in [Node -> Nat]
  /\ \A n \in Endless : Kind[n] = "source" /\ Limit[n] > 0
  /\ Traced \in BOOLEAN
  /\ NoBatch \notin Batch
BY ParameterAssumption DEF ParameterAssumption

LEMMA AppendTyped ==
  ASSUME NEW S, NEW s \in Seq(S), NEW x \in S
  PROVE  Append(s, x) \in Seq(S)
OBVIOUS

LEMMA HeadTailTyped ==
  ASSUME NEW S, NEW s \in Seq(S), s # <<>>
  PROVE  Head(s) \in S /\ Tail(s) \in Seq(S)
OBVIOUS

LEMMA LogTyped ==
  ASSUME NEW history \in [Edge -> Seq(Batch)], NEW e \in Edge, NEW b \in Batch
  PROVE  Log(history, e, b) \in [Edge -> Seq(Batch)]
BY AppendTyped DEF Log

LEMMA CountTyped ==
  ASSUME NEW r \in [Batch -> Int], NEW b \in Batch
  PROVE  Retain(r, b) \in [Batch -> Int] /\ Release(r, b) \in [Batch -> Int]
<1>1. r[b] \in Int
  OBVIOUS
<1> QED BY <1>1 DEF Retain, Release

LEMMA CallerTyped ==
  ASSUME NEW n \in Node
  PROVE  /\ Caller(n) \in CallbackPc
         /\ Caller(n) = "run" <=> Kind[n] = "source"
         /\ Caller(n) = "body" <=> Kind[n] # "source" /\ ~(finishes[n] > 0)
BY DEF Caller, CallbackPc

----------------------------------------------------------------------------
(* Type correctness.  TypeOK is not inductive: where a goroutine is decides *)
(* that the batch and the edge it works on exist.                          *)

LEMMA CallbackReturnsTyped ==
  ASSUME TypeInv, NEW n \in Node, NEW x \in {"nil", "ctx", "own"},
         NEW r \in [Batch -> Int],
         CallbackReturns(n, x, r)
  PROVE  /\ refs' \in [Batch -> Int]
         /\ cur' \in [Node -> Batch \cup {NoBatch}]
         /\ sending' \in [Node -> Batch \cup {NoBatch}]
         /\ idx' \in [Node -> Nat] /\ \A m \in Node : idx'[m] <= Len(Out[m])
         /\ err' \in [Node -> {"nil", "ctx", "own"}]
         /\ raised' \in Seq([stage : Node, late : BOOLEAN])
         /\ pc' \in [Node -> Pcs]
<1>1. refs' \in [Batch -> Int]
  BY DEF CallbackReturns, DeferredRelease, TypeInv, TypeOK
<1>2. /\ cur' \in [Node -> Batch \cup {NoBatch}]
      /\ sending' \in [Node -> Batch \cup {NoBatch}]
  BY DEF CallbackReturns, TypeInv, TypeOK
<1>3. idx' \in [Node -> Nat] /\ \A m \in Node : idx'[m] <= Len(Out[m])
  BY GraphFacts DEF CallbackReturns, TypeInv, TypeOK
<1>4. err' \in [Node -> {"nil", "ctx", "own"}]
  BY DEF CallbackReturns, TypeInv, TypeOK
<1>5. raised' \in Seq([stage : Node, late : BOOLEAN])
  <2>1. [stage |-> n, late |-> ctxDone] \in [stage : Node, late : BOOLEAN]
    BY DEF TypeInv, TypeOK
  <2>2. raised \in Seq([stage : Node, late : BOOLEAN])
    BY DEF TypeInv, TypeOK
  <2>3. Append(raised, [stage |-> n, late |-> ctxDone])
           \in Seq([stage : Node, late : BOOLEAN])
    BY <2>1, <2>2, AppendTyped
  <2> QED BY <2>2, <2>3 DEF CallbackReturns
<1>6. pc' \in [Node -> Pcs]
  BY DEF CallbackReturns, AfterCallback, Pcs, TypeInv, TypeOK
<1> QED BY <1>1, <1>2, <1>3, <1>4, <1>5, <1>6

LEMMA CallbackReturnsShaped ==
  ASSUME TypeInv, NEW n \in Node, NEW x \in {"nil", "ctx", "own"}, NEW r,
         pc[n] \in CallbackPc \cup {"send"},
         CallbackReturns(n, x, r), UNCHANGED finishes
  PROVE  StageShape'
BY CallerTyped DEF CallbackReturns, AfterCallback, CallbackPc, TypeInv, TypeOK, Shape,
   StageShape, Caller

\* The variables that Send and a returning callback change are in their types.
SendTyped ==
  /\ refs \in [Batch -> Int]
  /\ cur \in [Node -> Batch \cup {NoBatch}]
  /\ sending \in [Node -> Batch \cup {NoBatch}]
  /\ idx \in [Node -> Nat] /\ \A m \in Node : idx[m] <= Len(Out[m])
  /\ err \in [Node -> {"nil", "ctx", "own"}]
  /\ raised \in Seq([stage : Node, late : BOOLEAN])
  /\ pc \in [Node -> Pcs]

LEMMA EnterSendTyped ==
  ASSUME TypeInv, NEW n \in Node, NEW b \in Batch, NEW r \in [Batch -> Int],
         pc[n] \in CallbackPc, EnterSend(n, b, r), UNCHANGED finishes
  PROVE  SendTyped' /\ StageShape'
<1>1. CASE ctxDone
  <2>1. CallbackReturns(n, "ctx", refs) /\ refs \in [Batch -> Int]
    BY <1>1 DEF EnterSend, TypeInv, TypeOK
  <2> QED BY <2>1, CallbackReturnsTyped, CallbackReturnsShaped DEF SendTyped
<1>2. CASE ~ctxDone /\ Out[n] = <<>>
  BY <1>2 DEF EnterSend, EnterLoop, SendTyped, TypeInv, TypeOK, Shape, StageShape, Caller
<1>3. CASE ~ctxDone /\ Out[n] # <<>>
  <2>1. /\ pc' = [pc EXCEPT ![n] = "send"] /\ sending' = [sending EXCEPT ![n] = b]
        /\ idx' = [idx EXCEPT ![n] = 1] /\ refs' = Retain(r, b)
        /\ UNCHANGED <<err, cur, raised>>
    BY <1>3 DEF EnterSend, EnterLoop
  <2>2. refs' \in [Batch -> Int]
    BY <2>1, CountTyped
  <2>3. 1 <= Len(Out[n]) /\ Len(Out[n]) \in Nat
    BY <1>3, GraphFacts
  <2>4. idx' \in [Node -> Nat] /\ \A m \in Node : idx'[m] <= Len(Out[m])
    BY <2>1, <2>3 DEF TypeInv, TypeOK
  <2>5. SendTyped'
    BY <2>1, <2>2, <2>4 DEF SendTyped, TypeInv, TypeOK, Pcs
  <2>6. StageShape'
    BY <2>1, <2>3, CallerTyped DEF TypeInv, TypeOK, Shape, StageShape, Caller, CallbackPc
  <2> QED BY <2>5, <2>6
<1> QED BY <1>1, <1>2, <1>3

LEMMA AdvanceSendTyped ==
  ASSUME TypeInv, NEW n \in Node, NEW r \in [Batch -> Int],
         pc[n] = "send", AdvanceSend(n, r), UNCHANGED finishes
  PROVE  SendTyped' /\ StageShape'
<1>1. sending[n] \in Batch /\ idx[n] \in 1 .. Len(Out[n]) /\ Len(Out[n]) \in Nat
  BY GraphFacts DEF TypeInv, Shape, StageShape
<1>2. Retain(r, sending[n]) \in [Batch -> Int] /\ Release(r, sending[n]) \in [Batch -> Int]
  BY <1>1, CountTyped
<1>3. CASE idx[n] < Len(Out[n])
  <2>1. /\ idx' = [idx EXCEPT ![n] = idx[n] + 1] /\ refs' = Retain(r, sending[n])
        /\ UNCHANGED <<pc, err, cur, sending, raised>>
    BY <1>3 DEF AdvanceSend, NextEdge
  <2>2. idx[n] + 1 \in 1 .. Len(Out[n])
    BY <1>1, <1>3
  <2>3. idx' \in [Node -> Nat] /\ \A m \in Node : idx'[m] <= Len(Out[m])
    BY <2>1, <2>2 DEF TypeInv, TypeOK
  <2>4. SendTyped'
    BY <1>2, <2>1, <2>3 DEF SendTyped, TypeInv, TypeOK
  <2>5. StageShape'
    BY <2>1, <2>2 DEF TypeInv, TypeOK, Shape, StageShape, Caller
  <2> QED BY <2>4, <2>5
<1>4. CASE ~(idx[n] < Len(Out[n])) /\ Owned(n, sending[n])
  <2>1. /\ pc' = [pc EXCEPT ![n] = Caller(n)]
        /\ sending' = [sending EXCEPT ![n] = NoBatch]
        /\ idx' = [idx EXCEPT ![n] = 0] /\ refs' = Release(r, sending[n])
        /\ UNCHANGED <<err, cur, raised>>
    BY <1>4 DEF AdvanceSend, SendReturnsNil
  <2>2. Caller(n) \in Pcs
    BY CallerTyped DEF Pcs, CallbackPc
  <2>3. idx' \in [Node -> Nat] /\ \A m \in Node : idx'[m] <= Len(Out[m])
    BY <2>1, GraphFacts DEF TypeInv, TypeOK
  <2>4. SendTyped'
    BY <1>2, <2>1, <2>2, <2>3 DEF SendTyped, TypeInv, TypeOK
  <2>5. StageShape'
    BY <2>1, CallerTyped DEF TypeInv, TypeOK, Shape, StageShape, Caller, CallbackPc
  <2> QED BY <2>4, <2>5
<1>5. CASE ~(idx[n] < Len(Out[n])) /\ ~Owned(n, sending[n])
  <2>1. CallbackReturns(n, "nil", r)
    BY <1>5 DEF AdvanceSend, SendReturnsNil
  <2> QED BY <2>1, CallbackReturnsTyped, CallbackReturnsShaped DEF SendTyped
<1> QED BY <1>3, <1>4, <1>5

LEMMA TypeInvInit == Init => TypeInv
<1> SUFFICES ASSUME Init PROVE TypeInv
  OBVIOUS
<1>1. TypeOK
  <2>1. idx \in [Node -> Nat] /\ \A n \in Node : idx[n] <= Len(Out[n])
    BY GraphFacts DEF Init
  <2>2. buf \in [Edge -> Seq(Batch)] /\ sent \in [Edge -> Seq(Batch)]
        /\ got \in [Edge -> Seq(Batch)]
        /\ raised \in Seq([stage : Node, late : BOOLEAN])
    BY DEF Init
  <2>3. pc \in [Node -> Pcs]
    BY DEF Init, Pcs
  <2>4. /\ err \in [Node -> {"nil", "ctx", "own"}]
        /\ cur \in [Node -> Batch \cup {NoBatch}]
        /\ sending \in [Node -> Batch \cup {NoBatch}]
        /\ produced \in [Node -> Nat]
        /\ aborts \in [Node -> Nat] /\ finishes \in [Node -> Nat]
    BY DEF Init
  <2>5. /\ closed \in [Edge -> BOOLEAN]
        /\ rpc \in [Edge -> {"recv", "offer", "drain", "exit"}]
        /\ held \in [Edge -> Batch \cup {NoBatch}]
        /\ readersCancelled \in [Node -> BOOLEAN]
        /\ mergedClosed \in [Node -> BOOLEAN]
    BY DEF Init
  <2>6. /\ ctxDone \in BOOLEAN /\ returned \in BOOLEAN /\ external \in BOOLEAN
        /\ recorded \in Node \cup {NoNode}
    BY DEF Init
  <2>7. refs \in [Batch -> Int]
    BY DEF Init
  <2> QED BY <2>1, <2>2, <2>3, <2>4, <2>5, <2>6, <2>7 DEF TypeOK
<1>2. Shape
  BY DEF Init, Shape, StageShape, ReaderShape, Caller
<1> QED BY <1>1, <1>2 DEF TypeInv

LEMMA TypeInvNext == TypeInv /\ [Next]_vars => TypeInv'
<1> SUFFICES ASSUME TypeInv, [Next]_vars PROVE TypeInv'
  OBVIOUS
<1>1. CASE UNCHANGED vars
  BY <1>1 DEF vars, stageVars, edgeVars, readVars, runVars, callVars, logVars,
     TypeInv, TypeOK, Shape, StageShape, ReaderShape, Caller
<1>2. ASSUME NEW n \in Node, ReturnNil(n) PROVE TypeInv'
  <2>1. Shape'
    BY <1>2, CallbackReturnsShaped DEF ReturnNil, callVars, readVars, TypeInv, TypeOK,
       Shape, ReaderShape
  <2>2. TypeOK'
    BY <1>2, CallbackReturnsTyped DEF ReturnNil, edgeVars, readVars, runVars,
       callVars, logVars, TypeInv, TypeOK
  <2> QED BY <2>1, <2>2 DEF TypeInv
<1>3. ASSUME NEW n \in Node, ReturnOwnError(n) PROVE TypeInv'
  <2>1. Shape'
    BY <1>3, CallbackReturnsShaped DEF ReturnOwnError, callVars, readVars, TypeInv, TypeOK,
       Shape, ReaderShape
  <2>2. TypeOK'
    BY <1>3, CallbackReturnsTyped DEF ReturnOwnError, edgeVars, readVars, runVars,
       callVars, logVars, TypeInv, TypeOK
  <2> QED BY <2>1, <2>2 DEF TypeInv
<1>4. ASSUME NEW n \in Node, ReturnCtxError(n) PROVE TypeInv'
  <2>1. Shape'
    BY <1>4, CallbackReturnsShaped DEF ReturnCtxError, callVars, readVars, TypeInv, TypeOK,
       Shape, ReaderShape
  <2>2. TypeOK'
    BY <1>4, CallbackReturnsTyped DEF ReturnCtxError, edgeVars, readVars, runVars,
       callVars, logVars, TypeInv, TypeOK
  <2> QED BY <2>1, <2>2 DEF TypeInv
<1>5. ASSUME NEW n \in Node, Produce(n) PROVE TypeInv'
  <2> DEFINE k == IF produced[n] < Limit[n] THEN produced[n] + 1 ELSE Limit[n]
  <2>1. k \in 1 .. Limit[n]
    <3>1. produced[n] \in Nat /\ Limit[n] \in Nat
      BY ParameterFacts DEF TypeInv, TypeOK
    <3>2. produced[n] < Limit[n] \/ Limit[n] > 0
      BY <1>5, ParameterFacts DEF Produce
    <3> QED BY <3>1, <3>2
  <2>2. <<n, k>> \in Batch
    BY <2>1 DEF Batch
  <2>3. /\ pc[n] \in CallbackPc /\ produced' = [produced EXCEPT ![n] = k]
        /\ EnterSend(n, <<n, k>>, Retain(refs, <<n, k>>))
        /\ UNCHANGED <<edgeVars, readVars, runVars, callVars, logVars, external>>
    BY <1>5 DEF Produce
  <2>4. Retain(refs, <<n, k>>) \in [Batch -> Int]
    BY <2>2, CountTyped DEF TypeInv, TypeOK
  <2>5. UNCHANGED finishes
    BY <2>3 DEF callVars
  <2>6. SendTyped' /\ StageShape'
    BY <2>2, <2>3, <2>4, <2>5, EnterSendTyped
  <2>7. produced' \in [Node -> Nat]
    BY <2>1, <2>3, ParameterFacts DEF TypeInv, TypeOK
  <2>8. TypeOK'
    BY <2>3, <2>6, <2>7 DEF SendTyped, edgeVars, readVars, runVars, callVars, logVars,
       TypeInv, TypeOK
  <2>9. ReaderShape'
    BY <2>3 DEF readVars, TypeInv, Shape, ReaderShape
  <2> QED BY <2>6, <2>8, <2>9 DEF TypeInv, Shape
<1>6. ASSUME NEW n \in Node, Forward(n) PROVE TypeInv'
  <2>1. pc[n] \in CallbackPc /\ cur[n] \in Batch /\ refs \in [Batch -> Int]
    BY <1>6 DEF Forward, CallbackPc, TypeInv, TypeOK, Shape, StageShape, Caller
  <2>2. SendTyped' /\ StageShape'
    BY <1>6, <2>1, EnterSendTyped DEF Forward, callVars
  <2>3. TypeOK'
    BY <1>6, <2>2 DEF Forward, SendTyped, edgeVars, readVars, runVars, callVars, logVars,
       TypeInv, TypeOK
  <2>4. ReaderShape'
    BY <1>6 DEF Forward, readVars, TypeInv, Shape, ReaderShape
  <2> QED BY <2>2, <2>3, <2>4 DEF TypeInv, Shape
<1>7. ASSUME NEW n \in Node, PushBuffered(n) PROVE TypeInv'
  <2> DEFINE e == Out[n][idx[n]]
  <2>1. e \in Edge /\ sending[n] \in Batch
    BY <1>7, GraphFacts DEF PushBuffered, TypeInv, Shape, StageShape
  <2>2. buf' \in [Edge -> Seq(Batch)] /\ sent' \in [Edge -> Seq(Batch)]
    <3>1. Append(buf[e], sending[n]) \in Seq(Batch)
      BY <2>1, AppendTyped DEF TypeInv, TypeOK
    <3>2. Log(sent, e, sending[n]) \in [Edge -> Seq(Batch)]
      BY <2>1, LogTyped DEF TypeInv, TypeOK
    <3> QED BY <1>7, <2>1, <3>1, <3>2 DEF PushBuffered, TypeInv, TypeOK
  <2>3. SendTyped' /\ StageShape'
    BY <1>7, AdvanceSendTyped DEF PushBuffered, callVars, TypeInv, TypeOK
  <2>4. TypeOK'
    BY <1>7, <2>2, <2>3 DEF PushBuffered, SendTyped, readVars, runVars, callVars,
       TypeInv, TypeOK
  <2>5. ReaderShape'
    BY <1>7 DEF PushBuffered, readVars, TypeInv, Shape, ReaderShape
  <2> QED BY <2>3, <2>4, <2>5 DEF TypeInv, Shape
<1>8. ASSUME NEW n \in Node, PushRendezvous(n) PROVE TypeInv'
  <2> DEFINE e == Out[n][idx[n]]
  <2>1. e \in Edge /\ sending[n] \in Batch
    BY <1>8, GraphFacts DEF PushRendezvous, TypeInv, Shape, StageShape
  <2>2. sent' \in [Edge -> Seq(Batch)]
    BY <1>8, <2>1, LogTyped DEF PushRendezvous, TypeInv, TypeOK
  <2>3. /\ rpc' \in [Edge -> {"recv", "offer", "drain", "exit"}]
        /\ held' \in [Edge -> Batch \cup {NoBatch}]
        /\ ReaderShape'
    BY <1>8, <2>1 DEF PushRendezvous, TypeInv, TypeOK, Shape, ReaderShape
  <2>4. SendTyped' /\ StageShape'
    <3>1. Release(refs, sending[n]) \in [Batch -> Int] /\ refs \in [Batch -> Int]
      BY <2>1, CountTyped DEF TypeInv, TypeOK
    <3> QED BY <1>8, <3>1, AdvanceSendTyped DEF PushRendezvous, callVars
  <2>5. TypeOK'
    BY <1>8, <2>2, <2>3, <2>4 DEF PushRendezvous, SendTyped, edgeVars, runVars, callVars,
       TypeInv, TypeOK
  <2> QED BY <2>3, <2>4, <2>5 DEF TypeInv, Shape
<1>9. ASSUME NEW n \in Node, SendCancelled(n) PROVE TypeInv'
  <2> DEFINE r == Release(refs, sending[n])
             q == IF Owned(n, sending[n]) THEN Release(r, sending[n]) ELSE r
  <2>1. sending[n] \in Batch
    BY <1>9 DEF SendCancelled, TypeInv, Shape, StageShape
  <2>2. r \in [Batch -> Int]
    BY <2>1, CountTyped DEF TypeInv, TypeOK
  <2>3. q \in [Batch -> Int]
    BY <2>1, <2>2, CountTyped
  <2>4. /\ pc[n] = "send" /\ CallbackReturns(n, "ctx", q)
        /\ UNCHANGED <<produced, edgeVars, readVars, runVars, callVars, logVars, external>>
    BY <1>9 DEF SendCancelled
  <2> HIDE DEF q
  <2>5. SendTyped'
    BY <2>3, <2>4, CallbackReturnsTyped DEF SendTyped
  <2>6. StageShape'
    BY <2>4, CallbackReturnsShaped DEF callVars
  <2>7. TypeOK'
    BY <2>4, <2>5 DEF SendTyped, edgeVars, readVars, runVars, callVars, logVars,
       TypeInv, TypeOK
  <2>8. ReaderShape'
    BY <2>4 DEF readVars, TypeInv, Shape, ReaderShape
  <2> QED BY <2>6, <2>7, <2>8 DEF TypeInv, Shape
<1>10. ASSUME NEW e \in Edge, Deliver(e) PROVE TypeInv'
  <2>1. To[e] \in Node /\ held[e] \in Batch
    BY <1>10, GraphFacts DEF Deliver, TypeInv, Shape, ReaderShape
  <2>2. Log(got, e, held[e]) \in [Edge -> Seq(Batch)]
    BY <2>1, LogTyped DEF TypeInv, TypeOK
  <2>3. TypeOK'
    BY <1>10, <2>1, <2>2 DEF Deliver, edgeVars, runVars, callVars, TypeInv, TypeOK, Pcs
  <2>4. Shape'
    BY <1>10, <2>1 DEF Deliver, edgeVars, runVars, callVars, TypeInv, TypeOK, Shape, StageShape, ReaderShape, Caller
  <2> QED BY <2>3, <2>4 DEF TypeInv
<1>11. ASSUME NEW n \in Node, EndOfInput(n) PROVE TypeInv'
  <2>1. TypeOK'
    BY <1>11 DEF EndOfInput, stageVars, edgeVars, readVars, runVars, callVars,
       logVars, TypeInv, TypeOK, Pcs
  <2>2. Shape'
    BY <1>11 DEF EndOfInput, stageVars, edgeVars, readVars, runVars, callVars,
       logVars, TypeInv, TypeOK, Shape, StageShape, ReaderShape, Caller
  <2> QED BY <2>1, <2>2 DEF TypeInv
<1>12. ASSUME NEW n \in Node, SelectCancelled(n) PROVE TypeInv'
  <2>1. TypeOK'
    BY <1>12 DEF SelectCancelled, stageVars, edgeVars, readVars, runVars, callVars,
       logVars, TypeInv, TypeOK, Pcs
  <2>2. Shape'
    BY <1>12 DEF SelectCancelled, stageVars, edgeVars, readVars, runVars, callVars,
       logVars, TypeInv, TypeOK, Shape, StageShape, ReaderShape, Caller
  <2> QED BY <2>1, <2>2 DEF TypeInv
<1>13. ASSUME NEW n \in Node, StopReaders(n) PROVE TypeInv'
  <2>1. TypeOK'
    BY <1>13 DEF StopReaders, stageVars, edgeVars, readVars, runVars, callVars,
       logVars, TypeInv, TypeOK, Pcs
  <2>2. Shape'
    BY <1>13 DEF StopReaders, stageVars, edgeVars, readVars, runVars, callVars,
       logVars, TypeInv, TypeOK, Shape, StageShape, ReaderShape, Caller
  <2> QED BY <2>1, <2>2 DEF TypeInv
<1>14. ASSUME NEW n \in Node, JoinReaders(n) PROVE TypeInv'
  <2>1. TypeOK'
    BY <1>14 DEF JoinReaders, stageVars, edgeVars, readVars, runVars, callVars,
       logVars, TypeInv, TypeOK, Pcs
  <2>2. Shape'
    BY <1>14 DEF JoinReaders, stageVars, edgeVars, readVars, runVars, callVars,
       logVars, TypeInv, TypeOK, Shape, StageShape, ReaderShape, Caller
  <2> QED BY <2>1, <2>2 DEF TypeInv
<1>15. ASSUME NEW n \in Node, CheckCtx(n) PROVE TypeInv'
  <2>1. /\ finishes' \in [Node -> Nat]
        /\ err' \in [Node -> {"nil", "ctx", "own"}]
        /\ pc' \in [Node -> Pcs]
    <3>1. finishes[n] + 1 \in Nat
      BY DEF TypeInv, TypeOK
    <3>2. CASE ctxDone
      BY <1>15, <3>2 DEF CheckCtx, TypeInv, TypeOK, Pcs
    <3>3. CASE ~ctxDone
      BY <1>15, <3>1, <3>3 DEF CheckCtx, TypeInv, TypeOK, Pcs
    <3> QED BY <3>2, <3>3
  <2>2. TypeOK'
    BY <1>15, <2>1 DEF CheckCtx, edgeVars, readVars, runVars, logVars, TypeInv, TypeOK
  <2>3. Shape'
    BY <1>15 DEF CheckCtx, edgeVars, readVars, runVars, logVars,
       TypeInv, TypeOK, Shape, StageShape, ReaderShape, Caller
  <2> QED BY <2>2, <2>3 DEF TypeInv
<1>16. ASSUME NEW n \in Node, Abort(n) PROVE TypeInv'
  <2>1. aborts' \in [Node -> Nat] /\ pc' \in [Node -> Pcs]
    <3>1. aborts[n] + 1 \in Nat
      BY DEF TypeInv, TypeOK
    <3> QED BY <1>16, <3>1 DEF Abort, TypeInv, TypeOK, Pcs
  <2>2. TypeOK'
    BY <1>16, <2>1 DEF Abort, edgeVars, readVars, runVars, logVars, TypeInv, TypeOK
  <2>3. Shape'
    BY <1>16 DEF Abort, edgeVars, readVars, runVars, logVars,
       TypeInv, TypeOK, Shape, StageShape, ReaderShape, Caller
  <2> QED BY <2>2, <2>3 DEF TypeInv
<1>17. ASSUME NEW n \in Node, RecordError(n) PROVE TypeInv'
  <2>1. TypeOK'
    BY <1>17 DEF RecordError, stageVars, edgeVars, readVars, runVars, callVars,
       logVars, TypeInv, TypeOK, Pcs, Preferred, IsCancellationErr
  <2>2. Shape'
    BY <1>17 DEF RecordError, stageVars, edgeVars, readVars, runVars, callVars,
       logVars, TypeInv, TypeOK, Shape, StageShape, ReaderShape, Caller
  <2> QED BY <2>1, <2>2 DEF TypeInv
<1>18. ASSUME NEW n \in Node, CancelRun(n) PROVE TypeInv'
  <2>1. TypeOK'
    BY <1>18 DEF CancelRun, stageVars, edgeVars, readVars, runVars, callVars,
       logVars, TypeInv, TypeOK, Pcs
  <2>2. Shape'
    BY <1>18 DEF CancelRun, stageVars, edgeVars, readVars, runVars, callVars,
       logVars, TypeInv, TypeOK, Shape, StageShape, ReaderShape, Caller
  <2> QED BY <2>1, <2>2 DEF TypeInv
<1>19. ASSUME NEW n \in Node, CloseEdge(n) PROVE TypeInv'
  <2>1. /\ closed' \in [Edge -> BOOLEAN]
        /\ idx' \in [Node -> Nat] /\ \A m \in Node : idx'[m] <= Len(Out[m])
    <3>1. closed' \in [Edge -> BOOLEAN]
      BY <1>19 DEF CloseEdge, TypeInv, TypeOK
    <3>2. idx[n] \in Nat /\ Len(Out[n]) \in Nat /\ idx[n] + 1 <= Len(Out[n])
      BY <1>19, GraphFacts DEF CloseEdge, EdgesToClose, TypeInv, TypeOK
    <3>3. idx' = [idx EXCEPT ![n] = idx[n] + 1]
      BY <1>19 DEF CloseEdge
    <3>4. idx' \in [Node -> Nat]
      BY <3>2, <3>3 DEF TypeInv, TypeOK
    <3>5. ASSUME NEW m \in Node PROVE idx'[m] <= Len(Out[m])
      BY <3>2, <3>3 DEF TypeInv, TypeOK
    <3> QED BY <3>1, <3>4, <3>5
  <2>2. TypeOK'
    BY <1>19, <2>1 DEF CloseEdge, readVars, runVars, callVars, logVars, TypeInv, TypeOK
  <2>3. Shape'
    BY <1>19 DEF CloseEdge, readVars, callVars, TypeInv, TypeOK, Shape, StageShape, ReaderShape, Caller
  <2> QED BY <2>2, <2>3 DEF TypeInv
<1>20. ASSUME NEW n \in Node, StageDone(n) PROVE TypeInv'
  <2>1. TypeOK'
    BY <1>20 DEF StageDone, stageVars, edgeVars, readVars, runVars, callVars,
       logVars, TypeInv, TypeOK, Pcs
  <2>2. Shape'
    BY <1>20 DEF StageDone, stageVars, edgeVars, readVars, runVars, callVars,
       logVars, TypeInv, TypeOK, Shape, StageShape, ReaderShape, Caller
  <2> QED BY <2>1, <2>2 DEF TypeInv
<1>21. CASE RunReturns
  BY <1>21 DEF RunReturns, stageVars, edgeVars, readVars, callVars, logVars,
     TypeInv, TypeOK, Shape, StageShape, ReaderShape, Caller
<1>22. ASSUME NEW e \in Edge, ReaderReceives(e) PROVE TypeInv'
  <2>1. Head(buf[e]) \in Batch /\ Tail(buf[e]) \in Seq(Batch)
    BY <1>22, HeadTailTyped DEF ReaderReceives, TypeInv, TypeOK
  <2>2. TypeOK'
    BY <1>22, <2>1 DEF ReaderReceives, stageVars, runVars, callVars, logVars, TypeInv, TypeOK
  <2>3. Shape'
    BY <1>22, <2>1 DEF ReaderReceives, stageVars, callVars, TypeInv, TypeOK, Shape, StageShape, ReaderShape, Caller
  <2> QED BY <2>2, <2>3 DEF TypeInv
<1>23. ASSUME NEW e \in Edge, ReaderExits(e) PROVE TypeInv'
  <2>1. TypeOK'
    BY <1>23 DEF ReaderExits, stageVars, edgeVars, readVars, runVars, callVars,
       logVars, TypeInv, TypeOK, Pcs
  <2>2. Shape'
    BY <1>23 DEF ReaderExits, stageVars, edgeVars, readVars, runVars, callVars,
       logVars, TypeInv, TypeOK, Shape, StageShape, ReaderShape, Caller
  <2> QED BY <2>1, <2>2 DEF TypeInv
<1>24. ASSUME NEW e \in Edge, ReaderCancelled(e) PROVE TypeInv'
  <2>1. refs' \in [Batch -> Int]
    <3>1. CASE rpc[e] = "offer"
      BY <1>24, <3>1, CountTyped DEF ReaderCancelled, TypeInv, TypeOK, Shape,
         ReaderShape
    <3>2. CASE rpc[e] # "offer"
      BY <1>24, <3>2 DEF ReaderCancelled, TypeInv, TypeOK
    <3> QED BY <3>1, <3>2
  <2>2. TypeOK'
    BY <1>24, <2>1 DEF ReaderCancelled, stageVars, edgeVars, runVars, callVars, logVars,
       TypeInv, TypeOK
  <2>3. Shape'
    BY <1>24 DEF ReaderCancelled, stageVars, callVars, TypeInv, TypeOK, Shape, StageShape, ReaderShape, Caller
  <2> QED BY <2>2, <2>3 DEF TypeInv
<1>25. ASSUME NEW e \in Edge, DrainEdge(e) PROVE TypeInv'
  <2>1. Head(buf[e]) \in Batch /\ Tail(buf[e]) \in Seq(Batch)
    BY <1>25, HeadTailTyped DEF DrainEdge, TypeInv, TypeOK
  <2>2. TypeOK'
    <3>1. refs' \in [Batch -> Int]
      BY <1>25, <2>1, CountTyped DEF DrainEdge, TypeInv, TypeOK
    <3> QED
      BY <1>25, <2>1, <3>1 DEF DrainEdge, stageVars, readVars, runVars, callVars, logVars,
         TypeInv, TypeOK
  <2>3. Shape'
    BY <1>25 DEF DrainEdge, stageVars, readVars, callVars, TypeInv, TypeOK, Shape, StageShape, ReaderShape, Caller
  <2> QED BY <2>2, <2>3 DEF TypeInv
<1>26. ASSUME NEW n \in Node, CloseMerged(n) PROVE TypeInv'
  <2>1. TypeOK'
    BY <1>26 DEF CloseMerged, stageVars, edgeVars, readVars, runVars, callVars,
       logVars, TypeInv, TypeOK, Pcs
  <2>2. Shape'
    BY <1>26 DEF CloseMerged, stageVars, edgeVars, readVars, runVars, callVars,
       logVars, TypeInv, TypeOK, Shape, StageShape, ReaderShape, Caller
  <2> QED BY <2>1, <2>2 DEF TypeInv
<1>27. CASE ExternalCancel
  BY <1>27 DEF ExternalCancel, stageVars, edgeVars, readVars, callVars, logVars,
     TypeInv, TypeOK, Shape, StageShape, ReaderShape, Caller
<1> QED
  BY <1>1, <1>2, <1>3, <1>4, <1>5, <1>6, <1>7, <1>8, <1>9, <1>10, <1>11, <1>12, <1>13,
     <1>14, <1>15, <1>16, <1>17, <1>18, <1>19, <1>20, <1>21, <1>22, <1>23, <1>24, <1>25,
     <1>26, <1>27
     DEF Next, Stage, Callback, Send, Consume, Unwind, Reader, Finished, InEdges

\* Every variable of the runtime stays in its domain, whatever the graph.
THEOREM TypeCorrect == Spec => []TypeOK
<1>1. TypeInv => TypeOK
  BY DEF TypeInv
<1> QED BY TypeInvInit, TypeInvNext, <1>1, PTL DEF Spec

----------------------------------------------------------------------------
(* Finish runs on complete input only.  The invariant says, for a run that *)
(* is not cancelled, what each way of leaving a loop proves: a closed edge *)
(* that its stage succeeded, a reader's exit that its edge is closed and   *)
(* empty, a closed merged channel that every reader has exited.  Once the  *)
(* run is cancelled none of these holds, and CheckCtx stops the stage.     *)

StageControl ==
  \A n \in Node :
    /\ readersCancelled[n] => ctxDone
    /\ pc[n] \in {"close", "done"} /\ err[n] # "nil" => ctxDone

MergeControl ==
  \A n \in Node : mergedClosed[n] \/ pc[n] = "check" => ReadersExited(n)

EdgeControl ==
  \A e \in Edge :
    /\ closed[e] => pc[From[e]] \in {"close", "done"}
    /\ rpc[e] = "drain" => ctxDone
    /\ rpc[e] = "exit" => closed[e] /\ buf[e] = <<>>

Control == StageControl /\ MergeControl /\ EdgeControl

\* A step of a stage inside its callback or inside Send.
CallbackOrSend(n) ==
  \/ ReturnNil(n) \/ ReturnOwnError(n) \/ ReturnCtxError(n) \/ Produce(n) \/ Forward(n)
  \/ PushBuffered(n) \/ PushRendezvous(n) \/ SendCancelled(n)

LEMMA CallbackOrSendControl ==
  ASSUME TypeInv, NEW n \in Node, CallbackOrSend(n)
  PROVE  /\ pc[n] \in CallbackPc \cup {"send"}
         /\ pc' = [pc EXCEPT ![n] = pc'[n]]
         /\ pc'[n] \in CallbackPc \cup {"send", "select", "stop", "close", "fail"}
         /\ err' = [err EXCEPT ![n] = err'[n]]
         /\ pc'[n] = "close" => err'[n] = "nil"
         /\ UNCHANGED <<closed, readersCancelled, mergedClosed, ctxDone, recorded, returned,
                        finishes, aborts, got>>
<1> DEFINE Goal == /\ pc' = [pc EXCEPT ![n] = pc'[n]]
                   /\ pc'[n] \in CallbackPc \cup {"send", "select", "stop", "close", "fail"}
                   /\ err' = [err EXCEPT ![n] = err'[n]]
                   /\ pc'[n] = "close" => err'[n] = "nil"
<1>1. ASSUME NEW x, NEW r, CallbackReturns(n, x, r) PROVE Goal
  BY <1>1 DEF CallbackReturns, AfterCallback, TypeInv, TypeOK
<1>2. ASSUME NEW b, NEW r, pc[n] \in CallbackPc, EnterSend(n, b, r) PROVE Goal
  BY <1>1, <1>2 DEF EnterSend, EnterLoop, CallbackPc, TypeInv, TypeOK
<1>3. ASSUME NEW r, pc[n] = "send", AdvanceSend(n, r) PROVE Goal
  <2>1. CASE idx[n] < Len(Out[n])
    BY <1>3, <2>1 DEF AdvanceSend, NextEdge, TypeInv, TypeOK
  <2>2. CASE ~(idx[n] < Len(Out[n])) /\ Owned(n, sending[n])
    BY <1>3, <2>2, CallerTyped DEF AdvanceSend, SendReturnsNil, CallbackPc, TypeInv, TypeOK
  <2>3. CASE ~(idx[n] < Len(Out[n])) /\ ~Owned(n, sending[n])
    BY <1>1, <1>3, <2>3 DEF AdvanceSend, SendReturnsNil
  <2> QED BY <2>1, <2>2, <2>3
<1> HIDE DEF Goal
<1>4. Goal
  <2>1. CASE ReturnNil(n) \/ ReturnOwnError(n) \/ ReturnCtxError(n)
    BY <1>1, <2>1 DEF ReturnNil, ReturnOwnError, ReturnCtxError
  <2>2. CASE Produce(n)
    BY <1>2, <2>2 DEF Produce
  <2>3. CASE Forward(n)
    BY <1>2, <2>3 DEF Forward, CallbackPc
  <2>4. CASE PushBuffered(n) \/ PushRendezvous(n)
    BY <1>3, <2>4 DEF PushBuffered, PushRendezvous
  <2>5. CASE SendCancelled(n)
    BY <1>1, <2>5 DEF SendCancelled
  <2> QED BY <2>1, <2>2, <2>3, <2>4, <2>5 DEF CallbackOrSend
<1>5. pc[n] \in CallbackPc \cup {"send"}
  BY DEF CallbackOrSend, ReturnNil, ReturnOwnError, ReturnCtxError, Produce, Forward,
     PushBuffered, PushRendezvous, SendCancelled, CallbackPc
<1>6. UNCHANGED <<closed, readersCancelled, mergedClosed, ctxDone, recorded, returned,
                  finishes, aborts, got>>
  BY DEF CallbackOrSend, ReturnNil, ReturnOwnError, ReturnCtxError, Produce, Forward,
     PushBuffered, PushRendezvous, SendCancelled, edgeVars, readVars, runVars, callVars,
     logVars
<1> QED BY <1>4, <1>5, <1>6 DEF Goal

\* What such a step does to the edges: nothing, or a push on one of the
\* stage's own edges, which is not closed.
LEMMA CallbackOrSendEdges ==
  ASSUME TypeInv, Control, NEW n \in Node, CallbackOrSend(n)
  PROVE  \/ UNCHANGED <<buf, rpc, held, sent>>
         \/ \E e \in Edge :
              /\ From[e] = n /\ ~closed[e] /\ rpc[e] # "exit" /\ sending[n] \in Batch
              /\ sent' = Log(sent, e, sending[n])
              /\ \/ /\ Len(buf[e]) < Cap
                    /\ buf' = [buf EXCEPT ![e] = Append(@, sending[n])]
                    /\ UNCHANGED <<rpc, held>>
                 \/ /\ rpc[e] = "recv" /\ Cap = 0
                    /\ rpc' = [rpc EXCEPT ![e] = "offer"]
                    /\ held' = [held EXCEPT ![e] = sending[n]]
                    /\ UNCHANGED buf
                 \/ rpc[e] = "drain" /\ UNCHANGED <<buf, rpc, held>>
<1> DEFINE e == Out[n][idx[n]]
<1>1. CASE ~(PushBuffered(n) \/ PushRendezvous(n))
  BY <1>1 DEF CallbackOrSend, ReturnNil, ReturnOwnError, ReturnCtxError, Produce, Forward,
     SendCancelled, edgeVars, readVars, logVars
<1>2. ASSUME pc[n] = "send"
      PROVE  /\ e \in Edge /\ From[e] = n /\ ~closed[e] /\ rpc[e] # "exit"
             /\ sending[n] \in Batch
  <2>1. e \in Edge /\ From[e] = n /\ sending[n] \in Batch
    BY <1>2, GraphFacts DEF TypeInv, Shape, StageShape
  <2>2. ~closed[e]
    BY <1>2, <2>1 DEF Control, EdgeControl
  <2> QED BY <2>1, <2>2 DEF Control, EdgeControl
<1>3. CASE PushBuffered(n)
  BY <1>2, <1>3 DEF PushBuffered, readVars
<1>4. CASE PushRendezvous(n)
  BY <1>2, <1>4 DEF PushRendezvous, edgeVars
<1> QED BY <1>1, <1>3, <1>4

\* A reader that has exited stays so, and with it all the readers of a stage.
ReadersStayExited == \A e \in Edge : rpc[e] = "exit" => rpc'[e] = "exit"

LEMMA ReadersExitedStable ==
  ASSUME ReadersStayExited, NEW n \in Node, ReadersExited(n)
  PROVE  ReadersExited(n)'
BY DEF ReadersStayExited, ReadersExited, InEdges

\* A stage that has not begun to close its edges can go anywhere.
LEMMA OpenEdgesStayOpen ==
  ASSUME TypeInv, EdgeControl, NEW n \in Node, NEW p,
         pc' = [pc EXCEPT ![n] = p], UNCHANGED closed,
         pc[n] \notin {"close", "done"} \/ p \in {"close", "done"}
  PROVE  \A f \in Edge : closed'[f] => pc'[From[f]] \in {"close", "done"}
<1> SUFFICES ASSUME NEW f \in Edge, closed[f] PROVE pc'[From[f]] \in {"close", "done"}
  OBVIOUS
<1>1. From[f] \in Node /\ pc[From[f]] \in {"close", "done"}
  BY GraphFacts DEF EdgeControl
<1>2. CASE From[f] = n
  BY <1>1, <1>2 DEF TypeInv, TypeOK
<1>3. CASE From[f] # n
  BY <1>1, <1>3 DEF TypeInv, TypeOK
<1> QED BY <1>2, <1>3

LEMMA ControlInit == Init => Control
<1> SUFFICES ASSUME Init PROVE Control
  OBVIOUS
<1>1. StageControl
  BY DEF Init, StageControl
<1>2. EdgeControl
  BY DEF Init, EdgeControl
<1>3. MergeControl
  BY DEF Init, MergeControl, ReadersExited
<1> QED BY <1>1, <1>2, <1>3 DEF Control

LEMMA ControlNext == TypeInv /\ Control /\ [Next]_vars => Control'
<1> SUFFICES ASSUME TypeInv, Control, [Next]_vars PROVE Control'
  OBVIOUS
<1>1. CASE UNCHANGED vars
  BY <1>1 DEF vars, stageVars, edgeVars, readVars, runVars, Control, StageControl,
     MergeControl, EdgeControl, ReadersExited
<1>2. ASSUME NEW n \in Node, CallbackOrSend(n) PROVE Control'
  <2>1. /\ pc' = [pc EXCEPT ![n] = pc'[n]] /\ err' = [err EXCEPT ![n] = err'[n]]
        /\ pc[n] \notin {"close", "done"} /\ pc'[n] # "check"
        /\ pc'[n] \in {"close", "done"} => err'[n] = "nil"
        /\ UNCHANGED <<closed, readersCancelled, mergedClosed, ctxDone>>
    BY <1>2, CallbackOrSendControl DEF CallbackPc
  <2>2. StageControl'
    BY <2>1 DEF Control, StageControl, TypeInv, TypeOK
  <2>3. \A f \in Edge : closed'[f] => pc'[From[f]] \in {"close", "done"}
    BY <2>1, OpenEdgesStayOpen DEF Control
  <2>4. \A f \in Edge :
          /\ rpc'[f] = "drain" => rpc[f] = "drain"
          /\ rpc'[f] = "exit" <=> rpc[f] = "exit"
          /\ rpc[f] = "exit" => buf'[f] = buf[f]
    <3>1. CASE UNCHANGED <<buf, rpc, held, sent>>
      BY <3>1
    <3>2. ASSUME NEW e \in Edge, rpc[e] # "exit",
                 \/ /\ buf' = [buf EXCEPT ![e] = Append(@, sending[n])]
                    /\ UNCHANGED <<rpc, held>>
                 \/ /\ rpc[e] = "recv" /\ Cap = 0
                    /\ rpc' = [rpc EXCEPT ![e] = "offer"]
                    /\ held' = [held EXCEPT ![e] = sending[n]]
                    /\ UNCHANGED buf
                 \/ rpc[e] = "drain" /\ UNCHANGED <<buf, rpc, held>>
          PROVE  \A f \in Edge :
                   /\ rpc'[f] = "drain" => rpc[f] = "drain"
                   /\ rpc'[f] = "exit" <=> rpc[f] = "exit"
                   /\ rpc[f] = "exit" => buf'[f] = buf[f]
      BY <3>2 DEF TypeInv, TypeOK
    <3> QED BY <1>2, <3>1, <3>2, CallbackOrSendEdges
  <2>5. EdgeControl'
    BY <2>1, <2>3, <2>4 DEF Control, EdgeControl
  <2>6. ReadersStayExited
    BY <2>4 DEF ReadersStayExited
  <2>7. MergeControl'
    BY <2>1, <2>6, ReadersExitedStable DEF Control, MergeControl, TypeInv, TypeOK
  <2> QED BY <2>2, <2>5, <2>7 DEF Control
<1>3. ASSUME NEW e \in Edge, Deliver(e) PROVE Control'
  <2>1. StageControl'
    BY <1>3 DEF Deliver, stageVars, edgeVars, readVars, runVars, TypeInv, TypeOK, Control,
       StageControl
  <2>2. EdgeControl'
    <3>1. To[e] \in Node /\ pc' = [pc EXCEPT ![To[e]] = "body"] /\ pc[To[e]] = "select"
      BY <1>3, GraphFacts DEF Deliver
    <3>2. \A f \in Edge : closed'[f] => pc'[From[f]] \in {"close", "done"}
      BY <1>3, <3>1, OpenEdgesStayOpen DEF Deliver, edgeVars, Control
    <3> QED
      BY <1>3, <3>2 DEF Deliver, edgeVars, runVars, TypeInv, TypeOK, Control, EdgeControl
  <2>3. ReadersStayExited
    BY <1>3 DEF Deliver, stageVars, edgeVars, readVars, runVars, TypeInv, TypeOK, ReadersStayExited
  <2>4. MergeControl'
    BY <1>3, <2>3, ReadersExitedStable DEF Deliver, stageVars, edgeVars, readVars, runVars,
       TypeInv, TypeOK, Control, MergeControl
  <2> QED BY <2>1, <2>2, <2>4 DEF Control
<1>4. ASSUME NEW n \in Node, EndOfInput(n) PROVE Control'
  <2>1. StageControl'
    BY <1>4 DEF EndOfInput, stageVars, edgeVars, readVars, runVars, TypeInv, TypeOK, Control,
       StageControl
  <2>2. EdgeControl'
    BY <1>4, GraphFacts DEF EndOfInput, stageVars, edgeVars, readVars, runVars, TypeInv, TypeOK,
       Control, EdgeControl
  <2>3. ReadersStayExited
    BY <1>4 DEF EndOfInput, stageVars, edgeVars, readVars, runVars, TypeInv, TypeOK, ReadersStayExited
  <2>4. MergeControl'
    BY <1>4, <2>3, ReadersExitedStable DEF EndOfInput, stageVars, edgeVars, readVars, runVars,
       TypeInv, TypeOK, Control, MergeControl
  <2> QED BY <2>1, <2>2, <2>4 DEF Control
<1>5. ASSUME NEW n \in Node, SelectCancelled(n) PROVE Control'
  <2>1. StageControl'
    BY <1>5 DEF SelectCancelled, stageVars, edgeVars, readVars, runVars, TypeInv, TypeOK, Control,
       StageControl
  <2>2. EdgeControl'
    BY <1>5, GraphFacts DEF SelectCancelled, stageVars, edgeVars, readVars, runVars, TypeInv, TypeOK,
       Control, EdgeControl
  <2>3. ReadersStayExited
    BY <1>5 DEF SelectCancelled, stageVars, edgeVars, readVars, runVars, TypeInv, TypeOK, ReadersStayExited
  <2>4. MergeControl'
    BY <1>5, <2>3, ReadersExitedStable DEF SelectCancelled, stageVars, edgeVars, readVars, runVars,
       TypeInv, TypeOK, Control, MergeControl
  <2> QED BY <2>1, <2>2, <2>4 DEF Control
<1>6. ASSUME NEW n \in Node, StopReaders(n) PROVE Control'
  <2>1. StageControl'
    BY <1>6 DEF StopReaders, stageVars, edgeVars, readVars, runVars, TypeInv, TypeOK, Control,
       StageControl
  <2>2. EdgeControl'
    BY <1>6, GraphFacts DEF StopReaders, stageVars, edgeVars, readVars, runVars, TypeInv, TypeOK,
       Control, EdgeControl
  <2>3. ReadersStayExited
    BY <1>6 DEF StopReaders, stageVars, edgeVars, readVars, runVars, TypeInv, TypeOK, ReadersStayExited
  <2>4. MergeControl'
    BY <1>6, <2>3, ReadersExitedStable DEF StopReaders, stageVars, edgeVars, readVars, runVars,
       TypeInv, TypeOK, Control, MergeControl
  <2> QED BY <2>1, <2>2, <2>4 DEF Control
<1>7. ASSUME NEW n \in Node, JoinReaders(n) PROVE Control'
  <2>1. StageControl'
    BY <1>7 DEF JoinReaders, stageVars, edgeVars, readVars, runVars, TypeInv, TypeOK, Control,
       StageControl
  <2>2. EdgeControl'
    BY <1>7, GraphFacts DEF JoinReaders, stageVars, edgeVars, readVars, runVars, TypeInv, TypeOK,
       Control, EdgeControl
  <2>3. ReadersStayExited
    BY <1>7 DEF JoinReaders, stageVars, edgeVars, readVars, runVars, TypeInv, TypeOK, ReadersStayExited
  <2>4. MergeControl'
    BY <1>7, <2>3, ReadersExitedStable DEF JoinReaders, stageVars, edgeVars, readVars, runVars,
       TypeInv, TypeOK, Control, MergeControl
  <2> QED BY <2>1, <2>2, <2>4 DEF Control
<1>8. ASSUME NEW n \in Node, CheckCtx(n) PROVE Control'
  <2>1. StageControl'
    BY <1>8 DEF CheckCtx, stageVars, edgeVars, readVars, runVars, TypeInv, TypeOK, Control,
       StageControl
  <2>2. EdgeControl'
    <3>1. pc' = [pc EXCEPT ![n] = pc'[n]] /\ pc[n] = "check"
      BY <1>8 DEF CheckCtx, TypeInv, TypeOK
    <3>2. \A f \in Edge : closed'[f] => pc'[From[f]] \in {"close", "done"}
      BY <1>8, <3>1, OpenEdgesStayOpen DEF CheckCtx, edgeVars, Control
    <3> QED
      BY <1>8, <3>2 DEF CheckCtx, edgeVars, readVars, runVars, Control, EdgeControl
  <2>3. ReadersStayExited
    BY <1>8 DEF CheckCtx, stageVars, edgeVars, readVars, runVars, TypeInv, TypeOK, ReadersStayExited
  <2>4. MergeControl'
    BY <1>8, <2>3, ReadersExitedStable DEF CheckCtx, stageVars, edgeVars, readVars, runVars,
       TypeInv, TypeOK, Control, MergeControl
  <2> QED BY <2>1, <2>2, <2>4 DEF Control
<1>9. ASSUME NEW n \in Node, Abort(n) PROVE Control'
  <2>1. StageControl'
    BY <1>9 DEF Abort, stageVars, edgeVars, readVars, runVars, TypeInv, TypeOK, Control,
       StageControl
  <2>2. EdgeControl'
    BY <1>9, GraphFacts DEF Abort, stageVars, edgeVars, readVars, runVars, TypeInv, TypeOK,
       Control, EdgeControl
  <2>3. ReadersStayExited
    BY <1>9 DEF Abort, stageVars, edgeVars, readVars, runVars, TypeInv, TypeOK, ReadersStayExited
  <2>4. MergeControl'
    BY <1>9, <2>3, ReadersExitedStable DEF Abort, stageVars, edgeVars, readVars, runVars,
       TypeInv, TypeOK, Control, MergeControl
  <2> QED BY <2>1, <2>2, <2>4 DEF Control
<1>10. ASSUME NEW n \in Node, RecordError(n) PROVE Control'
  <2>1. StageControl'
    BY <1>10 DEF RecordError, stageVars, edgeVars, readVars, runVars, TypeInv, TypeOK, Control,
       StageControl
  <2>2. EdgeControl'
    BY <1>10, GraphFacts DEF RecordError, stageVars, edgeVars, readVars, runVars, TypeInv, TypeOK,
       Control, EdgeControl
  <2>3. ReadersStayExited
    BY <1>10 DEF RecordError, stageVars, edgeVars, readVars, runVars, TypeInv, TypeOK, ReadersStayExited
  <2>4. MergeControl'
    BY <1>10, <2>3, ReadersExitedStable DEF RecordError, stageVars, edgeVars, readVars, runVars,
       TypeInv, TypeOK, Control, MergeControl
  <2> QED BY <2>1, <2>2, <2>4 DEF Control
<1>11. ASSUME NEW n \in Node, CancelRun(n) PROVE Control'
  <2>1. StageControl'
    BY <1>11 DEF CancelRun, stageVars, edgeVars, readVars, runVars, TypeInv, TypeOK, Control,
       StageControl
  <2>2. EdgeControl'
    BY <1>11, GraphFacts DEF CancelRun, stageVars, edgeVars, readVars, runVars, TypeInv, TypeOK,
       Control, EdgeControl
  <2>3. ReadersStayExited
    BY <1>11 DEF CancelRun, stageVars, edgeVars, readVars, runVars, TypeInv, TypeOK, ReadersStayExited
  <2>4. MergeControl'
    BY <1>11, <2>3, ReadersExitedStable DEF CancelRun, stageVars, edgeVars, readVars, runVars,
       TypeInv, TypeOK, Control, MergeControl
  <2> QED BY <2>1, <2>2, <2>4 DEF Control
<1>12. ASSUME NEW n \in Node, CloseEdge(n) PROVE Control'
  <2>1. StageControl'
    BY <1>12 DEF CloseEdge, stageVars, edgeVars, readVars, runVars, TypeInv, TypeOK, Control,
       StageControl
  <2>2. EdgeControl'
    <3> DEFINE e == Out[n][idx[n] + 1]
    <3>1. e \in Edge /\ From[e] = n
      <4>1. idx[n] \in Nat /\ Len(Out[n]) \in Nat /\ idx[n] < Len(Out[n])
        BY <1>12, GraphFacts DEF CloseEdge, EdgesToClose, TypeInv, TypeOK
      <4>2. idx[n] + 1 \in 1 .. Len(Out[n])
        BY <4>1
      <4> QED BY <4>2, GraphFacts
    <3>2. /\ closed' = [closed EXCEPT ![e] = TRUE] /\ pc[n] = "close"
          /\ UNCHANGED <<pc, rpc, ctxDone, buf>>
      BY <1>12 DEF CloseEdge, readVars, runVars
    <3> QED BY <3>1, <3>2 DEF TypeInv, TypeOK, Control, EdgeControl
  <2>3. ReadersStayExited
    BY <1>12 DEF CloseEdge, stageVars, edgeVars, readVars, runVars, TypeInv, TypeOK, ReadersStayExited
  <2>4. MergeControl'
    BY <1>12, <2>3, ReadersExitedStable DEF CloseEdge, stageVars, edgeVars, readVars, runVars,
       TypeInv, TypeOK, Control, MergeControl
  <2> QED BY <2>1, <2>2, <2>4 DEF Control
<1>13. ASSUME NEW n \in Node, StageDone(n) PROVE Control'
  <2>1. StageControl'
    BY <1>13 DEF StageDone, stageVars, edgeVars, readVars, runVars, TypeInv, TypeOK, Control,
       StageControl
  <2>2. EdgeControl'
    BY <1>13, GraphFacts DEF StageDone, stageVars, edgeVars, readVars, runVars, TypeInv, TypeOK,
       Control, EdgeControl
  <2>3. ReadersStayExited
    BY <1>13 DEF StageDone, stageVars, edgeVars, readVars, runVars, TypeInv, TypeOK, ReadersStayExited
  <2>4. MergeControl'
    BY <1>13, <2>3, ReadersExitedStable DEF StageDone, stageVars, edgeVars, readVars, runVars,
       TypeInv, TypeOK, Control, MergeControl
  <2> QED BY <2>1, <2>2, <2>4 DEF Control
<1>14. CASE RunReturns
  BY <1>14 DEF RunReturns, stageVars, edgeVars, readVars, Control, StageControl,
     MergeControl, EdgeControl, ReadersExited
<1>15. ASSUME NEW e \in Edge, ReaderReceives(e) PROVE Control'
  <2>1. StageControl'
    BY <1>15 DEF ReaderReceives, stageVars, edgeVars, readVars, runVars, TypeInv, TypeOK, Control,
       StageControl
  <2>2. EdgeControl'
    BY <1>15, GraphFacts DEF ReaderReceives, stageVars, edgeVars, readVars, runVars, TypeInv, TypeOK,
       Control, EdgeControl
  <2>3. ReadersStayExited
    BY <1>15 DEF ReaderReceives, stageVars, edgeVars, readVars, runVars, TypeInv, TypeOK, ReadersStayExited
  <2>4. MergeControl'
    BY <1>15, <2>3, ReadersExitedStable DEF ReaderReceives, stageVars, edgeVars, readVars, runVars,
       TypeInv, TypeOK, Control, MergeControl
  <2> QED BY <2>1, <2>2, <2>4 DEF Control
<1>16. ASSUME NEW e \in Edge, ReaderExits(e) PROVE Control'
  <2>1. StageControl'
    BY <1>16 DEF ReaderExits, stageVars, edgeVars, readVars, runVars, TypeInv, TypeOK, Control,
       StageControl
  <2>2. EdgeControl'
    <3>1. /\ rpc' = [rpc EXCEPT ![e] = "exit"] /\ closed[e] /\ buf[e] = <<>>
          /\ UNCHANGED <<pc, closed, buf, ctxDone>>
      BY <1>16 DEF ReaderExits, stageVars, edgeVars, runVars
    <3> QED BY <3>1 DEF TypeInv, TypeOK, Control, EdgeControl
  <2>3. ReadersStayExited
    BY <1>16 DEF ReaderExits, stageVars, edgeVars, readVars, runVars, TypeInv, TypeOK, ReadersStayExited
  <2>4. MergeControl'
    BY <1>16, <2>3, ReadersExitedStable DEF ReaderExits, stageVars, edgeVars, readVars, runVars,
       TypeInv, TypeOK, Control, MergeControl
  <2> QED BY <2>1, <2>2, <2>4 DEF Control
<1>17. ASSUME NEW e \in Edge, ReaderCancelled(e) PROVE Control'
  <2>1. StageControl'
    BY <1>17 DEF ReaderCancelled, stageVars, edgeVars, readVars, runVars, TypeInv, TypeOK, Control,
       StageControl
  <2>2. EdgeControl'
    <3>1. ctxDone
      BY <1>17, GraphFacts DEF ReaderCancelled, ReadDone, Control, StageControl
    <3>2. /\ rpc' = [rpc EXCEPT ![e] = "drain"]
          /\ UNCHANGED <<pc, closed, buf, ctxDone>>
      BY <1>17 DEF ReaderCancelled, stageVars, edgeVars, runVars
    <3> QED BY <3>1, <3>2 DEF TypeInv, TypeOK, Control, EdgeControl
  <2>3. ReadersStayExited
    BY <1>17 DEF ReaderCancelled, stageVars, edgeVars, readVars, runVars, TypeInv, TypeOK, ReadersStayExited
  <2>4. MergeControl'
    BY <1>17, <2>3, ReadersExitedStable DEF ReaderCancelled, stageVars, edgeVars, readVars, runVars,
       TypeInv, TypeOK, Control, MergeControl
  <2> QED BY <2>1, <2>2, <2>4 DEF Control
<1>18. ASSUME NEW e \in Edge, DrainEdge(e) PROVE Control'
  <2>1. StageControl'
    BY <1>18 DEF DrainEdge, stageVars, edgeVars, readVars, runVars, TypeInv, TypeOK, Control,
       StageControl
  <2>2. EdgeControl'
    BY <1>18, GraphFacts DEF DrainEdge, stageVars, edgeVars, readVars, runVars, TypeInv, TypeOK,
       Control, EdgeControl
  <2>3. ReadersStayExited
    BY <1>18 DEF DrainEdge, stageVars, edgeVars, readVars, runVars, TypeInv, TypeOK, ReadersStayExited
  <2>4. MergeControl'
    BY <1>18, <2>3, ReadersExitedStable DEF DrainEdge, stageVars, edgeVars, readVars, runVars,
       TypeInv, TypeOK, Control, MergeControl
  <2> QED BY <2>1, <2>2, <2>4 DEF Control
<1>19. ASSUME NEW n \in Node, CloseMerged(n) PROVE Control'
  <2>1. StageControl'
    BY <1>19 DEF CloseMerged, stageVars, edgeVars, readVars, runVars, TypeInv, TypeOK, Control,
       StageControl
  <2>2. EdgeControl'
    BY <1>19, GraphFacts DEF CloseMerged, stageVars, edgeVars, readVars, runVars, TypeInv, TypeOK,
       Control, EdgeControl
  <2>3. ReadersStayExited
    BY <1>19 DEF CloseMerged, stageVars, edgeVars, readVars, runVars, TypeInv, TypeOK, ReadersStayExited
  <2>4. MergeControl'
    BY <1>19, <2>3, ReadersExitedStable DEF CloseMerged, stageVars, edgeVars, readVars, runVars,
       TypeInv, TypeOK, Control, MergeControl
  <2> QED BY <2>1, <2>2, <2>4 DEF Control
<1>20. CASE ExternalCancel
  BY <1>20 DEF ExternalCancel, stageVars, edgeVars, readVars, Control, StageControl,
     MergeControl, EdgeControl, ReadersExited
<1> QED
  BY <1>1, <1>2, <1>3, <1>4, <1>5, <1>6, <1>7, <1>8, <1>9, <1>10, <1>11, <1>12, <1>13,
     <1>14, <1>15, <1>16, <1>17, <1>18, <1>19, <1>20
     DEF Next, Stage, Callback, Send, Consume, Unwind, Reader, Finished, InEdges,
         CallbackOrSend

----------------------------------------------------------------------------
(* What was pushed on an edge is what was delivered, what its reader holds *)
(* and what its buffer holds, in that order, as long as nothing is drained. *)

LEMMA PushedSequence ==
  \A g, h, b \in Seq(Batch) : \A x \in Batch :
    Append(g \o h \o b, x) = g \o h \o Append(b, x)
<1> TAKE g, h, b \in Seq(Batch)
<1> TAKE x \in Batch
<1>1. g \o h \in Seq(Batch) /\ g \o h \o b \in Seq(Batch) /\ <<x>> \in Seq(Batch)
  OBVIOUS
<1>2. Append(g \o h \o b, x) = ((g \o h) \o b) \o <<x>>
  BY <1>1, AppendIsConcat
<1>3. ((g \o h) \o b) \o <<x>> = (g \o h) \o (b \o <<x>>)
  BY <1>1, ConcatAssociative
<1>4. b \o <<x>> = Append(b, x)
  BY AppendIsConcat
<1> QED BY <1>2, <1>3, <1>4

LEMMA HandedSequence ==
  ASSUME NEW S, NEW g \in Seq(S), NEW x \in S
  PROVE  Append(g \o <<>> \o <<>>, x) = g \o <<x>> \o <<>>
OBVIOUS

LEMMA ReceivedSequence ==
  ASSUME NEW S, NEW g \in Seq(S), NEW b \in Seq(S), b # <<>>
  PROVE  g \o <<>> \o b = g \o <<Head(b)>> \o Tail(b)
OBVIOUS

LEMMA DeliveredSequence ==
  ASSUME NEW S, NEW g \in Seq(S), NEW b \in Seq(S), NEW x \in S
  PROVE  g \o <<x>> \o b = Append(g, x) \o <<>> \o b
OBVIOUS

InFlight(e) == IF rpc[e] = "offer" THEN <<held[e]>> ELSE <<>>

Capacity == \A e \in Edge : Len(buf[e]) <= Cap

Flow ==
  \A e \in Edge :
    IF Traced THEN ctxDone \/ sent[e] = got[e] \o InFlight(e) \o buf[e]
    ELSE sent[e] = <<>> /\ got[e] = <<>>

LEMMA FlowUnchanged ==
  ASSUME Flow, ctxDone => ctxDone', UNCHANGED <<sent, got, rpc, held, buf>>
  PROVE  Flow'
BY DEF Flow, InFlight

LEMMA CapacityInit == Init => Capacity
BY ParameterFacts DEF Init, Capacity

LEMMA CapacityNext == TypeInv /\ Control /\ Capacity /\ [Next]_vars => Capacity'
<1> SUFFICES ASSUME TypeInv, Control, Capacity, [Next]_vars PROVE Capacity'
  OBVIOUS
<1>1. CASE UNCHANGED buf
  BY <1>1 DEF Capacity
<1>2. ASSUME NEW n \in Node, CallbackOrSend(n) PROVE Capacity'
  <2>1. ASSUME NEW e \in Edge, Len(buf[e]) < Cap, sending[n] \in Batch,
               buf' = [buf EXCEPT ![e] = Append(@, sending[n])]
        PROVE  Capacity'
    <3>1. Len(Append(buf[e], sending[n])) = Len(buf[e]) + 1 /\ Len(buf[e]) \in Nat
      BY DEF TypeInv, TypeOK
    <3> QED BY <2>1, <3>1, ParameterFacts DEF Capacity, TypeInv, TypeOK
  <2> QED BY <1>1, <1>2, <2>1, CallbackOrSendEdges
<1>3. ASSUME NEW e \in Edge, buf[e] # <<>>, buf' = [buf EXCEPT ![e] = Tail(@)]
      PROVE  Capacity'
  <2>1. Len(Tail(buf[e])) = Len(buf[e]) - 1 /\ Len(buf[e]) \in Nat
    BY <1>3 DEF TypeInv, TypeOK
  <2> QED BY <1>3, <2>1, ParameterFacts DEF Capacity, TypeInv, TypeOK
<1>4. ASSUME NEW e \in Edge, Reader(e) PROVE Capacity'
  BY <1>1, <1>3, <1>4 DEF Reader, ReaderReceives, ReaderExits, ReaderCancelled, DrainEdge,
     edgeVars
<1>5. ASSUME NEW n \in Node, Consume(n) \/ Unwind(n) \/ CloseMerged(n) PROVE Capacity'
  BY <1>1, <1>5 DEF Consume, Unwind, Deliver, EndOfInput, SelectCancelled, StopReaders,
     JoinReaders, CheckCtx, Abort, RecordError, CancelRun, CloseEdge, StageDone, CloseMerged,
     edgeVars
<1>6. CASE RunReturns \/ ExternalCancel \/ UNCHANGED vars
  BY <1>1, <1>6 DEF RunReturns, ExternalCancel, vars, edgeVars
<1> QED
  BY <1>2, <1>4, <1>5, <1>6 DEF Next, Stage, Callback, Send, Finished, CallbackOrSend

LEMMA FlowInit == Init => Flow
BY DEF Init, Flow, InFlight

LEMMA FlowNext == TypeInv /\ Control /\ Capacity /\ Flow /\ [Next]_vars => Flow'
<1> SUFFICES ASSUME TypeInv, Control, Capacity, Flow, [Next]_vars PROVE Flow'
  OBVIOUS
<1>1. ASSUME NEW n \in Node, CallbackOrSend(n) PROVE Flow'
  <2>1. UNCHANGED <<ctxDone, got>>
    BY <1>1, CallbackOrSendControl
  <2>2. CASE UNCHANGED <<buf, rpc, held, sent>>
    BY <2>1, <2>2, FlowUnchanged
  <2>3. ASSUME NEW e \in Edge, sending[n] \in Batch, sent' = Log(sent, e, sending[n]),
               \/ /\ buf' = [buf EXCEPT ![e] = Append(@, sending[n])]
                  /\ UNCHANGED <<rpc, held>>
               \/ /\ rpc[e] = "recv" /\ Cap = 0
                  /\ rpc' = [rpc EXCEPT ![e] = "offer"]
                  /\ held' = [held EXCEPT ![e] = sending[n]]
                  /\ UNCHANGED buf
               \/ rpc[e] = "drain" /\ UNCHANGED <<buf, rpc, held>>
        PROVE  Flow'
    <3>1. CASE ~Traced
      BY <2>1, <2>3, <3>1 DEF Log, Flow
    <3>2. CASE Traced /\ ctxDone
      BY <2>1, <3>2 DEF Flow
    <3>3. CASE Traced /\ ~ctxDone
      <4>1. sent' = [sent EXCEPT ![e] = Append(@, sending[n])]
        BY <2>3, <3>3 DEF Log
      <4>2. \A f \in Edge : sent[f] = got[f] \o InFlight(f) \o buf[f]
        BY <3>3 DEF Flow
      <4>3. /\ got[e] \in Seq(Batch) /\ buf[e] \in Seq(Batch) /\ InFlight(e) \in Seq(Batch)
        BY DEF TypeInv, TypeOK, Shape, ReaderShape, InFlight
      <4>4. \A f \in Edge \ {e} :
              sent'[f] = sent[f] /\ buf'[f] = buf[f] /\ InFlight(f)' = InFlight(f)
        BY <2>3, <4>1 DEF TypeInv, TypeOK, InFlight
      <4>5. sent'[e] = got'[e] \o InFlight(e)' \o buf'[e]
        <5>1. sent'[e] = Append(got[e] \o InFlight(e) \o buf[e], sending[n])
          BY <4>1, <4>2 DEF TypeInv, TypeOK
        <5>2. CASE buf' = [buf EXCEPT ![e] = Append(@, sending[n])] /\ UNCHANGED <<rpc, held>>
          <6>1. buf'[e] = Append(buf[e], sending[n]) /\ InFlight(e)' = InFlight(e)
            BY <5>2 DEF InFlight, TypeInv, TypeOK
          <6>2. Append(got[e] \o InFlight(e) \o buf[e], sending[n])
                  = got[e] \o InFlight(e) \o Append(buf[e], sending[n])
            <7>1. sending[n] \in Batch
              BY <2>3
            <7> QED BY <4>3, <7>1, PushedSequence, Zenon
          <6> QED BY <2>1, <5>1, <6>1, <6>2
        <5>3. CASE /\ rpc[e] = "recv" /\ Cap = 0
                   /\ rpc' = [rpc EXCEPT ![e] = "offer"]
                   /\ held' = [held EXCEPT ![e] = sending[n]]
                   /\ UNCHANGED buf
          <6>1. InFlight(e) = <<>> /\ InFlight(e)' = <<sending[n]>>
            BY <5>3 DEF InFlight, TypeInv, TypeOK
          <6>2. buf[e] = <<>> /\ buf'[e] = <<>>
            BY <5>3, <4>3 DEF Capacity
          <6>3. Append(got[e] \o <<>> \o <<>>, sending[n]) = got[e] \o <<sending[n]>> \o <<>>
            BY <2>3, <4>3, HandedSequence
          <6> QED BY <2>1, <5>1, <6>1, <6>2, <6>3
        <5>4. CASE rpc[e] = "drain" /\ UNCHANGED <<buf, rpc, held>>
          BY <3>3, <5>4 DEF Control, EdgeControl
        <5> QED BY <2>3, <5>2, <5>3, <5>4
      <4>6. \A f \in Edge : sent'[f] = got'[f] \o InFlight(f)' \o buf'[f]
        BY <2>1, <4>2, <4>4, <4>5
      <4> QED BY <3>3, <4>6 DEF Flow
    <3> QED BY <3>1, <3>2, <3>3
  <2> QED BY <1>1, <2>2, <2>3, CallbackOrSendEdges
<1>2. ASSUME NEW e \in Edge, Deliver(e) PROVE Flow'
  <2>1. /\ rpc[e] = "offer" /\ held[e] \in Batch /\ got' = Log(got, e, held[e])
        /\ rpc' = [rpc EXCEPT ![e] = "recv"] /\ held' = [held EXCEPT ![e] = NoBatch]
        /\ UNCHANGED <<buf, sent, ctxDone>>
    BY <1>2 DEF Deliver, edgeVars, runVars, TypeInv, Shape, ReaderShape
  <2>2. CASE ~Traced
    BY <2>1, <2>2 DEF Log, Flow
  <2>3. CASE Traced /\ ctxDone
    BY <2>1, <2>3 DEF Flow
  <2>4. CASE Traced /\ ~ctxDone
    <3>1. \A f \in Edge : sent[f] = got[f] \o InFlight(f) \o buf[f]
      BY <2>4 DEF Flow
    <3>2. /\ got'[e] = Append(got[e], held[e])
          /\ \A f \in Edge \ {e} : got'[f] = got[f] /\ InFlight(f)' = InFlight(f)
          /\ InFlight(e) = <<held[e]>> /\ InFlight(e)' = <<>>
      BY <2>1, <2>4 DEF Log, InFlight, TypeInv, TypeOK
    <3>3. got[e] \o <<held[e]>> \o buf[e] = Append(got[e], held[e]) \o <<>> \o buf[e]
      <4>1. got[e] \in Seq(Batch) /\ buf[e] \in Seq(Batch) /\ held[e] \in Batch
        BY <2>1 DEF TypeInv, TypeOK
      <4> QED BY <4>1, DeliveredSequence, Zenon
    <3>4. \A f \in Edge : sent'[f] = got'[f] \o InFlight(f)' \o buf'[f]
      BY <2>1, <3>1, <3>2, <3>3
    <3> QED BY <2>4, <3>4 DEF Flow
  <2> QED BY <2>2, <2>3, <2>4
<1>3. ASSUME NEW e \in Edge, ReaderReceives(e) PROVE Flow'
  <2>1. /\ rpc[e] = "recv" /\ buf[e] # <<>> /\ buf[e] \in Seq(Batch) /\ got[e] \in Seq(Batch)
        /\ held' = [held EXCEPT ![e] = Head(buf[e])]
        /\ buf' = [buf EXCEPT ![e] = Tail(@)] /\ rpc' = [rpc EXCEPT ![e] = "offer"]
        /\ UNCHANGED <<got, sent, ctxDone>>
    BY <1>3 DEF ReaderReceives, runVars, logVars, TypeInv, TypeOK
  <2>2. CASE ~Traced \/ ctxDone
    BY <2>1, <2>2 DEF Flow
  <2>3. CASE Traced /\ ~ctxDone
    <3>1. \A f \in Edge : sent[f] = got[f] \o InFlight(f) \o buf[f]
      BY <2>3 DEF Flow
    <3>2. /\ \A f \in Edge \ {e} : buf'[f] = buf[f] /\ InFlight(f)' = InFlight(f)
          /\ InFlight(e) = <<>> /\ InFlight(e)' = <<Head(buf[e])>> /\ buf'[e] = Tail(buf[e])
      BY <2>1 DEF InFlight, TypeInv, TypeOK
    <3>3. got[e] \o <<>> \o buf[e] = got[e] \o <<Head(buf[e])>> \o Tail(buf[e])
      BY <2>1, ReceivedSequence
    <3>4. \A f \in Edge : sent'[f] = got'[f] \o InFlight(f)' \o buf'[f]
      BY <2>1, <3>1, <3>2, <3>3
    <3> QED BY <2>3, <3>4 DEF Flow
  <2> QED BY <2>2, <2>3
<1>4. ASSUME NEW e \in Edge, ReaderExits(e) PROVE Flow'
  <2>1. /\ UNCHANGED <<buf, held, got, sent, ctxDone>>
        /\ \A f \in Edge : InFlight(f)' = InFlight(f)
    BY <1>4 DEF ReaderExits, edgeVars, runVars, logVars, InFlight, TypeInv, TypeOK
  <2> QED BY <2>1 DEF Flow
<1>5. ASSUME NEW e \in Edge, ReaderCancelled(e) \/ DrainEdge(e) PROVE Flow'
  <2>1. ctxDone
    BY <1>5, GraphFacts DEF ReaderCancelled, DrainEdge, ReadDone, Control, StageControl,
       EdgeControl
  <2>2. UNCHANGED <<ctxDone, sent, got>>
    BY <1>5 DEF ReaderCancelled, DrainEdge, runVars, logVars
  <2> QED BY <2>1, <2>2 DEF Flow
<1>6. ASSUME NEW n \in Node,
             \/ EndOfInput(n) \/ SelectCancelled(n) \/ StopReaders(n) \/ JoinReaders(n)
             \/ CheckCtx(n) \/ Abort(n) \/ Unwind(n) \/ CloseMerged(n)
      PROVE  Flow'
  BY <1>6, FlowUnchanged DEF Unwind, EndOfInput, SelectCancelled, StopReaders, JoinReaders,
     CheckCtx, Abort, RecordError, CancelRun, CloseEdge, StageDone, CloseMerged,
     edgeVars, readVars, runVars, logVars
<1>7. CASE RunReturns \/ ExternalCancel \/ UNCHANGED vars
  BY <1>7, FlowUnchanged DEF RunReturns, ExternalCancel, vars, edgeVars, readVars, runVars,
     logVars
<1> QED
  BY <1>1, <1>2, <1>3, <1>4, <1>5, <1>6, <1>7
     DEF Next, Stage, Callback, Send, Consume, Reader, Finished, CallbackOrSend, InEdges

----------------------------------------------------------------------------
(* The barrier itself: true when CheckCtx lets a stage finish, and stable. *)

StageFinished(n) ==
  \A e \in InEdges(n) : rpc[e] = "exit" /\ Succeeded(From[e]) /\ got[e] = sent[e]

Barrier == \A n \in Node : finishes[n] > 0 => StageFinished(n)

LEMMA BarrierInit == Init => Barrier
BY DEF Init, Barrier

\* Nothing that made a stage's input complete can change afterwards.
LEMMA BarrierStable ==
  ASSUME Barrier, finishes' = finishes,
         \A e \in Edge : rpc[e] = "exit" => rpc'[e] = "exit",
         \A e \in Edge : rpc[e] = "exit" /\ Succeeded(From[e]) =>
           got'[e] = got[e] /\ sent'[e] = sent[e],
         \A n \in Node : Succeeded(n) => Succeeded(n)'
  PROVE  Barrier'
BY GraphFacts DEF Barrier, StageFinished, InEdges

LEMMA BarrierNext ==
  TypeInv /\ Control /\ Flow /\ Barrier /\ [Next]_vars => Barrier'
<1> SUFFICES ASSUME TypeInv, Control, Flow, Barrier, [Next]_vars PROVE Barrier'
  OBVIOUS
<1>1. ASSUME NEW n \in Node, CheckCtx(n) PROVE Barrier'
  <2>1. UNCHANGED <<rpc, sent, got>>
    BY <1>1 DEF CheckCtx, readVars, logVars
  <2>2. \A m \in Node : Succeeded(m) => Succeeded(m)'
    BY <1>1 DEF CheckCtx, Succeeded, TypeInv, TypeOK
  <2>3. ASSUME NEW e \in InEdges(n), ~ctxDone
        PROVE  rpc[e] = "exit" /\ Succeeded(From[e]) /\ got[e] = sent[e]
    <3>1. e \in Edge /\ From[e] \in Node /\ rpc[e] = "exit"
      BY <1>1, GraphFacts DEF CheckCtx, Control, MergeControl, ReadersExited, InEdges
    <3>2. closed[e] /\ buf[e] = <<>> /\ pc[From[e]] \in {"close", "done"}
      BY <3>1 DEF Control, EdgeControl
    <3>3. Succeeded(From[e])
      BY <2>3, <3>1, <3>2 DEF Control, StageControl, Succeeded
    <3>4. got[e] = sent[e]
      <4>1. CASE Traced
        <5>1. sent[e] = got[e] \o <<>> \o <<>>
          BY <2>3, <3>1, <3>2, <4>1 DEF Flow, InFlight
        <5> QED BY <3>1, <5>1 DEF TypeInv, TypeOK
      <4>2. CASE ~Traced
        BY <3>1, <4>2 DEF Flow
      <4> QED BY <4>1, <4>2
    <3> QED BY <3>1, <3>3, <3>4
  <2>4. CASE ctxDone
    BY <1>1, <2>1, <2>2, <2>4, BarrierStable DEF CheckCtx
  <2>5. CASE ~ctxDone
    <3>1. StageFinished(n)
      BY <2>3, <2>5 DEF StageFinished
    <3>2. \A m \in Node : StageFinished(m) => StageFinished(m)'
      BY <2>1, <2>2, GraphFacts DEF StageFinished, InEdges
    <3>3. \A m \in Node \ {n} : finishes'[m] = finishes[m]
      BY <1>1, <2>5 DEF CheckCtx, TypeInv, TypeOK
    <3> QED BY <3>1, <3>2, <3>3 DEF Barrier
  <2> QED BY <2>4, <2>5
<1>2. ASSUME NEW n \in Node, CallbackOrSend(n) PROVE Barrier'
  <2>1. /\ pc[n] \in CallbackPc \cup {"send"}
        /\ pc' = [pc EXCEPT ![n] = pc'[n]] /\ err' = [err EXCEPT ![n] = err'[n]]
        /\ UNCHANGED <<finishes, got>>
    BY <1>2, CallbackOrSendControl
  <2>2. \A m \in Node : Succeeded(m) => Succeeded(m)'
    BY <2>1 DEF Succeeded, CallbackPc, TypeInv, TypeOK
  <2>3. \A f \in Edge : rpc[f] = "exit" => rpc'[f] = "exit" /\ sent'[f] = sent[f]
    <3>1. ASSUME NEW e \in Edge, rpc[e] # "exit", sent' = Log(sent, e, sending[n]),
                 \/ UNCHANGED rpc
                 \/ rpc' = [rpc EXCEPT ![e] = "offer"]
          PROVE  \A f \in Edge : rpc[f] = "exit" => rpc'[f] = "exit" /\ sent'[f] = sent[f]
      BY <3>1 DEF Log, TypeInv, TypeOK
    <3> QED BY <1>2, <3>1, CallbackOrSendEdges
  <2> QED BY <2>1, <2>2, <2>3, BarrierStable
<1>3. ASSUME NEW e \in Edge, Deliver(e) PROVE Barrier'
  <2>1. To[e] \in Node
    BY GraphFacts
  <2>2. \A m \in Node : Succeeded(m) => Succeeded(m)'
    BY <1>3, <2>1 DEF Deliver, Succeeded, TypeInv, TypeOK
  <2>3. \A f \in Edge : rpc[f] = "exit" => rpc'[f] = "exit" /\ got'[f] = got[f]
    BY <1>3 DEF Deliver, Log, TypeInv, TypeOK
  <2> QED BY <1>3, <2>2, <2>3, BarrierStable DEF Deliver, callVars
<1>4. ASSUME NEW e \in Edge, Reader(e) PROVE Barrier'
  <2>1. UNCHANGED <<pc, err, finishes, got, sent>>
    BY <1>4 DEF Reader, ReaderReceives, ReaderExits, ReaderCancelled, DrainEdge,
       stageVars, callVars, logVars
  <2>2. \A f \in Edge : rpc[f] = "exit" => rpc'[f] = "exit"
    BY <1>4 DEF Reader, ReaderReceives, ReaderExits, ReaderCancelled, DrainEdge, readVars,
       TypeInv, TypeOK
  <2> QED BY <2>1, <2>2, BarrierStable DEF Succeeded
<1>5. ASSUME NEW n \in Node,
             \/ EndOfInput(n) \/ SelectCancelled(n) \/ StopReaders(n) \/ JoinReaders(n)
             \/ Abort(n) \/ Unwind(n) \/ CloseMerged(n)
      PROVE  Barrier'
  <2>1. UNCHANGED <<rpc, finishes, got, sent>>
    BY <1>5 DEF EndOfInput, SelectCancelled, StopReaders, JoinReaders, Abort, Unwind,
       RecordError, CancelRun, CloseEdge, StageDone, CloseMerged, readVars, callVars, logVars
  <2>2. \A m \in Node : Succeeded(m) => Succeeded(m)'
    BY <1>5 DEF EndOfInput, SelectCancelled, StopReaders, JoinReaders, Abort, Unwind,
       RecordError, CancelRun, CloseEdge, StageDone, CloseMerged, stageVars, Succeeded,
       TypeInv, TypeOK
  <2> QED BY <2>1, <2>2, BarrierStable
<1>6. CASE RunReturns \/ ExternalCancel \/ UNCHANGED vars
  BY <1>6, BarrierStable DEF RunReturns, ExternalCancel, vars, stageVars, readVars, callVars,
     logVars, Succeeded
<1> QED
  BY <1>1, <1>2, <1>3, <1>4, <1>5, <1>6
     DEF Next, Stage, Callback, Send, Consume, Finished, CallbackOrSend, InEdges

\* Whatever the graph, the buffer size and the failing stages: when Finish is
\* called, every upstream stage has succeeded and every batch it sent has been
\* consumed.  This holds although cancellation may come at any moment, because
\* only CheckCtx leads to Finish and everything it relies on is final.
THEOREM FinishOnCompleteInput == Spec => []FinishBarrier
<1> DEFINE IInv == TypeInv /\ Control /\ Capacity /\ Flow /\ Barrier
<1>1. Init => IInv
  BY TypeInvInit, ControlInit, CapacityInit, FlowInit, BarrierInit
<1>2. IInv /\ [Next]_vars => IInv'
  BY TypeInvNext, ControlNext, CapacityNext, FlowNext, BarrierNext
<1>3. IInv => FinishBarrier
  BY DEF FinishBarrier, Barrier, StageFinished, Control, EdgeControl, InEdges
<1> HIDE DEF IInv
<1> QED BY <1>1, <1>2, <1>3, PTL DEF Spec

----------------------------------------------------------------------------
(***************************************************************************)
(* Part 2.  How a run ends: how often a stage is finished or aborted, that *)
(* no stage is stopped without a cause, which error Run returns, in which  *)
(* order an edge delivers, and that a run that returns nil did all of its  *)
(* work.                                                                   *)
(***************************************************************************)

\* A stage on its way out after an error, and one that runNode is leaving or
\* has left.
Unwinding == {"stop", "wait", "abort", "fail", "cancel"}
Leaving   == {"fail", "cancel", "close", "done"}

\* The error of a stage is set exactly when its loop, its callback or CheckCtx
\* gives up, and stays set until its goroutine ends.
ErrorShape ==
  \A n \in Node :
    /\ pc[n] \in Unwinding => err[n] # "nil"
    /\ err[n] # "nil" => pc[n] \in Unwinding \cup {"close", "done"}

LEMMA ErrorFacts ==
  ASSUME TypeInv, ErrorShape, NEW n \in Node
  PROVE  /\ pc[n] \in CallbackPc \cup {"send", "select", "check"} => err[n] = "nil"
         /\ pc[n] \in Unwinding => err[n] # "nil"
BY DEF ErrorShape, Unwinding, CallbackPc

\* How a step of a callback or of Send leaves it.  An error it returns is one
\* of the errors raised, and only a source or a Finish can end its stage.
LEMMA CallbackOrSendOutcome ==
  ASSUME TypeInv, ErrorShape, NEW n \in Node, CallbackOrSend(n)
  PROVE  /\ pc'[n] \in {"stop", "fail"} => err'[n] # "nil"
         /\ err'[n] # "nil" => pc'[n] \in {"stop", "fail"} /\ raised' # <<>>
         /\ pc'[n] \in {"close", "fail"} => Kind[n] = "source" \/ finishes[n] > 0
         /\ raised # <<>> => raised' # <<>>
         /\ UNCHANGED external
<1> DEFINE Goal == /\ pc'[n] \in {"stop", "fail"} => err'[n] # "nil"
                   /\ err'[n] # "nil" => pc'[n] \in {"stop", "fail"} /\ raised' # <<>>
                   /\ pc'[n] \in {"close", "fail"} => Kind[n] = "source" \/ finishes[n] > 0
                   /\ raised # <<>> => raised' # <<>>
<1>1. ASSUME NEW x \in {"nil", "ctx", "own"}, NEW r, CallbackReturns(n, x, r) PROVE Goal
  <2>1. /\ err' = [err EXCEPT ![n] = x] /\ pc' = [pc EXCEPT ![n] = AfterCallback(n, x)]
        /\ raised' = IF x = "nil" THEN raised
                     ELSE Append(raised, [stage |-> n, late |-> ctxDone])
    BY <1>1 DEF CallbackReturns
  <2>2. Append(raised, [stage |-> n, late |-> ctxDone]) # <<>>
    <3>1. raised \in Seq([stage : Node, late : BOOLEAN])
          /\ [stage |-> n, late |-> ctxDone] \in [stage : Node, late : BOOLEAN]
      BY DEF TypeInv, TypeOK
    <3> QED BY <3>1
  <2>3. pc'[n] = AfterCallback(n, x) /\ err'[n] = x
    BY <2>1 DEF TypeInv, TypeOK
  <2> QED BY <2>1, <2>2, <2>3, CallerTyped DEF AfterCallback
<1>2. err[n] = "nil"
  BY CallbackOrSendControl, ErrorFacts
<1>3. ASSUME UNCHANGED <<err, raised>>, pc'[n] \in CallbackPc \cup {"send"} PROVE Goal
  BY <1>2, <1>3 DEF CallbackPc
<1>4. ASSUME NEW b, NEW r, pc[n] \in CallbackPc, EnterSend(n, b, r) PROVE Goal
  BY <1>1, <1>3, <1>4 DEF EnterSend, EnterLoop, TypeInv, TypeOK
<1>5. ASSUME NEW r, pc[n] = "send", AdvanceSend(n, r) PROVE Goal
  <2>1. CASE idx[n] < Len(Out[n])
    BY <1>3, <1>5, <2>1 DEF AdvanceSend, NextEdge
  <2>2. CASE ~(idx[n] < Len(Out[n])) /\ Owned(n, sending[n])
    BY <1>3, <1>5, <2>2, CallerTyped DEF AdvanceSend, SendReturnsNil, TypeInv, TypeOK
  <2>3. CASE ~(idx[n] < Len(Out[n])) /\ ~Owned(n, sending[n])
    BY <1>1, <1>5, <2>3 DEF AdvanceSend, SendReturnsNil
  <2> QED BY <2>1, <2>2, <2>3
<1> HIDE DEF Goal
<1>6. Goal
  <2>1. CASE ReturnNil(n) \/ ReturnOwnError(n) \/ ReturnCtxError(n)
    BY <1>1, <2>1 DEF ReturnNil, ReturnOwnError, ReturnCtxError
  <2>2. CASE Produce(n)
    BY <1>4, <2>2 DEF Produce
  <2>3. CASE Forward(n)
    BY <1>4, <2>3 DEF Forward, CallbackPc
  <2>4. CASE PushBuffered(n) \/ PushRendezvous(n)
    BY <1>5, <2>4 DEF PushBuffered, PushRendezvous
  <2>5. CASE SendCancelled(n)
    BY <1>1, <2>5 DEF SendCancelled
  <2> QED BY <2>1, <2>2, <2>3, <2>4, <2>5 DEF CallbackOrSend
<1>7. UNCHANGED external
  BY DEF CallbackOrSend, ReturnNil, ReturnOwnError, ReturnCtxError, Produce, Forward,
     PushBuffered, PushRendezvous, SendCancelled
<1> QED BY <1>6, <1>7 DEF Goal

LEMMA ErrorShapeInit == Init => ErrorShape
BY DEF Init, ErrorShape, Unwinding

LEMMA ErrorShapeNext == TypeInv /\ Control /\ ErrorShape /\ [Next]_vars => ErrorShape'
<1> SUFFICES ASSUME TypeInv, Control, ErrorShape, [Next]_vars PROVE ErrorShape'
  OBVIOUS
<1>1. CASE UNCHANGED <<pc, err>>
  BY <1>1 DEF ErrorShape
<1>2. ASSUME NEW n \in Node, CallbackOrSend(n) PROVE ErrorShape'
  <2>1. /\ pc' = [pc EXCEPT ![n] = pc'[n]] /\ err' = [err EXCEPT ![n] = err'[n]]
        /\ pc'[n] \in CallbackPc \cup {"send", "select", "stop", "close", "fail"}
        /\ pc'[n] \in {"stop", "fail"} => err'[n] # "nil"
        /\ err'[n] # "nil" => pc'[n] \in {"stop", "fail"}
    BY <1>2, CallbackOrSendControl, CallbackOrSendOutcome
  <2> QED BY <2>1 DEF ErrorShape, Unwinding, CallbackPc, TypeInv, TypeOK
<1>3. ASSUME NEW e \in Edge, Deliver(e) PROVE ErrorShape'
  <2>1. To[e] \in Node /\ pc[To[e]] = "select" /\ pc' = [pc EXCEPT ![To[e]] = "body"]
        /\ UNCHANGED err
    BY <1>3, GraphFacts DEF Deliver
  <2> QED BY <2>1 DEF ErrorShape, Unwinding, TypeInv, TypeOK
<1>4. ASSUME NEW n \in Node, SelectCancelled(n) PROVE ErrorShape'
  BY <1>4 DEF SelectCancelled, ReadDone, ErrorShape, Unwinding, TypeInv, TypeOK, Control,
     StageControl
<1>5. ASSUME NEW n \in Node, CheckCtx(n) PROVE ErrorShape'
  BY <1>5 DEF CheckCtx, ErrorShape, Unwinding, TypeInv, TypeOK
<1>6. ASSUME NEW n \in Node,
             \/ EndOfInput(n) \/ StopReaders(n) \/ JoinReaders(n) \/ Abort(n)
             \/ RecordError(n) \/ CancelRun(n) \/ StageDone(n)
      PROVE  ErrorShape'
  BY <1>6 DEF EndOfInput, StopReaders, JoinReaders, Abort, RecordError, CancelRun, StageDone,
     ErrorShape, Unwinding, TypeInv, TypeOK
<1>7. ASSUME NEW n \in Node, CloseEdge(n) \/ CloseMerged(n) PROVE ErrorShape'
  BY <1>1, <1>7 DEF CloseEdge, CloseMerged, stageVars
<1>8. ASSUME NEW e \in Edge, Reader(e) PROVE ErrorShape'
  BY <1>1, <1>8 DEF Reader, ReaderReceives, ReaderExits, ReaderCancelled, DrainEdge, stageVars
<1>9. CASE RunReturns \/ ExternalCancel \/ UNCHANGED vars
  BY <1>1, <1>9 DEF RunReturns, ExternalCancel, vars, stageVars
<1> QED
  BY <1>2, <1>3, <1>4, <1>5, <1>6, <1>7, <1>8, <1>9
     DEF Next, Stage, Callback, Send, Consume, Unwind, Finished, CallbackOrSend, InEdges

----------------------------------------------------------------------------
(* Finish and Abort.                                                       *)

\* Where the calls of Finish and Abort are counted, and that an Aborter that
\* leaves without a Finish leaves through abortIfAborter.
CallCounts ==
  \A n \in Node :
    /\ finishes[n] \in {0, 1} /\ aborts[n] \in {0, 1}
    /\ finishes[n] = 1 =>
         aborts[n] = 0 /\ Kind[n] # "source" /\ pc[n] \in Leaving \cup {"finish", "send"}
    /\ aborts[n] = 1 => pc[n] \in Leaving /\ n \in Aborter /\ err[n] # "nil"
    /\ pc[n] \in Leaving /\ finishes[n] = 0 /\ Kind[n] # "source" =>
         err[n] # "nil" /\ (n \in Aborter => aborts[n] = 1)

LEMMA CallCountsInit == Init => CallCounts
BY DEF Init, CallCounts, Leaving

LEMMA CallCountsNext ==
  TypeInv /\ Control /\ ErrorShape /\ CallCounts /\ [Next]_vars => CallCounts'
<1> SUFFICES ASSUME TypeInv, Control, ErrorShape, CallCounts, [Next]_vars PROVE CallCounts'
  OBVIOUS
<1> USE DEF CallCounts, Leaving
<1>1. CASE UNCHANGED <<pc, err, finishes, aborts>>
  BY <1>1
<1>2. ASSUME NEW n \in Node, CallbackOrSend(n) PROVE CallCounts'
  <2>1. /\ pc[n] \in CallbackPc \cup {"send"} /\ pc' = [pc EXCEPT ![n] = pc'[n]]
        /\ err' = [err EXCEPT ![n] = err'[n]] /\ UNCHANGED <<finishes, aborts>>
        /\ pc'[n] \in CallbackPc \cup {"send", "select", "stop", "close", "fail"}
    BY <1>2, CallbackOrSendControl
  <2>2. pc'[n] \in {"close", "fail"} => Kind[n] = "source" \/ finishes[n] > 0
    BY <1>2, CallbackOrSendOutcome
  <2>3. StageShape'
    BY TypeInvNext DEF TypeInv, Shape
  <2>4. finishes[n] = 1 => pc'[n] \in {"finish", "send", "fail", "close"}
    BY <2>1, <2>3 DEF StageShape, CallbackPc
  <2>5. aborts[n] = 0
    BY <2>1 DEF CallbackPc
  <2>6. ASSUME NEW m \in Node
        PROVE  /\ m # n => pc'[m] = pc[m] /\ err'[m] = err[m]
               /\ finishes'[m] = finishes[m] /\ aborts'[m] = aborts[m]
    BY <2>1 DEF TypeInv, TypeOK
  <2> QED BY <2>1, <2>2, <2>4, <2>5, <2>6 DEF CallbackPc
<1>3. ASSUME NEW e \in Edge, Deliver(e) PROVE CallCounts'
  <2>1. To[e] \in Node /\ pc[To[e]] = "select" /\ pc' = [pc EXCEPT ![To[e]] = "body"]
        /\ UNCHANGED <<err, finishes, aborts>>
    BY <1>3, GraphFacts DEF Deliver, callVars
  <2> QED BY <2>1 DEF TypeInv, TypeOK
<1>4. ASSUME NEW n \in Node, CheckCtx(n) PROVE CallCounts'
  <2>1. pc[n] = "check" /\ finishes[n] = 0 /\ aborts[n] = 0 /\ Kind[n] # "source"
    BY <1>4 DEF CheckCtx, TypeInv, Shape, StageShape
  <2>2. CASE ctxDone
    BY <1>4, <2>1, <2>2 DEF CheckCtx, TypeInv, TypeOK
  <2>3. CASE ~ctxDone
    <3>1. /\ pc' = [pc EXCEPT ![n] = "finish"] /\ UNCHANGED <<err, aborts>>
          /\ finishes' = [finishes EXCEPT ![n] = 1]
      BY <1>4, <2>1, <2>3 DEF CheckCtx
    <3> QED BY <2>1, <3>1 DEF TypeInv, TypeOK
  <2> QED BY <2>2, <2>3
<1>5. ASSUME NEW n \in Node, Abort(n) PROVE CallCounts'
  <2>1. pc[n] = "abort" /\ finishes[n] = 0 /\ aborts[n] = 0 /\ err[n] # "nil"
    BY <1>5, ErrorFacts DEF Abort, Unwinding
  <2> QED BY <1>5, <2>1 DEF Abort, TypeInv, TypeOK
<1>6. ASSUME NEW n \in Node,
             \/ EndOfInput(n) \/ SelectCancelled(n) \/ StopReaders(n) \/ JoinReaders(n)
             \/ RecordError(n) \/ CancelRun(n) \/ StageDone(n)
      PROVE  CallCounts'
  BY <1>6 DEF EndOfInput, SelectCancelled, StopReaders, JoinReaders, RecordError, CancelRun,
     StageDone, callVars, TypeInv, TypeOK
<1>7. ASSUME NEW n \in Node, CloseEdge(n) \/ CloseMerged(n) PROVE CallCounts'
  BY <1>1, <1>7 DEF CloseEdge, CloseMerged, stageVars, callVars
<1>8. ASSUME NEW e \in Edge, Reader(e) PROVE CallCounts'
  BY <1>1, <1>8 DEF Reader, ReaderReceives, ReaderExits, ReaderCancelled, DrainEdge,
     stageVars, callVars
<1>9. CASE RunReturns \/ ExternalCancel \/ UNCHANGED vars
  BY <1>1, <1>9 DEF RunReturns, ExternalCancel, vars, stageVars, callVars
<1> QED
  BY <1>2, <1>3, <1>4, <1>5, <1>6, <1>7, <1>8, <1>9
     DEF Next, Stage, Callback, Send, Consume, Unwind, Finished, CallbackOrSend, InEdges

----------------------------------------------------------------------------
(* Cause and effect of a cancellation, and the error Run records.          *)

\* Run returns after its last goroutine.
AllDone == returned => \A n \in Node : pc[n] = "done"

LEMMA AllDoneInit == Init => AllDone
BY DEF Init, AllDone

LEMMA AllDoneNext == TypeInv /\ AllDone /\ [Next]_vars => AllDone'
<1> SUFFICES ASSUME TypeInv, AllDone, [Next]_vars PROVE AllDone'
  OBVIOUS
<1>1. ASSUME NEW n \in Node, pc[n] # "done", UNCHANGED returned PROVE AllDone'
  BY <1>1 DEF AllDone
<1>2. ASSUME NEW n \in Node, CallbackOrSend(n) PROVE AllDone'
  BY <1>1, <1>2, CallbackOrSendControl DEF CallbackPc
<1>3. ASSUME NEW e \in Edge, Deliver(e) PROVE AllDone'
  BY <1>1, <1>3, GraphFacts DEF Deliver, runVars
<1>4. ASSUME NEW n \in Node,
             \/ EndOfInput(n) \/ SelectCancelled(n) \/ StopReaders(n) \/ JoinReaders(n)
             \/ CheckCtx(n) \/ Abort(n) \/ Unwind(n)
      PROVE  AllDone'
  BY <1>1, <1>4 DEF EndOfInput, SelectCancelled, StopReaders, JoinReaders, CheckCtx, Abort,
     Unwind, RecordError, CancelRun, CloseEdge, StageDone, runVars
<1>5. ASSUME NEW n \in Node, CloseMerged(n) PROVE AllDone'
  BY <1>5 DEF CloseMerged, AllDone, stageVars, runVars
<1>6. ASSUME NEW e \in Edge, Reader(e) PROVE AllDone'
  BY <1>6 DEF Reader, ReaderReceives, ReaderExits, ReaderCancelled, DrainEdge, AllDone,
     stageVars, runVars
<1>7. CASE RunReturns \/ ExternalCancel \/ UNCHANGED vars
  BY <1>7 DEF RunReturns, ExternalCancel, AllDone, vars, stageVars, runVars
<1> QED
  BY <1>2, <1>3, <1>4, <1>5, <1>6, <1>7
     DEF Next, Stage, Callback, Send, Consume, Finished, CallbackOrSend, InEdges

\* Before Run returns and cancels its own context, the context is cancelled
\* only by the caller, or by a stage that some callback's error stops.
Cause ==
  (ctxDone /\ ~returned) \/ (\E n \in Node : err[n] # "nil") =>
    external \/ raised # <<>>

LEMMA CauseInit == Init => Cause
BY DEF Init, Cause

LEMMA CauseNext ==
  TypeInv /\ Control /\ ErrorShape /\ AllDone /\ Cause /\ [Next]_vars => Cause'
<1> SUFFICES ASSUME TypeInv, Control, ErrorShape, AllDone, Cause, [Next]_vars PROVE Cause'
  OBVIOUS
<1>1. CASE UNCHANGED <<ctxDone, returned, err, external, raised>>
  BY <1>1 DEF Cause
<1>2. ASSUME NEW n \in Node, CallbackOrSend(n) PROVE Cause'
  <2>1. /\ err' = [err EXCEPT ![n] = err'[n]] /\ UNCHANGED <<ctxDone, returned, external>>
    BY <1>2, CallbackOrSendControl, CallbackOrSendOutcome
  <2>2. raised # <<>> => raised' # <<>>
    BY <1>2, CallbackOrSendOutcome
  <2>3. \A m \in Node \ {n} : err'[m] = err[m]
    BY <2>1 DEF TypeInv, TypeOK
  <2>4. err'[n] # "nil" => raised' # <<>>
    BY <1>2, CallbackOrSendOutcome
  <2> QED BY <2>1, <2>2, <2>3, <2>4 DEF Cause
<1>3. ASSUME NEW n \in Node, ctxDone, pc[n] # "done",
             UNCHANGED <<external, raised>>
      PROVE  Cause'
  BY <1>3 DEF Cause, AllDone
<1>4. ASSUME NEW n \in Node, pc[n] \in Unwinding, UNCHANGED <<external, raised>>
      PROVE  Cause'
  BY <1>4, ErrorFacts DEF Cause
<1>5. ASSUME NEW n \in Node, SelectCancelled(n) PROVE Cause'
  BY <1>3, <1>5 DEF SelectCancelled, ReadDone, Control, StageControl
<1>6. ASSUME NEW n \in Node, CheckCtx(n) PROVE Cause'
  BY <1>1, <1>3, <1>6 DEF CheckCtx, runVars
<1>7. ASSUME NEW n \in Node, StopReaders(n) \/ CancelRun(n) PROVE Cause'
  BY <1>4, <1>7 DEF StopReaders, CancelRun, Unwinding
<1>8. ASSUME NEW n \in Node,
             \/ EndOfInput(n) \/ JoinReaders(n) \/ Abort(n) \/ RecordError(n) \/ CloseEdge(n)
             \/ StageDone(n) \/ CloseMerged(n)
      PROVE  Cause'
  BY <1>1, <1>8 DEF EndOfInput, JoinReaders, Abort, RecordError, CloseEdge, StageDone,
     CloseMerged, stageVars, runVars
<1>9. ASSUME NEW e \in Edge, Reader(e) \/ Deliver(e) PROVE Cause'
  BY <1>1, <1>9 DEF Reader, ReaderReceives, ReaderExits, ReaderCancelled, DrainEdge, Deliver,
     stageVars, runVars
<1>10. CASE RunReturns
  BY <1>10 DEF RunReturns, Cause, stageVars
<1>11. CASE ExternalCancel \/ UNCHANGED vars
  BY <1>1, <1>11 DEF ExternalCancel, Cause, vars, stageVars, runVars
<1> QED
  BY <1>2, <1>5, <1>6, <1>7, <1>8, <1>9, <1>10, <1>11
     DEF Next, Stage, Callback, Send, Consume, Unwind, Finished, CallbackOrSend, InEdges

\* A stage whose error fail has looked at.
Reported(n) == pc[n] \in {"cancel", "close", "done"} /\ err[n] # "nil"

\* recorded is the error of such a stage, and one of its own if there is one.
Record ==
  /\ recorded # NoNode => recorded \in Node /\ Reported(recorded)
  /\ \A n \in Node : Reported(n) =>
       recorded # NoNode /\ (err[n] = "own" => err[recorded] = "own")

LEMMA RecordInit == Init => Record
BY DEF Init, Record, Reported

\* Nothing but fail changes which stages are reported, or their errors.
LEMMA RecordUnchanged ==
  ASSUME TypeInv, Record, UNCHANGED recorded, NEW n \in Node, ~Reported(n), ~Reported(n)',
         pc' = [pc EXCEPT ![n] = pc'[n]], err' = [err EXCEPT ![n] = err'[n]]
  PROVE  Record'
<1>1. \A m \in Node \ {n} : pc'[m] = pc[m] /\ err'[m] = err[m]
  BY DEF TypeInv, TypeOK
<1> QED BY <1>1 DEF Record, Reported

LEMMA RecordNext == TypeInv /\ ErrorShape /\ Record /\ [Next]_vars => Record'
<1> SUFFICES ASSUME TypeInv, ErrorShape, Record, [Next]_vars PROVE Record'
  OBVIOUS
<1>1. CASE UNCHANGED <<pc, err, recorded>>
  BY <1>1 DEF Record, Reported
<1>2. ASSUME NEW n \in Node, CallbackOrSend(n) PROVE Record'
  <2>1. /\ pc[n] \in CallbackPc \cup {"send"} /\ UNCHANGED recorded
        /\ pc' = [pc EXCEPT ![n] = pc'[n]] /\ err' = [err EXCEPT ![n] = err'[n]]
        /\ err'[n] # "nil" => pc'[n] \in {"stop", "fail"}
    BY <1>2, CallbackOrSendControl, CallbackOrSendOutcome
  <2>2. ~Reported(n) /\ ~Reported(n)'
    BY <2>1 DEF Reported, CallbackPc
  <2> QED BY <2>1, <2>2, RecordUnchanged
<1>3. ASSUME NEW e \in Edge, Deliver(e) PROVE Record'
  <2>1. To[e] \in Node /\ pc[To[e]] = "select" /\ pc' = [pc EXCEPT ![To[e]] = "body"]
        /\ UNCHANGED <<err, recorded>>
    BY <1>3, GraphFacts DEF Deliver, runVars
  <2>2. /\ pc' = [pc EXCEPT ![To[e]] = pc'[To[e]]] /\ err' = [err EXCEPT ![To[e]] = err'[To[e]]]
        /\ ~Reported(To[e]) /\ ~Reported(To[e])'
    BY <2>1 DEF Reported, TypeInv, TypeOK
  <2> QED BY <2>1, <2>2, RecordUnchanged
<1>4. ASSUME NEW n \in Node,
             \/ EndOfInput(n) \/ SelectCancelled(n) \/ StopReaders(n) \/ JoinReaders(n)
             \/ CheckCtx(n) \/ Abort(n)
      PROVE  Record'
  <2>1. /\ pc' = [pc EXCEPT ![n] = pc'[n]] /\ err' = [err EXCEPT ![n] = err'[n]]
        /\ pc[n] \notin {"cancel", "close", "done"} /\ pc'[n] \notin {"cancel", "close", "done"}
        /\ UNCHANGED recorded
    BY <1>4 DEF EndOfInput, SelectCancelled, StopReaders, JoinReaders, CheckCtx, Abort, runVars,
       TypeInv, TypeOK
  <2> QED BY <2>1, RecordUnchanged DEF Reported
<1>5. ASSUME NEW n \in Node, RecordError(n) PROVE Record'
  <2>1. /\ pc[n] = "fail" /\ err[n] # "nil" /\ ~Reported(n)
        /\ recorded' = Preferred(n) /\ pc' = [pc EXCEPT ![n] = "cancel"] /\ UNCHANGED err
    BY <1>5, ErrorFacts DEF RecordError, Reported, Unwinding
  <2>2. Reported(n)' /\ \A m \in Node \ {n} : Reported(m)' <=> Reported(m)
    BY <2>1 DEF Reported, TypeInv, TypeOK
  <2>3. n # NoNode /\ recorded' # NoNode
    BY <2>1, ParameterAssumption DEF ParameterAssumption, Preferred
  <2>4. recorded' \in Node /\ Reported(recorded)'
    BY <2>1, <2>2 DEF Preferred, Record
  <2>5. ASSUME NEW m \in Node, Reported(m)', err[m] = "own" PROVE err[recorded'] = "own"
    BY <2>1, <2>2, <2>5 DEF Preferred, IsCancellationErr, Record, Reported, TypeInv, TypeOK
  <2> QED BY <2>1, <2>3, <2>4, <2>5 DEF Record
<1>6. ASSUME NEW n \in Node, CancelRun(n) \/ StageDone(n) PROVE Record'
  <2>1. \A m \in Node : Reported(m)' <=> Reported(m)
    BY <1>6 DEF CancelRun, StageDone, Reported, TypeInv, TypeOK
  <2>2. UNCHANGED <<err, recorded>>
    BY <1>6 DEF CancelRun, StageDone, runVars
  <2> QED BY <2>1, <2>2 DEF Record
<1>7. ASSUME NEW n \in Node, CloseEdge(n) \/ CloseMerged(n) PROVE Record'
  BY <1>1, <1>7 DEF CloseEdge, CloseMerged, stageVars, runVars
<1>8. ASSUME NEW e \in Edge, Reader(e) PROVE Record'
  BY <1>1, <1>8 DEF Reader, ReaderReceives, ReaderExits, ReaderCancelled, DrainEdge,
     stageVars, runVars
<1>9. CASE RunReturns \/ ExternalCancel \/ UNCHANGED vars
  BY <1>1, <1>9 DEF RunReturns, ExternalCancel, vars, stageVars, runVars
<1> QED
  BY <1>2, <1>3, <1>4, <1>5, <1>6, <1>7, <1>8, <1>9
     DEF Next, Stage, Callback, Send, Consume, Unwind, Finished, CallbackOrSend, InEdges

\* The invariant of this module, and of the theorems below.
OutcomeInv ==
  TypeInv /\ Control /\ ErrorShape /\ CallCounts /\ AllDone /\ Cause /\ Record

LEMMA OutcomeInvariant == Spec => []OutcomeInv
<1>1. Init => OutcomeInv
  BY TypeInvInit, ControlInit, ErrorShapeInit, CallCountsInit, AllDoneInit, CauseInit,
     RecordInit DEF OutcomeInv
<1>2. OutcomeInv /\ [Next]_vars => OutcomeInv'
  BY TypeInvNext, ControlNext, ErrorShapeNext, CallCountsNext, AllDoneNext, CauseNext,
     RecordNext DEF OutcomeInv
<1> QED BY <1>1, <1>2, PTL DEF Spec

\* No path through cancellation, a failing callback or a failing Finish calls
\* Abort twice, calls it after Finish, or forgets it: runNode aborts exactly
\* where consumeInputs or the ctx.Err() after it returned an error.
THEOREM FinishOrAbortOnce == Spec => []FinishXorAbort
<1>1. OutcomeInv => FinishXorAbort
  BY ParameterAssumption DEF ParameterAssumption, OutcomeInv, FinishXorAbort, CallCounts, Leaving
<1> QED BY <1>1, OutcomeInvariant, PTL

\* No stage gives up because of a cancellation nobody asked for: every ctx.Err()
\* a stage meets before Run returns goes back to the caller or to an error that
\* some callback returned.
THEOREM NoStrayCancellation == Spec => []CancelHasCause
<1>1. OutcomeInv => CancelHasCause
  BY DEF OutcomeInv, Cause, CancelHasCause
<1> QED BY <1>1, OutcomeInvariant, PTL

\* Whatever the order in which the stages fail, Run reports an error if any
\* stage had one, and a cancellation only if no stage had an error of its own.
THEOREM RunReportsOwnError == Spec => []ErrorPreference
<1>1. OutcomeInv => ErrorPreference
  BY DEF OutcomeInv, AllDone, Record, Reported, ErrorPreference
<1> QED BY <1>1, OutcomeInvariant, PTL

----------------------------------------------------------------------------
(* The order of the batches, also in a run that is cancelled.              *)

LEMMA PrefixOfItself ==
  ASSUME NEW S, NEW s \in Seq(S)
  PROVE  PrefixOf(s, s)
BY DEF PrefixOf

LEMMA PrefixOfAppend ==
  ASSUME NEW S, NEW s \in Seq(S), NEW t \in Seq(S), NEW x \in S, PrefixOf(s, t)
  PROVE  PrefixOf(s, Append(t, x))
BY DEF PrefixOf

LEMMA OneBehind ==
  ASSUME NEW S, NEW s \in Seq(S), NEW b \in S, NEW t, t = s \/ t = Append(s, b)
  PROVE  PrefixOf(s, t) /\ Len(t) - Len(s) <= 1
<1>1. Len(s) \in Nat /\ Len(Append(s, b)) = Len(s) + 1
  OBVIOUS
<1>2. PrefixOf(s, s)
  BY PrefixOfItself
<1>3. PrefixOf(s, Append(s, b))
  BY <1>2, PrefixOfAppend
<1>4. CASE t = s
  BY <1>1, <1>2, <1>4
<1>5. CASE t = Append(s, b)
  BY <1>1, <1>3, <1>5
<1> QED BY <1>4, <1>5

LEMMA RegroupedSequence ==
  \A g, h, b \in Seq(Batch) : (g \o h) \o b = g \o (h \o b)
BY ConcatAssociative

LEMMA PrefixOfConcat ==
  ASSUME NEW S, NEW s \in Seq(S), NEW t \in Seq(S)
  PROVE  PrefixOf(s, s \o t)
BY DEF PrefixOf

----------------------------------------------------------------------------
(* Order on one edge.  Flow speaks of runs that are not cancelled; this    *)
(* also says what a cancelled run has delivered: while the reader is in    *)
(* its loop nothing is lost, and once it drains it delivers no more.       *)

StreamAt(e) ==
  IF rpc[e] \in {"recv", "offer"} THEN sent[e] = got[e] \o InFlight(e) \o buf[e]
  ELSE PrefixOf(got[e], sent[e])

Stream == Traced => \A e \in Edge : StreamAt(e)

LEMMA EdgeTyped ==
  ASSUME TypeInv, NEW e \in Edge
  PROVE  /\ got[e] \in Seq(Batch) /\ sent[e] \in Seq(Batch) /\ buf[e] \in Seq(Batch)
         /\ InFlight(e) \in Seq(Batch)
BY DEF TypeInv, TypeOK, Shape, ReaderShape, InFlight

LEMMA StreamPrefix ==
  ASSUME TypeInv, NEW e \in Edge, StreamAt(e)
  PROVE  PrefixOf(got[e], sent[e])
<1>1. got[e] \in Seq(Batch) /\ InFlight(e) \o buf[e] \in Seq(Batch)
  BY EdgeTyped
<1>2. CASE rpc[e] \in {"recv", "offer"}
  <2>1. sent[e] = (got[e] \o InFlight(e)) \o buf[e]
    BY <1>2 DEF StreamAt
  <2>2. (got[e] \o InFlight(e)) \o buf[e] = got[e] \o (InFlight(e) \o buf[e])
    BY EdgeTyped, RegroupedSequence, Zenon
  <2>3. PrefixOf(got[e], got[e] \o (InFlight(e) \o buf[e]))
    BY <1>1, PrefixOfConcat
  <2> QED BY <2>1, <2>2, <2>3
<1> QED BY <1>2 DEF StreamAt

LEMMA StreamInit == Init => Stream
BY DEF Init, Stream, StreamAt, InFlight

\* A step on one edge leaves the others alone.
LEMMA StreamOther ==
  ASSUME TypeInv, Stream, NEW e \in Edge,
         \A f \in Edge \ {e} :
           rpc'[f] = rpc[f] /\ held'[f] = held[f] /\ buf'[f] = buf[f] /\ sent'[f] = sent[f]
             /\ got'[f] = got[f],
         Traced => StreamAt(e)'
  PROVE  Stream'
BY DEF Stream, StreamAt, InFlight

LEMMA StreamNext == TypeInv /\ Control /\ Capacity /\ Stream /\ [Next]_vars => Stream'
<1> SUFFICES ASSUME TypeInv, Control, Capacity, Stream, [Next]_vars PROVE Stream'
  OBVIOUS
<1>1. CASE UNCHANGED <<rpc, held, buf, sent, got>>
  BY <1>1 DEF Stream, StreamAt, InFlight
<1>2. ASSUME NEW n \in Node, CallbackOrSend(n) PROVE Stream'
  <2>1. UNCHANGED got
    BY <1>2, CallbackOrSendControl
  <2>2. ASSUME NEW e \in Edge, sending[n] \in Batch, sent' = Log(sent, e, sending[n]),
               \/ /\ buf' = [buf EXCEPT ![e] = Append(@, sending[n])]
                  /\ UNCHANGED <<rpc, held>>
               \/ /\ rpc[e] = "recv" /\ Cap = 0
                  /\ rpc' = [rpc EXCEPT ![e] = "offer"]
                  /\ held' = [held EXCEPT ![e] = sending[n]]
                  /\ UNCHANGED buf
               \/ rpc[e] = "drain" /\ UNCHANGED <<buf, rpc, held>>
        PROVE  Stream'
    <3>1. \A f \in Edge \ {e} :
            rpc'[f] = rpc[f] /\ held'[f] = held[f] /\ buf'[f] = buf[f] /\ sent'[f] = sent[f]
              /\ got'[f] = got[f]
      BY <2>1, <2>2 DEF Log, TypeInv, TypeOK
    <3>2. ASSUME Traced PROVE StreamAt(e)'
      <4>1. sent'[e] = Append(sent[e], sending[n]) /\ StreamAt(e)
        BY <2>2, <3>2 DEF Log, Stream, TypeInv, TypeOK
      <4>2. CASE rpc'[e] = rpc[e] /\ rpc[e] \notin {"recv", "offer"}
        BY <2>1, <2>2, <4>1, <4>2, EdgeTyped, PrefixOfAppend DEF StreamAt
      <4>3. CASE /\ buf' = [buf EXCEPT ![e] = Append(@, sending[n])]
                 /\ UNCHANGED <<rpc, held>> /\ rpc[e] \in {"recv", "offer"}
        <5>1. sent[e] = got[e] \o InFlight(e) \o buf[e]
          BY <4>1, <4>3 DEF StreamAt
        <5>2. Append(got[e] \o InFlight(e) \o buf[e], sending[n])
                = got[e] \o InFlight(e) \o Append(buf[e], sending[n])
          <6>1. sending[n] \in Batch
            BY <2>2
          <6> QED BY <6>1, EdgeTyped, PushedSequence, Zenon
        <5>3. buf'[e] = Append(buf[e], sending[n]) /\ InFlight(e)' = InFlight(e)
          BY <4>3 DEF InFlight, TypeInv, TypeOK
        <5> QED BY <2>1, <4>1, <4>3, <5>1, <5>2, <5>3 DEF StreamAt
      <4>4. CASE /\ rpc[e] = "recv" /\ Cap = 0
                 /\ rpc' = [rpc EXCEPT ![e] = "offer"]
                 /\ held' = [held EXCEPT ![e] = sending[n]]
                 /\ UNCHANGED buf
        <5>1. InFlight(e) = <<>> /\ InFlight(e)' = <<sending[n]>> /\ rpc'[e] = "offer"
          BY <4>4 DEF InFlight, TypeInv, TypeOK
        <5>2. buf[e] = <<>> /\ buf'[e] = <<>>
          BY <4>4, EdgeTyped DEF Capacity
        <5>3. Append(got[e] \o <<>> \o <<>>, sending[n]) = got[e] \o <<sending[n]>> \o <<>>
          BY <2>2, EdgeTyped, HandedSequence
        <5> QED BY <2>1, <4>1, <4>4, <5>1, <5>2, <5>3 DEF StreamAt
      <4> QED BY <2>2, <4>2, <4>3, <4>4
    <3> QED BY <3>1, <3>2, StreamOther
  <2> QED BY <1>1, <1>2, <2>1, <2>2, CallbackOrSendEdges
<1>3. ASSUME NEW e \in Edge, Deliver(e) PROVE Stream'
  <2>1. /\ rpc[e] = "offer" /\ held[e] \in Batch /\ got' = Log(got, e, held[e])
        /\ rpc' = [rpc EXCEPT ![e] = "recv"] /\ held' = [held EXCEPT ![e] = NoBatch]
        /\ UNCHANGED <<buf, sent>>
    BY <1>3 DEF Deliver, edgeVars, TypeInv, Shape, ReaderShape
  <2>2. ASSUME Traced PROVE StreamAt(e)'
    <3>1. /\ got'[e] = Append(got[e], held[e]) /\ InFlight(e) = <<held[e]>>
          /\ InFlight(e)' = <<>> /\ rpc'[e] = "recv"
      BY <2>1, <2>2 DEF Log, InFlight, TypeInv, TypeOK
    <3>2. got[e] \o <<held[e]>> \o buf[e] = Append(got[e], held[e]) \o <<>> \o buf[e]
      <4>1. held[e] \in Batch
        BY <2>1
      <4> QED BY <4>1, EdgeTyped, DeliveredSequence, Zenon
    <3>3. sent[e] = got[e] \o InFlight(e) \o buf[e]
      BY <2>1, <2>2 DEF Stream, StreamAt
    <3> QED BY <2>1, <3>1, <3>2, <3>3 DEF StreamAt
  <2>3. \A f \in Edge \ {e} :
          rpc'[f] = rpc[f] /\ held'[f] = held[f] /\ buf'[f] = buf[f] /\ sent'[f] = sent[f]
            /\ got'[f] = got[f]
    BY <2>1 DEF Log, TypeInv, TypeOK
  <2> QED BY <2>2, <2>3, StreamOther
<1>4. ASSUME NEW e \in Edge, ReaderReceives(e) PROVE Stream'
  <2>1. /\ rpc[e] = "recv" /\ buf[e] # <<>>
        /\ held' = [held EXCEPT ![e] = Head(buf[e])]
        /\ buf' = [buf EXCEPT ![e] = Tail(@)] /\ rpc' = [rpc EXCEPT ![e] = "offer"]
        /\ UNCHANGED <<got, sent>>
    BY <1>4 DEF ReaderReceives, logVars
  <2>2. ASSUME Traced PROVE StreamAt(e)'
    <3>1. /\ InFlight(e) = <<>> /\ InFlight(e)' = <<Head(buf[e])>>
          /\ buf'[e] = Tail(buf[e]) /\ rpc'[e] = "offer"
      BY <2>1 DEF InFlight, TypeInv, TypeOK
    <3>2. got[e] \o <<>> \o buf[e] = got[e] \o <<Head(buf[e])>> \o Tail(buf[e])
      BY <2>1, EdgeTyped, ReceivedSequence
    <3>3. sent[e] = got[e] \o InFlight(e) \o buf[e]
      BY <2>1, <2>2 DEF Stream, StreamAt
    <3> QED BY <2>1, <3>1, <3>2, <3>3 DEF StreamAt
  <2>3. \A f \in Edge \ {e} :
          rpc'[f] = rpc[f] /\ held'[f] = held[f] /\ buf'[f] = buf[f] /\ sent'[f] = sent[f]
            /\ got'[f] = got[f]
    BY <2>1 DEF TypeInv, TypeOK
  <2> QED BY <2>2, <2>3, StreamOther
<1>5. ASSUME NEW e \in Edge, ReaderExits(e) \/ ReaderCancelled(e) \/ DrainEdge(e)
      PROVE  Stream'
  <2>1. /\ UNCHANGED <<sent, got>> /\ rpc'[e] \in {"drain", "exit"}
        /\ \A f \in Edge \ {e} : rpc'[f] = rpc[f] /\ held'[f] = held[f] /\ buf'[f] = buf[f]
    BY <1>5 DEF ReaderExits, ReaderCancelled, DrainEdge, edgeVars, readVars, logVars,
       TypeInv, TypeOK
  <2>2. Traced => PrefixOf(got[e], sent[e])
    BY StreamPrefix DEF Stream
  <2>3. Traced => StreamAt(e)'
    BY <2>1, <2>2 DEF StreamAt
  <2> QED BY <2>1, <2>3, StreamOther
<1>6. ASSUME NEW n \in Node,
             \/ EndOfInput(n) \/ SelectCancelled(n) \/ StopReaders(n) \/ JoinReaders(n)
             \/ CheckCtx(n) \/ Abort(n) \/ Unwind(n) \/ CloseMerged(n)
      PROVE  Stream'
  BY <1>1, <1>6 DEF Unwind, EndOfInput, SelectCancelled, StopReaders, JoinReaders,
     CheckCtx, Abort, RecordError, CancelRun, CloseEdge, StageDone, CloseMerged,
     edgeVars, readVars, logVars
<1>7. CASE RunReturns \/ ExternalCancel \/ UNCHANGED vars
  BY <1>1, <1>7 DEF RunReturns, ExternalCancel, vars, edgeVars, readVars, logVars
<1> QED
  BY <1>2, <1>3, <1>4, <1>5, <1>6, <1>7
     DEF Next, Stage, Callback, Send, Consume, Reader, Finished, CallbackOrSend, InEdges

----------------------------------------------------------------------------
(* Order across the edges of one stage.                                    *)

\* The first k edges of a stage are ahead of the others by the batch b.
Split(n, k, b) ==
  \A i, j \in 1 .. Len(Out[n]) :
    /\ (i <= k <=> j <= k) => sent[Out[n][i]] = sent[Out[n][j]]
    /\ i <= k /\ ~(j <= k) => sent[Out[n][i]] = Append(sent[Out[n][j]], b)

\* Inside Send the stage's edges are split at the edge it is at.  Only a failing
\* stage leaves them so: Send has returned an error, and is not called again.
FanOutAt(n) ==
  /\ pc[n] = "send" => Split(n, idx[n] - 1, sending[n])
  /\ pc[n] # "send" /\ err[n] = "nil" => Split(n, 0, NoBatch)
  /\ err[n] # "nil" =>
       \E k \in 0 .. Len(Out[n]) : \E b \in Batch \cup {NoBatch} : Split(n, k, b)

FanOut == Traced => \A n \in Node : FanOutAt(n)

LEMMA IndexTyped ==
  ASSUME TypeInv, NEW n \in Node
  PROVE  /\ Len(Out[n]) \in Nat
         /\ pc[n] = "send" => idx[n] \in 1 .. Len(Out[n]) /\ idx[n] - 1 \in Nat
<1>1. Len(Out[n]) \in Nat
  BY GraphFacts
<1>2. pc[n] = "send" => idx[n] \in 1 .. Len(Out[n])
  BY DEF TypeInv, Shape, StageShape
<1> QED BY <1>1, <1>2

LEMMA SplitUnchanged ==
  ASSUME NEW n \in Node, NEW k \in Nat, NEW b, Split(n, k, b),
         \A e \in OutEdges(n) : sent'[e] = sent[e]
  PROVE  Split(n, k, b)'
<1>1. \A i \in 1 .. Len(Out[n]) : sent'[Out[n][i]] = sent[Out[n][i]]
  BY GraphFacts DEF OutEdges
<1> SUFFICES ASSUME NEW i \in 1 .. Len(Out[n]), NEW j \in 1 .. Len(Out[n])
             PROVE  /\ (i <= k <=> j <= k) => sent'[Out[n][i]] = sent'[Out[n][j]]
                    /\ i <= k /\ ~(j <= k) => sent'[Out[n][i]] = Append(sent'[Out[n][j]], b)
  BY DEF Split
<1>2. /\ (i <= k <=> j <= k) => sent[Out[n][i]] = sent[Out[n][j]]
      /\ i <= k /\ ~(j <= k) => sent[Out[n][i]] = Append(sent[Out[n][j]], b)
  BY DEF Split
<1> QED BY <1>1, <1>2

\* At position 0 no edge is ahead, whatever the batch.
LEMMA SplitAtStart ==
  ASSUME NEW n \in Node, NEW b, NEW c, Split(n, 0, b)
  PROVE  Split(n, 0, c)
BY GraphFacts DEF Split

\* Past the last edge every edge has the batch.
LEMMA SplitAtEnd ==
  ASSUME NEW n \in Node, NEW b, NEW c, Split(n, Len(Out[n]), b)'
  PROVE  Split(n, 0, c)'
<1> SUFFICES ASSUME NEW i \in 1 .. Len(Out[n]), NEW j \in 1 .. Len(Out[n])
             PROVE  sent'[Out[n][i]] = sent'[Out[n][j]] /\ ~(i <= 0)
  BY DEF Split
<1>1. i <= Len(Out[n]) /\ j <= Len(Out[n]) /\ ~(i <= 0) /\ ~(j <= 0)
  BY GraphFacts
<1> QED BY <1>1 DEF Split

\* A push on the next edge moves the split past it.
LEMMA SplitPushed ==
  ASSUME TypeInv, NEW n \in Node, NEW k \in 0 .. Len(Out[n]) - 1, NEW b \in Batch,
         Split(n, k, b), sent' = [sent EXCEPT ![Out[n][k + 1]] = Append(@, b)]
  PROVE  Split(n, k + 1, b)'
<1> SUFFICES ASSUME NEW i \in 1 .. Len(Out[n]), NEW j \in 1 .. Len(Out[n])
             PROVE  /\ (i <= k + 1 <=> j <= k + 1) => sent'[Out[n][i]] = sent'[Out[n][j]]
                    /\ i <= k + 1 /\ ~(j <= k + 1) =>
                         sent'[Out[n][i]] = Append(sent'[Out[n][j]], b)
  BY DEF Split
<1>1. Len(Out[n]) \in Nat /\ k + 1 \in 1 .. Len(Out[n])
  BY GraphFacts
<1>2. ASSUME NEW m \in 1 .. Len(Out[n])
      PROVE  /\ Out[n][m] \in Edge
             /\ sent'[Out[n][m]] = IF m = k + 1 THEN Append(sent[Out[n][m]], b)
                                   ELSE sent[Out[n][m]]
  <2>1. Out[n][m] \in Edge /\ Out[n][k + 1] \in Edge
    BY <1>1, GraphFacts
  <2>2. Out[n][m] = Out[n][k + 1] => m = k + 1
    BY <1>1, GraphAssumption DEF GraphAssumption
  <2> QED BY <2>1, <2>2 DEF TypeInv, TypeOK
<1>3. \A p, q \in 1 .. Len(Out[n]) :
        /\ (p <= k <=> q <= k) => sent[Out[n][p]] = sent[Out[n][q]]
        /\ p <= k /\ ~(q <= k) => sent[Out[n][p]] = Append(sent[Out[n][q]], b)
  BY DEF Split
<1>4. CASE i # k + 1 /\ j # k + 1
  <2>1. (i <= k + 1 <=> i <= k) /\ (j <= k + 1 <=> j <= k)
    BY <1>1, <1>4
  <2>2. sent'[Out[n][i]] = sent[Out[n][i]] /\ sent'[Out[n][j]] = sent[Out[n][j]]
    BY <1>2, <1>4
  <2> QED BY <1>3, <2>1, <2>2
<1>5. CASE i = k + 1 /\ j = k + 1
  BY <1>5
<1>6. CASE i = k + 1 /\ j # k + 1
  <2>1. ~(i <= k) /\ i <= k + 1 /\ (j <= k + 1 <=> j <= k)
    BY <1>1, <1>6
  <2>2. sent'[Out[n][i]] = Append(sent[Out[n][i]], b) /\ sent'[Out[n][j]] = sent[Out[n][j]]
    BY <1>2, <1>6
  <2> QED BY <1>3, <2>1, <2>2
<1>7. CASE i # k + 1 /\ j = k + 1
  <2>1. ~(j <= k) /\ j <= k + 1 /\ (i <= k + 1 <=> i <= k)
    BY <1>1, <1>7
  <2>2. sent'[Out[n][i]] = sent[Out[n][i]] /\ sent'[Out[n][j]] = Append(sent[Out[n][j]], b)
    BY <1>2, <1>7
  <2> QED BY <1>3, <2>1, <2>2
<1> QED BY <1>4, <1>5, <1>6, <1>7

LEMMA FanOutInit == Init => FanOut
<1> SUFFICES ASSUME Init, NEW n \in Node PROVE FanOutAt(n)
  BY DEF FanOut
<1>1. Split(n, 0, NoBatch)
  BY GraphFacts DEF Init, Split
<1> QED BY <1>1 DEF Init, FanOutAt

\* A step that pushes nothing, and neither enters Send nor leaves it.
LEMMA FanOutOutsideSend ==
  ASSUME TypeInv, ErrorShape, FanOut, NEW n \in Node, UNCHANGED <<sent, sending>>,
         \A m \in Node \ {n} : pc'[m] = pc[m] /\ err'[m] = err[m] /\ idx'[m] = idx[m],
         pc[n] # "send", pc'[n] # "send", err[n] # "nil" => err'[n] # "nil"
  PROVE  FanOut'
<1> SUFFICES ASSUME Traced, NEW m \in Node PROVE FanOutAt(m)'
  BY DEF FanOut
<1>1. \A k \in Nat : \A b : Split(m, k, b) => Split(m, k, b)'
  BY SplitUnchanged
<1>4. Len(Out[m]) \in Nat /\ (pc[m] = "send" => idx[m] - 1 \in Nat)
  BY IndexTyped
<1>2. CASE m # n
  BY <1>1, <1>2, <1>4 DEF FanOut, FanOutAt
<1>3. CASE m = n
  <2>1. CASE err[n] = "nil"
    <3>1. Split(n, 0, NoBatch)'
      BY <1>1, <1>3, <2>1 DEF FanOut, FanOutAt
    <3> QED BY <1>3, <3>1, GraphFacts DEF FanOutAt
  <2>2. CASE err[n] # "nil"
    BY <1>1, <1>3, <2>2 DEF FanOut, FanOutAt
  <2> QED BY <2>1, <2>2
<1> QED BY <1>2, <1>3

\* The part of the stages a step of stage n cannot reach.
OthersKept(n) ==
  /\ \A m \in Node \ {n} : /\ pc'[m] = pc[m] /\ err'[m] = err[m]
                           /\ idx'[m] = idx[m] /\ sending'[m] = sending[m]
  /\ \A e \in Edge : From[e] # n => sent'[e] = sent[e]

LEMMA FanOutOthers ==
  ASSUME TypeInv, FanOut, NEW n \in Node, OthersKept(n), Traced => FanOutAt(n)'
  PROVE  FanOut'
<1> SUFFICES ASSUME Traced, NEW m \in Node \ {n} PROVE FanOutAt(m)'
  BY DEF FanOut
<1>1. \A k \in Nat : \A b : Split(m, k, b) => Split(m, k, b)'
  BY SplitUnchanged DEF OthersKept, OutEdges
<1>2. Len(Out[m]) \in Nat /\ (pc[m] = "send" => idx[m] - 1 \in Nat)
  BY IndexTyped
<1> QED BY <1>1, <1>2 DEF FanOut, FanOutAt, OthersKept

\* Send returns, or the callback does, with the edges split at position k.
LEMMA FanOutReturns ==
  ASSUME TypeInv, NEW n \in Node, NEW x, NEW r, CallbackReturns(n, x, r),
         NEW k \in 0 .. Len(Out[n]), NEW b \in Batch \cup {NoBatch}, Split(n, k, b)',
         k = 0 \/ k = Len(Out[n]) \/ x # "nil"
  PROVE  FanOutAt(n)'
<1>1. pc'[n] # "send" /\ err'[n] = x
  BY CallerTyped DEF CallbackReturns, AfterCallback, TypeInv, TypeOK
<1>2. x = "nil" => Split(n, 0, NoBatch)'
  BY GraphFacts DEF Split
<1> QED BY <1>1, <1>2 DEF FanOutAt

LEMMA FanOutCallback ==
  ASSUME TypeInv, ErrorShape, NEW n \in Node, FanOutAt(n), UNCHANGED sent,
         pc[n] \in CallbackPc,
         \/ \E x, r : CallbackReturns(n, x, r)
         \/ \E b, r : EnterSend(n, b, r)
  PROVE  FanOutAt(n)'
<1>1. Split(n, 0, NoBatch) /\ pc[n] # "send" /\ err[n] = "nil"
  BY ErrorFacts DEF FanOutAt, CallbackPc
<1>2. Split(n, 0, NoBatch)' /\ 0 \in 0 .. Len(Out[n])
  BY <1>1, SplitUnchanged, GraphFacts
<1>3. ASSUME NEW x, NEW r, CallbackReturns(n, x, r) PROVE FanOutAt(n)'
  BY <1>2, <1>3, FanOutReturns
<1>4. ASSUME NEW b, NEW r, EnterLoop(n, b, r) PROVE FanOutAt(n)'
  <2>1. CASE Out[n] = <<>>
    BY <1>1, <1>2, <1>4, <2>1 DEF EnterLoop, FanOutAt
  <2>2. CASE Out[n] # <<>>
    <3>1. pc'[n] = "send" /\ idx'[n] = 1 /\ sending'[n] = b /\ err'[n] = "nil"
      BY <1>1, <1>4, <2>2 DEF EnterLoop, TypeInv, TypeOK
    <3>2. Split(n, 0, b)'
      BY <1>2 DEF Split
    <3> QED BY <3>1, <3>2 DEF FanOutAt
  <2> QED BY <2>1, <2>2
<1> QED BY <1>3, <1>4 DEF EnterSend

\* A push moves the split, and Send goes on or returns nil after its last edge.
LEMMA FanOutPush ==
  ASSUME TypeInv, ErrorShape, NEW n \in Node, FanOutAt(n), pc[n] = "send",
         sent' = [sent EXCEPT ![Out[n][idx[n]]] = Append(@, sending[n])],
         NEW r, AdvanceSend(n, r)
  PROVE  FanOutAt(n)'
<1>1. /\ sending[n] \in Batch /\ idx[n] \in 1 .. Len(Out[n]) /\ Len(Out[n]) \in Nat
      /\ err[n] = "nil"
  BY GraphFacts, ErrorFacts DEF TypeInv, Shape, StageShape
<1>2. PICK k \in 0 .. Len(Out[n]) - 1, b \in Batch : k + 1 = idx[n] /\ b = sending[n]
  <2>1. idx[n] - 1 \in 0 .. Len(Out[n]) - 1 /\ (idx[n] - 1) + 1 = idx[n]
    BY <1>1
  <2> QED BY <1>1, <2>1
<1>5. k + 1 \in 1 .. Len(Out[n]) /\ k = idx[n] - 1
  BY <1>1, <1>2
<1>6. Split(n, k, b)
  BY <1>2, <1>5 DEF FanOutAt
<1>7. Split(n, k + 1, b)'
  BY <1>2, <1>6, SplitPushed
<1>3. CASE idx[n] < Len(Out[n])
  <2>1. /\ pc'[n] = "send" /\ sending'[n] = sending[n] /\ idx'[n] = idx[n] + 1
        /\ err'[n] = "nil"
    BY <1>1, <1>3 DEF AdvanceSend, NextEdge, TypeInv, TypeOK
  <2>2. idx'[n] - 1 = k + 1
    BY <1>2, <1>5, <2>1
  <2> QED BY <1>2, <1>7, <2>1, <2>2 DEF FanOutAt
<1>4. CASE ~(idx[n] < Len(Out[n]))
  <2>1. k + 1 = Len(Out[n])
    BY <1>1, <1>2, <1>4
  <2>2. CASE Owned(n, sending[n])
    <3>1. pc'[n] # "send" /\ err'[n] = "nil"
      BY <1>1, <1>4, <2>2, CallerTyped DEF AdvanceSend, SendReturnsNil, CallbackPc, TypeInv,
         TypeOK
    <3>2. Split(n, 0, NoBatch)'
      BY <1>7, <2>1, SplitAtEnd
    <3> QED BY <3>1, <3>2 DEF FanOutAt
  <2>3. CASE ~Owned(n, sending[n])
    <3>1. CallbackReturns(n, "nil", r)
      BY <1>4, <2>3 DEF AdvanceSend, SendReturnsNil
    <3>2. k + 1 \in 0 .. Len(Out[n])
      BY <1>5
    <3> QED BY <1>7, <2>1, <3>1, <3>2, FanOutReturns
  <2> QED BY <2>2, <2>3
<1> QED BY <1>3, <1>4

LEMMA FanOutNext == TypeInv /\ Control /\ ErrorShape /\ FanOut /\ [Next]_vars => FanOut'
<1> SUFFICES ASSUME TypeInv, Control, ErrorShape, FanOut, [Next]_vars PROVE FanOut'
  OBVIOUS
<1>1. CASE UNCHANGED <<pc, err, idx, sending, sent>>
  <2> SUFFICES ASSUME Traced, NEW n \in Node PROVE FanOutAt(n)'
    BY DEF FanOut
  <2>1. \A k \in Nat : \A b : Split(n, k, b) => Split(n, k, b)'
    BY <1>1, SplitUnchanged
  <2> QED BY <1>1, <2>1, IndexTyped DEF FanOut, FanOutAt
<1>2. ASSUME NEW n \in Node, Callback(n) PROVE FanOut'
  <2>1. pc[n] \in CallbackPc /\ UNCHANGED sent
    BY <1>2 DEF Callback, ReturnNil, ReturnOwnError, ReturnCtxError, Produce, Forward,
       CallbackPc, logVars
  <2>2. (\E x, r : CallbackReturns(n, x, r)) \/ (\E b, r : EnterSend(n, b, r))
    BY <1>2 DEF Callback, ReturnNil, ReturnOwnError, ReturnCtxError, Produce, Forward
  <2>3. OthersKept(n)
    BY <2>1, <2>2 DEF OthersKept, CallbackReturns, EnterSend, EnterLoop, TypeInv, TypeOK
  <2>4. Traced => FanOutAt(n)'
    BY <2>1, <2>2, FanOutCallback DEF FanOut
  <2> QED BY <2>3, <2>4, FanOutOthers
<1>3. ASSUME NEW n \in Node, PushBuffered(n) \/ PushRendezvous(n) PROVE FanOut'
  <2>1. PICK r : AdvanceSend(n, r)
    BY <1>3 DEF PushBuffered, PushRendezvous
  <2>2. pc[n] = "send" /\ sent' = Log(sent, Out[n][idx[n]], sending[n])
    BY <1>3 DEF PushBuffered, PushRendezvous
  <2>3. Out[n][idx[n]] \in Edge /\ From[Out[n][idx[n]]] = n
    BY <2>2, GraphFacts, IndexTyped
  <2>4. \A m \in Node \ {n} : /\ pc'[m] = pc[m] /\ err'[m] = err[m]
                              /\ idx'[m] = idx[m] /\ sending'[m] = sending[m]
    BY <2>1 DEF AdvanceSend, NextEdge, SendReturnsNil, CallbackReturns, TypeInv, TypeOK
  <2>5. OthersKept(n)
    BY <2>2, <2>3, <2>4 DEF OthersKept, Log, TypeInv, TypeOK
  <2>6. Traced => FanOutAt(n)'
    BY <2>1, <2>2, FanOutPush DEF FanOut, Log
  <2> QED BY <2>5, <2>6, FanOutOthers
<1>4. ASSUME NEW n \in Node, SendCancelled(n) PROVE FanOut'
  <2>1. PICK r : CallbackReturns(n, "ctx", r)
    BY <1>4 DEF SendCancelled
  <2>2. pc[n] = "send" /\ UNCHANGED sent
    BY <1>4 DEF SendCancelled, logVars
  <2>3. OthersKept(n)
    BY <2>1, <2>2 DEF OthersKept, CallbackReturns, TypeInv, TypeOK
  <2>4. ASSUME Traced PROVE FanOutAt(n)'
    <3>1. PICK k \in 0 .. Len(Out[n]), b \in Batch : k = idx[n] - 1 /\ b = sending[n]
      <4>1. idx[n] - 1 \in 0 .. Len(Out[n]) /\ sending[n] \in Batch
        BY <2>2, IndexTyped DEF TypeInv, Shape, StageShape
      <4> QED BY <4>1
    <3>2. Split(n, k, b)
      BY <2>2, <2>4, <3>1 DEF FanOut, FanOutAt
    <3>3. Split(n, k, b)'
      BY <2>2, <3>2, SplitUnchanged
    <3> QED BY <2>1, <3>3, FanOutReturns
  <2> QED BY <2>3, <2>4, FanOutOthers
<1>5. ASSUME NEW e \in Edge, Deliver(e) PROVE FanOut'
  <2>1. To[e] \in Node /\ pc[To[e]] = "select" /\ pc' = [pc EXCEPT ![To[e]] = "body"]
        /\ UNCHANGED <<err, idx, sending, sent>>
    BY <1>5, GraphFacts DEF Deliver
  <2> QED BY <2>1, FanOutOutsideSend DEF TypeInv, TypeOK
<1>6. ASSUME NEW n \in Node,
             \/ EndOfInput(n) \/ SelectCancelled(n) \/ StopReaders(n) \/ JoinReaders(n)
             \/ CheckCtx(n) \/ Abort(n) \/ Unwind(n)
      PROVE  FanOut'
  <2>1. UNCHANGED <<sent, sending>>
    BY <1>6 DEF EndOfInput, SelectCancelled, StopReaders, JoinReaders, CheckCtx, Abort, Unwind,
       RecordError, CancelRun, CloseEdge, StageDone, stageVars, logVars
  <2>2. \A m \in Node \ {n} : pc'[m] = pc[m] /\ err'[m] = err[m] /\ idx'[m] = idx[m]
    BY <1>6 DEF EndOfInput, SelectCancelled, StopReaders, JoinReaders, CheckCtx, Abort, Unwind,
       RecordError, CancelRun, CloseEdge, StageDone, TypeInv, TypeOK
  <2>3. pc[n] # "send" /\ pc'[n] # "send"
    BY <1>6 DEF EndOfInput, SelectCancelled, StopReaders, JoinReaders, CheckCtx, Abort, Unwind,
       RecordError, CancelRun, CloseEdge, StageDone, TypeInv, TypeOK
  <2>4. err[n] # "nil" => err'[n] # "nil"
    <3>1. CASE SelectCancelled(n)
      BY <3>1, ErrorFacts DEF SelectCancelled
    <3>2. CASE CheckCtx(n)
      BY <3>2, ErrorFacts DEF CheckCtx
    <3> QED
      BY <1>6, <3>1, <3>2 DEF EndOfInput, StopReaders, JoinReaders, Abort, Unwind,
         RecordError, CancelRun, CloseEdge, StageDone
  <2> QED BY <2>1, <2>2, <2>3, <2>4, FanOutOutsideSend
<1>7. ASSUME NEW n \in Node, CloseMerged(n) PROVE FanOut'
  BY <1>1, <1>7 DEF CloseMerged, stageVars, logVars
<1>8. ASSUME NEW e \in Edge, Reader(e) PROVE FanOut'
  BY <1>1, <1>8 DEF Reader, ReaderReceives, ReaderExits, ReaderCancelled, DrainEdge,
     stageVars, logVars
<1>9. CASE RunReturns \/ ExternalCancel \/ UNCHANGED vars
  BY <1>1, <1>9 DEF RunReturns, ExternalCancel, vars, stageVars, logVars
<1> QED
  BY <1>2, <1>3, <1>4, <1>5, <1>6, <1>7, <1>8, <1>9
     DEF Next, Stage, Send, Consume, Finished, InEdges

----------------------------------------------------------------------------
(* The two theorems.                                                       *)

OrderInv ==
  OutcomeInv /\ Capacity /\ Flow /\ Barrier /\ Stream /\ FanOut

LEMMA OrderInvariant == Spec => []OrderInv
<1>1. Init => OrderInv
  BY TypeInvInit, ControlInit, ErrorShapeInit, CallCountsInit, AllDoneInit, CauseInit,
     RecordInit, CapacityInit, FlowInit, BarrierInit, StreamInit, FanOutInit
     DEF OrderInv, OutcomeInv
<1>2. OrderInv /\ [Next]_vars => OrderInv'
  BY TypeInvNext, ControlNext, ErrorShapeNext, CallCountsNext, AllDoneNext, CauseNext,
     RecordNext, CapacityNext, FlowNext, BarrierNext, StreamNext, FanOutNext
     DEF OrderInv, OutcomeInv
<1> QED BY <1>1, <1>2, PTL DEF Spec

\* Two edges of a stage differ by at most the batch inside Send.
LEMMA SplitOrdered ==
  ASSUME TypeInv, NEW n \in Node, NEW k \in Nat, NEW b \in Batch \cup {NoBatch}, Split(n, k, b),
         NEW i \in 1 .. Len(Out[n]), NEW j \in 1 .. Len(Out[n]), i < j
  PROVE  /\ PrefixOf(sent[Out[n][j]], sent[Out[n][i]])
         /\ Len(sent[Out[n][i]]) - Len(sent[Out[n][j]]) <= 1
<1>1. sent[Out[n][i]] \in Seq(Batch) /\ sent[Out[n][j]] \in Seq(Batch \cup {NoBatch})
  BY GraphFacts, SeqMonotonic DEF TypeInv, TypeOK
<1>2. /\ (i <= k <=> j <= k) => sent[Out[n][i]] = sent[Out[n][j]]
      /\ i <= k /\ ~(j <= k) => sent[Out[n][i]] = Append(sent[Out[n][j]], b)
  BY DEF Split
<1>3. (i <= k <=> j <= k) \/ (i <= k /\ ~(j <= k))
  BY GraphFacts
<1>4. \/ sent[Out[n][i]] = sent[Out[n][j]]
      \/ sent[Out[n][i]] = Append(sent[Out[n][j]], b)
  BY <1>2, <1>3
<1> QED BY <1>1, <1>4, OneBehind

\* On every edge the consumer gets a prefix of what was pushed, in that order,
\* also while a failing or cancelled run drains its edges; and a fan-out gives
\* its edges the same batches, the later ones at most one behind.
THEOREM BatchesInOrder == Spec => []InOrder
<1>1. OrderInv => InOrder
  <2> SUFFICES ASSUME OrderInv PROVE InOrder
    OBVIOUS
  <2> USE DEF OrderInv, OutcomeInv
  <2>1. ASSUME NEW e \in Edge PROVE PrefixOf(got[e], sent[e])
    <3>1. CASE Traced
      BY <3>1, StreamPrefix DEF Stream
    <3>2. CASE ~Traced
      <4>1. got[e] = <<>> /\ sent[e] = <<>>
        BY <3>2 DEF Flow
      <4> QED BY <4>1 DEF PrefixOf
    <3> QED BY <3>1, <3>2
  <2>2. ASSUME NEW n \in Node, NEW i \in 1 .. Len(Out[n]), NEW j \in 1 .. Len(Out[n]), i < j
        PROVE  /\ PrefixOf(sent[Out[n][j]], sent[Out[n][i]])
               /\ Len(sent[Out[n][i]]) - Len(sent[Out[n][j]]) <= 1
    <3>1. CASE Traced
      <4>1. FanOutAt(n) /\ Len(Out[n]) \in Nat
        BY <3>1, GraphFacts DEF FanOut
      <4>2. \E k \in Nat : \E b \in Batch \cup {NoBatch} : Split(n, k, b)
        <5>1. CASE pc[n] = "send"
          <6>1. sending[n] \in Batch /\ idx[n] - 1 \in Nat
            BY <5>1, IndexTyped DEF TypeInv, Shape, StageShape
          <6> QED BY <4>1, <5>1, <6>1 DEF FanOutAt
        <5>2. CASE pc[n] # "send"
          BY <4>1, <5>2 DEF FanOutAt
        <5> QED BY <5>1, <5>2
      <4> QED BY <2>2, <4>2, SplitOrdered
    <3>2. CASE ~Traced
      <4>1. sent[Out[n][i]] = <<>> /\ sent[Out[n][j]] = <<>>
        BY <3>2, GraphFacts DEF Flow
      <4> QED BY <4>1 DEF PrefixOf
    <3> QED BY <3>1, <3>2
  <2> QED BY <2>1, <2>2 DEF InOrder
<1> QED BY <1>1, OrderInvariant, PTL

\* A nil from Run is never a lie: no stage was stopped, finished without all
\* of its input, or aborted, and no edge of a fan-out missed a batch.
THEOREM NilIsComplete == Spec => []NilMeansComplete
<1>1. OrderInv => NilMeansComplete
  <2> SUFFICES ASSUME OrderInv, returned, recorded = NoNode
               PROVE  /\ \A e \in Edge : got[e] = sent[e]
                      /\ \A n \in Node : \A i, j \in 1 .. Len(Out[n]) :
                           sent[Out[n][i]] = sent[Out[n][j]]
                      /\ \A n \in Node :
                           Kind[n] # "source" => finishes[n] = 1 /\ aborts[n] = 0
    BY DEF NilMeansComplete
  <2> USE DEF OrderInv, OutcomeInv
  <2>1. \A n \in Node : pc[n] = "done" /\ err[n] = "nil"
    BY DEF AllDone, Record, Reported
  <2>2. ASSUME NEW n \in Node, Kind[n] # "source" PROVE finishes[n] = 1 /\ aborts[n] = 0
    BY <2>1, <2>2 DEF CallCounts, Leaving
  <2>3. ASSUME NEW e \in Edge PROVE got[e] = sent[e]
    <3>1. To[e] \in Node /\ Kind[To[e]] # "source"
      BY GraphFacts, GraphAssumption DEF GraphAssumption
    <3> QED BY <2>2, <3>1 DEF Barrier, StageFinished, InEdges
  <2>4. ASSUME NEW n \in Node, NEW i \in 1 .. Len(Out[n]), NEW j \in 1 .. Len(Out[n])
        PROVE  sent[Out[n][i]] = sent[Out[n][j]]
    <3>1. CASE Traced
      <4>1. Split(n, 0, NoBatch)
        BY <2>1, <3>1 DEF FanOut, FanOutAt
      <4>2. ~(i <= 0) /\ ~(j <= 0)
        BY GraphFacts
      <4> QED BY <4>1, <4>2 DEF Split
    <3>2. CASE ~Traced
      BY <3>2, GraphFacts DEF Flow
    <3> QED BY <3>1, <3>2
  <2> QED BY <2>2, <2>3, <2>4
<1> QED BY <1>1, OrderInvariant, PTL

----------------------------------------------------------------------------
(***************************************************************************)
(* Part 3.  Each batch has exactly as many references as holders, and none *)
(* is left when Run returns.                                               *)
(*                                                                         *)
(* The property counts holders as cardinalities of sets.  The lemmas say   *)
(* first how those numbers change when one place changes its batch, so that *)
(* the proofs about the actions are sums of ones.                          *)
(***************************************************************************)

----------------------------------------------------------------------------
(* Counting holders.                                                       *)

One(x, b) == IF x = b THEN 1 ELSE 0

\* The places y of S with f[y] = b, and their number.
At(f, S, b) == {y \in S : f[y] = b}
Count(f, S, b) == Cardinality(At(f, S, b))

\* The buffer slots that hold b.
SlotsOf(q, b) == {s \in Edge \X (1 .. Cap) : s[2] <= Len(q[s[1]]) /\ q[s[1]][s[2]] = b}
SlotCount(q, b) == Cardinality(SlotsOf(q, b))

LEMMA OneToOneOnto ==
  ASSUME NEW S, NEW T, NEW F \in [S -> T],
         \A x, y \in S : F[x] = F[y] => x = y, \A y \in T : \E x \in S : F[x] = y
  PROVE  ExistsBijection(S, T)
<1>1. F \in Bijection(S, T)
  BY Fun_IsBij
<1> QED BY <1>1 DEF ExistsBijection

\* One place changes: g is f, but for its value v at x.
Becomes(f, g, S, x, v) == g[x] = v /\ \A y \in S \ {x} : g[y] = f[y]

LEMMA CountChange ==
  \A S, f, g, x, v, b :
    IsFiniteSet(S) /\ x \in S /\ Becomes(f, g, S, x, v) =>
      /\ Count(f, S, b) \in Nat
      /\ Count(g, S, b) = (Count(f, S, b) - One(f[x], b)) + One(v, b)
<1> TAKE S, f, g, x, v, b
<1> HAVE IsFiniteSet(S) /\ x \in S /\ Becomes(f, g, S, x, v)
<1> DEFINE R == {y \in S \ {x} : f[y] = b}
<1>1. At(f, S, b) = IF f[x] = b THEN R \cup {x} ELSE R
  BY DEF At
<1>2. At(g, S, b) = IF v = b THEN R \cup {x} ELSE R
  BY DEF At, Becomes
<1>3. x \notin R /\ R \in SUBSET S
  OBVIOUS
<1> HIDE DEF R
<1>4. IsFiniteSet(R) /\ Cardinality(R) \in Nat
  BY <1>3, FS_Subset, FS_CardinalityType
<1>5. Cardinality(R \cup {x}) = Cardinality(R) + 1
  BY <1>3, <1>4, FS_AddElement
<1>6. Count(f, S, b) = Cardinality(R) + One(f[x], b)
  BY <1>1, <1>4, <1>5 DEF Count, One
<1>7. Count(g, S, b) = Cardinality(R) + One(v, b)
  BY <1>2, <1>4, <1>5 DEF Count, One
<1> QED BY <1>4, <1>6, <1>7 DEF One

LEMMA SlotsFinite ==
  ASSUME NEW q, NEW b
  PROVE  IsFiniteSet(SlotsOf(q, b)) /\ SlotCount(q, b) \in Nat
<1>1. IsFiniteSet(Edge) /\ IsFiniteSet(1 .. Cap)
  BY GraphAssumption, ParameterFacts, FS_Interval DEF GraphAssumption
<1>2. IsFiniteSet(Edge \X (1 .. Cap))
  BY <1>1, FS_Product
<1>3. SlotsOf(q, b) \in SUBSET (Edge \X (1 .. Cap))
  BY DEF SlotsOf
<1> QED BY <1>2, <1>3, FS_Subset, FS_CardinalityType DEF SlotCount

\* A push fills one slot.
LEMMA SlotPush ==
  \A q, r, e, x, b :
    /\ q \in [Edge -> Seq(Batch)] /\ e \in Edge /\ x \in Batch
    /\ Len(q[e]) < Cap /\ Becomes(q, r, Edge, e, Append(q[e], x))
    => SlotCount(r, b) = SlotCount(q, b) + One(x, b)
<1> TAKE q, r, e, x, b
<1> HAVE /\ q \in [Edge -> Seq(Batch)] /\ e \in Edge /\ x \in Batch
         /\ Len(q[e]) < Cap /\ Becomes(q, r, Edge, e, Append(q[e], x))
<1> DEFINE p == <<e, Len(q[e]) + 1>>
<1>1. Len(q[e]) \in Nat /\ Cap \in Nat
  BY ParameterFacts
<1>2. p \in Edge \X (1 .. Cap) /\ p \notin SlotsOf(q, b)
  BY <1>1 DEF SlotsOf
<1>3. /\ Len(r[e]) = Len(q[e]) + 1 /\ r[e][Len(q[e]) + 1] = x
      /\ \A i \in 1 .. Len(q[e]) : r[e][i] = q[e][i]
  BY DEF Becomes
<1>4. \A f \in Edge \ {e} : r[f] = q[f]
  BY DEF Becomes
<1>5. ASSUME NEW f \in Edge, NEW i \in 1 .. Cap
      PROVE  (i <= Len(r[f]) /\ r[f][i] = b) <=>
               ((i <= Len(q[f]) /\ q[f][i] = b) \/ (x = b /\ f = e /\ i = Len(q[e]) + 1))
  <2>1. CASE f = e
    BY <1>1, <1>3, <2>1
  <2>2. CASE f # e
    BY <1>4, <2>2
  <2> QED BY <2>1, <2>2
<1>6. SlotsOf(r, b) = IF x = b THEN SlotsOf(q, b) \cup {p} ELSE SlotsOf(q, b)
  BY <1>2, <1>5 DEF SlotsOf
<1>7. Cardinality(SlotsOf(q, b) \cup {p}) = Cardinality(SlotsOf(q, b)) + 1
  BY <1>2, SlotsFinite, FS_AddElement
<1> QED BY <1>6, <1>7, SlotsFinite DEF SlotCount, One

\* A receive empties the first slot and moves the others up by one.
LEMMA SlotPop ==
  \A q, r, e, b :
    /\ q \in [Edge -> Seq(Batch)] /\ e \in Edge /\ q[e] # <<>>
    /\ Len(q[e]) <= Cap /\ Becomes(q, r, Edge, e, Tail(q[e]))
    => SlotCount(r, b) = SlotCount(q, b) - One(Head(q[e]), b)
<1> TAKE q, r, e, b
<1> HAVE /\ q \in [Edge -> Seq(Batch)] /\ e \in Edge /\ q[e] # <<>>
         /\ Len(q[e]) <= Cap /\ Becomes(q, r, Edge, e, Tail(q[e]))
<1> DEFINE p == <<e, 1>>
           S == SlotsOf(r, b)
           T == SlotsOf(q, b) \ {p}
           F == [s \in S |-> IF s[1] = e THEN <<e, s[2] + 1>> ELSE s]
<1>1. Len(q[e]) \in Nat /\ Cap \in Nat /\ 1 <= Len(q[e])
  BY ParameterFacts
<1>2. /\ Len(r[e]) = Len(q[e]) - 1 /\ Head(q[e]) = q[e][1]
      /\ \A i \in 1 .. Len(q[e]) - 1 : r[e][i] = q[e][i + 1]
  BY DEF Becomes
<1>3. \A f \in Edge \ {e} : r[f] = q[f]
  BY DEF Becomes
<1>4. F \in [S -> T]
  <2>1. ASSUME NEW s \in S PROVE F[s] \in T
    <3>1. PICK f \in Edge, i \in 1 .. Cap : s = <<f, i>> /\ i <= Len(r[f]) /\ r[f][i] = b
      BY DEF SlotsOf
    <3>2. CASE f = e
      <4>1. i \in 1 .. Len(q[e]) - 1 /\ i + 1 \in 1 .. Cap /\ q[e][i + 1] = b
        BY <1>1, <1>2, <3>1, <3>2
      <4>2. <<e, i + 1>> \in T
        BY <1>1, <4>1 DEF SlotsOf
      <4> QED BY <3>1, <3>2, <4>2
    <3>3. CASE f # e
      BY <1>3, <3>1, <3>3 DEF SlotsOf
    <3> QED BY <3>2, <3>3
  <2> QED BY <2>1
<1>5. ASSUME NEW s \in S, NEW t \in S, F[s] = F[t] PROVE s = t
  <2>1. PICK f \in Edge, i \in 1 .. Cap : s = <<f, i>>
    BY DEF SlotsOf
  <2>2. PICK g \in Edge, j \in 1 .. Cap : t = <<g, j>>
    BY DEF SlotsOf
  <2>3. (IF f = e THEN <<e, i + 1>> ELSE s) = (IF g = e THEN <<e, j + 1>> ELSE t)
    BY <1>5, <2>1, <2>2
  <2>4. f = g /\ i = j
    BY <2>1, <2>2, <2>3
  <2> QED BY <2>1, <2>2, <2>4
<1>6. ASSUME NEW t \in T PROVE \E s \in S : F[s] = t
  <2>1. PICK f \in Edge, i \in 1 .. Cap : t = <<f, i>> /\ i <= Len(q[f]) /\ q[f][i] = b
    BY DEF SlotsOf
  <2>2. CASE f = e
    <3>1. i # 1
      BY <2>1, <2>2
    <3>2. i - 1 \in 1 .. Cap /\ i - 1 \in 1 .. Len(q[e]) - 1 /\ (i - 1) + 1 = i
      BY <1>1, <2>1, <2>2, <3>1
    <3>3. r[e][i - 1] = q[e][(i - 1) + 1]
      BY <1>2, <3>2
    <3>4. <<e, i - 1>> \in S
      BY <1>1, <1>2, <2>1, <2>2, <3>2, <3>3 DEF SlotsOf
    <3>5. F[<<e, i - 1>>] = t
      BY <2>1, <2>2, <3>2, <3>4
    <3> QED BY <3>4, <3>5
  <2>3. CASE f # e
    <3>1. t \in S
      BY <1>3, <2>1, <2>3 DEF SlotsOf
    <3> QED BY <2>1, <2>3, <3>1
  <2> QED BY <2>2, <2>3
<1>7. p \in SlotsOf(q, b) <=> Head(q[e]) = b
  BY <1>1, <1>2 DEF SlotsOf
<1>8. IsFiniteSet(S) /\ IsFiniteSet(SlotsOf(q, b)) /\ Cardinality(SlotsOf(q, b)) \in Nat
  BY SlotsFinite, FS_CardinalityType
<1>9. Cardinality(T) = Cardinality(SlotsOf(q, b)) - One(Head(q[e]), b)
  <2>1. Cardinality(T) = IF p \in SlotsOf(q, b) THEN Cardinality(SlotsOf(q, b)) - 1
                         ELSE Cardinality(SlotsOf(q, b))
    BY <1>8, FS_RemoveElement
  <2> QED BY <1>7, <1>8, <2>1 DEF One
<1>10. Cardinality(T) = Cardinality(S)
  <2> HIDE DEF F, S, T
  <2>1. \A s, t \in S : F[s] = F[t] => s = t
    BY <1>5
  <2>2. ExistsBijection(S, T)
    BY <1>4, <1>6, <2>1, OneToOneOnto
  <2> QED BY <1>8, <2>2, FS_Bijection
<1> QED BY <1>9, <1>10 DEF SlotCount

----------------------------------------------------------------------------
(* Who can hold a batch, and whose batches those are.                      *)

\* A reader holds a batch only while it offers it, a stage is given one only
\* while Process or Consume runs, and Send has one only while it waits.
HolderShape ==
  /\ \A e \in Edge : rpc[e] # "offer" => held[e] = NoBatch
  /\ \A n \in Node :
       /\ pc[n] # "send" => sending[n] = NoBatch
       /\ cur[n] # NoBatch => pc[n] \in {"body", "send"} /\ Caller(n) = "body"

\* A stage is given batches of earlier stages only, so Send can tell a batch
\* its stage created from one it forwards.
UpTo(k)   == {b \in Batch : b[1] <= k}
Before(k) == {b \in Batch : b[1] < k}

Origin ==
  /\ \A e \in Edge : buf[e] \in Seq(UpTo(From[e])) /\ held[e] \in UpTo(From[e]) \cup {NoBatch}
  /\ \A n \in Node : /\ sending[n] \in UpTo(n) \cup {NoBatch}
                     /\ cur[n] \in Before(n) \cup {NoBatch}

LEMMA UpToFacts ==
  ASSUME NEW e \in Edge, NEW b \in UpTo(From[e])
  PROVE  b \in Before(To[e]) /\ b # NoBatch
<1>1. From[e] \in Nat /\ To[e] \in Nat /\ From[e] < To[e]
  BY GraphAssumption DEF GraphAssumption
<1>2. b \in Batch /\ b[1] \in Nat /\ b[1] <= From[e]
  BY GraphAssumption DEF GraphAssumption, UpTo, Batch
<1> QED BY <1>1, <1>2, ParameterFacts DEF Before

\* Produce sends one of the stage's own batches.
LEMMA ProducedBatch ==
  ASSUME TypeInv, NEW n \in Node, Produce(n)
  PROVE  \E k \in 1 .. Limit[n] :
           pc[n] \in CallbackPc /\ EnterSend(n, <<n, k>>, Retain(refs, <<n, k>>))
<1> DEFINE k == IF produced[n] < Limit[n] THEN produced[n] + 1 ELSE Limit[n]
<1>1. k \in 1 .. Limit[n]
  <2>1. produced[n] \in Nat /\ Limit[n] \in Nat
    BY ParameterFacts DEF TypeInv, TypeOK
  <2>2. produced[n] < Limit[n] \/ Limit[n] > 0
    BY ParameterFacts DEF Produce
  <2> QED BY <2>1, <2>2
<1>2. pc[n] \in CallbackPc /\ EnterSend(n, <<n, k>>, Retain(refs, <<n, k>>))
  BY DEF Produce
<1> QED BY <1>1, <1>2

\* How a step of a callback or of Send leaves the batches its stage holds.
LEMMA CallbackOrSendHolds ==
  ASSUME TypeInv, HolderShape, Origin, NEW n \in Node, CallbackOrSend(n)
  PROVE  /\ cur' = [cur EXCEPT ![n] = cur'[n]] /\ sending' = [sending EXCEPT ![n] = sending'[n]]
         /\ pc'[n] # "send" => sending'[n] = NoBatch
         /\ sending'[n] \in UpTo(n) \cup {NoBatch}
         /\ cur'[n] # NoBatch => cur'[n] = cur[n] /\ pc'[n] \in {"body", "send"}
<1> DEFINE Goal ==
      /\ cur' = [cur EXCEPT ![n] = cur'[n]] /\ sending' = [sending EXCEPT ![n] = sending'[n]]
      /\ pc'[n] # "send" => sending'[n] = NoBatch
      /\ sending'[n] \in UpTo(n) \cup {NoBatch}
      /\ cur'[n] # NoBatch => cur'[n] = cur[n] /\ pc'[n] \in {"body", "send"}
<1>1. ASSUME NEW x, NEW r, CallbackReturns(n, x, r) PROVE Goal
  BY <1>1 DEF CallbackReturns, TypeInv, TypeOK
<1>2. cur[n] # NoBatch => pc[n] \in {"body", "send"} /\ Caller(n) = "body"
  BY DEF HolderShape
<1>3. ASSUME NEW b \in UpTo(n), NEW r, pc[n] \in CallbackPc, EnterSend(n, b, r) PROVE Goal
  <2>1. CASE ctxDone
    BY <1>1, <1>3, <2>1 DEF EnterSend
  <2>2. CASE ~ctxDone /\ Out[n] = <<>>
    BY <1>2, <1>3, <2>2 DEF EnterSend, EnterLoop, CallbackPc, HolderShape, TypeInv, TypeOK
  <2>3. CASE ~ctxDone /\ Out[n] # <<>>
    BY <1>2, <1>3, <2>3 DEF EnterSend, EnterLoop, TypeInv, TypeOK
  <2> QED BY <2>1, <2>2, <2>3
<1>4. ASSUME NEW r, pc[n] = "send", AdvanceSend(n, r) PROVE Goal
  <2>1. CASE idx[n] < Len(Out[n])
    BY <1>2, <1>4, <2>1 DEF AdvanceSend, NextEdge, Origin, TypeInv, TypeOK
  <2>2. CASE ~(idx[n] < Len(Out[n])) /\ Owned(n, sending[n])
    BY <1>2, <1>4, <2>2 DEF AdvanceSend, SendReturnsNil, TypeInv, TypeOK
  <2>3. CASE ~(idx[n] < Len(Out[n])) /\ ~Owned(n, sending[n])
    BY <1>1, <1>4, <2>3 DEF AdvanceSend, SendReturnsNil
  <2> QED BY <2>1, <2>2, <2>3
<1> HIDE DEF Goal
<1>5. Goal
  <2>1. CASE ReturnNil(n) \/ ReturnOwnError(n) \/ ReturnCtxError(n)
    BY <1>1, <2>1 DEF ReturnNil, ReturnOwnError, ReturnCtxError
  <2>2. CASE Produce(n)
    <3>1. PICK k \in 1 .. Limit[n] :
            pc[n] \in CallbackPc /\ EnterSend(n, <<n, k>>, Retain(refs, <<n, k>>))
      BY <2>2, ProducedBatch
    <3>2. <<n, k>> \in UpTo(n)
      BY <3>1, GraphAssumption DEF GraphAssumption, UpTo, Batch
    <3> QED BY <1>3, <3>1, <3>2
  <2>3. CASE Forward(n)
    <3>1. pc[n] = "body" /\ EnterSend(n, cur[n], refs) /\ cur[n] \in Batch
      BY <2>3 DEF Forward, TypeInv, Shape, StageShape, Caller
    <3>2. cur[n] \in UpTo(n)
      BY <3>1, GraphAssumption, ParameterFacts
         DEF GraphAssumption, Origin, Before, UpTo, Batch
    <3> QED BY <1>3, <3>1, <3>2 DEF CallbackPc
  <2>4. CASE PushBuffered(n) \/ PushRendezvous(n)
    BY <1>4, <2>4 DEF PushBuffered, PushRendezvous
  <2>5. CASE SendCancelled(n)
    BY <1>1, <2>5 DEF SendCancelled
  <2> QED BY <2>1, <2>2, <2>3, <2>4, <2>5 DEF CallbackOrSend
<1> QED BY <1>5 DEF Goal

LEMMA HoldersInit == Init => HolderShape /\ Origin
BY DEF Init, HolderShape, Origin

LEMMA AppendUpTo ==
  \A k \in Node : \A s \in Seq(UpTo(k)) : \A b \in UpTo(k) : Append(s, b) \in Seq(UpTo(k))
OBVIOUS

LEMMA HeadTailUpTo ==
  \A k \in Node : \A s \in Seq(UpTo(k)) :
    s # <<>> => Head(s) \in UpTo(k) /\ Tail(s) \in Seq(UpTo(k))
OBVIOUS

LEMMA HoldersNext ==
  TypeInv /\ Control /\ HolderShape /\ Origin /\ [Next]_vars => HolderShape' /\ Origin'
<1> SUFFICES ASSUME TypeInv, Control, HolderShape, Origin, [Next]_vars
             PROVE  HolderShape' /\ Origin'
  OBVIOUS
<1>1. ASSUME NEW n \in Node, CallbackOrSend(n) PROVE HolderShape' /\ Origin'
  <2>1. /\ pc' = [pc EXCEPT ![n] = pc'[n]] /\ UNCHANGED finishes
        /\ cur' = [cur EXCEPT ![n] = cur'[n]] /\ sending' = [sending EXCEPT ![n] = sending'[n]]
        /\ pc'[n] # "send" => sending'[n] = NoBatch
        /\ sending'[n] \in UpTo(n) \cup {NoBatch}
        /\ cur'[n] # NoBatch => cur'[n] = cur[n] /\ pc'[n] \in {"body", "send"}
    BY <1>1, CallbackOrSendControl, CallbackOrSendHolds
  <2>2. \A m \in Node \ {n} : pc'[m] = pc[m] /\ cur'[m] = cur[m] /\ sending'[m] = sending[m]
    BY <2>1 DEF TypeInv, TypeOK
  <2>3. \A m \in Node : /\ pc'[m] # "send" => sending'[m] = NoBatch
                        /\ cur'[m] # NoBatch => pc'[m] \in {"body", "send"} /\ Caller(m)' = "body"
    BY <2>1, <2>2 DEF HolderShape, Caller
  <2>4. \A m \in Node : /\ sending'[m] \in UpTo(m) \cup {NoBatch}
                        /\ cur'[m] \in Before(m) \cup {NoBatch}
    BY <2>1, <2>2 DEF Origin
  <2>5. CASE UNCHANGED <<buf, rpc, held>>
    BY <2>3, <2>4, <2>5 DEF HolderShape, Origin
  <2>6. ASSUME NEW e \in Edge, From[e] = n, sending[n] \in Batch,
               buf' = [buf EXCEPT ![e] = Append(@, sending[n])], UNCHANGED <<rpc, held>>
        PROVE  HolderShape' /\ Origin'
    <3>1. sending[n] \in UpTo(From[e]) /\ buf[e] \in Seq(UpTo(From[e]))
      BY <2>6, ParameterFacts DEF Origin
    <3>2. Append(buf[e], sending[n]) \in Seq(UpTo(From[e]))
      BY <2>6, <3>1, AppendUpTo
    <3>3. \A f \in Edge : buf'[f] \in Seq(UpTo(From[f]))
      BY <2>6, <3>2 DEF Origin, TypeInv, TypeOK
    <3> QED BY <2>3, <2>4, <2>6, <3>3 DEF HolderShape, Origin
  <2>7. ASSUME NEW e \in Edge, From[e] = n, sending[n] \in Batch,
               rpc' = [rpc EXCEPT ![e] = "offer"], held' = [held EXCEPT ![e] = sending[n]],
               UNCHANGED buf
        PROVE  HolderShape' /\ Origin'
    <3>1. sending[n] \in UpTo(From[e])
      BY <2>7, ParameterFacts DEF Origin
    <3>2. \A f \in Edge : /\ rpc'[f] # "offer" => held'[f] = NoBatch
                          /\ held'[f] \in UpTo(From[f]) \cup {NoBatch}
      BY <2>7, <3>1 DEF HolderShape, Origin, TypeInv, TypeOK
    <3> QED BY <2>3, <2>4, <2>7, <3>2 DEF HolderShape, Origin
  <2> QED BY <1>1, <2>5, <2>6, <2>7, CallbackOrSendEdges
<1>2. ASSUME NEW e \in Edge, Deliver(e) PROVE HolderShape' /\ Origin'
  <2>1. /\ To[e] \in Node /\ pc[To[e]] = "select" /\ rpc[e] = "offer"
        /\ pc' = [pc EXCEPT ![To[e]] = "body"] /\ cur' = [cur EXCEPT ![To[e]] = held[e]]
        /\ held' = [held EXCEPT ![e] = NoBatch] /\ rpc' = [rpc EXCEPT ![e] = "recv"]
        /\ UNCHANGED <<sending, buf, finishes>>
    BY <1>2, GraphFacts DEF Deliver, edgeVars, callVars
  <2>2. Caller(To[e]) = "body"
    BY <2>1 DEF Caller, TypeInv, TypeOK, Shape, StageShape
  <2>3. held[e] \in Before(To[e])
    <3>1. held[e] \in UpTo(From[e])
      BY <2>1, ParameterFacts DEF Origin, TypeInv, Shape, ReaderShape
    <3> QED BY <3>1, UpToFacts
  <2>4. HolderShape'
    BY <2>1, <2>2 DEF HolderShape, Caller, TypeInv, TypeOK
  <2>5. Origin'
    BY <2>1, <2>3 DEF Origin, TypeInv, TypeOK
  <2> QED BY <2>4, <2>5
<1>3. ASSUME NEW n \in Node, CheckCtx(n) PROVE HolderShape' /\ Origin'
  <2>1. cur[n] = NoBatch /\ pc[n] = "check" /\ sending[n] = NoBatch
    BY <1>3 DEF CheckCtx, HolderShape
  <2>2. /\ \A m \in Node \ {n} : pc'[m] = pc[m] /\ finishes'[m] = finishes[m]
        /\ UNCHANGED <<cur, sending, buf, rpc, held>>
    BY <1>3 DEF CheckCtx, edgeVars, readVars, TypeInv, TypeOK
  <2> QED BY <2>1, <2>2 DEF HolderShape, Origin, Caller
<1>4. ASSUME NEW n \in Node,
             \/ EndOfInput(n) \/ SelectCancelled(n) \/ StopReaders(n) \/ JoinReaders(n)
             \/ Abort(n) \/ RecordError(n) \/ CancelRun(n) \/ StageDone(n)
      PROVE  HolderShape' /\ Origin'
  <2>1. /\ pc[n] \notin {"body", "send"} /\ pc'[n] # "send"
        /\ \A m \in Node \ {n} : pc'[m] = pc[m]
        /\ UNCHANGED <<cur, sending, buf, rpc, held, finishes>>
    BY <1>4 DEF EndOfInput, SelectCancelled, StopReaders, JoinReaders, Abort, RecordError,
       CancelRun, StageDone, edgeVars, readVars, callVars, TypeInv, TypeOK
  <2> QED BY <2>1 DEF HolderShape, Origin, Caller
<1>5. CASE UNCHANGED <<pc, cur, sending, finishes, buf, rpc, held>>
  BY <1>5 DEF HolderShape, Origin, Caller
<1>6. ASSUME NEW n \in Node, CloseEdge(n) \/ CloseMerged(n) PROVE HolderShape' /\ Origin'
  BY <1>5, <1>6 DEF CloseEdge, CloseMerged, stageVars, edgeVars, readVars, callVars
<1>7. ASSUME NEW e \in Edge, Reader(e) PROVE HolderShape' /\ Origin'
  <2>1. UNCHANGED <<pc, cur, sending, finishes>>
    BY <1>7 DEF Reader, ReaderReceives, ReaderExits, ReaderCancelled, DrainEdge, stageVars,
       callVars
  <2>2. ASSUME \A f \in Edge : /\ rpc'[f] # "offer" => held'[f] = NoBatch
                               /\ buf'[f] \in Seq(UpTo(From[f]))
                               /\ held'[f] \in UpTo(From[f]) \cup {NoBatch}
        PROVE  HolderShape' /\ Origin'
    BY <2>1, <2>2 DEF HolderShape, Origin, Caller
  <2>3. buf[e] # <<>> => Head(buf[e]) \in UpTo(From[e]) /\ Tail(buf[e]) \in Seq(UpTo(From[e]))
    BY HeadTailUpTo, GraphFacts DEF Origin
  <2>4. CASE ReaderReceives(e)
    BY <2>2, <2>3, <2>4 DEF ReaderReceives, HolderShape, Origin, TypeInv, TypeOK
  <2>5. CASE ReaderExits(e)
    BY <2>2, <2>5 DEF ReaderExits, edgeVars, HolderShape, Origin, TypeInv, TypeOK
  <2>6. CASE ReaderCancelled(e)
    BY <2>2, <2>6 DEF ReaderCancelled, edgeVars, HolderShape, Origin, TypeInv, TypeOK
  <2>7. CASE DrainEdge(e)
    BY <2>2, <2>3, <2>7 DEF DrainEdge, readVars, HolderShape, Origin, TypeInv, TypeOK
  <2> QED BY <1>7, <2>4, <2>5, <2>6, <2>7 DEF Reader
<1>8. CASE RunReturns \/ ExternalCancel \/ UNCHANGED vars
  BY <1>5, <1>8 DEF RunReturns, ExternalCancel, vars, stageVars, edgeVars, readVars, callVars
<1> QED
  BY <1>1, <1>2, <1>3, <1>4, <1>6, <1>7, <1>8
     DEF Next, Stage, Callback, Send, Consume, Unwind, Finished, CallbackOrSend, InEdges

----------------------------------------------------------------------------
(* The balance.  A step of a stage or of a reader moves batches between a  *)
(* few places; the sums below say what it may do to the counts.            *)

\* The holders of b on the edges, and those among the stages.  Send's stage
\* counts twice for a batch of its own.
Own(n, x, b) == IF b[1] = n THEN One(x, b) ELSE 0
EdgePart(b)  == SlotCount(buf, b) + Count(held, Edge, b)
StagePart(b) == Count(cur, Node, b) + Count(sending, Node, b) + One(sending[b[1]], b)

LEMMA OneTyped ==
  /\ \A x, b : One(x, b) \in {0, 1}
  /\ \A x, b, n : Own(n, x, b) \in {0, 1}
BY DEF One, Own

LEMMA NoBatchIsNone ==
  \A b \in Batch : One(NoBatch, b) = 0 /\ \A n : Own(n, NoBatch, b) = 0
BY ParameterFacts DEF One, Own

LEMMA CountsTyped ==
  /\ \A f, b : Count(f, Node, b) \in Nat /\ Count(f, Edge, b) \in Nat
  /\ \A q, b : SlotCount(q, b) \in Nat
<1>1. IsFiniteSet(Node) /\ IsFiniteSet(Edge)
  BY GraphAssumption DEF GraphAssumption
<1>2. ASSUME NEW f, NEW S, IsFiniteSet(S), NEW b PROVE Count(f, S, b) \in Nat
  <2>1. At(f, S, b) \in SUBSET S
    BY DEF At
  <2> QED BY <1>2, <2>1, FS_Subset, FS_CardinalityType DEF Count
<1> QED BY <1>1, <1>2, SlotsFinite

LEMMA PartsTyped ==
  ASSUME NEW b
  PROVE  /\ EdgePart(b) \in Nat /\ StagePart(b) \in Nat
         /\ EdgePart(b)' \in Nat /\ StagePart(b)' \in Nat
<1>1. EdgePart(b) \in Nat /\ StagePart(b) \in Nat
  BY CountsTyped, OneTyped DEF EdgePart, StagePart
<1>2. /\ EdgePart(b)' = SlotCount(buf', b) + Count(held', Edge, b)
      /\ StagePart(b)' = Count(cur', Node, b) + Count(sending', Node, b) + One(sending'[b[1]], b)
  BY DEF EdgePart, StagePart, SlotCount, SlotsOf, Count, At, One
<1> QED BY <1>1, <1>2, CountsTyped, OneTyped

\* The owners of RefBalance: the creator of b, if it is in Send with b.
LEMMA HoldersSum ==
  ASSUME TypeInv, NEW b \in Batch
  PROVE  Holders(b) = EdgePart(b) + StagePart(b)
<1> DEFINE owners == {n \in At(sending, Node, b) : Owned(n, b)}
<1>1. b[1] \in Node
  BY DEF Batch
<1>2. owners = IF sending[b[1]] = b THEN {b[1]} ELSE {}
  BY <1>1 DEF At, Owned
<1>3. Cardinality(owners) = One(sending[b[1]], b)
  BY <1>2, FS_Singleton, FS_EmptySet DEF One
<1>4. Holders(b) = Cardinality(SlotsOf(buf, b)) + Cardinality(At(held, Edge, b))
                     + Cardinality(At(cur, Node, b)) + Cardinality(At(sending, Node, b))
                     + Cardinality(owners)
  BY DEF Holders, SlotsOf, At
<1> HIDE DEF owners
<1>5. /\ Cardinality(SlotsOf(buf, b)) = SlotCount(buf, b)
      /\ Cardinality(At(held, Edge, b)) = Count(held, Edge, b)
      /\ Cardinality(At(cur, Node, b)) = Count(cur, Node, b)
      /\ Cardinality(At(sending, Node, b)) = Count(sending, Node, b)
  BY DEF SlotCount, Count
<1>6. /\ SlotCount(buf, b) \in Nat /\ Count(held, Edge, b) \in Nat
      /\ Count(cur, Node, b) \in Nat /\ Count(sending, Node, b) \in Nat
  BY CountsTyped, SlotsFinite
<1> QED BY <1>3, <1>4, <1>5, <1>6, OneTyped DEF EdgePart, StagePart

\* A stage that changes the batches it holds.
LEMMA StageChange ==
  ASSUME TypeInv, NEW n \in Node, NEW c, NEW s, NEW b \in Batch,
         Becomes(cur, cur', Node, n, c), Becomes(sending, sending', Node, n, s)
  PROVE  StagePart(b)' = StagePart(b)
                           - (One(cur[n], b) + One(sending[n], b) + Own(n, sending[n], b))
                           + (One(c, b) + One(s, b) + Own(n, s, b))
<1>1. IsFiniteSet(Node) /\ b[1] \in Node
  BY GraphAssumption DEF GraphAssumption, Batch
<1>2. sending'[n] = s /\ \A m \in Node \ {n} : sending'[m] = sending[m]
  BY DEF Becomes
<1>3. /\ Count(cur, Node, b) \in Nat
      /\ Count(cur', Node, b) = (Count(cur, Node, b) - One(cur[n], b)) + One(c, b)
  BY <1>1, CountChange
<1>4. /\ Count(sending, Node, b) \in Nat
      /\ Count(sending', Node, b) = (Count(sending, Node, b) - One(sending[n], b)) + One(s, b)
  BY <1>1, CountChange
<1>5. One(sending'[b[1]], b) = (One(sending[b[1]], b) - Own(n, sending[n], b)) + Own(n, s, b)
  <2>1. CASE b[1] = n
    <3>1. Own(n, sending[n], b) = One(sending[n], b) /\ Own(n, s, b) = One(s, b)
      BY <2>1 DEF Own
    <3>2. One(sending[n], b) \in Int /\ One(s, b) \in Int
      BY OneTyped
    <3> QED BY <1>2, <2>1, <3>1, <3>2
  <2>2. CASE b[1] # n
    <3>1. Own(n, sending[n], b) = 0 /\ Own(n, s, b) = 0
      BY <2>2 DEF Own
    <3>2. One(sending[b[1]], b) \in Int /\ sending'[b[1]] = sending[b[1]]
      BY <1>1, <1>2, <2>2, OneTyped
    <3> QED BY <3>1, <3>2
  <2> QED BY <2>1, <2>2
<1>6. StagePart(b)' = Count(cur', Node, b) + Count(sending', Node, b) + One(sending'[b[1]], b)
  BY DEF StagePart, Count, At, One
<1> QED BY <1>3, <1>4, <1>5, <1>6, OneTyped DEF StagePart

\* One edge changes the batch its reader offers, or a slot of its buffer.
LEMMA OfferChange ==
  ASSUME TypeInv, NEW e \in Edge, NEW x, NEW b \in Batch,
         Becomes(held, held', Edge, e, x), UNCHANGED buf
  PROVE  EdgePart(b)' = (EdgePart(b) - One(held[e], b)) + One(x, b)
<1>1. IsFiniteSet(Edge)
  BY GraphAssumption DEF GraphAssumption
<1>2. /\ Count(held, Edge, b) \in Nat
      /\ Count(held', Edge, b) = (Count(held, Edge, b) - One(held[e], b)) + One(x, b)
  BY <1>1, CountChange
<1>3. EdgePart(b)' = SlotCount(buf, b) + Count(held', Edge, b)
  BY DEF EdgePart, SlotCount, SlotsOf, Count, At
<1> QED BY <1>2, <1>3, SlotsFinite, OneTyped DEF EdgePart

LEMMA PushChange ==
  ASSUME TypeInv, NEW e \in Edge, NEW x \in Batch, NEW b \in Batch, Len(buf[e]) < Cap,
         Becomes(buf, buf', Edge, e, Append(buf[e], x)), UNCHANGED held
  PROVE  EdgePart(b)' = EdgePart(b) + One(x, b)
<1>1. SlotCount(buf', b) = SlotCount(buf, b) + One(x, b)
  <2>1. buf \in [Edge -> Seq(Batch)]
    BY DEF TypeInv, TypeOK
  <2> QED BY <2>1, SlotPush
<1>2. EdgePart(b)' = SlotCount(buf', b) + Count(held, Edge, b)
  BY DEF EdgePart, SlotCount, SlotsOf, Count, At
<1> QED BY <1>1, <1>2, CountsTyped, SlotsFinite, OneTyped DEF EdgePart

LEMMA PopChange ==
  ASSUME TypeInv, Capacity, NEW e \in Edge, NEW b \in Batch, NEW x, buf[e] # <<>>,
         Becomes(buf, buf', Edge, e, Tail(buf[e])), Becomes(held, held', Edge, e, x)
  PROVE  EdgePart(b)' = ((EdgePart(b) - One(Head(buf[e]), b)) - One(held[e], b)) + One(x, b)
<1>1. IsFiniteSet(Edge)
  BY GraphAssumption DEF GraphAssumption
<1>2. SlotCount(buf', b) = SlotCount(buf, b) - One(Head(buf[e]), b)
  <2>1. buf \in [Edge -> Seq(Batch)] /\ Len(buf[e]) <= Cap
    BY DEF TypeInv, TypeOK, Capacity
  <2> QED BY <2>1, SlotPop
<1>3. /\ Count(held, Edge, b) \in Nat
      /\ Count(held', Edge, b) = (Count(held, Edge, b) - One(held[e], b)) + One(x, b)
  BY <1>1, CountChange
<1>4. EdgePart(b)' = SlotCount(buf', b) + Count(held', Edge, b)
  BY DEF EdgePart, SlotCount, SlotsOf, Count, At
<1> QED BY <1>2, <1>3, <1>4, SlotsFinite, OneTyped DEF EdgePart

LEMMA RetainRelease ==
  ASSUME NEW r \in [Batch -> Int], NEW x \in Batch, NEW b \in Batch
  PROVE  /\ Retain(r, x)[b] = r[b] + One(x, b)
         /\ Release(r, x)[b] = r[b] - One(x, b)
         /\ r[b] \in Int
BY DEF Retain, Release, One

\* A callback's return gives up the batch of its call.  Send has given up its
\* own references by then: they are not in r any more.
LEMMA CallbackReturnsBalance ==
  ASSUME TypeInv, NEW n \in Node, NEW x, NEW r \in [Batch -> Int], CallbackReturns(n, x, r),
         NEW b \in Batch
  PROVE  refs'[b] - StagePart(b)' = ((r[b] - StagePart(b)) + One(sending[n], b))
                                      + Own(n, sending[n], b)
<1>1. cur[n] \in Batch \cup {NoBatch} /\ r[b] \in Int
  BY DEF TypeInv, TypeOK
<1>2. refs'[b] = r[b] - One(cur[n], b)
  <2>1. CASE cur[n] = NoBatch
    BY <1>1, <2>1, NoBatchIsNone DEF CallbackReturns, DeferredRelease
  <2>2. CASE cur[n] # NoBatch
    BY <1>1, <2>2 DEF CallbackReturns, DeferredRelease, One
  <2> QED BY <2>1, <2>2
<1>3. Becomes(cur, cur', Node, n, NoBatch) /\ Becomes(sending, sending', Node, n, NoBatch)
  BY DEF CallbackReturns, Becomes, TypeInv, TypeOK
<1>4. StagePart(b)' = StagePart(b) - (One(cur[n], b) + One(sending[n], b) + Own(n, sending[n], b))
                        + (One(NoBatch, b) + One(NoBatch, b) + Own(n, NoBatch, b))
  BY <1>3, StageChange
<1>5. One(NoBatch, b) = 0 /\ Own(n, NoBatch, b) = 0
  BY NoBatchIsNone
<1>6. /\ One(cur[n], b) \in Int /\ One(sending[n], b) \in Int /\ Own(n, sending[n], b) \in Int
      /\ StagePart(b) \in Int
  BY OneTyped, PartsTyped
<1> QED BY <1>1, <1>2, <1>4, <1>5, <1>6

\* Send begins with the reference of a batch's creator in r, or with none for
\* a batch it forwards.
LEMMA EnterSendBalance ==
  ASSUME TypeInv, HolderShape, NEW n \in Node, pc[n] \in CallbackPc, NEW x \in Batch,
         NEW r \in [Batch -> Int], EnterSend(n, x, r), NEW b \in Batch,
         r[b] = refs[b] + Own(n, x, b)
  PROVE  refs'[b] - StagePart(b)' = refs[b] - StagePart(b)
<1>1. sending[n] = NoBatch
  BY DEF HolderShape, CallbackPc
<1>2. One(NoBatch, b) = 0 /\ Own(n, NoBatch, b) = 0
  BY NoBatchIsNone
<1>3. refs \in [Batch -> Int] /\ refs[b] \in Int /\ StagePart(b) \in Int
  BY PartsTyped DEF TypeInv, TypeOK
<1>4. CASE ctxDone
  <2>1. CallbackReturns(n, "ctx", refs)
    BY <1>4 DEF EnterSend
  <2>2. refs'[b] - StagePart(b)' = ((refs[b] - StagePart(b)) + One(sending[n], b))
                                     + Own(n, sending[n], b)
    BY <1>3, <2>1, CallbackReturnsBalance
  <2> QED BY <1>1, <1>2, <1>3, <2>2
<1>5. CASE ~ctxDone /\ Out[n] = <<>>
  BY <1>5 DEF EnterSend, EnterLoop, StagePart, Count, At, One
<1>6. CASE ~ctxDone /\ Out[n] # <<>>
  <2>1. refs' = Retain(r, x) /\ sending' = [sending EXCEPT ![n] = x] /\ UNCHANGED cur
    BY <1>6 DEF EnterSend, EnterLoop
  <2>2. refs'[b] = (refs[b] + Own(n, x, b)) + One(x, b)
    BY <2>1, RetainRelease
  <2>3. Becomes(cur, cur', Node, n, cur[n]) /\ Becomes(sending, sending', Node, n, x)
    BY <2>1 DEF Becomes, TypeInv, TypeOK
  <2>4. StagePart(b)' = StagePart(b) - (One(cur[n], b) + One(NoBatch, b) + Own(n, NoBatch, b))
                          + (One(cur[n], b) + One(x, b) + Own(n, x, b))
    BY <1>1, <2>3, StageChange
  <2>5. One(cur[n], b) \in Int /\ One(x, b) \in Int /\ Own(n, x, b) \in Int
    BY OneTyped
  <2> QED BY <1>2, <1>3, <2>2, <2>4, <2>5
<1> QED BY <1>4, <1>5, <1>6

\* After a push, the reference Send took for it is the edge's: the stage's
\* counts go up by one without it.
LEMMA AdvanceSendBalance ==
  ASSUME TypeInv, NEW n \in Node, pc[n] = "send", NEW r \in [Batch -> Int], AdvanceSend(n, r),
         NEW b \in Batch
  PROVE  refs'[b] - StagePart(b)' = (r[b] - StagePart(b)) + One(sending[n], b)
<1>1. sending[n] \in Batch /\ b[1] \in Node
  BY DEF TypeInv, Shape, StageShape, Batch
<1>2. /\ r[b] \in Int /\ StagePart(b) \in Int /\ One(sending[n], b) \in Int
      /\ One(cur[n], b) \in Int /\ Own(n, sending[n], b) \in Int
  BY PartsTyped, OneTyped
<1>3. CASE idx[n] < Len(Out[n])
  <2>1. refs' = Retain(r, sending[n]) /\ UNCHANGED <<cur, sending>>
    BY <1>3 DEF AdvanceSend, NextEdge
  <2>2. StagePart(b)' = StagePart(b)
    BY <2>1 DEF StagePart, Count, At, One
  <2>3. refs'[b] = r[b] + One(sending[n], b)
    BY <1>1, <2>1, RetainRelease
  <2> QED BY <1>2, <2>2, <2>3
<1>4. CASE ~(idx[n] < Len(Out[n])) /\ Owned(n, sending[n])
  <2>1. /\ refs' = Release(r, sending[n]) /\ sending' = [sending EXCEPT ![n] = NoBatch]
        /\ UNCHANGED cur
    BY <1>4 DEF AdvanceSend, SendReturnsNil
  <2>2. refs'[b] = r[b] - One(sending[n], b)
    BY <1>1, <2>1, RetainRelease
  <2>3. Becomes(cur, cur', Node, n, cur[n]) /\ Becomes(sending, sending', Node, n, NoBatch)
    BY <2>1 DEF Becomes, TypeInv, TypeOK
  <2>4. StagePart(b)' = StagePart(b) - (One(cur[n], b) + One(sending[n], b) + Own(n, sending[n], b))
                          + (One(cur[n], b) + One(NoBatch, b) + Own(n, NoBatch, b))
    BY <2>3, StageChange
  <2>5. Own(n, sending[n], b) = One(sending[n], b)
    BY <1>4 DEF Owned, Own, One
  <2>6. One(NoBatch, b) = 0 /\ Own(n, NoBatch, b) = 0
    BY NoBatchIsNone
  <2> QED BY <1>2, <2>2, <2>4, <2>5, <2>6
<1>5. CASE ~(idx[n] < Len(Out[n])) /\ ~Owned(n, sending[n])
  <2>1. CallbackReturns(n, "nil", r)
    BY <1>5 DEF AdvanceSend, SendReturnsNil
  <2>2. refs'[b] - StagePart(b)' = ((r[b] - StagePart(b)) + One(sending[n], b))
                                     + Own(n, sending[n], b)
    BY <2>1, CallbackReturnsBalance
  <2>3. Own(n, sending[n], b) = 0
    BY <1>5 DEF Owned, Own, One
  <2> QED BY <1>2, <2>2, <2>3
<1> QED BY <1>3, <1>4, <1>5

\* Every batch has as many references as holders.
Balance == \A b \in Batch : refs[b] = EdgePart(b) + StagePart(b)

LEMMA EdgesUnchanged ==
  ASSUME UNCHANGED <<buf, held>>, NEW b
  PROVE  EdgePart(b)' = EdgePart(b)
BY DEF EdgePart, SlotCount, SlotsOf, Count, At

LEMMA StagesUnchanged ==
  ASSUME UNCHANGED <<cur, sending>>, NEW b
  PROVE  StagePart(b)' = StagePart(b)
BY DEF StagePart, Count, At, One

\* A step of a callback or of Send changes the references of a batch by what
\* it changes of the holders.
LEMMA CallbackOrSendBalance ==
  ASSUME TypeInv, HolderShape, Origin, NEW n \in Node, CallbackOrSend(n), NEW b \in Batch
  PROVE  refs'[b] - StagePart(b)' = (refs[b] - StagePart(b)) + (EdgePart(b)' - EdgePart(b))
<1>1. /\ refs \in [Batch -> Int] /\ refs[b] \in Int
      /\ StagePart(b) \in Int /\ EdgePart(b) \in Int
  BY PartsTyped DEF TypeInv, TypeOK
<1>2. One(NoBatch, b) = 0 /\ Own(n, NoBatch, b) = 0
  BY NoBatchIsNone
<1>3. pc[n] \in CallbackPc => sending[n] = NoBatch
  BY DEF HolderShape, CallbackPc
<1>4. pc[n] = "send" => sending[n] \in Batch /\ Out[n][idx[n]] \in Edge
  BY GraphFacts DEF TypeInv, Shape, StageShape
<1>5. One(sending[n], b) \in Int /\ Own(n, sending[n], b) \in Int
  BY OneTyped
<1>6. CASE ReturnNil(n) \/ ReturnOwnError(n) \/ ReturnCtxError(n)
  <2>1. PICK x : CallbackReturns(n, x, refs)
    BY <1>6 DEF ReturnNil, ReturnOwnError, ReturnCtxError
  <2>2. pc[n] \in CallbackPc /\ UNCHANGED <<buf, held>>
    BY <1>6 DEF ReturnNil, ReturnOwnError, ReturnCtxError, edgeVars, readVars
  <2>3. EdgePart(b)' = EdgePart(b)
    BY <2>2, EdgesUnchanged
  <2>4. refs'[b] - StagePart(b)' = ((refs[b] - StagePart(b)) + One(sending[n], b))
                                     + Own(n, sending[n], b)
    BY <1>1, <2>1, CallbackReturnsBalance
  <2> QED BY <1>1, <1>2, <1>3, <2>2, <2>3, <2>4
<1>7. CASE Produce(n)
  <2>1. PICK k \in 1 .. Limit[n] :
          pc[n] \in CallbackPc /\ EnterSend(n, <<n, k>>, Retain(refs, <<n, k>>))
    BY <1>7, ProducedBatch
  <2>2. <<n, k>> \in Batch
    BY DEF Batch
  <2>3. Own(n, <<n, k>>, b) = One(<<n, k>>, b)
    BY DEF Own, One
  <2>4. /\ Retain(refs, <<n, k>>) \in [Batch -> Int]
        /\ Retain(refs, <<n, k>>)[b] = refs[b] + Own(n, <<n, k>>, b)
    <3>1. Retain(refs, <<n, k>>) \in [Batch -> Int]
      BY <1>1, <2>2, CountTyped
    <3>2. Retain(refs, <<n, k>>)[b] = refs[b] + One(<<n, k>>, b)
      BY <1>1, <2>2, RetainRelease
    <3> QED BY <2>3, <3>1, <3>2
  <2>5. refs'[b] - StagePart(b)' = refs[b] - StagePart(b)
    BY <2>1, <2>2, <2>4, EnterSendBalance
  <2>6. EdgePart(b)' = EdgePart(b)
    BY <1>7, EdgesUnchanged DEF Produce, edgeVars, readVars
  <2> QED BY <1>1, <2>5, <2>6
<1>8. CASE Forward(n)
  <2>1. pc[n] \in CallbackPc /\ EnterSend(n, cur[n], refs) /\ cur[n] \in Batch
    BY <1>8 DEF Forward, CallbackPc, TypeInv, Shape, StageShape, Caller
  <2>2. cur[n] \in Before(n)
    BY <2>1, ParameterFacts DEF Origin
  <2>3. Own(n, cur[n], b) = 0
    BY <2>2, GraphAssumption DEF GraphAssumption, Before, Own, One
  <2>4. refs'[b] - StagePart(b)' = refs[b] - StagePart(b)
    BY <1>1, <2>1, <2>3, EnterSendBalance
  <2>5. EdgePart(b)' = EdgePart(b)
    BY <1>8, EdgesUnchanged DEF Forward, edgeVars, readVars
  <2> QED BY <1>1, <2>4, <2>5
<1>9. CASE PushBuffered(n)
  <2> DEFINE e == Out[n][idx[n]]
  <2>1. /\ pc[n] = "send" /\ Len(buf[e]) < Cap /\ AdvanceSend(n, refs) /\ UNCHANGED held
        /\ buf' = [buf EXCEPT ![e] = Append(buf[e], sending[n])]
    BY <1>9 DEF PushBuffered, readVars
  <2>2. Becomes(buf, buf', Edge, e, Append(buf[e], sending[n]))
    BY <1>4, <2>1 DEF Becomes, TypeInv, TypeOK
  <2>3. EdgePart(b)' = EdgePart(b) + One(sending[n], b)
    BY <1>4, <2>1, <2>2, PushChange
  <2>4. refs'[b] - StagePart(b)' = (refs[b] - StagePart(b)) + One(sending[n], b)
    BY <1>1, <2>1, AdvanceSendBalance
  <2> QED BY <1>1, <1>5, <2>3, <2>4
<1>10. CASE PushRendezvous(n)
  <2> DEFINE e == Out[n][idx[n]]
  <2>1. pc[n] = "send" /\ UNCHANGED buf
    BY <1>10 DEF PushRendezvous, edgeVars
  <2>2. CASE /\ rpc[e] = "recv" /\ held' = [held EXCEPT ![e] = sending[n]]
             /\ AdvanceSend(n, refs)
    <3>1. Becomes(held, held', Edge, e, sending[n]) /\ held[e] = NoBatch
      BY <1>4, <2>1, <2>2 DEF Becomes, HolderShape, TypeInv, TypeOK
    <3>2. EdgePart(b)' = (EdgePart(b) - One(NoBatch, b)) + One(sending[n], b)
      BY <1>4, <2>1, <3>1, OfferChange
    <3>3. refs'[b] - StagePart(b)' = (refs[b] - StagePart(b)) + One(sending[n], b)
      BY <1>1, <2>1, <2>2, AdvanceSendBalance
    <3> QED BY <1>1, <1>2, <1>5, <3>2, <3>3
  <2>3. CASE AdvanceSend(n, Release(refs, sending[n])) /\ UNCHANGED held
    <3>1. EdgePart(b)' = EdgePart(b)
      BY <2>1, <2>3, EdgesUnchanged
    <3>2. /\ Release(refs, sending[n]) \in [Batch -> Int]
          /\ Release(refs, sending[n])[b] = refs[b] - One(sending[n], b)
      BY <1>1, <1>4, <2>1, CountTyped, RetainRelease
    <3>3. refs'[b] - StagePart(b)' = (Release(refs, sending[n])[b] - StagePart(b))
                                       + One(sending[n], b)
      BY <2>1, <2>3, <3>2, AdvanceSendBalance
    <3> QED BY <1>1, <1>5, <3>1, <3>2, <3>3
  <2> QED BY <1>10, <2>2, <2>3 DEF PushRendezvous
<1>11. CASE SendCancelled(n)
  <2> DEFINE r == Release(refs, sending[n])
             q == IF Owned(n, sending[n]) THEN Release(r, sending[n]) ELSE r
  <2>1. pc[n] = "send" /\ CallbackReturns(n, "ctx", q) /\ UNCHANGED <<buf, held>>
    BY <1>11 DEF SendCancelled, edgeVars, readVars
  <2>2. r \in [Batch -> Int] /\ r[b] = refs[b] - One(sending[n], b)
    BY <1>1, <1>4, <2>1, CountTyped, RetainRelease
  <2>3. /\ Release(r, sending[n]) \in [Batch -> Int]
        /\ Release(r, sending[n])[b] = r[b] - One(sending[n], b)
    BY <1>4, <2>1, <2>2, CountTyped, RetainRelease
  <2>4. Own(n, sending[n], b) = IF Owned(n, sending[n]) THEN One(sending[n], b) ELSE 0
    BY DEF Own, One, Owned
  <2> HIDE DEF r
  <2>5. q \in [Batch -> Int] /\ q[b] = (refs[b] - One(sending[n], b)) - Own(n, sending[n], b)
    BY <1>1, <1>5, <2>2, <2>3, <2>4
  <2> HIDE DEF q
  <2>6. refs'[b] - StagePart(b)' = ((q[b] - StagePart(b)) + One(sending[n], b))
                                     + Own(n, sending[n], b)
    BY <2>1, <2>5, CallbackReturnsBalance
  <2>7. EdgePart(b)' = EdgePart(b)
    BY <2>1, EdgesUnchanged
  <2> QED BY <1>1, <1>5, <2>5, <2>6, <2>7
<1> QED BY <1>6, <1>7, <1>8, <1>9, <1>10, <1>11 DEF CallbackOrSend

\* When every place is empty, nobody holds a batch.
LEMMA NoHolders ==
  ASSUME NEW b \in Batch, \A e \in Edge : buf[e] = <<>> /\ held[e] = NoBatch,
         \A n \in Node : cur[n] = NoBatch /\ sending[n] = NoBatch
  PROVE  EdgePart(b) + StagePart(b) = 0
<1>1. NoBatch # b /\ b[1] \in Node
  BY ParameterFacts DEF Batch
<1>2. SlotsOf(buf, b) = {}
  BY DEF SlotsOf
<1>3. At(held, Edge, b) = {} /\ At(cur, Node, b) = {} /\ At(sending, Node, b) = {}
  BY <1>1 DEF At
<1>4. One(sending[b[1]], b) = 0
  BY <1>1 DEF One
<1> QED BY <1>2, <1>3, <1>4, FS_EmptySet DEF EdgePart, StagePart, SlotCount, Count

LEMMA BalanceInit == Init => Balance
<1> SUFFICES ASSUME Init, NEW b \in Batch PROVE refs[b] = EdgePart(b) + StagePart(b)
  BY DEF Balance
<1>1. EdgePart(b) + StagePart(b) = 0
  BY NoHolders DEF Init
<1> QED BY <1>1 DEF Init

LEMMA BalanceNext ==
  TypeInv /\ Capacity /\ HolderShape /\ Origin /\ Balance /\ [Next]_vars => Balance'
<1> SUFFICES ASSUME TypeInv, Capacity, HolderShape, Origin, Balance, [Next]_vars,
                    NEW b \in Batch
             PROVE  refs'[b] = EdgePart(b)' + StagePart(b)'
  BY DEF Balance
<1>1. /\ refs \in [Batch -> Int] /\ refs[b] \in Int
      /\ EdgePart(b) \in Int /\ StagePart(b) \in Int /\ refs[b] = EdgePart(b) + StagePart(b)
  BY PartsTyped DEF Balance, TypeInv, TypeOK
<1>2. EdgePart(b)' \in Int /\ StagePart(b)' \in Int /\ refs'[b] \in Int
  <2>1. TypeInv'
    BY TypeInvNext
  <2>2. refs'[b] \in Int
    BY <2>1 DEF TypeInv, TypeOK
  <2>3. EdgePart(b)' \in Nat /\ StagePart(b)' \in Nat
    BY PartsTyped
  <2> QED BY <2>2, <2>3
<1>3. CASE UNCHANGED <<buf, held, cur, sending, refs>>
  BY <1>1, <1>3, EdgesUnchanged, StagesUnchanged
<1>4. ASSUME NEW n \in Node, CallbackOrSend(n) PROVE refs'[b] = EdgePart(b)' + StagePart(b)'
  <2>1. refs'[b] - StagePart(b)' = (refs[b] - StagePart(b)) + (EdgePart(b)' - EdgePart(b))
    BY <1>4, CallbackOrSendBalance
  <2> QED BY <1>1, <1>2, <2>1
<1>5. ASSUME NEW e \in Edge, Deliver(e) PROVE refs'[b] = EdgePart(b)' + StagePart(b)'
  <2>1. /\ To[e] \in Node /\ pc[To[e]] = "select"
        /\ cur' = [cur EXCEPT ![To[e]] = held[e]] /\ held' = [held EXCEPT ![e] = NoBatch]
        /\ UNCHANGED <<sending, buf, refs>>
    BY <1>5, GraphFacts DEF Deliver, edgeVars
  <2>2. cur[To[e]] = NoBatch
    BY <2>1 DEF HolderShape
  <2>3. /\ Becomes(cur, cur', Node, To[e], held[e])
        /\ Becomes(sending, sending', Node, To[e], sending[To[e]])
        /\ Becomes(held, held', Edge, e, NoBatch)
    BY <2>1 DEF Becomes, TypeInv, TypeOK
  <2>4. EdgePart(b)' = (EdgePart(b) - One(held[e], b)) + One(NoBatch, b)
    BY <2>1, <2>3, OfferChange
  <2>5. StagePart(b)' = StagePart(b)
            - (One(NoBatch, b) + One(sending[To[e]], b) + Own(To[e], sending[To[e]], b))
            + (One(held[e], b) + One(sending[To[e]], b) + Own(To[e], sending[To[e]], b))
    BY <2>1, <2>2, <2>3, StageChange
  <2>6. /\ One(NoBatch, b) = 0 /\ One(held[e], b) \in Int /\ One(sending[To[e]], b) \in Int
        /\ Own(To[e], sending[To[e]], b) \in Int
    BY NoBatchIsNone, OneTyped
  <2> QED BY <1>1, <2>1, <2>4, <2>5, <2>6
<1>6. ASSUME NEW e \in Edge, Reader(e) PROVE refs'[b] = EdgePart(b)' + StagePart(b)'
  <2>1. StagePart(b)' = StagePart(b)
    BY <1>6, StagesUnchanged
       DEF Reader, ReaderReceives, ReaderExits, ReaderCancelled, DrainEdge, stageVars
  <2>2. One(NoBatch, b) = 0 /\ One(held[e], b) \in Int /\ One(Head(buf[e]), b) \in Int
    BY NoBatchIsNone, OneTyped
  <2>3. CASE ReaderReceives(e)
    <3>1. /\ rpc[e] = "recv" /\ buf[e] # <<>> /\ buf' = [buf EXCEPT ![e] = Tail(buf[e])]
          /\ held' = [held EXCEPT ![e] = Head(buf[e])] /\ UNCHANGED refs
      BY <2>3 DEF ReaderReceives
    <3>2. /\ Becomes(buf, buf', Edge, e, Tail(buf[e]))
          /\ Becomes(held, held', Edge, e, Head(buf[e])) /\ held[e] = NoBatch
      BY <3>1 DEF Becomes, HolderShape, TypeInv, TypeOK
    <3>3. EdgePart(b)' = ((EdgePart(b) - One(Head(buf[e]), b)) - One(NoBatch, b))
                           + One(Head(buf[e]), b)
      BY <3>1, <3>2, PopChange
    <3> QED BY <1>1, <2>1, <2>2, <3>1, <3>3
  <2>4. CASE ReaderExits(e)
    BY <1>3, <2>4 DEF ReaderExits, stageVars, edgeVars
  <2>5. CASE ReaderCancelled(e)
    <3>1. /\ refs' = (IF rpc[e] = "offer" THEN Release(refs, held[e]) ELSE refs)
          /\ held' = [held EXCEPT ![e] = NoBatch] /\ UNCHANGED buf
      BY <2>5 DEF ReaderCancelled, edgeVars
    <3>2. Becomes(held, held', Edge, e, NoBatch)
      BY <3>1 DEF Becomes, TypeInv, TypeOK
    <3>3. EdgePart(b)' = (EdgePart(b) - One(held[e], b)) + One(NoBatch, b)
      BY <3>1, <3>2, OfferChange
    <3>4. CASE rpc[e] = "offer"
      <4>1. held[e] \in Batch
        BY <3>4 DEF TypeInv, Shape, ReaderShape
      <4>2. refs'[b] = refs[b] - One(held[e], b)
        BY <1>1, <3>1, <3>4, <4>1, RetainRelease
      <4> QED BY <1>1, <2>1, <2>2, <3>3, <4>2
    <3>5. CASE rpc[e] # "offer"
      <4>1. held[e] = NoBatch
        BY <3>5 DEF HolderShape
      <4> QED BY <1>1, <2>1, <2>2, <3>1, <3>3, <3>5, <4>1
    <3> QED BY <3>4, <3>5
  <2>6. CASE DrainEdge(e)
    <3>1. /\ rpc[e] = "drain" /\ buf[e] # <<>> /\ buf' = [buf EXCEPT ![e] = Tail(buf[e])]
          /\ refs' = Release(refs, Head(buf[e])) /\ UNCHANGED held
      BY <2>6 DEF DrainEdge, readVars
    <3>2. /\ Becomes(buf, buf', Edge, e, Tail(buf[e])) /\ Becomes(held, held', Edge, e, NoBatch)
          /\ held[e] = NoBatch
      BY <3>1 DEF Becomes, HolderShape, TypeInv, TypeOK
    <3>3. EdgePart(b)' = ((EdgePart(b) - One(Head(buf[e]), b)) - One(NoBatch, b))
                           + One(NoBatch, b)
      BY <3>1, <3>2, PopChange
    <3>4. Head(buf[e]) \in Batch
      BY <3>1, HeadTailTyped DEF TypeInv, TypeOK
    <3>5. refs'[b] = refs[b] - One(Head(buf[e]), b)
      BY <1>1, <3>1, <3>4, RetainRelease
    <3> QED BY <1>1, <2>1, <2>2, <3>3, <3>5
  <2> QED BY <1>6, <2>3, <2>4, <2>5, <2>6 DEF Reader
<1>7. ASSUME NEW n \in Node,
             \/ EndOfInput(n) \/ SelectCancelled(n) \/ StopReaders(n) \/ JoinReaders(n)
             \/ CheckCtx(n) \/ Abort(n) \/ Unwind(n) \/ CloseMerged(n)
      PROVE  refs'[b] = EdgePart(b)' + StagePart(b)'
  BY <1>3, <1>7 DEF EndOfInput, SelectCancelled, StopReaders, JoinReaders, CheckCtx, Abort,
     Unwind, RecordError, CancelRun, CloseEdge, StageDone, CloseMerged, stageVars, edgeVars,
     readVars
<1>8. CASE RunReturns \/ ExternalCancel \/ UNCHANGED vars
  BY <1>3, <1>8 DEF RunReturns, ExternalCancel, vars, stageVars, edgeVars, readVars
<1> QED
  BY <1>4, <1>5, <1>6, <1>7, <1>8
     DEF Next, Stage, Callback, Send, Consume, Finished, CallbackOrSend, InEdges

----------------------------------------------------------------------------
(* What is left when Run returns.                                          *)

\* Past its loop, a stage has waited for all of its readers: consumeInputs
\* returns only after readers.Wait() or on a closed merged channel.
InputsRead ==
  \A n \in Node :
    Kind[n] # "source" /\ (pc[n] \in {"check", "abort"} \cup Leaving \/ finishes[n] > 0) =>
      ReadersExited(n)

LEMMA InputsReadInit == Init => InputsRead
BY DEF Init, InputsRead, Leaving, ReadersExited

\* No step starts a reader again.
LEMMA ReadersNeverRestart ==
  ASSUME TypeInv, Control, [Next]_vars
  PROVE  \A e \in Edge : rpc[e] = "exit" => rpc'[e] = "exit"
<1>1. CASE UNCHANGED rpc
  BY <1>1
<1>2. ASSUME NEW n \in Node, CallbackOrSend(n)
      PROVE  \A e \in Edge : rpc[e] = "exit" => rpc'[e] = "exit"
  <2>1. \/ UNCHANGED rpc
        \/ \E f \in Edge : rpc[f] # "exit" /\ rpc' = [rpc EXCEPT ![f] = "offer"]
    BY <1>2, CallbackOrSendEdges
  <2> QED BY <2>1 DEF TypeInv, TypeOK
<1>3. ASSUME NEW f \in Edge, Deliver(f) \/ Reader(f)
      PROVE  \A e \in Edge : rpc[e] = "exit" => rpc'[e] = "exit"
  BY <1>3 DEF Deliver, Reader, ReaderReceives, ReaderExits, ReaderCancelled, DrainEdge, readVars,
     TypeInv, TypeOK
<1>4. ASSUME NEW n \in Node,
             \/ EndOfInput(n) \/ SelectCancelled(n) \/ StopReaders(n) \/ JoinReaders(n)
             \/ CheckCtx(n) \/ Abort(n) \/ Unwind(n) \/ CloseMerged(n)
      PROVE  UNCHANGED rpc
  BY <1>4 DEF EndOfInput, SelectCancelled, StopReaders, JoinReaders, CheckCtx, Abort, Unwind,
     RecordError, CancelRun, CloseEdge, StageDone, CloseMerged, readVars
<1>5. CASE RunReturns \/ ExternalCancel \/ UNCHANGED vars
  BY <1>1, <1>5 DEF RunReturns, ExternalCancel, vars, readVars
<1> QED
  BY <1>1, <1>2, <1>3, <1>4, <1>5
     DEF Next, Stage, Callback, Send, Consume, Finished, CallbackOrSend, InEdges

LEMMA InputsReadNext ==
  TypeInv /\ Control /\ ErrorShape /\ InputsRead /\ [Next]_vars => InputsRead'
<1> SUFFICES ASSUME TypeInv, Control, ErrorShape, InputsRead, [Next]_vars,
                    NEW n \in Node, Kind[n] # "source",
                    pc'[n] \in {"check", "abort"} \cup Leaving \/ finishes'[n] > 0
             PROVE  ReadersExited(n)'
  BY DEF InputsRead
<1>1. \A e \in Edge : rpc[e] = "exit" => rpc'[e] = "exit"
  BY ReadersNeverRestart
<1>2. ReadersExited(n) => ReadersExited(n)'
  BY <1>1 DEF ReadersExited, InEdges
<1>3. CASE UNCHANGED <<pc, finishes>>
  BY <1>2, <1>3 DEF InputsRead
<1>4. ASSUME NEW m \in Node, CallbackOrSend(m) PROVE ReadersExited(n)
  <2>1. /\ pc[m] \in CallbackPc \cup {"send"} /\ pc' = [pc EXCEPT ![m] = pc'[m]]
        /\ UNCHANGED finishes
        /\ pc'[m] \in CallbackPc \cup {"send", "select", "stop", "close", "fail"}
    BY <1>4, CallbackOrSendControl
  <2>2. pc'[m] \in {"close", "fail"} => Kind[m] = "source" \/ finishes[m] > 0
    BY <1>4, CallbackOrSendOutcome
  <2>3. m # n => pc'[n] = pc[n]
    BY <2>1 DEF TypeInv, TypeOK
  <2> QED BY <2>1, <2>2, <2>3 DEF InputsRead, Leaving, CallbackPc
<1>5. ASSUME NEW e \in Edge, Deliver(e) PROVE ReadersExited(n)
  <2>1. To[e] \in Node /\ pc' = [pc EXCEPT ![To[e]] = "body"] /\ UNCHANGED finishes
    BY <1>5, GraphFacts DEF Deliver, callVars
  <2> QED BY <2>1 DEF InputsRead, Leaving, TypeInv, TypeOK
<1>6. ASSUME NEW m \in Node, EndOfInput(m) PROVE ReadersExited(n)
  BY <1>6 DEF EndOfInput, callVars, InputsRead, Control, MergeControl, TypeInv, TypeOK
<1>7. ASSUME NEW m \in Node, JoinReaders(m) PROVE ReadersExited(n)
  BY <1>7 DEF JoinReaders, callVars, InputsRead, TypeInv, TypeOK
<1>8. ASSUME NEW m \in Node, CheckCtx(m) PROVE ReadersExited(n)
  <2>1. pc[m] = "check" /\ (m # n => pc'[n] = pc[n] /\ finishes'[n] = finishes[n])
    BY <1>8 DEF CheckCtx, TypeInv, TypeOK
  <2> QED BY <2>1 DEF InputsRead
<1>9. ASSUME NEW m \in Node,
             \/ SelectCancelled(m) \/ StopReaders(m) \/ Abort(m) \/ RecordError(m)
             \/ CancelRun(m) \/ StageDone(m)
      PROVE  ReadersExited(n)
  BY <1>9 DEF SelectCancelled, StopReaders, Abort, RecordError, CancelRun, StageDone, callVars,
     InputsRead, Leaving, TypeInv, TypeOK
<1>10. ASSUME NEW m \in Node, CloseEdge(m) \/ CloseMerged(m) PROVE UNCHANGED <<pc, finishes>>
  BY <1>10 DEF CloseEdge, CloseMerged, stageVars, callVars
<1>11. ASSUME NEW e \in Edge, Reader(e) PROVE UNCHANGED <<pc, finishes>>
  BY <1>11 DEF Reader, ReaderReceives, ReaderExits, ReaderCancelled, DrainEdge, stageVars,
     callVars
<1>12. CASE RunReturns \/ ExternalCancel \/ UNCHANGED vars
  BY <1>3, <1>12 DEF RunReturns, ExternalCancel, vars, stageVars, callVars
<1> QED
  BY <1>2, <1>3, <1>4, <1>5, <1>6, <1>7, <1>8, <1>9, <1>10, <1>11, <1>12
     DEF Next, Stage, Callback, Send, Consume, Unwind, Finished, CallbackOrSend, InEdges

\* The invariant of this module, and of the theorems below.
RefsInv == OutcomeInv /\ Capacity /\ HolderShape /\ Origin /\ Balance /\ InputsRead

LEMMA RefsInvariant == Spec => []RefsInv
<1>1. Init => RefsInv
  BY TypeInvInit, ControlInit, ErrorShapeInit, CallCountsInit, AllDoneInit, CauseInit,
     RecordInit, CapacityInit, HoldersInit, BalanceInit, InputsReadInit DEF RefsInv, OutcomeInv
<1>2. RefsInv /\ [Next]_vars => RefsInv'
  BY TypeInvNext, ControlNext, ErrorShapeNext, CallCountsNext, AllDoneNext, CauseNext,
     RecordNext, CapacityNext, HoldersNext, BalanceNext, InputsReadNext DEF RefsInv, OutcomeInv
<1> QED BY <1>1, <1>2, PTL DEF Spec

\* Whatever the graph and the order of its goroutines, a batch has exactly one
\* reference for every slot, reader, call and Send that holds it and one for
\* its creator: fan-out retains what it pushes, and a cancelled Send, a reader
\* that drains and a callback that fails release exactly what they held.
THEOREM ReferencesBalance == Spec => []RefBalance
<1>1. RefsInv => RefBalance
  BY HoldersSum DEF RefsInv, OutcomeInv, Balance, RefBalance
<1> QED BY <1>1, RefsInvariant, PTL

\* When Run returns, no reader is left that could touch a batch, no edge holds
\* one, and every reference has been released.
THEOREM NothingIsLeft == Spec => []NothingLeftBehind
<1>1. RefsInv => NothingLeftBehind
  <2> SUFFICES ASSUME RefsInv, returned PROVE /\ \A e \in Edge : rpc[e] = "exit" /\ buf[e] = <<>>
                                              /\ \A b \in Batch : refs[b] = 0
    BY DEF NothingLeftBehind
  <2>1. \A n \in Node : pc[n] = "done"
    BY DEF RefsInv, OutcomeInv, AllDone
  <2>2. ASSUME NEW e \in Edge PROVE rpc[e] = "exit" /\ buf[e] = <<>> /\ held[e] = NoBatch
    <3>1. To[e] \in Node /\ Kind[To[e]] # "source" /\ e \in InEdges(To[e])
      BY GraphFacts, GraphAssumption DEF GraphAssumption, InEdges
    <3>2. rpc[e] = "exit"
      BY <2>1, <3>1 DEF RefsInv, InputsRead, Leaving, ReadersExited
    <3> QED BY <3>2 DEF RefsInv, OutcomeInv, Control, EdgeControl, HolderShape
  <2>3. \A n \in Node : cur[n] = NoBatch /\ sending[n] = NoBatch
    BY <2>1 DEF RefsInv, HolderShape
  <2>4. \A b \in Batch : EdgePart(b) + StagePart(b) = 0
    BY <2>2, <2>3, NoHolders
  <2> QED BY <2>2, <2>4 DEF RefsInv, Balance
<1> QED BY <1>1, RefsInvariant, PTL

----------------------------------------------------------------------------
(***************************************************************************)
(* Part 4.  PipelineRuntime implements Lifecycle: each step of a goroutine *)
(* is a step of the contract under the mapping of PipelineRefinement, or   *)
(* changes nothing the contract speaks of.                                 *)
(***************************************************************************)

\* A stage waits for its readers, aborts or was aborted only in a run that is
\* cancelled, and a source never aborts.
AbortControl ==
  \A n \in Node :
    /\ pc[n] \in {"wait", "abort"} \/ aborts[n] > 0 => ctxDone
    /\ pc[n] = "abort" => Kind[n] # "source"

LEMMA AbortControlInit == Init => AbortControl
BY DEF Init, AbortControl

LEMMA AbortControlNext == TypeInv /\ AbortControl /\ [Next]_vars => AbortControl'
<1> SUFFICES ASSUME TypeInv, AbortControl, [Next]_vars PROVE AbortControl'
  OBVIOUS
<1> USE DEF AbortControl
<1>1. CASE UNCHANGED <<pc, aborts, ctxDone>>
  BY <1>1
<1>2. ASSUME NEW n \in Node, CallbackOrSend(n) PROVE AbortControl'
  <2>1. /\ pc' = [pc EXCEPT ![n] = pc'[n]] /\ pc'[n] \notin {"wait", "abort"}
        /\ UNCHANGED <<aborts, ctxDone>>
    BY <1>2, CallbackOrSendControl DEF CallbackPc
  <2>2. \A m \in Node \ {n} : pc'[m] = pc[m]
    BY <2>1 DEF TypeInv, TypeOK
  <2> QED BY <2>1, <2>2
<1>3. ASSUME NEW e \in Edge, Deliver(e) PROVE AbortControl'
  <2>1. To[e] \in Node /\ pc' = [pc EXCEPT ![To[e]] = "body"] /\ UNCHANGED <<aborts, ctxDone>>
    BY <1>3, GraphFacts DEF Deliver, callVars, runVars
  <2> QED BY <2>1 DEF TypeInv, TypeOK
<1>4. ASSUME NEW n \in Node, CheckCtx(n) PROVE AbortControl'
  <2>1. UNCHANGED <<aborts, ctxDone>> /\ \A m \in Node \ {n} : pc'[m] = pc[m]
    BY <1>4 DEF CheckCtx, runVars, TypeInv, TypeOK
  <2>2. pc'[n] = "abort" => ctxDone
    BY <1>4 DEF CheckCtx, TypeInv, TypeOK
  <2>3. pc'[n] # "wait" /\ Kind[n] # "source"
    BY <1>4 DEF CheckCtx, TypeInv, TypeOK, Shape, StageShape
  <2> QED BY <2>1, <2>2, <2>3
<1>5. ASSUME NEW n \in Node, Abort(n) PROVE AbortControl'
  <2>1. ctxDone /\ UNCHANGED ctxDone /\ \A m \in Node : pc'[m] = "abort" => pc[m] = "abort"
    BY <1>5 DEF Abort, runVars, TypeInv, TypeOK
  <2> QED BY <2>1
<1>6. ASSUME NEW n \in Node,
             \/ EndOfInput(n) \/ SelectCancelled(n) \/ StopReaders(n) \/ JoinReaders(n)
             \/ RecordError(n) \/ CancelRun(n) \/ StageDone(n)
      PROVE  AbortControl'
  BY <1>6 DEF EndOfInput, SelectCancelled, StopReaders, JoinReaders, RecordError, CancelRun,
     StageDone, callVars, runVars, TypeInv, TypeOK, Shape, StageShape
<1>7. ASSUME NEW n \in Node, CloseEdge(n) \/ CloseMerged(n) PROVE AbortControl'
  BY <1>1, <1>7 DEF CloseEdge, CloseMerged, stageVars, callVars, runVars
<1>8. ASSUME NEW e \in Edge, Reader(e) PROVE AbortControl'
  BY <1>1, <1>8 DEF Reader, ReaderReceives, ReaderExits, ReaderCancelled, DrainEdge,
     stageVars, callVars, runVars
<1>9. CASE RunReturns \/ ExternalCancel
  BY <1>9 DEF RunReturns, ExternalCancel, stageVars
<1>10. CASE UNCHANGED vars
  BY <1>1, <1>10 DEF vars, stageVars, callVars, runVars
<1> QED
  BY <1>2, <1>3, <1>4, <1>5, <1>6, <1>7, <1>8, <1>9, <1>10
     DEF Next, Stage, Callback, Send, Consume, Unwind, Finished, CallbackOrSend, InEdges

\* What the mapping rests on.
MapInv == OutcomeInv /\ Capacity /\ Flow /\ Barrier /\ AbortControl

LEMMA MapInvInit == Init => MapInv
BY TypeInvInit, ControlInit, ErrorShapeInit, CallCountsInit, AllDoneInit, CauseInit,
   RecordInit, CapacityInit, FlowInit, BarrierInit, AbortControlInit
   DEF MapInv, OutcomeInv

LEMMA MapInvNext == MapInv /\ [Next]_vars => MapInv'
BY TypeInvNext, ControlNext, ErrorShapeNext, CallCountsNext, AllDoneNext, CauseNext,
   RecordNext, CapacityNext, FlowNext, BarrierNext, AbortControlNext
   DEF MapInv, OutcomeInv

----------------------------------------------------------------------------
(* Steps under the mapping.                                                *)

\* A step that leaves every stage where it is.
LEMMA MapStays ==
  ASSUME \A n \in Node : StageOf(n)' = StageOf(n), UNCHANGED <<ctxDone, recorded, returned>>
  PROVE  UNCHANGED Contract!vars
BY DEF Contract!vars, Outcome

\* A step that moves one stage.
LEMMA MapMoves ==
  ASSUME NEW n \in Node, NEW to, StageOf(n)' = to,
         \A m \in Node \ {n} : StageOf(m)' = StageOf(m), Outcome' = Outcome, UNCHANGED ctxDone
  PROVE  Contract!Moves(n, to)
BY DEF Contract!Moves

\* A step that cancels the run and moves no stage.
LEMMA MapCancels ==
  ASSUME \A n \in Node : StageOf(n)' = StageOf(n), Outcome' = Outcome, ctxDone'
  PROVE  Contract!Cancel
BY DEF Contract!Cancel

\* The mapping of a stage depends on its own variables only.
LEMMA MapOthers ==
  ASSUME NEW m \in Node, pc'[m] = pc[m], err'[m] = err[m], finishes'[m] = finishes[m],
         aborts'[m] = aborts[m]
  PROVE  StageOf(m)' = StageOf(m)
BY DEF StageOf

LEMMA StepRefines ==
  ASSUME MapInv, [Next]_vars
  PROVE  [Contract!Next]_(Contract!vars)
<1> USE DEF MapInv, OutcomeInv
<1> DEFINE Step == [Contract!Next]_(Contract!vars)
<1>1. ASSUME UNCHANGED <<pc, err, finishes, aborts, ctxDone, recorded, returned>> PROVE Step
  BY <1>1, MapStays, MapOthers
<1>2. ASSUME NEW n \in Node, CallbackOrSend(n) PROVE Step
  <2>1. /\ pc[n] \in CallbackPc \cup {"send"}
        /\ pc' = [pc EXCEPT ![n] = pc'[n]] /\ err' = [err EXCEPT ![n] = err'[n]]
        /\ pc'[n] \in CallbackPc \cup {"send", "select", "stop", "close", "fail"}
        /\ pc'[n] = "close" => err'[n] = "nil"
        /\ UNCHANGED <<ctxDone, recorded, returned, finishes, aborts>>
    BY <1>2, CallbackOrSendControl
  <2>2. /\ pc'[n] = "fail" => err'[n] # "nil"
        /\ pc'[n] \in {"close", "fail"} => Kind[n] = "source" \/ finishes[n] > 0
    BY <1>2, CallbackOrSendOutcome
  <2>3. \A m \in Node \ {n} : StageOf(m)' = StageOf(m)
    BY <2>1, MapOthers DEF TypeInv, TypeOK
  <2>4. StageOf(n) = IF finishes[n] > 0 THEN "finishing" ELSE "consuming"
    BY <2>1 DEF StageOf, CallbackPc
  <2>5. aborts[n] = 0 /\ (Kind[n] = "source" => finishes[n] = 0)
    BY <2>1 DEF CallCounts, Leaving, CallbackPc
  <2>6. CASE pc'[n] \notin {"close", "fail"}
    <3>1. StageOf(n)' = StageOf(n)
      BY <2>1, <2>4, <2>6 DEF StageOf, CallbackPc
    <3> QED BY <2>1, <2>3, <3>1, MapStays
  <2>7. ASSUME pc'[n] \in {"close", "fail"} PROVE Contract!Ending(n)
    BY <2>2, <2>4, <2>5, <2>7 DEF Contract!Ending
  <2>8. CASE pc'[n] = "close"
    <3>1. StageOf(n)' = "completed"
      BY <2>1, <2>8 DEF StageOf
    <3>2. Contract!Complete(n)
      BY <2>1, <2>3, <2>7, <2>8, <3>1, MapMoves DEF Contract!Complete, Outcome
    <3> QED BY <3>2 DEF Contract!Next
  <2>9. CASE pc'[n] = "fail"
    <3>1. StageOf(n)' = "failed"
      BY <2>1, <2>2, <2>5, <2>9 DEF StageOf
    <3>2. Contract!Fail(n)
      BY <2>1, <2>3, <2>7, <2>9, <3>1, MapMoves DEF Contract!Fail, Outcome
    <3> QED BY <3>2 DEF Contract!Next
  <2> QED BY <2>6, <2>8, <2>9
<1>3. ASSUME NEW n \in Node, UNCHANGED <<finishes, aborts, ctxDone, recorded, returned>>,
             pc[n] \notin Leaving, pc'[n] \notin Leaving,
             \A m \in Node \ {n} : pc'[m] = pc[m] /\ err'[m] = err[m]
      PROVE  Step
  <2>1. StageOf(n)' = StageOf(n)
    BY <1>3 DEF StageOf, Leaving
  <2> QED BY <1>3, <2>1, MapStays, MapOthers
<1>4. ASSUME NEW e \in Edge, Deliver(e) PROVE Step
  <2>1. /\ To[e] \in Node /\ pc[To[e]] = "select" /\ pc' = [pc EXCEPT ![To[e]] = "body"]
        /\ UNCHANGED <<err, finishes, aborts, ctxDone, recorded, returned>>
    BY <1>4, GraphFacts DEF Deliver, callVars, runVars
  <2> QED BY <1>3, <2>1 DEF Leaving, TypeInv, TypeOK
<1>5. ASSUME NEW n \in Node, EndOfInput(n) \/ SelectCancelled(n) \/ JoinReaders(n) PROVE Step
  <2>1. UNCHANGED <<finishes, aborts, ctxDone, recorded, returned>>
    BY <1>5 DEF EndOfInput, SelectCancelled, JoinReaders, callVars, runVars
  <2>2. pc[n] \notin Leaving /\ pc'[n] \notin Leaving
    BY <1>5 DEF EndOfInput, SelectCancelled, JoinReaders, Leaving, TypeInv, TypeOK
  <2>3. \A m \in Node \ {n} : pc'[m] = pc[m] /\ err'[m] = err[m]
    BY <1>5 DEF EndOfInput, SelectCancelled, JoinReaders, TypeInv, TypeOK
  <2> QED BY <1>3, <2>1, <2>2, <2>3
<1>6. ASSUME NEW n \in Node, StopReaders(n) PROVE Step
  <2>1. /\ pc[n] = "stop" /\ pc' = [pc EXCEPT ![n] = "wait"] /\ ctxDone'
        /\ UNCHANGED <<err, finishes, aborts, recorded, returned>>
    BY <1>6 DEF StopReaders, callVars
  <2>2. StageOf(n)' = StageOf(n)
    BY <2>1 DEF StageOf, TypeInv, TypeOK
  <2>3. \A m \in Node : StageOf(m)' = StageOf(m)
    BY <2>1, <2>2, MapOthers DEF TypeInv, TypeOK
  <2>4. Contract!Cancel
    BY <2>1, <2>3, MapCancels DEF Outcome
  <2> QED BY <2>4 DEF Contract!Next
<1>7. ASSUME NEW n \in Node, CheckCtx(n), ctxDone PROVE Step
  <2>1. /\ pc[n] = "check" /\ pc' = [pc EXCEPT ![n] = "abort"] /\ err' = [err EXCEPT ![n] = "ctx"]
        /\ UNCHANGED <<finishes, aborts, ctxDone, recorded, returned>>
    BY <1>7 DEF CheckCtx, runVars
  <2> QED BY <1>3, <2>1 DEF Leaving, TypeInv, TypeOK
<1>8. ASSUME NEW n \in Node, CheckCtx(n), ~ctxDone PROVE Step
  <2>1. /\ pc[n] = "check" /\ pc' = [pc EXCEPT ![n] = "finish"]
        /\ finishes' = [finishes EXCEPT ![n] = finishes[n] + 1]
        /\ UNCHANGED <<err, aborts, ctxDone, recorded, returned>>
    BY <1>8 DEF CheckCtx, runVars
  <2>2. Kind[n] # "source" /\ finishes[n] = 0
    BY <2>1 DEF TypeInv, Shape, StageShape
  <2>3. \A m \in Node \ {n} : StageOf(m)' = StageOf(m)
    BY <2>1, MapOthers DEF TypeInv, TypeOK
  <2>4. StageOf(n) = "consuming" /\ StageOf(n)' = "finishing"
    BY <2>1, <2>2 DEF StageOf, TypeInv, TypeOK
  <2>5. ASSUME NEW e \in InEdges(n) PROVE StageOf(From[e]) = "completed"
    <3>1. Barrier' /\ finishes'[n] > 0
      BY <2>1, <2>2, BarrierNext DEF TypeInv, TypeOK
    <3>2. e \in Edge /\ From[e] \in Node
      BY GraphFacts DEF InEdges
    <3>3. Succeeded(From[e])'
      BY <3>1, <3>2 DEF Barrier, StageFinished, InEdges
    <3>4. From[e] # n
      BY <2>1, <3>2, <3>3 DEF Succeeded, TypeInv, TypeOK
    <3>5. Succeeded(From[e])
      BY <2>1, <3>2, <3>3, <3>4 DEF Succeeded, TypeInv, TypeOK
    <3> QED BY <3>2, <3>5 DEF Succeeded, StageOf
  <2>6. Contract!Moves(n, "finishing")
    BY <2>1, <2>3, <2>4, MapMoves DEF Outcome
  <2>7. \A m \in {From[e] : e \in InEdges(n)} : StageOf(m) = "completed" /\ m \in Node
    BY <2>5, GraphFacts DEF InEdges
  <2>8. Contract!Finish(n)
    BY <1>8, <2>2, <2>4, <2>6, <2>7 DEF Contract!Finish
  <2> QED BY <2>8 DEF Contract!Next
<1>9. ASSUME NEW n \in Node, Abort(n) PROVE Step
  <2>1. /\ pc[n] = "abort" /\ pc' = [pc EXCEPT ![n] = "fail"] /\ ctxDone /\ err[n] # "nil"
        /\ finishes[n] = 0 /\ aborts[n] = 0
        /\ UNCHANGED <<err, finishes, ctxDone, recorded, returned>>
    BY <1>9, ErrorFacts DEF Abort, AbortControl, CallCounts, Leaving, Unwinding, runVars
  <2>2. /\ aborts'[n] = IF n \in Aborter THEN 1 ELSE 0
        /\ \A m \in Node \ {n} : aborts'[m] = aborts[m]
    BY <1>9, <2>1 DEF Abort, TypeInv, TypeOK
  <2>3. \A m \in Node \ {n} : StageOf(m)' = StageOf(m)
    BY <2>1, <2>2, MapOthers DEF TypeInv, TypeOK
  <2>4. StageOf(n) = "consuming"
    BY <2>1 DEF StageOf
  <2>5. CASE n \in Aborter
    <3>1. StageOf(n)' = "aborted"
      BY <2>1, <2>2, <2>5 DEF StageOf, TypeInv, TypeOK
    <3>2. Contract!Abort(n)
      BY <2>1, <2>3, <2>4, <2>5, <3>1, MapMoves DEF Contract!Abort, Outcome
    <3> QED BY <3>2 DEF Contract!Next
  <2>6. CASE n \notin Aborter
    <3>1. StageOf(n)' = "failed"
      BY <2>1, <2>2, <2>6 DEF StageOf, TypeInv, TypeOK
    <3>2. Kind[n] # "source"
      BY <2>1 DEF AbortControl
    <3>3. Contract!GiveUp(n)
      BY <2>1, <2>3, <2>4, <2>6, <3>1, <3>2, MapMoves DEF Contract!GiveUp, Outcome
    <3> QED BY <3>3 DEF Contract!Next
  <2> QED BY <2>5, <2>6
<1>10. ASSUME NEW n \in Node, RecordError(n) PROVE Step
  <2>1. /\ pc[n] = "fail" /\ pc' = [pc EXCEPT ![n] = "cancel"] /\ err[n] # "nil"
        /\ UNCHANGED <<err, finishes, aborts, ctxDone, returned>>
    BY <1>10, ErrorFacts DEF RecordError, Unwinding, callVars
  <2>2. \A m \in Node \ {n} : StageOf(m)' = StageOf(m)
    BY <2>1, MapOthers DEF TypeInv, TypeOK
  <2>3. StageOf(n)' = "failed"
    BY <2>1 DEF StageOf, TypeInv, TypeOK
  <2>4. ~returned /\ Outcome' = Outcome
    BY <2>1 DEF AllDone, Outcome
  <2>5. CASE aborts[n] > 0
    <3>1. StageOf(n) = "aborted" /\ ctxDone
      BY <2>1, <2>5 DEF StageOf, AbortControl
    <3>2. n \in Aborter /\ Kind[n] # "source"
      BY <2>5, ParameterAssumption DEF ParameterAssumption, CallCounts
    <3>3. Contract!GiveUp(n)
      BY <2>1, <2>2, <2>3, <2>4, <3>1, <3>2, MapMoves DEF Contract!GiveUp
    <3> QED BY <3>3 DEF Contract!Next
  <2>6. CASE ~(aborts[n] > 0)
    <3>1. StageOf(n) = "failed"
      BY <2>1, <2>6 DEF StageOf
    <3>2. UNCHANGED Contract!vars
      BY <2>1, <2>2, <2>3, <2>4, <3>1 DEF Contract!vars
    <3> QED BY <3>2
  <2> QED BY <2>5, <2>6
<1>11. ASSUME NEW n \in Node, CancelRun(n) PROVE Step
  <2>1. /\ pc[n] = "cancel" /\ pc' = [pc EXCEPT ![n] = "close"] /\ ctxDone' /\ err[n] # "nil"
        /\ UNCHANGED <<err, finishes, aborts, recorded, returned>>
    BY <1>11, ErrorFacts DEF CancelRun, Unwinding, callVars
  <2>2. StageOf(n)' = StageOf(n)
    BY <2>1 DEF StageOf, TypeInv, TypeOK
  <2>3. \A m \in Node : StageOf(m)' = StageOf(m)
    BY <2>1, <2>2, MapOthers DEF TypeInv, TypeOK
  <2>4. Contract!Cancel
    BY <2>1, <2>3, MapCancels DEF Outcome
  <2> QED BY <2>4 DEF Contract!Next
<1>12. ASSUME NEW n \in Node, StageDone(n) PROVE Step
  <2>1. /\ pc[n] = "close" /\ pc' = [pc EXCEPT ![n] = "done"]
        /\ UNCHANGED <<err, finishes, aborts, ctxDone, recorded, returned>>
    BY <1>12 DEF StageDone, callVars, runVars
  <2>2. StageOf(n)' = StageOf(n)
    BY <2>1 DEF StageOf, TypeInv, TypeOK
  <2> QED BY <2>1, <2>2, MapStays, MapOthers DEF TypeInv, TypeOK
<1>13. ASSUME NEW n \in Node, CloseEdge(n) \/ CloseMerged(n) PROVE Step
  BY <1>1, <1>13 DEF CloseEdge, CloseMerged, stageVars, callVars, runVars
<1>14. ASSUME NEW e \in Edge, Reader(e) PROVE Step
  BY <1>1, <1>14 DEF Reader, ReaderReceives, ReaderExits, ReaderCancelled, DrainEdge,
     stageVars, callVars, runVars
<1>15. CASE RunReturns
  <2>1. /\ ~returned /\ returned' /\ ctxDone' /\ \A n \in Node : pc[n] = "done"
        /\ UNCHANGED <<pc, err, finishes, aborts, recorded>>
    BY <1>15 DEF RunReturns, stageVars, callVars, TypeInv, TypeOK
  <2>2. \A n \in Node : StageOf(n) = IF err[n] = "nil" THEN "completed" ELSE "failed"
    BY <2>1 DEF StageOf
  <2>3. \A n \in Node : StageOf(n)' = StageOf(n)
    BY <2>1, MapOthers
  <2>4. recorded = NoNode <=> \A n \in Node : err[n] = "nil"
    BY <2>1 DEF Record, Reported
  <2>5. Outcome = "running" /\ Outcome' = IF recorded = NoNode THEN "ok" ELSE "failed"
    BY <2>1 DEF Outcome
  <2>6. Contract!Return
    BY <2>1, <2>2, <2>3, <2>4, <2>5 DEF Contract!Return
  <2> QED BY <2>6 DEF Contract!Next
<1>16. CASE ExternalCancel
  <2>1. ctxDone' /\ UNCHANGED <<pc, err, finishes, aborts, recorded, returned>>
    BY <1>16 DEF ExternalCancel, stageVars, callVars
  <2>2. Contract!Cancel
    BY <2>1, MapOthers, MapCancels DEF Outcome
  <2> QED BY <2>2 DEF Contract!Next
<1>17. CASE UNCHANGED vars
  BY <1>1, <1>17 DEF vars, stageVars, callVars, runVars
<1> QED
  BY <1>2, <1>4, <1>5, <1>6, <1>7, <1>8, <1>9, <1>10, <1>11, <1>12, <1>13, <1>14, <1>15,
     <1>16, <1>17
     DEF Next, Stage, Callback, Send, Consume, Unwind, Finished, CallbackOrSend, InEdges

LEMMA InitRefines == Init => Contract!Init
BY DEF Init, Contract!Init, StageOf, Outcome

\* The goroutines, channels and readers of a run keep the contract of etl.go
\* and ARCHITECTURE.md on every graph: a stage is finished only when all its
\* upstream stages have completed and before a cancellation is seen, aborted
\* only in a cancelled run and before it is given up, and Run returns nil
\* exactly when every stage completed.
THEOREM RuntimeImplementsLifecycle == Spec => ImplementsLifecycle
<1>1. Init => Contract!Init
  BY InitRefines
<1>2. MapInv /\ [Next]_vars => [Contract!Next]_(Contract!vars)
  BY StepRefines
<1> QED BY <1>1, <1>2, MapInvInit, MapInvNext, PTL DEF Spec, ImplementsLifecycle, Contract!Spec
=============================================================================
