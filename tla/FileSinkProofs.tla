--------------------------- MODULE FileSinkProofs ---------------------------
(***************************************************************************)
(* Theorems about FileSink for any number of batches: what is stored at    *)
(* the key, what Finish promises, and what becomes of the blob writer.     *)
(***************************************************************************)
EXTENDS FileSink, TLAPS

\* The stage has met no error and no cancellation.
Working == {"idle", "open", "newFormat", "write", "finish", "closeFormat", "commit"}

\* Which call each step belongs to, and how far the sink is open in it.
CallInv ==
  /\ pc \in {"idle", "write"} => call = "consume"
  /\ pc \in {"finish", "closeFormat", "commit", "publish"} => call = "finish"
  /\ pc \in {"idle", "finish"} => (started <=> accepted > 0)
  /\ pc \in {"open", "newFormat"} => ~started /\ accepted = 0
  /\ pc \in {"write", "closeFormat", "commit", "publish"} => started
  /\ pc \in {"open", "newFormat", "write"} /\ call = "consume" => accepted < MaxBatches
  /\ pc \in {"open", "newFormat"} /\ call = "finish" => conf.explicitSchema
  /\ pc \in {"closeFormat", "commit", "publish"} => accepted > 0 \/ conf.explicitSchema

\* As long as all went well the one blob writer is open and nothing is stored;
\* the format has written what Consume accepted, and its footer before commit.
WorkingInv ==
  pc \in Working =>
    /\ ~aborted /\ ~cancelled /\ closes = 0 /\ object = NoObject
    /\ opens = IF hasWriter \/ pc = "newFormat" THEN 1 ELSE 0
    /\ stream = [batches |-> accepted, ends |-> IF pc = "commit" THEN "footer" ELSE "rows"]
    /\ hasWriter => started
    /\ started => (hasWriter <=> ~conf.writerBacked)
    /\ pc = "commit" => hasWriter
    /\ pc = "newFormat" => ~hasWriter /\ ~conf.writerBacked
    /\ started \/ pc = "newFormat" => ~conf.constructErr

\* While its Close publishes, the writer counts as closed and what it was given
\* is complete; nothing is stored yet.
PublishInv ==
  pc = "publish" =>
    /\ opens = 1 /\ closes = 1 /\ object = NoObject
    /\ stream = [batches |-> accepted, ends |-> "footer"]

\* Before Abort runs, either the writer is the sink's and still open, or there
\* is none left to close.
AbortInv ==
  pc = "abort" =>
    /\ conf.discards => object = NoObject
    /\ IF hasWriter /\ ~aborted THEN opens = 1 /\ closes = 0
       ELSE closes = opens /\ (opens > 0 => cancelled)

Promises == NoPartialObject /\ FinishCommits /\ WriterReleased

IInv == TypeOK /\ CallInv /\ WorkingInv /\ PublishInv /\ AbortInv /\ Promises

\* TypeOK by parts: the Booleans, and the rest.
Flags ==
  /\ ctxDone \in BOOLEAN /\ started \in BOOLEAN /\ hasWriter \in BOOLEAN
  /\ aborted \in BOOLEAN /\ cancelled \in BOOLEAN

Data ==
  /\ conf \in Configs
  /\ pc \in {"idle", "open", "newFormat", "write", "finish", "closeFormat",
             "commit", "publish", "abort", "finished", "failed", "aborted"}
  /\ call \in {"consume", "finish"}
  /\ opens \in Nat /\ closes \in Nat
  /\ stream \in Stream
  /\ object \in Stream \cup {NoObject}
  /\ accepted \in 0 .. MaxBatches

\* What a Close that gave up may leave is in its domain, and nothing new over a
\* backend that discards it.
LEMMA GivenUpFacts ==
  ASSUME TypeOK
  PROVE  GivenUp \subseteq Stream \cup {NoObject} /\ (conf.discards => GivenUp = {object})
BY ParameterAssumption DEF ParameterAssumption, TypeOK, GivenUp, Stream

\* Aborting closes the sink's own writer if it is still open.
LEMMA AbortWriterFacts ==
  ASSUME TypeOK, AbortWriter
  PROVE  /\ aborted' /\ aborted' \in BOOLEAN /\ cancelled' \in BOOLEAN
         /\ object' \in Stream \cup {NoObject} /\ (conf.discards => object' = object)
         /\ IF hasWriter /\ ~aborted THEN cancelled' /\ closes' = closes + 1
            ELSE closes' = closes /\ object' = object /\ (cancelled => cancelled')
<1>1. aborted' /\ aborted' \in BOOLEAN /\ cancelled' \in BOOLEAN
  BY Zenon DEF AbortWriter, TypeOK
<1>2. object' \in {object} \cup GivenUp
  BY DEF AbortWriter
<1>3. object' \in Stream \cup {NoObject} /\ (conf.discards => object' = object)
  BY <1>2, GivenUpFacts DEF TypeOK
<1>4. IF hasWriter /\ ~aborted THEN cancelled' /\ closes' = closes + 1
      ELSE closes' = closes /\ object' = object /\ (cancelled => cancelled')
  <2>1. hasWriter /\ ~aborted => cancelled'
    BY Zenon DEF AbortWriter
  <2>2. cancelled => cancelled'
    BY Zenon DEF AbortWriter
  <2> QED BY <2>1, <2>2 DEF AbortWriter
<1> QED BY <1>1, <1>3, <1>4

LEMMA InitInv == Init => IInv
<1> SUFFICES ASSUME Init PROVE IInv
  OBVIOUS
<1>1. Flags /\ Data
  <2>1. Flags
    BY Zenon DEF Init, Flags
  <2>2. Data
    BY ParameterAssumption DEF ParameterAssumption, Init, Data, Stream
  <2> QED BY <2>1, <2>2
<1>2. CallInv /\ WorkingInv /\ PublishInv /\ AbortInv
  BY DEF Init, CallInv, WorkingInv, PublishInv, AbortInv, Working
<1>3. Promises
  BY DEF Init, Promises, NoPartialObject, FinishCommits, WriterReleased, Ended
<1> QED BY <1>1, <1>2, <1>3 DEF IInv, TypeOK, Flags, Data

----------------------------------------------------------------------------
(* The invariant is kept by every step of the sink and of its stage.       *)

\* A failing Write or CloseFormat, and Abort, keep the invariant.
LEMMA AbortWriterStep ==
  ASSUME IInv, AbortWriter,
         UNCHANGED <<conf, call, ctxDone, started, hasWriter, opens, accepted>>,
         stream' \in {stream, [stream EXCEPT !.ends = "torn"]},
         \/ pc = "write" /\ pc' = "abort"
         \/ pc = "closeFormat" /\ pc' = "failed"
         \/ pc = "abort" /\ pc' = "aborted"
  PROVE  IInv'
<1> USE DEF IInv
<1>1. /\ aborted' /\ aborted' \in BOOLEAN /\ cancelled' \in BOOLEAN
      /\ object' \in Stream \cup {NoObject} /\ (conf.discards => object' = object)
      /\ IF hasWriter /\ ~aborted THEN cancelled' /\ closes' = closes + 1
         ELSE closes' = closes /\ object' = object /\ (cancelled => cancelled')
  BY AbortWriterFacts
<1>2. TypeOK'
  <2>1. stream' \in Stream
    BY DEF TypeOK, Stream
  <2>2. closes' \in Nat
    BY <1>1 DEF TypeOK
  <2> QED BY <1>1, <2>1, <2>2 DEF TypeOK
<1>3. CallInv' /\ WorkingInv' /\ PublishInv'
  BY DEF CallInv, WorkingInv, PublishInv, Working
<1>4. AbortInv'
  BY <1>1 DEF TypeOK, WorkingInv, Working, AbortInv
<1>5. Promises'
  <2>1. conf.discards => object = NoObject
    BY DEF WorkingInv, Working, AbortInv
  <2>2. \/ closes' = opens' /\ (opens' > 0 => cancelled')
        \/ pc' = "abort"
    BY <1>1 DEF TypeOK, WorkingInv, Working, AbortInv
  <2>3. closes' <= opens' /\ (closes' > 0 => cancelled')
    BY <1>1, <2>2 DEF TypeOK, WorkingInv, Working
  <2> QED
    BY <1>1, <2>1, <2>2, <2>3 DEF TypeOK, Promises, NoPartialObject, FinishCommits, WriterReleased, Ended
<1> QED BY <1>2, <1>3, <1>4, <1>5

LEMMA NextInv == IInv /\ [Next]_vars => IInv'
<1> SUFFICES ASSUME IInv, [Next]_vars PROVE IInv'
  OBVIOUS
<1> USE ParameterAssumption DEF ParameterAssumption, IInv, sinkVars, blobVars
<1>1. ASSUME NEW valid \in BOOLEAN, Consume(valid) PROVE IInv'
  BY <1>1 DEF Consume, TypeOK, CallInv, WorkingInv, PublishInv, AbortInv, Working, Promises,
     NoPartialObject, FinishCommits, WriterReleased, Ended, Stream
<1>2. ASSUME NEW ok \in BOOLEAN, OpenOnWriter(ok) PROVE IInv'
  <2>1. TypeOK'
    <3>1. Flags'
      BY <1>2, Zenon DEF OpenOnWriter, AfterOpen, AfterError, TypeOK, Flags
    <3>2. Data'
      BY <1>2 DEF OpenOnWriter, AfterOpen, AfterError, TypeOK, Data, CallInv, WorkingInv, Working, Stream
    <3> QED BY <3>1, <3>2 DEF TypeOK, Flags, Data
  <2>2. CallInv'
    BY <1>2 DEF OpenOnWriter, AfterOpen, AfterError, TypeOK, CallInv
  <2>3. WorkingInv' /\ PublishInv' /\ AbortInv'
    BY <1>2 DEF OpenOnWriter, AfterOpen, AfterError, TypeOK, CallInv, WorkingInv, PublishInv, AbortInv, Working
  <2>4. Promises'
    BY <1>2 DEF OpenOnWriter, AfterOpen, AfterError, TypeOK, CallInv, WorkingInv, PublishInv, AbortInv, Working, Promises, NoPartialObject, FinishCommits,
       WriterReleased, Ended
  <2> QED BY <2>1, <2>2, <2>3, <2>4
<1>3. ASSUME NEW ok \in BOOLEAN, NewBlobWriter(ok) PROVE IInv'
  BY <1>3 DEF NewBlobWriter, AfterError, TypeOK, CallInv, WorkingInv, PublishInv, AbortInv, Working, Promises,
     NoPartialObject, FinishCommits, WriterReleased, Ended, Stream
<1>4. ASSUME NEW ok \in BOOLEAN, NewFormatWriter(ok) PROVE IInv'
  <2>1. /\ pc = "newFormat"
        /\ UNCHANGED <<conf, call, ctxDone, aborted, opens, stream, accepted>>
        /\ object' \in GivenUp \cup {object}
    BY <1>4 DEF NewFormatWriter
  <2> object' \in Stream \cup {NoObject} /\ (conf.discards => object' = object)
    BY <2>1, GivenUpFacts DEF TypeOK
  <2>2. CASE ok
    <3>1. /\ started' /\ hasWriter' /\ ~cancelled' /\ closes' = closes /\ pc' = AfterOpen
          /\ object' = object
      BY <1>4, <2>2, Zenon DEF NewFormatWriter
    <3>2. Flags'
      BY <1>4, <2>1, Zenon DEF NewFormatWriter, TypeOK, Flags
    <3>3. Data'
      BY <2>1, <3>1 DEF AfterOpen, TypeOK, Data
    <3>4. CallInv' /\ WorkingInv' /\ PublishInv' /\ AbortInv'
      BY <2>1, <3>1 DEF AfterOpen, TypeOK, CallInv, WorkingInv, PublishInv, AbortInv, Working
    <3>5. Promises'
      BY <2>1, <3>1 DEF AfterOpen, TypeOK, WorkingInv, Working, Promises, NoPartialObject,
         FinishCommits, WriterReleased, Ended
    <3> QED BY <3>2, <3>3, <3>4, <3>5 DEF TypeOK, Flags, Data
  <2>3. CASE ~ok
    <3>1. ~started' /\ ~hasWriter' /\ cancelled' /\ closes' = closes + 1 /\ pc' = AfterError
      BY <1>4, <2>3, Zenon DEF NewFormatWriter
    <3>2. Flags'
      BY <1>4, <2>1, Zenon DEF NewFormatWriter, TypeOK, Flags
    <3>3. Data'
      BY <2>1, <3>1 DEF AfterError, TypeOK, Data
    <3>4. CallInv' /\ WorkingInv' /\ PublishInv' /\ AbortInv'
      BY <2>1, <3>1 DEF AfterError, TypeOK, CallInv, WorkingInv, PublishInv, AbortInv, Working
    <3>5. Promises'
      BY <2>1, <3>1 DEF AfterError, TypeOK, WorkingInv, Working, Promises, NoPartialObject,
         FinishCommits, WriterReleased, Ended
    <3> QED BY <3>2, <3>3, <3>4, <3>5 DEF TypeOK, Flags, Data
  <2> QED BY <2>2, <2>3
<1>5. ASSUME NEW ok \in BOOLEAN, Write(ok) PROVE IInv'
  <2>1. CASE ok
    <3>1. TypeOK'
      <4>1. Flags'
        BY <1>5, <2>1, Zenon DEF Write, TypeOK, Flags
      <4>2. Data'
        BY <1>5, <2>1 DEF Write, TypeOK, Data, CallInv, WorkingInv, Working, Stream
      <4> QED BY <4>1, <4>2 DEF TypeOK, Flags, Data
    <3>2. CallInv' /\ WorkingInv' /\ PublishInv' /\ AbortInv'
      BY <1>5, <2>1 DEF Write, TypeOK, CallInv, WorkingInv, PublishInv, AbortInv, Working
    <3>3. Promises'
      BY <1>5, <2>1 DEF Write, TypeOK, CallInv, WorkingInv, Working, Promises, NoPartialObject,
         FinishCommits, WriterReleased, Ended
    <3> QED BY <3>1, <3>2, <3>3
  <2>2. CASE ~ok
    <3>1. /\ pc = "write" /\ pc' = "abort" /\ AbortWriter
          /\ stream' = [stream EXCEPT !.ends = "torn"]
          /\ UNCHANGED <<conf, call, ctxDone, started, hasWriter, opens, accepted>>
      BY <1>5, <2>2 DEF Write
    <3> QED BY <3>1, AbortWriterStep
  <2> QED BY <2>1, <2>2
<1>6. ASSUME NEW ok \in BOOLEAN, CloseFormat(ok) PROVE IInv'
  <2>1. CASE ok
    <3>1. TypeOK'
      <4>1. Flags'
        BY <1>6, <2>1, Zenon DEF CloseFormat, TypeOK, Flags
      <4>2. Data'
        BY <1>6, <2>1 DEF CloseFormat, TypeOK, Data, Stream
      <4> QED BY <4>1, <4>2 DEF TypeOK, Flags, Data
    <3>2. CallInv' /\ WorkingInv' /\ PublishInv' /\ AbortInv'
      BY <1>6, <2>1 DEF CloseFormat, TypeOK, CallInv, WorkingInv, PublishInv, AbortInv, Working
    <3>3. Promises'
      BY <1>6, <2>1 DEF CloseFormat, TypeOK, CallInv, WorkingInv, Working, Promises, NoPartialObject,
         FinishCommits, WriterReleased, Ended
    <3> QED BY <3>1, <3>2, <3>3
  <2>2. CASE ~ok
    <3>1. /\ pc = "closeFormat" /\ pc' = "failed" /\ AbortWriter
          /\ stream' = [stream EXCEPT !.ends = "torn"]
          /\ UNCHANGED <<conf, call, ctxDone, started, hasWriter, opens, accepted>>
      BY <1>6, <2>2 DEF CloseFormat
    <3> QED BY <3>1, AbortWriterStep
  <2> QED BY <2>1, <2>2
<1>7. ASSUME Commit PROVE IInv'
  <2>1. /\ pc = "commit" /\ closes' = closes + 1 /\ object' \in GivenUp \cup {object}
        /\ pc' \in {"failed", "publish"} /\ (pc' = "publish" => object' = object)
        /\ UNCHANGED <<conf, call, ctxDone, sinkVars, opens, stream, accepted>>
    BY <1>7 DEF Commit
  <2>2. (pc' = "failed" => cancelled') /\ cancelled' \in BOOLEAN
    BY <1>7, Zenon DEF Commit, TypeOK
  <2>3. /\ opens = 1 /\ closes = 0 /\ object = NoObject
        /\ stream = [batches |-> accepted, ends |-> "footer"]
    BY <2>1 DEF WorkingInv, Working
  <2>4. /\ object' \in Stream \cup {NoObject}
        /\ conf.discards => object' = NoObject
    BY <2>1, <2>3, GivenUpFacts
  <2>5. TypeOK'
    BY <2>1, <2>2, <2>4 DEF TypeOK
  <2>6. CallInv' /\ WorkingInv' /\ PublishInv' /\ AbortInv'
    BY <2>1, <2>3 DEF CallInv, WorkingInv, PublishInv, AbortInv, Working
  <2>7. Promises'
    BY <2>1, <2>2, <2>3, <2>4 DEF Promises, NoPartialObject, FinishCommits, WriterReleased, Ended
  <2> QED BY <2>5, <2>6, <2>7
<1>8. ASSUME NEW ok \in BOOLEAN, Publish(ok) PROVE IInv'
  <2>1. /\ pc = "publish" /\ object' \in {stream} \cup GivenUp
        /\ pc' = IF ok THEN "finished" ELSE "failed"
        /\ ok => object' = stream
        /\ UNCHANGED <<conf, call, ctxDone, sinkVars, opens, closes, stream, accepted>>
    BY <1>8 DEF Publish
  <2>2. (~ok => cancelled') /\ cancelled' \in BOOLEAN
    BY <1>8, Zenon DEF Publish, TypeOK
  <2>3. /\ opens = 1 /\ closes = 1 /\ object = NoObject
        /\ stream = [batches |-> accepted, ends |-> "footer"]
        /\ accepted > 0 \/ conf.explicitSchema
    BY <2>1 DEF PublishInv, CallInv
  <2>4. /\ object' \in Stream \cup {NoObject}
        /\ conf.discards => object' \in {stream, NoObject}
    BY <2>1, <2>3, GivenUpFacts DEF TypeOK
  <2>5. TypeOK'
    BY <2>1, <2>2, <2>4 DEF TypeOK
  <2>6. CallInv' /\ WorkingInv' /\ PublishInv' /\ AbortInv'
    BY <2>1 DEF CallInv, WorkingInv, PublishInv, AbortInv, Working
  <2>7. Promises'
    <3>1. CASE ok
      BY <2>1, <2>3, <3>1 DEF TypeOK, Promises, NoPartialObject, FinishCommits,
         WriterReleased, Ended
    <3>2. CASE ~ok
      BY <2>1, <2>2, <2>3, <2>4, <3>2 DEF Promises, NoPartialObject, FinishCommits,
         WriterReleased, Ended
    <3> QED BY <3>1, <3>2
  <2> QED BY <2>5, <2>6, <2>7
<1>9. ASSUME EndOfInput PROVE IInv'
  BY <1>9 DEF EndOfInput, TypeOK, CallInv, WorkingInv, PublishInv, AbortInv, Working, Promises,
     NoPartialObject, FinishCommits, WriterReleased, Ended, Stream
<1>10. ASSUME Finish PROVE IInv'
  <2>1. TypeOK'
    <3>1. Flags'
      BY <1>10, Zenon DEF Finish, TypeOK, Flags
    <3>2. Data'
      BY <1>10 DEF Finish, TypeOK, Data, CallInv, WorkingInv, Working, Stream
    <3> QED BY <3>1, <3>2 DEF TypeOK, Flags, Data
  <2>2. CallInv'
    BY <1>10 DEF Finish, TypeOK, CallInv
  <2>3. WorkingInv' /\ PublishInv' /\ AbortInv'
    BY <1>10 DEF Finish, TypeOK, CallInv, WorkingInv, PublishInv, AbortInv, Working
  <2>4. Promises'
    <3>1. pc = "finish" /\ UNCHANGED <<conf, sinkVars, blobVars, stream, accepted>>
      BY <1>10 DEF Finish
    <3>2. pc' = "finished" => ~started /\ ~conf.explicitSchema
      BY <1>10 DEF Finish
    <3>3. pc' \in {"failed", "closeFormat", "open", "finished"}
      BY <1>10 DEF Finish
    <3>4. pc' = "failed" => conf.constructErr
      BY <1>10 DEF Finish
    <3> QED
      BY <3>1, <3>2, <3>3, <3>4 DEF TypeOK, CallInv, WorkingInv, Working, Promises, NoPartialObject,
         FinishCommits, WriterReleased, Ended
  <2> QED BY <2>1, <2>2, <2>3, <2>4
<1>11. ASSUME Abort PROVE IInv'
  <2>1. /\ pc = "abort" /\ pc' = "aborted" /\ AbortWriter
        /\ UNCHANGED <<conf, call, ctxDone, started, hasWriter, opens, stream, accepted>>
    BY <1>11 DEF Abort
  <2> QED BY <2>1, AbortWriterStep
<1>12. ASSUME CancelRun PROVE IInv'
  BY <1>12 DEF CancelRun, TypeOK, CallInv, WorkingInv, PublishInv, AbortInv, Working, Promises,
     NoPartialObject, FinishCommits, WriterReleased, Ended, Stream
<1>13. CASE UNCHANGED vars
  BY <1>13 DEF vars, TypeOK, CallInv, WorkingInv, PublishInv, AbortInv, Working, Promises,
     NoPartialObject, FinishCommits, WriterReleased, Ended
<1> QED
  BY <1>1, <1>2, <1>3, <1>4, <1>5, <1>6, <1>7, <1>8, <1>9, <1>10, <1>11, <1>12, <1>13 DEF Next, Terminated

LEMMA Invariance == Spec => []IInv
BY InitInv, NextInv, PTL DEF Spec

\* The variables of the sink stay in their domains.
THEOREM TypeCorrect == Spec => []TypeOK
<1>1. IInv => TypeOK
  BY DEF IInv
<1> QED BY <1>1, Invariance, PTL

\* A stream without its footer is never published, whatever fails and whenever the
\* run is cancelled: its writer is cancelled before it is closed, and what is stored
\* is whole, save for what a backend leaves of a write given up (sink.go 270-285).
THEOREM StoredWhole == Spec => []NoPartialObject
<1>1. IInv => NoPartialObject
  BY DEF IInv, Promises
<1> QED BY <1>1, Invariance, PTL

\* A Finish that returns nil has left a complete destination.
THEOREM FinishIsFinal == Spec => []FinishCommits
<1>1. IInv => FinishCommits
  BY DEF IInv, Promises
<1> QED BY <1>1, Invariance, PTL

\* The blob writer is closed exactly once, and cancelled unless committed.
THEOREM WriterIsReleased == Spec => []WriterReleased
<1>1. IInv => WriterReleased
  BY DEF IInv, Promises
<1> QED BY <1>1, Invariance, PTL

\* After a cancellation only a Close that had looked at the context before publishes
\* (sink.go 194-200, 203-209).
THEOREM NothingBegunAfterCancel == Spec => CancelledRunBeginsNoPublication
<1>1. ASSUME TypeOK, Next, ctxDone, pc' = "publish" PROVE pc = "publish"
  BY <1>1 DEF Next, Consume, OpenOnWriter, NewBlobWriter, NewFormatWriter, Write, CloseFormat,
     Publish, EndOfInput, Finish, Commit, Abort, CancelRun, Terminated, AfterError, AfterOpen,
     WriteCtxDone, vars
<1>2. ASSUME TypeOK, Next, object' # object, conf.discards PROVE pc = "publish"
  <2>1. GivenUp = {object}
    BY <1>2, GivenUpFacts
  <2> QED
    BY <1>2, <2>1 DEF Next, Consume, OpenOnWriter, NewBlobWriter, NewFormatWriter, Write, CloseFormat,
       Publish, EndOfInput, Finish, Commit, Abort, CancelRun, Terminated, AbortWriter, vars, blobVars
<1>3. TypeOK /\ [Next]_vars =>
        [ctxDone => /\ pc' = "publish" => pc = "publish"
                    /\ object' # object /\ conf.discards => pc = "publish"]_vars
  BY <1>1, <1>2 DEF vars
<1> QED BY <1>3, TypeCorrect, PTL DEF Spec, CancelledRunBeginsNoPublication
=============================================================================
