-------------------------- MODULE SqlQueriesProofs --------------------------
(***************************************************************************)
(* Theorems about SqlQueries for any number of rows, batch size, pools and *)
(* room between the stages.                                                *)
(***************************************************************************)
EXTENDS SqlQueries, TLAPS

RowRange == Nat \X Nat

\* Every variable the invariant speaks of stays in its domain.
TypeInv ==
  /\ conf \in Configs
  /\ pc \in [Stage -> {"query", "scan", "send", "recv", "done"}]
  /\ total \in [Stage -> Nat]
  /\ builder \in [Stage -> RowRange]
  /\ last \in [Stage -> BOOLEAN]
  /\ sent \in [Stage -> Seq(RowRange)]

\* The batches sent are full ones in order, and the last may be shorter.
SentOK(s) ==
  \A i \in 1 .. Len(sent[s]) :
    /\ sent[s][i][1] = (i - 1) * BatchSize
    /\ sent[s][i][2] = IF i * BatchSize < total[s] THEN i * BatchSize ELSE total[s]

\* While the rows are open the builders go on where the batches end.
ScanOK(s) ==
  pc[s] \in {"scan", "send"} =>
    /\ builder[s][1] = Len(sent[s]) * BatchSize
    /\ builder[s][1] <= builder[s][2] /\ builder[s][2] <= total[s]
    /\ pc[s] = "scan" => ~last[s] /\ builder[s][2] - builder[s][1] < BatchSize
    /\ pc[s] = "send" =>
         IF last[s] THEN builder[s][2] = total[s] /\ builder[s][2] - builder[s][1] < BatchSize
                    ELSE builder[s][2] - builder[s][1] = BatchSize

\* A stage that returned nil has sent every row.
DoneOK(s) ==
  pc[s] \in {"recv", "done"} /\ s \notin failed => Len(sent[s]) * BatchSize >= total[s]

StageOK(s) ==
  /\ SentOK(s) /\ ScanOK(s) /\ DoneOK(s)
  /\ s \in conn <=> pc[s] \in {"scan", "send"}

QueryInv == TypeInv /\ \A s \in Stage : StageOK(s)

----------------------------------------------------------------------------
LEMMA AppendFacts ==
  ASSUME NEW s \in Seq(RowRange), NEW e \in RowRange
  PROVE  /\ Append(s, e) \in Seq(RowRange) /\ Len(Append(s, e)) = Len(s) + 1 /\ Len(s) \in Nat
         /\ Append(s, e)[Len(s) + 1] = e
         /\ \A i \in 1 .. Len(s) : Append(s, e)[i] = s[i]
OBVIOUS

LEMMA QueryInvInit == Init => QueryInv
<1> SUFFICES ASSUME Init PROVE QueryInv
  OBVIOUS
<1>1. TypeInv
  BY DEF Init, TypeInv, RowRange
<1>2. ASSUME NEW s \in Stage PROVE StageOK(s)
  <2>1. /\ sent[s] = <<>> /\ total[s] = 0 /\ pc[s] \in {"query", "recv"} /\ conn = {}
    BY DEF Init
  <2>2. Len(sent[s]) * BatchSize = 0 /\ Len(sent[s]) = 0
    BY <2>1, ParameterAssumption
  <2> QED BY <2>1, <2>2 DEF StageOK, SentOK, ScanOK, DoneOK
<1> QED BY <1>1, <1>2 DEF QueryInv

\* What ReturnNil and ReturnError change of the stages.
LEMMA ReturnFacts ==
  ASSUME TypeInv, NEW s \in Stage, ReturnNil(s) \/ ReturnError(s)
  PROVE  /\ pc' \in [Stage -> {"query", "scan", "send", "recv", "done"}]
         /\ pc'[s] \in {"recv", "done"} /\ conn' = conn \ {s}
         /\ \A t \in Stage : t # s => pc'[t] = pc[t]
         /\ ReturnError(s) => failed' = failed \cup {s}
         /\ ReturnNil(s) => failed' = failed
BY DEF TypeInv, ReturnNil, ReturnError, CloseRows

\* A stage keeps its part of the invariant while the other one moves.
LEMMA OtherStage ==
  ASSUME NEW t \in Stage, StageOK(t), pc'[t] = pc[t], total'[t] = total[t],
         builder'[t] = builder[t], last'[t] = last[t], sent'[t] = sent[t],
         t \in failed' <=> t \in failed, t \in conn' <=> t \in conn
  PROVE  StageOK(t)'
BY DEF StageOK, SentOK, ScanOK, DoneOK

\* An error: what was sent stays sent, and the stage counts as failed.
LEMMA ErrorStep ==
  ASSUME QueryInv, NEW s \in Stage, ReturnError(s), UNCHANGED <<conf, scanVars>>
  PROVE  QueryInv'
<1>1. /\ pc' \in [Stage -> {"query", "scan", "send", "recv", "done"}]
      /\ pc'[s] \in {"recv", "done"} /\ conn' = conn \ {s}
      /\ \A t \in Stage : t # s => pc'[t] = pc[t]
      /\ failed' = failed \cup {s}
  BY ReturnFacts DEF QueryInv
<1>2. UNCHANGED <<conf, total, builder, last, sent>>
  BY DEF scanVars
<1>3. TypeInv'
  BY <1>1, <1>2 DEF QueryInv, TypeInv
<1>4. StageOK(s)'
  BY <1>1, <1>2 DEF QueryInv, StageOK, SentOK, ScanOK, DoneOK
<1>5. ASSUME NEW t \in Stage, t # s PROVE StageOK(t)'
  BY <1>1, <1>2, <1>5, OtherStage DEF QueryInv
<1> QED BY <1>3, <1>4, <1>5 DEF QueryInv

LEMMA QueryStep ==
  ASSUME QueryInv, NEW s \in Stage, NEW n \in 0 .. MaxRows, Query(s, n) PROVE QueryInv'
<1>1. /\ conn' = conn \cup {s}
      /\ total' = [total EXCEPT ![s] = n] /\ builder' = [builder EXCEPT ![s] = <<0, 0>>]
      /\ last' = [last EXCEPT ![s] = FALSE] /\ sent' = [sent EXCEPT ![s] = <<>>]
      /\ pc' = [pc EXCEPT ![s] = "scan"] /\ UNCHANGED <<conf, failed>>
  BY DEF Query
<1>2. n \in Nat /\ <<0, 0>> \in RowRange /\ <<>> \in Seq(RowRange) /\ BatchSize \in Nat \ {0}
  BY ParameterAssumption DEF RowRange
<1>3. TypeInv'
  BY <1>1, <1>2 DEF QueryInv, TypeInv
<1>4. /\ pc'[s] = "scan" /\ total'[s] = n /\ builder'[s] = <<0, 0>> /\ ~last'[s]
      /\ sent'[s] = <<>> /\ s \in conn'
  BY <1>1 DEF QueryInv, TypeInv
<1>5. Len(sent'[s]) * BatchSize = 0 /\ Len(sent'[s]) = 0
  BY <1>2, <1>4
<1>6. StageOK(s)'
  BY <1>2, <1>4, <1>5 DEF StageOK, SentOK, ScanOK, DoneOK
<1>7. ASSUME NEW t \in Stage, t # s PROVE StageOK(t)'
  <2>1. /\ pc'[t] = pc[t] /\ total'[t] = total[t] /\ builder'[t] = builder[t]
        /\ last'[t] = last[t] /\ sent'[t] = sent[t] /\ (t \in conn' <=> t \in conn)
    BY <1>1, <1>7 DEF QueryInv, TypeInv
  <2> QED BY <1>1, <2>1, OtherStage DEF QueryInv
<1> QED BY <1>3, <1>6, <1>7 DEF QueryInv

LEMMA NextRowStep == ASSUME QueryInv, NEW s \in Stage, NextRow(s) PROVE QueryInv'
<1> DEFINE b == builder[s]
<1>1. /\ pc[s] = "scan" /\ b[2] < total[s]
      /\ builder' = [builder EXCEPT ![s] = [b EXCEPT ![2] = b[2] + 1]]
      /\ pc' = [pc EXCEPT ![s] = IF RowCount(s) + 1 = BatchSize THEN "send" ELSE "scan"]
      /\ UNCHANGED <<conf, total, last, sent, conn, failed>>
  BY DEF NextRow
<1>2. /\ b \in RowRange /\ b = <<b[1], b[2]>> /\ b[1] \in Nat /\ b[2] \in Nat
      /\ total[s] \in Nat /\ BatchSize \in Nat
  BY ParameterAssumption DEF QueryInv, TypeInv, RowRange
<1>3. [b EXCEPT ![2] = b[2] + 1] = <<b[1], b[2] + 1>>
  BY <1>2
<1> HIDE DEF b
<1>4. /\ builder' \in [Stage -> RowRange] /\ builder'[s] = <<b[1], b[2] + 1>>
      /\ \A t \in Stage : t # s => builder'[t] = builder[t]
  BY <1>1, <1>2, <1>3 DEF QueryInv, TypeInv, RowRange
<1>5. /\ pc' \in [Stage -> {"query", "scan", "send", "recv", "done"}]
      /\ pc'[s] = IF RowCount(s) + 1 = BatchSize THEN "send" ELSE "scan"
      /\ \A t \in Stage : t # s => pc'[t] = pc[t]
  BY <1>1 DEF QueryInv, TypeInv
<1>6. TypeInv'
  BY <1>1, <1>4, <1>5 DEF QueryInv, TypeInv
<1>7. /\ RowCount(s) = b[2] - b[1]
      /\ b[1] = Len(sent[s]) * BatchSize /\ b[1] <= b[2] /\ ~last[s]
      /\ b[2] - b[1] < BatchSize /\ SentOK(s) /\ s \in conn
  BY <1>1 DEF QueryInv, StageOK, ScanOK, RowCount, b
<1>8. StageOK(s)'
  <2>1. SentOK(s)' /\ DoneOK(s)' /\ (s \in conn' <=> pc'[s] \in {"scan", "send"})
    BY <1>1, <1>5, <1>7 DEF SentOK, DoneOK
  <2>2. /\ builder'[s][1] = b[1] /\ builder'[s][2] = b[2] + 1
        /\ b[2] + 1 <= total[s] /\ b[1] <= b[2] + 1
    BY <1>1, <1>2, <1>4, <1>7 DEF b
  <2>3. IF pc'[s] = "send" THEN b[2] + 1 - b[1] = BatchSize
                           ELSE pc'[s] = "scan" /\ b[2] + 1 - b[1] < BatchSize
    BY <1>2, <1>5, <1>7, SMTT(30)
  <2>4. /\ builder'[s][1] = Len(sent'[s]) * BatchSize /\ total' = total
        /\ ~last'[s]
    BY <1>1, <1>7, <2>2
  <2>5. /\ builder'[s][1] <= builder'[s][2] /\ builder'[s][2] <= total'[s]
        /\ pc'[s] = "scan" => builder'[s][2] - builder'[s][1] < BatchSize
        /\ pc'[s] = "send" => builder'[s][2] - builder'[s][1] = BatchSize
    <3>1. total' = total
      BY <2>4
    <3>2. /\ pc'[s] = "scan" => b[2] + 1 - b[1] < BatchSize
          /\ pc'[s] = "send" => b[2] + 1 - b[1] = BatchSize
      BY <2>3
    <3> QED BY <1>2, <2>2, <3>1, <3>2
  <2>6. ScanOK(s)'
    BY <2>4, <2>5 DEF ScanOK
  <2> QED BY <2>1, <2>6 DEF StageOK
<1>9. ASSUME NEW t \in Stage, t # s PROVE StageOK(t)'
  BY <1>1, <1>4, <1>5, <1>9, OtherStage DEF QueryInv
<1> QED BY <1>6, <1>8, <1>9 DEF QueryInv

LEMMA RowsEndStep == ASSUME QueryInv, NEW s \in Stage, RowsEnd(s) PROVE QueryInv'
<1>1. /\ pc[s] = "scan" /\ builder[s][2] = total[s]
      /\ UNCHANGED <<conf, total, builder, sent>>
  BY DEF RowsEnd
<1>2. /\ builder[s][1] = Len(sent[s]) * BatchSize /\ builder[s][1] <= builder[s][2]
      /\ builder[s][2] - builder[s][1] < BatchSize
      /\ SentOK(s) /\ s \in conn
  BY <1>1 DEF QueryInv, StageOK, ScanOK
<1>3. builder[s][1] \in Nat /\ builder[s][2] \in Nat /\ total[s] \in Nat
  BY DEF QueryInv, TypeInv, RowRange
<1>4. CASE RowCount(s) = 0
  <2>1. ReturnNil(s) /\ UNCHANGED last
    BY <1>4 DEF RowsEnd
  <2>2. /\ pc' \in [Stage -> {"query", "scan", "send", "recv", "done"}]
        /\ pc'[s] \in {"recv", "done"} /\ conn' = conn \ {s}
        /\ \A t \in Stage : t # s => pc'[t] = pc[t]
        /\ failed' = failed
    BY <2>1, ReturnFacts DEF QueryInv
  <2>3. TypeInv'
    BY <1>1, <2>1, <2>2 DEF QueryInv, TypeInv
  <2>4. Len(sent[s]) * BatchSize >= total[s]
    BY <1>1, <1>2, <1>3, <1>4 DEF RowCount
  <2>5. StageOK(s)'
    BY <1>1, <1>2, <2>2, <2>4 DEF StageOK, SentOK, ScanOK, DoneOK
  <2>6. ASSUME NEW t \in Stage, t # s PROVE StageOK(t)'
    BY <1>1, <2>1, <2>2, <2>6, OtherStage DEF QueryInv
  <2> QED BY <2>3, <2>5, <2>6 DEF QueryInv
<1>5. CASE RowCount(s) # 0
  <2>1. /\ pc' = [pc EXCEPT ![s] = "send"] /\ last' = [last EXCEPT ![s] = TRUE]
        /\ UNCHANGED <<conn, failed>>
    BY <1>5 DEF RowsEnd
  <2>2. /\ TypeInv' /\ pc'[s] = "send" /\ last'[s]
        /\ \A t \in Stage : t # s => pc'[t] = pc[t] /\ last'[t] = last[t]
    BY <1>1, <2>1 DEF QueryInv, TypeInv
  <2>3. StageOK(s)'
    BY <1>1, <1>2, <1>3, <2>1, <2>2 DEF StageOK, SentOK, ScanOK, DoneOK
  <2>4. ASSUME NEW t \in Stage, t # s PROVE StageOK(t)'
    BY <1>1, <2>1, <2>2, <2>4, OtherStage DEF QueryInv
  <2> QED BY <2>2, <2>3, <2>4 DEF QueryInv
<1> QED BY <1>4, <1>5

LEMMA SendStep == ASSUME QueryInv, NEW s \in Stage, SendBatch(s) PROVE QueryInv'
<1> DEFINE b == builder[s]
           k == Len(sent[s])
<1>1. /\ pc[s] = "send" /\ sent' = [sent EXCEPT ![s] = Append(sent[s], b)]
      /\ builder' = [builder EXCEPT ![s] = [b EXCEPT ![1] = b[2]]]
      /\ UNCHANGED <<conf, total, last>>
      /\ IF last[s] THEN ReturnNil(s)
         ELSE pc' = [pc EXCEPT ![s] = "scan"] /\ UNCHANGED <<conn, failed>>
  BY DEF SendBatch
<1>2. /\ b[1] = k * BatchSize /\ b[1] <= b[2] /\ b[2] <= total[s]
      /\ IF last[s] THEN b[2] = total[s] /\ b[2] - b[1] < BatchSize
                    ELSE b[2] - b[1] = BatchSize
      /\ SentOK(s) /\ s \in conn
  BY <1>1 DEF QueryInv, StageOK, ScanOK
<1>3. /\ b \in RowRange /\ b[1] \in Nat /\ b[2] \in Nat /\ total[s] \in Nat
      /\ BatchSize \in Nat \ {0} /\ sent[s] \in Seq(RowRange)
  BY ParameterAssumption DEF QueryInv, TypeInv, RowRange
<1>4. [b EXCEPT ![1] = b[2]] = <<b[2], b[2]>>
  BY <1>3 DEF RowRange
<1>5. /\ Append(sent[s], b) \in Seq(RowRange) /\ Len(Append(sent[s], b)) = k + 1 /\ k \in Nat
      /\ Append(sent[s], b)[k + 1] = b
      /\ \A i \in 1 .. k : Append(sent[s], b)[i] = sent[s][i]
  BY <1>3, AppendFacts
<1> HIDE DEF b, k
<1>6. /\ sent' \in [Stage -> Seq(RowRange)] /\ sent'[s] = Append(sent[s], b)
      /\ \A t \in Stage : t # s => sent'[t] = sent[t]
  BY <1>1, <1>5 DEF QueryInv, TypeInv
<1>7. /\ builder' \in [Stage -> RowRange] /\ builder'[s] = <<b[2], b[2]>>
      /\ \A t \in Stage : t # s => builder'[t] = builder[t]
  BY <1>1, <1>3, <1>4 DEF QueryInv, TypeInv, RowRange
<1>8. (k + 1) * BatchSize = k * BatchSize + BatchSize /\ (k + 1) - 1 = k
  BY <1>3, <1>5
<1>9. SentOK(s)'
  <2>1. ASSUME NEW i \in 1 .. (k + 1)
        PROVE  /\ sent'[s][i][1] = (i - 1) * BatchSize
               /\ sent'[s][i][2] = IF i * BatchSize < total[s] THEN i * BatchSize ELSE total[s]
    <3>1. CASE i \in 1 .. k
      <4>1. sent'[s][i] = sent[s][i]
        BY <1>5, <1>6, <3>1
      <4> QED BY <1>2, <3>1, <4>1 DEF SentOK, k
    <3>2. CASE i = k + 1
      <4>1. sent'[s][i] = b
        BY <1>5, <1>6, <3>2
      <4>2. b[1] = (i - 1) * BatchSize
        BY <1>2, <1>8, <3>2
      <4>3. i * BatchSize = b[1] + BatchSize
        BY <1>2, <1>8, <3>2
      <4>4. b[2] = IF b[1] + BatchSize < total[s] THEN b[1] + BatchSize ELSE total[s]
        BY <1>2, <1>3
      <4> QED BY <4>1, <4>2, <4>3, <4>4
    <3> QED BY <1>5, <3>1, <3>2
  <2>2. Len(sent'[s]) = k + 1 /\ total' = total
    BY <1>1, <1>5, <1>6
  <2> QED BY <2>1, <2>2 DEF SentOK
<1>10. /\ pc' \in [Stage -> {"query", "scan", "send", "recv", "done"}]
       /\ IF last[s] THEN pc'[s] \in {"recv", "done"} /\ conn' = conn \ {s}
                     ELSE pc'[s] = "scan" /\ conn' = conn
       /\ \A t \in Stage : t # s => pc'[t] = pc[t]
       /\ failed' = failed
  <2>1. CASE last[s]
    BY <1>1, <2>1, ReturnFacts DEF QueryInv
  <2>2. CASE ~last[s]
    BY <1>1, <2>2 DEF QueryInv, TypeInv
  <2> QED BY <2>1, <2>2
<1>11. TypeInv'
  BY <1>1, <1>6, <1>7, <1>10 DEF QueryInv, TypeInv
<1>12. StageOK(s)'
  <2>1. Len(sent'[s]) * BatchSize = k * BatchSize + BatchSize
    BY <1>5, <1>6, <1>8
  <2>2. DoneOK(s)'
    <3>1. last[s] => k * BatchSize + BatchSize >= total[s]
      BY <1>2, <1>3
    <3> QED BY <1>1, <1>10, <2>1, <3>1 DEF DoneOK
  <2>3. ScanOK(s)'
    <3>1. ~last[s] => b[2] = k * BatchSize + BatchSize
      BY <1>2, <1>3
    <3>2. builder'[s][1] = b[2] /\ builder'[s][2] = b[2] /\ b[2] - b[2] < BatchSize
      BY <1>3, <1>7
    <3>3. SUFFICES ASSUME pc'[s] \in {"scan", "send"} PROVE ScanOK(s)'
      BY DEF ScanOK
    <3>4. pc'[s] = "scan" /\ ~last'[s] /\ total'[s] = total[s]
      BY <1>1, <1>10, <3>3
    <3>5. builder'[s][1] = Len(sent'[s]) * BatchSize
      BY <1>1, <2>1, <3>1, <3>2, <3>4
    <3>6. builder'[s][1] <= builder'[s][2] /\ builder'[s][2] <= total'[s]
      BY <1>2, <1>3, <3>2, <3>4
    <3> QED BY <3>2, <3>4, <3>5, <3>6 DEF ScanOK
  <2>4. s \in conn' <=> pc'[s] \in {"scan", "send"}
    BY <1>2, <1>10
  <2> QED BY <1>9, <2>2, <2>3, <2>4 DEF StageOK
<1>13. ASSUME NEW t \in Stage, t # s PROVE StageOK(t)'
  <2>1. t \in conn' <=> t \in conn
    BY <1>10, <1>13
  <2> QED BY <1>1, <1>6, <1>7, <1>10, <1>13, <2>1, OtherStage DEF QueryInv
<1> QED BY <1>11, <1>12, <1>13 DEF QueryInv

\* The lookup's stage moves between batches.
LEMMA LookupStep ==
  ASSUME QueryInv, (\E skip \in BOOLEAN : Process(skip)) \/ EndOfInput PROVE QueryInv'
<1>1. "lookup" \in Stage /\ "source" \in Stage /\ \A t \in Stage : t # "lookup" => t = "source"
  BY DEF Stage
<1>2. /\ pc["lookup"] = "recv" /\ UNCHANGED <<conf, total, builder, last, sent, conn, failed>>
      /\ \E at \in {"recv", "query", "done"} :
           /\ pc' = [pc EXCEPT !["lookup"] = at]
           /\ at = "recv" \/ at = "query" \/ at = "done"
  BY DEF Process, EndOfInput, scanVars
<1>3. PICK at \in {"recv", "query", "done"} : pc' = [pc EXCEPT !["lookup"] = at]
  BY <1>2
<1>4. /\ TypeInv' /\ pc'["lookup"] = at /\ pc'["source"] = pc["source"]
  BY <1>1, <1>2, <1>3 DEF QueryInv, TypeInv
<1>5. StageOK("lookup")'
  BY <1>1, <1>2, <1>4 DEF QueryInv, StageOK, SentOK, ScanOK, DoneOK
<1>6. StageOK("source")'
  BY <1>1, <1>2, <1>4, OtherStage DEF QueryInv
<1> QED BY <1>1, <1>4, <1>5, <1>6 DEF QueryInv

\* QueryInv is an invariant of the specification.
THEOREM QueryInvariant == Spec => []QueryInv
<1>1. QueryInv /\ [Next]_vars => QueryInv'
  <2> SUFFICES ASSUME QueryInv, [Next]_vars PROVE QueryInv'
    OBVIOUS
  <2>1. ASSUME NEW s \in Stage, NEW n \in 0 .. MaxRows, Query(s, n) PROVE QueryInv'
    BY <2>1, QueryStep
  <2>2. ASSUME NEW s \in Stage, QueryFails(s) \/ ScanFails(s) \/ SendCancelled(s)
        PROVE  QueryInv'
    BY <2>2, ErrorStep DEF QueryFails, ScanFails, SendCancelled
  <2>3. ASSUME NEW s \in Stage, NextRow(s) PROVE QueryInv'
    BY <2>3, NextRowStep
  <2>4. ASSUME NEW s \in Stage, RowsEnd(s) PROVE QueryInv'
    BY <2>4, RowsEndStep
  <2>5. ASSUME NEW s \in Stage, SendBatch(s) PROVE QueryInv'
    BY <2>5, SendStep
  <2>6. CASE ProcessFails
    <3>1. "lookup" \in Stage
      BY DEF Stage
    <3> QED BY <2>6, <3>1, ErrorStep DEF ProcessFails
  <2>7. CASE (\E skip \in BOOLEAN : Process(skip)) \/ EndOfInput
    BY <2>7, LookupStep
  <2>8. CASE UNCHANGED <<conf, pc, total, builder, last, sent, conn, failed>>
    <3>1. TypeInv'
      BY <2>8 DEF QueryInv, TypeInv
    <3>2. \A s \in Stage : StageOK(s)'
      BY <2>8 DEF QueryInv, StageOK, SentOK, ScanOK, DoneOK
    <3> QED BY <3>1, <3>2 DEF QueryInv
  <2>9. CASE CancelRun \/ Terminated \/ UNCHANGED vars
    BY <2>8, <2>9 DEF CancelRun, Terminated, vars, scanVars
  <2> QED BY <2>1, <2>2, <2>3, <2>4, <2>5, <2>6, <2>7, <2>9 DEF Next, Step
<1> QED BY <1>1, QueryInvInit, PTL DEF Spec

----------------------------------------------------------------------------
(* What follows.                                                           *)

\* scanRowsToBatches cuts the rows of a query into full batches and a shorter
\* last one, and a stage that returned nil has sent all of them.
THEOREM QueryIsSentWhole == Spec => []BatchesPartitionRows
<1>1. ASSUME QueryInv PROVE BatchesPartitionRows
  <2>1. \A s \in Stage : DOMAIN sent[s] = 1 .. Len(sent[s])
    BY <1>1 DEF QueryInv, TypeInv
  <2> QED BY <1>1, <2>1 DEF QueryInv, StageOK, SentOK, DoneOK, BatchesPartitionRows
<1> QED BY <1>1, QueryInvariant, PTL

\* A stage holds a connection of its pool exactly while its rows are open.
ConnectionsAreReturned == \A s \in Stage : s \in conn <=> pc[s] \in {"scan", "send"}

\* rows.Close is deferred at every return of Run and Process, errors included,
\* so a stage that has ended, and a lookup between two batches, holds no
\* connection that the other one could wait for.
THEOREM NoConnectionIsKept == Spec => []ConnectionsAreReturned
<1>1. QueryInv => ConnectionsAreReturned
  BY DEF QueryInv, StageOK, ConnectionsAreReturned
<1> QED BY <1>1, QueryInvariant, PTL
=============================================================================
