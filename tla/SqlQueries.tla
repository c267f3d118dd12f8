----------------------------- MODULE SqlQueries -----------------------------
(***************************************************************************)
(* sqlsource: a Source whose batches feed a Lookup, each running queries   *)
(* on a connection of a database/sql pool and scanning the rows into       *)
(* batches (src/sqlsource/source.go, lookup.go, scan.go).  The two may     *)
(* share one pool.                                                         *)
(*                                                                         *)
(* The edge between them is a queue of Slots batches: its buffer and the   *)
(* one its reader holds.  What the Lookup sends on is always taken.  The   *)
(* pool is external: a query waits until one of its connections is free or *)
(* the context is cancelled, and keeps the connection until rows.Close.    *)
(*                                                                         *)
(* A definition X_Y is X with the mistake Y; no action uses it.            *)
(***************************************************************************)
EXTENDS Integers, Sequences, FiniteSets

CONSTANTS
  MaxRows,    \* bound: rows a query returns
  BatchSize,  \* s.batchSize of the Source, l.batchSize of the Lookup
  Slots       \* batches between the two stages

ASSUME ParameterAssumption ==
  MaxRows \in Nat /\ BatchSize \in Nat \ {0} /\ Slots \in Nat \ {0}

Stage == {"source", "lookup"}

VARIABLES
  conf,     \* whether the stages share a pool, the connections of a pool, and
            \* the rows of the source's query
  pc,       \* where each stage is
  total,    \* the rows its query returns
  builder,  \* the range <<from, to>> of rows in its column builders
  last,     \* it is sending the partial batch after the last row
  sent,     \* the batches it sent from its query, as ranges of rows
  conn,     \* the stages whose rows are open
  edge, edgeClosed,
  failed,   \* the stages that returned an error
  ctxDone   \* the run's context is cancelled

vars == <<conf, pc, total, builder, last, sent, conn, edge, edgeClosed, failed,
          ctxDone>>
scanVars == <<total, builder, last, sent>>

Configs == [shared : BOOLEAN, maxOpen : {1, 2}, rows : 0 .. MaxRows]

Init ==
  /\ conf \in Configs
  /\ pc = [s \in Stage |-> IF s = "source" THEN "query" ELSE "recv"]
  /\ total = [s \in Stage |-> 0]
  /\ builder = [s \in Stage |-> <<0, 0>>]
  /\ last = [s \in Stage |-> FALSE]
  /\ sent = [s \in Stage |-> <<>>]
  /\ conn = {}
  /\ edge = <<>> /\ edgeClosed = FALSE
  /\ failed = {}
  /\ ctxDone = FALSE

----------------------------------------------------------------------------
\* The stages that hold a connection of the pool stage s uses.
PoolOf(s) == IF conf.shared THEN conn ELSE conn \cap {s}
ConnectionIsFree(s) == Cardinality(PoolOf(s)) < conf.maxOpen

\* Run or Process returns; the deferred rows.Close gives the connection back.
\* The source closes its edge, the lookup goes on with the next batch; an
\* error ends the stage and cancels the run.
CloseRows_Forgotten(s) == conn
CloseRows(s) == conn \ {s}

ReturnNil(s) ==
  /\ conn' = CloseRows(s)
  /\ pc' = [pc EXCEPT ![s] = IF s = "source" THEN "done" ELSE "recv"]
  /\ edgeClosed' = (edgeClosed \/ s = "source")
  /\ UNCHANGED <<failed, ctxDone>>

ReturnError(s) ==
  /\ conn' = CloseRows(s)
  /\ pc' = [pc EXCEPT ![s] = "done"]
  /\ edgeClosed' = (edgeClosed \/ s = "source")
  /\ failed' = failed \cup {s}
  /\ ctxDone' = TRUE

\* QueryContext; n is the number of rows of the result.
Query(s, n) ==
  /\ pc[s] = "query"
  /\ ConnectionIsFree(s)
  /\ s = "source" => n = conf.rows
  /\ conn' = conn \cup {s}
  /\ total' = [total EXCEPT ![s] = n]
  /\ builder' = [builder EXCEPT ![s] = <<0, 0>>]
  /\ last' = [last EXCEPT ![s] = FALSE]
  /\ sent' = [sent EXCEPT ![s] = <<>>]
  /\ pc' = [pc EXCEPT ![s] = "scan"]
  /\ UNCHANGED <<conf, edge, edgeClosed, failed, ctxDone>>

\* The database refuses the query, or the context ends the wait for a
\* connection.
QueryFails(s) ==
  /\ pc[s] = "query"
  /\ ConnectionIsFree(s) \/ ctxDone
  /\ ReturnError(s)
  /\ UNCHANGED <<conf, scanVars, edge>>

----------------------------------------------------------------------------
(* scanRowsToBatches.                                                      *)

RowCount(s) == builder[s][2] - builder[s][1]

\* A row is scanned and appended; a full batch is flushed.
NextRow(s) ==
  /\ pc[s] = "scan"
  /\ builder[s][2] < total[s]
  /\ builder' = [builder EXCEPT ![s][2] = @ + 1]
  /\ pc' = [pc EXCEPT ![s] = IF RowCount(s) + 1 = BatchSize THEN "send" ELSE "scan"]
  /\ UNCHANGED <<conf, total, last, sent, conn, edge, edgeClosed, failed, ctxDone>>

\* A wrong number of columns, a value that does not convert, or rows.Err: the
\* rows in the builders are lost, the batches already sent are not.
ScanFails(s) ==
  /\ pc[s] = "scan"
  /\ ReturnError(s)
  /\ UNCHANGED <<conf, scanVars, edge>>

\* rows.Next is false and rows.Err nil: the final flush.
RowsEnd_WithoutFlush(s) ==
  /\ pc[s] = "scan"
  /\ builder[s][2] = total[s]
  /\ ReturnNil(s)
  /\ UNCHANGED <<conf, scanVars, edge>>
RowsEnd(s) ==
  /\ pc[s] = "scan"
  /\ builder[s][2] = total[s]
  /\ IF RowCount(s) = 0
     THEN ReturnNil(s) /\ UNCHANGED last
     ELSE /\ pc' = [pc EXCEPT ![s] = "send"]
          /\ last' = [last EXCEPT ![s] = TRUE]
          /\ UNCHANGED <<conn, edgeClosed, failed, ctxDone>>
  /\ UNCHANGED <<conf, total, builder, sent, edge>>

\* flush: the batch is sent; the builders start again from the next row.
SendBatch(s) ==
  /\ pc[s] = "send"
  /\ s = "source" => Len(edge) < Slots
  /\ edge' = IF s = "source" THEN Append(edge, builder[s]) ELSE edge
  /\ sent' = [sent EXCEPT ![s] = Append(@, builder[s])]
  /\ builder' = [builder EXCEPT ![s][1] = builder[s][2]]
  /\ IF last[s] THEN ReturnNil(s)
     ELSE /\ pc' = [pc EXCEPT ![s] = "scan"]
          /\ UNCHANGED <<conn, edgeClosed, failed, ctxDone>>
  /\ UNCHANGED <<conf, total, last>>

SendCancelled(s) ==
  /\ pc[s] = "send"
  /\ ctxDone
  /\ ReturnError(s)
  /\ UNCHANGED <<conf, scanVars, edge>>

----------------------------------------------------------------------------
(* The lookup's stage.                                                     *)

\* Process up to its query: no argument to look up, or a query to run.
Process(skip) ==
  /\ pc["lookup"] = "recv"
  /\ edge # <<>>
  /\ ~ctxDone
  /\ edge' = Tail(edge)
  /\ pc' = [pc EXCEPT !["lookup"] = IF skip THEN "recv" ELSE "query"]
  /\ UNCHANGED <<conf, scanVars, conn, edgeClosed, failed, ctxDone>>

\* ctx.Err in Process or in the stage's loop, or an error of generate.
ProcessFails ==
  /\ pc["lookup"] = "recv"
  /\ edge # <<>> \/ ctxDone
  /\ ReturnError("lookup")
  /\ UNCHANGED <<conf, scanVars, edge>>

EndOfInput ==
  /\ pc["lookup"] = "recv"
  /\ edge = <<>> /\ edgeClosed /\ ~ctxDone
  /\ pc' = [pc EXCEPT !["lookup"] = "done"]
  /\ UNCHANGED <<conf, scanVars, conn, edge, edgeClosed, failed, ctxDone>>

CancelRun ==
  /\ ~ctxDone
  /\ ctxDone' = TRUE
  /\ UNCHANGED <<conf, pc, scanVars, conn, edge, edgeClosed, failed>>

Step(s) ==
  \/ \E n \in 0 .. MaxRows : Query(s, n)
  \/ QueryFails(s) \/ NextRow(s) \/ ScanFails(s) \/ RowsEnd(s)
  \/ SendBatch(s) \/ SendCancelled(s)
  \/ s = "lookup" /\ ((\E skip \in BOOLEAN : Process(skip)) \/ ProcessFails \/ EndOfInput)

AllDone == \A s \in Stage : pc[s] = "done"

Terminated == AllDone /\ UNCHANGED vars

Next == (\E s \in Stage : Step(s)) \/ CancelRun \/ Terminated

Spec == Init /\ [][Next]_vars
FairSpec == Spec /\ \A s \in Stage : WF_vars(Step(s))

----------------------------------------------------------------------------
\* The batches of a query are its rows, cut in order: batchSize rows each, and
\* a shorter one only at the very end; when the stage returns nil, no row is
\* missing (scan.go 47-80).
BatchesPartitionRows ==
  \A s \in Stage :
    /\ \A i \in DOMAIN sent[s] :
         /\ sent[s][i][1] = (i - 1) * BatchSize
         /\ sent[s][i][2] = IF i * BatchSize < total[s] THEN i * BatchSize ELSE total[s]
    /\ pc[s] \in {"recv", "done"} /\ s \notin failed =>
         Len(sent[s]) * BatchSize >= total[s]

\* The batches the source's query makes.
NumBatches == (conf.rows + BatchSize - 1) \div BatchSize

\* "Blocks forever and deadlocks the pipeline" (lookup.go 30-37) is confined to
\* a shared pool of one connection with more batches than the edge and the
\* lookup can hold: with a pool of its own, a second connection, or room for
\* every batch, the source finishes and gives its connection back.
EndsUnlessPoolIsExhausted ==
  (~conf.shared \/ conf.maxOpen > 1 \/ NumBatches <= Slots + 1) => <>AllDone

\* Cancelling the context unwinds the run whatever the pools are, the documented
\* deadlock included: a stage that waits to send with its rows open, and one
\* that waits for a connection, both end, and no connection stays taken.
CancelFreesConnections == ctxDone ~> (AllDone /\ conn = {})
=============================================================================
