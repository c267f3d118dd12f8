------------------------------ MODULE SqlSink ------------------------------
(***************************************************************************)
(* sqlsink.Sink (src/sqlsink/sink.go): Consume, Finish, and the transaction *)
(* of every batch.  The sink is meant for one node of one run; it detects  *)
(* other uses, so several callers share it here: nodes of one pipeline, or *)
(* runs one after the other.  A caller makes calls until one fails or it   *)
(* has called Finish, as a stage does, and shares the run's context.       *)
(*                                                                         *)
(* The database is external: each statement succeeds or fails, a           *)
(* transaction is rolled back when its context is cancelled, a commit that *)
(* fails may have taken effect, and other connections see committed rows.  *)
(*                                                                         *)
(* A definition X_Y is X with the mistake Y; no action uses it.            *)
(***************************************************************************)
EXTENDS Integers, Sequences, FiniteSets, SqlChunks

CONSTANTS
  Caller,             \* the goroutines that use the sink
  MaxCalls,           \* bound: calls each of them makes
  Batches,            \* the batches they may consume
  NumCols,            \* the number of columns of each schema
  MaxPlaceholders,    \* s.maxPlaceholders
  MaxRowsPerConsume,  \* s.maxRowsPerConsume; 0 means unbounded
  NoSchema, NoBatch

Schemas == DOMAIN NumCols

\* valid: neither nil, and the record's schema is the one reported.  openable:
\* open accepts the names and types of its columns.
ASSUME ParameterAssumption ==
  /\ MaxCalls \in Nat /\ MaxPlaceholders \in Nat \ {0}
  /\ MaxRowsPerConsume \in Nat
  /\ NumCols \in [Schemas -> Nat]
  /\ Batches \subseteq [schema : Schemas, rows : Nat, valid : BOOLEAN,
                        openable : BOOLEAN]
  /\ NoSchema \notin Schemas /\ NoBatch \notin Batches

Call == Caller \X (1 .. MaxCalls)

VARIABLES
  constructErr,  \* New was given a nil db or an invalid table
  inUse, finished, started,
  schema,     \* s.schema: the first batch's schema
  pc,         \* where each caller is in Consume or Finish
  batch,      \* the batch it is consuming
  calls,      \* how many calls it has made
  chunk,      \* the next chunk insert will execute
  tx,         \* its transaction: "none", "open", "done", or "ending": database/sql
              \* will roll it back on its own
  pending,    \* the statements executed in the open transaction
  table,      \* the statements committed for each call
  given,      \* the batch of each call that passed the checks
  result,     \* what each call of Consume returned
  ctxDone     \* the run's context is cancelled

sinkVars == <<constructErr, inUse, finished, started, schema>>
callVars == <<pc, batch, calls, chunk>>
dbVars   == <<tx, pending, table>>
vars == <<sinkVars, callVars, dbVars, given, result, ctxDone>>

Init ==
  /\ constructErr \in BOOLEAN
  /\ inUse = 0 /\ finished = FALSE /\ started = FALSE
  /\ schema = NoSchema
  /\ pc = [c \in Caller |-> "idle"]
  /\ batch = [c \in Caller |-> NoBatch]
  /\ calls = [c \in Caller |-> 0]
  /\ chunk = [c \in Caller |-> 0]
  /\ tx = [c \in Caller |-> "none"]
  /\ pending = [c \in Caller |-> <<>>]
  /\ table = [k \in Call |-> <<>>]
  /\ given = [k \in Call |-> NoBatch]
  /\ result = [k \in Call |-> "none"]
  /\ ctxDone = FALSE

ThisCall(c) == <<c, calls[c]>>
PerStmt(b) == RowsPerStmt(MaxPlaceholders, NumCols[b.schema])
Chunks(b) == TotalChunks(b.rows, PerStmt(b))

----------------------------------------------------------------------------
(* Entering and leaving a call.                                            *)

\* atomic.CompareAndSwapInt32(&s.inUse, 0, 1)
Free_Unguarded == TRUE
Free == inUse = 0

\* The deferred store releases the sink whatever Consume returns.  After an
\* error the stage makes no further call.
Return_KeepsInUse(c, r) ==
  /\ result' = [result EXCEPT ![ThisCall(c)] = r]
  /\ inUse' = IF r = "nil" THEN 0 ELSE inUse
  /\ batch' = [batch EXCEPT ![c] = NoBatch]
  /\ pc' = [pc EXCEPT ![c] = IF r = "nil" THEN "idle" ELSE "ended"]
Return(c, r) ==
  /\ result' = [result EXCEPT ![ThisCall(c)] = r]
  /\ inUse' = 0
  /\ batch' = [batch EXCEPT ![c] = NoBatch]
  /\ pc' = [pc EXCEPT ![c] = IF r = "nil" THEN "idle" ELSE "ended"]

\* Consume or Finish while another call is running: an error at once.
CallWhileBusy(c) ==
  /\ pc[c] = "idle"
  /\ ~Free
  /\ pc' = [pc EXCEPT ![c] = "ended"]
  /\ UNCHANGED <<sinkVars, batch, calls, chunk, dbVars, given, result, ctxDone>>

StartConsume(c, b) ==
  /\ pc[c] = "idle"
  /\ Free
  /\ calls[c] < MaxCalls
  /\ inUse' = 1
  /\ calls' = [calls EXCEPT ![c] = @ + 1]
  /\ batch' = [batch EXCEPT ![c] = b]
  /\ pc' = [pc EXCEPT ![c] = "check"]
  /\ UNCHANGED <<constructErr, finished, started, schema, chunk, dbVars, given,
                 result, ctxDone>>

StartFinish(c) ==
  /\ pc[c] = "idle"
  /\ Free
  /\ inUse' = 1
  /\ pc' = [pc EXCEPT ![c] = "finish"]
  /\ UNCHANGED <<constructErr, finished, started, schema, batch, calls, chunk,
                 dbVars, given, result, ctxDone>>

Finish(c) ==
  /\ pc[c] = "finish"
  /\ finished' = TRUE
  /\ inUse' = 0
  /\ pc' = [pc EXCEPT ![c] = "ended"]
  /\ UNCHANGED <<constructErr, started, schema, batch, calls, chunk, dbVars,
                 given, result, ctxDone>>

----------------------------------------------------------------------------
(* Consume.                                                                *)

\* The checks before open, which do not depend on the sink's schema.
Refused_AllowsReuse(b) ==
  \/ constructErr \/ ~b.valid
  \/ MaxRowsPerConsume > 0 /\ b.rows > MaxRowsPerConsume
Refused(b) ==
  \/ finished \/ constructErr \/ ~b.valid
  \/ MaxRowsPerConsume > 0 /\ b.rows > MaxRowsPerConsume

\* open, for the first batch.
Opens(b) == NumCols[b.schema] \in 1 .. MaxPlaceholders /\ b.openable

\* The batch is accepted; one without rows has only locked the schema.
Accept(c) ==
  /\ given' = [given EXCEPT ![ThisCall(c)] = batch[c]]
  /\ chunk' = [chunk EXCEPT ![c] = 1]
  /\ IF batch[c].rows = 0 THEN Return(c, "nil")
     ELSE pc' = [pc EXCEPT ![c] = "begin"] /\ UNCHANGED <<result, inUse, batch>>

\* Consume up to the call of open, or past it.
Check(c) ==
  /\ pc[c] = "check"
  /\ IF Refused(batch[c]) \/ (started /\ batch[c].schema # schema)
     THEN Return(c, "error") /\ UNCHANGED <<chunk, given>>
     ELSE IF started THEN Accept(c)
     ELSE /\ pc' = [pc EXCEPT ![c] = "open"]
          /\ UNCHANGED <<chunk, given, result, inUse, batch>>
  /\ UNCHANGED <<constructErr, finished, started, schema, calls, dbVars, ctxDone>>

\* open
Open(c) ==
  /\ pc[c] = "open"
  /\ IF Opens(batch[c])
     THEN started' = TRUE /\ schema' = batch[c].schema /\ Accept(c)
     ELSE Return(c, "error") /\ UNCHANGED <<started, schema, chunk, given>>
  /\ UNCHANGED <<constructErr, finished, calls, dbVars, ctxDone>>

\* insert: BeginTx.
BeginTx(c, ok) ==
  /\ pc[c] = "begin"
  /\ IF ok
     THEN /\ tx' = [tx EXCEPT ![c] = "open"]
          /\ pending' = [pending EXCEPT ![c] = <<>>]
          /\ pc' = [pc EXCEPT ![c] = IF UsesPrepared(batch[c].rows, PerStmt(batch[c]))
                                     THEN "prepare" ELSE "exec"]
          /\ UNCHANGED <<result, inUse, batch>>
     ELSE Return(c, "error") /\ UNCHANGED <<tx, pending>>
  /\ UNCHANGED <<constructErr, finished, started, schema, calls, chunk, table,
                 given, ctxDone>>

Rollback(c) ==
  /\ tx' = [tx EXCEPT ![c] = "done"]
  /\ pending' = [pending EXCEPT ![c] = <<>>]

\* insert: PrepareContext, whose failure rolls back.
Prepare_NoRollback(c, ok) ==
  /\ pc[c] = "prepare"
  /\ IF ok THEN pc' = [pc EXCEPT ![c] = "exec"] /\ UNCHANGED <<result, inUse, batch>>
           ELSE Return(c, "error")
  /\ UNCHANGED <<constructErr, finished, started, schema, calls, chunk, dbVars,
                 given, ctxDone>>
Prepare(c, ok) ==
  /\ pc[c] = "prepare"
  /\ ok => tx[c] = "open"
  /\ IF ok
     THEN /\ pc' = [pc EXCEPT ![c] = "exec"]
          /\ UNCHANGED <<result, inUse, batch, tx, pending>>
     ELSE Return(c, "error") /\ Rollback(c)
  /\ UNCHANGED <<constructErr, finished, started, schema, calls, chunk, table,
                 given, ctxDone>>

\* The rows of the statement for chunk i of b.
Statement(b, i) == ChunkRange(b.rows, PerStmt(b), i)

\* execAndHandleErr.
Exec(c, ok) ==
  /\ pc[c] = "exec"
  /\ ok => tx[c] = "open"
  /\ IF ok
     THEN /\ pending' = [pending EXCEPT ![c] = Append(@, Statement(batch[c], chunk[c]))]
          /\ chunk' = [chunk EXCEPT ![c] = @ + 1]
          /\ pc' = [pc EXCEPT ![c] = IF chunk[c] < Chunks(batch[c]) THEN "exec"
                                     ELSE "commit"]
          /\ UNCHANGED <<result, inUse, batch, tx>>
     ELSE Return(c, "error") /\ Rollback(c) /\ UNCHANGED chunk
  /\ UNCHANGED <<constructErr, finished, started, schema, calls, table, given,
                 ctxDone>>

\* What Consume returns after Commit; when it fails the rows may be stored.  Under a
\* cancelled context Commit leaves the rollback to database/sql.  (Commit looks at
\* the context once, before it commits: a cancellation that comes between the two
\* is one that comes after both.)
CommitResult_Ignored(ok) == "nil"
CommitResult(ok) == IF ok THEN "nil" ELSE "unsure"

Commit(c, ok, stored) ==
  /\ pc[c] = "commit"
  /\ ok => stored
  /\ stored => tx[c] = "open" /\ ~ctxDone
  /\ table' = IF stored THEN [table EXCEPT ![ThisCall(c)] = pending[c]] ELSE table
  /\ tx' = [tx EXCEPT ![c] = IF @ = "open" /\ ctxDone THEN "ending" ELSE "done"]
  /\ pending' = [pending EXCEPT ![c] = <<>>]
  /\ Return(c, CommitResult(ok))
  /\ UNCHANGED <<constructErr, finished, started, schema, calls, chunk, given,
                 ctxDone>>

----------------------------------------------------------------------------
CancelRun ==
  /\ ~ctxDone
  /\ ctxDone' = TRUE
  /\ UNCHANGED <<sinkVars, callVars, dbVars, given, result>>

\* database/sql rolls a transaction back when its context is cancelled.
TxCancelled(c) ==
  /\ ctxDone
  /\ tx[c] \in {"open", "ending"}
  /\ Rollback(c)
  /\ UNCHANGED <<sinkVars, callVars, table, given, result, ctxDone>>

Terminated == (\A c \in Caller : pc[c] = "ended") /\ UNCHANGED vars

InCall(c) ==
  \/ Check(c) \/ Open(c) \/ Finish(c)
  \/ \E ok \in BOOLEAN :
       \/ BeginTx(c, ok) \/ Prepare(c, ok) \/ Exec(c, ok)
       \/ \E stored \in BOOLEAN : Commit(c, ok, stored)

Next ==
  \/ \E c \in Caller :
       \/ InCall(c) \/ CallWhileBusy(c) \/ StartFinish(c) \/ TxCancelled(c)
       \/ \E b \in Batches : StartConsume(c, b)
  \/ CancelRun
  \/ Terminated

Spec == Init /\ [][Next]_vars

\* A call that was entered goes on: the database answers every statement.
FairSpec == Spec /\ \A c \in Caller : WF_vars(InCall(c))

----------------------------------------------------------------------------
Inside == {"check", "open", "begin", "prepare", "exec", "commit", "finish"}

\* Every variable stays in its domain.
TypeOK ==
  /\ constructErr \in BOOLEAN /\ finished \in BOOLEAN /\ started \in BOOLEAN
  /\ inUse \in {0, 1}
  /\ schema \in Schemas \cup {NoSchema}
  /\ pc \in [Caller -> Inside \cup {"idle", "ended"}]
  /\ batch \in [Caller -> Batches \cup {NoBatch}]
  /\ calls \in [Caller -> 0 .. MaxCalls]
  /\ chunk \in [Caller -> Nat]
  /\ \A c \in Caller : pc[c] = "exec" => chunk[c] \in 1 .. Chunks(batch[c])
  /\ tx \in [Caller -> {"none", "open", "ending", "done"}]
  /\ result \in [Call -> {"none", "nil", "error", "unsure"}]
  /\ given \in [Call -> Batches \cup {NoBatch}]
  /\ ctxDone \in BOOLEAN

Rows(s) == s[1] .. (s[2] - 1)

\* Statements ss insert every row of b, each one once.
Covers(ss, b) ==
  /\ UNION {Rows(ss[i]) : i \in DOMAIN ss} = 0 .. (b.rows - 1)
  /\ \A i, j \in DOMAIN ss : i # j => Rows(ss[i]) \cap Rows(ss[j]) = {}

\* "A batch either lands in full or not at all" (sink.go 42-44): what is stored
\* for a call is nothing or all of the batch, however many statements it took
\* and wherever one of them, the commit or the run's context failed.
AllOrNothing == \A k \in Call : table[k] # <<>> => Covers(table[k], given[k])

\* What Consume returned tells the truth: nil means the rows are stored, an
\* error other than a failed commit's means none of them is.
ResultIsTrue ==
  \A k \in Call :
    /\ result[k] = "nil" => Covers(table[k], given[k])
    /\ result[k] = "error" => table[k] = <<>>

\* Every Consume resolves its own transaction before it returns, so there is
\* nothing for an Abort to do (sink.go 55-57): none is left open, and one whose
\* Commit met a cancelled context is being rolled back.
TxResolved == \A c \in Caller : pc[c] \notin Inside => tx[c] # "open"

\* All rows stored have the columns of the first batch accepted, also when two
\* callers race to be the first, and a batch that is refused never decides what
\* these are (sink.go 82-86, 316-345).
OneSchema ==
  /\ \A k \in Call : table[k] # <<>> => given[k].schema = schema
  /\ started => \E k \in Call : given[k] # NoBatch /\ given[k].schema = schema

\* Nothing is stored after Finish, by any caller (sink.go 297-299, 348-356).
FinalAfterFinish == [][finished => table' = table]_vars

\* A call that was entered leaves the sink free again, whichever way it fails.
SinkIsFreed == inUse = 1 ~> inUse = 0
=============================================================================
