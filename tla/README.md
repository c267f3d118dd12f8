# Verification of verygoodetl

verygoodetl runs a graph of ETL stages. A caller builds the graph with a
`Pipeline`, and `Pipeline.Run` starts one goroutine per stage, connects them with
bounded channels ("edges"), passes reference-counted Arrow batches along these
channels, and shuts everything down when a stage fails or a context is cancelled.
The stages shipped with it read from and look up in SQL databases, write to SQL
tables, and write files to blob storage as CSV, Arrow IPC or Parquet.

These TLA+ modules describe that program as its Go source does it. TLC checks
them on small instances, and TLAPS proves the theorems listed below for all
instances. `PROJECT.json` lists the runs, the source lines of every definition,
the hazards, and for every property a mistake that breaks it.

```
tlc -workers 2 -config runtime_chain.cfg MCPipelineRuntime.tla
tlapm PipelineRuntimeProofs.tla    # and every other module *Proofs.tla
```

## 1. Inventory

| component | state it keeps | operations | interacts with |
|---|---|---|---|
| builder (`src/pipeline.go` 25-206) | nodes, edges, `started`, `err`, a mutex | From, Process, Merge, To, CopyTo | the caller's goroutines; Run reads the graph without the mutex |
| runtime (`src/pipeline.go` 208-489) | goroutines, edge channels, one merged channel per fan-in, the run's context, the recorded error | Run, Output.Send, the readers, cancel, abort | calls the stages; context; batches |
| batches, contracts (`src/etl.go`) | a reference count per batch | Retain, Release, ProcessorFuncs | every stage |
| file sink (`src/filesink/sink.go`) | started, aborted, the blob writer and its context, the format's writer | Consume, Finish, Abort | runtime's calls; gocloud blob |
| CSV format (`csv.go`, `csv_writer.go`) | whether the header was written, the output | Write, Close | file sink |
| Arrow IPC, Parquet formats (`format.go`) | the library's writer | Write, Close | file sink |
| SQL sink (`src/sqlsink/sink.go`) | inUse, started, finished, the first schema; a transaction per Consume | Consume, Finish | runtime's calls; database/sql |
| SQL identifiers and types (`sink.go`, `src/sqlsink/types.go`) | none | predicates on names, extraction of values | SQL sink |
| SQL source and lookup (`src/sqlsource/source.go`, `lookup.go`, `scan.go`) | a query's rows, column builders, a pooled connection | Run, Process, Finish | runtime; database/sql |
| lookup keys and converters (`lookup_keys.go`, `types.go`) | none | conversions, deduplication | source and lookup |
| examples (`src/examples`) | sql-lookup-merge: a combiner's rows waiting by id; sql-to-sql: the destination table | Process, Finish; a pipeline run again | source, lookup, sink, runtime |

**Hard behaviours.** Stages, readers, the goroutines that close merged channels
and the caller all interleave. A failure cancels the context that every stage
watches, and the same closed channel means "end of input" or "upstream failed".
A `select` with two ready cases picks either. Fan-out pushes a batch on one edge
after the other and can be stopped in between. Bounded edges block. An Aborter
must see exactly one of Abort and Finish on five different paths. The file sink
must not publish a truncated object when it is stopped, the SQL sink must store
whole batches, and a streaming query keeps a pooled connection another query may
wait for. A merging stage sees its inputs interleaved in any way. There is no
persistence in the library and no restart, but a transfer may be run again over a
destination an earlier run has left half written.

**What makes each part correct.**

- Builder: every graph it can make is acyclic and stays in one pipeline; no change
  after Run; the stages start at most once; the mutex survives a panic of Merge.
- Runtime: Finish only on complete input; exactly one of Finish and Abort; exact
  reference counts; order and equal fan-out; nil from Run only for a complete run;
  a failure of a stage's own is preferred to a cancellation; nothing runs after
  Run returned; Run returns.
- File sink: no truncated object is published, as far as the backend discards a write
  that is given up; each writer closed once; a cancelled run begins no publication.
- CSV: what a reader reads back is what was written; formulas are escaped.
- SQL sink: one schema; whole batches; results that tell the truth; nothing stored
  after Finish; statements the database accepts, with each argument in its place.
- Values: what the sink binds for a cell converts back to that cell from any form a
  driver returns, a timestamp's text included where it says which instant it is; text
  without an offset is local time in the declared zone.
- SQL source and lookup: batches partition the rows; connections come back; the
  only deadlock is the documented one.
- Examples: the join makes every pair once and in order; a run that returns nil has
  brought the destination up to date.

## 2. Modules

| module | models | extends or instantiates |
|---|---|---|
| `PipelineRuntime` | one execution of Run: all its goroutines | |
| `Lifecycle` | the abstract contract of a run, from `etl.go`'s interfaces | |
| `PipelineRefinement` | the mapping from the runtime to the contract | `PipelineRuntime`, `INSTANCE Lifecycle` |
| `MCPipelineRuntime` | graphs for TLC | `PipelineRefinement` |
| `PipelineRuntimeProofs` | theorems about the runtime in four parts: types and Finish on complete input; how a run ends and in which order it delivers; reference counts; the contract | `PipelineRefinement`, TLAPS |
| `PipelineBuilder`, `MCPipelineBuilder` | building and the gate of Run | |
| `PipelineBuilderProofs` | theorems about the builder | `PipelineBuilder`, TLAPS |
| `FileSink` | the file sink under runNode's calls | |
| `FileSinkProofs` | theorems about the file sink | `FileSink`, TLAPS |
| `CsvWriter`, `MCCsvWriter` | the CSV record writer and a reader | |
| `CsvWriterProofs` | theorems about what a reader gets back | `CsvWriter`, TLAPS |
| `SqlChunks` | the chunk arithmetic of an insert | |
| `SqlSink`, `MCSqlSink` | the SQL sink shared by several callers | `SqlChunks` |
| `SqlSinkProofs` | theorems about the SQL sink and its chunks | `SqlSink`, TLAPS |
| `SqlQueries` | a source and a lookup over connection pools | |
| `SqlQueriesProofs` | theorems about queries and their batches | `SqlQueries`, TLAPS |
| `ColumnValues` | how values enter and leave Arrow columns | |
| `SqlStatement` | names, options, and INSERT statements | `ColumnValues`, `SqlChunks` |
| `SqlTransfer`, `MCSqlTransfer` | a source and a sink between two tables, run again | `SqlStatement` |
| `SqlTransferProofs` | theorems about values, statements and transfers | `SqlTransfer`, TLAPS |
| `StreamJoin` | the abstract join of two streams | |
| `LookupMerge`, `MCLookupMerge` | the graph of sql-lookup-merge with its combiner | `INSTANCE StreamJoin` |
| `LookupMergeProofs` | theorems about the combiner's join | `LookupMerge`, TLAPS |

`PipelineBuilder.GraphIsBuilt` is what `PipelineRuntime` assumes of its graph
(`GraphAssumption`): the two modules meet there. `FileSink` takes the sequence of
calls from runNode, and what the runtime promises about that sequence is
`Lifecycle`, which the runtime implements. `LookupMerge` and `SqlTransfer` take
the edges between stages as queues, which is what `PipelineRuntime.InOrder` and
`FinishBarrier` promise. `SqlSink` is about calls, races and failures, and a batch
there is a number of rows; `SqlTransfer` has one caller and looks at what is in the
rows. Both divide a batch with `SqlChunks`.

A definition named `X_Y` is `X` with the mistake `Y`, for example
`CheckCtx_Forgotten`. No action uses it. It documents, next to the right
definition, a bug the properties notice.

### PipelineRuntime

One action per atomic step of a goroutine, where a step is what happens between
two points at which another goroutine can matter (a channel operation, a look at
the context, a callback).

| code | model |
|---|---|
| Source.Run, Process, Consume, Finish (user code) | `Produce`, `Forward`, `ReturnNil`, `ReturnOwnError`, `ReturnCtxError` at pc "run", "body", "finish" |
| `nodeOutput.Send` | `EnterSend`/`EnterLoop` (the first look at the context), `PushBuffered`, `PushRendezvous`, `SendCancelled`, one edge at a time in `Out[n]` |
| `consumeInputs`, the loop | `Deliver`, `EndOfInput`, `SelectCancelled`, `StopReaders`, `JoinReaders` |
| its reader goroutines | `ReaderReceives`, `ReaderExits`, `ReaderCancelled`, `DrainEdge` |
| the goroutine that closes merged | `CloseMerged` |
| `runNode` | `CheckCtx`, `Abort` and the pcs between them |
| `fail`, `cancel`, `closeEdges`, `wg.Done` | `RecordError`, `CancelRun`, `CloseEdge`, `StageDone` |
| the end of Run | `RunReturns` |
| the caller's context | `ExternalCancel` |

A callback is any sequence of sends and a return that keeps the contract of
`etl.go`: it forwards the error of a Send, and a stage that is not in `Faulty`
returns an error only when the context is cancelled. A batch is the pair of the
stage that made it and a number; its data does not matter to any property. The
values of an unbuffered edge (`Cap = 0`) pass by rendezvous, with a reader that
receives or with one that drains. Left out: a Send under a context made by the stage itself
(the outcome is the one of a stage in `Faulty`), and panics of callbacks.

### The others

- `Lifecycle`: per stage only consuming, finishing, aborted, completed, failed;
  the context; what Run returned.
- `PipelineBuilder`: a call is atomic under the mutex, except Merge, which takes a step per
  input so that its panic half way (`MergeRejects`) and the unlock on that path
  (`MergeReturns`) are visible. Typed nil stages are `isNil`.
- `FileSink`: one action per call of the blob library or the format, each of
  which may fail; `AbortWriter` is the body shared by the failure paths and by
  Abort. The blob library is external. The Close of Finish is two steps: `Commit` looks
  at the writer's context and gives up if it is cancelled, `Publish` stores the object,
  or fails and may have stored it; the run may be cancelled between the two. A write that is
  given up leaves nothing over a backend that discards it (`conf.discards`), and all or a part
  of what was written over one that does not (`GivenUp`): the comment at `sink.go` 270-273 says
  that cancel-then-Close is not atomic on every backend.
- `SqlChunks`, `SqlSink`: Consume is check, open, begin, prepare, one exec per
  chunk, commit. `open` is a step apart from the checks before it, so that two callers
  could both be the first if the inUse guard let them (`Free_Unguarded` breaks
  `OneSchema`). The database is external: a
  transaction is rolled back when its context is cancelled (`TxCancelled`) and a
  failed commit may have been stored (`stored`), in which case the result is
  "unsure". A Commit under a cancelled context returns its error while database/sql has the
  rollback still to do ("ending"). Several callers stand for several nodes or consecutive runs that were
  given the same sink by mistake.
- `SqlQueries`: the edge between the two stages is a bounded queue; each stage
  waits for a connection of its pool, scans rows into batches and closes the rows
  on every path.
- `CsvWriter`: a cell is a sequence over the characters the writer distinguishes;
  the fork of encoding/csv (`csv_writer.go`) and the record writer (`csv.go`) are
  operators on it that take the writer's options as a parameter, and `Reader` is a reader of RFC 4180 (or of the escape
  character's dialect) used as the reference.

- `ColumnValues`: a value has a Go type and a datum, which is a number, a truth value
  or a text, and a text has a form: what it reads as. `Convert` is the set of cells
  `append` may make, since a clock reading that occurs twice may be either instant.
  Local time is a table of offsets (`LocalOffset`), which may have seconds: a CSV text has
  the whole minutes of an offset only (`WrittenOffset`). A database that is given an instant
  may return it as a text, as bytes or a string, in UTC or in local time, with the offset or without
  (`InstantTexts`).
- `SqlStatement`: a name is a word, its case and the kind of its characters. A
  statement is the record of its parts: table, columns, markers row by row, clause.
  The database that executes it is external: it says when a statement is malformed
  (`Accepts`) and which argument goes where (`Inserted`). It compares quoted names with
  their case, as PostgreSQL does; SQLite folds them all the same, and refuses two quoted names that
  differ in case only although `open` lets them through (`sink_test.go` 1238-1242).
- `SqlTransfer`: `StartRun` builds source and sink anew and reads a source table that
  may have changed. The source is a batch ahead of the sink. `Fault` is a failure of
  a query, a statement or the context; `Commit` may fail and still store.
- `LookupMerge`: `TakeBatch` takes a batch from either input of the merge,
  `ProcessRow` is one round of the combiner's loop, `SendMatches` the end of Process.
  A row is identified by where it comes from, so that pairs can be told apart. An id
  is looked up once per batch in which it occurs: how many app rows arrive depends on how
  the source cuts its batches, and the properties count what arrives (`Places`). The lookup
  keys are a set, as the order of the values of an IN clause means nothing, and `Query` is
  the set of the answers ORDER BY id allows.
- `StreamJoin`: rows of two sides arrive in any order; as many pairs of an id are made
  as the shorter side allows, at once.

## 3. What is checked

Every run that is expected to pass checks deadlock too.

| run | instance | shows |
|---|---|---|
| `runtime_chain` | source, faulty processor, sink; one batch each; buffers of 1; the caller may cancel | type, `FinishXorAbort`, `RefBalance`, `NilMeansComplete`, `ErrorPreference`, `NothingLeftBehind`, `CancelHasCause`, `ImplementsLifecycle` |
| `runtime_diamond` | a source, a lookup that may fail, and a merging sink fed by both; two batches, rendezvous edges | `InOrder`; `FinishBarrier` with two readers of which one ends by failure; `RefBalance`; `Terminates`: backpressure through fan-out and fan-in never deadlocks |
| `runtime_endless` | a source that never stops, a sink that may fail, an endless source with no edge, rendezvous, the caller may cancel | `CancelUnwinds`, `FailureUnwinds` |
| `runtime_root_cause` | chain, every stage may fail | refutes `RootCauseReported` (finding 1) |
| `runtime_stage_errors` | chain, no stage fails, the caller cancels | refutes `OnlyStageErrorsReported` (finding 2) |
| `builder` | two goroutines, a pipeline of up to three stages and one of one stage, merges of up to two inputs | `GraphIsBuilt`, `RunsOnceAndValid`, `GraphIsFrozen`, `MutexIsFreed` |
| `file_sink` | up to two batches, every configuration, over both kinds of backend | `NoPartialObject`, `FinishCommits`, `WriterReleased`, `CancelledRunBeginsNoPublication` |
| `sql_sink` | two callers, two calls each, nine kinds of batch | `AllOrNothing`, `ResultIsTrue`, `TxResolved`, `OneSchema`, `FinalAfterFinish`, `SinkIsFreed` |
| `sql_queries` | up to six rows, batches of two, shared or separate pools of one or two connections | `BatchesPartitionRows`, `EndsUnlessPoolIsExhausted`, `CancelFreesConnections` |
| `csv_writer` | all option combinations, cells of up to three characters of seven | `RoundTrip`, `FormulasAreEscaped` |
| `lookup_merge` | two ids and null, up to two batches of the source, up to two app rows of an id, lookup batches of two | `PairsInOrder`, `JoinIsComplete`, `ImplementsJoin` |
| `sql_transfer` | two runs; any value in any column type; up to five rows in every division into batches and statements; a value that cannot be converted before or after others are stored; any names and options | `StatementsAreAccepted`, `TransferIsComplete`, `ValuesRoundTrip`, `NaiveTextIsLocalTime` |

**Bounds, and why they are enough.** `Limit` (batches a stage makes): one batch
is enough to be at any place of a chain when a failure or a cancellation comes,
because failure paths treat each batch alike; two are used where order matters.
The chain has a stage of each kind and so every branch of runNode; the diamond
adds fan-out, fan-in and a stage that reads two edges of different lengths; the
endless run adds a Send that never blocks and one that has no edge. `Cap` 0 and 1 are the two kinds
of channel; a larger buffer only delays blocking. `MaxNodes` 3 is the
smallest pipeline with a merge. `MaxPlaceholders` 4 with 2 or 3 columns gives no
remainder, a remainder, a single chunk, one row a statement, a prepared statement
with a remainder, and an empty batch. `MaxRows` 6 with `BatchSize` 2 has a query
with more batches than the edge and the lookup hold (`Slots` + 1), which is when a
shared pool of one connection deadlocks. Three characters are the shortest
cell with a special one at the start, in the middle and at the end. In `lookup_merge`
two rows of an id on each side are the fewest that can be paired in a wrong order, and a
lookup batch of two cuts the rows of an id. In `sql_transfer` the columns are two, so
`maxPlaceholders` 2 to 5 gives one or two rows a statement and an odd limit; five rows
make two full statements and a remainder; two runs are a run and its repetition. The
integers are those around both limits of a small int64 and of a boolean, and the
clock is put forward once and back once; a minute has four ticks, so that one of its two
offsets, which is negative, has seconds.

**Fairness.** The runtime's `Fairness` is weak fairness of each goroutine: the Go
scheduler runs every goroutine that can run, and a callback returns. Choices
between two ready cases of a `select` are inside one goroutine and are not fair:
`CancelUnwinds` holds although a select may prefer pushing for ever, because Send
looks at the context on entry. An endless source need not stop and the
caller need not cancel. Liveness of the other modules assumes that a call once entered goes on
(the database and blob library answer), not that callers make calls.

**Findings.**

1. `Run` can report an error that is not the root cause: a failing stage
   cancels the run (`consumeInputs`, line 470) before its own error is recorded
   (`fail`, 276-284), so a stage that reacts to that cancellation with an error of
   its own can be recorded first, against the comment at `pipeline.go` 273-275.
2. `Run` returns "stage N: context canceled" when no callback returned an error,
   from lines 330, 343 and 476, against the comment at 232-233.

Both are disagreements between a comment and the code; `ErrorPreference` states
what the code does guarantee. A nuance that is not a finding: with `WithCRLF` a cell
starting with a line feed reaches the reader with a leading carriage return, which
formula escaping would have escaped had it been there before; `FormulasAreEscaped`
excludes it by name.

**What is conditional, and on what.** Two properties hold only under a condition on
what is outside the code, and state it.
- `NoPartialObject` and `CancelledRunBeginsNoPublication` say what is at the key over a
  backend that discards a write given up. Over another one an aborted sink may leave a part
  (the code's own comment: "Best-effort"); what they say there is what the sink does: it
  cancels before it closes an unfinished stream, returns nil from Finish for a whole
  object only, and begins no publication once the run is cancelled. A Close that had looked at
  the context before the cancellation may still publish, and what it publishes is whole.
- `ValuesRoundTrip` says when a text of a timestamp comes back as the same cell
  (`SaysInstant`). A text with an offset does if the offset has whole minutes, since no text
  with seconds in it is parsed. A text without one does if the declared zone's clock shows it at
  the cell's instant and at no other; if the database wrote it in another zone, it is read as
  another instant, and the code cannot tell. A CSV text does unless the zone's offset had
  seconds at the instant (before standard time, in most zones): RFC 3339 has no place for them, and the
  instant read back is off by them. The run has cases on both sides of each condition.

The database of `sql_transfer` reserves the words the sink was told of. With another
dialect's reserved words an unquoted name can be refused by the database, as the
comment on `sqlReservedWords` says. Without a clause a repeated run
fails on the primary key.

## 4. What is proved

The first part of `PipelineRuntimeProofs` proves, from `GraphAssumption` and `ParameterAssumption`
only (any finite graph the builder can make, any buffer size, any sets of faulty,
endless and aborting stages):

- `TypeCorrect == Spec => []TypeOK`. `TypeOK` is not inductive alone: appending
  `sending[n]` to a buffer needs it to be a batch. `TypeInv` adds `Shape`: a stage
  inside Send has a batch and a position inside `Out[n]`, a stage inside Process or
  Consume was given a batch, a reader that offers holds one, and where a goroutine is agrees
  with the kind of its stage and with whether Finish was called.
- `FinishOnCompleteInput == Spec => []FinishBarrier`. `FinishBarrier` is far from
  inductive: it speaks of the moment after Finish began and says nothing of how the
  stage got there. The inductive invariant is `IInv`, the conjunction of
  - `TypeInv`;
  - `Control`: a stage whose readers were cancelled, or that closes its edges
    with an error, has the context cancelled; an edge is closed only by a stage that has
    returned; a reader drains only in a cancelled run and exits only from a closed
    and empty edge; a merged channel is closed only after all readers exited;
  - `Capacity`: an edge's buffer holds at most `Cap` batches;
  - `Flow`: as long as the context is live, what was pushed on an edge is what was
    delivered, then what its reader holds, then the buffer. It is what turns
    "the edge is closed and empty" into "everything arrived";
  - `Barrier`: the inputs of every stage whose Finish was called are complete,
    which is `FinishBarrier` written as a fact that later steps keep.

  The step that matters is `CheckCtx`: it calls Finish only while the context is live.
  Then `Control` says that no reader drained, so each one exited from an edge its
  upstream stage closed, without an error since an error would have cancelled the
  context, and `Flow` says that the edge delivered all of it. Afterwards nothing can
  undo this (`BarrierStable`): a reader that exited stays so, and a stage that succeeded
  sends nothing more.

Its second part proves five more invariants from the same
two assumptions, in two layers.

- `OutcomeInv` is about what became of each stage. `ErrorShape`: a stage that
  unwinds has an error, and one that has an error only unwinds, closes its edges and ends. `CallCounts`: Finish and Abort are called at most
  once, never both, and a stage that leaves without Finish has an error and was aborted if
  it can be. `Cause`: a cancelled context, or an error anywhere, goes back to
  the caller's cancellation or to a stage that raised an error. `Record`: whatever a stage reported is
  behind what Run holds, and an own error is never hidden behind a cancellation. Hence
  `FinishOrAbortOnce` (`FinishXorAbort`), `NoStrayCancellation` (`CancelHasCause`) and
  `RunReportsOwnError` (`ErrorPreference`). The last one needs `AllDone`: when Run returns
  every stage has reported.
- `OrderInv` adds the flow of batches. `Stream` says, for every edge, how far
  its history is in step with the stage that fills it, live or cancelled; `FanOut` says how much
  of a stage's output each of its edges has while it is in the middle of
  Send. With `Flow` and `Barrier` they give `BatchesInOrder` (`InOrder`: each consumer
  sees the producer's sequence, without gaps, up to where it stopped) and `NilIsComplete`
  (`NilMeansComplete`: a nil from Run means that every edge delivered everything). Both
  speak of the history variables, which the model keeps if `Traced` is TRUE; the runs that
  check the two set it.

Its third part proves `ReferencesBalance` (`RefBalance`) and `NothingIsLeft`
(`NothingLeftBehind`): Retain and Release balance on every path, cancellation included.
The inductive core is `Balance`: a batch's count is the number of places that hold it
(buffers, readers, a stage's input, the part of a Send still to do). It is an equation
of sums over edges and stages, so it comes with lemmas on counting: what one append,
one removal, or one change of a holder does to the sum. Two facts are needed for it which
no property mentions: `HolderShape` (a place left behind is empty, or it would be
counted) and `Origin` (a batch comes from a stage upstream of its holder, which
is how Send tells a batch it created from one it passes on; the graph being acyclic
is what makes it true). `InputsRead` then says that a stage leaves only when its readers
have exited, so that the end of the run finds every place empty.

Its last part proves `RuntimeImplementsLifecycle`:
`Spec => ImplementsLifecycle`, that is, the runtime's initial states map to those of
`Lifecycle` and each of its steps to a step of it or to a stutter. `StepRefines` has one step per
action. Most of the runtime's steps stutter; the steps of the abstract machine are the ones
that end a stage, cancel, call Finish or Abort, and return. Its guards follow from
`MapInv`, which is the invariants above and `AbortControl`: only a cancelled run waits for
its readers or aborts, and never a source.

`PipelineBuilderProofs` proves, for any number of pipelines, stages and callers,
`GraphsAreAcyclic` (`GraphIsBuilt`), `LaunchedOnceAndValid` (`RunsOnceAndValid`),
`StartedGraphIsFrozen` (the action property `GraphIsFrozen`) and `BuilderTypeCorrect`. The
first gives the part of the runtime's `GraphAssumption` about edges: each goes from an earlier
stage that produces to a later one that consumes. The invariant has to look inside the
builder's calls: `JobsOK` says that a caller between its checks and its `addEdge` still holds
the pipeline's mutex, that the pipeline has not started meanwhile, and that each input of
that pipeline it has yet to connect precedes the stage just appended. `RunOK` says that a nil
stage leaves an error behind that Run will see.

`FileSinkProofs` proves, for any number of batches and from `ParameterAssumption`
only, all the properties of the `file_sink` run: `StoredWhole` (`NoPartialObject`),
`FinishIsFinal` (`FinishCommits`), `WriterIsReleased` (`WriterReleased`),
`NothingBegunAfterCancel` (`CancelledRunBeginsNoPublication`), and `TypeCorrect`, over
either kind of backend. They follow
from one inductive invariant: `CallInv` says which call a step belongs to and when the
sink is open in it; `WorkingInv` says that until the first error the single blob
writer is open, nothing is stored, and the format has written exactly what Consume
accepted; `PublishInv` that what is being published is complete; `AbortInv` says that when runNode aborts the sink either the writer is still
open and the sink's, or there is none left to close. `WorkingInv` needs to know that
a sink over the caller's writer never has a blob writer, and that a
sink with a construction error is never opened, which none of the properties says.

`SqlSinkProofs` proves every safety property of the `sql_sink` run for any number of callers
and calls, any set of batches and any placeholder limit: `LandsInFullOrNotAtAll`
(`AllOrNothing`), `ConsumeTellsTheTruth` (`ResultIsTrue`), `NoOpenTransactionLeft`
(`TxResolved`), `FirstBatchLocksSchema` (`OneSchema`), `NothingAfterFinish`
(`FinalAfterFinish`), `SinkTypeCorrect`, and `StatementsFitTheDriver`, which no run checks: no
statement of an open transaction is empty or has more placeholders than the driver takes.
The argument has three parts:
- arithmetic: `ChunkShape`, `ChunkLength` and `ChunksCover` prove of `SqlChunks` that the chunks of a batch
  are consecutive, end at its last row, and that rows times columns
  stays within the limit (also when one row fills it), from facts on division and remainder;
- mutual exclusion: `Exclusive` says that at most one caller is between Lock and
  Unlock, so that `SchemaLocked` is disturbed by one caller only: the first batch and the schema it
  sets are seen together;
- the transaction: `Running` says that a call in progress has stored nothing and has no
  result yet; `TxShape` that an open transaction holds exactly the statements
  of the chunks before the next one. At commit these are all the chunks, and `ChunksCover` makes
  them the batch.

`SqlQueriesProofs` proves `QueryIsSentWhole` (`BatchesPartitionRows`) for any number of rows
and any positive batch size, and `NoConnectionIsKept`: a stage has a connection of the pool
exactly while it scans or sends rows, so no path out of a query, with or without an error,
keeps one. `SentOK` is the
closed form of what was sent (batch i starts at row (i - 1) * BatchSize), `ScanOK` says where the
builder is between two sends, and that the last, short batch is sent only at the end.

`SqlTransferProofs` proves the four invariants of the `sql_transfer` run for any options,
names, column types, clocks, tables, batch sizes and numbers of runs.
- `ValuesSurvive` (`ValuesRoundTrip`) and `NaiveTextKeepsItsReading` (`NaiveTextIsLocalTime`)
  are facts about the operators of `ColumnValues`, type by type: `StoredReturns` and
  `CsvReturns` convert every form in which a cell can come back. A timestamp needs that
  division by its unit undoes multiplication (`UnitRoundTrip`), and that the offsets of the
  clock are multiples of the unit, or a local reading would lose a part of it. A text without
  an offset needs `ReadClockSingle`: a reading shown once is read as the instant at which it is
  shown. A CSV text needs `WholeMinutes`: an offset without seconds is written as it is.
- `StatementsAreWellFormed` (`StatementsAreAccepted`): the names that New and open let
  through are names the database can parse (`NameIsAccepted`), no two of them are the same
  column to it (`ColumnsDiffer`), and a prepared text has the markers of the rows it is given
  later (`ChunkIsStatement`), each with its argument (`ArgOfPlace`).
- `CompletedTransferIsComplete` (`TransferIsComplete`) rests on `TransferInv`. With `Done` for
  the source's rows that are committed in this run, `TableInv` says that the table has the last row of
  every key among the first `Done` rows, and that the open transaction has it among those and
  the rows of the statements executed so far; `BatchInv` that the batch on its way and
  the one being inserted are the next rows of the source, in this order. What earlier runs left is overwritten
  row by row, which `UpsertHolds` proves of one statement. The property compares values as
  sets, since a clock reading that occurs twice may become either instant.

`LookupMergeProofs` proves the two invariants and the refinement of the `lookup_merge` run
for any ids, batches, app tables and lookup batch size: `MatchesPairInOrder`
(`PairsInOrder`), `FinishedJoinIsComplete` (`JoinIsComplete`) and `CombinerImplementsJoin`
(`ImplementsJoin`), from `LookupInvariant`. The rows of an id that the combiner has processed are those whose place is
not in the queue in front of it (`Processed`), and `QueueInv` says that they precede all that are. So the
number of the row being processed is one more than the count of those before it, and no induction over
the rows is needed. `MatchInv` says that the matched and the waiting rows of a side are the processed
ones, the matched ones first, and that of the two sides' waiting rows of an id one is
empty. The lemmas about `InBatches` say that cutting an answer into batches keeps its order.

`CsvWriterProofs` proves `WrittenIsReadBack` (`RoundTrip`) and `NoFormulaIsRead`
(`FormulasAreEscaped`) for texts of any length over any characters and any number of
rows. The invariant `CsvInv` says where the reader is after what was written so far:
between two lines, with the header read once if it is due and every row (`TableRead`).
`FieldReads` is the heart of it: reading what `Field` wrote leaves the reader with that
field and waiting for the delimiter or line end that ends it, for a quoted field (`QuotedReads`, character
by character through both escape dialects and WithCRLF) and for a plain one. It is what
makes `fieldNeedsQuotes` right: a field that is not quoted has no character that would end it.

**Induction over data.** The theorems of the library that do it take an operator as a
parameter, which none of the provers can instantiate. Where a proof needs one over the
natural numbers it uses instead a set: `Reaches` says that a set that holds 0 and, with each number
below n, the next one holds n; it follows from `Largest` (a bounded set of numbers has a
largest), which is a fact on cardinalities. `RunExists`
and `JoinedExists` show in this way that the recursive functions of `CsvWriter` and of `FlattenSeq`
have the values their equations give.

The step lemmas have one case per action, or per group of actions that leaves the
variables of a conjunct alone. Each strengthened invariant was first run
through TLC as an invariant of the component's run. The assumptions on constants are
those of the modules and nothing else; TLC evaluates them on every run. They are types
and ranges, and five that say more: `GraphAssumption` is what the builder
guarantees; `ValuesAssumption` has a minute, and every offset of the local clock, a multiple of every unit of time;
`InstantAssumption` has the clock cover every instant of a timestamp column; `TransferAssumption` has
an int64 and a truth value in its range in every source table; and `TextAssumption` has no line break in the text of a number.

**Only model-checked.** Liveness: `Terminates`, `CancelUnwinds`, `FailureUnwinds`, `MutexIsFreed`,
`SinkIsFreed`, `EndsUnlessPoolIsExhausted` and `CancelFreesConnections`. TLAPS here
proves neither liveness under fairness nor ENABLED. Every other property of a run that
passes, invariant, action property or refinement, is stated by a theorem.

## 5. Not modelled

- Arrow IPC and Parquet: thin wrappers of library writers; their failures are a
  format's failures in `FileSink`.
- The digits of numbers, base64 and timestamps in CSV: a library's formatting.
- The precision of a float64 (the numbers of `ColumnValues` are those it holds exactly),
  instants outside the range of their unit, lookup keys of other types than integers, the
  layouts of a timestamp text.
- The list of reserved words and the characters of names: a parameter, and four kinds.
- The other examples, which build one pipeline each from parts modelled here.
- The text of errors, logging, the spelling of SQL.
- Panics of user callbacks: the code does not recover them.

## 6. Plan

Order, most important first; all done.

1. `PipelineRuntime`, its type invariant, safety and liveness. Runs: chain, diamond, endless.
2. `Lifecycle` and `PipelineRefinement`.
3. `PipelineBuilder`: discharges the graph assumption.
4. `FileSink`, `SqlChunks`, `SqlSink`.
5. `SqlQueries`, `CsvWriter`.
6. `PipelineRuntimeProofs`: `TypeCorrect`, `FinishOnCompleteInput`; `FileSinkProofs`.
7. The runtime's runs extended: a source with no edge that loops on Send
   (`pipeline.go` 387), fan-out with a failure for `InOrder` and `FinishBarrier`.
8. `LookupMerge` with `StreamJoin`; `ColumnValues`, `SqlStatement`, `SqlTransfer`.
9. The runtime's other invariants and the refinement; the theorems of `PipelineBuilder`,
   `SqlSink` and `SqlQueries`.
10. The theorems of `SqlTransfer`, `LookupMerge` and `CsvWriter`.

Nothing is left of it. Further work would model the formats of `format.go` and the digits of numbers.
