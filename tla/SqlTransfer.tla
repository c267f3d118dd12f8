---------------------------- MODULE SqlTransfer ----------------------------
(***************************************************************************)
(* A pipeline from a sqlsource.Source to a sqlsink.Sink, run several times *)
(* over tables that stay: after a failure, or to bring the destination up  *)
(* to date (src/examples/sql-to-sql/main.go).  The source converts driver  *)
(* values batch by batch; the sink binds the cells again, in statements of *)
(* as many rows as fit, one transaction per batch.                         *)
(*                                                                         *)
(* A configuration has the sink's options, the schema's fields (the first  *)
(* is the destination's primary key), the source's batch size, and the     *)
(* contents the source table may have when a run reads it.                 *)
(***************************************************************************)
EXTENDS SqlStatement, FiniteSetsExt

CONSTANTS
  Conf,      \* the configurations
  MaxRuns,   \* bound: the runs
  NoBatch

ASSUME TransferAssumption ==
  /\ MaxRuns \in Nat \ {0}
  /\ NoBatch \notin Seq(Seq(Cells))
  /\ \A k \in Conf :
       /\ k.options \in Options /\ k.batchSize \in Nat \ {0}
       /\ k.fields \in Seq([name : Names, type : [id : STRING, unit : STRING, tz : STRING]])
       /\ \A i \in DOMAIN k.fields :
            k.fields[i].type.id = "TIMESTAMP" => k.fields[i].type.unit \in DOMAIN Ticks
       /\ k.tables \subseteq Seq(Seq(Values))
       /\ \A rows \in k.tables : \A i \in DOMAIN rows :
            DOMAIN rows[i] = DOMAIN k.fields /\ \A c \in DOMAIN k.fields : IsValue(rows[i][c])

\* LocalOffset covers the instants of the timestamps that occur.
ASSUME InstantAssumption ==
  \A k \in Conf : \A rows \in k.tables : \A i \in DOMAIN rows : \A c \in DOMAIN k.fields :
    LET t == k.fields[c].type IN
    t.id = "TIMESTAMP" =>
      \A cell \in Convert(t, rows[i][c]) :
        cell.state = "value" => ToTime(cell.datum.n, t.unit) \in Instant

VARIABLES
  conf,      \* the configuration
  runs,      \* how many runs were started
  status,    \* of the last run: "none", "running", "nil", "failed"
  source,    \* the rows its query selects, driver values
  next,      \* how many of them the source has sent
  sent,      \* the batch on its way to the sink
  batch,     \* the batch the sink is inserting
  chunk,     \* the statement it will execute next
  work,      \* the destination table as its transaction sees it
  table,     \* the destination table: the stored rows, by key
  refused    \* the database found a statement malformed

transactionVars == <<batch, chunk, work>>
vars == <<conf, runs, status, source, next, sent, transactionVars, table, refused>>

Init ==
  /\ conf \in Conf
  /\ runs = 0 /\ status = "none"
  /\ source = <<>> /\ next = 0
  /\ sent = NoBatch /\ batch = NoBatch /\ chunk = 0
  /\ work = <<>> /\ table = <<>>
  /\ refused = FALSE

Columns == DOMAIN conf.fields
Chunks ==
  TotalChunks(Len(batch), RowsPerStmt(conf.options.maxPlaceholders, Len(conf.fields)))

\* A run builds its source, sink and pipeline anew.
StartRun(rows) ==
  /\ status # "running" /\ runs < MaxRuns
  /\ runs' = runs + 1 /\ status' = "running"
  /\ source' = rows /\ next' = 0
  /\ UNCHANGED <<conf, sent, transactionVars, table, refused>>

\* A failure of either stage ends the run; what was not committed is gone.
Fail ==
  /\ status' = "failed"
  /\ sent' = NoBatch /\ batch' = NoBatch /\ chunk' = 0 /\ work' = <<>>
  /\ UNCHANGED table

\* The batches of cells the next rows may become.
Conversions ==
  LET last == Min({next + conf.batchSize, Len(source)})
      cells(i) == {row \in [Columns -> UNION {Convert(conf.fields[c].type, source[i][c]) : c \in Columns}] :
                     \A c \in Columns : row[c] \in Convert(conf.fields[c].type, source[i][c])}
  IN  {b \in [1 .. (last - next) -> UNION {cells(i) : i \in (next + 1) .. last}] :
         \A i \in DOMAIN b : b[i] \in cells(next + i)}

\* The source sends a batch, unless a value of it cannot be converted.
SourceSends ==
  /\ status = "running" /\ sent = NoBatch /\ next < Len(source)
  /\ \E b \in Conversions :
       /\ next' = next + Len(b)
       /\ IF \E i \in DOMAIN b : Error \in Range(b[i]) THEN Fail
          ELSE sent' = b /\ UNCHANGED <<status, transactionVars, table>>
  /\ UNCHANGED <<conf, runs, source, refused>>

\* Consume up to BeginTx.
Consume ==
  /\ status = "running" /\ batch = NoBatch /\ sent # NoBatch
  /\ IF ConstructErr(conf.options) \/ ~OpenAccepts(conf.options, conf.fields) THEN Fail
     ELSE /\ batch' = sent /\ sent' = NoBatch
          /\ chunk' = 1 /\ work' = table
          /\ UNCHANGED <<status, table>>
  /\ UNCHANGED <<conf, runs, source, next, refused>>

\* The table after rows were inserted into t one by one, by primary key.
Upserted(t, rows) ==
  [k \in DOMAIN t \cup {rows[i][1] : i \in DOMAIN rows} |->
     LET mine == {i \in DOMAIN rows : rows[i][1] = k}
     IN  IF mine = {} THEN t[k] ELSE rows[Max(mine)]]

Conflicts(t, rows) ==
  \/ \E i \in DOMAIN rows : rows[i][1] \in DOMAIN t
  \/ \E i, j \in DOMAIN rows : i # j /\ rows[i][1] = rows[j][1]

\* A statement is executed; a database may refuse to update a row twice in one.
Exec ==
  LET stmt == ChunkStatement(conf.options, conf.fields, batch, chunk)
      accepted == Accepts(conf.options, stmt)
      rows == Inserted(stmt)
  IN
  /\ status = "running" /\ batch # NoBatch /\ chunk <= Chunks
  /\ refused' = (refused \/ ~accepted)
  /\ IF ~accepted \/ (conf.options.clause = "none" /\ Conflicts(work, rows)) THEN Fail
     ELSE /\ work' = Upserted(work, rows)
          /\ chunk' = chunk + 1
          /\ UNCHANGED <<status, sent, batch, table>>
  /\ UNCHANGED <<conf, runs, source, next>>

\* A commit that fails may have stored the rows.
Commit(ok, stored) ==
  /\ status = "running" /\ batch # NoBatch /\ chunk > Chunks
  /\ ok => stored
  /\ table' = IF stored THEN work ELSE table
  /\ batch' = NoBatch /\ chunk' = 0 /\ work' = <<>>
  /\ IF ok THEN UNCHANGED <<status, sent>>
     ELSE status' = "failed" /\ sent' = NoBatch
  /\ UNCHANGED <<conf, runs, source, next, refused>>

\* The stream ends and Finish returns New's error, if there is one.
Finish ==
  /\ status = "running"
  /\ next = Len(source) /\ sent = NoBatch /\ batch = NoBatch
  /\ status' = IF ConstructErr(conf.options) THEN "failed" ELSE "nil"
  /\ UNCHANGED <<conf, runs, source, next, sent, transactionVars, table, refused>>

\* A query, a statement or the run's context may fail at any point.
Fault ==
  /\ status = "running"
  /\ Fail
  /\ UNCHANGED <<conf, runs, source, next, refused>>

Terminated == status # "running" /\ runs = MaxRuns /\ UNCHANGED vars

Next ==
  \/ \E rows \in conf.tables : StartRun(rows)
  \/ SourceSends \/ Consume \/ Exec \/ Finish \/ Fault
  \/ \E ok, stored \in BOOLEAN : Commit(ok, stored)
  \/ Terminated

Spec == Init /\ [][Next]_vars

----------------------------------------------------------------------------
TypeOf(c) == conf.fields[c].type

\* The cells a value of the source may have become.
CellsOf(rows, i, c) == Convert(TypeOf(c), rows[i][c]) \ {Error}

\* What the sink may bind for it.
ValuesOf(rows, i, c) == {Extract(TypeOf(c), cell) : cell \in CellsOf(rows, i, c)}

\* The database finds nothing malformed in any statement of the sink, whatever
\* names, options and batch sizes New and open let through: every name parses
\* and no column appears twice as the database compares names, and a statement's
\* markers are exactly its arguments, also when its text was prepared for other
\* rows (sink.go 458-513, 540-638, 695-772).
StatementsAreAccepted == ~refused

\* "Re-running the pipeline updates existing rows instead of failing on the
\* primary key" (main.go 1-4): once a run returns nil, the destination holds for
\* each key the last row the source had for it, every column of it, whatever
\* earlier runs had committed before they failed.
TransferIsComplete ==
  status = "nil" =>
    \A i \in DOMAIN source :
      (\A j \in (i + 1) .. Len(source) : ValuesOf(source, j, 1) \cap ValuesOf(source, i, 1) = {}) =>
        \E key \in ValuesOf(source, i, 1) :
          /\ key \in DOMAIN table
          /\ \A c \in Columns : table[key][c] \in ValuesOf(source, i, c)

\* What the sink binds for a cell, the source converts back to the same cell, in
\* whichever form another driver returns it.  Of a timestamp it may return a text:
\* with an offset of whole minutes that is the same cell too; without an offset it
\* is if the declared zone's clock shows the text at the cell's instant only, and
\* not if the database wrote it in another zone or when a clock was put back.  The
\* text the CSV format writes also becomes the same cell, save for the base64 of a
\* binary and for a zone whose offset then had seconds, which RFC 3339 drops
\* (sqlsink/types.go, sqlsource/types.go 55-317, filesink/csv.go 290-325).
ValuesRoundTrip ==
  \A rows \in conf.tables : \A i \in DOMAIN rows : \A c \in Columns :
    LET t == TypeOf(c) IN
    \A cell \in CellsOf(rows, i, c) :
      LET at == ToTime(cell.datum.n, t.unit) IN
      /\ \A v \in Stored(Extract(t, cell)) :
           (t.id = "TIMESTAMP" => SaysInstant(t, v.datum, at)) => Convert(t, v) = {cell}
      /\ (/\ cell # Null /\ CsvSupported(t) /\ t.id # "BINARY"
          /\ t.id = "TIMESTAMP" => Offset(CsvTimestampLocation(t.tz), at) % Minute = 0) =>
           Convert(t, Scanned("string", CsvText(t, cell))) = {cell}

\* A timestamp text without an offset is a reading of the clock in the declared
\* zone (sqlsource/types.go 274-286): the CSV format, which resolves the zone on
\* its own, shows the same reading again, unless the clock skipped it.
NaiveTextIsLocalTime ==
  \A rows \in conf.tables : \A i \in DOMAIN rows : \A c \in Columns :
    LET v == rows[i][c]
        zone == CsvTimestampLocation(TypeOf(c).tz)
    IN
    (/\ v.datum.form = "naive" /\ TypeOf(c).id = "TIMESTAMP"
     /\ \E at \in Instant : at + Offset(zone, at) = v.datum.n) =>
      \A cell \in CellsOf(rows, i, c) : CsvText(TypeOf(c), cell).n = v.datum.n
=============================================================================
