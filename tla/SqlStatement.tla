---------------------------- MODULE SqlStatement ----------------------------
(***************************************************************************)
(* The INSERT statements of sqlsink (src/sqlsink/sink.go): which names and *)
(* options New and open accept, and the text and arguments of a statement. *)
(*                                                                         *)
(* A name is a word in lower or mixed case, with the kind of its           *)
(* characters; a table is a sequence of names, its "."-separated segments. *)
(* A statement is a record of the parts of its text.                       *)
(*                                                                         *)
(* A definition X_Y is X with the mistake Y; no other definition uses it.  *)
(***************************************************************************)
EXTENDS ColumnValues, Sequences, SqlChunks

CONSTANT Reserved  \* sqlReservedWords

\* chars: "plain", "digit" (a leading one), "other" (a character that is not
\* valid unquoted), or "empty".
Name(word, case, chars) == [word |-> word, case |-> case, chars |-> chars]
Names ==
  [word : STRING, case : {"lower", "upper"}, chars : {"plain", "digit", "other", "empty"}]

\* strings.ToLower
Lower(name) == [name EXCEPT !.case = "lower"]

----------------------------------------------------------------------------
(* The sink's options o: table, quoted (WithIdentifierQuote), extra (the   *)
(* names given to WithAdditionalReservedWords), marker, clause ("none",    *)
(* "upsert", or one with a marker of its own, "question" or "dollar"), and *)
(* maxPlaceholders.                                                        *)

Options ==
  [table : Seq(Names), quoted : BOOLEAN, extra : SUBSET Names,
   marker : {"question", "dollar"},
   clause : {"none", "upsert", "question", "dollar"}, maxPlaceholders : Int]

HasValidIdentifierChars(name) == name.chars = "plain"

IsReservedWord_CaseSensitive(name, extra) ==
  name \in {Name(w, "lower", "plain") : w \in Reserved} \cup extra
IsReservedWord(name, extra) ==
  Lower(name) \in {Name(w, "lower", "plain") : w \in Reserved} \cup {Lower(e) : e \in extra}

IsValidIdentifier(name, extra) ==
  HasValidIdentifierChars(name) /\ ~IsReservedWord(name, extra)

HasValidTableSegments(table) ==
  Len(table) \in 1 .. 2 /\ \A i \in DOMAIN table : table[i].chars # "empty"

IsValidTableIdentifier(table, extra) ==
  HasValidTableSegments(table) /\ \A i \in DOMAIN table : IsValidIdentifier(table[i], extra)

\* What New finds wrong: an option's value, or the table.
ConstructErr(o) ==
  \/ o.clause \in {"question", "dollar"}
  \/ o.maxPlaceholders <= 0
  \/ \E e \in o.extra : e.chars = "empty"
  \/ IF o.quoted THEN ~HasValidTableSegments(o.table)
     ELSE ~IsValidTableIdentifier(o.table, o.extra)

\* The key a column is known by in open's search for duplicates.
ColumnKey_Unfolded(o, name) == name
ColumnKey(o, name) == IF o.quoted THEN name ELSE Lower(name)

\* open: the fields of the first batch's schema, each with a name and a type.
OpenAccepts(o, fields) ==
  /\ Len(fields) \in 1 .. o.maxPlaceholders
  /\ \A i \in DOMAIN fields :
       /\ IF o.quoted THEN fields[i].name.chars # "empty"
          ELSE IsValidIdentifier(fields[i].name, o.extra)
       /\ fields[i].type.id \in Supported
       /\ \A j \in 1 .. (i - 1) :
            ColumnKey(o, fields[i].name) # ColumnKey(o, fields[j].name)

----------------------------------------------------------------------------
(* The text.                                                               *)

\* marker: "?" has no number; "$" and a WithPlaceholderFunc do.
Marker(o, n) == [style |-> o.marker, n |-> IF o.marker = "question" THEN 0 ELSE n]

\* quotedIdentifier and quotedTable, which quotes every segment.
Quoted(o, name) == [name |-> name, quoted |-> o.quoted]
QuotedTable(o) == [i \in DOMAIN o.table |-> Quoted(o, o.table[i])]

\* The number of the marker in column c of a row: every statement starts at 1.
MarkerNumber_FromBatch(start, row, numCols, c) == row * numCols + c
MarkerNumber(start, row, numCols, c) == (row - start) * numCols + c

\* The text for the rows [start, end) of a batch, which are numbered from 0.
Text(o, fields, start, end) ==
  [table   |-> QuotedTable(o),
   columns |-> [i \in DOMAIN fields |-> Quoted(o, fields[i].name)],
   values  |-> [r \in 1 .. (end - start) |->
                  [c \in DOMAIN fields |->
                     Marker(o, MarkerNumber(start, start + r - 1, Len(fields), c))]],
   clause  |-> o.clause]

\* buildInsertQuery has no rows: its text is that of as many of them.
BuildInsertQuery(o, fields, numRows) == Text(o, fields, 0, numRows)

\* The arguments for the rows [start, end), row by row.
BuildArgs_FromZero(fields, rows, start, end) ==
  [k \in 1 .. ((end - start) * Len(fields)) |->
     LET c == ((k - 1) % Len(fields)) + 1
     IN  Extract(fields[c].type, rows[(k - 1) \div Len(fields) + 1][c])]
BuildArgs(fields, rows, start, end) ==
  [k \in 1 .. ((end - start) * Len(fields)) |->
     LET c == ((k - 1) % Len(fields)) + 1
     IN  Extract(fields[c].type, rows[start + (k - 1) \div Len(fields) + 1][c])]

\* buildInsert
BuildInsert(o, fields, rows, start, end) ==
  [text |-> Text(o, fields, start, end), args |-> BuildArgs(fields, rows, start, end)]

\* What insert executes for chunk i of a batch: a prepared statement's text was
\* built from a number of rows alone.
ChunkStatement(o, fields, rows, i) ==
  LET perStmt == RowsPerStmt(o.maxPlaceholders, Len(fields))
      range == ChunkRange(Len(rows), perStmt, i)
  IN  IF ViaPrepared(Len(rows), perStmt, i)
      THEN [text |-> BuildInsertQuery(o, fields, perStmt),
            args |-> BuildArgs(fields, rows, range[1], range[2])]
      ELSE BuildInsert(o, fields, rows, range[1], range[2])

----------------------------------------------------------------------------
(* The database, external.  It reserves the words the sink knows of, folds *)
(* the case of a name that is not quoted and not of one that is, as        *)
(* PostgreSQL does (SQLite folds both), takes at most as many parameters   *)
(* as the sink was told, and fills each marker with the argument of its    *)
(* number or, without one, of its place.                                   *)

ArgAt(text, r, c) ==
  IF text.values[r][c].style = "question" THEN (r - 1) * Len(text.columns) + c
  ELSE text.values[r][c].n

NameParses(o, q) ==
  /\ q.name.chars # "empty"
  /\ ~q.quoted => /\ q.name.chars = "plain"
                  /\ q.name.word \notin Reserved
                  /\ q.name.word \notin {e.word : e \in {x \in o.extra : x.chars = "plain"}}

SameColumn(p, q) == IF p.quoted THEN p = q ELSE p.name.word = q.name.word

Accepts(o, stmt) ==
  LET text == stmt.text
      places == {<<r, c>> : r \in DOMAIN text.values, c \in DOMAIN text.columns}
  IN  /\ Len(text.table) \in 1 .. 2
      /\ \A i \in DOMAIN text.table : NameParses(o, text.table[i])
      /\ \A i \in DOMAIN text.columns :
           /\ NameParses(o, text.columns[i])
           /\ \A j \in DOMAIN text.columns : SameColumn(text.columns[i], text.columns[j]) => i = j
      /\ places # {}
      /\ {ArgAt(text, p[1], p[2]) : p \in places} = DOMAIN stmt.args
      /\ Len(stmt.args) = Cardinality(places)
      /\ Len(stmt.args) <= o.maxPlaceholders
      /\ text.clause \in {"none", "upsert"}

\* The rows an accepted statement inserts.
Inserted(stmt) ==
  [r \in DOMAIN stmt.text.values |->
     [c \in DOMAIN stmt.text.columns |-> stmt.args[ArgAt(stmt.text, r, c)]]]
=============================================================================
