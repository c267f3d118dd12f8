----------------------------- MODULE SqlChunks -----------------------------
(***************************************************************************)
(* How sqlsink splits the rows of a batch over INSERT statements (insert,  *)
(* src/sqlsink/sink.go 434-523): chunks of as many rows as the placeholder *)
(* limit allows, a shorter one for the remainder, all of them numbered     *)
(* here from 1.  A chunk is the half-open range <<start, end>> of rows.    *)
(***************************************************************************)
EXTENDS Integers

\* open refuses a schema with more columns than maxPlaceholders, so this is
\* at least 1.
RowsPerStmt(maxPlaceholders, numCols) == maxPlaceholders \div numCols

NumFullChunks(numRows, rowsPerStmt) == numRows \div rowsPerStmt

Remainder(numRows, rowsPerStmt) == numRows % rowsPerStmt

TotalChunks_Floors(numRows, rowsPerStmt) == NumFullChunks(numRows, rowsPerStmt)
TotalChunks(numRows, rowsPerStmt) ==
  NumFullChunks(numRows, rowsPerStmt)
    + (IF Remainder(numRows, rowsPerStmt) > 0 THEN 1 ELSE 0)

\* The rows of chunk i: all of them when there is one chunk, the remainder
\* for the chunk after the full ones.
ChunkRange(numRows, rowsPerStmt, i) ==
  IF TotalChunks(numRows, rowsPerStmt) <= 1 THEN <<0, numRows>>
  ELSE IF i <= NumFullChunks(numRows, rowsPerStmt)
       THEN <<(i - 1) * rowsPerStmt, i * rowsPerStmt>>
       ELSE LET start == NumFullChunks(numRows, rowsPerStmt) * rowsPerStmt
            IN  <<start, start + Remainder(numRows, rowsPerStmt)>>

\* The full chunks share one prepared statement when there are several.
UsesPrepared(numRows, rowsPerStmt) ==
  NumFullChunks(numRows, rowsPerStmt) > 1

\* Whether chunk i is executed through the prepared statement.
ViaPrepared(numRows, rowsPerStmt, i) ==
  /\ UsesPrepared(numRows, rowsPerStmt)
  /\ i <= NumFullChunks(numRows, rowsPerStmt)
=============================================================================
