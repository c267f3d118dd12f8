----------------------------- MODULE MCSqlSink -----------------------------
(***************************************************************************)
(* Values for TLC.  With four placeholders a schema of two columns takes   *)
(* two rows a statement, and five rows take two full chunks, which share a *)
(* prepared statement, and a remainder; a schema of three takes one row.   *)
(***************************************************************************)
EXTENDS SqlSink

SinkNumCols == [pair |-> 2, triple |-> 3, wide |-> 5]

Good(s, n) == [schema |-> s, rows |-> n, valid |-> TRUE, openable |-> TRUE]

SinkBatches ==
  {Good("pair", 0), Good("pair", 2), Good("pair", 3), Good("pair", 5),
   Good("triple", 2),
   Good("triple", 6),  \* more than MaxRowsPerConsume
   Good("wide", 1),    \* more columns than MaxPlaceholders
   [Good("triple", 1) EXCEPT !.openable = FALSE],
   [Good("pair", 2) EXCEPT !.valid = FALSE]}
=============================================================================
