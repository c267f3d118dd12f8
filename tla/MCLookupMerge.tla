--------------------------- MODULE MCLookupMerge ---------------------------
(***************************************************************************)
(* Values for TLC: batches of one or two rows over two ids and null.       *)
(***************************************************************************)
EXTENDS LookupMerge

ShortColumns == UNION {[1 .. n -> Id \cup {NullId}] : n \in 1 .. 2}
=============================================================================
