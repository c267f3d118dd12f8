---------------------------- MODULE MCCsvWriter ----------------------------
(***************************************************************************)
(* Every string cell of up to three of the characters that matter, and the *)
(* two texts that are quoted for other reasons.                            *)
(***************************************************************************)
EXTENDS CsvWriter

Alphabet == {"a", Delim, Quote, CR, LF, Backslash, Equals}

Characters == Alphabet \cup {Space, Dot, Apostrophe, "name", "count", "null", "1"}

ShortTexts == UNION {[1 .. n -> Alphabet] : n \in 0 .. 3}
                \cup {<<Backslash, Dot>>, <<Space, "a">>}

SomeNumbers == {<<Equals, "1">>}
=============================================================================
