----------------------------- MODULE CsvWriter -----------------------------
(***************************************************************************)
(* The CSV format of filesink: the record writer (src/filesink/csv.go) over *)
(* the forked encoding/csv writer (src/filesink/csv_writer.go).  A text is *)
(* a sequence of characters; characters that are treated alike are one     *)
(* here.  The escape character, when there is one, is a single character.  *)
(*                                                                         *)
(* A definition X_Y is X with the mistake Y; no action uses it.            *)
(***************************************************************************)
EXTENDS Integers, Sequences, SequencesExt

CONSTANTS
  Char,      \* the characters
  Texts,     \* bound: what a string cell may hold
  Numbers,   \* bound: what a numeric cell may render as
  MaxRows    \* bound: rows written

Delim == "delim"  Quote == "quote"  CR == "cr"  LF == "lf"  Space == "space"
Backslash == "backslash"  Dot == "dot"  Apostrophe == "apostrophe"
Equals == "="     \* and +, -, @, tab

\* A text is a sequence of characters, and no number renders with a line break.
TextAssumption ==
  /\ {Delim, Quote, CR, LF, Space, Backslash, Dot, Apostrophe, Equals,
      "name", "count", "null"} \subseteq Char
  /\ Texts \subseteq Seq(Char) /\ Numbers \subseteq Seq(Char \ {CR, LF})
  /\ MaxRows \in Nat
ASSUME TextAssumption

\* A column of strings, whose name starts like a formula, and one of numbers.
Header == <<<<Equals, "name">>, <<"count">>>>
NullString == <<Equals, "null">>

NullCell == [kind |-> "null", text |-> <<>>]
StringCells == {[kind |-> "string", text |-> t] : t \in Texts} \cup {NullCell}
NumberCells == {[kind |-> "number", text |-> t] : t \in Numbers} \cup {NullCell}

VARIABLES
  conf,       \* the options: useCRLF, escape (WithEscapeCharacter), always
              \* (WithAlwaysEncapsulate), formulas, writeHeader
  rows,       \* the rows written
  out,        \* the characters written
  headerDone, \* w.headerDone
  closed

vars == <<conf, rows, out, headerDone, closed>>

Configs == [useCRLF : BOOLEAN, escape : BOOLEAN, always : BOOLEAN,
            formulas : BOOLEAN, writeHeader : BOOLEAN]

----------------------------------------------------------------------------
(* csvWriter.                                                              *)

FieldNeedsQuotes_ForgetsLF(w, f) ==
  \/ w.always
  \/ f # <<>> /\ (Head(f) = Space \/ \E i \in DOMAIN f : f[i] \in {CR, Quote, Delim})
FieldNeedsQuotes(w, f) ==
  \/ w.always
  \/ /\ f # <<>>
     /\ \/ f = <<Backslash, Dot>>
        \/ \E i \in DOMAIN f : f[i] \in {LF, CR, Quote, Delim}
        \/ Head(f) = Space

\* A character inside quotes.
Quoted(w, c) ==
  IF w.escape /\ c = Backslash THEN <<Backslash, Backslash>>
  ELSE IF c = Quote THEN IF w.escape THEN <<Backslash, Quote>> ELSE <<Quote, Quote>>
  ELSE IF w.useCRLF /\ c = CR THEN <<>>
  ELSE IF w.useCRLF /\ c = LF THEN <<CR, LF>>
  ELSE <<c>>

Field(w, f) ==
  IF FieldNeedsQuotes(w, f)
  THEN <<Quote>> \o FlattenSeq([i \in DOMAIN f |-> Quoted(w, f[i])]) \o <<Quote>>
  ELSE f

LineEnd(w) == IF w.useCRLF THEN <<CR, LF>> ELSE <<LF>>

Line(w, fs) == Field(w, fs[1]) \o <<Delim>> \o Field(w, fs[2]) \o LineEnd(w)

----------------------------------------------------------------------------
(* csvRecordWriter.                                                        *)

EscapeFormula_IgnoresCR(f) ==
  IF f # <<>> /\ Head(f) = Equals THEN <<Apostrophe>> \o f ELSE f
EscapeFormula(f) ==
  IF f # <<>> /\ Head(f) \in {Equals, CR} THEN <<Apostrophe>> \o f ELSE f

WithFormulas(w, f) == IF w.formulas THEN EscapeFormula(f) ELSE f

\* A cell's text: the null string, a string, or a number, left as it is.
CellText(w, c) ==
  IF c.kind = "null" THEN WithFormulas(w, NullString)
  ELSE IF c.kind = "string" THEN WithFormulas(w, c.text) ELSE c.text

RowTexts(w, row) == [i \in DOMAIN row |-> CellText(w, row[i])]

HeaderTexts(w) == [i \in DOMAIN Header |-> WithFormulas(w, Header[i])]

\* maybeWriteHeader: what it writes before a row or at the end.
HeaderLine == IF conf.writeHeader /\ ~headerDone THEN Line(conf, HeaderTexts(conf)) ELSE <<>>

Init ==
  /\ conf \in Configs
  /\ rows = <<>> /\ out = <<>>
  /\ headerDone = FALSE /\ closed = FALSE

\* Write, for a record of one row; a record of another schema is an error
\* before anything is written.
Write(row) ==
  /\ ~closed
  /\ Len(rows) < MaxRows
  /\ out' = out \o HeaderLine \o Line(conf, RowTexts(conf, row))
  /\ headerDone' = (headerDone \/ conf.writeHeader)
  /\ rows' = Append(rows, row)
  /\ UNCHANGED <<conf, closed>>

Close ==
  /\ ~closed
  /\ out' = out \o HeaderLine
  /\ headerDone' = (headerDone \/ conf.writeHeader)
  /\ closed' = TRUE
  /\ UNCHANGED <<conf, rows>>

Terminated == closed /\ UNCHANGED vars

Next ==
  \/ \E c \in StringCells, d \in NumberCells : Write(<<c, d>>)
  \/ Close \/ Terminated

Spec == Init /\ [][Next]_vars

----------------------------------------------------------------------------
(* A reader of the format: RFC 4180, or with an escape character inside    *)
(* quotes.  It reads one character at a time; field and record are the     *)
(* parts read so far.                                                      *)

At(mode, field, record, table) ==
  [mode |-> mode, field |-> field, record |-> record, table |-> table]

StartOfText == At("start", <<>>, <<>>, <<>>)

Wrong(s) == At("error", s.field, s.record, s.table)
Goes(s, mode) == At(mode, s.field, s.record, s.table)
Reads(s, mode, c) == At(mode, Append(s.field, c), s.record, s.table)
EndsField(s) == At("start", <<>>, Append(s.record, s.field), s.table)
EndsRecord(s) == At("start", <<>>, <<>>, Append(s.table, Append(s.record, s.field)))

\* After a field: a delimiter, or the end of the line.
AfterField(w, s, c) ==
  IF c = Delim THEN EndsField(s)
  ELSE IF w.useCRLF /\ c = CR THEN Goes(s, "cr")
  ELSE IF ~w.useCRLF /\ c = LF THEN EndsRecord(s)
  ELSE Wrong(s)

Reader(w, s, c) ==
  CASE s.mode \in {"start", "plain"} ->
         IF c \in {Delim, CR, LF} THEN AfterField(w, s, c)
         ELSE IF c # Quote THEN Reads(s, "plain", c)
         ELSE IF s.mode = "start" THEN Goes(s, "quoted") ELSE Wrong(s)
    [] s.mode = "quoted" ->
         IF w.escape /\ c = Backslash THEN Goes(s, "escaped")
         ELSE IF c = Quote THEN Goes(s, "unquoted")
         ELSE Reads(s, "quoted", c)
    [] s.mode = "escaped" -> Reads(s, "quoted", c)
    [] s.mode = "unquoted" ->
         IF c = Quote /\ ~w.escape THEN Reads(s, "quoted", c) ELSE AfterField(w, s, c)
    [] s.mode = "cr" -> IF c = LF THEN EndsRecord(s) ELSE Wrong(s)
    [] s.mode = "error" -> s

\* From state s, to the end of the text.
ReadText(w, s, text) ==
  LET state[i \in 0 .. Len(text)] ==
        IF i = 0 THEN s ELSE Reader(w, state[i - 1], text[i])
  IN  state[Len(text)]

ReadBack == ReadText(conf, StartOfText, out)

----------------------------------------------------------------------------
\* With WithCRLF every line break in a field becomes CRLF and a bare CR is
\* dropped (csv.go 32-34).
AsWritten(w, f) ==
  IF ~w.useCRLF THEN f
  ELSE FlattenSeq([i \in DOMAIN f |-> IF f[i] = CR THEN <<>>
                                      ELSE IF f[i] = LF THEN <<CR, LF>> ELSE <<f[i]>>])

ExpectedRow(w, texts) == [i \in DOMAIN texts |-> AsWritten(w, texts[i])]
ExpectedHeader ==
  IF conf.writeHeader /\ (closed \/ rows # <<>>)
  THEN <<ExpectedRow(conf, HeaderTexts(conf))>> ELSE <<>>

\* A reader gets back what was written, cell by cell: the header exactly once
\* and first, also when there is no row, then every row, whatever mixture of
\* quotes, delimiters, line breaks and escape characters its cells hold and
\* whichever options are combined (csv_writer.go 89-175, csv.go 207-231).
RoundTrip ==
  LET read == ReadBack
  IN  /\ read.mode = "start" /\ read.field = <<>> /\ read.record = <<>>
      /\ read.table = ExpectedHeader
                        \o [i \in DOMAIN rows |-> ExpectedRow(conf, RowTexts(conf, rows[i]))]

\* With WithEscapeFormulas no cell of a string column reaches the reader as a
\* formula, header and null string included, also where WithCRLF drops a CR in
\* front of one; numbers stay parseable (csv.go 68-83).  (A leading CR can
\* still reach the reader: the one WithCRLF makes of a leading LF.)
FormulasAreEscaped ==
  conf.formulas =>
    LET table == ReadBack.table
        first == Len(table) - Len(rows)
    IN  /\ \A i \in DOMAIN table : table[i][1] # <<>> => Head(table[i][1]) # Equals
        /\ \A i \in DOMAIN rows : rows[i][2].kind = "number" =>
             table[first + i][2] = rows[i][2].text
=============================================================================
