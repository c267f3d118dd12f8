---------------------------- MODULE ColumnValues ----------------------------
(***************************************************************************)
(* How a column's values get into and out of Arrow: the converters of      *)
(* sqlsource (src/sqlsource/types.go), the extractors of sqlsink           *)
(* (src/sqlsink/types.go), and the formatters of the CSV format            *)
(* (src/filesink/csv.go).                                                  *)
(*                                                                         *)
(* A datum is what a value says: a number, a truth value, or a text, which *)
(* may read as one of these or as a point in time.  Time is counted in     *)
(* ticks of the finest unit.  The numbers of a FLOAT64 column are          *)
(* the integers a float64 holds exactly.                                   *)
(*                                                                         *)
(* A definition X_Y is X with the mistake Y; no other definition uses it.  *)
(***************************************************************************)
EXTENDS Integers, FiniteSets

CONSTANTS
  MinInt, MaxInt,  \* the range of an int64
  Ticks,           \* the ticks in each unit of time
  Minute,          \* the ticks in a minute
  LocalOffset      \* the local time zone's offset from UTC at each instant

ASSUME ValuesAssumption ==
  /\ MinInt \in Int /\ MaxInt \in Int
  /\ Minute \in Nat \ {0}
  /\ \A u \in DOMAIN Ticks : Ticks[u] \in Nat \ {0} /\ Minute % Ticks[u] = 0
  /\ \A i \in DOMAIN LocalOffset :
       /\ i \in Int /\ LocalOffset[i] \in Int
       /\ \A u \in DOMAIN Ticks : LocalOffset[i] % Ticks[u] = 0

Instant == DOMAIN LocalOffset

\* A schema field's type; unit and tz matter for TIMESTAMP only.
Type(id, unit, tz) == [id |-> id, unit |-> unit, tz |-> tz]

\* form: "plain" (not a text), or what a text reads as: "number", "truth", "word"
\* or "base64" (nothing else), "bit" (the single byte 0 or 1), "stamp" (a wall clock reading
\* n with a UTC offset), "naive" (a reading without one).
Datum(form, n, off) == [form |-> form, n |-> n, off |-> off]
Plain(n) == Datum("plain", n, 0)

\* What a driver returns: a Go value of some kind.
Scanned(kind, d) == [kind |-> kind, datum |-> d]
Nil == Scanned("nil", Plain(0))
IsText(v) == v.kind \in {"bytes", "string"}

Data ==
  [form : {"plain", "number", "truth", "word", "base64", "bit", "stamp", "naive"},
   n : Int, off : Int]

Values ==
  [kind : {"nil", "int", "float", "bool", "time", "bytes", "string"}, datum : Data]

\* The values there are: an int is an int64, a truth value is 0 or 1.
IsValue(v) ==
  /\ v \in Values
  /\ ~IsText(v) => v.datum = Plain(v.datum.n)
  /\ v.kind = "int" => v.datum.n \in MinInt .. MaxInt
  /\ v.kind = "bool" \/ v.datum.form \in {"truth", "bit"} => v.datum.n \in {0, 1}

\* A cell of an Arrow column, or the error of append.
Cell(d) == [state |-> "value", datum |-> d]
Null == [state |-> "null", datum |-> Plain(0)]
Error == [state |-> "error", datum |-> Plain(0)]

Cells == [state : {"value", "null"}, datum : Data]

----------------------------------------------------------------------------
(* Time zones.                                                             *)

\* timestampTextLocation: no declared zone and any spelling of "UTC" mean UTC;
\* the zone database may not know the zone.
TimestampTextLocation_AlwaysUTC(tz) == "UTC"
TimestampTextLocation(tz) ==
  CASE tz \in {"", "utc"} -> "UTC"
    [] tz = "local" -> "local"
    [] OTHER -> "unknown"

\* csvTimestampLocation is written to agree with it.
CsvTimestampLocation(tz) ==
  IF tz = "" \/ tz = "utc" THEN "UTC"
  ELSE IF tz = "local" THEN "local" ELSE "unknown"

Offset(loc, i) == IF loc = "UTC" THEN 0 ELSE LocalOffset[i]

\* The instants at which the clock shows a reading.
Shown(loc, wall) == {i \in Instant : i + Offset(loc, i) = wall}

\* time.ParseInLocation: where the clock shows the reading twice, either instant;
\* where it skips it, one of the zone's offsets is taken.
ReadClock(loc, wall) ==
  LET offsets == {Offset(loc, i) : i \in Instant}
      shown == {i \in {wall - o : o \in offsets} \cap Instant : i + Offset(loc, i) = wall}
  IN  IF shown # {} THEN shown ELSE {wall - o : o \in offsets}

\* arrow.TimestampFromTime and Timestamp.ToTime.
FromTime(i, unit) == i \div Ticks[unit]
ToTime_IgnoresUnit(n, unit) == n
ToTime(n, unit) == n * Ticks[unit]

----------------------------------------------------------------------------
(* The converters of sqlsource: the set of cells append may make of a      *)
(* driver's value.                                                         *)

\* strconv.ParseInt and ParseBool on a text; a bit is not one.
ParsesAsInt(d) == d.form = "number" /\ d.n \in MinInt .. MaxInt
ParsesAsBool(d) == d.form = "truth" \/ (d.form = "number" /\ d.n \in {0, 1})

\* A text with an offset, in hours and minutes, says which instant it is; without
\* one it is read in the declared zone.  A text finer than the unit is an error.
ParseTimestampText(t, d) ==
  IF \/ d.form \notin {"stamp", "naive"} \/ d.n % Ticks[t.unit] # 0
     \/ d.form = "stamp" /\ d.off % Minute # 0
  THEN {Error}
  ELSE IF d.form = "stamp" THEN {Cell(Plain(FromTime(d.n - d.off, t.unit)))}
  ELSE IF TimestampTextLocation(t.tz) = "unknown" THEN {Error}
  ELSE {Cell(Plain(FromTime(i, t.unit))) : i \in ReadClock(TimestampTextLocation(t.tz), d.n)}

\* The types that converterFor and extractorFor know.
Supported == {"INT64", "FLOAT64", "BOOL", "STRING", "BINARY", "TIMESTAMP"}

Convert(t, v) ==
  LET d == v.datum IN
  IF t.id \notin Supported THEN {Error}
  ELSE
  CASE v.kind = "nil" -> {Null}
    [] t.id = "INT64" /\ (v.kind = "int" \/ (IsText(v) /\ ParsesAsInt(d))) ->
         {Cell(Plain(d.n))}
    [] t.id = "FLOAT64" /\ (v.kind \in {"float", "int"} \/ (IsText(v) /\ d.form = "number")) ->
         {Cell(Plain(d.n))}
    [] t.id = "BOOL" /\ v.kind \in {"bool", "int"} ->
         {Cell(Plain(IF d.n # 0 THEN 1 ELSE 0))}
    [] t.id = "BOOL" /\ IsText(v) /\ (ParsesAsBool(d) \/ (v.kind = "bytes" /\ d.form = "bit")) ->
         {Cell(Plain(d.n))}
    [] t.id \in {"STRING", "BINARY"} /\ IsText(v) -> {Cell(d)}
    [] t.id = "TIMESTAMP" /\ v.kind = "time" -> {Cell(Plain(FromTime(d.n, t.unit)))}
    [] t.id = "TIMESTAMP" /\ IsText(v) -> ParseTimestampText(t, d)
    [] OTHER -> {Error}

----------------------------------------------------------------------------
(* The extractors of sqlsink, and the formatters of the CSV format.        *)

\* The declared zone plays no role any more.
Extract(t, c) ==
  IF c.state = "null" THEN Nil
  ELSE CASE t.id = "INT64" -> Scanned("int", c.datum)
         [] t.id = "FLOAT64" -> Scanned("float", c.datum)
         [] t.id = "BOOL" -> Scanned("bool", c.datum)
         [] t.id = "STRING" -> Scanned("string", c.datum)
         [] t.id = "BINARY" -> Scanned("bytes", c.datum)
         [] t.id = "TIMESTAMP" -> Scanned("time", Plain(ToTime(c.datum.n, t.unit)))

\* csvFormatterFor knows every type, but the zone database may not know a zone.
CsvSupported(t) ==
  /\ t.id \in Supported
  /\ t.id = "TIMESTAMP" => CsvTimestampLocation(t.tz) # "unknown"

\* RFC 3339 writes an offset in whole minutes: Go drops its seconds.
WrittenOffset(off) ==
  IF off >= 0 THEN (off \div Minute) * Minute ELSE -(((-off) \div Minute) * Minute)

\* The text of a cell that is not null: numbers with all their digits, base64 of
\* a binary, RFC 3339 in the declared zone of a timestamp.
CsvText(t, c) ==
  LET i == ToTime(c.datum.n, t.unit)
      off == Offset(CsvTimestampLocation(t.tz), i)
  IN  CASE t.id \in {"INT64", "FLOAT64"} -> Datum("number", c.datum.n, 0)
        [] t.id = "BOOL" -> Datum("truth", c.datum.n, 0)
        [] t.id = "STRING" -> c.datum
        [] t.id = "BINARY" -> Datum("base64", 0, 0)
        [] t.id = "TIMESTAMP" -> Datum("stamp", i + off, WrittenOffset(off))

----------------------------------------------------------------------------
\* The texts of an instant: the reading of a clock in UTC or the local zone, with
\* its offset or without.
InstantTexts(i) ==
  {Datum(form, i + o, IF form = "stamp" THEN o ELSE 0) :
     form \in {"stamp", "naive"}, o \in {0, Offset("local", i)}}

Texts(ds) == {Scanned(k, d) : k \in {"bytes", "string"}, d \in ds}

\* What another database may give back for a value that was bound to it: it
\* stores numbers, truth values and instants in a type of its own, and a driver
\* may return any type as text.
Stored(v) ==
  LET d == v.datum IN
  CASE v.kind = "nil" -> {Nil}
    [] v.kind = "int" -> {v} \cup Texts({Datum("number", d.n, 0)})
    [] v.kind = "float" -> {v, Scanned("int", d)} \cup Texts({Datum("number", d.n, 0)})
    [] v.kind = "bool" ->
         {v, Scanned("int", d), Scanned("bytes", Datum("bit", d.n, 0))}
         \cup Texts({Datum(form, d.n, 0) : form \in {"truth", "number"}})
    [] IsText(v) -> Texts({d})
    [] v.kind = "time" -> {v} \cup Texts(InstantTexts(d.n))

\* A text d of the timestamp i is one that a column of type t reads as i: its offset
\* has whole minutes or, when it has none, i is the only instant at which the
\* declared zone's clock shows it.
SaysInstant(t, d, i) ==
  /\ d.form = "stamp" => d.off % Minute = 0
  /\ d.form = "naive" =>
       TimestampTextLocation(t.tz) # "unknown" /\ Shown(TimestampTextLocation(t.tz), d.n) = {i}
=============================================================================
