------------------------- MODULE SqlTransferProofs -------------------------
(***************************************************************************)
(* Theorems about SqlTransfer for every configuration: any options, names, *)
(* column types, limits, tables and number of runs.                        *)
(***************************************************************************)
EXTENDS SqlTransfer, FiniteSetTheorems, SequenceTheorems, TLAPS

----------------------------------------------------------------------------
(* Numbers.                                                                *)

LEMMA DivisionFacts ==
  ASSUME NEW n \in Int, NEW d \in Nat \ {0}
  PROVE  /\ n \div d \in Int /\ n % d \in Nat
         /\ n = d * (n \div d) + (n % d) /\ (n % d) < d
OBVIOUS

\* Quotient and remainder are the only numbers of their kind.
LEMMA DivisionUnique ==
  ASSUME NEW d \in Nat \ {0}, NEW q \in Int, NEW r \in 0 .. (d - 1)
  PROVE  (d * q + r) \div d = q /\ (d * q + r) % d = r
OBVIOUS

LEMMA ProductGrows ==
  ASSUME NEW d \in Nat, NEW i \in Nat, NEW j \in Nat, i <= j
  PROVE  i * d <= j * d /\ i * d \in Nat
OBVIOUS

\* A set of numbers with a bound has a largest: the numbers up to one of its
\* members are as many as that one.
LEMMA Largest ==
  ASSUME NEW n \in Nat, NEW S, S \subseteq 1 .. n, S # {}
  PROVE  Max(S) \in S /\ \A y \in S : y <= Max(S)
<1> DEFINE J == {j \in 1 .. n : \E i \in S : j <= i}
           m == Cardinality(J)
<1>1. IsFiniteSet(1 .. n) /\ J \in SUBSET (1 .. n)
  BY FS_Interval
<1>2. IsFiniteSet(J) /\ m \in Nat
  BY <1>1, FS_Subset, FS_CardinalityType
<1>3. ASSUME NEW x \in J PROVE x <= m
  <2>1. (1 .. x) \in SUBSET J
    OBVIOUS
  <2>2. Cardinality(1 .. x) = x
    BY FS_Interval
  <2> QED BY <1>2, <2>1, <2>2, FS_Subset
<1> HIDE DEF m
<1>4. m \in J
  <2> PICK s \in S : TRUE
    OBVIOUS
  <2>1. s \in Int /\ s >= 1
    OBVIOUS
  <2>2. m >= 1
    <3>1. s \in J
      OBVIOUS
    <3>2. s <= m
      BY <1>3, <3>1
    <3> QED BY <1>2, <2>1, <3>2
  <2>3. m <= n
    <3>1. Cardinality(1 .. n) = n
      BY FS_Interval
    <3> QED BY <1>1, <3>1, FS_Subset DEF m
  <2>4. ASSUME m \notin J PROVE FALSE
    <3>1. J \in SUBSET (1 .. (m - 1))
      <4> SUFFICES ASSUME NEW x \in J PROVE x \in 1 .. (m - 1)
        OBVIOUS
      <4>1. x <= m /\ x # m
        BY <1>3, <2>4
      <4> QED BY <1>2, <4>1
    <3>2. IsFiniteSet(1 .. (m - 1)) /\ Cardinality(1 .. (m - 1)) = m - 1
      BY <1>2, <2>2, FS_Interval
    <3>3. Cardinality(J) <= Cardinality(1 .. (m - 1))
      BY <3>1, <3>2, FS_Subset
    <3>4. m <= m - 1
      BY <3>2, <3>3 DEF m
    <3> QED BY <1>2, <3>4
  <2> QED BY <2>4
<1>5. PICK i \in S : m <= i
  BY <1>4
<1>6. \A y \in S : y \in J /\ y <= m
  BY <1>3
<1>7. m \in S /\ \A y \in S : m >= y
  BY <1>2, <1>5, <1>6
<1>8. \A x \in S : (\A y \in S : x >= y) => x = m
  BY <1>2, <1>7
<1> HIDE DEF J
<1> QED BY <1>7, <1>8 DEF Max

LEMMA MinOfTwo ==
  ASSUME NEW a \in Int, NEW b \in Int
  PROVE  Min({a, b}) = IF a <= b THEN a ELSE b
<1> DEFINE m == IF a <= b THEN a ELSE b
<1>1. m \in {a, b} /\ \A y \in {a, b} : m <= y
  OBVIOUS
<1>2. \A x \in {a, b} : (\A y \in {a, b} : x <= y) => x = m
  OBVIOUS
<1> HIDE DEF m
<1>3. Min({a, b}) = m
  BY <1>1, <1>2 DEF Min
<1> QED BY <1>3 DEF m

----------------------------------------------------------------------------
(* Conversions.                                                            *)

\* A type of a column, and a value it may hold.
HasUnit(t) == t.id = "TIMESTAMP" => t.unit \in DOMAIN Ticks

\* What each type's cells that are not null hold.
CellDatum(t, d) ==
  /\ d \in Data
  /\ t.id \notin {"STRING", "BINARY"} => d = Plain(d.n) /\ d.n \in Int
  /\ t.id = "INT64" => d.n \in MinInt .. MaxInt
  /\ t.id = "BOOL" => d.n \in {0, 1}

LEMMA TicksFacts ==
  ASSUME NEW u \in DOMAIN Ticks, NEW n \in Int
  PROVE  /\ Ticks[u] \in Nat \ {0}
         /\ FromTime(n, u) \in Int /\ ToTime(n, u) \in Int
BY ValuesAssumption DEF FromTime, ToTime

\* What a clock may mean by a reading is a number, and where it shows the
\* reading, an instant at which it does.
LEMMA ReadClockFacts ==
  ASSUME NEW loc, NEW wall \in Int
  PROVE  /\ ReadClock(loc, wall) \subseteq Int
         /\ \A at \in Instant : at + Offset(loc, at) = wall =>
              \A i \in ReadClock(loc, wall) : i \in Instant /\ i + Offset(loc, i) = wall
<1>1. \A i \in Instant : i \in Int /\ Offset(loc, i) \in Int
  BY ValuesAssumption DEF Instant, Offset
<1>2. ReadClock(loc, wall) \subseteq Int
  BY <1>1 DEF ReadClock
<1>3. ASSUME NEW at \in Instant, at + Offset(loc, at) = wall,
             NEW i \in ReadClock(loc, wall)
      PROVE  i \in Instant /\ i + Offset(loc, i) = wall
  <2> DEFINE offsets == {Offset(loc, j) : j \in Instant}
             shown == {j \in {wall - o : o \in offsets} \cap Instant : j + Offset(loc, j) = wall}
  <2>1. at = wall - Offset(loc, at) /\ Offset(loc, at) \in offsets
    BY <1>1, <1>3
  <2>2. at \in shown
    BY <1>3, <2>1
  <2>3. i \in shown
    BY <1>3, <2>2 DEF ReadClock
  <2> QED BY <2>3
<1> QED BY <1>2, <1>3

\* A reading that the clock shows at one instant only is read as that instant.
LEMMA ReadClockSingle ==
  ASSUME NEW loc, NEW wall \in Int, NEW i, Shown(loc, wall) = {i}
  PROVE  ReadClock(loc, wall) = {i} /\ i \in Instant /\ i + Offset(loc, i) = wall
<1>1. \A j \in Instant : j \in Int /\ Offset(loc, j) \in Int
  BY ValuesAssumption DEF Instant, Offset
<1> DEFINE offsets == {Offset(loc, j) : j \in Instant}
           shown == {j \in {wall - o : o \in offsets} \cap Instant : j + Offset(loc, j) = wall}
<1>2. i \in Instant /\ i + Offset(loc, i) = wall
  BY DEF Shown
<1>3. i = wall - Offset(loc, i) /\ Offset(loc, i) \in offsets
  BY <1>1, <1>2
<1>4. i \in shown
  BY <1>2, <1>3
<1>5. \A j \in shown : j = i
  BY DEF Shown
<1>6. shown = {i}
  BY <1>4, <1>5
<1>7. ReadClock(loc, wall) = shown
  BY <1>6 DEF ReadClock
<1> QED BY <1>2, <1>6, <1>7

LEMMA CellShape ==
  ASSUME NEW t, HasUnit(t), NEW v, IsValue(v), NEW cell \in Convert(t, v), cell # Error
  PROVE  /\ t.id \in Supported
         /\ cell = Null \/ (cell = Cell(cell.datum) /\ CellDatum(t, cell.datum))
<1> DEFINE d == v.datum
<1>1. t.id \in Supported
  BY DEF Convert
<1>2. CASE v.kind = "nil"
  BY <1>1, <1>2 DEF Convert, IsText
<1>3. CASE v.kind # "nil" /\ t.id \in {"INT64", "FLOAT64"}
  BY <1>1, <1>3 DEF Convert, IsText, IsValue, Values, Data, ParsesAsInt, Cell, Plain, Datum, CellDatum, Supported
<1>4. CASE v.kind # "nil" /\ t.id = "BOOL"
  BY <1>1, <1>4 DEF Convert, IsText, IsValue, Values, Data, ParsesAsBool, Cell, Plain, Datum, CellDatum, Supported
<1>5. CASE v.kind # "nil" /\ t.id \in {"STRING", "BINARY"}
  BY <1>1, <1>5 DEF Convert, IsText, IsValue, Values, Data, Cell, CellDatum, Supported
<1>6. CASE v.kind # "nil" /\ t.id = "TIMESTAMP"
  <2> USE DEF Values, Data, Plain, Datum
  <2>1. t.unit \in DOMAIN Ticks /\ d.n \in Int /\ d.off \in Int
    BY <1>6 DEF HasUnit, IsValue
  <2>2. \A i \in ReadClock(TimestampTextLocation(t.tz), d.n) : FromTime(i, t.unit) \in Int
    BY <2>1, ReadClockFacts, TicksFacts
  <2>3. FromTime(d.n, t.unit) \in Int /\ FromTime(d.n - d.off, t.unit) \in Int
    BY <2>1, TicksFacts
  <2>4. CASE v.kind = "time"
    BY <1>1, <1>6, <2>3, <2>4 DEF Convert, IsText, Cell, CellDatum
  <2>5. CASE IsText(v)
    BY <1>1, <1>6, <2>2, <2>3, <2>5 DEF Convert, IsText, ParseTimestampText, Cell, CellDatum
  <2>6. CASE v.kind # "time" /\ ~IsText(v)
    BY <1>1, <1>6, <2>6 DEF Convert, IsText
  <2> QED BY <2>4, <2>5, <2>6
<1> QED BY <1>1, <1>2, <1>3, <1>4, <1>5, <1>6 DEF Supported

\* Each unit divides the offsets of the zones that are known.
LEMMA OffsetFacts ==
  ASSUME NEW i \in Instant, NEW loc \in {"UTC", "local"}, NEW u \in DOMAIN Ticks
  PROVE  Offset(loc, i) \in Int /\ Offset(loc, i) % Ticks[u] = 0
<1>1. 0 % Ticks[u] = 0
  BY TicksFacts, 0 = Ticks[u] * 0 + 0, DivisionUnique
<1> QED BY <1>1, ValuesAssumption DEF Offset, Instant

\* Sums and differences of multiples of a unit are multiples.
LEMMA MultiplesAdd ==
  ASSUME NEW d \in Nat \ {0}, NEW a \in Int, NEW b \in Int, a % d = 0, b % d = 0
  PROVE  (a + b) % d = 0 /\ (a - b) % d = 0
<1> DEFINE p == a \div d
           q == b \div d
<1>1. p \in Int /\ q \in Int /\ a = d * p /\ b = d * q
  BY DivisionFacts
<1> HIDE DEF p, q
<1>2. a + b = d * (p + q) + 0 /\ a - b = d * (p - q) + 0
  BY <1>1
<1>3. (d * (p + q) + 0) % d = 0 /\ (d * (p - q) + 0) % d = 0
  BY <1>1, DivisionUnique, p + q \in Int, p - q \in Int, 0 \in 0 .. (d - 1)
<1> QED BY <1>2, <1>3

\* A number of ticks is a whole number of units exactly if it is unchanged
\* by the way there and back.
LEMMA UnitRoundTrip ==
  ASSUME NEW u \in DOMAIN Ticks, NEW n \in Int
  PROVE  /\ FromTime(ToTime(n, u), u) = n /\ ToTime(n, u) % Ticks[u] = 0
         /\ n % Ticks[u] = 0 => ToTime(FromTime(n, u), u) = n
<1> DEFINE d == Ticks[u]
<1>1. d \in Nat \ {0}
  BY TicksFacts
<1> HIDE DEF d
<1>2. n * d = d * n + 0
  BY <1>1
<1>3. (d * n + 0) \div d = n /\ (d * n + 0) % d = 0
  BY <1>1, DivisionUnique, 0 \in 0 .. (d - 1)
<1>4. n % d = 0 => (n \div d) * d = n
  <2> DEFINE q == n \div d
             r == n % d
  <2>1. q \in Int /\ r \in Nat /\ n = d * q + r
    BY <1>1, DivisionFacts
  <2> HIDE DEF q, r
  <2>2. r = 0 => q * d = n
    BY <1>1, <2>1
  <2> QED BY <2>2 DEF q, r
<1> QED BY <1>2, <1>3, <1>4 DEF d, FromTime, ToTime

\* A cell's instant is one that LocalOffset knows.
HasInstant(t, cell) ==
  t.id = "TIMESTAMP" /\ cell.state = "value" => ToTime(cell.datum.n, t.unit) \in Instant

\* What another driver may return for a cell becomes the same cell again, if a
\* text says which instant it is.
LEMMA StoredReturns ==
  ASSUME NEW t, HasUnit(t), NEW v, IsValue(v), NEW cell \in Convert(t, v), cell # Error,
         HasInstant(t, cell), NEW w \in Stored(Extract(t, cell)),
         t.id = "TIMESTAMP" => SaysInstant(t, w.datum, ToTime(cell.datum.n, t.unit))
  PROVE  Convert(t, w) = {cell}
<1> DEFINE n == cell.datum.n
<1>1. /\ t.id \in Supported
      /\ cell = Null \/ (cell = Cell(cell.datum) /\ CellDatum(t, cell.datum))
  BY CellShape
<1> USE DEF Scanned
<1>2. CASE cell = Null
  BY <1>1, <1>2 DEF Null, Extract, Stored, Nil, Convert, IsText
<1>3. CASE cell # Null /\ t.id = "INT64"
  BY <1>1, <1>3 DEF CellDatum, Cell, Extract, Stored, Texts, Convert, IsText, ParsesAsInt, Plain, Datum
<1>4. CASE cell # Null /\ t.id = "FLOAT64"
  BY <1>1, <1>4 DEF CellDatum, Cell, Extract, Stored, Texts, Convert, IsText, Plain, Datum
<1>5. CASE cell # Null /\ t.id = "BOOL"
  BY <1>1, <1>5 DEF CellDatum, Cell, Extract, Stored, Texts, Convert, IsText, ParsesAsBool, Plain, Datum
<1>6. CASE cell # Null /\ t.id \in {"STRING", "BINARY"}
  <2>1. \E k \in {"bytes", "string"} : Extract(t, cell) = Scanned(k, cell.datum)
    BY <1>1, <1>6 DEF Cell, Extract
  <2>2. \E k \in {"bytes", "string"} : w = Scanned(k, cell.datum)
    BY <2>1 DEF Stored, Texts, IsText
  <2> QED BY <1>1, <1>6, <2>2 DEF Convert, IsText
<1>7. CASE cell # Null /\ t.id = "TIMESTAMP"
  <2> DEFINE i == ToTime(n, t.unit)
  <2>1. cell = Cell(Plain(n)) /\ n \in Int /\ t.unit \in DOMAIN Ticks
    BY <1>1, <1>7 DEF CellDatum, HasUnit
  <2>2. i \in Instant /\ i \in Int /\ Ticks[t.unit] \in Nat \ {0}
    BY <1>7, <2>1, TicksFacts DEF HasInstant, Cell
  <2>3. FromTime(i, t.unit) = n /\ i % Ticks[t.unit] = 0
    BY <2>1, UnitRoundTrip
  <2>4. Extract(t, cell) = Scanned("time", Plain(i))
    BY <1>7, <2>1 DEF Extract, Cell
  <2> HIDE DEF i
  <2>5. CASE w = Scanned("time", Plain(i))
    BY <1>7, <2>1, <2>3, <2>5 DEF Convert, IsText, Plain, Datum, Supported
  <2>6. ASSUME NEW k \in {"bytes", "string"}, NEW d \in InstantTexts(i), w = Scanned(k, d)
        PROVE  Convert(t, w) = {cell}
    <3>1. PICK o \in {0, Offset("local", i)}, form \in {"stamp", "naive"} :
            d = Datum(form, i + o, IF form = "stamp" THEN o ELSE 0)
      BY <2>6 DEF InstantTexts
    <3>2. o \in Int /\ o % Ticks[t.unit] = 0
      BY <2>1, <2>2, OffsetFacts DEF Offset
    <3>3. (i + o) % Ticks[t.unit] = 0 /\ (i + o) - o = i
      BY <2>2, <2>3, <3>2, MultiplesAdd
    <3>4. Convert(t, w) = ParseTimestampText(t, d) /\ w.datum = d
      BY <1>7, <2>6 DEF Convert, IsText, Supported
    <3>5. SaysInstant(t, d, i)
      BY <1>7, <3>4 DEF i
    <3>6. CASE form = "stamp"
      BY <2>1, <2>3, <3>1, <3>3, <3>4, <3>5, <3>6 DEF SaysInstant, ParseTimestampText, Datum
    <3>7. CASE form = "naive"
      <4>1. /\ d.form = "naive" /\ d.n = i + o /\ d.n \in Int
            /\ TimestampTextLocation(t.tz) # "unknown"
            /\ Shown(TimestampTextLocation(t.tz), d.n) = {i}
        BY <2>2, <3>1, <3>2, <3>5, <3>7 DEF SaysInstant, Datum
      <4>2. ReadClock(TimestampTextLocation(t.tz), d.n) = {i}
        <5> DEFINE loc == TimestampTextLocation(t.tz)
                   wall == d.n
        <5>1. wall \in Int /\ Shown(loc, wall) = {i}
          BY <4>1
        <5> HIDE DEF loc, wall
        <5>2. ReadClock(loc, wall) = {i}
          BY ONLY <5>1, ReadClockSingle
        <5> QED BY <5>2 DEF loc, wall
      <4> QED BY <2>1, <2>3, <3>3, <3>4, <4>1, <4>2 DEF ParseTimestampText
    <3> QED BY <3>6, <3>7
  <2>7. w = Scanned("time", Plain(i))
        \/ \E k \in {"bytes", "string"}, d \in InstantTexts(i) : w = Scanned(k, d)
    BY <2>4 DEF Stored, Texts, IsText, Plain, Datum
  <2> QED BY <2>5, <2>6, <2>7
<1> QED BY <1>1, <1>2, <1>3, <1>4, <1>5, <1>6, <1>7 DEF Supported

\* An offset of whole minutes is written as it is.
LEMMA WholeMinutes ==
  ASSUME NEW off \in Int, off % Minute = 0
  PROVE  WrittenOffset(off) = off
<1> DEFINE q == off \div Minute
<1>1. Minute \in Nat \ {0} /\ q \in Int /\ off = Minute * q
  BY ValuesAssumption, DivisionFacts
<1> HIDE DEF q
<1>2. (Minute * q) \div Minute = q /\ (Minute * (-q)) \div Minute = -q
  <2>1. Minute * q = Minute * q + 0 /\ Minute * (-q) = Minute * (-q) + 0
    BY <1>1
  <2> QED BY <1>1, <2>1, DivisionUnique, -q \in Int, 0 \in 0 .. (Minute - 1)
<1>3. -(Minute * q) = Minute * (-q) /\ -(-q * Minute) = Minute * q /\ q * Minute = Minute * q
  BY <1>1
<1> QED BY <1>1, <1>2, <1>3 DEF WrittenOffset

\* So does the text the CSV format writes for it, if the zone's offset has no seconds.
LEMMA CsvReturns ==
  ASSUME NEW t, HasUnit(t), NEW v, IsValue(v), NEW cell \in Convert(t, v), cell # Error,
         HasInstant(t, cell), cell # Null, CsvSupported(t), t.id # "BINARY",
         t.id = "TIMESTAMP" =>
           Offset(CsvTimestampLocation(t.tz), ToTime(cell.datum.n, t.unit)) % Minute = 0
  PROVE  Convert(t, Scanned("string", CsvText(t, cell))) = {cell}
<1> DEFINE n == cell.datum.n
<1>1. t.id \in Supported /\ cell = Cell(cell.datum) /\ CellDatum(t, cell.datum)
  BY CellShape
<1> USE DEF Scanned
<1>2. CASE t.id = "INT64"
  BY <1>1, <1>2 DEF CellDatum, Cell, CsvText, Convert, IsText, ParsesAsInt, Plain, Datum
<1>3. CASE t.id = "FLOAT64"
  BY <1>1, <1>3 DEF CellDatum, Cell, CsvText, Convert, IsText, Plain, Datum
<1>4. CASE t.id = "BOOL"
  BY <1>1, <1>4 DEF CellDatum, Cell, CsvText, Convert, IsText, ParsesAsBool, Plain, Datum
<1>5. CASE t.id = "STRING"
  BY <1>1, <1>5 DEF Cell, CsvText, Convert, IsText
<1>6. CASE t.id = "TIMESTAMP"
  <2> DEFINE i == ToTime(n, t.unit)
             loc == CsvTimestampLocation(t.tz)
             o == Offset(loc, i)
  <2>1. cell = Cell(Plain(n)) /\ n \in Int /\ t.unit \in DOMAIN Ticks
    BY <1>1, <1>6 DEF CellDatum, HasUnit
  <2>2. i \in Instant /\ i \in Int /\ Ticks[t.unit] \in Nat \ {0}
    BY <1>1, <1>6, <2>1, TicksFacts DEF HasInstant, Cell
  <2>3. FromTime(i, t.unit) = n /\ i % Ticks[t.unit] = 0
    BY <2>1, UnitRoundTrip
  <2>4. loc \in {"UTC", "local"}
    BY <1>6 DEF CsvSupported, CsvTimestampLocation
  <2>5. CsvText(t, cell) = Datum("stamp", i + o, WrittenOffset(o))
    BY <1>6 DEF CsvText
  <2> o % Minute = 0
    BY <1>6
  <2> HIDE DEF i, loc
  <2>6. o \in Int /\ o % Ticks[t.unit] = 0
    BY <2>1, <2>2, <2>4, OffsetFacts
  <2> HIDE DEF o
  <2>9. WrittenOffset(o) = o
    BY <2>6, WholeMinutes
  <2>7. (i + o) % Ticks[t.unit] = 0 /\ (i + o) - o = i
    BY <2>2, <2>3, <2>6, MultiplesAdd
  <2>8. Convert(t, Scanned("string", CsvText(t, cell))) = ParseTimestampText(t, Datum("stamp", i + o, o))
    BY <1>6, <2>5, <2>9 DEF Convert, IsText, Supported
  <2> QED BY <2>1, <2>3, <2>7, <2>8 DEF ParseTimestampText, Datum
<1> QED BY <1>1, <1>2, <1>3, <1>4, <1>5, <1>6 DEF Supported

----------------------------------------------------------------------------
(* The configuration stays.                                                *)

LEMMA ConfStays == Spec => [](conf \in Conf)
<1>1. Init => conf \in Conf
  BY DEF Init
<1>2. conf \in Conf /\ [Next]_vars => (conf \in Conf)'
  BY DEF Next, vars, StartRun, SourceSends, Consume, Exec, Commit, Finish, Fault, Terminated
<1> QED BY <1>1, <1>2, PTL DEF Spec

\* A value of the source, its type, and the cells it may become.
LEMMA CellFacts ==
  ASSUME conf \in Conf, NEW rows \in conf.tables, NEW i \in DOMAIN rows, NEW c \in Columns
  PROVE  /\ HasUnit(TypeOf(c)) /\ IsValue(rows[i][c])
         /\ \A cell \in CellsOf(rows, i, c) :
              cell \in Convert(TypeOf(c), rows[i][c]) /\ cell # Error /\ HasInstant(TypeOf(c), cell)
BY TransferAssumption, InstantAssumption DEF HasUnit, HasInstant, CellsOf, TypeOf, Columns

\* What the sink binds for a cell comes back as the same cell from any database
\* and driver, for every type, value and time zone, if a timestamp's text has whole
\* minutes in its offset or, without one, is a reading of the declared zone's clock
\* that is not ambiguous; and so does the CSV text of it, if the zone's offset has
\* whole minutes (sqlsink/types.go, sqlsource/types.go 55-317, filesink/csv.go
\* 290-325).
THEOREM ValuesSurvive == Spec => []ValuesRoundTrip
<1>1. ASSUME conf \in Conf PROVE ValuesRoundTrip
  <2> SUFFICES ASSUME NEW rows \in conf.tables, NEW i \in DOMAIN rows, NEW c \in Columns,
                      NEW cell \in CellsOf(rows, i, c)
               PROVE  LET t == TypeOf(c)
                          at == ToTime(cell.datum.n, t.unit)
                      IN
                      /\ \A v \in Stored(Extract(t, cell)) :
                           (t.id = "TIMESTAMP" => SaysInstant(t, v.datum, at)) => Convert(t, v) = {cell}
                      /\ (/\ cell # Null /\ CsvSupported(t) /\ t.id # "BINARY"
                          /\ t.id = "TIMESTAMP" => Offset(CsvTimestampLocation(t.tz), at) % Minute = 0) =>
                           Convert(t, Scanned("string", CsvText(t, cell))) = {cell}
    BY DEF ValuesRoundTrip
  <2> QED BY <1>1, CellFacts, StoredReturns, CsvReturns
<1> QED BY <1>1, ConfStays, PTL

\* The CSV format shows the clock reading a text without an offset had, for
\* every clock and zone, unless the clock skipped it (sqlsource/types.go
\* 274-286, filesink/csv.go 290-325).
THEOREM NaiveTextKeepsItsReading == Spec => []NaiveTextIsLocalTime
<1>1. ASSUME conf \in Conf PROVE NaiveTextIsLocalTime
  <2> SUFFICES ASSUME NEW rows \in conf.tables, NEW i \in DOMAIN rows, NEW c \in Columns,
                      rows[i][c].datum.form = "naive", TypeOf(c).id = "TIMESTAMP",
                      NEW at \in Instant,
                      at + Offset(CsvTimestampLocation(TypeOf(c).tz), at) = rows[i][c].datum.n,
                      NEW cell \in CellsOf(rows, i, c)
               PROVE  CsvText(TypeOf(c), cell).n = rows[i][c].datum.n
    BY DEF NaiveTextIsLocalTime
  <2> DEFINE v == rows[i][c]
             t == TypeOf(c)
             loc == CsvTimestampLocation(t.tz)
             wall == v.datum.n
  <2>1. /\ HasUnit(t) /\ IsValue(v) /\ cell \in Convert(t, v) /\ cell # Error
    BY <1>1, CellFacts
  <2>2. t.unit \in DOMAIN Ticks /\ wall \in Int
    BY <2>1 DEF HasUnit, IsValue, Values, Data
  <2>3. Ticks[t.unit] \in Nat \ {0}
    BY <2>2, TicksFacts
  <2>4. IsText(v) /\ cell \in ParseTimestampText(t, v.datum)
    BY <2>1 DEF Convert, Supported, IsText, IsValue, Plain, Datum
  <2>5. TimestampTextLocation(t.tz) = loc
    BY DEF TimestampTextLocation, CsvTimestampLocation
  <2>6. /\ wall % Ticks[t.unit] = 0 /\ loc \in {"UTC", "local"}
        /\ \E j \in ReadClock(loc, wall) : cell = Cell(Plain(FromTime(j, t.unit)))
    BY <2>1, <2>4, <2>5 DEF ParseTimestampText, CsvTimestampLocation
  <2> PICK j \in ReadClock(loc, wall) : cell = Cell(Plain(FromTime(j, t.unit)))
    BY <2>6
  <2>7. j \in Int /\ j \in Instant /\ j + Offset(loc, j) = wall
    BY <2>2, ReadClockFacts
  <2>8. Offset(loc, j) \in Int /\ Offset(loc, j) % Ticks[t.unit] = 0
    BY <2>2, <2>6, <2>7, OffsetFacts
  <2>9. j % Ticks[t.unit] = 0
    <3>1. (wall - Offset(loc, j)) % Ticks[t.unit] = 0
      BY <2>2, <2>3, <2>6, <2>8, MultiplesAdd
    <3>2. wall - Offset(loc, j) = j
      BY <2>7, <2>8
    <3> QED BY <3>1, <3>2
  <2>10. ToTime(FromTime(j, t.unit), t.unit) = j
    BY <2>2, <2>7, <2>9, UnitRoundTrip
  <2> QED BY <2>7, <2>10 DEF CsvText, Cell, Plain, Datum
<1> QED BY <1>1, ConfStays, PTL

----------------------------------------------------------------------------
(* Statements.                                                             *)

\* The chunks of a batch are half-open ranges: together they are all rows.
LEMMA ChunkShape ==
  ASSUME NEW n \in Nat \ {0}, NEW d \in Nat \ {0}
  PROVE  /\ TotalChunks(n, d) \in Nat \ {0}
         /\ \A i \in 1 .. TotalChunks(n, d) :
              ChunkRange(n, d, i) = <<(i - 1) * d, IF i < TotalChunks(n, d) THEN i * d ELSE n>>
         /\ (TotalChunks(n, d) - 1) * d < n /\ n <= TotalChunks(n, d) * d
<1> DEFINE q == n \div d
           r == n % d
           t == TotalChunks(n, d)
<1>1. q \in Nat /\ r \in Nat /\ n = d * q + r /\ r < d
  BY DivisionFacts
<1>2. t = IF r > 0 THEN q + 1 ELSE q
  BY DEF TotalChunks, NumFullChunks, Remainder
<1> HIDE DEF t
<1>3. t \in Nat \ {0}
  BY <1>1, <1>2
<1>4. (t - 1) * d < n /\ n <= t * d
  BY <1>1, <1>2
<1>5. ASSUME NEW i \in 1 .. t
      PROVE  ChunkRange(n, d, i) = <<(i - 1) * d, IF i < t THEN i * d ELSE n>>
  <2>1. CASE t <= 1
    BY <1>3, <1>5, <2>1 DEF ChunkRange, t
  <2>2. CASE t > 1 /\ i <= q
    BY <1>1, <1>2, <1>5, <2>2 DEF ChunkRange, NumFullChunks, t
  <2>3. CASE t > 1 /\ i > q
    BY <1>1, <1>2, <1>5, <2>3 DEF ChunkRange, NumFullChunks, Remainder, t
  <2> QED BY <1>1, <1>2, <2>1, <2>2, <2>3
<1> QED BY <1>3, <1>4, <1>5 DEF t

\* A schema that open accepts fits: a statement has a row at least, and no more
\* than the limit allows.
LEMMA RowsFit ==
  ASSUME NEW p \in Int, NEW m \in 1 .. p
  PROVE  RowsPerStmt(p, m) \in Nat \ {0} /\ RowsPerStmt(p, m) * m <= p
<1> DEFINE q == p \div m
           r == p % m
<1>1. q \in Int /\ r \in Nat /\ p = m * q + r /\ r < m
  BY DivisionFacts
<1> HIDE DEF q, r
<1>2. q >= 1
  <2>1. q <= 0 => m * q <= 0
    BY <1>1
  <2> QED BY <1>1, <2>1
<1>3. q * m <= p
  BY <1>1
<1> QED BY <1>1, <1>2, <1>3 DEF RowsPerStmt, q

\* A chunk has at least one row and no more than a full one.
LEMMA ChunkLength ==
  ASSUME NEW n \in Nat \ {0}, NEW d \in Nat \ {0}, NEW i \in 1 .. TotalChunks(n, d)
  PROVE  LET range == ChunkRange(n, d, i) IN
         /\ range[1] \in Nat /\ range[2] \in Nat /\ range[2] <= n
         /\ range[2] - range[1] \in 1 .. d
         /\ ViaPrepared(n, d, i) => range[2] - range[1] = d
<1> DEFINE t == TotalChunks(n, d)
           q == n \div d
           r == n % d
<1>1. /\ t \in Nat \ {0} /\ (t - 1) * d < n /\ n <= t * d
      /\ ChunkRange(n, d, i) = <<(i - 1) * d, IF i < t THEN i * d ELSE n>>
  BY ChunkShape
<1>2. q \in Int /\ r \in Nat /\ n = d * q + r /\ r < d
  BY DivisionFacts
<1>3. t = IF r > 0 THEN q + 1 ELSE q
  BY DEF TotalChunks, NumFullChunks, Remainder
<1>4. ViaPrepared(n, d, i) => i <= q
  BY DEF ViaPrepared, NumFullChunks
<1> HIDE DEF t, q, r
<1>5. i \in 1 .. t
  BY DEF t
<1>6. i * d = (i - 1) * d + d /\ (i - 1) * d \in Nat
  BY <1>1, <1>5
<1>7. CASE i < t
  <2>1. i * d <= (t - 1) * d
    BY <1>1, <1>5, <1>7, ProductGrows
  <2>2. (t - 1) * d \in Nat
    BY <1>1
  <2> QED BY <1>1, <1>5, <1>6, <1>7, <2>1, <2>2
<1>8. CASE i = t
  <2>1. i <= q => r = 0 /\ n = i * d
    BY <1>1, <1>2, <1>3, <1>5, <1>8
  <2> QED BY <1>1, <1>4, <1>5, <1>6, <1>8, <2>1
<1> QED BY <1>1, <1>5, <1>7, <1>8

\* The markers of a statement and its arguments are numbered alike.
Place(m, r, c) == (r - 1) * m + c

LEMMA ArgNumber ==
  ASSUME NEW len \in Nat, NEW m \in Nat \ {0}, NEW r \in 1 .. len, NEW c \in 1 .. m
  PROVE  LET k == (r - 1) * m + c IN
         k \in 1 .. (len * m) /\ (k - 1) \div m = r - 1 /\ ((k - 1) % m) = c - 1
<1> DEFINE k == (r - 1) * m + c
<1>1. (r - 1) * m \in Nat /\ (r - 1) * m + m = r * m
  OBVIOUS
<1>2. r * m <= len * m /\ r * m \in Nat /\ len * m \in Nat
  BY ProductGrows
<1>3. k \in Nat /\ k - 1 = m * (r - 1) + (c - 1)
  BY <1>1
<1>4. (m * (r - 1) + (c - 1)) \div m = r - 1 /\ (m * (r - 1) + (c - 1)) % m = c - 1
  BY DivisionUnique, r - 1 \in Int, c - 1 \in 0 .. (m - 1)
<1>5. k \in 1 .. (len * m)
  BY <1>1, <1>2
<1> HIDE DEF k
<1> QED BY <1>3, <1>4, <1>5 DEF k

LEMMA ArgPlace ==
  ASSUME NEW len \in Nat, NEW m \in Nat \ {0}, NEW k \in 1 .. (len * m)
  PROVE  \E r \in 1 .. len, c \in 1 .. m : k = (r - 1) * m + c
<1> DEFINE q == (k - 1) \div m
           c == (k - 1) % m
<1>1. q \in Int /\ c \in Nat /\ k - 1 = m * q + c /\ c < m /\ k \in Nat /\ k >= 1
  BY DivisionFacts
<1> HIDE DEF q, c
<1>2. q >= 0
  <2>1. q <= -1 => m * q <= -m
    BY <1>1
  <2> QED BY <1>1, <2>1
<1>3. q < len
  <2>1. len * m \in Nat /\ k <= len * m
    OBVIOUS
  <2>2. q >= len => len * m <= q * m
    BY <1>1, <1>2, ProductGrows
  <2>3. q * m = m * q /\ q * m \in Int
    BY <1>1
  <2> QED BY <1>1, <2>1, <2>2, <2>3
<1>4. k = ((q + 1) - 1) * m + (c + 1)
  BY <1>1
<1> QED BY <1>1, <1>2, <1>3, <1>4, q + 1 \in 1 .. len, c + 1 \in 1 .. m

Fields == Seq([name : Names, type : [id : STRING, unit : STRING, tz : STRING]])

LEMMA FieldFacts ==
  ASSUME NEW fields \in Fields
  PROVE  /\ Len(fields) \in Nat /\ DOMAIN fields = 1 .. Len(fields)
         /\ \A i \in DOMAIN fields : i \in Nat /\ i >= 1 /\ fields[i].name \in Names
<1>1. Len(fields) \in Nat /\ DOMAIN fields = 1 .. Len(fields)
  BY DEF Fields
<1>2. ASSUME NEW i \in DOMAIN fields PROVE fields[i].name \in Names
  <2> DEFINE F == [name : Names, type : [id : STRING, unit : STRING, tz : STRING]]
  <2>1. fields \in Seq(F)
    BY DEF Fields
  <2>2. \A f \in F : f.name \in Names
    OBVIOUS
  <2> HIDE DEF F
  <2> QED BY <1>1, <2>1, <2>2
<1> QED BY <1>1, <1>2

\* The markers' numbers are those of the arguments, each of them once.
LEMMA ArgPlaces ==
  ASSUME NEW len \in Nat \ {0}, NEW m \in Nat \ {0},
         NEW places, places = (1 .. len) \X (1 .. m)
  PROVE  /\ Cardinality(places) = len * m /\ places # {}
         /\ {Place(m, p[1], p[2]) : p \in places} = 1 .. (len * m)
<1>1. /\ IsFiniteSet(1 .. len) /\ Cardinality(1 .. len) = len
      /\ IsFiniteSet(1 .. m) /\ Cardinality(1 .. m) = m
  BY FS_Interval
<1>2. Cardinality(places) = len * m
  BY <1>1, FS_Product, ZenonT(30)
<1>3. <<1, 1>> \in places
  OBVIOUS
<1>4. \A p \in places : Place(m, p[1], p[2]) \in 1 .. (len * m)
  BY ArgNumber DEF Place
<1>5. ASSUME NEW k \in 1 .. (len * m) PROVE \E p \in places : k = Place(m, p[1], p[2])
  <2>1. PICK r \in 1 .. len, c \in 1 .. m : k = (r - 1) * m + c
    BY ArgPlace, ZenonT(30)
  <2>2. <<r, c>> \in places /\ <<r, c>>[1] = r /\ <<r, c>>[2] = c
    OBVIOUS
  <2> QED BY <2>1, <2>2 DEF Place
<1> QED BY <1>2, <1>3, <1>4, <1>5

\* A function on an initial segment is a sequence of that length.
LEMMA LenOfFunction ==
  ASSUME NEW n \in Nat, NEW f, DOMAIN f = 1 .. n, f = [k \in DOMAIN f |-> f[k]]
  PROVE  Len(f) = n
<1> DEFINE S == {f[k] : k \in 1 .. n}
<1>1. f \in [1 .. n -> S]
  OBVIOUS
<1>2. f \in Seq(S)
  BY <1>1, SeqDef
<1>3. Len(f) \in Nat /\ 1 .. Len(f) = 1 .. n
  BY <1>2, LenProperties
<1> QED BY <1>3

\* The text of a statement of len rows.
TextFor(o, fields, len) ==
  [table   |-> QuotedTable(o),
   columns |-> [i \in DOMAIN fields |-> Quoted(o, fields[i].name)],
   values  |-> [r \in 1 .. len |-> [c \in DOMAIN fields |-> Marker(o, (r - 1) * Len(fields) + c)]],
   clause  |-> o.clause]

LEMMA TextOfRange ==
  ASSUME NEW o, NEW fields \in Fields, NEW start \in Nat, NEW end \in Nat
  PROVE  Text(o, fields, start, end) = TextFor(o, fields, end - start)
<1> DEFINE m == Len(fields)
<1>1. m \in Nat
  BY DEF Fields
<1>2. ASSUME NEW r \in 1 .. (end - start), NEW c \in DOMAIN fields
      PROVE  MarkerNumber(start, start + r - 1, m, c) = (r - 1) * m + c
  <2>1. start + r - 1 - start = r - 1
    OBVIOUS
  <2> QED BY <2>1 DEF MarkerNumber
<1> HIDE DEF m
<1>3. [r \in 1 .. (end - start) |-> [c \in DOMAIN fields |->
           Marker(o, MarkerNumber(start, start + r - 1, m, c))]]
      = [r \in 1 .. (end - start) |-> [c \in DOMAIN fields |-> Marker(o, (r - 1) * m + c)]]
  BY <1>2
<1> QED BY <1>3 DEF Text, TextFor, m

LEMMA ArgsOfRange ==
  ASSUME NEW fields \in Fields, NEW rows, NEW start \in Nat, NEW end \in Nat, start <= end
  PROVE  LET args == BuildArgs(fields, rows, start, end) IN
         /\ DOMAIN args = 1 .. ((end - start) * Len(fields))
         /\ Len(args) = (end - start) * Len(fields)
<1> DEFINE args == BuildArgs(fields, rows, start, end)
           n == (end - start) * Len(fields)
<1>1. Len(fields) \in Nat /\ end - start \in Nat
  BY DEF Fields
<1>2. n \in Nat
  BY <1>1, ProductGrows
<1>3. DOMAIN args = 1 .. n /\ args = [k \in DOMAIN args |-> args[k]]
  BY DEF BuildArgs
<1> HIDE DEF args, n
<1>4. Len(args) = n
  BY <1>2, <1>3, LenOfFunction
<1> QED BY <1>3, <1>4 DEF args, n

\* A chunk's statement has its rows, whether its text was built for them or
\* prepared for as many.
LEMMA ChunkIsStatement ==
  ASSUME NEW o \in Options, NEW fields \in Fields, Len(fields) \in 1 .. o.maxPlaceholders,
         NEW rows, Len(rows) \in Nat \ {0},
         NEW i \in 1 .. TotalChunks(Len(rows), RowsPerStmt(o.maxPlaceholders, Len(fields))),
         NEW range, range = ChunkRange(Len(rows), RowsPerStmt(o.maxPlaceholders, Len(fields)), i)
  PROVE  LET stmt == ChunkStatement(o, fields, rows, i)
             len == range[2] - range[1]
         IN  /\ stmt.text = TextFor(o, fields, len)
             /\ stmt.args = BuildArgs(fields, rows, range[1], range[2])
             /\ range[1] \in Nat /\ range[2] \in Nat /\ range[2] <= Len(rows) /\ len \in Nat \ {0}
             /\ len * Len(fields) \in Nat /\ len * Len(fields) <= o.maxPlaceholders
<1> DEFINE m == Len(fields)
           n == Len(rows)
           d == RowsPerStmt(o.maxPlaceholders, m)
           len == range[2] - range[1]
           stmt == ChunkStatement(o, fields, rows, i)
<1>1. m \in 1 .. o.maxPlaceholders /\ o.maxPlaceholders \in Int /\ m \in Nat
  BY DEF Options, Fields
<1>2. d \in Nat \ {0} /\ d * m <= o.maxPlaceholders
  BY <1>1, RowsFit
<1>3. /\ range[1] \in Nat /\ range[2] \in Nat /\ range[2] <= n /\ len \in 1 .. d
      /\ ViaPrepared(n, d, i) => len = d
  BY <1>1, <1>2, ChunkLength
<1>4. stmt.args = BuildArgs(fields, rows, range[1], range[2])
  BY DEF ChunkStatement, BuildInsert
<1>5. stmt.text = TextFor(o, fields, len)
  <2>1. CASE ViaPrepared(n, d, i)
    <3>1. stmt.text = Text(o, fields, 0, d)
      BY <2>1 DEF ChunkStatement, BuildInsertQuery
    <3>2. Text(o, fields, 0, d) = TextFor(o, fields, d - 0)
      BY <1>2, TextOfRange
    <3>3. d - 0 = len
      BY <1>2, <1>3, <2>1
    <3> QED BY <3>1, <3>2, <3>3
  <2>2. CASE ~ViaPrepared(n, d, i)
    <3>1. stmt.text = Text(o, fields, range[1], range[2])
      BY <2>2 DEF ChunkStatement, BuildInsert
    <3> QED BY <1>3, <3>1, TextOfRange
  <2> QED BY <2>1, <2>2
<1> HIDE DEF len, stmt, d, m
<1>6. len * m <= d * m /\ len * m \in Nat /\ d * m \in Nat
  BY <1>1, <1>2, <1>3, ProductGrows
<1>7. len \in Nat \ {0} /\ len * m <= o.maxPlaceholders
  BY <1>1, <1>2, <1>3, <1>6
<1> QED BY <1>3, <1>4, <1>5, <1>6, <1>7 DEF len, stmt, m

LEMMA OptionFacts ==
  ASSUME NEW o \in Options
  PROVE  /\ o.table \in Seq(Names) /\ o.quoted \in BOOLEAN /\ o.extra \subseteq Names
         /\ o.marker \in {"question", "dollar"}
         /\ o.clause \in {"none", "upsert", "question", "dollar"}
         /\ o.maxPlaceholders \in Int
BY DEF Options

LEMMA TextShape ==
  ASSUME NEW o \in Options, NEW fields \in Fields, NEW len \in Nat,
         NEW m, m = Len(fields), NEW text, text = TextFor(o, fields, len)
  PROVE  /\ m \in Nat /\ DOMAIN fields = 1 .. m
         /\ DOMAIN text.values = 1 .. len
         /\ DOMAIN text.columns = 1 .. m /\ Len(text.columns) = m
         /\ \A i \in 1 .. m : text.columns[i] = Quoted(o, fields[i].name)
         /\ text.table = QuotedTable(o) /\ text.clause = o.clause
         /\ \A r \in 1 .. len, c \in 1 .. m : ArgAt(text, r, c) = Place(m, r, c)
<1>1. m \in Nat /\ DOMAIN fields = 1 .. m
  BY DEF Fields
<1>2. /\ text.values = [r \in 1 .. len |->
                          [c \in DOMAIN fields |-> Marker(o, (r - 1) * Len(fields) + c)]]
      /\ text.columns = [i \in DOMAIN fields |-> Quoted(o, fields[i].name)]
      /\ text.table = QuotedTable(o) /\ text.clause = o.clause
  BY DEF TextFor
<1>3. /\ DOMAIN text.values = 1 .. len /\ DOMAIN text.columns = 1 .. m
      /\ \A i \in 1 .. m : text.columns[i] = Quoted(o, fields[i].name)
      /\ text.columns = [i \in DOMAIN text.columns |-> text.columns[i]]
  BY <1>1, <1>2
<1>4. Len(text.columns) = m
  BY <1>1, <1>3, LenOfFunction
<1>5. ASSUME NEW r \in 1 .. len, NEW c \in 1 .. m
      PROVE  ArgAt(text, r, c) = Place(m, r, c)
  <2>1. text.values[r][c] = Marker(o, (r - 1) * m + c)
    BY <1>1, <1>2
  <2>2. CASE o.marker = "question"
    <3>1. text.values[r][c].style = "question"
      BY <2>1, <2>2 DEF Marker
    <3> QED BY <1>4, <3>1 DEF ArgAt, Place
  <2>3. CASE o.marker # "question"
    <3>1. text.values[r][c].style # "question" /\ text.values[r][c].n = Place(m, r, c)
      BY <2>1, <2>3 DEF Marker, Place
    <3> QED BY <3>1 DEF ArgAt
  <2> QED BY <2>2, <2>3
<1> QED BY <1>1, <1>2, <1>3, <1>4, <1>5

\* A database parses the names that New and open let through, and tells the
\* columns apart.
LEMMA NameIsAccepted ==
  ASSUME NEW o \in Options, NEW name \in Names,
         IF o.quoted THEN name.chars # "empty" ELSE IsValidIdentifier(name, o.extra)
  PROVE  NameParses(o, Quoted(o, name))
<1>1. CASE o.quoted
  BY <1>1 DEF NameParses, Quoted
<1>2. CASE ~o.quoted
  <2>1. name.chars = "plain" /\ ~IsReservedWord(name, o.extra)
    BY <1>2 DEF IsValidIdentifier, HasValidIdentifierChars
  <2>2. Lower(name) = Name(name.word, "lower", "plain")
    BY <2>1 DEF Lower, Name, Names
  <2>3. name.word \notin Reserved
    BY <2>1, <2>2 DEF IsReservedWord
  <2>4. ASSUME NEW e \in o.extra, e.chars = "plain", e.word = name.word PROVE FALSE
    <3>1. e \in Names
      BY OptionFacts
    <3>2. Lower(e) = Lower(name)
      BY <2>2, <2>4, <3>1 DEF Lower, Name, Names
    <3> QED BY <2>1, <3>2 DEF IsReservedWord
  <2> QED BY <1>2, <2>1, <2>3, <2>4 DEF NameParses, Quoted
<1> QED BY <1>1, <1>2

LEMMA ColumnsDiffer ==
  ASSUME NEW o \in Options, NEW fields \in Fields, OpenAccepts(o, fields),
         NEW i \in DOMAIN fields, NEW j \in DOMAIN fields, i # j
  PROVE  ~SameColumn(Quoted(o, fields[i].name), Quoted(o, fields[j].name))
<1>1. /\ fields[i].name \in Names /\ fields[j].name \in Names
      /\ i \in Nat /\ j \in Nat /\ i >= 1 /\ j >= 1
  BY FieldFacts
<1>2. ColumnKey(o, fields[i].name) # ColumnKey(o, fields[j].name)
  <2>1. j < i => j \in 1 .. (i - 1)
    BY <1>1
  <2>2. i < j => i \in 1 .. (j - 1)
    BY <1>1
  <2> QED BY <1>1, <2>1, <2>2 DEF OpenAccepts
<1>3. CASE o.quoted
  BY <1>2, <1>3 DEF SameColumn, Quoted, ColumnKey
<1>4. CASE ~o.quoted
  <2>1. fields[i].name.chars = "plain" /\ fields[j].name.chars = "plain"
    BY <1>4 DEF OpenAccepts, IsValidIdentifier, HasValidIdentifierChars
  <2>2. Lower(fields[i].name) # Lower(fields[j].name)
    BY <1>2, <1>4 DEF ColumnKey
  <2>3. fields[i].name.word = fields[j].name.word => Lower(fields[i].name) = Lower(fields[j].name)
    BY <1>1, <2>1 DEF Lower, Names
  <2> QED BY <1>4, <2>2, <2>3 DEF SameColumn, Quoted
<1> QED BY <1>3, <1>4

\* A statement whose text is that of its arguments' rows is a well-formed one.
LEMMA StatementAccepted ==
  ASSUME NEW o \in Options, ~ConstructErr(o), NEW fields \in Fields, OpenAccepts(o, fields),
         NEW len \in Nat \ {0}, NEW m, m = Len(fields),
         NEW stmt, stmt.text = TextFor(o, fields, len),
         NEW n, n = len * m,
         DOMAIN stmt.args = 1 .. n, Len(stmt.args) = n, n <= o.maxPlaceholders
  PROVE  Accepts(o, stmt)
<1> DEFINE text == stmt.text
           places == {<<r, c>> : r \in DOMAIN text.values, c \in DOMAIN text.columns}
<1>1. /\ m \in Nat /\ DOMAIN fields = 1 .. m
      /\ DOMAIN text.values = 1 .. len /\ DOMAIN text.columns = 1 .. m
      /\ \A i \in 1 .. m : text.columns[i] = Quoted(o, fields[i].name)
      /\ text.table = QuotedTable(o) /\ text.clause = o.clause
      /\ \A r \in 1 .. len, c \in 1 .. m : ArgAt(text, r, c) = Place(m, r, c)
  <2>1. len \in Nat /\ text = TextFor(o, fields, len)
    OBVIOUS
  <2> HIDE DEF text, places
  <2> QED BY <2>1, TextShape, SMTT(30)
<1>2. m \in Nat \ {0}
  BY <1>1 DEF OpenAccepts
<1>3. places = (1 .. len) \X (1 .. m)
  BY <1>1
<1> HIDE DEF text
<1>4. Len(text.table) \in 1 .. 2 /\ \A i \in DOMAIN text.table : NameParses(o, text.table[i])
  <2>1. Len(o.table) \in Nat /\ DOMAIN o.table = 1 .. Len(o.table)
        /\ \A i \in DOMAIN o.table : o.table[i] \in Names
    BY OptionFacts
  <2>2. DOMAIN text.table = DOMAIN o.table /\ text.table = [i \in DOMAIN text.table |-> text.table[i]]
        /\ \A i \in DOMAIN o.table : text.table[i] = Quoted(o, o.table[i])
    BY <1>1 DEF QuotedTable
  <2>3. Len(text.table) = Len(o.table)
    BY <2>1, <2>2, LenOfFunction
  <2>4. /\ HasValidTableSegments(o.table)
        /\ ~o.quoted => \A i \in DOMAIN o.table : IsValidIdentifier(o.table[i], o.extra)
    BY DEF ConstructErr, IsValidTableIdentifier
  <2>5. \A i \in DOMAIN o.table : NameParses(o, Quoted(o, o.table[i]))
    BY <2>1, <2>4, NameIsAccepted DEF HasValidTableSegments
  <2> QED BY <2>2, <2>3, <2>4, <2>5 DEF HasValidTableSegments
<1>5. ASSUME NEW i \in DOMAIN text.columns
      PROVE  /\ NameParses(o, text.columns[i])
             /\ \A j \in DOMAIN text.columns : SameColumn(text.columns[i], text.columns[j]) => i = j
  <2>1. \A j \in 1 .. m : j \in DOMAIN fields /\ fields[j].name \in Names
    BY <1>1, FieldFacts
  <2>2. IF o.quoted THEN fields[i].name.chars # "empty"
        ELSE IsValidIdentifier(fields[i].name, o.extra)
    BY <1>1, <2>1 DEF OpenAccepts
  <2>3. NameParses(o, Quoted(o, fields[i].name))
    BY <1>1, <2>1, <2>2, NameIsAccepted
  <2>4. \A j \in DOMAIN fields : i # j => ~SameColumn(Quoted(o, fields[i].name), Quoted(o, fields[j].name))
    BY <1>1, <1>5, ColumnsDiffer
  <2> QED BY <1>1, <2>3, <2>4
<1> HIDE DEF places
<1>6. /\ Cardinality(places) = n /\ places # {}
      /\ {Place(m, p[1], p[2]) : p \in places} = 1 .. n
  <2>1. len \in Nat \ {0} /\ n = len * m
    OBVIOUS
  <2>2. /\ Cardinality(places) = len * m /\ places # {}
        /\ {Place(m, p[1], p[2]) : p \in places} = 1 .. (len * m)
    BY ONLY <1>2, <1>3, <2>1, ArgPlaces
  <2> QED BY <2>1, <2>2
<1>7. {ArgAt(text, p[1], p[2]) : p \in places} = 1 .. n
  <2>1. \A p \in places : ArgAt(text, p[1], p[2]) = Place(m, p[1], p[2])
    BY <1>1, <1>3
  <2> QED BY <1>6, <2>1
<1>8. text.clause \in {"none", "upsert"}
  BY <1>1, OptionFacts DEF ConstructErr
<1>9. /\ {ArgAt(text, p[1], p[2]) : p \in places} = DOMAIN stmt.args
      /\ Len(stmt.args) = Cardinality(places)
  BY <1>6, <1>7
<1> QED BY <1>4, <1>5, <1>6, <1>8, <1>9 DEF Accepts, text, places

----------------------------------------------------------------------------
(* The rows of a statement.                                                *)

\* The row of a batch that the n-th row of the batches before it follows.
Start(n, d, i) == IF i = 1 THEN 0 ELSE ChunkRange(n, d, i - 1)[2]

\* Chunks follow one another, and the last ends the batch.
LEMMA ChunksFollow ==
  ASSUME NEW n \in Nat \ {0}, NEW d \in Nat \ {0}, NEW i \in 1 .. TotalChunks(n, d)
  PROVE  /\ TotalChunks(n, d) \in Nat \ {0}
         /\ ChunkRange(n, d, i)[1] = Start(n, d, i)
         /\ ChunkRange(n, d, i)[2] = Start(n, d, i + 1)
         /\ Start(n, d, TotalChunks(n, d) + 1) = n
<1> DEFINE t == TotalChunks(n, d)
<1>1. /\ t \in Nat \ {0}
      /\ \A k \in 1 .. t : ChunkRange(n, d, k) = <<(k - 1) * d, IF k < t THEN k * d ELSE n>>
  BY ChunkShape
<1> HIDE DEF t
<1>2. i \in 1 .. t /\ i \in Nat /\ i >= 1
  BY DEF t
<1>3. ChunkRange(n, d, i)[1] = (i - 1) * d
  <2>1. ChunkRange(n, d, i) = <<(i - 1) * d, IF i < t THEN i * d ELSE n>>
    BY <1>1, <1>2
  <2> QED BY <2>1
<1>4. i = 1 => ChunkRange(n, d, i)[1] = Start(n, d, i)
  BY <1>3 DEF Start
<1>5. ASSUME i # 1 PROVE ChunkRange(n, d, i)[1] = Start(n, d, i)
  <2>1. i - 1 \in 1 .. t /\ i - 1 < t
    BY <1>1, <1>2, <1>5
  <2>2. ChunkRange(n, d, i - 1) = <<((i - 1) - 1) * d, (i - 1) * d>>
    BY <1>1, <2>1
  <2>3. ChunkRange(n, d, i - 1)[2] = (i - 1) * d
    BY <2>2
  <2> QED BY <1>3, <1>5, <2>3 DEF Start
<1>6. i + 1 # 1 /\ (i + 1) - 1 = i /\ t + 1 # 1 /\ (t + 1) - 1 = t
  BY <1>1, <1>2
<1>7. ChunkRange(n, d, i)[2] = Start(n, d, i + 1)
  BY <1>6 DEF Start
<1>8. Start(n, d, t + 1) = n
  <2>1. ChunkRange(n, d, t) = <<(t - 1) * d, n>>
    BY <1>1
  <2>2. ChunkRange(n, d, t)[2] = n
    BY <2>1
  <2> QED BY <1>6, <2>2 DEF Start
<1> QED BY <1>1, <1>3, <1>4, <1>5, <1>7, <1>8 DEF t

\* The argument in each place is the cell of its row and column.
LEMMA ArgOfPlace ==
  ASSUME NEW fields \in Fields, NEW rows, NEW start \in Nat, NEW end \in Nat, start <= end,
         NEW r \in 1 .. (end - start), NEW c \in 1 .. Len(fields)
  PROVE  BuildArgs(fields, rows, start, end)[Place(Len(fields), r, c)]
           = Extract(fields[c].type, rows[start + r][c])
<1> DEFINE m == Len(fields)
           k == Place(m, r, c)
           len == end - start
<1>1. m \in Nat \ {0} /\ c \in 1 .. m /\ r \in Int /\ c \in Int
  BY FieldFacts
<1>2. len \in Nat \ {0} /\ r \in 1 .. len
  OBVIOUS
<1> HIDE DEF m, len
<1>3. k \in 1 .. (len * m)
  BY <1>1, <1>2, ArgNumber DEF Place
<1>4. k - 1 = m * (r - 1) + (c - 1)
  BY <1>1 DEF Place
<1>5. (k - 1) \div m = r - 1 /\ (k - 1) % m = c - 1
  BY <1>1, <1>4, DivisionUnique, r - 1 \in Int, c - 1 \in 0 .. (m - 1)
<1> HIDE DEF k
<1>6. start + (k - 1) \div m + 1 = start + r /\ ((k - 1) % m) + 1 = c
  BY <1>1, <1>5
<1>7. BuildArgs(fields, rows, start, end)[k]
        = Extract(fields[((k - 1) % m) + 1].type, rows[start + (k - 1) \div m + 1][((k - 1) % m) + 1])
  BY <1>3 DEF BuildArgs, m, len
<1> QED BY <1>6, <1>7 DEF k, m

----------------------------------------------------------------------------
(* The invariant.  Done rows of the source are committed: those it has     *)
(* sent, without the batch the sink is inserting and the one on its way.   *)

Size(b) == IF b = NoBatch THEN 0 ELSE Len(b)
BatchEnd == next - Size(sent)
Done == BatchEnd - Size(batch)
Accepted == ~ConstructErr(conf.options) /\ OpenAccepts(conf.options, conf.fields)

\* The batch b has the cells of the source's rows after row at.
IsBatch(b, at) ==
  /\ b \in Seq(Seq(Cells)) /\ Len(b) >= 1
  /\ \A r \in 1 .. Len(b) : \A c \in Columns : b[r][c] \in CellsOf(source, at + r, c)

\* No later row among the first n has the key of row i.
LastOfKey(i, n) == \A j \in (i + 1) .. n : ValuesOf(source, j, 1) \cap ValuesOf(source, i, 1) = {}

\* Row i is in the table t.
Has(t, i) ==
  \E key \in ValuesOf(source, i, 1) :
    /\ key \in DOMAIN t
    /\ \A c \in Columns : t[key][c] \in ValuesOf(source, i, c)

\* For each key, the last of the first n rows of the source is in the table t.
Holds(t, n) == \A i \in 1 .. n : LastOfKey(i, n) => Has(t, i)

Stride == RowsPerStmt(conf.options.maxPlaceholders, Len(conf.fields))

StateInv ==
  /\ conf \in Conf /\ status \in {"none", "running", "nil", "failed"}
  /\ source \in conf.tables \cup {<<>>} /\ next \in 0 .. Len(source)
  /\ status # "running" => sent = NoBatch /\ batch = NoBatch
  /\ status = "nil" => next = Len(source)
  /\ refused = FALSE

BatchInv ==
  /\ sent # NoBatch => IsBatch(sent, BatchEnd)
  /\ Done \in Nat
  /\ batch # NoBatch => IsBatch(batch, Done) /\ Accepted /\ chunk \in 1 .. (Chunks + 1)

TableInv ==
  /\ status \in {"running", "nil"} => Holds(table, Done)
  /\ batch # NoBatch => Holds(work, Done + Start(Len(batch), Stride, chunk))

TransferInv == StateInv /\ BatchInv /\ TableInv

LEMMA ConfFacts ==
  ASSUME conf \in Conf
  PROVE  /\ conf.options \in Options /\ conf.fields \in Fields
         /\ conf.batchSize \in Nat \ {0} /\ conf.tables \subseteq Seq(Seq(Values))
         /\ Columns = 1 .. Len(conf.fields) /\ Len(conf.fields) \in Nat
<1>1. /\ conf.options \in Options /\ conf.fields \in Fields
      /\ conf.batchSize \in Nat \ {0} /\ conf.tables \subseteq Seq(Seq(Values))
  BY TransferAssumption DEF Fields
<1> QED BY <1>1, FieldFacts DEF Columns

LEMMA SourceFacts ==
  ASSUME StateInv
  PROVE  Len(source) \in Nat /\ DOMAIN source = 1 .. Len(source) /\ next \in Nat /\ next <= Len(source)
<1>1. source \in Seq(Seq(Values))
  <2>1. <<>> \in Seq(Seq(Values))
    OBVIOUS
  <2> QED BY <2>1, ConfFacts DEF StateInv
<1>2. Len(source) \in Nat /\ DOMAIN source = 1 .. Len(source)
  BY <1>1
<1>3. next \in 0 .. Len(source)
  BY DEF StateInv
<1> QED BY <1>2, <1>3

\* A batch without an error is what its rows become.
LEMMA SentBatch ==
  ASSUME StateInv, next < Len(source), NEW b \in Conversions,
         ~ \E i \in DOMAIN b : Error \in Range(b[i])
  PROVE  IsBatch(b, next) /\ b # NoBatch /\ Len(b) \in Nat /\ next + Len(b) <= Len(source)
<1> DEFINE last == Min({next + conf.batchSize, Len(source)})
           n == last - next
<1>1. /\ Len(source) \in Nat /\ next \in Nat /\ conf.batchSize \in Nat \ {0}
      /\ DOMAIN source = 1 .. Len(source)
  BY SourceFacts, ConfFacts DEF StateInv
<1>2. n \in Nat \ {0} /\ next + n <= Len(source) /\ last = next + n
  BY <1>1, MinOfTwo, SMTT(30)
<1> HIDE DEF last
<1>3. DOMAIN b = 1 .. n /\ b = [i \in DOMAIN b |-> b[i]]
  BY DEF Conversions, last
<1>4. ASSUME NEW i \in 1 .. n
      PROVE  /\ DOMAIN b[i] = Columns /\ b[i] = [c \in Columns |-> b[i][c]]
             /\ \A c \in Columns : b[i][c] \in Convert(conf.fields[c].type, source[next + i][c])
  BY <1>3 DEF Conversions, last
<1> HIDE DEF n
<1>5. ASSUME NEW i \in 1 .. n, NEW c \in Columns
      PROVE  b[i][c] \in CellsOf(source, next + i, c) /\ b[i][c] \in Cells
  <2>1. b[i][c] # Error
    BY <1>3, <1>4 DEF Range
  <2>2. b[i][c] \in CellsOf(source, next + i, c)
    BY <1>4, <2>1 DEF CellsOf, TypeOf
  <2>3. next + i \in DOMAIN source
    BY <1>1, <1>2
  <2>4. source \in conf.tables /\ conf \in Conf
    BY <2>3 DEF StateInv
  <2>5. HasUnit(TypeOf(c)) /\ IsValue(source[next + i][c])
        /\ b[i][c] \in Convert(TypeOf(c), source[next + i][c])
    BY <2>2, <2>3, <2>4, CellFacts
  <2>6. b[i][c] = Null \/ (b[i][c] = Cell(b[i][c].datum) /\ b[i][c].datum \in Data)
    BY <2>1, <2>5, CellShape DEF CellDatum
  <2>7. Null \in Cells /\ \A d \in Data : Cell(d) \in Cells
    BY DEF Null, Cells, Cell, Plain, Datum, Data
  <2> QED BY <2>2, <2>6, <2>7
<1>6. ASSUME NEW i \in 1 .. n PROVE b[i] \in Seq(Cells)
  <2>1. b[i] \in [1 .. Len(conf.fields) -> Cells] /\ Len(conf.fields) \in Nat
    BY <1>4, <1>5, ConfFacts DEF StateInv
  <2> QED BY <2>1, SeqDef
<1>7. b \in Seq(Seq(Cells))
  <2>1. b \in [1 .. n -> Seq(Cells)] /\ n \in Nat
    BY <1>2, <1>3, <1>6
  <2> QED BY <2>1, SeqDef
<1>8. Len(b) = n
  BY <1>2, <1>3, LenOfFunction
<1> QED BY <1>2, <1>5, <1>7, <1>8, TransferAssumption DEF IsBatch

\* A later row of the same key takes the place of an earlier one.
LEMMA UpsertHolds ==
  ASSUME NEW t, NEW rows, NEW p \in Nat, NEW len \in Nat, DOMAIN rows = 1 .. len, 1 \in Columns,
         \A r \in 1 .. len : \A c \in Columns : rows[r][c] \in ValuesOf(source, p + r, c),
         Holds(t, p)
  PROVE  Holds(Upserted(t, rows), p + len)
<1> DEFINE u == Upserted(t, rows)
           keys == DOMAIN t \cup {rows[r][1] : r \in DOMAIN rows}
           mine(k) == {r \in DOMAIN rows : rows[r][1] = k}
<1>1. /\ DOMAIN u = keys
      /\ \A k \in keys : u[k] = IF mine(k) = {} THEN t[k] ELSE rows[Max(mine(k))]
  BY DEF Upserted
<1> HIDE DEF u
<1> SUFFICES ASSUME NEW i \in 1 .. (p + len), LastOfKey(i, p + len) PROVE Has(u, i)
  BY DEF Holds, u
<1>2. ASSUME NEW r \in 1 .. len, p + r > i PROVE rows[r][1] \notin ValuesOf(source, i, 1)
  <2>1. p + r \in (i + 1) .. (p + len)
    BY <1>2
  <2>2. rows[r][1] \in ValuesOf(source, p + r, 1)
    OBVIOUS
  <2> QED BY <2>1, <2>2 DEF LastOfKey
<1>3. CASE i <= p
  <2>1. i \in 1 .. p /\ LastOfKey(i, p)
    BY <1>3 DEF LastOfKey
  <2>2. PICK k \in ValuesOf(source, i, 1) :
          k \in DOMAIN t /\ \A c \in Columns : t[k][c] \in ValuesOf(source, i, c)
    BY <2>1 DEF Holds, Has
  <2>3. mine(k) = {}
    BY <1>2, <1>3, <2>2
  <2>4. k \in keys /\ u[k] = t[k]
    BY <1>1, <2>2, <2>3
  <2> QED BY <1>1, <2>2, <2>4 DEF Has
<1>4. CASE i > p
  <2> DEFINE r == i - p
             k == rows[r][1]
  <2>1. r \in 1 .. len /\ p + r = i
    BY <1>4
  <2> HIDE DEF r
  <2>2. k \in ValuesOf(source, i, 1) /\ k \in keys /\ r \in mine(k)
    BY <2>1
  <2>3. \A s \in mine(k) : s \in 1 .. len /\ s <= r
    BY <1>2, <2>1, <2>2
  <2>4. Max(mine(k)) = r
    <3> DEFINE M == mine(k)
    <3>1. M \subseteq 1 .. len /\ M # {} /\ r \in M /\ \A s \in M : s <= r
      BY <2>2, <2>3
    <3> HIDE DEF M
    <3>2. Max(M) \in M /\ \A s \in M : s <= Max(M)
      BY <3>1, Largest
    <3>3. Max(M) \in 1 .. len /\ r \in 1 .. len
      BY <3>1, <3>2
    <3>4. Max(M) <= r
      BY <3>1, <3>2
    <3>5. r <= Max(M)
      BY <3>1, <3>2
    <3>6. Max(M) = r
      BY <3>3, <3>4, <3>5
    <3> QED BY <3>6 DEF M
  <2>5. u[k] = rows[r] /\ k \in DOMAIN u
    BY <1>1, <2>2, <2>4
  <2> QED BY <2>1, <2>2, <2>5 DEF Has
<1> QED BY <1>3, <1>4

\* A statement inserts the rows [start, end) of the batch b.
InsertsRange(stmt, fields, b, start, end) ==
  /\ start \in Nat /\ end \in Nat /\ start <= end
  /\ DOMAIN Inserted(stmt) = 1 .. (end - start)
  /\ \A r \in 1 .. (end - start) : \A c \in DOMAIN fields :
       Inserted(stmt)[r][c] = Extract(fields[c].type, b[start + r][c])

\* It does if its text and its arguments were built for them.
LEMMA RangeInserted ==
  ASSUME NEW o \in Options, NEW fields \in Fields, NEW b, NEW s \in Nat, NEW e \in Nat, s <= e,
         NEW stmt, stmt.text = TextFor(o, fields, e - s), stmt.args = BuildArgs(fields, b, s, e)
  PROVE  InsertsRange(stmt, fields, b, s, e)
<1> DEFINE len == e - s
           text == stmt.text
           m == Len(fields)
<1>1. m \in Nat /\ DOMAIN fields = 1 .. m
  BY FieldFacts
<1>2. len \in Nat /\ text = TextFor(o, fields, len) /\ m = Len(fields)
  OBVIOUS
<1> HIDE DEF len, text, m
<1>3. /\ DOMAIN text.values = 1 .. len /\ DOMAIN text.columns = 1 .. m
      /\ \A r \in 1 .. len, c \in 1 .. m : ArgAt(text, r, c) = Place(m, r, c)
  BY <1>2, TextShape
<1>4. DOMAIN Inserted(stmt) = 1 .. len
  BY <1>3 DEF Inserted, text
<1>5. ASSUME NEW r \in 1 .. (e - s), NEW c \in 1 .. Len(fields)
      PROVE  Inserted(stmt)[r][c] = Extract(fields[c].type, b[s + r][c])
  <2>1. BuildArgs(fields, b, s, e)[Place(Len(fields), r, c)] = Extract(fields[c].type, b[s + r][c])
    BY ArgOfPlace
  <2>2. r \in 1 .. len /\ c \in 1 .. m
    BY DEF len, m
  <2>3. Inserted(stmt)[r][c] = stmt.args[Place(m, r, c)]
    BY <1>3, <2>2 DEF Inserted, text
  <2> QED BY <2>1, <2>3 DEF m
<1> QED BY <1>1, <1>4, <1>5 DEF len, m, InsertsRange

\* A chunk's statement is well-formed and inserts the chunk's rows.
LEMMA ChunkFacts ==
  ASSUME NEW o \in Options, NEW fields \in Fields, ~ConstructErr(o), OpenAccepts(o, fields),
         NEW d, d = RowsPerStmt(o.maxPlaceholders, Len(fields)),
         NEW b, NEW n \in Nat \ {0}, n = Len(b), NEW i \in 1 .. TotalChunks(n, d),
         NEW stmt, stmt = ChunkStatement(o, fields, b, i),
         NEW s, s = Start(n, d, i), NEW e, e = Start(n, d, i + 1)
  PROVE  /\ Accepts(o, stmt)
         /\ InsertsRange(stmt, fields, b, s, e) /\ e <= n
<1>1. Len(fields) \in 1 .. o.maxPlaceholders /\ o.maxPlaceholders \in Int
  BY OptionFacts DEF OpenAccepts
<1>2. d \in Nat \ {0}
  BY <1>1, RowsFit
<1>3. ChunkRange(n, d, i)[1] = s /\ ChunkRange(n, d, i)[2] = e
  BY <1>2, ChunksFollow
<1> DEFINE len == e - s
           m == Len(fields)
           text == stmt.text
<1>4. /\ text = TextFor(o, fields, len)
      /\ stmt.args = BuildArgs(fields, b, s, e)
      /\ s \in Nat /\ e \in Nat /\ e <= n /\ len \in Nat \ {0}
      /\ len * m \in Nat /\ len * m <= o.maxPlaceholders
  <2> DEFINE range == ChunkRange(n, d, i)
             l == range[2] - range[1]
  <2>1. /\ stmt.text = TextFor(o, fields, l)
        /\ stmt.args = BuildArgs(fields, b, range[1], range[2])
        /\ range[1] \in Nat /\ range[2] \in Nat /\ range[2] <= n /\ l \in Nat \ {0}
        /\ l * Len(fields) \in Nat /\ l * Len(fields) <= o.maxPlaceholders
    BY <1>1, ChunkIsStatement, SMTT(30)
  <2>2. l = len /\ range[1] = s /\ range[2] = e
    BY <1>3
  <2> HIDE DEF range, l, len, m
  <2>3. l * Len(fields) = len * m
    BY <2>2 DEF m
  <2> QED BY <2>1, <2>2, <2>3
<1> HIDE DEF text, len, m
<1>5. s <= e
  BY <1>4 DEF len
<1>6. m \in Nat /\ DOMAIN fields = 1 .. m
  BY FieldFacts DEF m
<1>7. DOMAIN stmt.args = 1 .. (len * m) /\ Len(stmt.args) = len * m
  BY <1>4, <1>5, ArgsOfRange DEF len, m
<1>8. Accepts(o, stmt)
  <2> DEFINE k == len * m
  <2>1. k \in Nat /\ k <= o.maxPlaceholders /\ DOMAIN stmt.args = 1 .. k /\ Len(stmt.args) = k
    BY <1>4, <1>7
  <2>2. k = len * m /\ stmt.text = TextFor(o, fields, len) /\ len \in Nat \ {0} /\ m = Len(fields)
    BY <1>4 DEF text, m
  <2> HIDE DEF k
  <2> QED BY <2>1, <2>2, StatementAccepted
<1>9. InsertsRange(stmt, fields, b, s, e)
  <2>1. /\ s \in Nat /\ e \in Nat /\ s <= e
        /\ stmt.text = TextFor(o, fields, e - s) /\ stmt.args = BuildArgs(fields, b, s, e)
    BY <1>4, <1>5 DEF text, len
  <2> QED BY <2>1, RangeInserted
<1> QED BY <1>4, <1>8, <1>9

\* So a chunk of a batch inserts what the next rows of the source may become.
LEMMA ExecFacts ==
  ASSUME conf \in Conf, Accepted, NEW b, NEW at \in Nat, IsBatch(b, at),
         NEW i \in 1 .. TotalChunks(Len(b), Stride),
         NEW stmt, stmt = ChunkStatement(conf.options, conf.fields, b, i),
         NEW s, s = Start(Len(b), Stride, i), NEW e, e = Start(Len(b), Stride, i + 1)
  PROVE  /\ Accepts(conf.options, stmt)
         /\ s \in Nat /\ e \in Nat /\ s <= e /\ 1 \in Columns
         /\ DOMAIN Inserted(stmt) = 1 .. (e - s)
         /\ \A r \in 1 .. (e - s) : \A c \in Columns :
              Inserted(stmt)[r][c] \in ValuesOf(source, at + s + r, c)
<1> DEFINE n == Len(b)
<1>1. n \in Nat \ {0} /\ \A x \in 1 .. n : \A c \in Columns : b[x][c] \in CellsOf(source, at + x, c)
  BY DEF IsBatch
<1>2. /\ conf.options \in Options /\ conf.fields \in Fields /\ DOMAIN conf.fields = Columns
      /\ ~ConstructErr(conf.options) /\ OpenAccepts(conf.options, conf.fields)
  BY ConfFacts DEF Accepted, Columns
<1>3. Stride = RowsPerStmt(conf.options.maxPlaceholders, Len(conf.fields))
  BY DEF Stride
<1>4. i \in 1 .. TotalChunks(n, Stride) /\ s = Start(n, Stride, i) /\ e = Start(n, Stride, i + 1) /\ n = Len(b)
  OBVIOUS
<1> HIDE DEF n
<1>5. Accepts(conf.options, stmt) /\ InsertsRange(stmt, conf.fields, b, s, e) /\ e <= n
  BY <1>1, <1>2, <1>3, <1>4, ChunkFacts
<1>6. ASSUME NEW r \in 1 .. (e - s), NEW c \in Columns
      PROVE  Inserted(stmt)[r][c] \in ValuesOf(source, at + s + r, c)
  <2>1. s + r \in 1 .. n /\ at + (s + r) = at + s + r
    <3>1. n \in Nat /\ s \in Nat /\ e \in Nat /\ e <= n
      BY <1>1, <1>5 DEF InsertsRange
    <3>2. r \in Nat /\ 1 <= r /\ r <= e - s
      BY <3>1
    <3> QED BY <3>1, <3>2, SMTT(30)
  <2>2. b[s + r][c] \in CellsOf(source, at + s + r, c)
    BY <1>1, <2>1
  <2>3. Inserted(stmt)[r][c] = Extract(TypeOf(c), b[s + r][c])
    BY <1>2, <1>5 DEF TypeOf, InsertsRange
  <2> QED BY <2>2, <2>3 DEF ValuesOf
<1>7. 1 \in Columns
  BY <1>2, ConfFacts DEF OpenAccepts
<1> QED BY <1>5, <1>6, <1>7 DEF InsertsRange

\* What the invariant says of rows does not change while a run reads them.
LEMMA Stays ==
  ASSUME conf' = conf, source' = source
  PROVE  /\ Accepted' = Accepted /\ Stride' = Stride
         /\ \A b, at : IsBatch(b, at)' <=> IsBatch(b, at)
         /\ \A t, n : Holds(t, n)' <=> Holds(t, n)
<1>1. Columns' = Columns /\ \A c : TypeOf(c)' = TypeOf(c)
  BY DEF Columns, TypeOf
<1>2. \A i, c : CellsOf(source, i, c)' = CellsOf(source, i, c) /\ ValuesOf(source, i, c)' = ValuesOf(source, i, c)
  BY <1>1 DEF CellsOf, ValuesOf
<1>3. \A b, at : IsBatch(b, at)' <=> IsBatch(b, at)
  BY <1>1, <1>2 DEF IsBatch
<1>4. \A t, n : Holds(t, n)' <=> Holds(t, n)
  BY <1>1, <1>2 DEF Holds, LastOfKey, Has
<1> QED BY <1>3, <1>4 DEF Accepted, Stride

\* The parts of the invariant in numbers.
LEMMA InvFacts ==
  ASSUME TransferInv
  PROVE  /\ Len(source) \in Nat /\ next \in Nat /\ next <= Len(source)
         /\ Size(sent) \in Nat /\ Size(batch) \in Nat
         /\ Done \in Nat /\ BatchEnd = Done + Size(batch) /\ next = BatchEnd + Size(sent)
         /\ batch # NoBatch => Size(batch) = Len(batch) /\ Len(batch) \in Nat \ {0}
         /\ sent # NoBatch => Size(sent) = Len(sent) /\ Len(sent) \in Nat \ {0}
<1>1. Len(source) \in Nat /\ next \in Nat /\ next <= Len(source)
  BY SourceFacts DEF TransferInv
<1>2. /\ sent # NoBatch => Len(sent) \in Nat \ {0}
      /\ batch # NoBatch => Len(batch) \in Nat \ {0}
  BY DEF TransferInv, BatchInv, IsBatch
<1>3. Size(sent) \in Nat /\ Size(batch) \in Nat
  BY <1>2 DEF Size
<1>4. Done \in Nat
  BY DEF TransferInv, BatchInv
<1> QED BY <1>1, <1>2, <1>3, <1>4 DEF Size, BatchEnd, Done

LEMMA FailKeeps ==
  ASSUME TransferInv, Fail, conf' = conf, source' = source,
         next' \in 0 .. Len(source), refused' = refused
  PROVE  TransferInv'
<1>1. sent' = NoBatch /\ batch' = NoBatch /\ status' = "failed"
  BY DEF Fail
<1>2. Done' = next' /\ next' \in Nat
  <2>1. Len(source) \in Nat
    BY InvFacts
  <2>2. next' \in Nat
    BY <2>1
  <2>3. \A k \in Nat : k - 0 = k
    OBVIOUS
  <2>4. Size(NoBatch) = 0
    BY DEF Size
  <2>5. BatchEnd' = next'
    BY <1>1, <2>2, <2>3, <2>4 DEF BatchEnd, Size
  <2> QED BY <1>1, <2>2, <2>3, <2>5 DEF Done, Size
<1>3. StateInv'
  BY <1>1 DEF TransferInv, StateInv
<1>4. BatchInv' /\ TableInv'
  BY <1>1, <1>2 DEF BatchInv, TableInv
<1> QED BY <1>3, <1>4 DEF TransferInv

LEMMA StartRunKeeps ==
  ASSUME TransferInv, NEW rows \in conf.tables, StartRun(rows)
  PROVE  TransferInv'
<1>1. /\ conf' = conf /\ source' = rows /\ next' = 0 /\ status' = "running" /\ refused' = refused
      /\ sent' = NoBatch /\ batch' = NoBatch
  BY DEF StartRun, transactionVars, TransferInv, StateInv
<1>2. Len(rows) \in Nat
  BY ConfFacts DEF TransferInv, StateInv
<1>3. StateInv'
  BY <1>1, <1>2 DEF TransferInv, StateInv
<1>4. Done' = 0
  BY <1>1 DEF Done, BatchEnd, Size
<1>5. Holds(table, Done)'
  BY <1>4 DEF Holds
<1> QED BY <1>1, <1>3, <1>4, <1>5 DEF TransferInv, BatchInv, TableInv

LEMMA SourceSendsKeeps ==
  ASSUME TransferInv, SourceSends
  PROVE  TransferInv'
<1>1. /\ conf' = conf /\ source' = source /\ refused' = refused
      /\ status = "running" /\ sent = NoBatch /\ next < Len(source)
  BY DEF SourceSends
<1>2. PICK b \in Conversions :
        /\ next' = next + Len(b)
        /\ IF \E i \in DOMAIN b : Error \in Range(b[i]) THEN Fail
           ELSE sent' = b /\ UNCHANGED <<status, transactionVars, table>>
  BY DEF SourceSends
<1>3. CASE \E i \in DOMAIN b : Error \in Range(b[i])
  <2> DEFINE last == Min({next + conf.batchSize, Len(source)})
  <2>1. /\ Len(source) \in Nat /\ next \in Nat /\ conf.batchSize \in Nat \ {0}
    BY SourceFacts, ConfFacts DEF TransferInv, StateInv
  <2>2. last - next \in Nat /\ next + (last - next) <= Len(source)
    BY <1>1, <2>1, MinOfTwo
  <2> HIDE DEF last
  <2>3. DOMAIN b = 1 .. (last - next) /\ b = [i \in DOMAIN b |-> b[i]]
    BY DEF Conversions, last
  <2>4. Len(b) = last - next
    BY <2>2, <2>3, LenOfFunction
  <2>5. next' \in 0 .. Len(source)
    BY <1>2, <2>1, <2>2, <2>4
  <2> QED BY <1>1, <1>2, <1>3, <2>5, FailKeeps
<1>4. CASE ~ \E i \in DOMAIN b : Error \in Range(b[i])
  <2>1. /\ sent' = b /\ next' = next + Len(b)
        /\ status' = status /\ batch' = batch /\ chunk' = chunk /\ work' = work /\ table' = table
    BY <1>2, <1>4 DEF transactionVars
  <2>2. IsBatch(b, next) /\ b # NoBatch /\ Len(b) \in Nat /\ next + Len(b) <= Len(source)
    BY <1>1, <1>4, SentBatch DEF TransferInv
  <2>3. next \in Nat /\ Len(source) \in Nat
    BY InvFacts
  <2>4. BatchEnd' = next /\ BatchEnd = next
    BY <1>1, <2>1, <2>2, <2>3 DEF BatchEnd, Size
  <2>5. Done' = Done
    BY <2>1, <2>4 DEF Done, Size
  <2>6. StateInv'
    BY <1>1, <2>1, <2>2, <2>3 DEF TransferInv, StateInv
  <2>7. BatchInv'
    <3>1. IsBatch(sent, BatchEnd)'
      BY <1>1, <2>1, <2>2, <2>4, Stays
    <3>2. batch # NoBatch => IsBatch(batch, Done)'
      BY <1>1, <2>1, <2>5, Stays DEF TransferInv, BatchInv
    <3>3. Accepted' = Accepted /\ Chunks' = Chunks
      BY <1>1, <2>1 DEF Accepted, Chunks
    <3> QED BY <2>1, <2>5, <3>1, <3>2, <3>3 DEF TransferInv, BatchInv
  <2>8. TableInv'
    BY <1>1, <2>1, <2>5, Stays DEF TransferInv, TableInv
  <2> QED BY <2>6, <2>7, <2>8 DEF TransferInv
<1> QED BY <1>3, <1>4

LEMMA StrideFacts ==
  ASSUME conf \in Conf, Accepted
  PROVE  Stride \in Nat \ {0}
<1>1. Len(conf.fields) \in 1 .. conf.options.maxPlaceholders /\ conf.options.maxPlaceholders \in Int
  BY ConfFacts, OptionFacts DEF Accepted, OpenAccepts
<1> QED BY <1>1, RowsFit DEF Stride

LEMMA ConsumeKeeps ==
  ASSUME TransferInv, Consume
  PROVE  TransferInv'
<1>1. /\ conf' = conf /\ source' = source /\ next' = next /\ refused' = refused
      /\ status = "running" /\ batch = NoBatch /\ sent # NoBatch
  BY DEF Consume
<1>2. CASE ~Accepted
  BY <1>1, <1>2, FailKeeps DEF Consume, Accepted, TransferInv, StateInv
<1>3. CASE Accepted
  <2>1. /\ batch' = sent /\ sent' = NoBatch /\ chunk' = 1 /\ work' = table
        /\ status' = status /\ table' = table
    BY <1>1, <1>3 DEF Consume, Accepted
  <2>2. /\ next \in Nat /\ Size(sent) \in Nat /\ Done \in Nat
        /\ BatchEnd = Done /\ next = BatchEnd + Size(sent)
    BY <1>1, InvFacts DEF Size
  <2>3. Done' = Done
    BY <1>1, <2>1, <2>2 DEF Done, BatchEnd, Size
  <2>4. StateInv'
    BY <1>1, <2>1 DEF TransferInv, StateInv
  <2>5. IsBatch(sent, Done) /\ Len(sent) \in Nat \ {0}
    BY <1>1, <2>2, InvFacts DEF TransferInv, BatchInv
  <2>6. BatchInv'
    <3>1. IsBatch(batch, Done)' /\ Accepted'
      BY <1>1, <1>3, <2>1, <2>3, <2>5, Stays
    <3>2. Chunks' = TotalChunks(Len(sent), Stride)
      BY <1>1, <2>1 DEF Chunks, Stride
    <3>3. 1 \in 1 .. (TotalChunks(Len(sent), Stride) + 1)
      <4>1. Stride \in Nat \ {0}
        BY <1>3, StrideFacts DEF TransferInv, StateInv
      <4>2. TotalChunks(Len(sent), Stride) \in Nat
        BY <2>5, <4>1, ChunkShape
      <4> QED BY <4>2
    <3>4. chunk' \in 1 .. (Chunks' + 1)
      BY <2>1, <3>2, <3>3
    <3> QED BY <2>1, <2>2, <2>3, <3>1, <3>4 DEF BatchInv
  <2>7. TableInv'
    <3>1. Holds(table, Done) /\ Start(Len(sent), Stride, 1) = 0 /\ Done + 0 = Done
      BY <1>1, <2>2 DEF TransferInv, TableInv, Start
    <3>2. Holds(table, Done)' /\ Stride' = Stride
      BY <1>1, <2>1, <2>3, <3>1, Stays
    <3>3. Holds(work, Done + Start(Len(batch), Stride, chunk))'
      BY <2>1, <2>3, <3>1, <3>2, Stays, <1>1
    <3> QED BY <2>1, <3>2, <3>3 DEF TableInv
  <2> QED BY <2>4, <2>6, <2>7 DEF TransferInv
<1> QED BY <1>2, <1>3

LEMMA ExecKeeps ==
  ASSUME TransferInv, Exec
  PROVE  TransferInv'
<1> DEFINE stmt == ChunkStatement(conf.options, conf.fields, batch, chunk)
           rows == Inserted(stmt)
           s == Start(Len(batch), Stride, chunk)
           e == Start(Len(batch), Stride, chunk + 1)
<1>1. /\ conf' = conf /\ source' = source /\ next' = next
      /\ status = "running" /\ batch # NoBatch /\ chunk <= Chunks
  BY DEF Exec
<1>2. /\ conf \in Conf /\ Accepted /\ IsBatch(batch, Done) /\ Done \in Nat
      /\ chunk \in 1 .. (Chunks + 1) /\ Holds(work, Done + s)
  BY <1>1 DEF TransferInv, StateInv, BatchInv, TableInv
<1>3. Stride \in Nat \ {0} /\ Len(batch) \in Nat \ {0} /\ Chunks = TotalChunks(Len(batch), Stride)
  BY <1>1, <1>2, StrideFacts, InvFacts DEF Chunks, Stride
<1>4. Chunks \in Nat
  BY <1>3, ChunkShape
<1>5. chunk \in 1 .. Chunks /\ chunk + 1 \in 1 .. (Chunks + 1)
  BY <1>1, <1>2, <1>4
<1>6. /\ Accepts(conf.options, stmt)
      /\ s \in Nat /\ e \in Nat /\ s <= e /\ 1 \in Columns
      /\ DOMAIN rows = 1 .. (e - s)
      /\ \A r \in 1 .. (e - s) : \A c \in Columns : rows[r][c] \in ValuesOf(source, Done + s + r, c)
  BY <1>2, <1>3, <1>5, ExecFacts
<1>7. /\ refused' = (refused \/ ~Accepts(conf.options, stmt))
      /\ IF ~Accepts(conf.options, stmt) \/ (conf.options.clause = "none" /\ Conflicts(work, rows)) THEN Fail
         ELSE /\ work' = Upserted(work, rows)
              /\ chunk' = chunk + 1
              /\ UNCHANGED <<status, sent, batch, table>>
  BY DEF Exec
<1>8. Holds(Upserted(work, rows), Done + e)
  <2> DEFINE p == Done + s
             len == e - s
  <2>1. p \in Nat /\ len \in Nat /\ p + len = Done + e
    BY <1>2, <1>6
  <2>2. Holds(work, p) /\ DOMAIN rows = 1 .. len
        /\ \A r \in 1 .. len : \A c \in Columns : rows[r][c] \in ValuesOf(source, p + r, c)
    BY <1>2, <1>6
  <2> HIDE DEF p, len, rows, s, e
  <2>3. Holds(Upserted(work, rows), p + len)
    BY <1>6, <2>1, <2>2, UpsertHolds
  <2> QED BY <2>1, <2>3
<1> HIDE DEF stmt, rows, s
<1>9. refused' = refused
  BY <1>6, <1>7 DEF TransferInv, StateInv
<1>10. CASE conf.options.clause = "none" /\ Conflicts(work, rows)
  <2>1. next' \in 0 .. Len(source)
    BY <1>1 DEF TransferInv, StateInv
  <2>2. Fail
    BY <1>7, <1>10
  <2> QED BY <1>1, <1>9, <2>1, <2>2, FailKeeps
<1>11. CASE ~(conf.options.clause = "none" /\ Conflicts(work, rows))
  <2>1. /\ work' = Upserted(work, rows) /\ chunk' = chunk + 1
        /\ status' = status /\ sent' = sent /\ batch' = batch /\ table' = table
    BY <1>6, <1>7, <1>11
  <2>2. Done' = Done /\ BatchEnd' = BatchEnd
    BY <1>1, <2>1 DEF Done, BatchEnd
  <2>3. Stride' = Stride /\ Accepted' = Accepted /\ Chunks' = Chunks
    BY <1>1, <2>1 DEF Stride, Accepted, Chunks
  <2>4. StateInv'
    BY <1>1, <1>9, <2>1 DEF TransferInv, StateInv
  <2>5. BatchInv'
    <3>1. sent # NoBatch => IsBatch(sent, BatchEnd)'
      BY <1>1, <2>1, <2>2, Stays DEF TransferInv, BatchInv
    <3>2. IsBatch(batch, Done)'
      BY <1>1, <1>2, <2>1, <2>2, Stays
    <3> QED BY <1>2, <1>5, <2>1, <2>2, <2>3, <3>1, <3>2 DEF BatchInv
  <2>6. Holds(table, Done)'
    BY <1>1, <2>1, <2>2, Stays DEF TransferInv, TableInv
  <2>7. Holds(work, Done + Start(Len(batch), Stride, chunk))'
    <3>1. (Done + Start(Len(batch), Stride, chunk))' = Done + e
      BY <2>1, <2>2, <2>3
    <3> QED BY <1>1, <1>8, <2>1, <3>1, Stays
  <2> QED BY <2>4, <2>5, <2>6, <2>7 DEF TransferInv, TableInv
<1> QED BY <1>10, <1>11

LEMMA CommitKeeps ==
  ASSUME TransferInv, NEW ok \in BOOLEAN, NEW stored \in BOOLEAN, Commit(ok, stored)
  PROVE  TransferInv'
<1>1. /\ conf' = conf /\ source' = source /\ next' = next /\ refused' = refused
      /\ status = "running" /\ batch # NoBatch /\ chunk > Chunks
      /\ ok => stored
      /\ table' = IF stored THEN work ELSE table
      /\ batch' = NoBatch
      /\ IF ok THEN status' = status /\ sent' = sent ELSE status' = "failed" /\ sent' = NoBatch
  BY DEF Commit
<1>2. /\ conf \in Conf /\ Accepted /\ Done \in Nat /\ chunk \in 1 .. (Chunks + 1)
      /\ Holds(work, Done + Start(Len(batch), Stride, chunk))
  BY <1>1 DEF TransferInv, StateInv, BatchInv, TableInv
<1>3. /\ Size(batch) = Len(batch) /\ Len(batch) \in Nat \ {0} /\ Size(sent) \in Nat
      /\ BatchEnd = Done + Size(batch) /\ next = BatchEnd + Size(sent) /\ next \in Nat
  BY <1>1, InvFacts
<1>4. Holds(work, BatchEnd)
  <2>1. Stride \in Nat \ {0} /\ Chunks = TotalChunks(Len(batch), Stride)
    BY <1>2, StrideFacts DEF Chunks, Stride
  <2>2. Chunks \in Nat \ {0} /\ 1 \in 1 .. Chunks
    BY <1>3, <2>1, ChunkShape, SMTT(30)
  <2>3. Start(Len(batch), Stride, Chunks + 1) = Len(batch)
    BY <1>3, <2>1, <2>2, ChunksFollow
  <2>4. chunk = Chunks + 1
    BY <1>1, <1>2, <2>2
  <2> QED BY <1>2, <1>3, <2>3, <2>4
<1>5. CASE ok
  <2>1. status' = status /\ sent' = sent /\ table' = work
    BY <1>1, <1>5
  <2>2. BatchEnd' = BatchEnd /\ Done' = BatchEnd
    BY <1>1, <1>2, <1>3, <2>1 DEF Done, BatchEnd, Size
  <2>3. StateInv'
    BY <1>1, <2>1 DEF TransferInv, StateInv
  <2>4. BatchInv'
    <3>1. sent # NoBatch => IsBatch(sent, BatchEnd)'
      BY <1>1, <2>1, <2>2, Stays DEF TransferInv, BatchInv
    <3> QED BY <1>1, <1>2, <1>3, <2>1, <2>2, <3>1 DEF BatchInv
  <2>5. Holds(table, Done)'
    BY <1>1, <1>4, <2>1, <2>2, Stays
  <2> QED BY <1>1, <2>3, <2>4, <2>5 DEF TransferInv, TableInv
<1>6. CASE ~ok
  <2>1. status' = "failed" /\ sent' = NoBatch
    BY <1>1, <1>6
  <2>2. Done' = next
    BY <1>1, <1>3, <2>1 DEF Done, BatchEnd, Size
  <2>3. StateInv'
    BY <1>1, <2>1 DEF TransferInv, StateInv
  <2> QED BY <1>1, <1>3, <2>1, <2>2, <2>3 DEF TransferInv, BatchInv, TableInv
<1> QED BY <1>5, <1>6

LEMMA FinishKeeps ==
  ASSUME TransferInv, Finish
  PROVE  TransferInv'
<1>1. /\ conf' = conf /\ source' = source /\ next' = next /\ refused' = refused
      /\ sent' = sent /\ batch' = batch /\ table' = table
      /\ status = "running" /\ next = Len(source) /\ sent = NoBatch /\ batch = NoBatch
      /\ status' \in {"failed", "nil"}
  BY DEF Finish, transactionVars
<1>2. Done' = Done
  BY <1>1 DEF Done, BatchEnd
<1>3. StateInv'
  BY <1>1 DEF TransferInv, StateInv
<1>4. Holds(table, Done)'
  BY <1>1, <1>2, Stays DEF TransferInv, TableInv
<1> QED BY <1>1, <1>2, <1>3, <1>4 DEF TransferInv, BatchInv, TableInv

LEMMA TransferInvariant == Spec => []TransferInv
<1>1. Init => TransferInv
  <2> SUFFICES ASSUME Init PROVE TransferInv
    OBVIOUS
  <2>1. StateInv
    BY DEF Init, StateInv
  <2>2. Done = 0
    BY DEF Init, Done, BatchEnd, Size
  <2> QED BY <2>1, <2>2 DEF Init, TransferInv, BatchInv, TableInv
<1>2. TransferInv /\ [Next]_vars => TransferInv'
  <2> SUFFICES ASSUME TransferInv, [Next]_vars PROVE TransferInv'
    OBVIOUS
  <2>1. CASE \E rows \in conf.tables : StartRun(rows)
    BY <2>1, StartRunKeeps
  <2>2. CASE SourceSends
    BY <2>2, SourceSendsKeeps
  <2>3. CASE Consume
    BY <2>3, ConsumeKeeps
  <2>4. CASE Exec
    BY <2>4, ExecKeeps
  <2>5. CASE \E ok, stored \in BOOLEAN : Commit(ok, stored)
    BY <2>5, CommitKeeps
  <2>6. CASE Finish
    BY <2>6, FinishKeeps
  <2>7. CASE Fault
    <3>1. next' \in 0 .. Len(source)
      BY <2>7 DEF Fault, TransferInv, StateInv
    <3> QED BY <2>7, <3>1, FailKeeps DEF Fault
  <2>8. CASE UNCHANGED vars
    <3>1. /\ conf' = conf /\ source' = source /\ next' = next /\ refused' = refused /\ status' = status
          /\ sent' = sent /\ batch' = batch /\ chunk' = chunk /\ work' = work /\ table' = table
      BY <2>8 DEF vars, transactionVars
    <3>2. Done' = Done /\ BatchEnd' = BatchEnd /\ Chunks' = Chunks
      BY <3>1 DEF Done, BatchEnd, Chunks
    <3>3. StateInv'
      BY <3>1 DEF TransferInv, StateInv
    <3>4. BatchInv'
      <4>1. sent # NoBatch => IsBatch(sent, BatchEnd)'
        BY <3>1, <3>2, Stays DEF TransferInv, BatchInv
      <4>2. batch # NoBatch => IsBatch(batch, Done)'
        BY <3>1, <3>2, Stays DEF TransferInv, BatchInv
      <4> QED BY <3>1, <3>2, <4>1, <4>2, Stays DEF TransferInv, BatchInv
    <3>5. TableInv'
      <4>1. status \in {"running", "nil"} => Holds(table, Done)'
        BY <3>1, <3>2, Stays DEF TransferInv, TableInv
      <4>2. batch # NoBatch => Holds(work, Done + Start(Len(batch), Stride, chunk))'
        BY <3>1, <3>2, Stays DEF TransferInv, TableInv
      <4> QED BY <3>1, <4>1, <4>2 DEF TableInv
    <3> QED BY <3>3, <3>4, <3>5 DEF TransferInv
  <2> QED BY <2>1, <2>2, <2>3, <2>4, <2>5, <2>6, <2>7, <2>8 DEF Next, Terminated
<1> QED BY <1>1, <1>2, PTL DEF Spec

\* The database finds nothing malformed in any statement of the sink, whatever
\* names, options, limits and batches New and open let through (sink.go 458-513,
\* 540-638, 695-772).
THEOREM StatementsAreWellFormed == Spec => []StatementsAreAccepted
<1>1. TransferInv => StatementsAreAccepted
  BY DEF TransferInv, StateInv, StatementsAreAccepted
<1> QED BY <1>1, TransferInvariant, PTL

\* A run that returns nil leaves in the destination the last row of every key the
\* source had, whatever runs before it did (examples/sql-to-sql/main.go 1-4).
THEOREM CompletedTransferIsComplete == Spec => []TransferIsComplete
<1>1. TransferInv => TransferIsComplete
  <2> SUFFICES ASSUME TransferInv, status = "nil", NEW i \in DOMAIN source,
                      \A j \in (i + 1) .. Len(source) :
                        ValuesOf(source, j, 1) \cap ValuesOf(source, i, 1) = {}
               PROVE  Has(table, i)
    BY DEF TransferIsComplete, Has
  <2>1. sent = NoBatch /\ batch = NoBatch /\ next = Len(source)
    BY DEF TransferInv, StateInv
  <2>2. Done = Len(source)
    BY <2>1, InvFacts DEF Size
  <2>3. i \in 1 .. Len(source) /\ LastOfKey(i, Len(source))
    BY SourceFacts DEF LastOfKey, TransferInv
  <2> QED BY <2>2, <2>3 DEF TransferInv, TableInv, Holds
<1> QED BY <1>1, TransferInvariant, PTL
=============================================================================
