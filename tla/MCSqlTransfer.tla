---------------------------- MODULE MCSqlTransfer ----------------------------
EXTENDS SqlTransfer

MCMinInt == -4
MCTicks == [s |-> 2, ms |-> 1]

\* The local clock is put forward by 6 ticks, at 8, and back again, at 14: it
\* skips the readings 6 to 11 and shows 12 to 17 twice.  A minute has 4 ticks: the
\* offset has seconds, but for the time in between.
MCLocalOffset == [i \in -4 .. 30 |-> IF i \in 8 .. 13 THEN 4 ELSE -2]

IntValue(n) == Scanned("int", Plain(n))

DriverValues ==
  {Nil}
  \cup {IntValue(n) : n \in {MinInt, 0, 1, MaxInt}}
  \cup {Scanned("float", Plain(n)) : n \in {0, 3}}
  \cup {Scanned("bool", Plain(n)) : n \in {0, 1}}
  \cup {Scanned("time", Plain(i)) : i \in {0, 3, 7, 8, 13, 14, 17}}
  \cup Texts({Datum("number", n, 0) : n \in {MinInt - 1, MinInt, 0, 1, MaxInt, MaxInt + 1}})
  \cup Texts({Datum("truth", 1, 0), Datum("bit", 0, 0), Datum("bit", 1, 0), Datum("word", 0, 0)})
  \cup Texts({Datum("naive", n, 0) : n \in 5 .. 20})
  \cup Texts({Datum("stamp", n, o) : n \in {7, 8, 12}, o \in {0, 2, 4}})

Column == {Type(id, "", "") : id \in {"INT64", "FLOAT64", "BOOL", "STRING", "BINARY", "LIST"}}
          \cup {Type("TIMESTAMP", u, tz) : u \in DOMAIN MCTicks, tz \in {"", "utc", "local", "nowhere"}}

Id == Name("id", "lower", "plain")
Other == Name("other", "lower", "plain")

WithOptions(name, quoted, extra, marker, clause, maxPlaceholders) ==
  [table |-> name, quoted |-> quoted, extra |-> extra, marker |-> marker,
   clause |-> clause, maxPlaceholders |-> maxPlaceholders]

Configure(options, names, type, batchSize, tables) ==
  [options |-> options,
   fields |-> <<[name |-> names[1], type |-> Type("INT64", "", "")],
                [name |-> names[2], type |-> type]>>,
   batchSize |-> batchSize, tables |-> tables]

\* One row with any value, in a column of any type.
ValueConf ==
  {Configure(WithOptions(<<Id>>, FALSE, {}, "question", "upsert", 2), <<Id, Other>>, t, 1,
             {<<<<IntValue(1), v>>>>}) : t \in Column, v \in DriverValues}

\* Tables of up to five rows over three keys, a key of which may occur twice,
\* in any division into batches and statements.
TransferConf ==
  {Configure(WithOptions(<<Id>>, FALSE, {}, m, c, p), <<Id, Other>>, Type("STRING", "", ""), b,
             {[i \in 1 .. n |-> <<IntValue(IF i > 3 THEN i - 3 ELSE i),
                                  Scanned("string", Datum("word", i + d, 0))>>] :
                n \in {0, 2, 5}, d \in {0, 1}}) :
     m \in {"question", "dollar"}, c \in {"none", "upsert"}, p \in 2 .. 5, b \in {1, 2, 5}}

\* Tables of three rows, of which one may hold a value that cannot be converted,
\* before or after others were stored.
FaultyConf ==
  {Configure(WithOptions(<<Id>>, FALSE, {}, "question", "upsert", 2), <<Id, Other>>,
             Type("INT64", "", ""), b,
             {[i \in 1 .. 3 |-> <<IntValue(i), IF i = bad THEN Scanned("string", Datum("word", 0, 0))
                                              ELSE IntValue(d)>>] :
                bad \in 0 .. 3, d \in {0, 1}}) : b \in {1, 2}}

SomeNames == {Id, Name("id", "upper", "plain"), Name("id", "lower", "digit"),
             Name("x y", "lower", "other"), Name("", "lower", "empty"),
             Name("select", "upper", "plain"), Name("rank", "lower", "plain"), Other}

\* Any names, options and limits, one row.
NameConf ==
  {Configure(WithOptions(<<Id>>, q, x, "question", c, p), <<m, n>>, Type("INT64", "", ""), 1,
             {<<<<IntValue(1), IntValue(1)>>>>}) :
     q \in BOOLEAN, x \in {{}, {Name("rank", "upper", "plain")}, {Name("", "lower", "empty")}},
     c \in {"upsert", "dollar"}, p \in {1, 2}, m \in SomeNames, n \in SomeNames}
  \cup
  {Configure(WithOptions(t, q, {}, "question", "upsert", 2), <<Id, Other>>, Type("INT64", "", ""), 1,
             {<<<<IntValue(1), IntValue(1)>>>>}) :
     q \in BOOLEAN,
     t \in {<<m>> : m \in SomeNames} \cup {<<m, n>> : m, n \in SomeNames} \cup {<<>>, <<Id, Id, Id>>}}

MCConf == ValueConf \cup TransferConf \cup FaultyConf \cup NameConf
=============================================================================
