--------------------------- MODULE SqlSinkProofs ---------------------------
(***************************************************************************)
(* Theorems about SqlSink for any callers, batches, schemas and placeholder *)
(* limit: what is stored for a call and what the call says about it.       *)
(***************************************************************************)
EXTENDS SqlSink, TLAPS

----------------------------------------------------------------------------
(* Splitting the rows of a batch.                                          *)

LEMMA DivisionFacts ==
  ASSUME NEW n \in Nat, NEW d \in Nat \ {0}
  PROVE  /\ n \div d \in Nat /\ n % d \in Nat
         /\ n = d * (n \div d) + (n % d) /\ (n % d) < d
OBVIOUS

LEMMA ProductGrows ==
  ASSUME NEW d \in Nat, NEW i \in Nat, NEW j \in Nat, i <= j
  PROVE  i * d <= j * d /\ i * d \in Nat
OBVIOUS

\* The chunks of a batch are half-open ranges: together they are all rows.
LEMMA ChunkShape ==
  ASSUME NEW n \in Nat \ {0}, NEW d \in Nat \ {0}
  PROVE  /\ TotalChunks(n, d) \in Nat \ {0}
         /\ \A i \in 1 .. TotalChunks(n, d) :
              ChunkRange(n, d, i) = <<(i - 1) * d, IF i < TotalChunks(n, d) THEN i * d ELSE n>>
         /\ (TotalChunks(n, d) - 1) * d < n /\ n <= TotalChunks(n, d) * d
<1> DEFINE q == n \div d
           r == n % d
           t == TotalChunks(n, d)
<1>1. q \in Nat /\ r \in Nat /\ n = d * q + r /\ r < d
  BY DivisionFacts
<1>2. t = IF r > 0 THEN q + 1 ELSE q
  BY DEF TotalChunks, NumFullChunks, Remainder
<1> HIDE DEF t
<1>3. t \in Nat \ {0}
  BY <1>1, <1>2
<1>4. (t - 1) * d < n /\ n <= t * d
  BY <1>1, <1>2
<1>5. ASSUME NEW i \in 1 .. t
      PROVE  ChunkRange(n, d, i) = <<(i - 1) * d, IF i < t THEN i * d ELSE n>>
  <2>1. CASE t <= 1
    BY <1>3, <1>5, <2>1 DEF ChunkRange, t
  <2>2. CASE t > 1 /\ i <= q
    BY <1>1, <1>2, <1>5, <2>2 DEF ChunkRange, NumFullChunks, t
  <2>3. CASE t > 1 /\ i > q
    BY <1>1, <1>2, <1>5, <2>3 DEF ChunkRange, NumFullChunks, Remainder, t
  <2> QED BY <1>1, <1>2, <2>1, <2>2, <2>3
<1> QED BY <1>3, <1>4, <1>5 DEF t

\* The statements of all chunks, in order, insert every row once.
LEMMA ChunksCover ==
  ASSUME NEW b, b.rows \in Nat \ {0}, PerStmt(b) \in Nat \ {0},
         NEW ss, DOMAIN ss = 1 .. Chunks(b),
         \A i \in 1 .. Chunks(b) : ss[i] = Statement(b, i)
  PROVE  Covers(ss, b)
<1> DEFINE n == b.rows
           d == PerStmt(b)
           t == Chunks(b)
           first(i) == (i - 1) * d
           next(i) == IF i < t THEN i * d ELSE n
<1>1. /\ t \in Nat \ {0} /\ (t - 1) * d < n /\ n <= t * d
      /\ \A i \in 1 .. t : ss[i] = <<first(i), next(i)>>
  BY ChunkShape DEF Chunks, Statement
<1> HIDE DEF n, d, t
<1>2. n \in Nat \ {0} /\ d \in Nat \ {0} /\ DOMAIN ss = 1 .. t
  BY DEF n, d, t
<1>3. \A i \in 1 .. t : Rows(ss[i]) = first(i) .. (next(i) - 1)
  BY <1>1 DEF Rows
<1>4. ASSUME NEW i \in 1 .. t
      PROVE  first(i) \in Nat /\ next(i) \in Nat /\ next(i) <= n
  <2>1. (i - 1) * d \in Nat /\ i * d \in Nat
    BY <1>1, <1>2, ProductGrows
  <2>2. i < t => i * d <= (t - 1) * d
    BY <1>1, <1>2, ProductGrows
  <2> QED BY <1>1, <1>2, <2>1, <2>2
<1>5. ASSUME NEW i \in 1 .. t, NEW j \in 1 .. t, i < j
      PROVE  next(i) <= first(j)
  <2>1. i * d <= (j - 1) * d
    BY <1>1, <1>2, <1>5, ProductGrows
  <2> QED BY <1>1, <1>5, <2>1
<1>6. ASSUME NEW x \in 0 .. (n - 1)
      PROVE  \E i \in 1 .. t : x \in Rows(ss[i])
  <2> DEFINE q == x \div d
             r == x % d
  <2>1. q \in Nat /\ r \in Nat /\ x = d * q + r /\ r < d
    BY <1>2, DivisionFacts
  <2> HIDE DEF q, r
  <2>2. q * d <= x /\ x < (q + 1) * d
    BY <1>2, <2>1
  <2>3. q < t
    <3>1. q >= t => t * d <= q * d
      BY <1>1, <1>2, <2>1, ProductGrows
    <3>2. t * d \in Nat /\ q * d \in Nat
      BY <1>1, <1>2, <2>1, ProductGrows
    <3>3. n <= t * d /\ q * d <= x /\ x < n
      BY <1>1, <1>2, <2>2
    <3>4. q * d < t * d
      BY <1>2, <3>2, <3>3
    <3> QED BY <1>1, <2>1, <3>1, <3>2, <3>4
  <2>4. q + 1 \in 1 .. t /\ first(q + 1) <= x /\ x < next(q + 1)
    BY <1>1, <1>2, <2>1, <2>2, <2>3
  <2>5. first(q + 1) \in Nat /\ next(q + 1) \in Nat
    BY <1>4, <2>4
  <2>6. x \in Rows(ss[q + 1])
    BY <1>2, <1>3, <2>4, <2>5
  <2> QED BY <2>4, <2>6
<1>7. UNION {Rows(ss[i]) : i \in DOMAIN ss} = 0 .. (b.rows - 1)
  <2>1. \A i \in 1 .. t : Rows(ss[i]) \subseteq 0 .. (n - 1)
    BY <1>2, <1>3, <1>4
  <2> QED BY <1>2, <1>6, <2>1 DEF n
<1>8. ASSUME NEW i \in DOMAIN ss, NEW j \in DOMAIN ss, i # j
      PROVE  Rows(ss[i]) \cap Rows(ss[j]) = {}
  <2>1. i \in 1 .. t /\ j \in 1 .. t
    BY <1>2
  <2>2. CASE i < j
    BY <1>3, <1>4, <1>5, <2>1, <2>2, SMTT(30)
  <2>3. CASE j < i
    BY <1>3, <1>4, <1>5, <2>1, <2>3, SMTT(30)
  <2> QED BY <1>1, <1>8, <2>1, <2>2, <2>3
<1> QED BY <1>7, <1>8 DEF Covers

\* A batch whose columns fit the placeholder limit has a statement of at least
\* one row, and no more than the limit allows.
LEMMA StatementSize ==
  ASSUME NEW b, NumCols[b.schema] \in 1 .. MaxPlaceholders
  PROVE  /\ PerStmt(b) \in Nat \ {0}
         /\ PerStmt(b) * NumCols[b.schema] <= MaxPlaceholders
<1> DEFINE q == MaxPlaceholders \div NumCols[b.schema]
           r == MaxPlaceholders % NumCols[b.schema]
           m == NumCols[b.schema]
<1>1. MaxPlaceholders \in Nat /\ m \in Nat \ {0} /\ m <= MaxPlaceholders
  BY ParameterAssumption
<1> HIDE DEF m
<1>2. q \in Nat /\ r \in Nat /\ MaxPlaceholders = m * q + r /\ r < m
  BY <1>1, DivisionFacts DEF m
<1> HIDE DEF q, r
<1>3. q # 0 /\ q * m <= MaxPlaceholders
  BY <1>1, <1>2
<1> QED BY <1>2, <1>3 DEF PerStmt, RowsPerStmt, q, m

----------------------------------------------------------------------------
(* The inductive invariant.                                                *)

\* Consume is running, and has it accepted its batch.
Consuming == Inside \ {"finish"}
Inserting == {"begin", "prepare", "exec", "commit"}

Stored == Seq(Int \X Int)

\* What TypeOK says, and the domains of the database's variables.
TypeInv ==
  /\ TypeOK
  /\ pending \in [Caller -> Stored]
  /\ table \in [Call -> Stored]

\* At most one caller is inside, and the sink is marked as in use then.
Exclusive ==
  \A c \in Caller : pc[c] \in Inside =>
    /\ inUse = 1
    /\ \A d \in Caller : pc[d] \in Inside => d = c

\* A call that is running has nothing stored and no result yet, and its batch
\* is noted as given once it is accepted.
CallInProgress(c) ==
  /\ calls[c] \in 1 .. MaxCalls
  /\ batch[c] \in Batches
  /\ result[ThisCall(c)] = "none"
  /\ table[ThisCall(c)] = <<>>
  /\ given[ThisCall(c)] = IF pc[c] \in Inserting THEN batch[c] ELSE NoBatch
  /\ pc[c] \in Inserting => batch[c].rows > 0
  /\ pc[c] \in {"begin", "prepare"} => chunk[c] = 1
  /\ pc[c] # "check" => ~finished
  /\ pc[c] = "open" => ~started

Running == \A c \in Caller : pc[c] \in Consuming => CallInProgress(c)

\* Calls not yet made have left nothing.
Untouched ==
  \A c \in Caller : \A n \in 1 .. MaxCalls : n > calls[c] =>
    result[<<c, n>>] = "none" /\ table[<<c, n>>] = <<>> /\ given[<<c, n>>] = NoBatch

\* An open transaction holds the statements before the next chunk, in order;
\* at the commit, all of them.
TxShapeAt(c) ==
  tx[c] = "open" =>
    /\ pc[c] \in {"prepare", "exec", "commit"}
    /\ Len(pending[c]) = IF pc[c] = "commit" THEN Chunks(batch[c]) ELSE chunk[c] - 1
    /\ \A i \in 1 .. Len(pending[c]) : pending[c][i] = Statement(batch[c], i)

TxShape == \A c \in Caller : TxShapeAt(c)

\* The schema that was locked fits the placeholder limit, and every accepted
\* batch has it.
SchemaLocked ==
  /\ started => NumCols[schema] \in 1 .. MaxPlaceholders
  /\ started => \E k \in Call : given[k] # NoBatch
  /\ \A k \in Call : given[k] # NoBatch => started /\ given[k].schema = schema

\* What is stored, and what was returned, agree.
OutcomeAt(k) ==
  /\ table[k] # <<>> => given[k] # NoBatch /\ Covers(table[k], given[k])
  /\ result[k] = "nil" => Covers(table[k], given[k])
  /\ result[k] = "error" => table[k] = <<>>

Outcome == \A k \in Call : OutcomeAt(k)

SinkInv ==
  /\ TypeInv /\ Exclusive /\ Running /\ Untouched
  /\ TxShape /\ SchemaLocked /\ Outcome

\* Initially nothing has been called.
LEMMA SinkInvInit == Init => SinkInv
<1> SUFFICES ASSUME Init PROVE SinkInv
  OBVIOUS
<1>1. <<>> \in Stored
  BY DEF Stored
<1>2. 0 \in 0 .. MaxCalls
  BY ParameterAssumption
<1>3. TypeInv
  BY <1>1, <1>2 DEF Init, TypeInv, TypeOK
<1>4. \A c \in Caller : pc[c] = "idle" /\ tx[c] = "none"
  BY DEF Init
<1>5. Exclusive /\ Running /\ TxShape
  BY <1>4 DEF Exclusive, Running, TxShape, TxShapeAt, Consuming, Inside
<1>6. \A k \in Call : table[k] = <<>> /\ given[k] = NoBatch /\ result[k] = "none"
  BY DEF Init
<1>7. Untouched /\ SchemaLocked /\ Outcome
  BY <1>6 DEF Init, Untouched, SchemaLocked, Outcome, OutcomeAt, Call
<1> QED BY <1>3, <1>5, <1>7 DEF SinkInv

\* While a caller is inside, no other one is, or has an open transaction.
LEMMA Alone ==
  ASSUME Exclusive, TxShape, NEW c \in Caller, pc[c] \in Inside
  PROVE  \A d \in Caller : d # c => pc[d] \notin Inside /\ tx[d] # "open"
BY DEF Exclusive, TxShape, TxShapeAt, Inside

\* A step of c changes what is c's, and of the calls only c's current one.
OnlyBy(c) ==
  /\ \A d \in Caller : d # c =>
       /\ pc'[d] = pc[d] /\ tx'[d] = tx[d] /\ calls'[d] = calls[d]
       /\ batch'[d] = batch[d] /\ chunk'[d] = chunk[d] /\ pending'[d] = pending[d]
  /\ \A k \in Call : k # ThisCall(c) =>
       table'[k] = table[k] /\ given'[k] = given[k] /\ result'[k] = result[k]

\* A step of the caller that is inside keeps the invariant when it keeps the
\* parts about that caller and its call.
LEMMA InsideStep ==
  ASSUME SinkInv, TypeInv', NEW c \in Caller, pc[c] \in Inside, OnlyBy(c),
         calls'[c] = calls[c], SchemaLocked', TxShapeAt(c)',
         pc[c] \in Consuming => OutcomeAt(ThisCall(c))',
         pc[c] = "finish" => table' = table /\ given' = given /\ result' = result,
         pc'[c] \in Inside => inUse' = 1,
         pc'[c] \in Consuming => CallInProgress(c)'
  PROVE  SinkInv'
<1>1. \A d \in Caller : d # c => pc[d] \notin Inside /\ tx[d] # "open"
  BY Alone DEF SinkInv
<1>2. \A d \in Caller : d # c => pc'[d] \notin Inside /\ tx'[d] # "open"
  BY <1>1 DEF OnlyBy
<1>3. Exclusive'
  BY <1>2 DEF Exclusive
<1>4. Running'
  BY <1>2 DEF Running, Consuming
<1>5. TxShape'
  BY <1>2 DEF TxShape, TxShapeAt
<1>6. Untouched'
  <2> SUFFICES ASSUME NEW d \in Caller, NEW n \in 1 .. MaxCalls, n > calls'[d]
               PROVE  /\ result'[<<d, n>>] = "none" /\ table'[<<d, n>>] = <<>>
                      /\ given'[<<d, n>>] = NoBatch
    BY DEF Untouched
  <2>1. calls'[d] = calls[d] /\ calls[d] \in Nat
    BY DEF OnlyBy, SinkInv, TypeInv, TypeOK
  <2>2. <<d, n>> \in Call /\ <<d, n>> # ThisCall(c)
    BY <2>1 DEF ThisCall, Call
  <2> QED BY <2>1, <2>2 DEF OnlyBy, SinkInv, Untouched
<1>7. Outcome'
  <2> SUFFICES ASSUME NEW k \in Call PROVE OutcomeAt(k)'
    BY DEF Outcome
  <2>1. OutcomeAt(k)
    BY DEF SinkInv, Outcome
  <2>2. CASE k # ThisCall(c) \/ pc[c] = "finish"
    BY <2>1, <2>2 DEF OnlyBy, OutcomeAt
  <2>3. CASE k = ThisCall(c) /\ pc[c] # "finish"
    BY <2>3 DEF ThisCall, Consuming
  <2> QED BY <2>2, <2>3
<1> QED BY <1>3, <1>4, <1>5, <1>6, <1>7 DEF SinkInv

----------------------------------------------------------------------------
(* The steps.                                                              *)

\* What Return changes.
LEMMA ReturnFacts ==
  ASSUME TypeInv, NEW c \in Caller, calls[c] \in 1 .. MaxCalls,
         NEW r \in {"nil", "error", "unsure"}, Return(c, r)
  PROVE  /\ ThisCall(c) \in Call /\ result'[ThisCall(c)] = r
         /\ \A k \in Call : k # ThisCall(c) => result'[k] = result[k]
         /\ pc'[c] \in {"idle", "ended"} /\ inUse' = 0
         /\ \A d \in Caller : d # c => pc'[d] = pc[d] /\ batch'[d] = batch[d]
         /\ result' \in [Call -> {"none", "nil", "error", "unsure"}]
         /\ batch' \in [Caller -> Batches \cup {NoBatch}]
         /\ pc' \in [Caller -> Inside \cup {"idle", "ended"}]
<1>1. /\ result \in [Call -> {"none", "nil", "error", "unsure"}]
      /\ batch \in [Caller -> Batches \cup {NoBatch}]
      /\ pc \in [Caller -> Inside \cup {"idle", "ended"}]
  BY DEF TypeInv, TypeOK
<1>2. ThisCall(c) \in Call
  BY DEF ThisCall, Call
<1> QED BY <1>1, <1>2 DEF Return

\* What Rollback changes.
LEMMA RollbackFacts ==
  ASSUME TypeInv, NEW c \in Caller, Rollback(c)
  PROVE  /\ tx' \in [Caller -> {"none", "open", "ending", "done"}] /\ pending' \in [Caller -> Stored]
         /\ tx'[c] = "done" /\ pending'[c] = <<>>
         /\ \A d \in Caller : d # c => tx'[d] = tx[d] /\ pending'[d] = pending[d]
<1>1. tx \in [Caller -> {"none", "open", "ending", "done"}] /\ pending \in [Caller -> Stored]
  BY DEF TypeInv, TypeOK
<1>2. <<>> \in Stored
  BY DEF Stored
<1> QED BY <1>1, <1>2 DEF Rollback

\* A call that fails before its commit, having rolled back what it opened.
LEMMA FailStep ==
  ASSUME SinkInv, NEW c \in Caller, pc[c] \in Consuming, Return(c, "error"),
         \/ Rollback(c)
         \/ tx[c] # "open" /\ UNCHANGED <<tx, pending>>,
         UNCHANGED <<constructErr, finished, started, schema, calls, chunk, table,
                     given, ctxDone>>
  PROVE  SinkInv'
<1> DEFINE k == ThisCall(c)
<1>1. TypeInv /\ CallInProgress(c) /\ pc[c] \in Inside
  BY DEF SinkInv, Running, Consuming
<1>2. calls[c] \in 1 .. MaxCalls /\ table[k] = <<>>
  BY <1>1 DEF CallInProgress
<1>3. /\ k \in Call /\ result'[k] = "error"
      /\ \A j \in Call : j # k => result'[j] = result[j]
      /\ pc'[c] \in {"idle", "ended"} /\ inUse' = 0
      /\ \A d \in Caller : d # c => pc'[d] = pc[d] /\ batch'[d] = batch[d]
      /\ result' \in [Call -> {"none", "nil", "error", "unsure"}]
      /\ batch' \in [Caller -> Batches \cup {NoBatch}]
      /\ pc' \in [Caller -> Inside \cup {"idle", "ended"}]
  BY <1>1, <1>2, ReturnFacts
<1>4. /\ tx' \in [Caller -> {"none", "open", "ending", "done"}] /\ pending' \in [Caller -> Stored]
      /\ tx'[c] # "open"
      /\ \A d \in Caller : d # c => tx'[d] = tx[d] /\ pending'[d] = pending[d]
  BY <1>1, RollbackFacts DEF TypeInv, TypeOK
<1>5. \A d \in Caller : pc'[d] = "exec" => d # c
  BY <1>3
<1>6. TypeInv'
  BY <1>1, <1>3, <1>4, <1>5 DEF TypeInv, TypeOK
<1>7. OnlyBy(c)
  BY <1>3, <1>4 DEF OnlyBy
<1>8. SchemaLocked'
  BY DEF SinkInv, SchemaLocked
<1>9. OutcomeAt(k)'
  BY <1>2, <1>3 DEF OutcomeAt, ThisCall
<1>10. TxShapeAt(c)' /\ pc'[c] \notin Inside
  BY <1>3, <1>4 DEF TxShapeAt, Inside
<1> QED BY <1>1, <1>6, <1>7, <1>8, <1>9, <1>10, InsideStep DEF Consuming

\* A batch without rows is covered by no statement at all.
LEMMA NothingToCover == ASSUME NEW b, b.rows = 0 PROVE Covers(<<>>, b)
<1>1. DOMAIN <<>> = {} /\ 0 .. (b.rows - 1) = {}
  OBVIOUS
<1> QED BY <1>1 DEF Covers

\* Consume accepts its batch, after which the sink is started with its schema.
LEMMA AcceptStep ==
  ASSUME SinkInv, NEW c \in Caller, pc[c] \in {"check", "open"}, Accept(c),
         ~finished, started', schema' = batch[c].schema,
         started => schema' = schema,
         NumCols[batch[c].schema] \in 1 .. MaxPlaceholders,
         UNCHANGED <<constructErr, finished, calls, dbVars, ctxDone>>
  PROVE  SinkInv'
<1> DEFINE k == ThisCall(c)
           b == batch[c]
<1>1. TypeInv /\ CallInProgress(c) /\ pc[c] \in Inside
  BY DEF SinkInv, Running, Consuming, Inside
<1>2. /\ calls[c] \in 1 .. MaxCalls /\ table[k] = <<>> /\ result[k] = "none"
      /\ b \in Batches
  BY <1>1 DEF CallInProgress
<1>3. k \in Call /\ b.rows \in Nat /\ b # NoBatch /\ b.schema \in Schemas
  BY <1>2, ParameterAssumption DEF ThisCall, Call
<1>4. /\ given' \in [Call -> Batches \cup {NoBatch}] /\ given'[k] = b
      /\ \A j \in Call : j # k => given'[j] = given[j]
  BY <1>1, <1>2, <1>3 DEF TypeInv, TypeOK, Accept
<1>5. /\ chunk' \in [Caller -> Nat] /\ chunk'[c] = 1
      /\ \A d \in Caller : d # c => chunk'[d] = chunk[d]
  BY <1>1 DEF TypeInv, TypeOK, Accept
<1>6. tx[c] # "open" /\ TxShapeAt(c)'
  BY DEF SinkInv, TxShape, TxShapeAt, dbVars
<1>7. SchemaLocked'
  <2>1. \A j \in Call : given'[j] # NoBatch => given'[j].schema = schema'
    BY <1>3, <1>4 DEF SinkInv, SchemaLocked
  <2> QED BY <1>3, <1>4, <2>1 DEF SchemaLocked
<1>8. CASE b.rows = 0
  <2>1. Return(c, "nil")
    BY <1>8 DEF Accept
  <2>2. /\ result'[k] = "nil"
        /\ \A j \in Call : j # k => result'[j] = result[j]
        /\ pc'[c] \in {"idle", "ended"} /\ inUse' = 0
        /\ \A d \in Caller : d # c => pc'[d] = pc[d] /\ batch'[d] = batch[d]
        /\ result' \in [Call -> {"none", "nil", "error", "unsure"}]
        /\ batch' \in [Caller -> Batches \cup {NoBatch}]
        /\ pc' \in [Caller -> Inside \cup {"idle", "ended"}]
    BY <1>1, <1>2, <2>1, ReturnFacts
  <2>3. \A d \in Caller : pc'[d] = "exec" =>
          d # c /\ pc[d] = "exec" /\ batch'[d] = batch[d] /\ chunk'[d] = chunk[d]
    BY <1>5, <2>2
  <2>4. TypeInv'
    BY <1>1, <1>3, <1>4, <1>5, <2>2, <2>3 DEF TypeInv, TypeOK, dbVars
  <2>5. OnlyBy(c)
    BY <1>4, <1>5, <2>2 DEF OnlyBy, dbVars
  <2>6. OutcomeAt(k)'
    BY <1>2, <1>4, <1>8, <2>2, NothingToCover DEF OutcomeAt, ThisCall, dbVars
  <2>7. pc'[c] \notin Inside
    BY <2>2 DEF Inside
  <2> QED BY <1>1, <1>6, <1>7, <2>4, <2>5, <2>6, <2>7, InsideStep DEF Consuming
<1>9. CASE b.rows # 0
  <2>1. pc' = [pc EXCEPT ![c] = "begin"] /\ UNCHANGED <<result, inUse, batch>>
    BY <1>9 DEF Accept
  <2>2. /\ pc' \in [Caller -> Inside \cup {"idle", "ended"}] /\ pc'[c] = "begin"
        /\ \A d \in Caller : d # c => pc'[d] = pc[d]
    BY <1>1, <2>1 DEF TypeInv, TypeOK, Inside
  <2>3. \A d \in Caller : pc'[d] = "exec" =>
          d # c /\ pc[d] = "exec" /\ batch'[d] = batch[d] /\ chunk'[d] = chunk[d]
    BY <1>5, <2>1, <2>2
  <2>4. TypeInv'
    BY <1>1, <1>3, <1>4, <1>5, <2>1, <2>2, <2>3 DEF TypeInv, TypeOK, dbVars
  <2>5. OnlyBy(c)
    BY <1>4, <1>5, <2>1, <2>2 DEF OnlyBy, dbVars
  <2>6. OutcomeAt(k)'
    BY <1>2, <2>1 DEF OutcomeAt, ThisCall, dbVars
  <2>7. inUse' = 1
    BY <1>1, <2>1 DEF SinkInv, Exclusive
  <2>8. CallInProgress(c)'
    BY <1>1, <1>2, <1>3, <1>4, <1>5, <1>9, <2>1, <2>2
       DEF CallInProgress, Inserting, ThisCall, dbVars
  <2> QED BY <1>1, <1>6, <1>7, <2>2, <2>4, <2>5, <2>6, <2>7, <2>8, InsideStep
             DEF Consuming, Inside
<1> QED BY <1>8, <1>9

LEMMA CheckStep == ASSUME SinkInv, NEW c \in Caller, Check(c) PROVE SinkInv'
<1>1. TypeInv /\ CallInProgress(c) /\ pc[c] = "check" /\ pc[c] \in Consuming
  BY DEF Check, SinkInv, Running, Consuming, Inside
<1>2. tx[c] # "open" /\ TxShapeAt(c)
  BY <1>1 DEF SinkInv, TxShape, TxShapeAt
<1>3. CASE Refused(batch[c]) \/ (started /\ batch[c].schema # schema)
  <2>1. Return(c, "error") /\ UNCHANGED <<chunk, given>>
    BY <1>3 DEF Check
  <2> QED BY <1>1, <1>2, <2>1, FailStep DEF Check, dbVars
<1>4. CASE ~Refused(batch[c]) /\ started /\ batch[c].schema = schema
  <2>1. Accept(c) /\ ~finished
    BY <1>4 DEF Check, Refused
  <2>2. NumCols[batch[c].schema] \in 1 .. MaxPlaceholders
    BY <1>4 DEF SinkInv, SchemaLocked
  <2> QED BY <1>1, <1>4, <2>1, <2>2, AcceptStep DEF Check
<1>5. CASE ~Refused(batch[c]) /\ ~started
  <2>1. pc' = [pc EXCEPT ![c] = "open"] /\ UNCHANGED <<chunk, given, result, inUse, batch>>
    BY <1>5 DEF Check
  <2>2. UNCHANGED <<constructErr, finished, started, schema, calls, dbVars, ctxDone>>
    BY DEF Check
  <2>3. /\ pc' \in [Caller -> Inside \cup {"idle", "ended"}] /\ pc'[c] = "open"
        /\ \A d \in Caller : d # c => pc'[d] = pc[d]
    BY <1>1, <2>1 DEF TypeInv, TypeOK, Inside
  <2>4. TypeInv'
    BY <1>1, <2>1, <2>2, <2>3 DEF TypeInv, TypeOK, dbVars
  <2>5. OnlyBy(c)
    BY <2>1, <2>2, <2>3 DEF OnlyBy, dbVars
  <2>6. SchemaLocked'
    BY <2>1, <2>2 DEF SinkInv, SchemaLocked
  <2>7. TxShapeAt(c)'
    BY <1>2, <2>2 DEF TxShapeAt, dbVars
  <2>8. OutcomeAt(ThisCall(c))'
    BY <1>1, <2>1, <2>2 DEF CallInProgress, OutcomeAt, ThisCall, dbVars
  <2>9. inUse' = 1
    BY <1>1, <2>1 DEF SinkInv, Exclusive, Inside
  <2>10. CallInProgress(c)'
    BY <1>1, <1>5, <2>1, <2>2, <2>3 DEF CallInProgress, Inserting, ThisCall, Refused, dbVars
  <2> QED BY <1>1, <2>2, <2>3, <2>4, <2>5, <2>6, <2>7, <2>8, <2>9, <2>10, InsideStep
             DEF Inside
<1> QED BY <1>3, <1>4, <1>5

LEMMA OpenStep == ASSUME SinkInv, NEW c \in Caller, Open(c) PROVE SinkInv'
<1>1. TypeInv /\ CallInProgress(c) /\ pc[c] = "open" /\ pc[c] \in Consuming
  BY DEF Open, SinkInv, Running, Consuming, Inside
<1>2. tx[c] # "open"
  BY <1>1 DEF SinkInv, TxShape, TxShapeAt
<1>3. ~finished /\ ~started
  BY <1>1 DEF CallInProgress
<1>4. CASE Opens(batch[c])
  <2>1. started' = TRUE /\ schema' = batch[c].schema /\ Accept(c)
    BY <1>4 DEF Open
  <2> QED BY <1>1, <1>3, <1>4, <2>1, AcceptStep DEF Open, Opens
<1>5. CASE ~Opens(batch[c])
  <2>1. Return(c, "error") /\ UNCHANGED <<started, schema, chunk, given>>
    BY <1>5 DEF Open
  <2> QED BY <1>1, <1>2, <2>1, FailStep DEF Open, dbVars
<1> QED BY <1>4, <1>5

\* A batch that is being inserted takes at least one statement of at least one
\* row.
LEMMA InsertShape ==
  ASSUME SinkInv, NEW c \in Caller, pc[c] \in Inserting
  PROVE  /\ CallInProgress(c) /\ pc[c] \in Consuming
         /\ batch[c].rows \in Nat \ {0} /\ PerStmt(batch[c]) \in Nat \ {0}
         /\ Chunks(batch[c]) \in Nat \ {0}
<1>1. CallInProgress(c) /\ pc[c] \in Consuming
  BY DEF SinkInv, Running, Inserting, Consuming, Inside
<1>2. /\ batch[c] \in Batches /\ batch[c].rows > 0
      /\ given[ThisCall(c)] = batch[c] /\ ThisCall(c) \in Call
  BY <1>1 DEF CallInProgress, ThisCall, Call
<1>3. batch[c].rows \in Nat /\ batch[c] # NoBatch
  BY <1>2, ParameterAssumption
<1>4. NumCols[batch[c].schema] \in 1 .. MaxPlaceholders
  BY <1>2, <1>3 DEF SinkInv, SchemaLocked
<1>5. PerStmt(batch[c]) \in Nat \ {0}
  BY <1>4, StatementSize
<1> QED BY <1>1, <1>2, <1>3, <1>5, ChunkShape DEF Chunks

LEMMA BeginStep ==
  ASSUME SinkInv, NEW c \in Caller, NEW ok \in BOOLEAN, BeginTx(c, ok) PROVE SinkInv'
<1>1. pc[c] = "begin" /\ pc[c] \in Inserting
  BY DEF BeginTx, Inserting
<1>2. /\ TypeInv /\ CallInProgress(c) /\ pc[c] \in Consuming
      /\ Chunks(batch[c]) \in Nat \ {0}
  BY <1>1, InsertShape DEF SinkInv
<1>3. tx[c] # "open"
  BY <1>1 DEF SinkInv, TxShape, TxShapeAt
<1>4. UNCHANGED <<constructErr, finished, started, schema, calls, chunk, table, given, ctxDone>>
  BY DEF BeginTx
<1>5. CASE ok
  <2>1. /\ tx' = [tx EXCEPT ![c] = "open"] /\ pending' = [pending EXCEPT ![c] = <<>>]
        /\ pc' = [pc EXCEPT ![c] = IF UsesPrepared(batch[c].rows, PerStmt(batch[c]))
                                   THEN "prepare" ELSE "exec"]
        /\ UNCHANGED <<result, inUse, batch>>
    BY <1>5 DEF BeginTx
  <2>2. <<>> \in Stored /\ Len(<<>>) = 0
    BY DEF Stored
  <2>3. /\ tx' \in [Caller -> {"none", "open", "ending", "done"}] /\ pending' \in [Caller -> Stored]
        /\ pc' \in [Caller -> Inside \cup {"idle", "ended"}]
        /\ pc'[c] \in {"prepare", "exec"} /\ pending'[c] = <<>>
        /\ \A d \in Caller : d # c =>
             pc'[d] = pc[d] /\ tx'[d] = tx[d] /\ pending'[d] = pending[d]
    BY <1>2, <2>1, <2>2 DEF TypeInv, TypeOK, Inside
  <2>4. chunk[c] = 1
    BY <1>1, <1>2 DEF CallInProgress
  <2>5. TypeInv'
    BY <1>2, <1>4, <2>1, <2>3, <2>4 DEF TypeInv, TypeOK
  <2>6. OnlyBy(c)
    BY <1>4, <2>1, <2>3 DEF OnlyBy
  <2>7. SchemaLocked'
    BY <1>4 DEF SinkInv, SchemaLocked
  <2>8. TxShapeAt(c)'
    BY <1>4, <2>2, <2>3, <2>4 DEF TxShapeAt
  <2>9. OutcomeAt(ThisCall(c))'
    BY <1>2, <1>4, <2>1 DEF CallInProgress, OutcomeAt, ThisCall
  <2>10. inUse' = 1
    BY <1>2, <2>1 DEF SinkInv, Exclusive, Consuming
  <2>11. CallInProgress(c)'
    BY <1>1, <1>2, <1>4, <2>1, <2>3 DEF CallInProgress, Inserting, ThisCall
  <2> QED BY <1>2, <1>4, <2>3, <2>5, <2>6, <2>7, <2>8, <2>9, <2>10, <2>11, InsideStep
             DEF Inside, Consuming
<1>6. CASE ~ok
  <2>1. Return(c, "error") /\ UNCHANGED <<tx, pending>>
    BY <1>6 DEF BeginTx
  <2> QED BY <1>2, <1>3, <1>4, <2>1, FailStep
<1> QED BY <1>5, <1>6

LEMMA PrepareStep ==
  ASSUME SinkInv, NEW c \in Caller, NEW ok \in BOOLEAN, Prepare(c, ok) PROVE SinkInv'
<1>1. pc[c] = "prepare" /\ pc[c] \in Inserting
  BY DEF Prepare, Inserting
<1>2. /\ TypeInv /\ CallInProgress(c) /\ pc[c] \in Consuming
      /\ Chunks(batch[c]) \in Nat \ {0}
  BY <1>1, InsertShape DEF SinkInv
<1>3. UNCHANGED <<constructErr, finished, started, schema, calls, chunk, table, given, ctxDone>>
  BY DEF Prepare
<1>4. CASE ok
  <2>1. /\ pc' = [pc EXCEPT ![c] = "exec"]
        /\ UNCHANGED <<result, inUse, batch, tx, pending>>
    BY <1>4 DEF Prepare
  <2>2. /\ pc' \in [Caller -> Inside \cup {"idle", "ended"}] /\ pc'[c] = "exec"
        /\ \A d \in Caller : d # c => pc'[d] = pc[d]
    BY <1>2, <2>1 DEF TypeInv, TypeOK, Inside
  <2>3. chunk[c] = 1
    BY <1>1, <1>2 DEF CallInProgress
  <2>4. TypeInv'
    BY <1>2, <1>3, <2>1, <2>2, <2>3 DEF TypeInv, TypeOK
  <2>5. OnlyBy(c)
    BY <1>3, <2>1, <2>2 DEF OnlyBy
  <2>6. SchemaLocked'
    BY <1>3 DEF SinkInv, SchemaLocked
  <2>7. TxShapeAt(c)'
    BY <1>1, <1>3, <2>1, <2>2 DEF SinkInv, TxShape, TxShapeAt
  <2>8. OutcomeAt(ThisCall(c))'
    BY <1>2, <1>3, <2>1 DEF CallInProgress, OutcomeAt, ThisCall
  <2>9. inUse' = 1
    BY <1>2, <2>1 DEF SinkInv, Exclusive, Consuming
  <2>10. CallInProgress(c)'
    BY <1>1, <1>2, <1>3, <2>1, <2>2 DEF CallInProgress, Inserting, ThisCall
  <2> QED BY <1>2, <1>3, <2>2, <2>4, <2>5, <2>6, <2>7, <2>8, <2>9, <2>10, InsideStep
             DEF Inside, Consuming
<1>5. CASE ~ok
  <2>1. Return(c, "error") /\ Rollback(c)
    BY <1>5 DEF Prepare
  <2> QED BY <1>2, <1>3, <2>1, FailStep
<1> QED BY <1>4, <1>5

\* Appending keeps the elements before it.
LEMMA AppendFacts ==
  ASSUME NEW s \in Stored, NEW e \in Int \X Int
  PROVE  /\ Append(s, e) \in Stored /\ Len(Append(s, e)) = Len(s) + 1 /\ Len(s) \in Nat
         /\ Append(s, e)[Len(s) + 1] = e
         /\ \A i \in 1 .. Len(s) : Append(s, e)[i] = s[i]
BY DEF Stored

\* The rows of a statement are numbers.
LEMMA StatementType ==
  ASSUME NEW b, b.rows \in Nat \ {0}, PerStmt(b) \in Nat \ {0}, NEW i \in 1 .. Chunks(b)
  PROVE  Statement(b, i) \in Int \X Int
<1>1. Statement(b, i) =
        <<(i - 1) * PerStmt(b), IF i < Chunks(b) THEN i * PerStmt(b) ELSE b.rows>>
  BY ChunkShape DEF Statement, Chunks
<1>2. Chunks(b) \in Nat
  BY ChunkShape DEF Chunks
<1>3. (i - 1) * PerStmt(b) \in Nat /\ i * PerStmt(b) \in Nat
  BY <1>2, ProductGrows
<1> QED BY <1>1, <1>3

LEMMA ExecStep ==
  ASSUME SinkInv, NEW c \in Caller, NEW ok \in BOOLEAN, Exec(c, ok) PROVE SinkInv'
<1> DEFINE b == batch[c]
           e == Statement(b, chunk[c])
<1>1. pc[c] = "exec" /\ pc[c] \in Inserting
  BY DEF Exec, Inserting
<1>2. /\ TypeInv /\ CallInProgress(c) /\ pc[c] \in Consuming
      /\ b.rows \in Nat \ {0} /\ PerStmt(b) \in Nat \ {0}
      /\ Chunks(b) \in Nat \ {0}
  BY <1>1, InsertShape DEF SinkInv
<1>3. UNCHANGED <<constructErr, finished, started, schema, calls, table, given, ctxDone>>
  BY DEF Exec
<1>4. chunk[c] \in 1 .. Chunks(b)
  BY <1>1, <1>2 DEF TypeInv, TypeOK
<1>5. CASE ok
  <2>1. /\ tx[c] = "open"
        /\ pending' = [pending EXCEPT ![c] = Append(pending[c], e)]
        /\ chunk' = [chunk EXCEPT ![c] = chunk[c] + 1]
        /\ pc' = [pc EXCEPT ![c] = IF chunk[c] < Chunks(b) THEN "exec" ELSE "commit"]
        /\ UNCHANGED <<result, inUse, batch, tx>>
    BY <1>5 DEF Exec
  <2>2. pending[c] \in Stored /\ e \in Int \X Int
    BY <1>2, <1>4, StatementType DEF TypeInv
  <2>3. /\ Append(pending[c], e) \in Stored
        /\ Len(Append(pending[c], e)) = Len(pending[c]) + 1 /\ Len(pending[c]) \in Nat
        /\ Append(pending[c], e)[Len(pending[c]) + 1] = e
        /\ \A i \in 1 .. Len(pending[c]) : Append(pending[c], e)[i] = pending[c][i]
    BY <2>2, AppendFacts
  <2>4. /\ pending' \in [Caller -> Stored] /\ pending'[c] = Append(pending[c], e)
        /\ \A d \in Caller : d # c => pending'[d] = pending[d]
    BY <1>2, <2>1, <2>3 DEF TypeInv
  <2>5. /\ chunk' \in [Caller -> Nat] /\ chunk'[c] = chunk[c] + 1
        /\ \A d \in Caller : d # c => chunk'[d] = chunk[d]
    BY <1>2, <2>1 DEF TypeInv, TypeOK
  <2>6. /\ pc' \in [Caller -> Inside \cup {"idle", "ended"}]
        /\ pc'[c] = IF chunk[c] < Chunks(b) THEN "exec" ELSE "commit"
        /\ \A d \in Caller : d # c => pc'[d] = pc[d]
    BY <1>2, <2>1 DEF TypeInv, TypeOK, Inside
  <2>7. TypeInv'
    <3>1. \A d \in Caller : pc'[d] = "exec" => chunk'[d] \in 1 .. Chunks(batch[d])
      <4> SUFFICES ASSUME NEW d \in Caller, pc'[d] = "exec"
                   PROVE  chunk'[d] \in 1 .. Chunks(batch[d])
        OBVIOUS
      <4>1. CASE d = c
        BY <1>2, <1>4, <2>5, <2>6, <4>1
      <4>2. CASE d # c
        BY <1>2, <2>5, <2>6, <4>2 DEF TypeInv, TypeOK
      <4> QED BY <4>1, <4>2
    <3>2. \A d \in Caller : Chunks(batch[d])' = Chunks(batch[d])
      BY <2>1 DEF Chunks, PerStmt
    <3> QED BY <1>2, <1>3, <2>1, <2>4, <2>5, <2>6, <3>1, <3>2 DEF TypeInv, TypeOK
  <2>8. OnlyBy(c)
    BY <1>3, <2>1, <2>4, <2>5, <2>6 DEF OnlyBy
  <2>9. SchemaLocked'
    BY <1>3 DEF SinkInv, SchemaLocked
  <2>10. TxShapeAt(c)'
    <3>1. /\ Len(pending[c]) = chunk[c] - 1
          /\ \A i \in 1 .. Len(pending[c]) : pending[c][i] = Statement(b, i)
      BY <1>1, <2>1 DEF SinkInv, TxShape, TxShapeAt
    <3>2. /\ Len(pending'[c]) = chunk[c] /\ pending'[c][chunk[c]] = e
          /\ \A i \in 1 .. (chunk[c] - 1) : pending'[c][i] = Statement(b, i)
      BY <1>4, <2>3, <2>4, <3>1
    <3>3. \A i \in 1 .. Len(pending'[c]) : pending'[c][i] = Statement(b, i)
      BY <1>4, <3>2
    <3>4. Len(pending'[c]) = IF pc'[c] = "commit" THEN Chunks(b) ELSE chunk'[c] - 1
      BY <1>2, <1>4, <2>5, <2>6, <3>2
    <3>5. batch'[c] = b /\ pc'[c] \in {"prepare", "exec", "commit"}
      BY <2>1, <2>6
    <3> QED BY <3>3, <3>4, <3>5 DEF TxShapeAt
  <2>11. OutcomeAt(ThisCall(c))'
    BY <1>2, <1>3, <2>1 DEF CallInProgress, OutcomeAt, ThisCall
  <2>12. inUse' = 1
    BY <1>2, <2>1 DEF SinkInv, Exclusive, Consuming
  <2>13. CallInProgress(c)'
    BY <1>1, <1>2, <1>3, <2>1, <2>6 DEF CallInProgress, Inserting, ThisCall
  <2> QED BY <1>2, <1>3, <2>6, <2>7, <2>8, <2>9, <2>10, <2>11, <2>12, <2>13, InsideStep
             DEF Inside, Consuming
<1>6. CASE ~ok
  <2>1. Return(c, "error") /\ Rollback(c) /\ UNCHANGED chunk
    BY <1>6 DEF Exec
  <2> QED BY <1>2, <1>3, <2>1, FailStep
<1> QED BY <1>5, <1>6

LEMMA CommitStep ==
  ASSUME SinkInv, NEW c \in Caller, NEW ok \in BOOLEAN, NEW stored \in BOOLEAN,
         Commit(c, ok, stored)
  PROVE  SinkInv'
<1> DEFINE b == batch[c]
           k == ThisCall(c)
           r == CommitResult(ok)
<1>1. pc[c] = "commit" /\ pc[c] \in Inserting
  BY DEF Commit, Inserting
<1>2. /\ TypeInv /\ CallInProgress(c) /\ pc[c] \in Consuming /\ pc[c] \in Inside
      /\ b.rows \in Nat \ {0} /\ PerStmt(b) \in Nat \ {0}
  BY <1>1, InsertShape DEF SinkInv, Consuming
<1>3. /\ calls[c] \in 1 .. MaxCalls /\ table[k] = <<>> /\ given[k] = b /\ b # NoBatch
  BY <1>1, <1>2, ParameterAssumption DEF CallInProgress
<1>4. UNCHANGED <<constructErr, finished, started, schema, calls, chunk, given, ctxDone>>
  BY DEF Commit
<1>5. /\ r \in {"nil", "error", "unsure"} /\ r # "error" /\ (r = "nil" => stored)
  BY DEF Commit, CommitResult
<1>6. /\ Return(c, r)
      /\ tx' = [tx EXCEPT ![c] = IF @ = "open" /\ ctxDone THEN "ending" ELSE "done"]
      /\ pending' = [pending EXCEPT ![c] = <<>>]
  BY DEF Commit
<1>7. /\ k \in Call /\ result'[k] = r
      /\ \A j \in Call : j # k => result'[j] = result[j]
      /\ pc'[c] \in {"idle", "ended"} /\ inUse' = 0
      /\ \A d \in Caller : d # c => pc'[d] = pc[d] /\ batch'[d] = batch[d]
      /\ result' \in [Call -> {"none", "nil", "error", "unsure"}]
      /\ batch' \in [Caller -> Batches \cup {NoBatch}]
      /\ pc' \in [Caller -> Inside \cup {"idle", "ended"}]
  BY <1>2, <1>3, <1>5, <1>6, ReturnFacts
<1>8. /\ tx' \in [Caller -> {"none", "open", "ending", "done"}] /\ pending' \in [Caller -> Stored]
      /\ tx'[c] # "open"
      /\ \A d \in Caller : d # c => tx'[d] = tx[d] /\ pending'[d] = pending[d]
  BY <1>2, <1>6 DEF TypeInv, TypeOK, Stored
<1>9. /\ table' \in [Call -> Stored]
      /\ table'[k] = IF stored THEN pending[c] ELSE <<>>
      /\ \A j \in Call : j # k => table'[j] = table[j]
  BY <1>2, <1>3, <1>7 DEF Commit, TypeInv
<1>10. stored => Covers(pending[c], b)
  <2> SUFFICES ASSUME stored PROVE Covers(pending[c], b)
    OBVIOUS
  <2>1. tx[c] = "open"
    BY DEF Commit
  <2>2. /\ Len(pending[c]) = Chunks(b)
        /\ \A i \in 1 .. Len(pending[c]) : pending[c][i] = Statement(b, i)
    BY <1>1, <2>1 DEF SinkInv, TxShape, TxShapeAt
  <2>3. DOMAIN pending[c] = 1 .. Len(pending[c])
    BY <1>2 DEF TypeInv, Stored
  <2> QED BY <1>2, <2>2, <2>3, ChunksCover
<1>11. \A d \in Caller : pc'[d] = "exec" =>
         d # c /\ pc[d] = "exec" /\ batch'[d] = batch[d]
  BY <1>7
<1>12. TypeInv'
  BY <1>2, <1>4, <1>7, <1>8, <1>9, <1>11 DEF TypeInv, TypeOK
<1>13. OnlyBy(c)
  BY <1>4, <1>7, <1>8, <1>9 DEF OnlyBy
<1>14. SchemaLocked'
  BY <1>4 DEF SinkInv, SchemaLocked
<1>15. OutcomeAt(k)'
  BY <1>3, <1>4, <1>5, <1>7, <1>9, <1>10 DEF OutcomeAt, ThisCall
<1>16. TxShapeAt(c)' /\ pc'[c] \notin Inside
  BY <1>7, <1>8 DEF TxShapeAt, Inside
<1> QED BY <1>2, <1>4, <1>12, <1>13, <1>14, <1>15, <1>16, InsideStep DEF Consuming

LEMMA FinishStep == ASSUME SinkInv, NEW c \in Caller, Finish(c) PROVE SinkInv'
<1>1. TypeInv /\ pc[c] = "finish" /\ pc[c] \in Inside /\ pc[c] \notin Consuming
  BY DEF Finish, SinkInv, Inside, Consuming
<1>2. tx[c] # "open"
  BY <1>1 DEF SinkInv, TxShape, TxShapeAt
<1>3. /\ finished' = TRUE /\ inUse' = 0 /\ pc' = [pc EXCEPT ![c] = "ended"]
      /\ UNCHANGED <<constructErr, started, schema, batch, calls, chunk, tx, pending,
                     table, given, result, ctxDone>>
  BY DEF Finish, dbVars
<1>4. /\ pc' \in [Caller -> Inside \cup {"idle", "ended"}] /\ pc'[c] = "ended"
      /\ \A d \in Caller : d # c => pc'[d] = pc[d]
  BY <1>1, <1>3 DEF TypeInv, TypeOK
<1>5. TypeInv'
  BY <1>1, <1>3, <1>4 DEF TypeInv, TypeOK
<1>6. OnlyBy(c) /\ SchemaLocked'
  BY <1>3, <1>4 DEF OnlyBy, SinkInv, SchemaLocked
<1>7. TxShapeAt(c)' /\ pc'[c] \notin Inside
  BY <1>2, <1>3, <1>4 DEF TxShapeAt, Inside
<1> QED BY <1>1, <1>3, <1>5, <1>6, <1>7, InsideStep DEF Consuming

\* Entering the sink: nobody else is inside.
LEMMA EnterStep ==
  ASSUME SinkInv, NEW c \in Caller, pc[c] = "idle", Free, inUse' = 1,
         NEW at \in Inside, pc' = [pc EXCEPT ![c] = at],
         \A d \in Caller : d # c => calls'[d] = calls[d], calls'[c] >= calls[c],
         TypeInv', at \in Consuming => CallInProgress(c)',
         UNCHANGED <<constructErr, finished, started, schema, chunk, tx, pending, table,
                     given, result, ctxDone>>
  PROVE  SinkInv'
<1>1. \A d \in Caller : pc[d] \notin Inside /\ tx[d] # "open"
  BY DEF SinkInv, Exclusive, TxShape, TxShapeAt, Free, Inside
<1>2. pc'[c] = at /\ \A d \in Caller : d # c => pc'[d] \notin Inside
  BY <1>1 DEF SinkInv, TypeInv, TypeOK
<1>3. Exclusive' /\ Running' /\ TxShape'
  BY <1>1, <1>2 DEF Exclusive, Running, TxShape, TxShapeAt, Consuming
<1>4. Untouched'
  <2>1. \A d \in Caller : calls'[d] \in Int /\ calls[d] \in Int /\ calls'[d] >= calls[d]
    BY DEF SinkInv, TypeInv, TypeOK
  <2>2. \A d \in Caller : \A n \in 1 .. MaxCalls : n > calls'[d] => n > calls[d]
    BY <2>1
  <2> QED BY <2>2 DEF SinkInv, Untouched
<1>5. SchemaLocked' /\ Outcome'
  BY DEF SinkInv, SchemaLocked, Outcome, OutcomeAt
<1> QED BY <1>3, <1>4, <1>5 DEF SinkInv

LEMMA StartConsumeStep ==
  ASSUME SinkInv, NEW c \in Caller, NEW b \in Batches, StartConsume(c, b) PROVE SinkInv'
<1> DEFINE n == calls[c] + 1
<1>1. TypeInv /\ MaxCalls \in Nat
  BY ParameterAssumption DEF SinkInv
<1>2. /\ pc[c] = "idle" /\ Free /\ calls[c] < MaxCalls /\ inUse' = 1
      /\ calls' = [calls EXCEPT ![c] = n] /\ batch' = [batch EXCEPT ![c] = b]
      /\ pc' = [pc EXCEPT ![c] = "check"]
      /\ UNCHANGED <<constructErr, finished, started, schema, chunk, tx, pending, table,
                     given, result, ctxDone>>
  BY DEF StartConsume, dbVars
<1>3. n \in 1 .. MaxCalls /\ n > calls[c] /\ calls[c] \in Nat
  BY <1>1, <1>2 DEF TypeInv, TypeOK
<1>4. /\ calls' \in [Caller -> 0 .. MaxCalls] /\ calls'[c] = n
      /\ \A d \in Caller : d # c => calls'[d] = calls[d]
  BY <1>1, <1>2, <1>3 DEF TypeInv, TypeOK
<1>5. /\ batch' \in [Caller -> Batches \cup {NoBatch}] /\ batch'[c] = b
      /\ \A d \in Caller : d # c => batch'[d] = batch[d]
  BY <1>1, <1>2 DEF TypeInv, TypeOK
<1>6. /\ pc' \in [Caller -> Inside \cup {"idle", "ended"}] /\ pc'[c] = "check"
      /\ \A d \in Caller : d # c => pc'[d] = pc[d]
  BY <1>1, <1>2 DEF TypeInv, TypeOK, Inside
<1>7. \A d \in Caller : pc'[d] = "exec" =>
        pc[d] = "exec" /\ batch'[d] = batch[d]
  BY <1>5, <1>6
<1>8. TypeInv'
  BY <1>1, <1>2, <1>4, <1>5, <1>6, <1>7 DEF TypeInv, TypeOK
<1>9. CallInProgress(c)'
  <2>1. result[<<c, n>>] = "none" /\ table[<<c, n>>] = <<>> /\ given[<<c, n>>] = NoBatch
    BY <1>3 DEF SinkInv, Untouched
  <2> QED BY <1>2, <1>3, <1>4, <1>5, <1>6, <2>1 DEF CallInProgress, ThisCall, Inserting
<1>10. calls'[c] >= calls[c]
  BY <1>3, <1>4
<1>11. "check" \in Inside
  BY DEF Inside
<1> QED BY <1>2, <1>4, <1>8, <1>9, <1>10, <1>11, EnterStep

LEMMA StartFinishStep ==
  ASSUME SinkInv, NEW c \in Caller, StartFinish(c) PROVE SinkInv'
<1>1. TypeInv
  BY DEF SinkInv
<1>2. /\ pc[c] = "idle" /\ Free /\ inUse' = 1 /\ pc' = [pc EXCEPT ![c] = "finish"]
      /\ UNCHANGED <<constructErr, finished, started, schema, batch, calls, chunk, tx,
                     pending, table, given, result, ctxDone>>
  BY DEF StartFinish, dbVars
<1>3. /\ pc' \in [Caller -> Inside \cup {"idle", "ended"}]
      /\ \A d \in Caller : pc'[d] = "exec" => pc[d] = "exec"
  BY <1>1, <1>2 DEF TypeInv, TypeOK, Inside
<1>4. TypeInv'
  BY <1>1, <1>2, <1>3 DEF TypeInv, TypeOK
<1>5. calls'[c] >= calls[c]
  BY <1>1, <1>2 DEF TypeInv, TypeOK
<1>6. "finish" \in Inside /\ "finish" \notin Consuming
  BY DEF Inside, Consuming
<1> QED BY <1>2, <1>4, <1>5, <1>6, EnterStep

LEMMA BusyStep == ASSUME SinkInv, NEW c \in Caller, CallWhileBusy(c) PROVE SinkInv'
<1>1. TypeInv
  BY DEF SinkInv
<1>2. /\ pc[c] = "idle" /\ pc' = [pc EXCEPT ![c] = "ended"]
      /\ UNCHANGED <<constructErr, inUse, finished, started, schema, batch, calls, chunk,
                     tx, pending, table, given, result, ctxDone>>
  BY DEF CallWhileBusy, sinkVars, dbVars
<1>3. /\ pc' \in [Caller -> Inside \cup {"idle", "ended"}]
      /\ \A d \in Caller : pc'[d] \in Inside => pc'[d] = pc[d]
      /\ \A d \in Caller : tx[d] = "open" => pc'[d] = pc[d]
  BY <1>1, <1>2 DEF TypeInv, TypeOK, Inside, SinkInv, TxShape, TxShapeAt
<1>4. TypeInv'
  BY <1>1, <1>2, <1>3 DEF TypeInv, TypeOK, Inside
<1>5. Exclusive'
  BY <1>2, <1>3 DEF SinkInv, Exclusive
<1>6. Running'
  <2> SUFFICES ASSUME NEW d \in Caller, pc'[d] \in Consuming PROVE CallInProgress(d)'
    BY DEF Running
  <2>1. pc'[d] = pc[d] /\ CallInProgress(d)
    BY <1>3 DEF SinkInv, Running, Consuming
  <2> QED BY <1>2, <2>1 DEF CallInProgress, ThisCall
<1>7. TxShape'
  BY <1>2, <1>3 DEF SinkInv, TxShape, TxShapeAt
<1>8. Untouched' /\ SchemaLocked' /\ Outcome'
  BY <1>2 DEF SinkInv, Untouched, SchemaLocked, Outcome, OutcomeAt
<1> QED BY <1>4, <1>5, <1>6, <1>7, <1>8 DEF SinkInv

LEMMA TxCancelledStep == ASSUME SinkInv, NEW c \in Caller, TxCancelled(c) PROVE SinkInv'
<1>1. TypeInv /\ Rollback(c)
  BY DEF SinkInv, TxCancelled
<1>2. UNCHANGED <<constructErr, inUse, finished, started, schema, pc, batch, calls, chunk,
                  table, given, result, ctxDone>>
  BY DEF TxCancelled, sinkVars, callVars
<1>3. /\ tx' \in [Caller -> {"none", "open", "ending", "done"}] /\ pending' \in [Caller -> Stored]
      /\ tx'[c] = "done"
      /\ \A d \in Caller : d # c => tx'[d] = tx[d] /\ pending'[d] = pending[d]
  BY <1>1, RollbackFacts
<1>4. TypeInv'
  BY <1>1, <1>2, <1>3 DEF TypeInv, TypeOK
<1>5. Exclusive' /\ Untouched' /\ SchemaLocked' /\ Outcome'
  BY <1>2 DEF SinkInv, Exclusive, Untouched, SchemaLocked, Outcome, OutcomeAt
<1>6. Running'
  BY <1>2 DEF SinkInv, Running, CallInProgress, ThisCall
<1>7. TxShape'
  BY <1>2, <1>3 DEF SinkInv, TxShape, TxShapeAt
<1> QED BY <1>4, <1>5, <1>6, <1>7 DEF SinkInv

\* Steps that change nothing the invariant speaks of.
LEMMA FrameStep ==
  ASSUME SinkInv, ctxDone' \in BOOLEAN,
         UNCHANGED <<constructErr, inUse, finished, started, schema, pc, batch, calls, chunk,
                     tx, pending, table, given, result>>
  PROVE  SinkInv'
<1>1. TypeInv'
  BY DEF SinkInv, TypeInv, TypeOK
<1>2. Exclusive' /\ Untouched' /\ SchemaLocked' /\ Outcome'
  BY DEF SinkInv, Exclusive, Untouched, SchemaLocked, Outcome, OutcomeAt
<1>3. Running'
  BY DEF SinkInv, Running, CallInProgress, ThisCall
<1>4. TxShape'
  BY DEF SinkInv, TxShape, TxShapeAt
<1> QED BY <1>1, <1>2, <1>3, <1>4 DEF SinkInv

\* SinkInv is an invariant of the specification.
THEOREM SinkInvariant == Spec => []SinkInv
<1>1. SinkInv /\ [Next]_vars => SinkInv'
  <2> SUFFICES ASSUME SinkInv, [Next]_vars PROVE SinkInv'
    OBVIOUS
  <2>1. ASSUME NEW c \in Caller, Check(c) PROVE SinkInv'
    BY <2>1, CheckStep
  <2>2. ASSUME NEW c \in Caller, Open(c) PROVE SinkInv'
    BY <2>2, OpenStep
  <2>3. ASSUME NEW c \in Caller, Finish(c) PROVE SinkInv'
    BY <2>3, FinishStep
  <2>4. ASSUME NEW c \in Caller, NEW ok \in BOOLEAN, BeginTx(c, ok) PROVE SinkInv'
    BY <2>4, BeginStep
  <2>5. ASSUME NEW c \in Caller, NEW ok \in BOOLEAN, Prepare(c, ok) PROVE SinkInv'
    BY <2>5, PrepareStep
  <2>6. ASSUME NEW c \in Caller, NEW ok \in BOOLEAN, Exec(c, ok) PROVE SinkInv'
    BY <2>6, ExecStep
  <2>7. ASSUME NEW c \in Caller, NEW ok \in BOOLEAN, NEW stored \in BOOLEAN,
               Commit(c, ok, stored)
        PROVE  SinkInv'
    BY <2>7, CommitStep
  <2>8. ASSUME NEW c \in Caller, CallWhileBusy(c) PROVE SinkInv'
    BY <2>8, BusyStep
  <2>9. ASSUME NEW c \in Caller, StartFinish(c) PROVE SinkInv'
    BY <2>9, StartFinishStep
  <2>10. ASSUME NEW c \in Caller, TxCancelled(c) PROVE SinkInv'
    BY <2>10, TxCancelledStep
  <2>11. ASSUME NEW c \in Caller, NEW b \in Batches, StartConsume(c, b) PROVE SinkInv'
    BY <2>11, StartConsumeStep
  <2>12. ctxDone \in BOOLEAN
    BY DEF SinkInv, TypeInv, TypeOK
  <2>13. CASE CancelRun
    BY <2>13, FrameStep DEF CancelRun, sinkVars, callVars, dbVars
  <2>14. CASE UNCHANGED vars
    BY <2>12, <2>14, FrameStep DEF vars, sinkVars, callVars, dbVars
  <2>15. CASE Terminated
    BY <2>14, <2>15 DEF Terminated
  <2> QED
    BY <2>1, <2>2, <2>3, <2>4, <2>5, <2>6, <2>7, <2>8, <2>9, <2>10, <2>11, <2>13, <2>14,
       <2>15 DEF Next, InCall
<1> QED BY <1>1, SinkInvInit, PTL DEF Spec

----------------------------------------------------------------------------
(* What follows.                                                           *)

\* Every variable stays in its domain.
THEOREM SinkTypeCorrect == Spec => []TypeOK
<1>1. SinkInv => TypeOK
  BY DEF SinkInv, TypeInv
<1> QED BY <1>1, SinkInvariant, PTL

\* A batch lands in full or not at all (insert and its deferred Rollback),
\* however many statements it takes and whatever fails between them.
THEOREM LandsInFullOrNotAtAll == Spec => []AllOrNothing
<1>1. SinkInv => AllOrNothing
  BY DEF SinkInv, Outcome, OutcomeAt, AllOrNothing
<1> QED BY <1>1, SinkInvariant, PTL

\* nil from Consume means the rows are stored, and an error from anything but
\* the commit that none of them is.
THEOREM ConsumeTellsTheTruth == Spec => []ResultIsTrue
<1>1. SinkInv => ResultIsTrue
  BY DEF SinkInv, Outcome, OutcomeAt, ResultIsTrue
<1> QED BY <1>1, SinkInvariant, PTL

\* Consume returns, and is out of the sink, only with its transaction resolved.
THEOREM NoOpenTransactionLeft == Spec => []TxResolved
<1>1. SinkInv => TxResolved
  BY DEF SinkInv, TxShape, TxShapeAt, TxResolved, Inside
<1> QED BY <1>1, SinkInvariant, PTL

\* The first batch accepted decides the schema of everything that is stored.
THEOREM FirstBatchLocksSchema == Spec => []OneSchema
<1>1. SinkInv => OneSchema
  BY DEF SinkInv, Outcome, OutcomeAt, SchemaLocked, OneSchema
<1> QED BY <1>1, SinkInvariant, PTL

\* Once Finish has run no step stores anything, although calls that raced with
\* it may still be made.
THEOREM NothingAfterFinish == Spec => FinalAfterFinish
<1>1. SinkInv /\ [Next]_vars => [finished => table' = table]_vars
  <2> SUFFICES ASSUME SinkInv, [Next]_vars, finished PROVE table' = table
    OBVIOUS
  <2>1. ASSUME NEW c \in Caller, InCall(c) PROVE table' = table
    <3>1. ASSUME NEW ok \in BOOLEAN, NEW stored \in BOOLEAN, Commit(c, ok, stored)
          PROVE  FALSE
      <4>1. pc[c] = "commit"
        BY <3>1 DEF Commit
      <4> QED BY <4>1 DEF SinkInv, Running, CallInProgress, Consuming, Inside
    <3> QED BY <2>1, <3>1 DEF InCall, Check, Open, Finish, BeginTx, Prepare, Exec, dbVars
  <2> QED BY <2>1 DEF Next, CallWhileBusy, StartFinish, TxCancelled, StartConsume, CancelRun,
                      Terminated, vars, dbVars
<1> QED BY <1>1, SinkInvariant, PTL DEF Spec, FinalAfterFinish

\* The placeholders the statements of an open transaction take.
Placeholders(c, i) ==
  (pending[c][i][2] - pending[c][i][1]) * NumCols[batch[c].schema]

\* No statement takes more placeholders than the driver allows, nor fewer than
\* one row's, whatever the number of columns and rows.
StatementsFit ==
  \A c \in Caller : tx[c] = "open" => \A i \in DOMAIN pending[c] :
    /\ pending[c][i][1] < pending[c][i][2]
    /\ Placeholders(c, i) <= MaxPlaceholders

\* A chunk has at least one row and no more than a full one.
LEMMA ChunkLength ==
  ASSUME NEW b, b.rows \in Nat \ {0}, PerStmt(b) \in Nat \ {0}, NEW i \in 1 .. Chunks(b)
  PROVE  Statement(b, i)[2] - Statement(b, i)[1] \in 1 .. PerStmt(b)
<1> DEFINE n == b.rows
           d == PerStmt(b)
           t == Chunks(b)
<1>1. /\ t \in Nat \ {0} /\ (t - 1) * d < n /\ n <= t * d
      /\ Statement(b, i) = <<(i - 1) * d, IF i < t THEN i * d ELSE n>>
  BY ChunkShape DEF Chunks, Statement
<1> HIDE DEF n, d, t
<1>2. n \in Nat \ {0} /\ d \in Nat \ {0} /\ i \in 1 .. t
  BY DEF n, d, t
<1>3. i * d = (i - 1) * d + d /\ (i - 1) * d \in Nat
  BY <1>1, <1>2
<1>4. CASE i < t
  BY <1>1, <1>2, <1>3, <1>4 DEF d
<1>5. CASE i = t
  BY <1>1, <1>2, <1>3, <1>5 DEF d
<1> QED BY <1>1, <1>2, <1>4, <1>5

\* open's rowsPerStmt keeps every INSERT within the driver's placeholder limit
\* and never makes an empty one, for any batch and limit.
THEOREM StatementsFitTheDriver == Spec => []StatementsFit
<1>1. ASSUME SinkInv PROVE StatementsFit
  <2> SUFFICES ASSUME NEW c \in Caller, tx[c] = "open", NEW i \in DOMAIN pending[c]
               PROVE  /\ pending[c][i][1] < pending[c][i][2]
                      /\ Placeholders(c, i) <= MaxPlaceholders
    BY DEF StatementsFit
  <2> DEFINE b == batch[c]
             m == NumCols[b.schema]
             len == Statement(b, i)[2] - Statement(b, i)[1]
  <2>1. /\ pc[c] \in {"prepare", "exec", "commit"} /\ TypeInv
        /\ Len(pending[c]) = IF pc[c] = "commit" THEN Chunks(b) ELSE chunk[c] - 1
        /\ \A j \in 1 .. Len(pending[c]) : pending[c][j] = Statement(b, j)
    BY <1>1 DEF SinkInv, TxShape, TxShapeAt
  <2>2. /\ CallInProgress(c) /\ b.rows \in Nat \ {0} /\ PerStmt(b) \in Nat \ {0}
        /\ Chunks(b) \in Nat \ {0}
    BY <1>1, <2>1, InsertShape DEF Inserting
  <2>3. pending[c] \in Stored /\ i \in 1 .. Len(pending[c])
    BY <2>1 DEF TypeInv, Stored
  <2>4. i \in 1 .. Chunks(b) /\ pending[c][i] = Statement(b, i)
    <3>1. Len(pending[c]) <= Chunks(b)
      BY <2>1, <2>2 DEF TypeInv, TypeOK, CallInProgress
    <3>2. Len(pending[c]) \in Nat
      BY <2>3 DEF Stored
    <3> QED BY <2>1, <2>2, <2>3, <3>1, <3>2
  <2>5. len \in 1 .. PerStmt(b) /\ Statement(b, i) \in Int \X Int
    BY <2>2, <2>4, ChunkLength, StatementType
  <2>6. m \in 1 .. MaxPlaceholders
    <3>1. b # NoBatch /\ given[ThisCall(c)] = b /\ ThisCall(c) \in Call
      BY <2>1, <2>2, ParameterAssumption DEF CallInProgress, Inserting, ThisCall, Call
    <3> QED BY <1>1, <3>1 DEF SinkInv, SchemaLocked
  <2>7. PerStmt(b) * m <= MaxPlaceholders
    BY <2>6, StatementSize
  <2> HIDE DEF len, m
  <2>8. len * m <= PerStmt(b) * m /\ len * m \in Nat
    BY <2>2, <2>5, <2>6, ParameterAssumption, ProductGrows
  <2>9. Placeholders(c, i) = len * m
    BY <2>4 DEF Placeholders, len, m
  <2>10. pending[c][i][1] < pending[c][i][2]
    BY <2>2, <2>4, <2>5 DEF len
  <2> QED BY <2>2, <2>6, <2>7, <2>8, <2>9, <2>10, ParameterAssumption
<1> QED BY <1>1, SinkInvariant, PTL
=============================================================================
