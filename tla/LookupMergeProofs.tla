------------------------- MODULE LookupMergeProofs -------------------------
(***************************************************************************)
(* Theorems about LookupMerge for any ids, columns, sizes of batches and   *)
(* contents of the app database.                                           *)
(***************************************************************************)
EXTENDS LookupMerge, FiniteSetTheorems, FunctionTheorems, SequenceTheorems, TLAPS

Row == [id : Id \cup {NullId}, from : Nat \X Nat]
MatchRow == [id : Id, label : Nat \X Nat, app : Nat \X Nat]

----------------------------------------------------------------------------
(* Queues of batches.  In these definitions q is a sequence of batches of  *)
(* rows of one side, P has the places of the rows of each id that the side *)
(* will ever deliver, and f is how many batches of the source have had     *)
(* their rows put on the side's edge.                                      *)

IsQueue(P, q, f) ==
  /\ q \in Seq(Seq(Row))
  /\ \A k \in DOMAIN q : \A i \in DOMAIN q[k] :
       q[k][i].id \in Id => q[k][i].from \in P[q[k][i].id] /\ q[k][i].from[1] <= f

\* Row i of batch k is in front of row j of batch l.
InFront(k, i, l, j) == k < l \/ (k = l /\ i < j)

\* The rows of an id are in the order of their places.
InOrder(q) ==
  \A k, l \in DOMAIN q : \A i \in DOMAIN q[k], j \in DOMAIN q[l] :
    InFront(k, i, l, j) /\ q[k][i].id \in Id /\ q[k][i].id = q[l][j].id =>
      ~UpTo(q[l][j].from, q[k][i].from)

Listed(q, id, p) ==
  \E k \in DOMAIN q : \E i \in DOMAIN q[k] : q[k][i].id = id /\ q[k][i].from = p

\* The places of an id whose rows the combiner has processed.
Processed(P, q, f, id) == {p \in P[id] : p[1] <= f /\ ~Listed(q, id, p)}

\* They are before those of the rows in the queue.
InFrontOf(P, q, f) ==
  \A id \in Id : \A p \in Processed(P, q, f, id) :
    \A k \in DOMAIN q : \A i \in DOMAIN q[k] : q[k][i].id = id => ~UpTo(q[k][i].from, p)

QueueOK(P, q, f) == IsQueue(P, q, f) /\ InOrder(q) /\ InFrontOf(P, q, f)

\* A side's places, id by id.
ArePlaces(P) == P \in [Id -> SUBSET (Nat \X Nat)] /\ \A id \in Id : IsFiniteSet(P[id])

----------------------------------------------------------------------------
\* Places are totally ordered.
LEMMA UpToFacts ==
  ASSUME NEW p \in Nat \X Nat, NEW q \in Nat \X Nat
  PROVE  /\ UpTo(p, p)
         /\ UpTo(p, q) \/ UpTo(q, p)
         /\ UpTo(p, q) /\ UpTo(q, p) => p = q
         /\ UpTo(p, q) => p[1] <= q[1]
BY DEF UpTo

LEMMA ConcatFacts ==
  ASSUME NEW S, NEW a \in Seq(S), NEW b \in Seq(S)
  PROVE  /\ a \o b \in Seq(S) /\ DOMAIN (a \o b) = 1 .. (Len(a) + Len(b))
         /\ Len(a) \in Nat /\ Len(b) \in Nat
         /\ DOMAIN a = 1 .. Len(a) /\ DOMAIN b = 1 .. Len(b)
         /\ \A k \in DOMAIN a : (a \o b)[k] = a[k]
         /\ \A k \in DOMAIN b : (a \o b)[Len(a) + k] = b[k]
         /\ \A k \in DOMAIN (a \o b) :
              \/ k \in DOMAIN a /\ (a \o b)[k] = a[k]
              \/ k - Len(a) \in DOMAIN b /\ (a \o b)[k] = b[k - Len(a)]
<1>1. Len(a) \in Nat /\ Len(b) \in Nat /\ DOMAIN a = 1 .. Len(a) /\ DOMAIN b = 1 .. Len(b)
  OBVIOUS
<1>2. a \o b \in Seq(S) /\ Len(a \o b) = Len(a) + Len(b)
  OBVIOUS
<1>3. DOMAIN (a \o b) = 1 .. (Len(a) + Len(b))
  BY <1>2
<1>4. \A k \in 1 .. (Len(a) + Len(b)) : (a \o b)[k] = IF k <= Len(a) THEN a[k] ELSE b[k - Len(a)]
  BY ConcatProperties
<1> QED BY <1>1, <1>2, <1>3, <1>4

\* The rows of the next batch of the source join the queue.
LEMMA QueueGrows ==
  ASSUME NEW P, ArePlaces(P), NEW q, NEW f \in Nat, QueueOK(P, q, f),
         NEW new \in Seq(Seq(Row)), InOrder(new),
         \A k \in DOMAIN new : \A i \in DOMAIN new[k] :
           new[k][i].id \in Id =>
             new[k][i].from \in P[new[k][i].id] /\ new[k][i].from[1] = f + 1,
         \A id \in Id : \A p \in P[id] : p[1] = f + 1 => Listed(new, id, p)
  PROVE  /\ QueueOK(P, q \o new, f + 1)
         /\ \A id \in Id : Processed(P, q \o new, f + 1, id) = Processed(P, q, f, id)
<1> DEFINE all == q \o new
<1>1. /\ all \in Seq(Seq(Row)) /\ DOMAIN all = 1 .. (Len(q) + Len(new))
      /\ Len(q) \in Nat /\ Len(new) \in Nat
      /\ DOMAIN q = 1 .. Len(q) /\ DOMAIN new = 1 .. Len(new)
      /\ \A k \in DOMAIN q : all[k] = q[k]
      /\ \A k \in DOMAIN new : all[Len(q) + k] = new[k]
      /\ \A k \in DOMAIN all : \/ k \in DOMAIN q /\ all[k] = q[k]
                               \/ k - Len(q) \in DOMAIN new /\ all[k] = new[k - Len(q)]
  BY ConcatFacts, SMTT(30) DEF QueueOK, IsQueue
<1> HIDE DEF all
<1>2. \A id \in Id : P[id] \subseteq Nat \X Nat
  BY DEF ArePlaces
<1>3. IsQueue(P, all, f + 1)
  <2> SUFFICES ASSUME NEW k \in DOMAIN all, NEW i \in DOMAIN all[k], all[k][i].id \in Id
               PROVE  all[k][i].from \in P[all[k][i].id] /\ all[k][i].from[1] <= f + 1
    BY <1>1 DEF IsQueue
  <2>1. CASE k \in DOMAIN q /\ all[k] = q[k]
    <3>1. all[k][i].from \in P[all[k][i].id] /\ all[k][i].from[1] <= f
      BY <2>1 DEF QueueOK, IsQueue
    <3>2. all[k][i].from[1] \in Nat
      BY <1>2, <3>1
    <3> QED BY <3>1, <3>2
  <2>2. CASE k - Len(q) \in DOMAIN new /\ all[k] = new[k - Len(q)]
    <3>1. \E l \in DOMAIN new : all[k] = new[l]
      BY <2>2
    <3>2. all[k][i].from \in P[all[k][i].id] /\ all[k][i].from[1] = f + 1
      BY <3>1
    <3>3. f + 1 <= f + 1
      OBVIOUS
    <3> QED BY <3>2, <3>3
  <2> QED BY <1>1, <2>1, <2>2
<1>4. \A id, p : Listed(all, id, p) <=> Listed(q, id, p) \/ Listed(new, id, p)
  <2> TAKE id, p
  <2>1. ASSUME Listed(all, id, p) PROVE Listed(q, id, p) \/ Listed(new, id, p)
    <3>1. PICK k \in DOMAIN all : \E i \in DOMAIN all[k] : all[k][i].id = id /\ all[k][i].from = p
      BY <2>1 DEF Listed
    <3>2. (k \in DOMAIN q /\ all[k] = q[k]) \/ \E l \in DOMAIN new : all[k] = new[l]
      BY <1>1
    <3> QED BY <3>1, <3>2 DEF Listed
  <2>2. ASSUME Listed(q, id, p) PROVE Listed(all, id, p)
    <3>1. PICK k \in DOMAIN q : \E i \in DOMAIN q[k] : q[k][i].id = id /\ q[k][i].from = p
      BY <2>2 DEF Listed
    <3>2. k \in DOMAIN all /\ all[k] = q[k]
      BY <1>1
    <3> QED BY <3>1, <3>2 DEF Listed
  <2>3. ASSUME Listed(new, id, p) PROVE Listed(all, id, p)
    <3>1. PICK k \in DOMAIN new : \E i \in DOMAIN new[k] : new[k][i].id = id /\ new[k][i].from = p
      BY <2>3 DEF Listed
    <3>2. Len(q) + k \in DOMAIN all /\ all[Len(q) + k] = new[k]
      BY <1>1, SMTT(30)
    <3> QED BY <3>1, <3>2 DEF Listed
  <2> QED BY <2>1, <2>2, <2>3
<1>5. ASSUME NEW id \in Id PROVE Processed(P, all, f + 1, id) = Processed(P, q, f, id)
  <2>1. ASSUME NEW p \in P[id], p[1] <= f + 1, ~Listed(all, id, p)
        PROVE  p[1] <= f /\ ~Listed(q, id, p)
    <3>1. p[1] \in Nat /\ p[1] # f + 1
      BY <1>2, <1>4, <2>1
    <3> QED BY <1>4, <2>1, <3>1
  <2>2. ASSUME NEW p \in P[id], p[1] <= f, ~Listed(q, id, p)
        PROVE  p[1] <= f + 1 /\ ~Listed(all, id, p)
    <3>1. p[1] \in Nat
      BY <1>2
    <3>2. ASSUME Listed(new, id, p) PROVE FALSE
      <4>1. PICK k \in DOMAIN new : \E i \in DOMAIN new[k] : new[k][i].id = id /\ new[k][i].from = p
        BY <3>2 DEF Listed
      <4>2. p[1] = f + 1
        BY <4>1
      <4> QED BY <2>2, <3>1, <4>2
    <3> QED BY <1>4, <2>2, <3>1, <3>2
  <2> QED BY <2>1, <2>2 DEF Processed
<1>6. InFrontOf(P, all, f + 1)
  <2> SUFFICES ASSUME NEW id \in Id, NEW p \in Processed(P, all, f + 1, id),
                      NEW k \in DOMAIN all, NEW i \in DOMAIN all[k], all[k][i].id = id
               PROVE  ~UpTo(all[k][i].from, p)
    BY DEF InFrontOf
  <2>1. p \in Processed(P, q, f, id)
    BY <1>5
  <2>2. CASE k \in DOMAIN q /\ all[k] = q[k]
    BY <2>1, <2>2 DEF QueueOK, InFrontOf
  <2>3. CASE k - Len(q) \in DOMAIN new /\ all[k] = new[k - Len(q)]
    <3>1. all[k][i].from[1] = f + 1 /\ all[k][i].from \in Nat \X Nat
      BY <1>2, <2>3
    <3>2. p[1] <= f /\ p \in Nat \X Nat
      BY <1>2, <2>1 DEF Processed
    <3> QED BY <3>1, <3>2, UpToFacts
  <2> QED BY <1>1, <2>2, <2>3
<1>7. InOrder(all)
  <2> SUFFICES ASSUME NEW k \in DOMAIN all, NEW l \in DOMAIN all,
                      NEW i \in DOMAIN all[k], NEW j \in DOMAIN all[l],
                      InFront(k, i, l, j), all[k][i].id \in Id, all[k][i].id = all[l][j].id
               PROVE  ~UpTo(all[l][j].from, all[k][i].from)
    BY DEF InOrder
  <2>1. CASE k \in DOMAIN q /\ l \in DOMAIN q
    BY <1>1, <2>1 DEF QueueOK, InOrder
  <2>2. CASE k \notin DOMAIN q /\ l \notin DOMAIN q
    <3>1. /\ k - Len(q) \in DOMAIN new /\ all[k] = new[k - Len(q)]
          /\ l - Len(q) \in DOMAIN new /\ all[l] = new[l - Len(q)]
      BY <1>1, <2>2
    <3>2. InFront(k - Len(q), i, l - Len(q), j)
      BY <1>1 DEF InFront
    <3> QED BY <3>1, <3>2 DEF InOrder
  <2>3. CASE k \in DOMAIN q /\ l \notin DOMAIN q
    <3>1. PICK m \in DOMAIN new : all[l] = new[m]
      BY <1>1, <2>3
    <3>2. all[l][j].from[1] = f + 1 /\ all[l][j].from \in Nat \X Nat
      BY <1>2, <3>1, SMTT(30)
    <3>3. all[k] = q[k]
      BY <1>1, <2>3
    <3>4. all[k][i].from[1] <= f /\ all[k][i].from \in P[all[k][i].id]
      BY <2>3, <3>3 DEF QueueOK, IsQueue
    <3>5. all[k][i].from \in Nat \X Nat
      BY <1>2, <3>4
    <3> QED BY <3>2, <3>4, <3>5, UpToFacts
  <2>4. CASE k \notin DOMAIN q /\ l \in DOMAIN q
    <3>1. k \in Int /\ l \in Int /\ ~(k <= Len(q)) /\ l <= Len(q) /\ Len(q) \in Nat
      BY <1>1, <2>4
    <3>2. ~(k < l) /\ k # l
      BY <3>1
    <3> QED BY <3>2 DEF InFront
  <2> QED BY <2>1, <2>2, <2>3, <2>4
<1> QED BY <1>3, <1>5, <1>6, <1>7 DEF QueueOK, all

\* What is left of a queue that starts with the batch b after its first row.
LEMMA TailFacts ==
  ASSUME NEW b \in Seq(Row), b # <<>>, NEW q \in Seq(Seq(Row))
  PROVE  /\ <<b>> \o q \in Seq(Seq(Row)) /\ <<Tail(b)>> \o q \in Seq(Seq(Row))
         /\ DOMAIN (<<b>> \o q) = 1 .. (Len(q) + 1)
         /\ DOMAIN (<<Tail(b)>> \o q) = 1 .. (Len(q) + 1) /\ Len(q) \in Nat
         /\ (<<b>> \o q)[1] = b /\ (<<Tail(b)>> \o q)[1] = Tail(b)
         /\ \A k \in 2 .. (Len(q) + 1) :
              (<<b>> \o q)[k] = q[k - 1] /\ (<<Tail(b)>> \o q)[k] = q[k - 1]
         /\ Head(b) \in Row /\ Head(b) = b[1] /\ Len(b) \in Nat \ {0}
         /\ DOMAIN b = 1 .. Len(b) /\ DOMAIN Tail(b) = 1 .. (Len(b) - 1)
         /\ \A i \in 1 .. (Len(b) - 1) : Tail(b)[i] = b[i + 1]
<1>1. /\ Tail(b) \in Seq(Row) /\ Len(Tail(b)) = Len(b) - 1 /\ Len(b) \in Nat \ {0}
      /\ Head(b) \in Row /\ Head(b) = b[1] /\ DOMAIN b = 1 .. Len(b)
  OBVIOUS
<1>2. DOMAIN Tail(b) = 1 .. (Len(b) - 1) /\ \A i \in 1 .. (Len(b) - 1) : Tail(b)[i] = b[i + 1]
  BY <1>1, HeadTailProperties
<1>3. ASSUME NEW x \in Seq(Row)
      PROVE  /\ <<x>> \o q \in Seq(Seq(Row)) /\ DOMAIN (<<x>> \o q) = 1 .. (Len(q) + 1)
             /\ (<<x>> \o q)[1] = x
             /\ \A k \in 2 .. (Len(q) + 1) : (<<x>> \o q)[k] = q[k - 1]
  <2>1. <<x>> \in Seq(Seq(Row)) /\ Len(<<x>>) = 1 /\ <<x>>[1] = x /\ Len(q) \in Nat
    OBVIOUS
  <2>2. <<x>> \o q \in Seq(Seq(Row)) /\ Len(<<x>> \o q) = Len(q) + 1
    BY <2>1
  <2>3. DOMAIN (<<x>> \o q) = 1 .. (Len(q) + 1)
    BY <2>2
  <2>4. \A k \in 1 .. (1 + Len(q)) : (<<x>> \o q)[k] = IF k <= 1 THEN <<x>>[k] ELSE q[k - 1]
    BY <2>1, ConcatProperties
  <2> QED BY <2>1, <2>2, <2>3, <2>4
<1>4. Len(q) \in Nat
  OBVIOUS
<1> QED BY <1>1, <1>2, <1>3, <1>4

\* The queue old of the batch b and then those of q, without its first row.
Drops(old, new, row, b, q) == old = <<b>> \o q /\ new = <<Tail(b)>> \o q /\ row = Head(b)

\* The combiner processes the first row of the queue: a row without an id
\* changes nothing, any other is the next of its id.
LEMMA QueueShrinks ==
  ASSUME NEW P, ArePlaces(P), NEW f \in Nat, NEW b \in Seq(Row), b # <<>>,
         NEW q \in Seq(Seq(Row)), NEW row, NEW old, NEW new,
         Drops(old, new, row, b, q), QueueOK(P, old, f)
  PROVE  /\ QueueOK(P, new, f)
         /\ \A x \in Id : x # row.id => Processed(P, new, f, x) = Processed(P, old, f, x)
         /\ row.id \in Id =>
              /\ row.from \in P[row.id] /\ row.from \notin Processed(P, old, f, row.id)
              /\ Processed(P, new, f, row.id) = Processed(P, old, f, row.id) \cup {row.from}
              /\ \A x \in P[row.id] : UpTo(x, row.from) <=> x \in Processed(P, old, f, row.id) \cup {row.from}
<1> DEFINE id == row.id
           p == row.from
           up(k, i) == IF k = 1 THEN i + 1 ELSE i
<1>1. /\ old \in Seq(Seq(Row)) /\ new \in Seq(Seq(Row))
      /\ DOMAIN old = 1 .. (Len(q) + 1) /\ DOMAIN new = DOMAIN old /\ Len(q) \in Nat
      /\ old[1] = b /\ new[1] = Tail(b)
      /\ \A k \in DOMAIN old : k # 1 => new[k] = old[k]
      /\ row \in Row /\ row = b[1] /\ Len(b) \in Nat \ {0}
      /\ DOMAIN b = 1 .. Len(b) /\ DOMAIN Tail(b) = 1 .. (Len(b) - 1)
      /\ \A i \in 1 .. (Len(b) - 1) : Tail(b)[i] = b[i + 1]
  BY TailFacts DEF Drops
<1>2. \A x \in Id : P[x] \subseteq Nat \X Nat
  BY DEF ArePlaces
<1>3. \A k \in DOMAIN old : \A i \in DOMAIN old[k] : i \in Nat \ {0} /\ old[k][i] \in Row
  <2> SUFFICES ASSUME NEW k \in DOMAIN old PROVE \A i \in DOMAIN old[k] : i \in Nat \ {0} /\ old[k][i] \in Row
    OBVIOUS
  <2>1. old[k] \in Seq(Row)
    BY <1>1
  <2> QED BY <2>1
<1>4. ASSUME NEW k \in DOMAIN new, NEW i \in DOMAIN new[k]
      PROVE  up(k, i) \in DOMAIN old[k] /\ new[k][i] = old[k][up(k, i)]
  <2>1. CASE k # 1
    BY <1>1, <2>1
  <2>2. CASE k = 1
    <3>1. i \in 1 .. (Len(b) - 1)
      BY <1>1, <2>2
    <3>2. i + 1 \in DOMAIN b /\ Tail(b)[i] = b[i + 1]
      BY <1>1, <3>1
    <3> QED BY <1>1, <2>2, <3>2
  <2> QED BY <2>1, <2>2
<1>5. ASSUME NEW k \in DOMAIN old, NEW i \in DOMAIN old[k], k # 1 \/ i # 1
      PROVE  \E j \in DOMAIN new[k] : old[k][i] = new[k][j]
  <2>1. CASE k # 1
    BY <1>1, <2>1
  <2>2. CASE k = 1
    <3>1. i - 1 \in DOMAIN Tail(b) /\ Tail(b)[i - 1] = b[i]
      BY <1>1, <1>5, <2>2
    <3> QED BY <1>1, <2>2, <3>1
  <2> QED BY <2>1, <2>2
<1>6. ASSUME NEW k \in DOMAIN new, NEW i \in DOMAIN new[k], NEW l \in DOMAIN new, NEW j \in DOMAIN new[l],
             InFront(k, i, l, j)
      PROVE  InFront(k, up(k, i), l, up(l, j))
  <2>1. k \in Int /\ l \in Int
    BY <1>1
  <2>2. up(k, i) \in Nat /\ up(l, j) \in Nat
    BY <1>3, <1>1, <1>4
  <2>3. i \in Int /\ j \in Int
    BY <1>1, <1>3, SMTT(30)
  <2> QED BY <1>6, <2>1, <2>3 DEF InFront
<1>7. 1 \in DOMAIN old /\ 1 \in DOMAIN old[1] /\ old[1][1] = row
  BY <1>1
<1>8. ASSUME NEW k \in DOMAIN new, NEW i \in DOMAIN new[k] PROVE InFront(1, 1, k, up(k, i))
  <2>1. k \in Nat \ {0} /\ DOMAIN new = DOMAIN old
    BY <1>1
  <2>2. CASE k = 1
    <3>1. i \in 1 .. (Len(b) - 1)
      BY <1>1, <2>2
    <3> QED BY <2>2, <3>1 DEF InFront
  <2>3. CASE k # 1
    BY <2>1, <2>3 DEF InFront
  <2> QED BY <2>2, <2>3
<1>9. QueueOK(P, old, f)
  OBVIOUS
<1> HIDE DEF up
<1>10. IsQueue(P, new, f)
  <2> SUFFICES ASSUME NEW k \in DOMAIN new, NEW i \in DOMAIN new[k], new[k][i].id \in Id
               PROVE  new[k][i].from \in P[new[k][i].id] /\ new[k][i].from[1] <= f
    BY <1>1 DEF IsQueue
  <2>1. k \in DOMAIN old
    BY <1>1
  <2> QED BY <1>4, <1>9, <2>1 DEF QueueOK, IsQueue
<1>11. InOrder(new)
  <2> SUFFICES ASSUME NEW k \in DOMAIN new, NEW l \in DOMAIN new,
                      NEW i \in DOMAIN new[k], NEW j \in DOMAIN new[l],
                      InFront(k, i, l, j), new[k][i].id \in Id, new[k][i].id = new[l][j].id
               PROVE  ~UpTo(new[l][j].from, new[k][i].from)
    BY DEF InOrder
  <2>1. k \in DOMAIN old /\ l \in DOMAIN old
    BY <1>1
  <2>2. /\ up(k, i) \in DOMAIN old[k] /\ new[k][i] = old[k][up(k, i)]
        /\ up(l, j) \in DOMAIN old[l] /\ new[l][j] = old[l][up(l, j)]
    BY <1>4
  <2>3. InFront(k, up(k, i), l, up(l, j))
    BY <1>6
  <2> QED BY <1>9, <2>1, <2>2, <2>3 DEF QueueOK, InOrder
\* A place stays listed unless it is the first row's.
<1>12. \A x, y : Listed(new, x, y) => Listed(old, x, y)
  <2> SUFFICES ASSUME NEW x, NEW y, NEW k \in DOMAIN new, NEW i \in DOMAIN new[k],
                      new[k][i].id = x, new[k][i].from = y
               PROVE  Listed(old, x, y)
    BY DEF Listed
  <2>1. k \in DOMAIN old /\ up(k, i) \in DOMAIN old[k] /\ new[k][i] = old[k][up(k, i)]
    BY <1>1, <1>4
  <2> QED BY <2>1 DEF Listed
<1>13. \A x, y : Listed(old, x, y) => Listed(new, x, y) \/ (x = id /\ y = p)
  <2> SUFFICES ASSUME NEW x, NEW y, NEW k \in DOMAIN old, NEW i \in DOMAIN old[k],
                      old[k][i].id = x, old[k][i].from = y
               PROVE  Listed(new, x, y) \/ (x = id /\ y = p)
    BY DEF Listed
  <2>1. CASE k # 1 \/ i # 1
    <3>1. PICK j \in DOMAIN new[k] : old[k][i] = new[k][j]
      BY <1>5, <2>1
    <3>2. k \in DOMAIN new
      BY <1>1
    <3> QED BY <3>1, <3>2 DEF Listed
  <2>2. CASE k = 1 /\ i = 1
    BY <1>7, <2>2
  <2> QED BY <2>1, <2>2
<1>14. ASSUME NEW x \in Id, x # id PROVE Processed(P, new, f, x) = Processed(P, old, f, x)
  BY <1>12, <1>13, <1>14 DEF Processed
\* The first row of an id.
<1>15. ASSUME id \in Id
       PROVE  /\ p \in P[id] /\ p[1] <= f /\ p \in Nat \X Nat
              /\ ~Listed(new, id, p) /\ Listed(old, id, p)
              /\ \A y \in P[id] : Listed(new, id, y) => ~UpTo(y, p)
  <2>1. p \in P[id] /\ p[1] <= f
    BY <1>7, <1>9, <1>15 DEF QueueOK, IsQueue
  <2>2. p \in Nat \X Nat
    BY <1>2, <1>15, <2>1
  <2>3. Listed(old, id, p)
    BY <1>7 DEF Listed
  <2>4. ASSUME NEW y, Listed(new, id, y) PROVE ~UpTo(y, p)
    <3> PICK k \in DOMAIN new : \E i \in DOMAIN new[k] : new[k][i].id = id /\ new[k][i].from = y
      BY <2>4 DEF Listed
    <3>1. PICK i \in DOMAIN new[k] : new[k][i].id = id /\ new[k][i].from = y
      OBVIOUS
    <3>2. k \in DOMAIN old /\ up(k, i) \in DOMAIN old[k] /\ new[k][i] = old[k][up(k, i)]
      BY <1>1, <1>4
    <3>3. InFront(1, 1, k, up(k, i))
      BY <1>8
    <3>4. old[1][1].id \in Id /\ old[1][1].id = old[k][up(k, i)].id
      BY <1>7, <1>15, <3>1, <3>2
    <3>5. ~UpTo(old[k][up(k, i)].from, old[1][1].from)
      BY <1>7, <1>9, <3>2, <3>3, <3>4 DEF QueueOK, InOrder
    <3> QED BY <1>7, <3>1, <3>2, <3>5
  <2>5. ~Listed(new, id, p)
    BY <2>2, <2>4, UpToFacts
  <2> QED BY <2>1, <2>2, <2>3, <2>4, <2>5
<1>16. ASSUME id \in Id
       PROVE  /\ p \notin Processed(P, old, f, id)
              /\ Processed(P, new, f, id) = Processed(P, old, f, id) \cup {p}
              /\ \A x \in P[id] : UpTo(x, p) <=> x \in Processed(P, old, f, id) \cup {p}
  <2>1. p \notin Processed(P, old, f, id)
    BY <1>15, <1>16 DEF Processed
  <2>2. Processed(P, new, f, id) = Processed(P, old, f, id) \cup {p}
    BY <1>12, <1>13, <1>15, <1>16 DEF Processed
  <2>3. ASSUME NEW x \in P[id], UpTo(x, p) PROVE x \in Processed(P, old, f, id) \cup {p}
    <3>1. x \in Nat \X Nat /\ x[1] <= p[1] /\ p[1] <= f /\ p \in Nat \X Nat
      BY <1>2, <1>15, <1>16, <2>3, UpToFacts
    <3>2. x[1] <= f
      BY <3>1
    <3>3. ~Listed(new, id, x)
      BY <1>15, <1>16, <2>3
    <3> QED BY <2>2, <3>2, <3>3 DEF Processed
  <2>4. ASSUME NEW x \in Processed(P, old, f, id) PROVE x \in P[id] /\ UpTo(x, p)
    <3>1. x \in P[id] /\ x \in Nat \X Nat
      BY <1>2, <1>16 DEF Processed
    <3>2. ~UpTo(old[1][1].from, x)
      BY <1>7, <1>9, <1>16 DEF QueueOK, InFrontOf
    <3> QED BY <1>7, <1>15, <1>16, <3>1, <3>2, UpToFacts
  <2>5. p \in P[id] /\ UpTo(p, p)
    BY <1>15, <1>16, UpToFacts
  <2> QED BY <2>1, <2>2, <2>3, <2>4, <2>5
<1>17. InFrontOf(P, new, f)
  <2> SUFFICES ASSUME NEW x \in Id, NEW y \in Processed(P, new, f, x),
                      NEW k \in DOMAIN new, NEW i \in DOMAIN new[k], new[k][i].id = x
               PROVE  ~UpTo(new[k][i].from, y)
    BY DEF InFrontOf
  <2>1. k \in DOMAIN old /\ up(k, i) \in DOMAIN old[k] /\ new[k][i] = old[k][up(k, i)]
    BY <1>1, <1>4
  <2>2. CASE y \in Processed(P, old, f, x)
    BY <1>9, <2>1, <2>2 DEF QueueOK, InFrontOf
  <2>3. CASE y \notin Processed(P, old, f, x)
    <3>1. x = id /\ y = p
      BY <1>14, <1>16, <2>3
    <3>2. Listed(new, id, new[k][i].from)
      BY <3>1 DEF Listed
    <3>3. new[k][i].from \in P[id]
      BY <1>10, <3>1 DEF IsQueue
    <3> QED BY <1>15, <3>1, <3>2, <3>3
  <2> QED BY <2>2, <2>3
<1>18. QueueOK(P, new, f)
  BY <1>10, <1>11, <1>17 DEF QueueOK
<1> HIDE DEF id, p
<1> QED BY <1>14, <1>15, <1>16, <1>18 DEF id, p

\* The combiner returns from an empty batch.
LEMMA QueueAdvances ==
  ASSUME NEW P, NEW f \in Nat, NEW q \in Seq(Seq(Row)), QueueOK(P, <<(<<>>)>> \o q, f)
  PROVE  /\ QueueOK(P, q, f)
         /\ \A id \in Id : Processed(P, q, f, id) = Processed(P, <<(<<>>)>> \o q, f, id)
<1> DEFINE e == <<(<<>>)>>
           old == e \o q
<1>1. e \in Seq(Seq(Row)) /\ Len(e) = 1 /\ DOMAIN e = {1} /\ e[1] = <<>> /\ DOMAIN e[1] = {}
  OBVIOUS
<1>2. /\ Len(q) \in Nat /\ DOMAIN q = 1 .. Len(q)
      /\ \A k \in DOMAIN q : 1 + k \in DOMAIN old /\ old[1 + k] = q[k]
      /\ \A k \in DOMAIN old : \/ k \in DOMAIN e /\ old[k] = e[k]
                               \/ k - 1 \in DOMAIN q /\ old[k] = q[k - 1]
  <2> HIDE DEF e
  <2>1. e \in Seq(Seq(Row)) /\ q \in Seq(Seq(Row))
    BY <1>1
  <2>2. /\ DOMAIN old = 1 .. (Len(e) + Len(q)) /\ DOMAIN e = 1 .. Len(e)
        /\ Len(q) \in Nat /\ DOMAIN q = 1 .. Len(q)
        /\ \A k \in DOMAIN q : old[Len(e) + k] = q[k]
        /\ \A k \in DOMAIN old : \/ k \in DOMAIN e /\ old[k] = e[k]
                                 \/ k - Len(e) \in DOMAIN q /\ old[k] = q[k - Len(e)]
    BY <2>1, ConcatFacts
  <2> HIDE DEF old
  <2>3. Len(e) = 1
    BY <1>1
  <2>4. \A k \in DOMAIN q : 1 + k \in DOMAIN old
    BY <2>2, <2>3
  <2>5. \A k \in DOMAIN q : old[1 + k] = q[k]
    BY <2>2, <2>3
  <2>6. \A k \in DOMAIN old :
                (k \in DOMAIN e /\ old[k] = e[k]) \/ (k - 1 \in DOMAIN q /\ old[k] = q[k - 1])
    BY <2>2, <2>3
  <2> QED BY <2>2, <2>4, <2>5, <2>6
<1>3. QueueOK(P, old, f)
  OBVIOUS
<1> HIDE DEF old
<1>4. \A id, p : Listed(old, id, p) <=> Listed(q, id, p)
  <2> TAKE id, p
  <2>1. ASSUME Listed(q, id, p) PROVE Listed(old, id, p)
    <3>1. PICK k \in DOMAIN q : \E i \in DOMAIN q[k] : q[k][i].id = id /\ q[k][i].from = p
      BY <2>1 DEF Listed
    <3>2. 1 + k \in DOMAIN old /\ old[1 + k] = q[k]
      BY <1>2
    <3> QED BY <3>1, <3>2 DEF Listed
  <2>2. ASSUME Listed(old, id, p) PROVE Listed(q, id, p)
    <3>1. PICK k \in DOMAIN old : \E i \in DOMAIN old[k] : old[k][i].id = id /\ old[k][i].from = p
      BY <2>2 DEF Listed
    <3>2. k - 1 \in DOMAIN q /\ old[k] = q[k - 1]
      BY <1>1, <1>2, <3>1
    <3> QED BY <3>1, <3>2 DEF Listed
  <2> QED BY <2>1, <2>2
<1>5. \A id \in Id : Processed(P, q, f, id) = Processed(P, old, f, id)
  BY <1>4 DEF Processed
<1>6. IsQueue(P, q, f)
  <2> SUFFICES ASSUME NEW k \in DOMAIN q, NEW i \in DOMAIN q[k], q[k][i].id \in Id
               PROVE  q[k][i].from \in P[q[k][i].id] /\ q[k][i].from[1] <= f
    BY DEF IsQueue
  <2>1. 1 + k \in DOMAIN old /\ old[1 + k] = q[k]
    BY <1>2
  <2> QED BY <1>3, <2>1 DEF QueueOK, IsQueue
<1>7. InFrontOf(P, q, f)
  <2> SUFFICES ASSUME NEW id \in Id, NEW p \in Processed(P, q, f, id),
                      NEW k \in DOMAIN q, NEW i \in DOMAIN q[k], q[k][i].id = id
               PROVE  ~UpTo(q[k][i].from, p)
    BY DEF InFrontOf
  <2>1. 1 + k \in DOMAIN old /\ old[1 + k] = q[k]
    BY <1>2
  <2> QED BY <1>3, <1>5, <2>1 DEF QueueOK, InFrontOf
<1>8. InOrder(q)
  <2> SUFFICES ASSUME NEW k \in DOMAIN q, NEW l \in DOMAIN q,
                      NEW i \in DOMAIN q[k], NEW j \in DOMAIN q[l],
                      InFront(k, i, l, j), q[k][i].id \in Id, q[k][i].id = q[l][j].id
               PROVE  ~UpTo(q[l][j].from, q[k][i].from)
    BY DEF InOrder
  <2>1. /\ 1 + k \in DOMAIN old /\ old[1 + k] = q[k]
        /\ 1 + l \in DOMAIN old /\ old[1 + l] = q[l]
    BY <1>2
  <2>2. InFront(1 + k, i, 1 + l, j)
    BY <1>2 DEF InFront
  <2> QED BY <1>3, <2>1, <2>2 DEF QueueOK, InOrder
<1> QED BY <1>5, <1>6, <1>7, <1>8 DEF QueueOK, old

----------------------------------------------------------------------------
(* Cutting an answer into batches.                                         *)

\* The row of the answer that is row i of batch k.
At(k, i) == (k - 1) * LookupBatchSize + i

LEMMA DivisionFacts ==
  ASSUME NEW n \in Int, NEW d \in Nat \ {0}
  PROVE  /\ n \div d \in Int /\ n % d \in Nat
         /\ n = d * (n \div d) + (n % d) /\ (n % d) < d
OBVIOUS

\* Batches come one after the other.
LEMMA BatchBounds ==
  ASSUME NEW L \in Nat \ {0}, NEW k \in Int, NEW l \in Int, k < l
  PROVE  k * L <= (l - 1) * L /\ (k - 1) * L + L = k * L /\ k * L \in Int /\ (k - 1) * L \in Int
OBVIOUS

\* A batch holds the rows of its part of the answer.
LEMMA BatchFacts ==
  ASSUME NEW s \in Seq(Row), NEW k \in DOMAIN InBatches(s)
  PROVE  /\ InBatches(s)[k] \in Seq(Row) /\ k \in Nat \ {0}
         /\ \A i \in DOMAIN InBatches(s)[k] :
              /\ i \in 1 .. LookupBatchSize /\ At(k, i) \in DOMAIN s
              /\ InBatches(s)[k][i] = s[At(k, i)]
         /\ \A i \in 1 .. LookupBatchSize : At(k, i) \in DOMAIN s => i \in DOMAIN InBatches(s)[k]
<1> DEFINE L == LookupBatchSize
           n == Len(s)
           m == n + L - 1
           a == (k - 1) * L
           hi == IF k * L < n THEN k * L ELSE n
<1>1. L \in Nat \ {0} /\ n \in Nat /\ m \in Int /\ DOMAIN s = 1 .. n
  BY ParameterAssumption
<1>2. k \in 1 .. (m \div L) /\ InBatches(s)[k] = SubSeq(s, a + 1, hi)
  BY DEF InBatches
<1> HIDE DEF n, m, L
<1>3. m \div L \in Int /\ m = L * (m \div L) + (m % L) /\ (m % L) \in Nat
  BY <1>1, DivisionFacts
<1>4. k \in Nat \ {0} /\ k <= m \div L
  BY <1>2, <1>3
<1>5. a \in Nat /\ k * L = a + L
  BY <1>1, <1>4
<1>6. k * L <= (m \div L) * L
  BY <1>1, <1>3, <1>4
<1>7. (m \div L) * L = L * (m \div L) /\ (m \div L) * L \in Int
  BY <1>1, <1>3
<1>8. a + L <= m
  <2> HIDE DEF a
  <2> QED BY <1>1, <1>3, <1>5, <1>6, <1>7
<1>9. a + 1 <= n
  BY <1>1, <1>5, <1>8 DEF m
<1>10. hi = (IF a + L < n THEN a + L ELSE n)
  BY <1>5
<1> HIDE DEF a, hi
<1>11. hi \in Nat /\ a + 1 <= hi /\ hi <= n /\ hi <= a + L /\ (hi = a + L \/ hi = n)
  BY <1>1, <1>5, <1>9, <1>10
<1>12. \A i \in (a + 1) .. hi : s[i] \in Row
  BY <1>1, <1>5, <1>11
<1>13. /\ SubSeq(s, a + 1, hi) \in Seq(Row)
       /\ Len(SubSeq(s, a + 1, hi)) = hi - (a + 1) + 1
       /\ \A i \in 1 .. (hi - (a + 1) + 1) : SubSeq(s, a + 1, hi)[i] = s[a + 1 + i - 1]
  BY <1>5, <1>11, <1>12, SubSeqProperties
<1>14. DOMAIN InBatches(s)[k] = 1 .. (hi - a)
  <2>1. DOMAIN SubSeq(s, a + 1, hi) = 1 .. Len(SubSeq(s, a + 1, hi))
    BY <1>13
  <2>2. hi - (a + 1) + 1 = hi - a
    BY <1>5, <1>11
  <2> QED BY <1>2, <1>13, <2>1, <2>2
<1>15. \A i \in Int : At(k, i) = a + i
  BY DEF At, a, L
<1>16. ASSUME NEW i \in 1 .. (hi - a)
       PROVE  /\ i \in 1 .. L /\ At(k, i) \in DOMAIN s
              /\ InBatches(s)[k][i] = s[At(k, i)]
  <2>1. i \in 1 .. L /\ a + i \in 1 .. n /\ a + 1 + i - 1 = a + i /\ hi - (a + 1) + 1 = hi - a
    BY <1>1, <1>5, <1>11
  <2> QED BY <1>1, <1>2, <1>13, <1>15, <2>1
<1>17. ASSUME NEW i \in 1 .. L, At(k, i) \in DOMAIN s PROVE i \in 1 .. (hi - a)
  BY <1>1, <1>5, <1>11, <1>15, <1>17
<1> QED BY <1>2, <1>4, <1>13, <1>14, <1>16, <1>17 DEF L

\* The batches hold every row of the answer, in its order.
LEMMA InBatchesFacts ==
  ASSUME NEW s \in Seq(Row)
  PROVE  /\ InBatches(s) \in Seq(Seq(Row))
         /\ \A x \in DOMAIN s : \E k \in DOMAIN InBatches(s) : \E i \in DOMAIN InBatches(s)[k] :
              InBatches(s)[k][i] = s[x]
         /\ \A k, l \in DOMAIN InBatches(s) :
              \A i \in DOMAIN InBatches(s)[k], j \in DOMAIN InBatches(s)[l] :
                InFront(k, i, l, j) => At(k, i) < At(l, j)
<1> DEFINE L == LookupBatchSize
           m == Len(s) + L - 1
<1>1. L \in Nat \ {0} /\ m \in Int /\ DOMAIN s = 1 .. Len(s) /\ Len(s) \in Nat
  BY ParameterAssumption
<1>2. m \div L \in Int /\ m = L * (m \div L) + (m % L) /\ (m % L) \in Nat /\ (m % L) < L
  <2> HIDE DEF L, m
  <2> QED BY <1>1, DivisionFacts
<1>3. DOMAIN InBatches(s) = 1 .. (m \div L)
  BY DEF InBatches
<1>4. m \div L \in Nat
  <2>1. m >= 0
    BY <1>1
  <2> HIDE DEF m, L
  <2>2. ASSUME m \div L <= -1 PROVE FALSE
    <3>1. L * (m \div L) <= L * (-1)
      BY <1>1, <1>2, <2>2
    <3> DEFINE z == L * (m \div L)
    <3>2. z \in Int /\ z <= -L
      BY <1>1, <1>2, <3>1
    <3>3. m = z + (m % L)
      BY <1>2
    <3> HIDE DEF z
    <3> QED BY <1>1, <1>2, <2>1, <3>2, <3>3
  <2> QED BY <1>2, <2>2
<1>5. InBatches(s) \in Seq(Seq(Row))
  <2>1. \A k \in 1 .. (m \div L) : InBatches(s)[k] \in Seq(Row)
    BY <1>3, BatchFacts
  <2>2. InBatches(s) = [k \in 1 .. (m \div L) |-> InBatches(s)[k]]
    BY DEF InBatches
  <2> HIDE DEF m, L
  <2> QED BY <1>4, <2>1, <2>2, SMTT(30)
<1>6. ASSUME NEW x \in DOMAIN s
      PROVE  \E k \in DOMAIN InBatches(s) : \E i \in DOMAIN InBatches(s)[k] : InBatches(s)[k][i] = s[x]
  <2> DEFINE c == (x - 1) \div L
             r == (x - 1) % L
  <2>1. x - 1 \in Int
    BY <1>1
  <2>2. c \in Int /\ r \in Nat /\ x - 1 = L * c + r /\ r < L
    <3> HIDE DEF L
    <3> QED BY <1>1, <2>1, DivisionFacts
  <2> HIDE DEF c, r, m, L
  <2>3. c >= 0
    <3>1. ASSUME c <= -1 PROVE FALSE
      <4> DEFINE z == L * c
      <4>1. z \in Int /\ z <= -L
        BY <1>1, <2>2, <3>1
      <4>2. x - 1 = z + r
        BY <2>2
      <4> HIDE DEF z
      <4> QED BY <1>1, <2>1, <2>2, <4>1, <4>2
    <3> QED BY <2>2, <3>1
  <2>4. c + 1 <= m \div L
    <3>1. ASSUME m \div L <= c PROVE FALSE
      <4> DEFINE z == L * c
                 y == L * (m \div L)
      <4>1. z \in Int /\ y \in Int /\ y <= z
        BY <1>1, <1>2, <2>2, <3>1
      <4>2. x - 1 = z + r /\ m = y + (m % L)
        BY <1>2, <2>2
      <4> HIDE DEF z, y
      <4>3. m < z + L
        BY <1>1, <1>2, <4>1, <4>2
      <4>4. m >= x - 1 + L
        BY <1>1 DEF m
      <4> QED BY <1>1, <2>1, <2>2, <4>1, <4>2, <4>3, <4>4
    <3> QED BY <1>2, <2>2, <3>1
  <2>5. c + 1 \in DOMAIN InBatches(s)
    BY <1>2, <1>3, <2>2, <2>3, <2>4
  <2>6. At(c + 1, r + 1) = x
    <3>1. ((c + 1) - 1) * L = L * c /\ L * c \in Int
      BY <1>1, <2>2
    <3>2. At(c + 1, r + 1) = L * c + (r + 1)
      BY <3>1 DEF At, L
    <3> QED BY <1>1, <2>2, <3>1, <3>2
  <2>7. r + 1 \in 1 .. LookupBatchSize
    BY <1>1, <2>2 DEF L
  <2>8. r + 1 \in DOMAIN InBatches(s)[c + 1]
    BY <2>5, <2>6, <2>7, BatchFacts
  <2>9. InBatches(s)[c + 1][r + 1] = s[x]
    BY <2>5, <2>6, <2>8, BatchFacts
  <2> QED BY <2>5, <2>8, <2>9
<1>7. ASSUME NEW k \in DOMAIN InBatches(s), NEW l \in DOMAIN InBatches(s),
             NEW i \in DOMAIN InBatches(s)[k], NEW j \in DOMAIN InBatches(s)[l],
             InFront(k, i, l, j)
      PROVE  At(k, i) < At(l, j)
  <2>1. k \in Nat \ {0} /\ l \in Nat \ {0} /\ i \in 1 .. L /\ j \in 1 .. L
    BY BatchFacts
  <2>2. CASE k = l /\ i < j
    <3>1. (k - 1) * L \in Int
      BY <1>1, <2>1
    <3> QED BY <1>1, <2>1, <2>2, <3>1 DEF At
  <2>3. CASE k < l
    <3> DEFINE a == (k - 1) * L
               b == (l - 1) * L
    <3>1. a \in Int /\ b \in Int /\ a + L <= b
      BY <1>1, <2>1, <2>3, BatchBounds
    <3>2. At(k, i) = a + i /\ At(l, j) = b + j
      BY DEF At
    <3> HIDE DEF a, b, L
    <3> QED BY <1>1, <2>1, <3>1, <3>2
  <2> QED BY <1>7, <2>2, <2>3 DEF InFront
<1> QED BY <1>5, <1>6, <1>7

----------------------------------------------------------------------------
(* The places of rows.                                                     *)

InputsOK == labels \in Seq(IdColumn) /\ appRows \in [Id -> Nat]

PlacesOf(s) == [id \in Id |-> Places(s, id)]

LEMMA FiniteParts ==
  ASSUME NEW x, NEW n \in Nat
  PROVE  IsFiniteSet({x}) /\ IsFiniteSet(1 .. n)
<1>1. IsFiniteSet({x})
  BY FS_Singleton
<1>2. IsFiniteSet(1 .. n)
  BY FS_Interval
<1> QED BY <1>1, <1>2

LEMMA FiniteRange ==
  ASSUME NEW S, IsFiniteSet(S), NEW T, NEW F \in [S -> T]
  PROVE  IsFiniteSet(Range(F))
<1>1. F \in Surjection(S, Range(F))
  BY Fun_RangeProperties
<1> QED BY <1>1, FS_Surjection

LEMMA FiniteUnion ==
  ASSUME NEW S, IsFiniteSet(S), NEW T, NEW F \in [S -> T], \A b \in S : IsFiniteSet(F[b])
  PROVE  IsFiniteSet(UNION Range(F))
<1>1. IsFiniteSet(Range(F))
  BY FiniteRange
<1>2. \A x \in Range(F) : IsFiniteSet(x)
  BY DEF Range
<1> QED BY <1>1, <1>2, FS_UNION

LEMMA ColumnFacts ==
  ASSUME InputsOK, NEW b \in DOMAIN labels
  PROVE  /\ labels[b] \in Seq(Id \cup {NullId}) /\ b \in Nat /\ b <= Len(labels)
         /\ DOMAIN labels[b] = 1 .. Len(labels[b]) /\ Len(labels[b]) \in Nat
<1>1. labels[b] \in IdColumn /\ b \in Nat /\ b <= Len(labels)
  BY DEF InputsOK
<1>2. labels[b] \in Seq(Id \cup {NullId})
  BY <1>1, ParameterAssumption
<1> QED BY <1>1, <1>2

LEMMA PlaceOfLabel ==
  ASSUME InputsOK, NEW id \in Id, NEW p
  PROVE  p \in Places("label", id) <=>
           \E b \in DOMAIN labels : \E i \in DOMAIN labels[b] : labels[b][i] = id /\ p = <<b, i>>
BY DEF Places

LEMMA PlaceOfApp ==
  ASSUME InputsOK, NEW id \in Id, NEW p
  PROVE  p \in Places("app", id) <=>
           \E b \in DOMAIN labels : \E n \in 1 .. appRows[id] : id \in Range(labels[b]) /\ p = <<b, n>>
BY DEF Places

LEMMA PlacesFacts ==
  ASSUME InputsOK, NEW s \in Side
  PROVE  /\ ArePlaces(PlacesOf(s))
         /\ \A id \in Id : \A p \in PlacesOf(s)[id] : p[1] \in 1 .. Len(labels)
<1>1. ASSUME NEW id \in Id
      PROVE  /\ Places(s, id) \in SUBSET (Nat \X Nat) /\ IsFiniteSet(Places(s, id))
             /\ \A p \in Places(s, id) : p[1] \in 1 .. Len(labels)
  <2>1. Len(labels) \in Nat /\ DOMAIN labels = 1 .. Len(labels)
    BY DEF InputsOK
  <2>2. CASE s = "label"
    <3> DEFINE G(b) == {b} \X DOMAIN labels[b]
               F == [b \in 1 .. Len(labels) |-> G(b)]
    <3>1. ASSUME NEW b \in 1 .. Len(labels) PROVE IsFiniteSet(F[b])
      <4>1. DOMAIN labels[b] = 1 .. Len(labels[b]) /\ Len(labels[b]) \in Nat
        BY <2>1, ColumnFacts
      <4>2. IsFiniteSet({b}) /\ IsFiniteSet(DOMAIN labels[b])
        BY <4>1, FiniteParts
      <4>3. IsFiniteSet({b} \X DOMAIN labels[b])
        BY <4>2, FS_Product
      <4> QED BY <4>3
    <3>2. IsFiniteSet(UNION Range(F))
      <4> DEFINE T == {G(b) : b \in 1 .. Len(labels)}
      <4> HIDE DEF G
      <4>1. \A b \in 1 .. Len(labels) : G(b) \in T
        OBVIOUS
      <4> HIDE DEF T
      <4>2. F \in [1 .. Len(labels) -> T]
        BY <4>1
      <4> HIDE DEF F
      <4>3. IsFiniteSet(1 .. Len(labels))
        BY <2>1, FiniteParts
      <4> QED BY <3>1, <4>2, <4>3, FiniteUnion
    <3>3. ASSUME NEW p \in Places(s, id)
          PROVE  p \in UNION Range(F) /\ p \in Nat \X Nat /\ p[1] \in 1 .. Len(labels)
      <4>1. PICK b \in DOMAIN labels : \E i \in DOMAIN labels[b] : labels[b][i] = id /\ p = <<b, i>>
        BY <2>2, PlaceOfLabel
      <4>2. PICK i \in DOMAIN labels[b] : p = <<b, i>>
        BY <4>1
      <4>3. i \in Nat /\ b \in Nat /\ b \in 1 .. Len(labels)
        BY <2>1, ColumnFacts
      <4>4. p \in F[b] /\ F[b] \in Range(F)
        BY <2>1, <4>2 DEF Range
      <4> QED BY <4>2, <4>3, <4>4
    <3> HIDE DEF F
    <3>4. Places(s, id) \in SUBSET (UNION Range(F))
      BY <3>3
    <3>5. IsFiniteSet(Places(s, id))
      BY <3>2, <3>4, FS_Subset
    <3> QED BY <3>3, <3>5
  <2>3. CASE s = "app"
    <3> DEFINE G(b) == {b} \X (1 .. appRows[id])
               F == [b \in 1 .. Len(labels) |-> G(b)]
    <3>1. appRows[id] \in Nat
      BY DEF InputsOK
    <3>2. ASSUME NEW b \in 1 .. Len(labels) PROVE IsFiniteSet(F[b])
      <4>1. IsFiniteSet({b}) /\ IsFiniteSet(1 .. appRows[id])
        BY <3>1, FiniteParts
      <4>2. IsFiniteSet({b} \X (1 .. appRows[id]))
        BY <4>1, FS_Product
      <4> QED BY <4>2
    <3>3. IsFiniteSet(UNION Range(F))
      <4> DEFINE T == {G(b) : b \in 1 .. Len(labels)}
      <4> HIDE DEF G
      <4>1. \A b \in 1 .. Len(labels) : G(b) \in T
        OBVIOUS
      <4> HIDE DEF T
      <4>2. F \in [1 .. Len(labels) -> T]
        BY <4>1
      <4> HIDE DEF F
      <4>3. IsFiniteSet(1 .. Len(labels))
        BY <2>1, FiniteParts
      <4> QED BY <3>2, <4>2, <4>3, FiniteUnion
    <3>4. ASSUME NEW p \in Places(s, id)
          PROVE  p \in UNION Range(F) /\ p \in Nat \X Nat /\ p[1] \in 1 .. Len(labels)
      <4>1. PICK b \in DOMAIN labels : \E n \in 1 .. appRows[id] : p = <<b, n>>
        BY <2>3, PlaceOfApp
      <4>2. PICK n \in 1 .. appRows[id] : p = <<b, n>>
        BY <4>1
      <4>3. n \in Nat /\ b \in Nat /\ b \in 1 .. Len(labels)
        BY <2>1, ColumnFacts
      <4>4. p \in F[b] /\ F[b] \in Range(F)
        BY <2>1, <4>2 DEF Range
      <4> QED BY <4>2, <4>3, <4>4
    <3> HIDE DEF F
    <3>5. Places(s, id) \in SUBSET (UNION Range(F))
      BY <3>4
    <3>6. IsFiniteSet(Places(s, id))
      BY <3>3, <3>5, FS_Subset
    <3> QED BY <3>4, <3>6
  <2> QED BY <2>2, <2>3 DEF Side
<1> QED BY <1>1 DEF ArePlaces, PlacesOf

\* The rows of the batch f + 1 of the source on their way to the combiner: all
\* of them, in the order of their places.
NextRows(P, new, f) ==
  /\ new \in Seq(Seq(Row)) /\ InOrder(new)
  /\ \A k \in DOMAIN new : \A i \in DOMAIN new[k] :
       new[k][i].id \in Id =>
         new[k][i].from \in P[new[k][i].id] /\ new[k][i].from[1] = f + 1
  /\ \A id \in Id : \A p \in P[id] : p[1] = f + 1 => Listed(new, id, p)

\* What the source sends to the combiner.
LEMMA LabelRows ==
  ASSUME InputsOK, NEW f \in Nat, f + 1 \in DOMAIN labels
  PROVE  /\ LabelBatch(f + 1) \in Seq(Row)
         /\ NextRows(PlacesOf("label"), <<LabelBatch(f + 1)>>, f)
<1> DEFINE b == f + 1
           batch == LabelBatch(b)
           new == <<batch>>
<1>1. /\ b \in DOMAIN labels /\ b \in Nat /\ labels[b] \in Seq(Id \cup {NullId})
      /\ DOMAIN labels[b] = 1 .. Len(labels[b]) /\ Len(labels[b]) \in Nat
  BY ColumnFacts
<1> HIDE DEF b
<1>2. /\ DOMAIN batch = DOMAIN labels[b]
      /\ \A i \in DOMAIN batch : i \in Nat /\ batch[i] = [id |-> labels[b][i], from |-> <<b, i>>]
      /\ \A i \in DOMAIN batch : batch[i].id = labels[b][i] /\ batch[i].from = <<b, i>>
  BY <1>1 DEF LabelBatch
<1>3. batch \in Seq(Row)
  <2>1. \A i \in 1 .. Len(labels[b]) : [id |-> labels[b][i], from |-> <<b, i>>] \in Row
    BY <1>1 DEF Row
  <2> QED BY <1>1, <2>1 DEF LabelBatch
<1> HIDE DEF batch
<1>4. new \in Seq(Seq(Row)) /\ DOMAIN new = {1} /\ new[1] = batch
  BY <1>3
<1> HIDE DEF new
<1>5. InOrder(new)
  <2> SUFFICES ASSUME NEW k \in DOMAIN new, NEW l \in DOMAIN new,
                      NEW i \in DOMAIN new[k], NEW j \in DOMAIN new[l],
                      InFront(k, i, l, j), new[k][i].id \in Id, new[k][i].id = new[l][j].id
               PROVE  ~UpTo(new[l][j].from, new[k][i].from)
    BY DEF InOrder
  <2>1. k = 1 /\ l = 1 /\ i \in DOMAIN batch /\ j \in DOMAIN batch
    BY <1>4
  <2>2. i \in Nat /\ j \in Nat
    BY <1>2, <2>1
  <2>3. i < j
    <3>1. InFront(1, i, 1, j)
      BY <2>1
    <3> QED BY <2>2, <3>1 DEF InFront
  <2>4. new[k][i].from = <<b, i>> /\ new[l][j].from = <<b, j>>
    BY <1>2, <1>4, <2>1
  <2>5. b \in Nat
    BY <1>1
  <2>6. ~UpTo(<<b, j>>, <<b, i>>)
    BY <2>3, <2>2, <2>5 DEF UpTo
  <2> QED BY <2>4, <2>6
<1>6. ASSUME NEW k \in DOMAIN new, NEW i \in DOMAIN new[k], new[k][i].id \in Id
      PROVE  new[k][i].from \in PlacesOf("label")[new[k][i].id] /\ new[k][i].from[1] = b
  <2>1. i \in DOMAIN labels[b] /\ new[k][i].id = labels[b][i] /\ new[k][i].from = <<b, i>>
    BY <1>2, <1>4
  <2> DEFINE id == labels[b][i]
  <2>2. id \in Id /\ new[k][i].id = id /\ new[k][i].from = <<b, i>>
    BY <1>6, <2>1
  <2>3. <<b, i>> \in Places("label", id)
    BY <1>1, <2>1, <2>2, PlaceOfLabel
  <2> HIDE DEF id
  <2> QED BY <2>2, <2>3 DEF PlacesOf
<1>7. ASSUME NEW id \in Id, NEW p \in PlacesOf("label")[id], p[1] = b
      PROVE  Listed(new, id, p)
  <2>1. p \in Places("label", id)
    BY DEF PlacesOf
  <2>2. PICK c \in DOMAIN labels : \E i \in DOMAIN labels[c] : labels[c][i] = id /\ p = <<c, i>>
    BY <2>1, PlaceOfLabel
  <2>3. PICK i \in DOMAIN labels[b] : labels[b][i] = id /\ p = <<b, i>>
    BY <1>7, <2>2
  <2>4. i \in DOMAIN new[1] /\ new[1][i].id = id /\ new[1][i].from = p
    BY <1>2, <1>4, <2>3
  <2>5. 1 \in DOMAIN new
    BY <1>4
  <2> QED BY <2>4, <2>5 DEF Listed
<1> QED BY <1>3, <1>4, <1>5, <1>6, <1>7 DEF NextRows, new, batch, b

\* What the lookup sends: nothing without keys, and otherwise the batches of the
\* answer to its query.
LEMMA AppRows ==
  ASSUME InputsOK, NEW f \in Nat, f + 1 \in DOMAIN labels
  PROVE  LET keys == LookupKeys(labels[f + 1])
             P == PlacesOf("app")
         IN  /\ keys = {} => NextRows(P, <<>>, f)
             /\ \A answer \in Query(f + 1, keys) : NextRows(P, InBatches(answer), f)
<1> DEFINE b == f + 1
           keys == LookupKeys(labels[b])
           P == PlacesOf("app")
<1>1. /\ b \in DOMAIN labels /\ b \in Nat /\ labels[b] \in Seq(Id \cup {NullId})
      /\ DOMAIN labels[b] = 1 .. Len(labels[b]) /\ Len(labels[b]) \in Nat
  BY ColumnFacts
<1> HIDE DEF b
<1>2. Range(labels[b]) \subseteq Id \cup {NullId}
  BY <1>1, RangeOfSeq
<1>3. keys \subseteq Id /\ keys = Range(labels[b]) \cap Id
  BY <1>2, ParameterAssumption DEF LookupKeys
<1>4. IsFiniteSet(keys)
  <2>1. IsFiniteSet(Range(labels[b]))
    <3>1. IsFiniteSet(1 .. Len(labels[b]))
      BY <1>1, FiniteParts
    <3>2. labels[b] \in [1 .. Len(labels[b]) -> Id \cup {NullId}]
      BY <1>1
    <3> QED BY <3>1, <3>2, FiniteRange
  <2>2. keys \in SUBSET Range(labels[b])
    BY <1>3
  <2> QED BY <2>1, <2>2, FS_Subset
<1> HIDE DEF keys
<1>5. ASSUME NEW id \in Id, NEW p
      PROVE  p \in P[id] /\ p[1] = b <=> id \in keys /\ \E n \in 1 .. appRows[id] : p = <<b, n>>
  <2>1. p \in P[id] <=> p \in Places("app", id)
    BY DEF PlacesOf
  <2> HIDE DEF P
  <2> QED BY <1>1, <1>3, <2>1, PlaceOfApp
<1>6. ASSUME keys = {} PROVE NextRows(P, <<>>, f)
  <2>1. <<>> \in Seq(Seq(Row)) /\ DOMAIN <<>> = {}
    OBVIOUS
  <2> HIDE DEF P
  <2> QED BY <1>5, <1>6, <2>1 DEF NextRows, InOrder, b
<1>7. ASSUME NEW answer \in Query(b, keys) PROVE NextRows(P, InBatches(answer), f)
  <2> DEFINE rowsOf(k) == {[id |-> k, from |-> <<b, n>>] : n \in 1 .. appRows[k]}
             found == UNION {rowsOf(k) : k \in keys}
             before(r, t) == r.id < t.id \/ (r.id = t.id /\ r.from[2] < t.from[2])
  <2>1. /\ answer \in [1 .. Cardinality(found) -> found] /\ Range(answer) = found
        /\ \A i, j \in DOMAIN answer : i < j => before(answer[i], answer[j])
    BY DEF Query
  <2>2. \A k \in keys : appRows[k] \in Nat
    BY <1>3 DEF InputsOK
  <2>3. ASSUME NEW r
        PROVE  r \in found <=> \E k \in keys : \E n \in 1 .. appRows[k] : r = [id |-> k, from |-> <<b, n>>]
    OBVIOUS
  <2>4. ASSUME NEW r \in found
        PROVE  /\ r \in Row /\ r.id \in keys /\ r.from[1] = b /\ r.from[2] \in Nat
               /\ r.from \in P[r.id] /\ r.id \in Int
    <3>1. PICK k \in keys : \E n \in 1 .. appRows[k] : r = [id |-> k, from |-> <<b, n>>]
      BY <2>3
    <3>2. PICK n \in 1 .. appRows[k] : r = [id |-> k, from |-> <<b, n>>]
      BY <3>1
    <3>3. n \in Nat /\ k \in Id /\ k \in Int
      BY <1>3, <2>2, ParameterAssumption
    <3>4. r.id = k /\ r.from = <<b, n>> /\ r \in Row
      BY <1>1, <3>2, <3>3 DEF Row
    <3>5. r.from \in P[k]
      BY <1>5, <3>3, <3>4
    <3> HIDE DEF P, found
    <3> QED BY <3>3, <3>4, <3>5
  <2>5. IsFiniteSet(found)
    <3> DEFINE F == [k \in keys |-> rowsOf(k)]
    <3>1. ASSUME NEW k \in keys PROVE IsFiniteSet(rowsOf(k))
      <4> DEFINE g == [n \in 1 .. appRows[k] |-> [id |-> k, from |-> <<b, n>>]]
      <4>1. IsFiniteSet(1 .. appRows[k])
        BY <2>2, FiniteParts
      <4>2. Range(g) = rowsOf(k)
        BY DEF Range
      <4>3. g \in [1 .. appRows[k] -> rowsOf(k)]
        OBVIOUS
      <4> HIDE DEF g
      <4> QED BY <4>1, <4>2, <4>3, FiniteRange
    <3> HIDE DEF rowsOf
    <3> DEFINE T == {rowsOf(k) : k \in keys}
    <3>2. \A k \in keys : rowsOf(k) \in T
      OBVIOUS
    <3>3. Range(F) = T
      BY DEF Range
    <3>4. F \in [keys -> T]
      BY <3>2
    <3>5. \A k \in keys : IsFiniteSet(F[k])
      BY <3>1
    <3> HIDE DEF F, T
    <3>6. IsFiniteSet(UNION Range(F))
      BY <1>4, <3>4, <3>5, FiniteUnion
    <3> QED BY <3>3, <3>6 DEF T
  <2>6. Cardinality(found) \in Nat
    BY <2>5, FS_CardinalityType
  <2> HIDE DEF rowsOf, found
  <2>7. answer \in Seq(Row) /\ \A x \in DOMAIN answer : answer[x] \in found /\ x \in Nat
    BY <2>1, <2>4, <2>6
  <2> DEFINE new == InBatches(answer)
  <2>8. /\ new \in Seq(Seq(Row))
        /\ \A x \in DOMAIN answer : \E k \in DOMAIN new : \E i \in DOMAIN new[k] : new[k][i] = answer[x]
        /\ \A k, l \in DOMAIN new : \A i \in DOMAIN new[k], j \in DOMAIN new[l] :
             InFront(k, i, l, j) => At(k, i) < At(l, j)
    BY <2>7, InBatchesFacts
  <2>9. \A k \in DOMAIN new : \A i \in DOMAIN new[k] :
          At(k, i) \in DOMAIN answer /\ new[k][i] = answer[At(k, i)]
    BY <2>7, BatchFacts
  <2> HIDE DEF new, P
  <2>10. InOrder(new)
    <3> SUFFICES ASSUME NEW k \in DOMAIN new, NEW l \in DOMAIN new,
                        NEW i \in DOMAIN new[k], NEW j \in DOMAIN new[l],
                        InFront(k, i, l, j), new[k][i].id \in Id, new[k][i].id = new[l][j].id
                 PROVE  ~UpTo(new[l][j].from, new[k][i].from)
      BY DEF InOrder
    <3>1. /\ At(k, i) \in DOMAIN answer /\ new[k][i] = answer[At(k, i)]
          /\ At(l, j) \in DOMAIN answer /\ new[l][j] = answer[At(l, j)]
      BY <2>9
    <3>2. before(new[k][i], new[l][j])
      BY <2>1, <2>8, <3>1
    <3>3. new[k][i] \in found /\ new[l][j] \in found
      BY <2>7, <3>1
    <3>4. new[k][i].from[2] < new[l][j].from[2]
      BY <2>4, <3>2, <3>3
    <3> HIDE DEF before
    <3>5. /\ new[k][i].from[1] = b /\ new[l][j].from[1] = b /\ b \in Nat
          /\ new[k][i].from[2] \in Nat /\ new[l][j].from[2] \in Nat
      BY <1>1, <2>4, <3>3
    <3> QED BY <3>4, <3>5 DEF UpTo
  <2>11. ASSUME NEW k \in DOMAIN new, NEW i \in DOMAIN new[k]
         PROVE  new[k][i].from \in P[new[k][i].id] /\ new[k][i].from[1] = b
    BY <2>4, <2>7, <2>9
  <2>12. ASSUME NEW id \in Id, NEW p \in P[id], p[1] = b PROVE Listed(new, id, p)
    <3>1. id \in keys /\ \E n \in 1 .. appRows[id] : p = <<b, n>>
      BY <1>5, <2>12
    <3>2. [id |-> id, from |-> p] \in found
      BY <2>3, <3>1
    <3>3. PICK x \in DOMAIN answer : answer[x] = [id |-> id, from |-> p]
      BY <2>1, <3>2 DEF Range
    <3>4. PICK k \in DOMAIN new : \E i \in DOMAIN new[k] : new[k][i] = [id |-> id, from |-> p]
      BY <2>8, <3>3
    <3> QED BY <3>4 DEF Listed
  <2> QED BY <2>8, <2>10, <2>11, <2>12 DEF NextRows, new, b
<1> QED BY <1>6, <1>7 DEF keys, b

----------------------------------------------------------------------------
(* Matching.                                                               *)

\* The place of a match's row of side s, and the number of a match among those
\* of its id.
Place(m, s) == IF s = "label" THEN m.label ELSE m.app
Rank(made, k) == Cardinality({j \in 1 .. k : made[j].id = made[k].id})

\* The number of the row at place p among those of its id.
NumberIn(P, id, p) == Cardinality({q \in P[id] : UpTo(q, p)})

LEMMA SideFacts ==
  ASSUME NEW s \in Side
  PROVE  Other(s) \in Side /\ Other(s) # s /\ \A t \in Side : t = s \/ t = Other(s)
BY DEF Side, Other

LEMMA MadeFacts ==
  ASSUME NEW made \in Seq(MatchRow), NEW id
  PROVE  IsFiniteSet({k \in DOMAIN made : made[k].id = id}) /\ NumMade(made, id) \in Nat
<1> DEFINE of == {k \in DOMAIN made : made[k].id = id}
<1>1. Len(made) \in Nat /\ DOMAIN made = 1 .. Len(made)
  OBVIOUS
<1>2. IsFiniteSet(1 .. Len(made))
  BY <1>1, FiniteParts
<1>3. of \in SUBSET (1 .. Len(made))
  BY <1>1
<1>4. IsFiniteSet(of)
  BY <1>2, <1>3, FS_Subset
<1> QED BY <1>4, FS_CardinalityType DEF NumMade

LEMMA MadeGrows ==
  ASSUME NEW made \in Seq(MatchRow), NEW m \in MatchRow
  PROVE  LET more == Append(made, m) IN
         /\ more \in Seq(MatchRow) /\ DOMAIN more = DOMAIN made \cup {Len(made) + 1}
         /\ more[Len(made) + 1] = m /\ Rank(more, Len(made) + 1) = NumMade(made, m.id) + 1
         /\ \A k \in DOMAIN made : more[k] = made[k] /\ Rank(more, k) = Rank(made, k)
         /\ \A id \in Id :
              /\ NumMade(made, id) \in Nat
              /\ NumMade(more, id) = NumMade(made, id) + (IF id = m.id THEN 1 ELSE 0)
<1> DEFINE more == Append(made, m)
           n == Len(made)
           of(id) == {k \in DOMAIN made : made[k].id = id}
<1>1. /\ more \in Seq(MatchRow) /\ n \in Nat /\ DOMAIN made = 1 .. n /\ DOMAIN more = 1 .. (n + 1)
      /\ more[n + 1] = m /\ \A k \in 1 .. n : more[k] = made[k]
  BY AppendProperties
<1> HIDE DEF more, n
<1>2. \A id : IsFiniteSet(of(id)) /\ Cardinality(of(id)) \in Nat /\ NumMade(made, id) = Cardinality(of(id))
  BY MadeFacts DEF NumMade
<1>3. n + 1 \notin 1 .. n /\ 1 .. (n + 1) = (1 .. n) \cup {n + 1}
  BY <1>1
<1>4. ASSUME NEW id PROVE NumMade(more, id) = NumMade(made, id) + (IF id = m.id THEN 1 ELSE 0)
  <2> DEFINE now == {k \in DOMAIN more : more[k].id = id}
  <2>1. CASE id = m.id
    <3>1. now = of(id) \cup {n + 1} /\ n + 1 \notin of(id)
      BY <1>1, <1>3, <2>1
    <3> HIDE DEF now, of
    <3>2. Cardinality(now) = Cardinality(of(id)) + 1
      BY <1>2, <3>1, FS_AddElement
    <3> QED BY <1>2, <2>1, <3>2 DEF NumMade, now
  <2>2. CASE id # m.id
    <3>1. now = of(id)
      BY <1>1, <1>3, <2>2
    <3>2. NumMade(more, id) = Cardinality(now)
      BY DEF NumMade
    <3> HIDE DEF of, now
    <3>3. NumMade(more, id) = NumMade(made, id) /\ NumMade(made, id) \in Nat
      BY <1>2, <3>1, <3>2
    <3> QED BY <2>2, <3>3
  <2> QED BY <2>1, <2>2
<1>5. ASSUME NEW k \in DOMAIN made PROVE more[k] = made[k] /\ Rank(more, k) = Rank(made, k)
  <2>1. more[k] = made[k] /\ \A j \in 1 .. k : more[j] = made[j]
    BY <1>1
  <2>2. {j \in 1 .. k : more[j].id = more[k].id} = {j \in 1 .. k : made[j].id = made[k].id}
    BY <2>1
  <2> QED BY <2>1, <2>2 DEF Rank
<1>6. Rank(more, n + 1) = NumMade(more, m.id)
  <2>1. {j \in 1 .. (n + 1) : more[j].id = more[n + 1].id} = {k \in DOMAIN more : more[k].id = m.id}
    BY <1>1
  <2> QED BY <2>1 DEF Rank, NumMade
<1>7. NumMade(more, m.id) = NumMade(made, m.id) + 1
  BY <1>4
<1> HIDE DEF of
<1> QED BY <1>1, <1>2, <1>3, <1>4, <1>5, <1>6, <1>7 DEF more, n

\* What the combiner knows of the rows it has processed, n[s][id] of them from
\* each side: they are joined or wait, the ones that wait come after the joined
\* ones and in their order, only one side has any, and pairs are in order.
CombinerOK(PP, n, made, w) ==
  /\ made \in Seq(MatchRow) /\ w \in [Side -> [Id -> Seq(Row)]]
  /\ \A s \in Side, id \in Id : n[s][id] = NumMade(made, id) + Len(w[s][id])
  /\ \A s \in Side, id \in Id : \A i \in DOMAIN w[s][id] :
       /\ w[s][id][i].from \in PP[s][id]
       /\ NumberIn(PP[s], id, w[s][id][i].from) = NumMade(made, id) + i
  /\ \A id \in Id : \E s \in Side : w[s][id] = <<>>
  /\ \A k \in DOMAIN made : \A s \in Side :
       /\ Place(made[k], s) \in PP[s][made[k].id]
       /\ NumberIn(PP[s], made[k].id, Place(made[k], s)) = Rank(made, k)

\* The next row of an id from side s, and one more is processed.
Arrives(PP, n, n2, s, row) ==
  /\ row \in Row /\ row.id \in Id /\ row.from \in PP[s][row.id]
  /\ NumberIn(PP[s], row.id, row.from) = n[s][row.id] + 1
  /\ \A t \in Side, id \in Id : n2[t][id] = n[t][id] + (IF t = s /\ id = row.id THEN 1 ELSE 0)

\* It is matched with the row that has waited longest.
LEMMA MatchKeeps ==
  ASSUME NEW PP, NEW n, NEW n2, NEW made, NEW w, CombinerOK(PP, n, made, w),
         NEW s \in Side, NEW row, Arrives(PP, n, n2, s, row),
         w[Other(s)][row.id] # <<>>
  PROVE  LET partner == Head(w[Other(s)][row.id])
             m == Match(s, row, partner)
         IN  /\ m \in MatchRow /\ m.id = row.id /\ w[s][row.id] = <<>>
             /\ CombinerOK(PP, n2, Append(made, m), [w EXCEPT ![Other(s)][row.id] = Tail(@)])
<1> DEFINE o == Other(s)
           id == row.id
           q == w[o][id]
           m == Match(s, row, Head(q))
           more == Append(made, m)
           w2 == [w EXCEPT ![o][id] = Tail(@)]
<1>1. o \in Side /\ o # s /\ \A t \in Side : t = s \/ t = o
  BY SideFacts
<1>2. id \in Id /\ row \in Row /\ row.from \in PP[s][id] /\ row.from \in Nat \X Nat
  BY DEF Arrives, Row
<1>3. /\ made \in Seq(MatchRow) /\ w \in [Side -> [Id -> Seq(Row)]]
      /\ \A t \in Side, x \in Id : n[t][x] = NumMade(made, x) + Len(w[t][x])
  BY DEF CombinerOK
<1>4. q \in Seq(Row) /\ q # <<>>
  BY <1>1, <1>2, <1>3
<1> HIDE DEF q, id, o
<1>5. /\ Head(q) \in Row /\ Head(q) = q[1] /\ Len(q) \in Nat \ {0} /\ DOMAIN q = 1 .. Len(q)
      /\ Tail(q) \in Seq(Row) /\ Len(Tail(q)) = Len(q) - 1 /\ DOMAIN Tail(q) = 1 .. (Len(q) - 1)
      /\ \A i \in 1 .. (Len(q) - 1) : Tail(q)[i] = q[i + 1]
  BY <1>4, HeadTailProperties
<1>6. /\ m \in MatchRow /\ m.id = id
      /\ Place(m, s) = row.from /\ Place(m, o) = Head(q).from
  <2>1. row = [id |-> row.id, from |-> row.from] /\ Head(q).from \in Nat \X Nat
    BY <1>2, <1>5 DEF Row
  <2>2. CASE s = "label"
    <3>1. o # "label"
      BY <1>1, <2>2
    <3>2. m = [id |-> id, label |-> row.from, app |-> Head(q).from]
      BY <2>2 DEF Match, id
    <3> QED BY <1>2, <2>1, <2>2, <3>1, <3>2 DEF MatchRow, Place
  <2>3. CASE s # "label"
    <3>1. o = "label"
      BY <1>1, <2>3 DEF Side
    <3>2. m = [id |-> id, label |-> Head(q).from, app |-> row.from]
      BY <2>3 DEF Match, id
    <3> QED BY <1>2, <2>1, <2>3, <3>1, <3>2 DEF MatchRow, Place
  <2> QED BY <2>2, <2>3
<1> HIDE DEF m
<1>7. /\ more \in Seq(MatchRow) /\ DOMAIN more = DOMAIN made \cup {Len(made) + 1}
      /\ more[Len(made) + 1] = m /\ Rank(more, Len(made) + 1) = NumMade(made, id) + 1
      /\ \A k \in DOMAIN made : more[k] = made[k] /\ Rank(more, k) = Rank(made, k)
      /\ \A x \in Id : /\ NumMade(made, x) \in Nat
                       /\ NumMade(more, x) = NumMade(made, x) + (IF x = id THEN 1 ELSE 0)
  BY <1>3, <1>6, MadeGrows
<1> HIDE DEF more
<1>8. w[s][id] = <<>>
  <2>1. \E t \in Side : w[t][id] = <<>>
    BY <1>2 DEF CombinerOK
  <2> QED BY <1>1, <1>4, <2>1 DEF q
<1>9. /\ w2 \in [Side -> [Id -> Seq(Row)]] /\ w2[o][id] = Tail(q)
      /\ \A t \in Side, x \in Id : t # o \/ x # id => w2[t][x] = w[t][x]
  BY <1>1, <1>2, <1>3, <1>5 DEF q
<1> HIDE DEF w2
<1>10. Len(<<>>) = 0 /\ \A t \in Side, x \in Id : Len(w[t][x]) \in Nat
  BY <1>3
<1>11. ASSUME NEW t \in Side, NEW x \in Id
       PROVE  n2[t][x] = NumMade(more, x) + Len(w2[t][x])
  <2>1. n2[t][x] = n[t][x] + (IF t = s /\ x = id THEN 1 ELSE 0)
    BY DEF Arrives, id
  <2>2. n[t][x] = NumMade(made, x) + Len(w[t][x]) /\ NumMade(made, x) \in Nat /\ Len(w[t][x]) \in Nat
    BY <1>3, <1>7, <1>10
  <2>3. NumMade(more, x) = NumMade(made, x) + (IF x = id THEN 1 ELSE 0)
    BY <1>7
  <2>4. CASE x # id
    BY <1>9, <2>1, <2>2, <2>3, <2>4
  <2>5. CASE x = id /\ t = s
    <3>1. w2[t][x] = w[t][x]
      BY <1>1, <1>9, <2>5
    <3> QED BY <2>1, <2>2, <2>3, <2>5, <3>1
  <2>6. CASE x = id /\ t = o
    <3>1. Len(w2[t][x]) = Len(w[t][x]) - 1
      BY <1>5, <1>9, <2>6 DEF q
    <3> QED BY <1>1, <2>1, <2>2, <2>3, <2>6, <3>1
  <2> QED BY <1>1, <2>4, <2>5, <2>6
<1>12. ASSUME NEW t \in Side, NEW x \in Id, NEW i \in DOMAIN w2[t][x]
       PROVE  /\ w2[t][x][i].from \in PP[t][x]
              /\ NumberIn(PP[t], x, w2[t][x][i].from) = NumMade(more, x) + i
  <2>1. CASE x # id
    <3>1. w2[t][x] = w[t][x] /\ NumMade(more, x) = NumMade(made, x) + 0 /\ NumMade(made, x) \in Nat
      BY <1>7, <1>9, <2>1
    <3>2. NumMade(more, x) = NumMade(made, x)
      BY <3>1
    <3> QED BY <3>1, <3>2 DEF CombinerOK
  <2>2. CASE x = id /\ t = s
    <3>1. w2[t][x] = <<>>
      BY <1>1, <1>8, <1>9, <2>2
    <3> QED BY <3>1
  <2>3. CASE x = id /\ t = o
    <3>1. i \in 1 .. (Len(q) - 1) /\ w2[t][x][i] = q[i + 1]
      BY <1>5, <1>9, <2>3
    <3>2. i + 1 \in DOMAIN q
      BY <1>5, <3>1
    <3>3. q[i + 1].from \in PP[t][x] /\ NumberIn(PP[t], x, q[i + 1].from) = NumMade(made, x) + (i + 1)
      BY <2>3, <3>2 DEF CombinerOK, q
    <3>4. NumMade(more, x) = NumMade(made, x) + 1 /\ NumMade(made, x) \in Nat
      BY <1>7, <2>3
    <3> QED BY <3>1, <3>3, <3>4
  <2> QED BY <1>1, <2>1, <2>2, <2>3
<1>13. ASSUME NEW x \in Id PROVE \E t \in Side : w2[t][x] = <<>>
  <2>1. CASE x = id
    BY <1>1, <1>8, <1>9, <2>1
  <2>2. CASE x # id
    <3>1. \E t \in Side : w[t][x] = <<>>
      BY DEF CombinerOK
    <3> QED BY <1>9, <2>2, <3>1
  <2> QED BY <2>1, <2>2
<1>14. ASSUME NEW k \in DOMAIN more, NEW t \in Side
       PROVE  /\ Place(more[k], t) \in PP[t][more[k].id]
              /\ NumberIn(PP[t], more[k].id, Place(more[k], t)) = Rank(more, k)
  <2>1. CASE k \in DOMAIN made
    <3>1. more[k] = made[k] /\ Rank(more, k) = Rank(made, k)
      BY <1>7, <2>1
    <3> QED BY <2>1, <3>1 DEF CombinerOK
  <2>2. CASE k = Len(made) + 1
    <3>1. more[k] = m /\ more[k].id = id /\ Rank(more, k) = NumMade(made, id) + 1 /\ NumMade(made, id) \in Nat
      BY <1>2, <1>6, <1>7, <2>2
    <3>2. CASE t = s
      <4>1. n[s][id] = NumMade(made, id) + 0
        BY <1>2, <1>3, <1>8, <1>10
      <4>2. NumberIn(PP[s], id, row.from) = n[s][id] + 1
        BY DEF Arrives, id
      <4> QED BY <1>2, <1>6, <3>1, <3>2, <4>1, <4>2
    <3>3. CASE t = o
      <4>1. 1 \in DOMAIN q
        BY <1>5
      <4>2. q[1].from \in PP[o][id] /\ NumberIn(PP[o], id, q[1].from) = NumMade(made, id) + 1
        BY <1>1, <1>2, <4>1 DEF CombinerOK, q
      <4> QED BY <1>5, <1>6, <3>1, <3>3, <4>2
    <3> QED BY <1>1, <3>2, <3>3
  <2> QED BY <1>7, <2>1, <2>2
<1>15. CombinerOK(PP, n2, more, w2)
  BY <1>7, <1>9, <1>11, <1>12, <1>13, <1>14 DEF CombinerOK
<1> QED BY <1>6, <1>8, <1>15 DEF more, w2, m, q, id, o

\* No row of the other side waits for it: it waits itself.
LEMMA WaitKeeps ==
  ASSUME NEW PP, NEW n, NEW n2, NEW made, NEW w, CombinerOK(PP, n, made, w),
         NEW s \in Side, NEW row, Arrives(PP, n, n2, s, row),
         w[Other(s)][row.id] = <<>>
  PROVE  CombinerOK(PP, n2, made, [w EXCEPT ![s][row.id] = Wait(@, row)])
<1> DEFINE o == Other(s)
           id == row.id
           q == w[s][id]
           w2 == [w EXCEPT ![s][id] = Append(@, row)]
<1>1. o \in Side /\ o # s /\ \A t \in Side : t = s \/ t = o
  BY SideFacts
<1>2. id \in Id /\ row \in Row /\ row.from \in PP[s][id]
  BY DEF Arrives
<1>3. /\ made \in Seq(MatchRow) /\ w \in [Side -> [Id -> Seq(Row)]]
      /\ \A t \in Side, x \in Id : n[t][x] = NumMade(made, x) + Len(w[t][x])
  BY DEF CombinerOK
<1>4. q \in Seq(Row)
  BY <1>2, <1>3
<1>5. \A x : NumMade(made, x) \in Nat
  BY <1>3, MadeFacts
<1> HIDE DEF q, id, o
<1>6. /\ Append(q, row) \in Seq(Row) /\ Len(Append(q, row)) = Len(q) + 1 /\ Len(q) \in Nat
      /\ DOMAIN q = 1 .. Len(q) /\ DOMAIN Append(q, row) = 1 .. (Len(q) + 1)
      /\ Append(q, row)[Len(q) + 1] = row
      /\ \A i \in 1 .. Len(q) : Append(q, row)[i] = q[i]
  <2>1. /\ Append(q, row) \in Seq(Row) /\ Len(Append(q, row)) = Len(q) + 1
        /\ Append(q, row)[Len(q) + 1] = row
        /\ \A i \in 1 .. Len(q) : Append(q, row)[i] = q[i]
    BY <1>2, <1>4, AppendProperties
  <2> QED BY <1>4, <2>1
<1>7. /\ w2 \in [Side -> [Id -> Seq(Row)]] /\ w2[s][id] = Append(q, row)
      /\ \A t \in Side, x \in Id : t # s \/ x # id => w2[t][x] = w[t][x]
  BY <1>2, <1>3, <1>6 DEF q
<1> HIDE DEF w2
<1>8. \A t \in Side, x \in Id : Len(w[t][x]) \in Nat
  BY <1>3
<1>9. ASSUME NEW t \in Side, NEW x \in Id
      PROVE  n2[t][x] = NumMade(made, x) + Len(w2[t][x])
  <2>1. n2[t][x] = n[t][x] + (IF t = s /\ x = id THEN 1 ELSE 0)
    BY DEF Arrives, id
  <2>2. n[t][x] = NumMade(made, x) + Len(w[t][x]) /\ NumMade(made, x) \in Nat /\ Len(w[t][x]) \in Nat
    BY <1>3, <1>5, <1>8
  <2>3. CASE t = s /\ x = id
    <3>1. w2[t][x] = Append(q, row)
      BY <1>7, <2>3
    <3>2. w[t][x] = q
      BY <2>3 DEF q
    <3> QED BY <1>6, <2>1, <2>2, <2>3, <3>1, <3>2
  <2>4. CASE ~(t = s /\ x = id)
    <3>1. w2[t][x] = w[t][x]
      BY <1>7, <2>4
    <3> QED BY <2>1, <2>2, <2>4, <3>1
  <2> QED BY <2>3, <2>4
<1>10. ASSUME NEW t \in Side, NEW x \in Id, NEW i \in DOMAIN w2[t][x]
       PROVE  /\ w2[t][x][i].from \in PP[t][x]
              /\ NumberIn(PP[t], x, w2[t][x][i].from) = NumMade(made, x) + i
  <2>1. CASE ~(t = s /\ x = id)
    <3>1. w2[t][x] = w[t][x]
      BY <1>7, <2>1
    <3> QED BY <3>1 DEF CombinerOK
  <2>2. CASE t = s /\ x = id /\ i \in DOMAIN q
    <3>1. w2[t][x][i] = q[i]
      BY <1>6, <1>7, <2>2
    <3> QED BY <2>2, <3>1 DEF CombinerOK, q
  <2>3. CASE t = s /\ x = id /\ i = Len(q) + 1
    <3>1. w2[t][x][i] = row
      BY <1>6, <1>7, <2>3
    <3>2. n[s][id] = NumMade(made, id) + Len(q) /\ NumberIn(PP[s], id, row.from) = n[s][id] + 1
      BY <1>2, <1>3 DEF Arrives, id, q
    <3>3. NumMade(made, id) \in Nat
      BY <1>2, <1>5
    <3> QED BY <1>2, <1>6, <2>3, <3>1, <3>2, <3>3
  <2>4. ASSUME t = s, x = id PROVE i \in DOMAIN q \/ i = Len(q) + 1
    <3>1. i \in 1 .. (Len(q) + 1)
      BY <1>6, <1>7, <2>4
    <3> QED BY <1>6, <3>1
  <2> QED BY <2>1, <2>2, <2>3, <2>4
<1>11. ASSUME NEW x \in Id PROVE \E t \in Side : w2[t][x] = <<>>
  <2>1. CASE x = id
    <3>1. w2[o][x] = <<>>
      BY <1>1, <1>2, <1>7, <2>1 DEF o, id
    <3> QED BY <1>1, <3>1
  <2>2. CASE x # id
    <3>1. \E t \in Side : w[t][x] = <<>>
      BY DEF CombinerOK
    <3> QED BY <1>7, <2>2, <3>1
  <2> QED BY <2>1, <2>2
<1>12. CombinerOK(PP, n2, made, w2)
  BY <1>3, <1>7, <1>9, <1>10, <1>11 DEF CombinerOK
<1> QED BY <1>12 DEF w2, id, Wait

----------------------------------------------------------------------------
(* The invariant.                                                          *)

\* The rows still to be processed of a side are those of the batch in hand and
\* of the batches on its edge.
Queue(s) == IF side = s THEN <<rows>> \o edge[s] ELSE edge[s]

\* The batches of the source whose rows have been put on an edge.
Fetched(s) == IF s = "label" THEN sent ELSE looked

AllPlaces == [s \in Side |-> PlacesOf(s)]

\* How many rows of each id the combiner has processed.
NumProcessed(s, id) == Cardinality(Processed(PlacesOf(s), Queue(s), Fetched(s), id))
Counts == [s \in Side |-> [id \in Id |-> NumProcessed(s, id)]]

TypeInv ==
  /\ InputsOK
  /\ sent \in 0 .. Len(labels) /\ looked \in 0 .. sent
  /\ edge \in [Side -> Seq(Seq(Row))] /\ side \in Side \cup {"none"} /\ rows \in Seq(Row)
  /\ results \in Seq(MatchRow) /\ matches \in Seq(MatchRow)
  /\ side = "none" => rows = <<>> /\ matches = <<>>

QueueInv == \A s \in Side : QueueOK(PlacesOf(s), Queue(s), Fetched(s))

MatchInv == CombinerOK(AllPlaces, Counts, Made, pending)

EndInv ==
  finished =>
    /\ sent = Len(labels) /\ looked = sent /\ side = "none"
    /\ edge = [s \in Side |-> <<>>] /\ unmatched = [s \in Side |-> NumPending(s)]

LookupInv == TypeInv /\ QueueInv /\ MatchInv /\ EndInv

----------------------------------------------------------------------------
LEMMA PlacesStay ==
  ASSUME UNCHANGED inputs
  PROVE  (\A s : PlacesOf(s)' = PlacesOf(s)) /\ AllPlaces' = AllPlaces
<1>1. \A s, id : Places(s, id)' = Places(s, id)
  BY DEF inputs, Places
<1>2. \A s : PlacesOf(s)' = PlacesOf(s)
  BY <1>1 DEF PlacesOf
<1> QED BY <1>2 DEF AllPlaces

\* A step that leaves the combiner's rows alone, and changes at most queues that
\* it has not processed.
LEMMA QuietStep ==
  ASSUME LookupInv, UNCHANGED inputs, Made' = Made, pending' = pending,
         \A s \in Side :
           /\ QueueOK(PlacesOf(s), Queue(s)', Fetched(s)')
           /\ \A id \in Id : Processed(PlacesOf(s), Queue(s)', Fetched(s)', id)
                               = Processed(PlacesOf(s), Queue(s), Fetched(s), id)
  PROVE  QueueInv' /\ MatchInv' /\ Counts' = Counts
<1>1. (\A s : PlacesOf(s)' = PlacesOf(s)) /\ AllPlaces' = AllPlaces
  BY PlacesStay
<1>2. QueueInv'
  BY <1>1 DEF QueueInv
<1>3. \A s \in Side, id \in Id : NumProcessed(s, id)' = NumProcessed(s, id)
  BY <1>1 DEF NumProcessed
<1>4. Counts' = Counts
  BY <1>3 DEF Counts
<1>5. MatchInv'
  BY <1>1, <1>4 DEF LookupInv, MatchInv
<1> QED BY <1>2, <1>4, <1>5

LEMMA BatchThenQueue ==
  ASSUME NEW b \in Seq(Row), NEW q \in Seq(Seq(Row)), NEW new \in Seq(Seq(Row))
  PROVE  (<<b>> \o q) \o new = <<b>> \o (q \o new)
<1> DEFINE e == <<b>>
<1>1. e \in Seq(Seq(Row))
  OBVIOUS
<1> HIDE DEF e
<1>2. (e \o q) \o new = e \o (q \o new)
  BY <1>1, ConcatAssociative, SMTT(30)
<1> QED BY <1>2 DEF e

LEMMA LookupInvInit == Init => LookupInv
<1> SUFFICES ASSUME Init PROVE LookupInv
  OBVIOUS
<1>1. InputsOK
  <2>1. labels \in Seq(IdColumn)
    <3>1. PICK n \in 0 .. MaxBatches : labels \in [1 .. n -> IdColumn]
      BY DEF Init
    <3>2. n \in Nat
      BY ParameterAssumption
    <3> QED BY <3>1, <3>2
  <2>2. appRows \in [Id -> 0 .. MaxAppRows] /\ MaxAppRows \in Nat
    BY ParameterAssumption DEF Init
  <2> QED BY <2>1, <2>2 DEF InputsOK
<1>2. TypeInv
  <2>1. Len(labels) \in Nat
    BY <1>1 DEF InputsOK
  <2> QED BY <1>1, <2>1 DEF Init, TypeInv, Side
<1>3. \A s \in Side : Queue(s) = <<>> /\ Fetched(s) = 0
  BY DEF Init, Queue, Fetched, Side
<1>4. Made = <<>> /\ Made \in Seq(MatchRow) /\ DOMAIN Made = {}
  BY DEF Init, Made
<1>5. ASSUME NEW s \in Side
      PROVE  /\ QueueOK(PlacesOf(s), <<>>, 0)
             /\ \A id \in Id : Processed(PlacesOf(s), <<>>, 0, id) = {}
  <2>1. \A id \in Id : \A p \in PlacesOf(s)[id] : p[1] \in 1 .. Len(labels) /\ Len(labels) \in Nat
    BY <1>1, PlacesFacts DEF InputsOK
  <2>2. \A id \in Id : Processed(PlacesOf(s), <<>>, 0, id) = {}
    BY <2>1 DEF Processed
  <2>3. <<>> \in Seq(Seq(Row)) /\ DOMAIN <<>> = {}
    OBVIOUS
  <2> QED BY <2>2, <2>3 DEF QueueOK, IsQueue, InOrder, InFrontOf
<1>6. QueueInv
  BY <1>3, <1>5 DEF QueueInv
<1>7. \A s \in Side, id \in Id : Counts[s][id] = 0
  <2>1. \A s \in Side, id \in Id : NumProcessed(s, id) = 0
    BY <1>3, <1>5, FS_EmptySet DEF NumProcessed
  <2> QED BY <2>1 DEF Counts
<1>8. \A id : NumMade(Made, id) = 0
  BY <1>4, FS_EmptySet DEF NumMade
<1>9. MatchInv
  <2>1. pending \in [Side -> [Id -> Seq(Row)]] /\ \A s \in Side, id \in Id : pending[s][id] = <<>>
    BY DEF Init
  <2>2. \A s \in Side, id \in Id : Len(pending[s][id]) = 0 /\ DOMAIN pending[s][id] = {}
    BY <2>1
  <2>3. "label" \in Side
    BY DEF Side
  <2>4. \A s \in Side, id \in Id : Counts[s][id] = NumMade(Made, id) + Len(pending[s][id])
    BY <1>7, <1>8, <2>2
  <2>5. \A id \in Id : \E s \in Side : pending[s][id] = <<>>
    BY <2>1, <2>3
  <2> QED BY <1>4, <2>1, <2>2, <2>4, <2>5 DEF MatchInv, CombinerOK
<1>10. EndInv
  BY DEF Init, EndInv
<1> QED BY <1>2, <1>6, <1>9, <1>10 DEF LookupInv

\* The source's next batch joins the edge of label rows.
LEMMA SourceSendsKeeps ==
  ASSUME LookupInv, SourceSends
  PROVE  LookupInv' /\ Counts' = Counts /\ Made' = Made /\ pending' = pending
<1> DEFINE f == sent
           new == <<LabelBatch(f + 1)>>
           P == PlacesOf("label")
           q == Queue("label")
<1>1. /\ InputsOK /\ sent \in Nat /\ sent + 1 \in DOMAIN labels /\ looked \in 0 .. sent
      /\ Len(labels) \in Nat /\ sent + 1 <= Len(labels)
      /\ edge \in [Side -> Seq(Seq(Row))] /\ rows \in Seq(Row)
  BY DEF LookupInv, TypeInv, InputsOK, SourceSends
<1>2. "label" \in Side /\ "app" \in Side /\ \A s \in Side : s = "label" \/ s = "app"
  BY DEF Side
<1>3. LabelBatch(f + 1) \in Seq(Row) /\ NextRows(P, new, f)
  BY <1>1, LabelRows
<1>4. edge["label"] \in Seq(Seq(Row)) /\ <<rows>> \in Seq(Seq(Row)) /\ new \in Seq(Seq(Row))
  BY <1>1, <1>2, <1>3
<1>5. Append(edge["label"], LabelBatch(f + 1)) = edge["label"] \o new
  BY <1>3, <1>4, AppendIsConcat
<1> HIDE DEF new
<1>6. /\ edge' = [edge EXCEPT !["label"] = edge["label"] \o new] /\ side' = side /\ rows' = rows
      /\ sent' = sent + 1 /\ looked' = looked
  BY <1>5 DEF SourceSends
<1>7. edge'["label"] = edge["label"] \o new /\ edge'["app"] = edge["app"]
  BY <1>1, <1>2, <1>6
<1>8. Queue("label")' = q \o new
  <2>1. (<<rows>> \o edge["label"]) \o new = <<rows>> \o (edge["label"] \o new)
    BY <1>1, <1>4, BatchThenQueue
  <2> QED BY <1>6, <1>7, <2>1 DEF Queue
<1>9. Queue("app")' = Queue("app") /\ Fetched("app")' = Fetched("app")
      /\ Fetched("label") = f /\ Fetched("label")' = f + 1
  BY <1>6, <1>7 DEF Queue, Fetched
<1>10. ArePlaces(P) /\ QueueOK(P, q, f)
  BY <1>1, <1>2, <1>9, PlacesFacts DEF LookupInv, QueueInv
<1>11. /\ QueueOK(P, q \o new, f + 1)
       /\ \A id \in Id : Processed(P, q \o new, f + 1, id) = Processed(P, q, f, id)
  BY <1>1, <1>3, <1>10, QueueGrows DEF NextRows
<1>12. UNCHANGED inputs /\ Made' = Made /\ pending' = pending
  BY DEF SourceSends, Made
<1> HIDE DEF P, q, f
<1>13. QueueInv' /\ MatchInv' /\ Counts' = Counts
  <2>1. ASSUME NEW s \in Side
        PROVE  /\ QueueOK(PlacesOf(s), Queue(s)', Fetched(s)')
               /\ \A id \in Id : Processed(PlacesOf(s), Queue(s)', Fetched(s)', id)
                                   = Processed(PlacesOf(s), Queue(s), Fetched(s), id)
    <3>1. CASE s = "label"
      BY <1>8, <1>9, <1>11, <3>1 DEF P, q
    <3>2. CASE s = "app"
      BY <1>9, <3>2 DEF LookupInv, QueueInv
    <3> QED BY <1>2, <3>1, <3>2
  <2> QED BY <1>12, <2>1, QuietStep
<1>14. TypeInv'
  <2>1. edge' \in [Side -> Seq(Seq(Row))]
    BY <1>1, <1>2, <1>4, <1>6
  <2>2. /\ sent' \in 0 .. Len(labels) /\ looked' \in 0 .. sent'
    BY <1>1, <1>6
  <2> QED BY <1>6, <2>1, <2>2 DEF LookupInv, TypeInv, InputsOK, SourceSends, inputs
<1>15. EndInv'
  <2>1. finished' = finished /\ finished = FALSE
    BY DEF SourceSends, LookupInv, TypeInv, EndInv
  <2> QED BY <2>1 DEF EndInv
<1> QED BY <1>12, <1>13, <1>14, <1>15 DEF LookupInv

\* The lookup's answer for its next batch joins the edge of app rows.
LEMMA LookupProcessKeeps ==
  ASSUME LookupInv, LookupProcess
  PROVE  LookupInv' /\ Counts' = Counts /\ Made' = Made /\ pending' = pending
<1> DEFINE f == looked
           keys == LookupKeys(labels[f + 1])
           P == PlacesOf("app")
           q == Queue("app")
<1>1. /\ InputsOK /\ looked \in Nat /\ looked + 1 \in DOMAIN labels /\ sent \in 0 .. Len(labels)
      /\ Len(labels) \in Nat /\ looked + 1 <= sent
      /\ edge \in [Side -> Seq(Seq(Row))] /\ rows \in Seq(Row)
  BY DEF LookupInv, TypeInv, InputsOK, LookupProcess
<1>2. "label" \in Side /\ "app" \in Side /\ \A s \in Side : s = "label" \/ s = "app"
  BY DEF Side
<1>3. edge["app"] \in Seq(Seq(Row)) /\ <<rows>> \in Seq(Seq(Row))
  BY <1>1, <1>2
<1>4. PICK new : NextRows(P, new, f) /\ edge' = [edge EXCEPT !["app"] = edge["app"] \o new]
  <2>1. CASE keys = {}
    <3>1. NextRows(P, <<>>, f)
      BY <1>1, <2>1, AppRows
    <3>2. edge' = edge
      BY <2>1 DEF LookupProcess
    <3>3. edge["app"] \o <<>> = edge["app"]
      BY <1>3
    <3>4. edge = [edge EXCEPT !["app"] = edge["app"]]
      BY <1>1, <1>2
    <3> HIDE DEF P
    <3> QED BY <3>1, <3>2, <3>3, <3>4
  <2>2. CASE keys # {}
    <3>1. PICK answer \in Query(f + 1, keys) :
            edge' = [edge EXCEPT !["app"] = edge["app"] \o InBatches(answer)]
      BY <2>2 DEF LookupProcess
    <3>2. NextRows(P, InBatches(answer), f)
      BY <1>1, AppRows
    <3> HIDE DEF P
    <3> QED BY <3>1, <3>2
  <2> QED BY <2>1, <2>2
<1>5. new \in Seq(Seq(Row))
  BY <1>4 DEF NextRows
<1>6. side' = side /\ rows' = rows /\ sent' = sent /\ looked' = looked + 1
  BY DEF LookupProcess
<1>7. edge'["app"] = edge["app"] \o new /\ edge'["label"] = edge["label"]
  BY <1>1, <1>2, <1>4
<1>8. Queue("app")' = q \o new
  <2>1. (<<rows>> \o edge["app"]) \o new = <<rows>> \o (edge["app"] \o new)
    BY <1>1, <1>3, <1>5, BatchThenQueue
  <2> QED BY <1>6, <1>7, <2>1 DEF Queue
<1>9. /\ Queue("label")' = Queue("label") /\ Fetched("label")' = Fetched("label")
      /\ Fetched("app") = f /\ Fetched("app")' = f + 1
  BY <1>6, <1>7 DEF Queue, Fetched
<1>10. ArePlaces(P) /\ QueueOK(P, q, f)
  BY <1>1, <1>2, <1>9, PlacesFacts DEF LookupInv, QueueInv
<1>11. /\ QueueOK(P, q \o new, f + 1)
       /\ \A id \in Id : Processed(P, q \o new, f + 1, id) = Processed(P, q, f, id)
  BY <1>1, <1>4, <1>10, QueueGrows DEF NextRows
<1>12. UNCHANGED inputs /\ Made' = Made /\ pending' = pending
  BY DEF LookupProcess, Made
<1> HIDE DEF P, q, f
<1>13. QueueInv' /\ MatchInv' /\ Counts' = Counts
  <2>1. ASSUME NEW s \in Side
        PROVE  /\ QueueOK(PlacesOf(s), Queue(s)', Fetched(s)')
               /\ \A id \in Id : Processed(PlacesOf(s), Queue(s)', Fetched(s)', id)
                                   = Processed(PlacesOf(s), Queue(s), Fetched(s), id)
    <3>1. CASE s = "app"
      BY <1>8, <1>9, <1>11, <3>1 DEF P, q
    <3>2. CASE s = "label"
      BY <1>9, <3>2 DEF LookupInv, QueueInv
    <3> QED BY <1>2, <3>1, <3>2
  <2> QED BY <1>12, <2>1, QuietStep
<1>14. TypeInv'
  <2>1. edge' \in [Side -> Seq(Seq(Row))]
    BY <1>1, <1>2, <1>3, <1>4, <1>5
  <2>2. looked' \in 0 .. sent'
    BY <1>1, <1>6
  <2> QED BY <1>1, <1>6, <2>1, <2>2 DEF LookupInv, TypeInv, InputsOK, LookupProcess, inputs
<1>15. EndInv'
  <2>1. finished' = finished /\ finished = FALSE
    BY DEF LookupProcess, LookupInv, TypeInv, EndInv
  <2> QED BY <2>1 DEF EndInv
<1> QED BY <1>12, <1>13, <1>14, <1>15 DEF LookupInv

\* The batch taken is still in front of what is left on its edge.
LEMMA TakeBatchKeeps ==
  ASSUME LookupInv, NEW s \in Side, TakeBatch(s)
  PROVE  LookupInv' /\ Counts' = Counts /\ Made' = Made /\ pending' = pending
<1>1. /\ edge \in [Side -> Seq(Seq(Row))] /\ side = "none" /\ rows = <<>> /\ matches = <<>>
      /\ results \in Seq(MatchRow) /\ s # "none"
  BY DEF LookupInv, TypeInv, TakeBatch, Side
<1>2. edge[s] \in Seq(Seq(Row)) /\ edge[s] # <<>>
  BY <1>1 DEF TakeBatch
<1>3. /\ Head(edge[s]) \in Seq(Row) /\ Tail(edge[s]) \in Seq(Seq(Row))
      /\ <<Head(edge[s])>> \o Tail(edge[s]) = edge[s]
  BY <1>2
<1>4. /\ side' = s /\ rows' = Head(edge[s]) /\ edge' = [edge EXCEPT ![s] = Tail(@)]
      /\ matches' = <<>> /\ results' = results /\ UNCHANGED <<inputs, sent, looked, pending, finished>>
  BY DEF TakeBatch
<1>5. edge'[s] = Tail(edge[s]) /\ \A t \in Side : t # s => edge'[t] = edge[t]
  BY <1>1, <1>4
<1>6. Made' = Made
  BY <1>1, <1>4 DEF Made
<1>7. ASSUME NEW t \in Side PROVE Queue(t)' = Queue(t) /\ Fetched(t)' = Fetched(t)
  <2>1. Queue(t) = edge[t]
    BY <1>1 DEF Queue, Side
  <2>2. CASE t = s
    BY <1>3, <1>4, <1>5, <2>1, <2>2 DEF Queue, Fetched
  <2>3. CASE t # s
    BY <1>4, <1>5, <2>1, <2>3 DEF Queue, Fetched
  <2> QED BY <2>2, <2>3
<1>8. QueueInv' /\ MatchInv' /\ Counts' = Counts
  BY <1>4, <1>6, <1>7, QuietStep DEF LookupInv, QueueInv
<1>9. TypeInv'
  <2>1. edge' \in [Side -> Seq(Seq(Row))]
    BY <1>1, <1>3, <1>4
  <2> QED BY <1>1, <1>3, <1>4, <2>1 DEF LookupInv, TypeInv, InputsOK, inputs
<1>10. EndInv'
  <2>1. finished = FALSE
    BY <1>2 DEF LookupInv, EndInv
  <2> QED BY <1>4, <2>1 DEF EndInv
<1> QED BY <1>4, <1>6, <1>8, <1>9, <1>10 DEF LookupInv

\* The batch in hand has no rows left.
LEMMA SendMatchesKeeps ==
  ASSUME LookupInv, SendMatches
  PROVE  LookupInv' /\ Counts' = Counts /\ Made' = Made /\ pending' = pending
<1>1. /\ edge \in [Side -> Seq(Seq(Row))] /\ side \in Side /\ rows = <<>>
      /\ results \in Seq(MatchRow) /\ matches \in Seq(MatchRow) /\ sent \in Nat /\ looked \in Nat
  BY DEF LookupInv, TypeInv, InputsOK, SendMatches
<1>2. /\ results' = results \o matches /\ matches' = <<>> /\ side' = "none"
      /\ UNCHANGED <<inputs, sent, looked, edge, rows, pending, finished>>
  BY DEF SendMatches
<1>3. Made' = Made /\ results' \in Seq(MatchRow)
  BY <1>1, <1>2 DEF Made
<1>4. \A t \in Side : Queue(t)' = edge[t] /\ Fetched(t)' = Fetched(t)
  BY <1>2 DEF Queue, Fetched, Side
<1>5. ASSUME NEW t \in Side
      PROVE  /\ QueueOK(PlacesOf(t), Queue(t)', Fetched(t)')
             /\ \A id \in Id : Processed(PlacesOf(t), Queue(t)', Fetched(t)', id)
                                 = Processed(PlacesOf(t), Queue(t), Fetched(t), id)
  <2>1. QueueOK(PlacesOf(t), Queue(t), Fetched(t))
    BY DEF LookupInv, QueueInv
  <2>2. CASE t = side
    <3>1. Queue(t) = <<(<<>>)>> \o edge[t] /\ edge[t] \in Seq(Seq(Row)) /\ Fetched(t) \in Nat
      BY <1>1, <2>2 DEF Queue, Fetched
    <3>2. QueueOK(PlacesOf(t), <<(<<>>)>> \o edge[t], Fetched(t))
      BY <2>1, <3>1
    <3>3. /\ QueueOK(PlacesOf(t), edge[t], Fetched(t))
          /\ \A id \in Id : Processed(PlacesOf(t), edge[t], Fetched(t), id)
                              = Processed(PlacesOf(t), <<(<<>>)>> \o edge[t], Fetched(t), id)
      BY <3>1, <3>2, QueueAdvances
    <3> QED BY <1>4, <3>1, <3>3
  <2>3. CASE t # side
    <3>1. Queue(t) = edge[t]
      BY <2>3 DEF Queue
    <3> QED BY <1>4, <2>1, <3>1
  <2> QED BY <2>2, <2>3
<1>6. QueueInv' /\ MatchInv' /\ Counts' = Counts
  BY <1>2, <1>3, <1>5, QuietStep
<1>7. TypeInv'
  BY <1>1, <1>2, <1>3 DEF LookupInv, TypeInv, InputsOK, inputs
<1>8. EndInv'
  <2>1. finished = FALSE
    BY <1>1 DEF LookupInv, TypeInv, EndInv, Side
  <2> QED BY <1>2, <2>1 DEF EndInv
<1> QED BY <1>2, <1>3, <1>6, <1>7, <1>8 DEF LookupInv

LEMMA FinishKeeps ==
  ASSUME LookupInv, Finish
  PROVE  LookupInv' /\ Counts' = Counts /\ Made' = Made /\ pending' = pending
<1>1. /\ UNCHANGED <<inputs, sent, looked, edge, side, rows, pending, matches, results>>
      /\ sent = Len(labels) /\ looked = sent /\ side = "none" /\ edge = [s \in Side |-> <<>>]
      /\ unmatched' = [s \in Side |-> NumPending(s)]
  BY DEF Finish
<1>2. Made' = Made /\ \A s : Queue(s)' = Queue(s) /\ Fetched(s)' = Fetched(s) /\ NumPending(s)' = NumPending(s)
  BY <1>1 DEF Made, Queue, Fetched, NumPending
<1>3. QueueInv' /\ MatchInv' /\ Counts' = Counts
  BY <1>1, <1>2, QuietStep DEF LookupInv, QueueInv
<1>4. TypeInv'
  BY <1>1 DEF LookupInv, TypeInv, InputsOK, inputs
<1>5. EndInv'
  BY <1>1, <1>2 DEF EndInv, inputs
<1> QED BY <1>1, <1>2, <1>3, <1>4, <1>5 DEF LookupInv

LEMMA StutterKeeps ==
  ASSUME LookupInv, UNCHANGED vars
  PROVE  LookupInv' /\ Counts' = Counts /\ Made' = Made /\ pending' = pending
<1>1. UNCHANGED <<inputs, sent, looked, edge, side, rows, pending, matches, results, finished, unmatched>>
  BY DEF vars
<1>2. Made' = Made /\ \A s : Queue(s)' = Queue(s) /\ Fetched(s)' = Fetched(s) /\ NumPending(s)' = NumPending(s)
  BY <1>1 DEF Made, Queue, Fetched, NumPending
<1>3. QueueInv' /\ MatchInv' /\ Counts' = Counts
  BY <1>1, <1>2, QuietStep DEF LookupInv, QueueInv
<1>4. TypeInv'
  BY <1>1 DEF LookupInv, TypeInv, InputsOK, inputs
<1>5. EndInv'
  BY <1>1, <1>2 DEF LookupInv, EndInv, inputs
<1> QED BY <1>1, <1>2, <1>3, <1>4, <1>5 DEF LookupInv

\* The combiner skips a row, matches it, or lets it wait.
LEMMA ProcessRowKeeps ==
  ASSUME LookupInv, ProcessRow, NEW s, s = side, NEW row, row = Head(rows)
  PROVE  /\ LookupInv'
         /\ \/ Counts' = Counts /\ Made' = Made /\ pending' = pending
            \/ \E x \in Side, id \in Id : Counts' = [Counts EXCEPT ![x][id] = @ + 1]
<1> DEFINE o == Other(s)
           id == row.id
           P == PlacesOf(s)
           f == Fetched(s)
           old == <<rows>> \o edge[s]
           new == <<Tail(rows)>> \o edge[s]
<1>1. /\ edge \in [Side -> Seq(Seq(Row))] /\ s \in Side /\ rows \in Seq(Row) /\ rows # <<>>
      /\ results \in Seq(MatchRow) /\ matches \in Seq(MatchRow) /\ sent \in Nat /\ looked \in Nat
      /\ InputsOK /\ s # "none"
  BY DEF LookupInv, TypeInv, InputsOK, ProcessRow, Side
<1>2. /\ rows' = Tail(rows) /\ UNCHANGED <<inputs, sent, looked, edge, side, results, finished>>
  BY DEF ProcessRow
<1>3. row \in Row /\ Tail(rows) \in Seq(Row) /\ edge[s] \in Seq(Seq(Row)) /\ f \in Nat
  BY <1>1 DEF Fetched
<1>4. o \in Side /\ o # s /\ \A t \in Side : t = s \/ t = o
  BY <1>1, SideFacts
<1>5. Queue(s) = old /\ Queue(s)' = new /\ Fetched(s)' = f
  BY <1>2 DEF Queue, Fetched
<1>6. \A t \in Side : t # s => Queue(t)' = Queue(t) /\ Fetched(t)' = Fetched(t)
  BY <1>2 DEF Queue, Fetched
<1>7. ArePlaces(P) /\ QueueOK(P, old, f)
  BY <1>1, <1>5, PlacesFacts DEF LookupInv, QueueInv
<1>8. /\ QueueOK(P, new, f)
      /\ \A x \in Id : x # id => Processed(P, new, f, x) = Processed(P, old, f, x)
      /\ id \in Id =>
           /\ row.from \in P[id] /\ row.from \notin Processed(P, old, f, id)
           /\ Processed(P, new, f, id) = Processed(P, old, f, id) \cup {row.from}
           /\ \A x \in P[id] : UpTo(x, row.from) <=> x \in Processed(P, old, f, id) \cup {row.from}
  <2> DEFINE q == edge[s]
  <2> HIDE DEF P, f, q
  <2>1. /\ ArePlaces(P) /\ f \in Nat /\ rows \in Seq(Row) /\ rows # <<>> /\ q \in Seq(Seq(Row))
        /\ Drops(old, new, row, rows, q) /\ QueueOK(P, old, f)
    BY <1>1, <1>3, <1>7 DEF q, Drops
  <2> HIDE DEF old, new, id
  <2>2. QueueOK(P, new, f)
    BY <2>1, QueueShrinks
  <2>3. \A x \in Id : x # row.id => Processed(P, new, f, x) = Processed(P, old, f, x)
    BY <2>1, QueueShrinks
  <2>4. row.id \in Id => row.from \in P[row.id]
    BY <2>1, QueueShrinks
  <2>5. row.id \in Id => row.from \notin Processed(P, old, f, row.id)
    BY <2>1, QueueShrinks
  <2>6. row.id \in Id => Processed(P, new, f, row.id) = Processed(P, old, f, row.id) \cup {row.from}
    BY <2>1, QueueShrinks
  <2>7. row.id \in Id => \A x \in P[row.id] : UpTo(x, row.from) <=> x \in Processed(P, old, f, row.id) \cup {row.from}
    BY <2>1, QueueShrinks
  <2> QED BY <2>2, <2>3, <2>4, <2>5, <2>6, <2>7 DEF id
<1>9. TypeInv' \/ ~(matches' \in Seq(MatchRow))
  BY <1>1, <1>2, <1>3 DEF LookupInv, TypeInv, InputsOK, inputs, Side
<1>10. EndInv'
  <2>1. finished = FALSE
    BY <1>1 DEF LookupInv, TypeInv, EndInv, Side
  <2> QED BY <1>2, <2>1 DEF EndInv
<1>11. (\A t : PlacesOf(t)' = PlacesOf(t)) /\ AllPlaces' = AllPlaces
  BY <1>2, PlacesStay
<1>12. QueueInv'
  <2> SUFFICES ASSUME NEW t \in Side PROVE QueueOK(PlacesOf(t), Queue(t)', Fetched(t)')
    BY <1>11 DEF QueueInv
  <2>1. CASE t = s
    BY <1>5, <1>8, <2>1
  <2>2. CASE t # s
    BY <1>6, <2>2 DEF LookupInv, QueueInv
  <2> QED BY <2>1, <2>2
<1>13. /\ Counts \in [Side -> [Id -> Nat]] /\ Counts' = [t \in Side |-> [x \in Id |-> NumProcessed(t, x)']]
       /\ \A t \in Side, x \in Id : Counts[t][x] = NumProcessed(t, x) /\ IsFiniteSet(Processed(PlacesOf(t), Queue(t), Fetched(t), x))
  <2>1. ASSUME NEW t \in Side, NEW x \in Id
        PROVE  IsFiniteSet(Processed(PlacesOf(t), Queue(t), Fetched(t), x)) /\ NumProcessed(t, x) \in Nat
    <3>1. IsFiniteSet(PlacesOf(t)[x])
      BY <1>1, PlacesFacts DEF ArePlaces
    <3>2. Processed(PlacesOf(t), Queue(t), Fetched(t), x) \in SUBSET PlacesOf(t)[x]
      BY DEF Processed
    <3>3. IsFiniteSet(Processed(PlacesOf(t), Queue(t), Fetched(t), x))
      BY <3>1, <3>2, FS_Subset
    <3> QED BY <3>3, FS_CardinalityType DEF NumProcessed
  <2> QED BY <2>1 DEF Counts
<1>14. CASE id = NullId
  <2>1. pending' = pending /\ matches' = matches /\ id \notin Id
    BY <1>14, ParameterAssumption DEF ProcessRow
  <2>2. Made' = Made
    BY <1>2, <2>1 DEF Made
  <2>3. \A t \in Side :
          /\ QueueOK(PlacesOf(t), Queue(t)', Fetched(t)')
          /\ \A x \in Id : Processed(PlacesOf(t), Queue(t)', Fetched(t)', x)
                             = Processed(PlacesOf(t), Queue(t), Fetched(t), x)
    <3> SUFFICES ASSUME NEW t \in Side
                 PROVE  /\ QueueOK(PlacesOf(t), Queue(t)', Fetched(t)')
                        /\ \A x \in Id : Processed(PlacesOf(t), Queue(t)', Fetched(t)', x)
                                           = Processed(PlacesOf(t), Queue(t), Fetched(t), x)
      OBVIOUS
    <3>1. CASE t = s
      BY <1>5, <1>8, <2>1, <3>1
    <3>2. CASE t # s
      BY <1>6, <3>2 DEF LookupInv, QueueInv
    <3> QED BY <3>1, <3>2
  <2>4. MatchInv' /\ Counts' = Counts
    BY <1>2, <2>1, <2>2, <2>3, QuietStep
  <2> QED BY <1>1, <1>9, <1>10, <1>12, <2>1, <2>2, <2>4 DEF LookupInv
<1>15. CASE id # NullId
  <2>1. id \in Id
    BY <1>3, <1>15 DEF Row
  <2>2. NumberIn(P, id, row.from) = Counts[s][id] + 1 /\ NumProcessed(s, id)' = Counts[s][id] + 1
    <3> DEFINE done == Processed(P, old, f, id)
    <3>1. IsFiniteSet(done) /\ Counts[s][id] = Cardinality(done)
      BY <1>1, <1>5, <1>13, <2>1 DEF NumProcessed
    <3>2. Cardinality(done \cup {row.from}) = Cardinality(done) + 1
      BY <1>8, <2>1, <3>1, FS_AddElement
    <3>3. NumProcessed(s, id)' = Cardinality(Processed(P, new, f, id))
      BY <1>5, <1>11 DEF NumProcessed
    <3>4. NumberIn(P, id, row.from) = Cardinality(done \cup {row.from})
      <4>1. \A x \in done : x \in P[id]
        BY DEF Processed
      <4>2. row.from \in P[id] /\ \A x \in P[id] : UpTo(x, row.from) <=> x \in done \cup {row.from}
        BY <1>8, <2>1
      <4> HIDE DEF done
      <4>3. {x \in P[id] : UpTo(x, row.from)} = done \cup {row.from}
        BY <4>1, <4>2
      <4> QED BY <4>3 DEF NumberIn
    <3> HIDE DEF done
    <3> QED BY <1>8, <2>1, <3>1, <3>2, <3>3, <3>4 DEF done
  <2>3. ASSUME NEW t \in Side, NEW x \in Id, t # s \/ x # id
        PROVE  NumProcessed(t, x)' = Counts[t][x]
    <3>1. CASE t = s
      <4>1. NumProcessed(t, x)' = Cardinality(Processed(P, new, f, x))
        BY <1>5, <1>11, <3>1 DEF NumProcessed
      <4>2. NumProcessed(t, x) = Cardinality(Processed(P, old, f, x))
        BY <1>5, <3>1 DEF NumProcessed
      <4> QED BY <1>8, <1>13, <2>3, <3>1, <4>1, <4>2
    <3>2. CASE t # s
      <4>1. NumProcessed(t, x)' = NumProcessed(t, x)
        BY <1>6, <1>11, <3>2 DEF NumProcessed
      <4> QED BY <1>13, <4>1
    <3> QED BY <3>1, <3>2
  <2> HIDE DEF o, id, P, f, old, new
  <2>4. \A t \in Side, x \in Id : Counts'[t][x] = Counts[t][x] + (IF t = s /\ x = id THEN 1 ELSE 0)
    <3> SUFFICES ASSUME NEW t \in Side, NEW x \in Id
                 PROVE  Counts'[t][x] = Counts[t][x] + (IF t = s /\ x = id THEN 1 ELSE 0)
      OBVIOUS
    <3>1. Counts'[t][x] = NumProcessed(t, x)' /\ Counts[t][x] \in Nat
      BY <1>13
    <3>2. CASE t = s /\ x = id
      BY <2>2, <3>1, <3>2
    <3>3. CASE ~(t = s /\ x = id)
      BY <2>3, <3>1, <3>3
    <3> QED BY <3>2, <3>3
  <2>5. Counts' = [Counts EXCEPT ![s][id] = @ + 1]
    <3>1. s \in Side
      BY <1>1
    <3>2. Counts' \in [Side -> [Id -> Nat]]
      <4>1. \A t \in Side, x \in Id : Counts'[t][x] \in Nat /\ Counts'[t][x] = NumProcessed(t, x)'
        BY <1>13, <2>4
      <4>2. \A t \in Side, x \in Id : NumProcessed(t, x)' \in Nat
        BY <4>1
      <4> QED BY <1>13, <4>2
    <3>3. \A t \in Side, x \in Id : [Counts EXCEPT ![s][id] = @ + 1][t][x] = Counts'[t][x]
      <4> SUFFICES ASSUME NEW t \in Side, NEW x \in Id
                   PROVE  [Counts EXCEPT ![s][id] = @ + 1][t][x] = Counts'[t][x]
        OBVIOUS
      <4>1. Counts[t][x] \in Nat /\ Counts'[t][x] = Counts[t][x] + (IF t = s /\ x = id THEN 1 ELSE 0)
        BY <1>13, <2>4
      <4>2. CASE t = s /\ x = id
        BY <1>13, <2>1, <3>1, <4>1, <4>2
      <4>3. CASE ~(t = s /\ x = id)
        BY <1>13, <2>1, <3>1, <4>1, <4>3
      <4> QED BY <4>2, <4>3
    <3>4. [Counts EXCEPT ![s][id] = @ + 1] \in [Side -> [Id -> Nat]]
      BY <1>13, <2>1, <3>1
    <3> DEFINE more == [Counts EXCEPT ![s][id] = @ + 1]
    <3> HIDE DEF more
    <3>5. more \in [Side -> [Id -> Nat]] /\ \A t \in Side, x \in Id : more[t][x] = Counts'[t][x]
      BY <3>3, <3>4 DEF more
    <3>6. more = Counts'
      BY <3>2, <3>5
    <3> QED BY <3>6 DEF more
  <2>6. Arrives(AllPlaces, Counts, Counts', s, row)
    <3>1. AllPlaces[s] = P
      BY <1>1 DEF AllPlaces, P
    <3>2. row.from \in P[id] /\ row \in Row
      BY <1>3, <1>8, <2>1
    <3> QED BY <2>1, <2>2, <2>4, <3>1, <3>2 DEF Arrives, id
  <2>7. CombinerOK(AllPlaces, Counts, Made, pending) /\ s \in Side
    BY <1>1 DEF LookupInv, MatchInv
  <2>8. CASE pending[o][id] # <<>>
    <3> DEFINE m == Match(s, row, Head(pending[o][id]))
    <3>1. /\ pending' = [pending EXCEPT ![o][id] = Tail(@)]
          /\ matches' = Append(matches, m)
      BY <1>15, <2>8 DEF ProcessRow, PopPending, o, id
    <3>2. /\ m \in MatchRow
          /\ CombinerOK(AllPlaces, Counts', Append(Made, m), [pending EXCEPT ![o][id] = Tail(@)])
      BY <2>6, <2>7, <2>8, MatchKeeps DEF o, id
    <3> HIDE DEF m
    <3>3. Made' = Append(Made, m) /\ matches' \in Seq(MatchRow)
      <4>1. results \o Append(matches, m) = Append(results \o matches, m)
        BY <1>1, <3>2
      <4> QED BY <1>1, <1>2, <3>1, <3>2, <4>1 DEF Made
    <3>4. MatchInv'
      BY <1>11, <3>1, <3>2, <3>3 DEF MatchInv
    <3> QED BY <1>9, <1>10, <1>12, <2>1, <2>5, <2>7, <3>3, <3>4 DEF LookupInv
  <2>9. CASE pending[o][id] = <<>>
    <3>1. /\ pending' = [pending EXCEPT ![s][id] = Wait(@, row)]
          /\ matches' = matches
      BY <1>15, <2>9 DEF ProcessRow, o, id
    <3>2. CombinerOK(AllPlaces, Counts', Made, [pending EXCEPT ![s][id] = Wait(@, row)])
      BY <2>6, <2>7, <2>9, WaitKeeps DEF o, id
    <3>3. Made' = Made /\ matches' \in Seq(MatchRow)
      BY <1>1, <1>2, <3>1 DEF Made
    <3>4. MatchInv'
      BY <1>11, <3>1, <3>2, <3>3 DEF MatchInv
    <3> QED BY <1>9, <1>10, <1>12, <2>1, <2>5, <2>7, <3>3, <3>4 DEF LookupInv
  <2> QED BY <2>8, <2>9
<1> QED BY <1>14, <1>15

\* What a step does to the numbers of rows the combiner has processed.
LEMMA LookupStep ==
  ASSUME LookupInv, [Next]_vars
  PROVE  /\ LookupInv'
         /\ \/ Counts' = Counts /\ Made' = Made /\ pending' = pending
            \/ \E s \in Side, id \in Id : Counts' = [Counts EXCEPT ![s][id] = @ + 1]
<1>1. CASE SourceSends
  BY <1>1, SourceSendsKeeps
<1>2. CASE LookupProcess
  BY <1>2, LookupProcessKeeps
<1>3. ASSUME NEW s \in Side, TakeBatch(s)
      PROVE  LookupInv' /\ Counts' = Counts /\ Made' = Made /\ pending' = pending
  BY <1>3, TakeBatchKeeps
<1>4. CASE ProcessRow
  BY <1>4, ProcessRowKeeps
<1>5. CASE SendMatches
  BY <1>5, SendMatchesKeeps
<1>6. CASE Finish
  BY <1>6, FinishKeeps
<1>7. CASE Terminated
  BY <1>7, StutterKeeps DEF Terminated
<1>8. CASE UNCHANGED vars
  BY <1>8, StutterKeeps
<1> QED BY <1>1, <1>2, <1>3, <1>4, <1>5, <1>6, <1>7, <1>8 DEF Next

\* The invariant of the combiner: the types, what of each input is still in the
\* queues, that every row is matched or waits, and what Finish counted.
THEOREM LookupInvariant == Spec => []LookupInv
<1>1. Init => LookupInv
  BY LookupInvInit
<1>2. LookupInv /\ [Next]_vars => LookupInv'
  BY LookupStep
<1> QED BY <1>1, <1>2, PTL DEF Spec

----------------------------------------------------------------------------
LEMMA NumberOfPlace ==
  ASSUME NEW s \in Side, NEW id \in Id, NEW p
  PROVE  /\ AllPlaces[s][id] = Places(s, id)
         /\ Number(s, id, p) = NumberIn(AllPlaces[s], id, p)
BY DEF AllPlaces, PlacesOf, Number, NumberIn

\* The n'th match of an id is made of its n'th label row and its n'th app row,
\* whatever the order of the two inputs and the cuts between their batches
\* (main.go 48-63, 85-115).
THEOREM MatchesPairInOrder == Spec => []PairsInOrder
<1>1. LookupInv => PairsInOrder
  <2> SUFFICES ASSUME LookupInv, NEW k \in DOMAIN Made, NEW s \in Side
               PROVE  LET id == Made[k].id
                          place == [t \in Side |-> IF t = "label" THEN Made[k].label ELSE Made[k].app]
                          n == Cardinality({j \in 1 .. k : Made[j].id = id})
                      IN  place[s] \in Places(s, id) /\ Number(s, id, place[s]) = n
    BY DEF PairsInOrder
  <2>1. Made \in Seq(MatchRow)
    BY DEF LookupInv, MatchInv, CombinerOK
  <2>2. Made[k].id \in Id
    <3>1. Made[k] \in MatchRow
      BY <2>1
    <3> QED BY <3>1 DEF MatchRow
  <2>3. /\ Place(Made[k], s) \in AllPlaces[s][Made[k].id]
        /\ NumberIn(AllPlaces[s], Made[k].id, Place(Made[k], s)) = Rank(Made, k)
    BY DEF LookupInv, MatchInv, CombinerOK
  <2>4. /\ Place(Made[k], s) \in Places(s, Made[k].id)
        /\ Number(s, Made[k].id, Place(Made[k], s)) = Rank(Made, k)
    BY <2>2, <2>3, NumberOfPlace
  <2> QED BY <2>4 DEF Place, Rank
<1> QED BY <1>1, LookupInvariant, PTL

\* Once Finish has run every pair that could be made has been sent, and it has
\* counted the rows that the longer side has in excess (main.go 120-122,
\* 156-168).
THEOREM FinishedJoinIsComplete == Spec => []JoinIsComplete
<1>1. LookupInv => JoinIsComplete
  <2> SUFFICES ASSUME LookupInv, finished
               PROVE  /\ \A id \in Id : \E s \in Side : NumMade(results, id) = Cardinality(Places(s, id))
                      /\ \A s \in Side :
                           unmatched[s] =
                             SumFunction([id \in Id |-> Cardinality(Places(s, id)) - NumMade(results, id)])
    BY DEF JoinIsComplete
  <2>1. /\ sent = Len(labels) /\ looked = Len(labels) /\ side = "none" /\ edge = [s \in Side |-> <<>>]
        /\ unmatched = [s \in Side |-> NumPending(s)] /\ InputsOK
        /\ matches = <<>> /\ results \in Seq(MatchRow)
    BY DEF LookupInv, EndInv, TypeInv
  <2>2. Made = results
    BY <2>1 DEF Made
  <2>3. ASSUME NEW s \in Side, NEW id \in Id
        PROVE  /\ Cardinality(Places(s, id)) = NumMade(results, id) + Len(pending[s][id])
               /\ NumMade(results, id) \in Nat /\ Len(pending[s][id]) \in Nat
    <3>1. Queue(s) = <<>> /\ Fetched(s) = Len(labels)
      BY <2>1 DEF Queue, Fetched, Side
    <3>2. \A p \in PlacesOf(s)[id] : p[1] <= Len(labels)
      BY <2>1, PlacesFacts DEF InputsOK
    <3>3. \A p : ~Listed(<<>>, id, p)
      BY DEF Listed
    <3>4. Processed(PlacesOf(s), Queue(s), Fetched(s), id) = Places(s, id)
      <4>1. PlacesOf(s)[id] = Places(s, id)
        BY DEF PlacesOf
      <4> QED BY <3>1, <3>2, <3>3, <4>1 DEF Processed
    <3>5. Counts[s][id] = Cardinality(Places(s, id))
      BY <3>4 DEF Counts, NumProcessed
    <3>6. pending \in [Side -> [Id -> Seq(Row)]] /\ Counts[s][id] = NumMade(Made, id) + Len(pending[s][id])
      BY DEF LookupInv, MatchInv, CombinerOK
    <3>7. NumMade(results, id) \in Nat
      BY <2>1, MadeFacts
    <3> QED BY <2>2, <3>5, <3>6, <3>7
  <2>4. ASSUME NEW id \in Id
        PROVE  \E s \in Side : NumMade(results, id) = Cardinality(Places(s, id))
    <3>1. PICK s \in Side : pending[s][id] = <<>>
      BY DEF LookupInv, MatchInv, CombinerOK
    <3>2. Len(pending[s][id]) = 0
      BY <3>1
    <3>3. Cardinality(Places(s, id)) = NumMade(results, id) + 0 /\ NumMade(results, id) \in Nat
      BY <2>3, <3>2
    <3> QED BY <3>3
  <2>5. ASSUME NEW s \in Side
        PROVE  unmatched[s] =
                 SumFunction([id \in Id |-> Cardinality(Places(s, id)) - NumMade(results, id)])
    <3>1. \A id \in Id : Len(pending[s][id]) = Cardinality(Places(s, id)) - NumMade(results, id)
      BY <2>3
    <3>2. [id \in Id |-> Len(pending[s][id])]
            = [id \in Id |-> Cardinality(Places(s, id)) - NumMade(results, id)]
      BY <3>1
    <3>3. unmatched[s] = SumFunction([id \in Id |-> Len(pending[s][id])])
      BY <2>1 DEF NumPending
    <3> QED BY <3>2, <3>3
  <2> QED BY <2>4, <2>5
<1> QED BY <1>1, LookupInvariant, PTL

----------------------------------------------------------------------------
(* The abstract join.                                                      *)

\* The rows that have arrived are those the combiner has processed, and as many
\* pairs are made of them as can be.
LEMMA JoinState ==
  ASSUME LookupInv
  PROVE  /\ [s \in Side |-> [id \in Id |-> NumMade(Made, id) + Len(pending[s][id])]] = Counts
         /\ \A id \in Id : NumMade(Made, id) = Join!Pairs(Counts, id)
<1>1. /\ Counts = [s \in Side |-> [id \in Id |-> Counts[s][id]]]
      /\ \A s \in Side, id \in Id : Counts[s][id] = NumMade(Made, id) + Len(pending[s][id])
      /\ Made \in Seq(MatchRow) /\ pending \in [Side -> [Id -> Seq(Row)]]
  BY DEF Counts, LookupInv, MatchInv, CombinerOK
<1>2. [s \in Side |-> [id \in Id |-> NumMade(Made, id) + Len(pending[s][id])]] = Counts
  BY <1>1
<1>3. ASSUME NEW id \in Id PROVE NumMade(Made, id) = Join!Pairs(Counts, id)
  <2> DEFINE S == {Counts[s][id] : s \in Side}
             n == NumMade(Made, id)
  <2>1. n \in Nat
    BY <1>1, MadeFacts
  <2>2. \A s \in Side : Len(pending[s][id]) \in Nat /\ Counts[s][id] = n + Len(pending[s][id])
    BY <1>1
  <2>3. PICK s \in Side : pending[s][id] = <<>>
    BY DEF LookupInv, MatchInv, CombinerOK
  <2>4. Counts[s][id] = n
    <3>1. Len(pending[s][id]) = 0
      BY <2>3
    <3> HIDE DEF n
    <3> QED BY <2>1, <2>2, <3>1
  <2> HIDE DEF n
  <2>5. n \in S /\ \A t \in Side : n <= Counts[t][id]
    BY <2>1, <2>2, <2>4
  <2>6. \A m \in S : (\A t \in Side : m <= Counts[t][id]) => m = n
    <3> SUFFICES ASSUME NEW t \in Side, \A x \in Side : Counts[t][id] <= Counts[x][id]
                 PROVE  Counts[t][id] = n
      OBVIOUS
    <3>1. Counts[t][id] <= n /\ n <= Counts[t][id] /\ Counts[t][id] \in Nat
      BY <2>1, <2>2, <2>4, <2>5
    <3> QED BY <2>1, <3>1
  <2> QED BY <2>5, <2>6 DEF Join!Pairs, n
<1> QED BY <1>2, <1>3

\* The combiner implements the abstract join: no row is lost or made up, and no
\* match is left unmade while both its rows wait (main.go 27-38).
THEOREM CombinerImplementsJoin == Spec => ImplementsJoin
<1> DEFINE joined == [id \in Id |-> NumMade(Made, id)]
           arrived == [s \in Side |-> [id \in Id |-> NumMade(Made, id) + Len(pending[s][id])]]
<1>1. Init => Join!Init
  <2> SUFFICES ASSUME Init PROVE Join!Init
    OBVIOUS
  <2>1. \A id \in Id : NumMade(Made, id) = 0
    <3>1. Made = <<>> /\ DOMAIN <<>> = {}
      BY DEF Init, Made
    <3> QED BY <3>1, FS_EmptySet DEF NumMade
  <2>2. \A s \in Side, id \in Id : pending[s][id] = <<>> /\ Len(<<>>) = 0
    BY DEF Init
  <2> QED BY <2>1, <2>2 DEF Join!Init
<1>2. LookupInv => arrived = Counts /\ \A id \in Id : NumMade(Made, id) = Join!Pairs(Counts, id)
  BY JoinState
<1>3. LookupInv' => (arrived = Counts /\ \A id \in Id : NumMade(Made, id) = Join!Pairs(Counts, id))'
  BY <1>2, PTL
<1>4. LookupInv /\ [Next]_vars => [Join!Next]_(Join!vars)
  <2> SUFFICES ASSUME LookupInv, [Next]_vars PROVE [Join!Next]_(Join!vars)
    OBVIOUS
  <2>1. LookupInv'
    BY LookupStep
  <2>2. arrived = Counts /\ \A id \in Id : NumMade(Made, id) = Join!Pairs(Counts, id)
    BY <1>2
  <2>3. arrived' = Counts' /\ \A id \in Id : NumMade(Made, id)' = Join!Pairs(Counts', id)
    BY <1>3, <2>1
  <2>4. CASE Counts' = Counts /\ Made' = Made /\ pending' = pending
    <3>1. joined' = joined /\ arrived' = arrived
      BY <2>4
    <3> QED BY <3>1 DEF Join!vars
  <2>5. ASSUME NEW s \in Side, NEW id \in Id, Counts' = [Counts EXCEPT ![s][id] = @ + 1]
        PROVE  Join!Arrive(s, id)
    <3>1. arrived' = [arrived EXCEPT ![s][id] = @ + 1]
      BY <2>2, <2>3, <2>5
    <3>2. ASSUME NEW x \in Id, x # id PROVE NumMade(Made, x)' = NumMade(Made, x)
      <4>1. Counts \in [Side -> [Id -> {NumProcessed(t, y) : t \in Side, y \in Id}]]
        BY DEF Counts
      <4>2. \A t \in Side : Counts'[t][x] = Counts[t][x]
        BY <2>5, <3>2, <4>1
      <4>3. Join!Pairs(Counts', x) = Join!Pairs(Counts, x)
        BY <4>2 DEF Join!Pairs
      <4> QED BY <2>2, <2>3, <4>3
    <3>3. NumMade(Made, id)' = Join!Pairs(arrived', id)
      BY <2>3
    <3>4. joined' = [joined EXCEPT ![id] = Join!Pairs(arrived', id)]
      <4>1. \A x \in Id : joined'[x] = IF x = id THEN Join!Pairs(arrived', id) ELSE joined[x]
        BY <3>2, <3>3
      <4> QED BY <4>1
    <3> QED BY <3>1, <3>4 DEF Join!Arrive
  <2> QED BY <2>4, <2>5, LookupStep DEF Join!Next
<1> QED BY <1>1, <1>4, LookupInvariant, PTL DEF Spec, ImplementsJoin, Join!Spec
=============================================================================
