---------------------------- MODULE LookupMerge ----------------------------
(***************************************************************************)
(* The graph of src/examples/sql-lookup-merge: a source of label rows, a   *)
(* lookup that queries another database for the ids of each batch          *)
(* (src/sqlsource/lookup.go, lookup_keys.go), and a combiner that receives *)
(* the batches of both from one Merge and joins them by id.                *)
(*                                                                         *)
(* Merge says nothing of the order between its two inputs: the combiner    *)
(* takes the next batch of either edge.  What the runtime promises about   *)
(* each edge alone (PipelineRuntime.InOrder) is assumed: an edge is a      *)
(* queue.  The databases are external.                                     *)
(*                                                                         *)
(* A definition X_Y is X with the mistake Y; no action uses it.            *)
(***************************************************************************)
EXTENDS Integers, Sequences, FiniteSets, Functions

CONSTANTS
  Id,               \* the ids of rows, integers so that a query can order them
  NullId,           \* a null in the id column
  IdColumn,         \* the id columns of the batches the source may send
  MaxBatches,       \* bound: batches the source sends
  MaxAppRows,       \* bound: rows of one id in the app database
  LookupBatchSize   \* l.batchSize

ASSUME ParameterAssumption ==
  /\ Id \subseteq Int /\ NullId \notin Id
  /\ IdColumn \subseteq Seq(Id \cup {NullId}) \ {<<>>}
  /\ MaxBatches \in Nat /\ MaxAppRows \in Nat /\ LookupBatchSize \in Nat \ {0}

Side == {"label", "app"}
Other(s) == IF s = "label" THEN "app" ELSE "label"

VARIABLES
  labels,     \* the batches of the source's query: their id columns
  appRows,    \* how many rows of each id the app database has
  sent,       \* how many batches the source has sent, on both of its edges
  looked,     \* how many of them the lookup has processed
  edge,       \* the batches on each of the combiner's input edges
  side,       \* the input of the batch the combiner is processing, or "none"
  rows,       \* the rows of that batch still to process
  pending,    \* c.carriers and c.appData: rows waiting for a match, by id
  matches,    \* the matches of that batch so far
  results,    \* what the combiner has sent, as one sequence of matches
  finished,   \* the combiner's Finish has run
  unmatched   \* the numbers of rows it reported

inputs == <<labels, appRows>>
vars == <<inputs, sent, looked, edge, side, rows, pending, matches, results,
          finished, unmatched>>

Init ==
  /\ labels \in UNION {[1 .. n -> IdColumn] : n \in 0 .. MaxBatches}
  /\ appRows \in [Id -> 0 .. MaxAppRows]
  /\ sent = 0 /\ looked = 0
  /\ edge = [s \in Side |-> <<>>]
  /\ side = "none" /\ rows = <<>>
  /\ pending = [s \in Side |-> [id \in Id |-> <<>>]]
  /\ matches = <<>> /\ results = <<>>
  /\ finished = FALSE
  /\ unmatched = [s \in Side |-> 0]

----------------------------------------------------------------------------
(* The source and the lookup.                                              *)

\* A label row is identified by its place: its batch and its row number.
LabelBatch(b) ==
  [i \in DOMAIN labels[b] |-> [id |-> labels[b][i], from |-> <<b, i>>]]

SourceSends ==
  /\ sent < Len(labels)
  /\ sent' = sent + 1
  /\ edge' = [edge EXCEPT !["label"] = Append(@, LabelBatch(sent + 1))]
  /\ UNCHANGED <<inputs, looked, side, rows, pending, matches, results,
                 finished, unmatched>>

\* The non-null values of the column, each once; their order, that of the first
\* occurrences, means nothing in an IN clause.
LookupKeys(column) == Range(column) \ {NullId}

\* SELECT ... WHERE id IN (keys) ORDER BY id: what the database may answer.  An
\* app row is identified by the batch it was looked up for and its number among
\* the rows of its id.
Query(b, keys) ==
  LET found == UNION {{[id |-> k, from |-> <<b, n>>] : n \in 1 .. appRows[k]} : k \in keys}
      before(r, t) == r.id < t.id \/ (r.id = t.id /\ r.from[2] < t.from[2])
  IN  {answer \in [1 .. Cardinality(found) -> found] :
         /\ Range(answer) = found
         /\ \A i, j \in DOMAIN answer : i < j => before(answer[i], answer[j])}

\* scanRowsToBatches (see SqlQueries).
InBatches(s) ==
  [i \in 1 .. (Len(s) + LookupBatchSize - 1) \div LookupBatchSize |->
     SubSeq(s, (i - 1) * LookupBatchSize + 1,
            IF i * LookupBatchSize < Len(s) THEN i * LookupBatchSize ELSE Len(s))]

\* Without keys there is no query.
LookupProcess ==
  LET b == looked + 1
      keys == LookupKeys(labels[b])
  IN
  /\ looked < sent
  /\ looked' = b
  /\ IF keys = {} THEN edge' = edge
     ELSE \E answer \in Query(b, keys) :
            edge' = [edge EXCEPT !["app"] = @ \o InBatches(answer)]
  /\ UNCHANGED <<inputs, sent, side, rows, pending, matches, results, finished,
                 unmatched>>

----------------------------------------------------------------------------
(* The combiner.                                                           *)

\* Process is called with the next batch of either input; its columns tell
\* which (hasField).
TakeBatch(s) ==
  /\ side = "none"
  /\ edge[s] # <<>>
  /\ side' = s
  /\ rows' = Head(edge[s])
  /\ edge' = [edge EXCEPT ![s] = Tail(@)]
  /\ matches' = <<>>
  /\ UNCHANGED <<inputs, sent, looked, pending, results, finished, unmatched>>

\* What popPending leaves of a queue: the key goes with its last row.
PopPending_DeletesKey(queue) == <<>>
PopPending(queue) == Tail(queue)

Match(s, row, partner) ==
  IF s = "label" THEN [id |-> row.id, label |-> row.from, app |-> partner.from]
                 ELSE [id |-> row.id, label |-> partner.from, app |-> row.from]

\* One round of Process's loop: a row without an id is skipped, a row whose
\* partner waits is matched with the one that has waited longest, any other
\* row waits itself.
Wait_InFront(queue, row) == <<row>> \o queue
Wait_Replaces(queue, row) == <<row>>
Wait(queue, row) == Append(queue, row)

ProcessRow ==
  LET row == Head(rows)
      waiting == pending[Other(side)][row.id]
  IN
  /\ rows # <<>>
  /\ rows' = Tail(rows)
  /\ CASE row.id = NullId -> UNCHANGED <<pending, matches>>
       [] row.id # NullId /\ waiting # <<>> ->
            /\ pending' = [pending EXCEPT ![Other(side)][row.id] = PopPending(@)]
            /\ matches' = Append(matches, Match(side, row, Head(waiting)))
       [] OTHER ->
            /\ pending' = [pending EXCEPT ![side][row.id] = Wait(@, row)]
            /\ UNCHANGED matches
  /\ UNCHANGED <<inputs, sent, looked, edge, side, results, finished, unmatched>>

\* The end of Process: one batch of all the matches, or none.
SendMatches ==
  /\ side # "none" /\ rows = <<>>
  /\ results' = results \o matches
  /\ matches' = <<>>
  /\ side' = "none"
  /\ UNCHANGED <<inputs, sent, looked, edge, rows, pending, finished, unmatched>>

NumPending(s) == SumFunction([id \in Id |-> Len(pending[s][id])])

Finish ==
  /\ ~finished
  /\ sent = Len(labels) /\ looked = sent
  /\ side = "none" /\ edge = [s \in Side |-> <<>>]
  /\ finished' = TRUE
  /\ unmatched' = [s \in Side |-> NumPending(s)]
  /\ UNCHANGED <<inputs, sent, looked, edge, side, rows, pending, matches, results>>

Terminated == finished /\ UNCHANGED vars

Next ==
  \/ SourceSends \/ LookupProcess
  \/ \E s \in Side : TakeBatch(s)
  \/ ProcessRow \/ SendMatches \/ Finish \/ Terminated

Spec == Init /\ [][Next]_vars

----------------------------------------------------------------------------
\* The places of all the rows of an id that each side will ever deliver: an id
\* is looked up once per batch it occurs in, however often it does.
Places(s, id) ==
  IF s = "label"
  THEN UNION {{<<b, i>> : i \in {k \in DOMAIN labels[b] : labels[b][k] = id}} : b \in DOMAIN labels}
  ELSE UNION {{<<b, n>> : n \in 1 .. appRows[id]} : b \in {x \in DOMAIN labels : id \in Range(labels[x])}}

\* The number of the row at place p among them, in the order of their edge.
UpTo(q, p) == q[1] < p[1] \/ (q[1] = p[1] /\ q[2] <= p[2])
Number(s, id, p) == Cardinality({q \in Places(s, id) : UpTo(q, p)})

Made == results \o matches
NumMade(made, id) == Cardinality({k \in DOMAIN made : made[k].id = id})

\* Whatever the interleaving of the two inputs and the cuts between their
\* batches, the n'th match of an id is made of its n'th label row and its n'th
\* app row: no row is used twice, skipped, or paired with a later one
\* (main.go 48-63, 85-115).
PairsInOrder ==
  \A k \in DOMAIN Made :
    LET id == Made[k].id
        place == [s \in Side |-> IF s = "label" THEN Made[k].label ELSE Made[k].app]
        n == Cardinality({j \in 1 .. k : Made[j].id = id})
    IN  \A s \in Side : place[s] \in Places(s, id) /\ Number(s, id, place[s]) = n

\* At the end every pair that could be made has been sent, and the rows Finish
\* counts as unmatched are the ones the longer side has in excess, so that the
\* outcome depends on the inputs alone (main.go 120-122, 156-168).
JoinIsComplete ==
  finished =>
    /\ \A id \in Id : \E s \in Side : NumMade(results, id) = Cardinality(Places(s, id))
    /\ \A s \in Side :
         unmatched[s] =
           SumFunction([id \in Id |-> Cardinality(Places(s, id)) - NumMade(results, id)])

\* The combiner implements the abstract join: the rows that have arrived are
\* the joined and the waiting ones, none is lost or invented on the way, and a
\* match is never left unmade while both its rows wait (main.go 27-38).
Join == INSTANCE StreamJoin WITH
  joined <- [id \in Id |-> NumMade(Made, id)],
  arrived <- [s \in Side |-> [id \in Id |-> NumMade(Made, id) + Len(pending[s][id])]]
ImplementsJoin == Join!Spec
=============================================================================
