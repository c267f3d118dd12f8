----------------------------- MODULE StreamJoin -----------------------------
(***************************************************************************)
(* What a join of two streams by id promises, whatever order their rows    *)
(* arrive in: a row that arrives is joined at once with a waiting row of   *)
(* the other side, and otherwise waits for one.  Only numbers of rows      *)
(* matter here.                                                            *)
(***************************************************************************)
EXTENDS Integers

CONSTANTS
  Side,  \* the two inputs
  Id     \* the values rows are joined by

VARIABLES
  arrived,  \* how many rows of each id have arrived from each side
  joined    \* how many pairs of rows of each id have been made

vars == <<arrived, joined>>

Init ==
  /\ arrived = [s \in Side |-> [id \in Id |-> 0]]
  /\ joined = [id \in Id |-> 0]

\* As many pairs as the side with fewer rows allows.
Pairs(a, id) == CHOOSE n \in {a[s][id] : s \in Side} : \A s \in Side : n <= a[s][id]

Arrive(s, id) ==
  /\ arrived' = [arrived EXCEPT ![s][id] = @ + 1]
  /\ joined' = [joined EXCEPT ![id] = Pairs(arrived', id)]

Next == \E s \in Side, id \in Id : Arrive(s, id)

Spec == Init /\ [][Next]_vars
=============================================================================
