----------------------------- MODULE Lifecycle -----------------------------
(***************************************************************************)
(* What ARCHITECTURE.md (Lifecycle, Failure and cancellation) and the      *)
(* interfaces of src/etl.go promise of one run, without goroutines,        *)
(* channels or readers: when a stage may be finished, aborted or given up, *)
(* and what Run returns.  PipelineRefinement shows that the runtime        *)
(* implements it.                                                          *)
(***************************************************************************)
CONSTANTS
  Node,      \* the stages
  Source,    \* the stages that are sources
  Aborter,   \* the processors and sinks that implement Aborter
  Upstream   \* for every stage, the set of stages it reads from

VARIABLES
  stage,      \* "consuming", "finishing", "aborted", "completed" or "failed"
  cancelled,  \* the context of the run is cancelled
  outcome     \* what Run returned: "running" (nothing yet), "ok" or "failed"

vars == <<stage, cancelled, outcome>>

Init ==
  /\ stage = [n \in Node |-> "consuming"]
  /\ cancelled = FALSE
  /\ outcome = "running"

Moves(n, to) ==
  /\ stage' = [stage EXCEPT ![n] = to]
  /\ UNCHANGED <<cancelled, outcome>>

\* Finish is called once every input has completed, and not after the
\* cancellation is visible.
Finish(n) ==
  /\ n \notin Source
  /\ stage[n] = "consuming"
  /\ ~cancelled
  /\ \A m \in Upstream[n] : stage[m] = "completed"
  /\ Moves(n, "finishing")

\* A source's Run, or a Finish, returns nil or an error.
Ending(n) == stage[n] = IF n \in Source THEN "consuming" ELSE "finishing"
Complete(n) == Ending(n) /\ Moves(n, "completed")
Fail(n) == Ending(n) /\ Moves(n, "failed")

\* A stage is given up only in a cancelled run, and aborted first if it can be.
Abort(n) ==
  /\ n \in Aborter
  /\ stage[n] = "consuming"
  /\ cancelled
  /\ Moves(n, "aborted")

GiveUp(n) ==
  /\ n \notin Source
  /\ cancelled
  /\ stage[n] = IF n \in Aborter THEN "aborted" ELSE "consuming"
  /\ Moves(n, "failed")

Cancel == cancelled' = TRUE /\ UNCHANGED <<stage, outcome>>

\* Run waits for every stage, and returns nil only if all of them completed.
Return ==
  /\ outcome = "running"
  /\ \A n \in Node : stage[n] \in {"completed", "failed"}
  /\ outcome' = IF \A n \in Node : stage[n] = "completed" THEN "ok" ELSE "failed"
  /\ cancelled' = TRUE
  /\ UNCHANGED stage

Next ==
  \/ \E n \in Node : Finish(n) \/ Complete(n) \/ Fail(n) \/ Abort(n) \/ GiveUp(n)
  \/ Cancel \/ Return

Spec == Init /\ [][Next]_vars
=============================================================================
