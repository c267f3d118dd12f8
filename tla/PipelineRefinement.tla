------------------------- MODULE PipelineRefinement -------------------------
(***************************************************************************)
(* PipelineRuntime implements Lifecycle: every step of a goroutine is one  *)
(* step of the contract, or none.                                          *)
(***************************************************************************)
EXTENDS PipelineRuntime

\* How far a stage is in the contract, from where its goroutine is.
StageOf(n) ==
  IF pc[n] \in {"fail", "cancel", "close", "done"}
  THEN IF err[n] = "nil" THEN "completed"
       ELSE IF pc[n] = "fail" /\ aborts[n] > 0 THEN "aborted"
       ELSE "failed"
  ELSE IF finishes[n] > 0 THEN "finishing" ELSE "consuming"

Outcome ==
  IF ~returned THEN "running" ELSE IF recorded = NoNode THEN "ok" ELSE "failed"

Contract == INSTANCE Lifecycle WITH
  Source    <- {n \in Node : Kind[n] = "source"},
  Upstream  <- [n \in Node |-> {From[e] : e \in InEdges(n)}],
  stage     <- [n \in Node |-> StageOf(n)],
  cancelled <- ctxDone,
  outcome   <- Outcome

\* The runtime keeps the promises of the documentation: Finish only on
\* completed inputs and before a cancellation is seen, Abort only in its place,
\* nil from Run only if every stage completed.
ImplementsLifecycle == Contract!Spec
=============================================================================
