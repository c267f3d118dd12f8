-------------------------- MODULE PipelineBuilder --------------------------
(***************************************************************************)
(* How goroutines build pipelines and start them: From, Process, Merge, To *)
(* and the part of Run before its stages exist (src/pipeline.go 40-261).   *)
(* Every method holds the pipeline's mutex; Merge connects its inputs one  *)
(* by one and may panic half way, and the caller may recover and go on.    *)
(*                                                                         *)
(* A definition X_Y is X with the mistake Y; no action uses it.            *)
(***************************************************************************)
EXTENDS Integers, Sequences, FiniteSets

CONSTANTS
  Pipeline,  \* pipelines built side by side
  Caller,    \* the goroutines that build and run them
  MaxNodes,  \* bound: stages of each pipeline
  MaxInputs, \* bound: inputs of a Merge
  Nobody     \* holds a mutex that is free

ASSUME ParameterAssumption ==
  MaxNodes \in [Pipeline -> Nat] /\ MaxInputs \in Nat /\ Nobody \notin Caller

VARIABLES
  nodes,    \* p.nodes: the kind of each stage and whether it is a nil value
  edges,    \* the edges, in the order connected; a stage is <<pipeline, id>>
  started,  \* p.started
  err,      \* p.err # nil
  mu,       \* who holds p.mu
  job,      \* the pipeline, the new stage and the inputs left of a Merge
  launched  \* how many calls of Run started the stages

vars == <<nodes, edges, started, err, mu, job, launched>>

\* A Stream: the output of a stage that has one.
Streams == UNION {{<<p, n>> : n \in {n \in 1 .. Len(nodes[p]) : nodes[p][n].kind # "sink"}} :
                    p \in Pipeline}

NoJob == [on |-> Nobody, inputs |-> <<>>]

Init ==
  /\ nodes = [p \in Pipeline |-> <<>>]
  /\ edges = <<>>
  /\ started = [p \in Pipeline |-> FALSE]
  /\ err = [p \in Pipeline |-> FALSE]
  /\ mu = [p \in Pipeline |-> Nobody]
  /\ job = [c \in Caller |-> NoJob]
  /\ launched = [p \in Pipeline |-> 0]

----------------------------------------------------------------------------
\* p.mu.Lock() succeeds for a caller that is in no other call.
Acquires(c, p) == job[c] = NoJob /\ mu[p] = Nobody

\* panicIfStartedLocked; the caller recovers, and nothing has changed.
PanicsIfStarted_Never(p) == FALSE
PanicsIfStarted(p) == started[p]

\* setErrLocked for a nil stage; the stage is added all the same.
SetErr_Forgotten(p, isNil) == err
SetErr(p, isNil) == [err EXCEPT ![p] = @ \/ isNil]

AddNode(p, kind, isNil) ==
  /\ ~PanicsIfStarted(p)
  /\ Len(nodes[p]) < MaxNodes[p]
  /\ nodes' = [nodes EXCEPT ![p] = Append(@, [kind |-> kind, isNil |-> isNil])]
  /\ err' = SetErr(p, isNil)

From(c, p, isNil) ==
  /\ Acquires(c, p)
  /\ AddNode(p, "source", isNil)
  /\ UNCHANGED <<edges, started, mu, job, launched>>

\* Process and To: a stage of the stream's own pipeline, connected to it.
\* CopyTo is To.
Attach(c, s, kind, isNil) ==
  /\ Acquires(c, s[1])
  /\ AddNode(s[1], kind, isNil)
  /\ edges' = Append(edges, [from |-> s, to |-> <<s[1], Len(nodes'[s[1]])>>])
  /\ UNCHANGED <<started, mu, job, launched>>

Merge(c, p, inputs, isNil) ==
  /\ Acquires(c, p)
  /\ AddNode(p, "processor", isNil)
  /\ mu' = [mu EXCEPT ![p] = c]
  /\ job' = [job EXCEPT ![c] = [on |-> <<p, Len(nodes'[p])>>, inputs |-> inputs]]
  /\ UNCHANGED <<edges, started, launched>>

\* One turn of Merge's loop: the panic for a foreign stream, or connect.
MergeRejects_Nothing(c) == FALSE
MergeRejects(c) ==
  /\ job[c].inputs # <<>>
  /\ Head(job[c].inputs)[1] # job[c].on[1]

ConnectInput(c) ==
  /\ job[c].inputs # <<>>
  /\ ~MergeRejects(c)
  /\ edges' = Append(edges, [from |-> Head(job[c].inputs), to |-> job[c].on])
  /\ job' = [job EXCEPT ![c].inputs = Tail(@)]
  /\ UNCHANGED <<nodes, started, err, mu, launched>>

\* The deferred Unlock, after the loop and after a panic.
MergeReturns_PanicKeepsLock(c) ==
  /\ job[c] # NoJob
  /\ job[c].inputs = <<>> \/ MergeRejects(c)
  /\ mu' = IF MergeRejects(c) THEN mu ELSE [mu EXCEPT ![job[c].on[1]] = Nobody]
  /\ job' = [job EXCEPT ![c] = NoJob]
  /\ UNCHANGED <<nodes, edges, started, err, launched>>
MergeReturns(c) ==
  /\ job[c] # NoJob
  /\ job[c].inputs = <<>> \/ MergeRejects(c)
  /\ mu' = [mu EXCEPT ![job[c].on[1]] = Nobody]
  /\ job' = [job EXCEPT ![c] = NoJob]
  /\ UNCHANGED <<nodes, edges, started, err, launched>>

\* Run up to the launch of the stages; a nil context changes nothing.
Run(c, p) ==
  /\ Acquires(c, p)
  /\ started' = [started EXCEPT ![p] = TRUE]
  /\ launched' = IF started[p] \/ err[p] \/ nodes[p] = <<>> THEN launched
                 ELSE [launched EXCEPT ![p] = @ + 1]
  /\ UNCHANGED <<nodes, edges, err, mu, job>>

Inputs == UNION {[1 .. n -> Streams] : n \in 0 .. MaxInputs}

Next ==
  \E c \in Caller :
    \/ ConnectInput(c) \/ MergeReturns(c)
    \/ \E p \in Pipeline : Run(c, p)
    \/ \E isNil \in BOOLEAN :
         \/ \E p \in Pipeline : From(c, p, isNil)
         \/ \E s \in Streams, kind \in {"processor", "sink"} : Attach(c, s, kind, isNil)
         \/ \E p \in Pipeline : \E inputs \in Inputs : Merge(c, p, inputs, isNil)

Spec == Init /\ [][Next]_vars

\* A caller that is inside Merge leaves it.
FairSpec == Spec /\ \A c \in Caller : WF_vars(ConnectInput(c) \/ MergeReturns(c))

----------------------------------------------------------------------------
\* Every variable stays in its domain.
TypeOK ==
  /\ nodes \in [Pipeline -> Seq([kind : {"source", "processor", "sink"}, isNil : BOOLEAN])]
  /\ \A i \in DOMAIN edges : \A s \in {edges[i].from, edges[i].to} :
       s[1] \in Pipeline /\ s[2] \in 1 .. Len(nodes[s[1]])
  /\ started \in [Pipeline -> BOOLEAN] /\ err \in [Pipeline -> BOOLEAN]
  /\ mu \in [Pipeline -> Caller \cup {Nobody}]
  /\ launched \in [Pipeline -> Nat]

\* What PipelineRuntime assumes of a graph holds of every graph the builder
\* can make, half-merged stages included: an edge stays inside its pipeline
\* and leads to a later stage, a sink has no output and a source no input.
\* So there is no cycle, and no edge is closed by two pipelines' runs.
GraphIsBuilt ==
  \A i \in DOMAIN edges :
    LET from == edges[i].from
        to == edges[i].to
    IN  /\ from[1] = to[1] /\ from[2] < to[2]
        /\ nodes[from[1]][from[2]].kind # "sink"
        /\ nodes[to[1]][to[2]].kind # "source"

\* A pipeline's stages run at most once, and never with a nil stage among
\* them, whichever builder call was given it and in whatever order the calls
\* of several goroutines come (pipeline.go 227-239).
RunsOnceAndValid ==
  \A p \in Pipeline :
    /\ launched[p] <= 1
    /\ launched[p] > 0 => \A n \in 1 .. Len(nodes[p]) : ~nodes[p][n].isNil

\* Run freezes the graph: no stage is added and no edge connected afterwards,
\* so the goroutines read it without the mutex (pipeline.go 198-206).
EdgesOf(p, es) ==
  [i \in {j \in DOMAIN es : es[j].from[1] = p \/ es[j].to[1] = p} |-> es[i]]
GraphIsFrozen ==
  [][\A p \in Pipeline : started[p] =>
       nodes'[p] = nodes[p] /\ EdgesOf(p, edges') = EdgesOf(p, edges)]_vars

\* The mutex is always released, also when Merge panics.
MutexIsFreed == \A p \in Pipeline : mu[p] # Nobody ~> mu[p] = Nobody
=============================================================================
