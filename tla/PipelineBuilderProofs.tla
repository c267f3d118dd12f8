----------------------- MODULE PipelineBuilderProofs -----------------------
(***************************************************************************)
(* Theorems about PipelineBuilder for any pipelines, callers and bounds:   *)
(* the graphs that calls of From, Process, Merge, To and Run in any order  *)
(* can make, also when a Merge panics half way and its caller goes on.     *)
(***************************************************************************)
EXTENDS PipelineBuilder, TLAPS

Stage == [kind : {"source", "processor", "sink"}, isNil : BOOLEAN]

Place == Pipeline \X Nat

Edge == [from : Place, to : Place]

\* Every variable stays in its domain.
TypeInv ==
  /\ nodes \in [Pipeline -> Seq(Stage)]
  /\ edges \in Seq(Edge)
  /\ started \in [Pipeline -> BOOLEAN] /\ err \in [Pipeline -> BOOLEAN]
  /\ mu \in [Pipeline -> Caller \cup {Nobody}]
  /\ job \in [Caller -> [on : Place, inputs : Seq(Place)] \cup {NoJob}]
  /\ launched \in [Pipeline -> Nat]

\* The output of a stage that exists and has one.
IsStream(s) ==
  s[1] \in Pipeline /\ s[2] \in 1 .. Len(nodes[s[1]]) /\ nodes[s[1]][s[2]].kind # "sink"

\* e connects two stages of one pipeline, the earlier to the later.
EdgeOK(e) ==
  /\ IsStream(e.from)
  /\ e.from[1] = e.to[1] /\ e.from[2] < e.to[2]
  /\ e.to[2] \in 1 .. Len(nodes[e.to[1]])
  /\ nodes[e.to[1]][e.to[2]].kind # "source"

EdgesOK == \A i \in DOMAIN edges : EdgeOK(edges[i])

\* While c is in Merge it holds the mutex of the pipeline, which has not
\* started; the new stage is there and the inputs left are earlier stages'.
JobOK(c) ==
  job[c] # NoJob =>
    LET on == job[c].on
    IN  /\ on[1] \in Pipeline /\ mu[on[1]] = c /\ ~started[on[1]]
        /\ on[2] \in 1 .. Len(nodes[on[1]])
        /\ nodes[on[1]][on[2]].kind = "processor"
        /\ \A i \in DOMAIN job[c].inputs :
             /\ IsStream(job[c].inputs[i])
             /\ job[c].inputs[i][1] = on[1] => job[c].inputs[i][2] < on[2]

JobsOK == \A c \in Caller : JobOK(c)

\* p.err remembers a nil stage; only a pipeline without one was launched.
RunOK ==
  \A p \in Pipeline :
    /\ (\E n \in 1 .. Len(nodes[p]) : nodes[p][n].isNil) => err[p]
    /\ launched[p] <= 1
    /\ launched[p] > 0 => started[p] /\ ~err[p]

BuildInv == TypeInv /\ EdgesOK /\ JobsOK /\ RunOK

----------------------------------------------------------------------------
\* Appending keeps the elements before it.
LEMMA AppendFacts ==
  ASSUME NEW S, NEW s \in Seq(S), NEW e \in S
  PROVE  /\ Append(s, e) \in Seq(S) /\ Len(Append(s, e)) = Len(s) + 1 /\ Len(s) \in Nat
         /\ Append(s, e)[Len(s) + 1] = e
         /\ \A i \in 1 .. Len(s) : Append(s, e)[i] = s[i]
         /\ DOMAIN Append(s, e) = 1 .. (Len(s) + 1) /\ DOMAIN s = 1 .. Len(s)
OBVIOUS

LEMMA TailFacts ==
  ASSUME NEW S, NEW s \in Seq(S), s # <<>>
  PROVE  /\ Head(s) \in S /\ Tail(s) \in Seq(S) /\ 1 \in DOMAIN s /\ Head(s) = s[1]
         /\ \A i \in DOMAIN Tail(s) : i + 1 \in DOMAIN s /\ Tail(s)[i] = s[i + 1]
OBVIOUS

\* Stages are only ever added.
Grows ==
  \A p \in Pipeline :
    /\ Len(nodes[p]) \in Nat /\ Len(nodes'[p]) \in Nat /\ Len(nodes'[p]) >= Len(nodes[p])
    /\ \A n \in 1 .. Len(nodes[p]) : nodes'[p][n] = nodes[p][n]

LEMMA StreamsStay == ASSUME TypeInv, Grows, NEW s, IsStream(s) PROVE IsStream(s)'
BY DEF IsStream, Grows

LEMMA EdgeStays == ASSUME TypeInv, Grows, NEW e, EdgeOK(e) PROVE EdgeOK(e)'
<1>1. e.to[1] \in Pipeline /\ e.to[2] \in 1 .. Len(nodes[e.to[1]])
  BY DEF EdgeOK, IsStream
<1>2. /\ e.to[2] \in 1 .. Len(nodes'[e.to[1]])
      /\ nodes'[e.to[1]][e.to[2]] = nodes[e.to[1]][e.to[2]]
  BY <1>1 DEF Grows
<1>3. IsStream(e.from)'
  BY StreamsStay DEF EdgeOK
<1> QED BY <1>2, <1>3 DEF EdgeOK

LEMMA EdgesStay ==
  ASSUME TypeInv, Grows, EdgesOK, edges' = edges PROVE EdgesOK'
<1> SUFFICES ASSUME NEW i \in DOMAIN edges PROVE EdgeOK(edges[i])'
  BY DEF EdgesOK
<1>1. PICK e : e = edges[i]
  OBVIOUS
<1>2. EdgeOK(e)
  BY <1>1 DEF EdgesOK
<1>3. EdgeOK(e)' /\ edges'[i] = e
  BY <1>1, <1>2, EdgeStays
<1> QED BY <1>3 DEF EdgeOK, IsStream

\* Appending an edge that is in order.
LEMMA EdgeAdded ==
  ASSUME TypeInv, Grows, EdgesOK, NEW e \in Edge, EdgeOK(e)', edges' = Append(edges, e)
  PROVE  EdgesOK' /\ edges' \in Seq(Edge)
<1>1. /\ edges' \in Seq(Edge) /\ Len(edges) \in Nat
      /\ DOMAIN edges' = 1 .. (Len(edges) + 1) /\ DOMAIN edges = 1 .. Len(edges)
      /\ edges'[Len(edges) + 1] = e /\ \A i \in 1 .. Len(edges) : edges'[i] = edges[i]
  <2>1. edges \in Seq(Edge)
    BY DEF TypeInv
  <2> QED BY <2>1, AppendFacts
<1>2. ASSUME NEW i \in 1 .. (Len(edges) + 1) PROVE EdgeOK(edges[i])'
  <2>1. PICK f : f = edges'[i]
    OBVIOUS
  <2>2. CASE i \in 1 .. Len(edges)
    <3>1. EdgeOK(f)
      BY <1>1, <2>1, <2>2 DEF EdgesOK
    <3>2. EdgeOK(f)'
      BY <3>1, EdgeStays
    <3> QED BY <2>1, <3>2 DEF EdgeOK, IsStream
  <2>3. CASE i = Len(edges) + 1
    BY <1>1, <2>3 DEF EdgeOK, IsStream
  <2> QED BY <1>1, <2>2, <2>3
<1> QED BY <1>1, <1>2 DEF EdgesOK

\* A caller's job stays in order while its pipeline's mutex and start do.
LEMMA JobStays ==
  ASSUME TypeInv, Grows, NEW c \in Caller, JobOK(c), job'[c] = job[c],
         job[c] # NoJob => /\ mu'[job[c].on[1]] = mu[job[c].on[1]]
                           /\ started'[job[c].on[1]] = started[job[c].on[1]]
  PROVE  JobOK(c)'
<1> SUFFICES ASSUME job[c] # NoJob PROVE JobOK(c)'
  BY DEF JobOK, NoJob
<1> DEFINE on == job[c].on
           ins == job[c].inputs
<1>1. /\ on[1] \in Pipeline /\ mu[on[1]] = c /\ ~started[on[1]]
      /\ on[2] \in 1 .. Len(nodes[on[1]])
      /\ nodes[on[1]][on[2]].kind = "processor"
      /\ \A i \in DOMAIN ins : IsStream(ins[i]) /\ (ins[i][1] = on[1] => ins[i][2] < on[2])
  BY DEF JobOK
<1>2. job'[c].on = on /\ job'[c].inputs = ins
  OBVIOUS
<1>3. mu'[on[1]] = mu[on[1]] /\ started'[on[1]] = started[on[1]]
  OBVIOUS
<1> HIDE DEF on, ins
<1>4. on[2] \in 1 .. Len(nodes'[on[1]]) /\ nodes'[on[1]][on[2]].kind = "processor"
  BY <1>1 DEF Grows
<1>5. ASSUME NEW i \in DOMAIN ins
      PROVE  /\ ins[i][1] \in Pipeline /\ ins[i][2] \in 1 .. Len(nodes'[ins[i][1]])
             /\ nodes'[ins[i][1]][ins[i][2]].kind # "sink"
  <2>1. PICK s : s = ins[i]
    OBVIOUS
  <2>2. IsStream(s)'
    BY <1>1, <2>1, StreamsStay
  <2> QED BY <2>1, <2>2 DEF IsStream
<1> QED BY <1>1, <1>2, <1>3, <1>4, <1>5 DEF JobOK, IsStream

\* A new stage: what AddNode changes.
LEMMA AddNodeFacts ==
  ASSUME TypeInv, NEW p \in Pipeline, NEW kind \in {"source", "processor", "sink"},
         NEW isNil \in BOOLEAN, AddNode(p, kind, isNil)
  PROVE  /\ nodes' \in [Pipeline -> Seq(Stage)] /\ err' \in [Pipeline -> BOOLEAN]
         /\ ~started[p] /\ Grows
         /\ Len(nodes[p]) \in Nat /\ Len(nodes'[p]) = Len(nodes[p]) + 1
         /\ nodes'[p][Len(nodes'[p])] = [kind |-> kind, isNil |-> isNil]
         /\ err'[p] = (err[p] \/ isNil)
         /\ \A r \in Pipeline : r # p => nodes'[r] = nodes[r] /\ err'[r] = err[r]
<1> DEFINE e == [kind |-> kind, isNil |-> isNil]
<1>1. /\ ~started[p] /\ nodes' = [nodes EXCEPT ![p] = Append(nodes[p], e)]
      /\ err' = [err EXCEPT ![p] = err[p] \/ isNil]
  BY DEF AddNode, PanicsIfStarted, SetErr
<1>2. e \in Stage /\ nodes \in [Pipeline -> Seq(Stage)] /\ err \in [Pipeline -> BOOLEAN]
  BY DEF Stage, TypeInv
<1> HIDE DEF e
<1>3. /\ Append(nodes[p], e) \in Seq(Stage)
      /\ Len(Append(nodes[p], e)) = Len(nodes[p]) + 1 /\ Len(nodes[p]) \in Nat
      /\ Append(nodes[p], e)[Len(nodes[p]) + 1] = e
      /\ \A i \in 1 .. Len(nodes[p]) : Append(nodes[p], e)[i] = nodes[p][i]
  BY <1>2, AppendFacts
<1>4. /\ nodes' \in [Pipeline -> Seq(Stage)] /\ nodes'[p] = Append(nodes[p], e)
      /\ \A r \in Pipeline : r # p => nodes'[r] = nodes[r]
  BY <1>1, <1>2, <1>3
<1>5. \A r \in Pipeline : Len(nodes[r]) \in Nat
  BY <1>2
<1>6. Grows
  <2> SUFFICES ASSUME NEW r \in Pipeline
               PROVE  /\ Len(nodes'[r]) \in Nat /\ Len(nodes'[r]) >= Len(nodes[r])
                      /\ \A n \in 1 .. Len(nodes[r]) : nodes'[r][n] = nodes[r][n]
    BY <1>5 DEF Grows
  <2>1. CASE r = p
    BY <1>3, <1>4, <2>1
  <2>2. CASE r # p
    BY <1>4, <1>5, <2>2
  <2> QED BY <2>1, <2>2
<1>7. /\ err' \in [Pipeline -> BOOLEAN] /\ err'[p] = (err[p] \/ isNil)
      /\ \A r \in Pipeline : r # p => err'[r] = err[r]
  BY <1>1, <1>2
<1> QED BY <1>1, <1>3, <1>4, <1>6, <1>7 DEF e

\* The mutex was free, so no job is on p.
LEMMA NoJobOn ==
  ASSUME JobsOK, NEW p \in Pipeline, mu[p] = Nobody
  PROVE  \A d \in Caller : job[d] # NoJob => job[d].on[1] # p
BY ParameterAssumption DEF JobsOK, JobOK

\* A step that adds a stage keeps what is remembered about nil ones.
LEMMA AddNodeRunOK ==
  ASSUME TypeInv, RunOK, NEW p \in Pipeline, NEW kind \in {"source", "processor", "sink"},
         NEW isNil \in BOOLEAN, AddNode(p, kind, isNil), UNCHANGED <<started, launched>>
  PROVE  RunOK'
<1>1. /\ ~started[p] /\ Len(nodes[p]) \in Nat /\ Len(nodes'[p]) = Len(nodes[p]) + 1
      /\ nodes'[p][Len(nodes'[p])] = [kind |-> kind, isNil |-> isNil]
      /\ err'[p] = (err[p] \/ isNil) /\ Grows
      /\ \A r \in Pipeline : r # p => nodes'[r] = nodes[r] /\ err'[r] = err[r]
  BY AddNodeFacts
<1> SUFFICES ASSUME NEW r \in Pipeline
             PROVE  /\ (\E n \in 1 .. Len(nodes'[r]) : nodes'[r][n].isNil) => err'[r]
                    /\ launched[r] <= 1
                    /\ launched[r] > 0 => started[r] /\ ~err'[r]
  BY DEF RunOK
<1>2. CASE r # p
  BY <1>1, <1>2 DEF RunOK
<1>3. CASE r = p
  <2>1. ASSUME NEW n \in 1 .. Len(nodes'[p]), nodes'[p][n].isNil PROVE err'[p]
    <3>1. CASE n = Len(nodes'[p])
      BY <1>1, <2>1, <3>1
    <3>2. CASE n # Len(nodes'[p])
      <4>1. n \in 1 .. Len(nodes[p]) /\ nodes[p][n].isNil
        BY <1>1, <2>1, <3>2 DEF Grows
      <4> QED BY <1>1, <4>1 DEF RunOK
    <3> QED BY <3>1, <3>2
  <2> QED BY <1>1, <1>3, <2>1 DEF RunOK
<1> QED BY <1>2, <1>3

LEMMA BuildInvInit == Init => BuildInv
<1> SUFFICES ASSUME Init PROVE BuildInv
  OBVIOUS
<1>1. TypeInv
  BY DEF Init, TypeInv
<1>2. EdgesOK
  BY DEF Init, EdgesOK
<1>3. JobsOK
  BY DEF Init, JobsOK, JobOK
<1>4. RunOK
  BY DEF Init, RunOK
<1> QED BY <1>1, <1>2, <1>3, <1>4 DEF BuildInv

\* The streams a builder call can be given.
LEMMA StreamFacts ==
  ASSUME TypeInv
  PROVE  /\ \A s \in Streams : s \in Place /\ IsStream(s)
         /\ \A inputs \in Inputs : inputs \in Seq(Place)
                                   /\ \A i \in DOMAIN inputs : IsStream(inputs[i])
<1>1. \A p \in Pipeline : Len(nodes[p]) \in Nat
  BY DEF TypeInv
<1>2. ASSUME NEW s \in Streams PROVE s \in Place /\ IsStream(s)
  <2>1. PICK p \in Pipeline :
          s \in {<<p, n>> : n \in {n \in 1 .. Len(nodes[p]) : nodes[p][n].kind # "sink"}}
    BY DEF Streams
  <2>2. PICK n \in 1 .. Len(nodes[p]) : nodes[p][n].kind # "sink" /\ s = <<p, n>>
    BY <2>1
  <2> QED BY <1>1, <2>2 DEF Place, IsStream
<1>3. ASSUME NEW inputs \in Inputs
      PROVE  inputs \in Seq(Place) /\ \A i \in DOMAIN inputs : IsStream(inputs[i])
  <2>1. PICK n \in 0 .. MaxInputs : inputs \in [1 .. n -> Streams]
    BY DEF Inputs
  <2>2. n \in Nat
    BY <2>1, ParameterAssumption
  <2>3. inputs \in [1 .. n -> Place] /\ DOMAIN inputs = 1 .. n
    BY <1>2, <2>1
  <2> QED BY <1>2, <2>1, <2>2, <2>3
<1> QED BY <1>2, <1>3

----------------------------------------------------------------------------
(* The steps.                                                              *)

\* A step that adds a stage to a pipeline whose mutex is free, or takes it,
\* leaves the jobs of other callers in order.
LEMMA OtherJobs ==
  ASSUME BuildInv, NEW p \in Pipeline, mu[p] = Nobody, Grows, started' = started,
         NEW d \in Caller, job'[d] = job[d],
         \A r \in Pipeline : r # p => mu'[r] = mu[r]
  PROVE  JobOK(d)'
<1>1. job[d] # NoJob => job[d].on[1] # p /\ job[d].on[1] \in Pipeline
  BY NoJobOn DEF BuildInv, JobsOK, JobOK
<1> QED BY <1>1, JobStays DEF BuildInv, JobsOK

LEMMA FromStep ==
  ASSUME BuildInv, NEW c \in Caller, NEW p \in Pipeline, NEW isNil \in BOOLEAN,
         From(c, p, isNil)
  PROVE  BuildInv'
<1>1. /\ mu[p] = Nobody /\ AddNode(p, "source", isNil)
      /\ UNCHANGED <<edges, started, mu, job, launched>>
  BY DEF From, Acquires
<1>2. nodes' \in [Pipeline -> Seq(Stage)] /\ err' \in [Pipeline -> BOOLEAN] /\ Grows
  BY <1>1, AddNodeFacts DEF BuildInv
<1>3. TypeInv'
  BY <1>1, <1>2 DEF BuildInv, TypeInv
<1>4. EdgesOK'
  BY <1>1, <1>2, EdgesStay DEF BuildInv
<1>5. JobsOK'
  <2> SUFFICES ASSUME NEW d \in Caller PROVE JobOK(d)'
    BY DEF JobsOK
  <2> QED BY <1>1, <1>2, OtherJobs
<1>6. RunOK'
  BY <1>1, AddNodeRunOK DEF BuildInv
<1> QED BY <1>3, <1>4, <1>5, <1>6 DEF BuildInv

LEMMA AttachStep ==
  ASSUME BuildInv, NEW c \in Caller, NEW s \in Streams, NEW kind \in {"processor", "sink"},
         NEW isNil \in BOOLEAN, Attach(c, s, kind, isNil)
  PROVE  BuildInv'
<1> DEFINE p == s[1]
           e == [from |-> s, to |-> <<p, Len(nodes'[p])>>]
<1>1. /\ mu[p] = Nobody /\ AddNode(p, kind, isNil) /\ edges' = Append(edges, e)
      /\ UNCHANGED <<started, mu, job, launched>>
  BY DEF Attach, Acquires
<1>2. s \in Place /\ IsStream(s) /\ p \in Pipeline
  BY StreamFacts DEF BuildInv, Place
<1>3. /\ nodes' \in [Pipeline -> Seq(Stage)] /\ err' \in [Pipeline -> BOOLEAN] /\ Grows
      /\ Len(nodes[p]) \in Nat /\ Len(nodes'[p]) = Len(nodes[p]) + 1
      /\ nodes'[p][Len(nodes'[p])] = [kind |-> kind, isNil |-> isNil]
  BY <1>1, <1>2, AddNodeFacts DEF BuildInv
<1>4. EdgesOK' /\ edges' \in Seq(Edge)
  <2>1. PICK f : f = e
    OBVIOUS
  <2>2. f \in Edge /\ f.from = s /\ f.to = <<p, Len(nodes'[p])>>
    BY <1>2, <1>3, <2>1 DEF Edge, Place
  <2>3. IsStream(s)'
    BY <1>2, <1>3, StreamsStay DEF BuildInv
  <2>4. s[2] < Len(nodes'[p])
    BY <1>2, <1>3 DEF IsStream
  <2>5. EdgeOK(f)'
    BY <1>3, <2>2, <2>3, <2>4 DEF EdgeOK, IsStream
  <2> QED BY <1>1, <1>3, <2>1, <2>2, <2>5, EdgeAdded DEF BuildInv
<1>5. TypeInv'
  BY <1>1, <1>3, <1>4 DEF BuildInv, TypeInv
<1>6. JobsOK'
  <2> SUFFICES ASSUME NEW d \in Caller PROVE JobOK(d)'
    BY DEF JobsOK
  <2> QED BY <1>1, <1>2, <1>3, OtherJobs
<1>7. RunOK'
  BY <1>1, <1>2, AddNodeRunOK DEF BuildInv
<1> QED BY <1>4, <1>5, <1>6, <1>7 DEF BuildInv

LEMMA MergeStep ==
  ASSUME BuildInv, NEW c \in Caller, NEW p \in Pipeline, NEW inputs \in Inputs,
         NEW isNil \in BOOLEAN, Merge(c, p, inputs, isNil)
  PROVE  BuildInv'
<1> DEFINE n == Len(nodes'[p])
<1>1. /\ job[c] = NoJob /\ mu[p] = Nobody /\ AddNode(p, "processor", isNil)
      /\ mu' = [mu EXCEPT ![p] = c]
      /\ job' = [job EXCEPT ![c] = [on |-> <<p, n>>, inputs |-> inputs]]
      /\ UNCHANGED <<edges, started, launched>>
  BY DEF Merge, Acquires
<1>2. inputs \in Seq(Place) /\ \A i \in DOMAIN inputs : IsStream(inputs[i])
  BY StreamFacts DEF BuildInv
<1>3. /\ nodes' \in [Pipeline -> Seq(Stage)] /\ err' \in [Pipeline -> BOOLEAN] /\ Grows
      /\ ~started[p] /\ Len(nodes[p]) \in Nat /\ n = Len(nodes[p]) + 1
      /\ nodes'[p][n] = [kind |-> "processor", isNil |-> isNil]
  BY <1>1, AddNodeFacts DEF BuildInv
<1>4. /\ mu' \in [Pipeline -> Caller \cup {Nobody}] /\ mu'[p] = c
      /\ \A r \in Pipeline : r # p => mu'[r] = mu[r]
  BY <1>1 DEF BuildInv, TypeInv
<1> HIDE DEF n
<1>5. /\ job' \in [Caller -> [on : Place, inputs : Seq(Place)] \cup {NoJob}]
      /\ job'[c] = [on |-> <<p, n>>, inputs |-> inputs]
      /\ \A d \in Caller : d # c => job'[d] = job[d]
  <2>1. [on |-> <<p, n>>, inputs |-> inputs] \in [on : Place, inputs : Seq(Place)]
    BY <1>2, <1>3 DEF Place
  <2> QED BY <1>1, <2>1 DEF BuildInv, TypeInv
<1>6. TypeInv'
  BY <1>1, <1>3, <1>4, <1>5 DEF BuildInv, TypeInv
<1>7. EdgesOK'
  BY <1>1, <1>3, EdgesStay DEF BuildInv
<1>8. JobOK(c)'
  <2>1. ASSUME NEW i \in DOMAIN inputs
        PROVE  IsStream(inputs[i])' /\ (inputs[i][1] = p => inputs[i][2] < n)
    <3>1. IsStream(inputs[i])'
      BY <1>2, <1>3, StreamsStay DEF BuildInv
    <3>2. inputs[i][1] = p => inputs[i][2] < n
      BY <1>2, <1>3 DEF IsStream
    <3> QED BY <3>1, <3>2
  <2>2. n \in 1 .. Len(nodes'[p])
    BY <1>3 DEF n
  <2>3. job'[c].on[1] = p /\ job'[c].on[2] = n /\ job'[c].inputs = inputs
    BY <1>5
  <2>4. mu'[p] = c /\ ~started'[p] /\ nodes'[p][n].kind = "processor"
    BY <1>1, <1>3, <1>4
  <2> QED BY ONLY p \in Pipeline, <2>1, <2>2, <2>3, <2>4 DEF JobOK, IsStream
<1>9. JobsOK'
  <2> SUFFICES ASSUME NEW d \in Caller PROVE JobOK(d)'
    BY DEF JobsOK
  <2>1. CASE d = c
    BY <1>8, <2>1
  <2>2. CASE d # c
    BY <1>1, <1>3, <1>4, <1>5, <2>2, OtherJobs
  <2> QED BY <2>1, <2>2
<1>10. RunOK'
  BY <1>1, AddNodeRunOK DEF BuildInv
<1> QED BY <1>6, <1>7, <1>9, <1>10 DEF BuildInv

\* Without a new stage everything grows in the same way.
LEMMA SameNodesGrow == ASSUME TypeInv, nodes' = nodes PROVE Grows
BY DEF TypeInv, Grows

LEMMA ConnectStep ==
  ASSUME BuildInv, NEW c \in Caller, ConnectInput(c) PROVE BuildInv'
<1> DEFINE on == job[c].on
           ins == job[c].inputs
           e == [from |-> Head(ins), to |-> on]
<1>1. /\ ins # <<>> /\ Head(ins)[1] = on[1] /\ edges' = Append(edges, e)
      /\ job' = [job EXCEPT ![c] = [job[c] EXCEPT !.inputs = Tail(ins)]]
      /\ UNCHANGED <<nodes, started, err, mu, launched>>
  BY DEF ConnectInput, MergeRejects
<1>2. job[c] # NoJob /\ job[c] \in [on : Place, inputs : Seq(Place)]
  BY <1>1 DEF BuildInv, TypeInv, NoJob
<1>3. /\ Head(ins) \in Place /\ Tail(ins) \in Seq(Place) /\ 1 \in DOMAIN ins
      /\ Head(ins) = ins[1]
      /\ \A i \in DOMAIN Tail(ins) : i + 1 \in DOMAIN ins /\ Tail(ins)[i] = ins[i + 1]
  BY <1>1, <1>2, TailFacts
<1>4. /\ on[1] \in Pipeline /\ mu[on[1]] = c /\ ~started[on[1]]
      /\ on[2] \in 1 .. Len(nodes[on[1]])
      /\ nodes[on[1]][on[2]].kind = "processor"
      /\ \A i \in DOMAIN ins : IsStream(ins[i]) /\ (ins[i][1] = on[1] => ins[i][2] < on[2])
  BY <1>2 DEF BuildInv, JobsOK, JobOK
<1>5. Grows
  BY <1>1, SameNodesGrow DEF BuildInv
<1>6. EdgesOK' /\ edges' \in Seq(Edge)
  <2>1. PICK f : f = e
    OBVIOUS
  <2>2. f \in Edge /\ f.from = ins[1] /\ f.to = on
    BY <1>2, <1>3, <2>1 DEF Edge
  <2>3. EdgeOK(f)
    BY <1>1, <1>3, <1>4, <2>2 DEF EdgeOK
  <2>4. EdgeOK(f)'
    BY <1>5, <2>3, EdgeStays DEF BuildInv
  <2> QED BY <1>1, <1>5, <2>1, <2>2, <2>4, EdgeAdded DEF BuildInv
<1>7. /\ job' \in [Caller -> [on : Place, inputs : Seq(Place)] \cup {NoJob}]
      /\ job'[c] = [on |-> on, inputs |-> Tail(ins)]
      /\ \A d \in Caller : d # c => job'[d] = job[d]
  <2>1. [job[c] EXCEPT !.inputs = Tail(ins)] = [on |-> on, inputs |-> Tail(ins)]
    <3>1. \A j \in [on : Place, inputs : Seq(Place)], t \in Seq(Place) :
            [j EXCEPT !.inputs = t] = [on |-> j.on, inputs |-> t]
      OBVIOUS
    <3> QED BY <1>2, <1>3, <3>1
  <2>2. [on |-> on, inputs |-> Tail(ins)] \in [on : Place, inputs : Seq(Place)]
    BY <1>2, <1>3
  <2> QED BY <1>1, <2>1, <2>2 DEF BuildInv, TypeInv
<1>8. TypeInv'
  BY <1>1, <1>6, <1>7 DEF BuildInv, TypeInv
<1>9. JobOK(c)'
  <2> HIDE DEF on, ins
  <2>1. \A i \in DOMAIN Tail(ins) :
          IsStream(Tail(ins)[i]) /\ (Tail(ins)[i][1] = on[1] => Tail(ins)[i][2] < on[2])
    BY <1>3, <1>4
  <2>2. /\ job'[c].on = on /\ job'[c].inputs = Tail(ins)
    BY <1>7
  <2> QED BY <1>1, <1>4, <2>1, <2>2 DEF JobOK, IsStream
<1>10. JobsOK'
  <2> SUFFICES ASSUME NEW d \in Caller PROVE JobOK(d)'
    BY DEF JobsOK
  <2>1. CASE d = c
    BY <1>9, <2>1
  <2>2. CASE d # c
    BY <1>1, <1>5, <1>7, <2>2, JobStays DEF BuildInv, JobsOK
  <2> QED BY <2>1, <2>2
<1>11. RunOK'
  BY <1>1 DEF BuildInv, RunOK
<1> QED BY <1>6, <1>8, <1>10, <1>11 DEF BuildInv

LEMMA ReturnStep ==
  ASSUME BuildInv, NEW c \in Caller, MergeReturns(c) PROVE BuildInv'
<1> DEFINE p == job[c].on[1]
<1>1. /\ job[c] # NoJob /\ mu' = [mu EXCEPT ![p] = Nobody]
      /\ job' = [job EXCEPT ![c] = NoJob]
      /\ UNCHANGED <<nodes, edges, started, err, launched>>
  BY DEF MergeReturns
<1>2. p \in Pipeline /\ mu[p] = c
  BY <1>1 DEF BuildInv, JobsOK, JobOK
<1>3. /\ mu' \in [Pipeline -> Caller \cup {Nobody}]
      /\ \A r \in Pipeline : r # p => mu'[r] = mu[r]
  BY <1>1 DEF BuildInv, TypeInv
<1>4. /\ job' \in [Caller -> [on : Place, inputs : Seq(Place)] \cup {NoJob}]
      /\ job'[c] = NoJob /\ \A d \in Caller : d # c => job'[d] = job[d]
  BY <1>1 DEF BuildInv, TypeInv
<1>5. TypeInv' /\ Grows
  BY <1>1, <1>3, <1>4, SameNodesGrow DEF BuildInv, TypeInv
<1>6. JobsOK'
  <2> SUFFICES ASSUME NEW d \in Caller, d # c PROVE JobOK(d)'
    BY <1>4 DEF JobsOK, JobOK
  <2>1. job[d] # NoJob => job[d].on[1] \in Pipeline /\ job[d].on[1] # p
    BY <1>2 DEF BuildInv, JobsOK, JobOK
  <2> QED BY <1>1, <1>3, <1>4, <1>5, <2>1, JobStays DEF BuildInv, JobsOK
<1>7. EdgesOK'
  BY <1>1, <1>5, EdgesStay DEF BuildInv
<1>8. RunOK'
  BY <1>1 DEF BuildInv, RunOK
<1> QED BY <1>5, <1>6, <1>7, <1>8 DEF BuildInv

LEMMA RunStep ==
  ASSUME BuildInv, NEW c \in Caller, NEW p \in Pipeline, Run(c, p) PROVE BuildInv'
<1> DEFINE stays == started[p] \/ err[p] \/ nodes[p] = <<>>
<1>1. /\ mu[p] = Nobody /\ started' = [started EXCEPT ![p] = TRUE]
      /\ launched' = IF stays THEN launched ELSE [launched EXCEPT ![p] = launched[p] + 1]
      /\ UNCHANGED <<nodes, edges, err, mu, job>>
  BY DEF Run, Acquires
<1>2. /\ started' \in [Pipeline -> BOOLEAN] /\ started'[p]
      /\ \A r \in Pipeline : r # p => started'[r] = started[r]
  BY <1>1 DEF BuildInv, TypeInv
<1>3. /\ launched' \in [Pipeline -> Nat]
      /\ launched'[p] = IF stays THEN launched[p] ELSE launched[p] + 1
      /\ \A r \in Pipeline : r # p => launched'[r] = launched[r]
  BY <1>1 DEF BuildInv, TypeInv
<1>4. TypeInv' /\ Grows
  BY <1>1, <1>2, <1>3, SameNodesGrow DEF BuildInv, TypeInv
<1>5. JobsOK'
  <2> SUFFICES ASSUME NEW d \in Caller PROVE JobOK(d)'
    BY DEF JobsOK
  <2>1. job[d] # NoJob => job[d].on[1] \in Pipeline /\ job[d].on[1] # p
    BY <1>1, NoJobOn DEF BuildInv, JobsOK, JobOK
  <2> QED BY <1>1, <1>2, <1>4, <2>1, JobStays DEF BuildInv, JobsOK
<1>6. EdgesOK'
  BY <1>1, <1>4, EdgesStay DEF BuildInv
<1>7. RunOK'
  <2>1. launched[p] \in Nat /\ (launched[p] > 0 => started[p] /\ ~err[p]) /\ launched[p] <= 1
    BY DEF BuildInv, TypeInv, RunOK
  <2>2. launched'[p] <= 1 /\ (launched'[p] > 0 => started'[p] /\ ~err'[p])
    BY <1>1, <1>2, <1>3, <2>1
  <2> QED BY <1>1, <1>2, <1>3, <2>2 DEF BuildInv, RunOK
<1> QED BY <1>4, <1>5, <1>6, <1>7 DEF BuildInv

\* BuildInv is an invariant of the specification.
THEOREM BuildInvariant == Spec => []BuildInv
<1>1. BuildInv /\ [Next]_vars => BuildInv'
  <2> SUFFICES ASSUME BuildInv, [Next]_vars PROVE BuildInv'
    OBVIOUS
  <2>1. ASSUME NEW c \in Caller, ConnectInput(c) PROVE BuildInv'
    BY <2>1, ConnectStep
  <2>2. ASSUME NEW c \in Caller, MergeReturns(c) PROVE BuildInv'
    BY <2>2, ReturnStep
  <2>3. ASSUME NEW c \in Caller, NEW p \in Pipeline, Run(c, p) PROVE BuildInv'
    BY <2>3, RunStep
  <2>4. ASSUME NEW c \in Caller, NEW p \in Pipeline, NEW isNil \in BOOLEAN,
               From(c, p, isNil)
        PROVE  BuildInv'
    BY <2>4, FromStep
  <2>5. ASSUME NEW c \in Caller, NEW s \in Streams, NEW kind \in {"processor", "sink"},
               NEW isNil \in BOOLEAN, Attach(c, s, kind, isNil)
        PROVE  BuildInv'
    BY <2>5, AttachStep
  <2>6. ASSUME NEW c \in Caller, NEW p \in Pipeline, NEW inputs \in Inputs,
               NEW isNil \in BOOLEAN, Merge(c, p, inputs, isNil)
        PROVE  BuildInv'
    BY <2>6, MergeStep
  <2>7. CASE UNCHANGED vars
    <3>1. TypeInv' /\ Grows /\ EdgesOK'
      BY <2>7, SameNodesGrow, EdgesStay DEF vars, BuildInv, TypeInv
    <3>2. JobsOK'
      BY <2>7, <3>1, JobStays DEF vars, BuildInv, JobsOK
    <3> QED BY <2>7, <3>1, <3>2 DEF vars, BuildInv, RunOK
  <2> QED BY <2>1, <2>2, <2>3, <2>4, <2>5, <2>6, <2>7 DEF Next
<1> QED BY <1>1, BuildInvInit, PTL DEF Spec

----------------------------------------------------------------------------
(* What follows.                                                           *)

\* Every variable stays in its domain, and an edge leads to stages that exist.
THEOREM BuilderTypeCorrect == Spec => []TypeOK
<1>1. ASSUME BuildInv PROVE TypeOK
  <2>1. \A i \in DOMAIN edges : edges[i].from[1] \in Pipeline /\ edges[i].to[1] \in Pipeline
    BY <1>1 DEF BuildInv, EdgesOK, EdgeOK, IsStream
  <2>2. \A i \in DOMAIN edges : /\ edges[i].from[2] \in 1 .. Len(nodes[edges[i].from[1]])
                                /\ edges[i].to[2] \in 1 .. Len(nodes[edges[i].to[1]])
    BY <1>1 DEF BuildInv, EdgesOK, EdgeOK, IsStream
  <2> QED BY <1>1, <2>1, <2>2 DEF TypeOK, BuildInv, TypeInv, Stage
<1> QED BY <1>1, BuildInvariant, PTL

\* The graphs that reach Run are those PipelineRuntime assumes, whatever calls
\* built them and whichever of them panicked.
THEOREM GraphsAreAcyclic == Spec => []GraphIsBuilt
<1>1. BuildInv => GraphIsBuilt
  BY DEF BuildInv, EdgesOK, EdgeOK, IsStream, GraphIsBuilt
<1> QED BY <1>1, BuildInvariant, PTL

\* A pipeline's stages are launched once at most, and none of them is nil.
THEOREM LaunchedOnceAndValid == Spec => []RunsOnceAndValid
<1>1. BuildInv => RunsOnceAndValid
  BY DEF BuildInv, RunOK, RunsOnceAndValid
<1> QED BY <1>1, BuildInvariant, PTL

\* Once Run has set started, no step of any caller adds a stage to the pipeline
\* or connects an edge of it, a Merge that began earlier included.
THEOREM StartedGraphIsFrozen == Spec => GraphIsFrozen
<1> DEFINE Frozen == \A p \in Pipeline : started[p] =>
                       nodes'[p] = nodes[p] /\ EdgesOf(p, edges') = EdgesOf(p, edges)
<1>1. ASSUME BuildInv, [Next]_vars PROVE Frozen
  <2> SUFFICES ASSUME NEW p \in Pipeline, started[p]
               PROVE  nodes'[p] = nodes[p] /\ EdgesOf(p, edges') = EdgesOf(p, edges)
    OBVIOUS
  <2>1. ASSUME NEW e \in Edge, e.from[1] # p, e.to[1] # p, edges' = Append(edges, e)
        PROVE  EdgesOf(p, edges') = EdgesOf(p, edges)
    <3>1. /\ Len(edges) \in Nat
          /\ DOMAIN edges' = 1 .. (Len(edges) + 1) /\ DOMAIN edges = 1 .. Len(edges)
          /\ edges'[Len(edges) + 1] = e /\ \A i \in 1 .. Len(edges) : edges'[i] = edges[i]
      <4>1. edges \in Seq(Edge)
        BY <1>1 DEF BuildInv, TypeInv
      <4> QED BY <2>1, <4>1, AppendFacts
    <3>2. {j \in DOMAIN edges' : edges'[j].from[1] = p \/ edges'[j].to[1] = p}
            = {j \in DOMAIN edges : edges[j].from[1] = p \/ edges[j].to[1] = p}
      BY <2>1, <3>1
    <3>3. \A j \in DOMAIN edges : edges'[j] = edges[j]
      BY <3>1
    <3> QED BY <3>2, <3>3 DEF EdgesOf
  <2>2. ASSUME NEW c \in Caller, NEW r \in Pipeline, NEW isNil \in BOOLEAN, From(c, r, isNil)
        PROVE  nodes'[p] = nodes[p] /\ edges' = edges
    <3>1. AddNode(r, "source", isNil) /\ edges' = edges
      BY <2>2 DEF From
    <3> QED BY <1>1, <3>1, AddNodeFacts DEF BuildInv
  <2>3. ASSUME NEW c \in Caller, NEW s \in Streams, NEW kind \in {"processor", "sink"},
               NEW isNil \in BOOLEAN, Attach(c, s, kind, isNil)
        PROVE  nodes'[p] = nodes[p] /\ EdgesOf(p, edges') = EdgesOf(p, edges)
    <3> DEFINE e == [from |-> s, to |-> <<s[1], Len(nodes'[s[1]])>>]
    <3>1. AddNode(s[1], kind, isNil) /\ edges' = Append(edges, e)
      BY <2>3 DEF Attach
    <3>2. s \in Place /\ s[1] \in Pipeline
      BY <1>1, StreamFacts DEF BuildInv, Place
    <3>3. /\ ~started[s[1]] /\ Len(nodes'[s[1]]) \in Nat
          /\ \A r \in Pipeline : r # s[1] => nodes'[r] = nodes[r]
      <4>1. /\ ~started[s[1]] /\ Grows
            /\ \A r \in Pipeline : r # s[1] => nodes'[r] = nodes[r]
        <5>1. PICK o \in Pipeline : o = s[1]
          BY <3>2
        <5>2. AddNode(o, kind, isNil) /\ kind \in {"source", "processor", "sink"} /\ TypeInv
          BY <1>1, <3>1, <5>1 DEF BuildInv
        <5>3. ~started[o] /\ Grows /\ \A r \in Pipeline : r # o => nodes'[r] = nodes[r]
          BY <5>2, AddNodeFacts
        <5> QED BY <5>1, <5>3
      <4> QED BY <3>2, <4>1 DEF Grows
    <3>4. e \in Edge /\ e.from[1] # p /\ e.to[1] # p
      BY <3>2, <3>3 DEF Edge, Place
    <3> QED BY <2>1, <3>1, <3>3, <3>4
  <2>4. ASSUME NEW c \in Caller, NEW r \in Pipeline, NEW inputs \in Inputs,
               NEW isNil \in BOOLEAN, Merge(c, r, inputs, isNil)
        PROVE  nodes'[p] = nodes[p] /\ edges' = edges
    <3>1. AddNode(r, "processor", isNil) /\ edges' = edges
      BY <2>4 DEF Merge
    <3> QED BY <1>1, <3>1, AddNodeFacts DEF BuildInv
  <2>5. ASSUME NEW c \in Caller, ConnectInput(c)
        PROVE  nodes'[p] = nodes[p] /\ EdgesOf(p, edges') = EdgesOf(p, edges)
    <3> DEFINE e == [from |-> Head(job[c].inputs), to |-> job[c].on]
    <3>1. /\ job[c].inputs # <<>> /\ Head(job[c].inputs)[1] = job[c].on[1]
          /\ edges' = Append(edges, e) /\ nodes' = nodes
      BY <2>5 DEF ConnectInput, MergeRejects
    <3>2. job[c] # NoJob /\ job[c] \in [on : Place, inputs : Seq(Place)]
      BY <1>1, <3>1 DEF BuildInv, TypeInv, NoJob
    <3>3. ~started[job[c].on[1]] /\ Head(job[c].inputs) \in Place
      BY <1>1, <3>1, <3>2 DEF BuildInv, JobsOK, JobOK
    <3>4. e \in Edge /\ e.from[1] # p /\ e.to[1] # p
      BY <3>1, <3>2, <3>3 DEF Edge
    <3> QED BY <2>1, <3>1, <3>4
  <2>6. ASSUME NEW c \in Caller, MergeReturns(c) \/ \E r \in Pipeline : Run(c, r)
        PROVE  nodes' = nodes /\ edges' = edges
    BY <2>6 DEF MergeReturns, Run
  <2> QED BY <1>1, <2>2, <2>3, <2>4, <2>5, <2>6 DEF Next, vars
<1>2. BuildInv /\ [Next]_vars => [Frozen]_vars
  BY <1>1
<1> QED BY <1>2, BuildInvariant, PTL DEF Spec, GraphIsFrozen
=============================================================================
