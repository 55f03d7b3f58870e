------------------------ MODULE AudioAdmission_proofs ------------------------
(***************************************************************************)
(* The slots and the memory of the admission, for every number of works,   *)
(* every limit and every size: the counters that decide count the holders  *)
(* and the bytes they reserved, these cover what is in memory, and a       *)
(* provider that may still be working holds a slot.                        *)
(***************************************************************************)
EXTENDS AudioAdmission, FiniteSetTheorems, TLAPS

USE WorksAreFinite DEF WorksAreFinite

Counted(counter, leases) ==
  /\ counter = Cardinality(Holders(leases))
  /\ counter \in Nat

WorksOK ==
  /\ stage \in [Works -> Stages]
  /\ provider \in [Works -> ProviderStates]
  /\ body \in [Works -> Nat]

\* Before its provider starts, a work has none.
Before == {"idle", "starting", "open", "spooling", "stopping", "claimed", "uploaded"}

ProvidersStartLate == \A w \in Works : stage[w] \in Before => provider[w] = "none"

\* A handler holds its ingress lease only while it runs.
IngressFollowsHandler == \A w \in Works : ingress[w].held => stage[w] \notin {"idle", "over"}

\* The inductive invariant: the counters alone do not say who holds what, so it
\* carries the leases, and the stages in which each of them may be held.
IngressOK ==
  /\ ingress \in [Works -> Leases]
  /\ Counted(ingressLeases, ingress) /\ ingressLeases <= MaxIngressLeases

PipelineOK ==
  /\ pipeline \in [Works -> Leases]
  /\ Counted(pipelineLeases, pipeline) /\ pipelineLeases <= MaxPipelines

IInv ==
  /\ IngressOK
  /\ PipelineOK
  /\ WorksOK
  /\ ProvidersStartLate
  /\ IngressFollowsHandler
  /\ CapacityFollowsWork

-----------------------------------------------------------------------------
(* Leases and their holders.                                                *)

\* The holders are finitely many, so they can be counted.
LEMMA HoldersFinite ==
  ASSUME NEW leases
  PROVE  IsFiniteSet(Holders(leases)) /\ Cardinality(Holders(leases)) \in Nat
<1>1. Holders(leases) \subseteq Works
  BY DEF Holders
<1>2. IsFiniteSet(Holders(leases))
  BY <1>1, FS_Subset
<1> QED
  BY <1>2, FS_CardinalityType

\* Taking a lease adds one holder.
LEMMA TakeCounts ==
  ASSUME NEW leases \in [Works -> Leases], NEW w \in Works, NEW counter, NEW bytes \in Nat,
         Counted(counter, leases), ~leases[w].held
  PROVE  Counted(counter + 1, [leases EXCEPT ![w] = [held |-> TRUE, bytes |-> bytes]])
<1> DEFINE next == [leases EXCEPT ![w] = [held |-> TRUE, bytes |-> bytes]]
<1>1. Holders(next) = Holders(leases) \union {w}
  BY DEF Holders, Leases
<1>2. w \notin Holders(leases)
  BY DEF Holders
<1>3. Cardinality(Holders(leases) \union {w}) = Cardinality(Holders(leases)) + 1
  BY <1>2, HoldersFinite, FS_AddElement
<1>4. counter + 1 \in Nat /\ counter + 1 = Cardinality(Holders(leases)) + 1
  BY DEF Counted
<1> QED
  BY <1>1, <1>3, <1>4 DEF Counted

\* Giving a lease back removes one holder, so the counter cannot underflow.
LEMMA GiveCounts ==
  ASSUME NEW leases \in [Works -> Leases], NEW w \in Works, NEW counter,
         Counted(counter, leases), leases[w].held
  PROVE  Counted(counter - 1, [leases EXCEPT ![w] = [held |-> FALSE, bytes |-> 0]])
<1> DEFINE next == [leases EXCEPT ![w] = [held |-> FALSE, bytes |-> 0]]
<1>1. Holders(next) = Holders(leases) \ {w}
  BY DEF Holders, Leases
<1>2. w \in Holders(leases)
  BY DEF Holders
<1>3. Cardinality(Holders(leases) \ {w}) = Cardinality(Holders(leases)) - 1
  BY <1>2, HoldersFinite, FS_RemoveElement
<1>4. Cardinality(Holders(next)) \in Nat
  BY HoldersFinite
<1> QED
  BY <1>1, <1>3, <1>4 DEF Counted

\* Growing a lease leaves its holder where it is.
LEMMA GrowCounts ==
  ASSUME NEW leases \in [Works -> Leases], NEW w \in Works, NEW counter, NEW bytes \in Nat,
         Counted(counter, leases)
  PROVE  /\ [leases EXCEPT ![w].bytes = @ + bytes] \in [Works -> Leases]
         /\ Counted(counter, [leases EXCEPT ![w].bytes = @ + bytes])
<1> DEFINE next == [leases EXCEPT ![w].bytes = @ + bytes]
<1>1. next \in [Works -> Leases]
  BY DEF Leases
<1>2. Holders(next) = Holders(leases)
  BY DEF Holders, Leases
<1> QED
  BY <1>1, <1>2 DEF Counted

-----------------------------------------------------------------------------
(* The admission's own steps.                                               *)

\* Ingress reservations of any size keep the count.
LEMMA ReserveKeeps ==
  ASSUME IngressOK, NEW w \in Works, NEW bytes \in Nat, ReserveIngress(w, bytes)
  PROVE  IngressOK'
<1>1. ingress \in [Works -> Leases] /\ Counted(ingressLeases, ingress)
  BY DEF IngressOK
<1>2. /\ ingress' = [ingress EXCEPT ![w].bytes = @ + bytes]
      /\ ingressLeases' = ingressLeases
  BY DEF ReserveIngress
<1>3. ingress' \in [Works -> Leases] /\ Counted(ingressLeases, ingress')
  BY <1>1, <1>2, GrowCounts
<1> QED
  BY <1>2, <1>3 DEF IngressOK, Counted

\* A slot is only given while one is free.
LEMMA BeginKeeps ==
  ASSUME IngressOK, NEW w \in Works, ~ingress[w].held, BeginIngress(w)
  PROVE  IngressOK'
<1>1. ingress \in [Works -> Leases] /\ Counted(ingressLeases, ingress)
  BY DEF IngressOK
<1>2. /\ ingress' = [ingress EXCEPT ![w] = [held |-> TRUE, bytes |-> 0]]
      /\ ingressLeases' = ingressLeases + 1
      /\ ingressLeases < MaxIngressLeases
  BY DEF BeginIngress
<1>3. Counted(ingressLeases + 1, ingress')
  BY <1>1, <1>2, TakeCounts
<1>4. ingress' \in [Works -> Leases]
  BY <1>1, <1>2 DEF Leases
<1>5. ingressLeases \in Nat /\ MaxIngressLeases \in Nat
  BY <1>1, LimitsArePositive DEF Counted, LimitsArePositive
<1>6. ingressLeases + 1 <= MaxIngressLeases
  BY <1>2, <1>5
<1> QED
  BY <1>2, <1>3, <1>4, <1>6 DEF IngressOK, Counted

\* Releasing keeps the count, whether or not anything was held.
LEMMA ReleaseIngressKeeps ==
  ASSUME IngressOK, NEW w \in Works, ReleaseIngress(w)
  PROVE  IngressOK'
<1>1. ingress \in [Works -> Leases] /\ Counted(ingressLeases, ingress)
  BY DEF IngressOK
<1>2. CASE ~ingress[w].held
  <2>1. UNCHANGED <<ingress, ingressLeases>>
    BY <1>2 DEF ReleaseIngress, ingressVars
  <2> QED
    BY <2>1 DEF IngressOK, Counted, Holders
<1>3. CASE ingress[w].held
  <2>1. /\ ingress' = [ingress EXCEPT ![w] = [held |-> FALSE, bytes |-> 0]]
        /\ ingressLeases' = ingressLeases - 1
    BY <1>3 DEF ReleaseIngress
  <2>2. Counted(ingressLeases - 1, ingress')
    BY <1>1, <1>3, <2>1, GiveCounts
  <2>3. ingress' \in [Works -> Leases]
    BY <1>1, <2>1 DEF Leases
  <2>4. ingressLeases \in Nat /\ MaxIngressLeases \in Nat /\ ingressLeases <= MaxIngressLeases
    BY <1>1, LimitsArePositive DEF Counted, LimitsArePositive, IngressOK
  <2>5. ingressLeases - 1 <= MaxIngressLeases
    BY <2>4
  <2> QED
    BY <2>1, <2>2, <2>3, <2>5 DEF IngressOK, Counted
<1> QED
  BY <1>2, <1>3

\* The same for the slots of the pipelines, together with who holds them after.
LEMMA AcquireKeeps ==
  ASSUME PipelineOK, NEW w \in Works, ~pipeline[w].held, NEW bytes \in Nat,
         AcquirePipeline(w, bytes)
  PROVE  PipelineOK'
<1>1. pipeline \in [Works -> Leases] /\ Counted(pipelineLeases, pipeline)
  BY DEF PipelineOK
<1>2. /\ pipeline' = [pipeline EXCEPT ![w] = [held |-> TRUE, bytes |-> bytes]]
      /\ pipelineLeases' = pipelineLeases + 1
      /\ pipelineLeases < MaxPipelines
  BY DEF AcquirePipeline
<1>3. Counted(pipelineLeases + 1, pipeline')
  BY <1>1, <1>2, TakeCounts
<1>4. pipeline' \in [Works -> Leases]
  BY <1>1, <1>2 DEF Leases
<1>5. pipelineLeases \in Nat /\ MaxPipelines \in Nat
  BY <1>1, LimitsArePositive DEF Counted, LimitsArePositive
<1>6. pipelineLeases + 1 <= MaxPipelines
  BY <1>2, <1>5
<1> QED
  BY <1>2, <1>3, <1>4, <1>6 DEF PipelineOK, Counted

LEMMA ReleasePipelineKeeps ==
  ASSUME PipelineOK, NEW w \in Works, ReleasePipeline(w)
  PROVE  /\ PipelineOK'
         /\ ~pipeline'[w].held
         /\ \A v \in Works \ {w} : pipeline'[v] = pipeline[v]
<1>1. pipeline \in [Works -> Leases] /\ Counted(pipelineLeases, pipeline)
  BY DEF PipelineOK
<1>2. CASE ~pipeline[w].held
  <2>1. UNCHANGED <<pipeline, pipelineLeases>>
    BY <1>2 DEF ReleasePipeline, pipelineVars
  <2> QED
    BY <1>2, <2>1 DEF PipelineOK, Counted, Holders
<1>3. CASE pipeline[w].held
  <2>1. /\ pipeline' = [pipeline EXCEPT ![w] = [held |-> FALSE, bytes |-> 0]]
        /\ pipelineLeases' = pipelineLeases - 1
    BY <1>3 DEF ReleasePipeline
  <2>2. Counted(pipelineLeases - 1, pipeline')
    BY <1>1, <1>3, <2>1, GiveCounts
  <2>3. pipeline' \in [Works -> Leases]
    BY <1>1, <2>1 DEF Leases
  <2>4. pipelineLeases \in Nat /\ MaxPipelines \in Nat /\ pipelineLeases <= MaxPipelines
    BY <1>1, LimitsArePositive DEF Counted, LimitsArePositive, PipelineOK
  <2>5. pipelineLeases - 1 <= MaxPipelines
    BY <2>4
  <2>6. ~pipeline'[w].held /\ \A v \in Works \ {w} : pipeline'[v] = pipeline[v]
    BY <1>1, <2>1
  <2> QED
    BY <2>1, <2>2, <2>3, <2>5, <2>6 DEF PipelineOK, Counted
<1> QED
  BY <1>2, <1>3
-----------------------------------------------------------------------------
(* The invariant is inductive.                                              *)

\* The holders of a table in which nobody holds anything.
LEMMA InitHolds == Init => IInv
<1> SUFFICES ASSUME Init PROVE IInv
  OBVIOUS
<1>1. Holders(ingress) = {} /\ Holders(pipeline) = {}
  BY DEF Init, Holders
<1>2. Counted(ingressLeases, ingress) /\ Counted(pipelineLeases, pipeline)
  BY <1>1, FS_EmptySet DEF Init, Counted
<1>3. 0 <= MaxIngressLeases /\ 0 <= MaxPipelines
  BY LimitsArePositive DEF LimitsArePositive
<1>4. IngressOK /\ PipelineOK
  BY <1>2, <1>3 DEF Init, IngressOK, PipelineOK, Leases
<1>5. WorksOK
  BY DEF Init, WorksOK, Stages, ProviderStates
<1> QED
  BY <1>4, <1>5 DEF Init, IInv, ProvidersStartLate, IngressFollowsHandler, CapacityFollowsWork

\* What an action does to a work's stage and provider keeps the claims about who
\* may hold what, if it leaves every other work's alone.
LEMMA OneWorkMoves ==
  ASSUME IInv, NEW w \in Works, WorksOK', IngressOK', PipelineOK',
         \A v \in Works \ {w} :
           /\ stage'[v] = stage[v] /\ provider'[v] = provider[v]
           /\ ingress'[v].held = ingress[v].held /\ pipeline'[v].held = pipeline[v].held,
         stage'[w] \in Before => provider'[w] = "none",
         ingress'[w].held => stage'[w] \notin {"idle", "over"},
         pipeline'[w].held <=> (stage'[w] = "uploaded" \/ provider'[w] \in {"working", "settling"})
  PROVE  IInv'
<1>1. ProvidersStartLate'
  BY DEF IInv, ProvidersStartLate
<1>2. IngressFollowsHandler'
  BY DEF IInv, IngressFollowsHandler
<1>3. CapacityFollowsWork'
  BY DEF IInv, CapacityFollowsWork
<1> QED
  BY <1>1, <1>2, <1>3 DEF IInv

\* What the invariant says of one work.
LEMMA OfOne ==
  ASSUME IInv, NEW w \in Works
  PROVE  /\ ingress \in [Works -> Leases] /\ pipeline \in [Works -> Leases]
         /\ stage \in [Works -> Stages] /\ provider \in [Works -> ProviderStates]
         /\ body \in [Works -> Nat] /\ body[w] \in Nat
         /\ stage[w] \in Before => provider[w] = "none"
         /\ ingress[w].held => stage[w] \notin {"idle", "over"}
         /\ pipeline[w].held <=> (stage[w] = "uploaded" \/ provider[w] \in {"working", "settling"})
BY DEF IInv, IngressOK, PipelineOK, WorksOK, ProvidersStartLate, IngressFollowsHandler,
       CapacityFollowsWork

\* What releasing an ingress lease leaves of the others, and of its own.
LEMMA ReleasedIngress ==
  ASSUME ingress \in [Works -> Leases], NEW w \in Works, ReleaseIngress(w)
  PROVE  ~ingress'[w].held /\ \A v \in Works \ {w} : ingress'[v] = ingress[v]
BY DEF ReleaseIngress, ingressVars

\* A handler that ends gives back its leases, but not one its provider owns.
LEMMA OverKeeps ==
  ASSUME IInv, NEW w \in Works, Over(w)
  PROVE  IInv'
<1>1. ReleaseIngress(w) /\ stage' = [stage EXCEPT ![w] = "over"] /\ UNCHANGED <<provider, body>>
  BY DEF Over, GoesTo
<1>2. IngressOK' /\ ~ingress'[w].held /\ \A v \in Works \ {w} : ingress'[v] = ingress[v]
  BY <1>1, ReleaseIngressKeeps, ReleasedIngress, OfOne DEF IInv
<1>3. WorksOK'
  BY <1>1 DEF IInv, WorksOK, Stages
<1>4. stage'[w] = "over" /\ \A v \in Works \ {w} : stage'[v] = stage[v]
  BY <1>1, OfOne
<1>5. CASE provider[w] = "none"
  <2>1. ReleasePipeline(w)
    BY <1>5 DEF Over, OwnsPipelineLease
  <2>2. PipelineOK' /\ ~pipeline'[w].held /\ \A v \in Works \ {w} : pipeline'[v] = pipeline[v]
    BY <2>1, ReleasePipelineKeeps DEF IInv
  <2> QED
    BY <1>1, <1>2, <1>3, <1>4, <1>5, <2>2, OneWorkMoves DEF Before
<1>6. CASE provider[w] # "none"
  <2>1. UNCHANGED <<pipeline, pipelineLeases>>
    BY <1>6 DEF Over, OwnsPipelineLease, pipelineVars
  <2>2. PipelineOK'
    BY <2>1 DEF IInv, PipelineOK, Counted, Holders
  <2>3. stage[w] # "uploaded"
    BY <1>6, OfOne DEF Before
  <2>4. pipeline'[w].held <=> (stage'[w] = "uploaded" \/ provider'[w] \in {"working", "settling"})
    BY <1>1, <1>4, <2>1, <2>3, OfOne
  <2> QED
    BY <1>1, <1>2, <1>3, <1>4, <2>1, <2>2, <2>4, OneWorkMoves DEF Before
<1> QED
  BY <1>5, <1>6

\* The steps that bring audio differ in what they reserve and where they go.
LEMMA ArrivalKeeps ==
  ASSUME IInv, NEW w \in Works, NEW bytes \in Nat, NEW next \in Before \ {"idle", "uploaded"},
         stage[w] \in {"starting", "open", "spooling", "stopping"},
         ReserveIngress(w, bytes), stage' = [stage EXCEPT ![w] = next],
         body' \in [Works -> Nat], UNCHANGED <<pipelineVars, provider>>
  PROVE  IInv'
<1>1. IngressOK'
  BY ReserveKeeps DEF IInv
<1>2. \A v \in Works : ingress'[v].held = ingress[v].held
  BY OfOne DEF ReserveIngress, Leases
<1>3. UNCHANGED <<pipeline, pipelineLeases>>
  BY DEF pipelineVars
<1>4. PipelineOK'
  BY <1>3 DEF IInv, PipelineOK, Counted, Holders
<1>5. stage'[w] = next /\ \A v \in Works \ {w} : stage'[v] = stage[v]
  BY OfOne
<1>6. stage' \in [Works -> Stages]
  BY OfOne DEF Stages, Before
<1>7. WorksOK'
  BY <1>6 DEF IInv, WorksOK
<1>8. provider[w] = "none" /\ ~pipeline[w].held
  BY OfOne DEF Before
<1>9. stage'[w] \notin {"idle", "over", "uploaded"}
  BY <1>5 DEF Before
<1> QED
  BY <1>1, <1>2, <1>3, <1>4, <1>5, <1>7, <1>8, <1>9, OneWorkMoves

\* Sizes are natural numbers.
LEMMA SizesAreNat ==
  /\ LogLine \in Nat /\ Header \in Nat /\ MaxDecoded \in Nat /\ MaxBody \in Nat
  /\ \A bytes \in ChunkSizes : bytes \in Nat
  /\ IInv => \A w \in Works : PipelineReservationBytes(w) \in Nat /\ body[w] + Header \in Nat
<1>1. {MaxBody, MaxDecoded, LogLine, Header} \subseteq Nat /\ ChunkSizes \subseteq Nat
  BY LimitsArePositive DEF LimitsArePositive
<1>2. LogLine \in Nat /\ Header \in Nat /\ MaxDecoded \in Nat /\ MaxBody \in Nat
  BY <1>1
<1>3. IInv => \A w \in Works : body[w] \in Nat
  BY OfOne
<1>4. IInv => \A w \in Works : PipelineReservationBytes(w) \in Nat /\ body[w] + Header \in Nat
  BY <1>2, <1>3 DEF PipelineReservationBytes
<1> QED
  BY <1>1, <1>2, <1>4

\* A provider's progress changes only what its own work holds.
LEMMA ProviderKeeps ==
  ASSUME IInv, NEW w \in Works, provider[w] # "none", NEW next \in {"settling", "settled"},
         provider' = [provider EXCEPT ![w] = next],
         stage'[w] \notin Before, \A v \in Works \ {w} : stage'[v] = stage[v],
         ingress[w].held => stage'[w] # "over",
         stage' \in [Works -> Stages], UNCHANGED <<ingressVars, body>>,
         \/ next = "settling" /\ provider[w] = "working" /\ UNCHANGED pipelineVars
         \/ next = "settled" /\ ReleasePipeline(w)
  PROVE  IInv'
<1>1. provider'[w] = next /\ \A v \in Works \ {w} : provider'[v] = provider[v]
  BY OfOne
<1>2. provider' \in [Works -> ProviderStates]
  BY OfOne DEF ProviderStates
<1>3. WorksOK'
  BY <1>2 DEF IInv, WorksOK
<1>4. UNCHANGED <<ingress, ingressLeases>>
  BY DEF ingressVars
<1>5. IngressOK'
  BY <1>4 DEF IInv, IngressOK, Counted, Holders
<1>6. stage'[w] # "uploaded" /\ stage'[w] # "idle"
  BY DEF Before
<1>7. CASE next = "settling" /\ provider[w] = "working" /\ UNCHANGED pipelineVars
  <2>1. UNCHANGED <<pipeline, pipelineLeases>>
    BY <1>7 DEF pipelineVars
  <2>2. PipelineOK'
    BY <2>1 DEF IInv, PipelineOK, Counted, Holders
  <2>3. pipeline[w].held
    BY <1>7, OfOne
  <2>4. ingress'[w].held => stage'[w] \notin {"idle", "over"}
    BY <1>4, <1>6
  <2> QED
    BY <1>1, <1>3, <1>4, <1>5, <1>6, <1>7, <2>1, <2>2, <2>3, <2>4, OneWorkMoves
<1>8. CASE next = "settled" /\ ReleasePipeline(w)
  <2>1. PipelineOK' /\ ~pipeline'[w].held /\ \A v \in Works \ {w} : pipeline'[v] = pipeline[v]
    BY <1>8, ReleasePipelineKeeps DEF IInv
  <2>2. ingress'[w].held => stage'[w] \notin {"idle", "over"}
    BY <1>4, <1>6
  <2> QED
    BY <1>1, <1>3, <1>4, <1>5, <1>6, <1>8, <2>1, <2>2, OneWorkMoves
<1> QED
  BY <1>7, <1>8

\* Each action of one work preserves the invariant.
LEMMA StepKeeps ==
  ASSUME IInv, NEW w \in Works,
         \/ Begin(w) \/ BeginRefused(w)
         \/ \E bytes \in ChunkSizes : ReadBody(w, bytes) \/ SpoolChunk(w, bytes)
         \/ BodyIsRead(w) \/ LogStart(w) \/ LogChunk(w) \/ LogStop(w) \/ CopyWave(w)
         \/ AdmitPipeline(w) \/ StartProvider(w)
         \/ ProviderAnswers(w) \/ ProviderFails(w) \/ ProviderSettles(w)
         \/ Ends(w)
         \/ \E v \in Works : TakesDeadline(v, w)
  PROVE  IInv'
<1> USE DEF GoesTo
<1>1. CASE Begin(w)
  <2>1. /\ stage[w] = "idle" /\ BeginIngress(w)
        /\ UNCHANGED <<pipelineVars, provider, body>>
    BY <1>1 DEF Begin
  <2>2. PICK next \in {"starting", "open"} : stage' = [stage EXCEPT ![w] = next]
    BY <1>1 DEF Begin
  <2>3. ~ingress[w].held
    BY <2>1, OfOne
  <2>4. IngressOK'
    BY <2>1, <2>3, BeginKeeps DEF IInv
  <2>5. \A v \in Works \ {w} : ingress'[v] = ingress[v]
    BY <2>1, OfOne DEF BeginIngress
  <2>6. UNCHANGED <<pipeline, pipelineLeases>>
    BY <2>1 DEF pipelineVars
  <2>7. PipelineOK'
    BY <2>6 DEF IInv, PipelineOK, Counted, Holders
  <2>8. stage'[w] = next /\ \A v \in Works \ {w} : stage'[v] = stage[v]
    BY <2>2, OfOne
  <2>9. WorksOK'
    BY <2>1, <2>2 DEF IInv, WorksOK, Stages
  <2>10. provider[w] = "none" /\ ~pipeline[w].held
    BY <2>1, OfOne DEF Before
  <2> QED
    BY <2>1, <2>4, <2>5, <2>6, <2>7, <2>8, <2>9, <2>10, OneWorkMoves
<1>2. CASE BeginRefused(w)
  BY <1>2, OverKeeps DEF BeginRefused
<1>3. CASE \E bytes \in ChunkSizes : ReadBody(w, bytes) \/ SpoolChunk(w, bytes)
  <2>1. PICK bytes \in ChunkSizes : ReadBody(w, bytes) \/ SpoolChunk(w, bytes)
    BY <1>3
  <2>2. bytes \in Nat /\ 2 * bytes \in Nat /\ body[w] + bytes \in Nat
    BY SizesAreNat, OfOne
  <2>3. [body EXCEPT ![w] = @ + bytes] \in [Works -> Nat]
    BY <2>2, OfOne
  <2>4. CASE ReadBody(w, bytes)
    <3>1. /\ stage[w] = "open" /\ ReserveIngress(w, 2 * bytes) /\ UNCHANGED stage
          /\ body' = [body EXCEPT ![w] = @ + bytes] /\ UNCHANGED <<pipelineVars, provider>>
      BY <2>4 DEF ReadBody
    <3>2. stage' = [stage EXCEPT ![w] = "open"]
      BY <3>1, OfOne
    <3>3. "open" \in Before \ {"idle", "uploaded"}
      BY DEF Before
    <3> QED
      BY <2>2, <2>3, <3>1, <3>2, <3>3, ArrivalKeeps
  <2>5. CASE SpoolChunk(w, bytes)
    <3>1. /\ stage[w] = "open" /\ ReserveIngress(w, bytes)
          /\ stage' = [stage EXCEPT ![w] = "spooling"]
          /\ body' = [body EXCEPT ![w] = @ + bytes] /\ UNCHANGED <<pipelineVars, provider>>
      BY <2>5 DEF SpoolChunk
    <3>2. "spooling" \in Before \ {"idle", "uploaded"}
      BY DEF Before
    <3> QED
      BY <2>2, <2>3, <3>1, <3>2, ArrivalKeeps
  <2> QED
    BY <2>1, <2>4, <2>5
<1>4. CASE BodyIsRead(w)
  <2>1. /\ stage[w] = "open" /\ stage' = [stage EXCEPT ![w] = "claimed"]
        /\ UNCHANGED <<ingressVars, pipelineVars, provider, body>>
    BY <1>4 DEF BodyIsRead
  <2>2. UNCHANGED <<ingress, ingressLeases, pipeline, pipelineLeases>>
    BY <2>1 DEF ingressVars, pipelineVars
  <2>3. IngressOK' /\ PipelineOK'
    BY <2>2 DEF IInv, IngressOK, PipelineOK, Counted, Holders
  <2>4. stage'[w] = "claimed" /\ \A v \in Works \ {w} : stage'[v] = stage[v]
    BY <2>1, OfOne
  <2>5. WorksOK'
    BY <2>1 DEF IInv, WorksOK, Stages
  <2>6. provider[w] = "none" /\ ~pipeline[w].held
    BY <2>1, OfOne DEF Before
  <2> QED
    BY <2>1, <2>2, <2>3, <2>4, <2>5, <2>6, OneWorkMoves
<1>5. CASE LogStart(w) \/ LogChunk(w) \/ LogStop(w)
  <2>1. /\ stage[w] \in {"starting", "open", "spooling", "stopping"} /\ ReserveIngress(w, LogLine)
        /\ UNCHANGED <<pipelineVars, provider, body>>
    BY <1>5 DEF LogStart, LogChunk, LogStop
  <2>2. PICK next \in {"open", "stopping"} : stage' = [stage EXCEPT ![w] = next]
    BY <1>5 DEF LogStart, LogChunk, LogStop
  <2>3. next \in Before \ {"idle", "uploaded"} /\ body' \in [Works -> Nat]
    BY <2>1, OfOne DEF Before
  <2> QED
    BY <2>1, <2>2, <2>3, SizesAreNat, ArrivalKeeps
<1>6. CASE CopyWave(w)
  <2>1. /\ stage[w] = "stopping" /\ ReserveIngress(w, body[w] + Header)
        /\ stage' = [stage EXCEPT ![w] = "claimed"]
        /\ UNCHANGED <<pipelineVars, provider, body>>
    BY <1>6 DEF CopyWave
  <2>2. "claimed" \in Before \ {"idle", "uploaded"} /\ body' \in [Works -> Nat]
    BY <2>1, OfOne DEF Before
  <2>3. body[w] + Header \in Nat
    BY SizesAreNat
  <2> QED
    BY <2>1, <2>2, <2>3, ArrivalKeeps
<1>7. CASE AdmitPipeline(w)
  <2>1. /\ stage[w] = "claimed" /\ AcquirePipeline(w, PipelineReservationBytes(w))
        /\ stage' = [stage EXCEPT ![w] = "uploaded"]
        /\ UNCHANGED <<ingressVars, provider, body>>
    BY <1>7 DEF AdmitPipeline
  <2>2. provider[w] = "none" /\ ~pipeline[w].held
    BY <2>1, OfOne DEF Before
  <2>3. PipelineOK'
    BY <2>1, <2>2, SizesAreNat, AcquireKeeps DEF IInv
  <2>4. pipeline'[w].held /\ \A v \in Works \ {w} : pipeline'[v] = pipeline[v]
    BY <2>1, OfOne DEF AcquirePipeline
  <2>5. UNCHANGED <<ingress, ingressLeases>>
    BY <2>1 DEF ingressVars
  <2>6. IngressOK'
    BY <2>5 DEF IInv, IngressOK, Counted, Holders
  <2>7. stage'[w] = "uploaded" /\ \A v \in Works \ {w} : stage'[v] = stage[v]
    BY <2>1, OfOne
  <2>8. WorksOK'
    BY <2>1 DEF IInv, WorksOK, Stages
  <2> QED
    BY <2>1, <2>2, <2>3, <2>4, <2>5, <2>6, <2>7, <2>8, OneWorkMoves
<1>8. CASE StartProvider(w)
  <2>1. /\ stage[w] = "uploaded" /\ stage' = [stage EXCEPT ![w] = "waiting"]
        /\ provider' = [provider EXCEPT ![w] = "working"]
        /\ UNCHANGED <<ingressVars, pipelineVars, body>>
    BY <1>8 DEF StartProvider
  <2>2. UNCHANGED <<ingress, ingressLeases, pipeline, pipelineLeases>>
    BY <2>1 DEF ingressVars, pipelineVars
  <2>3. IngressOK' /\ PipelineOK'
    BY <2>2 DEF IInv, IngressOK, PipelineOK, Counted, Holders
  <2>4. /\ stage'[w] = "waiting" /\ provider'[w] = "working"
        /\ \A v \in Works \ {w} : stage'[v] = stage[v] /\ provider'[v] = provider[v]
    BY <2>1, OfOne
  <2>5. stage' \in [Works -> Stages] /\ provider' \in [Works -> ProviderStates]
    BY <2>1, OfOne DEF Stages, ProviderStates
  <2>6. WorksOK'
    BY <2>1, <2>5 DEF IInv, WorksOK
  <2>7. pipeline[w].held
    BY <2>1, OfOne
  <2> QED
    BY <2>2, <2>3, <2>4, <2>6, <2>7, OneWorkMoves DEF Before
<1>9. CASE ProviderAnswers(w) \/ ProviderFails(w)
  <2>1. /\ provider[w] = "working"
        /\ stage' = [stage EXCEPT ![w] = IF @ = "waiting" THEN "committing" ELSE @]
        /\ UNCHANGED <<ingressVars, body>>
    BY <1>9 DEF ProviderAnswers, ProviderFails
  <2>2. stage[w] \notin Before
    BY <2>1, OfOne
  <2>3. stage'[w] \notin Before /\ \A v \in Works \ {w} : stage'[v] = stage[v]
    BY <2>1, <2>2, OfOne DEF Before
  <2>4. stage' \in [Works -> Stages]
    BY <2>1, OfOne DEF Stages
  <2>5. ingress[w].held => stage'[w] # "over"
    BY <2>1, OfOne
  <2>6. CASE ProviderAnswers(w)
    BY <2>1, <2>3, <2>4, <2>5, <2>6, ProviderKeeps DEF ProviderAnswers
  <2>7. CASE ProviderFails(w)
    BY <2>1, <2>3, <2>4, <2>5, <2>7, ProviderKeeps DEF ProviderFails
  <2> QED
    BY <1>9, <2>6, <2>7
<1>10. CASE ProviderSettles(w)
  <2>1. /\ provider[w] = "settling" /\ provider' = [provider EXCEPT ![w] = "settled"]
        /\ ReleasePipeline(w) /\ UNCHANGED <<ingressVars, stage, body>>
    BY <1>10 DEF ProviderSettles
  <2>2. stage'[w] \notin Before /\ \A v \in Works \ {w} : stage'[v] = stage[v]
    BY <2>1, OfOne
  <2>3. stage' \in [Works -> Stages] /\ (ingress[w].held => stage'[w] # "over")
    BY <2>1, OfOne
  <2> QED
    BY <2>1, <2>2, <2>3, ProviderKeeps
<1>11. CASE Ends(w)
  BY <1>11, OverKeeps DEF Ends
<1>12. CASE \E v \in Works : TakesDeadline(v, w)
  BY <1>12, OverKeeps DEF TakesDeadline
<1> QED
  BY <1>1, <1>2, <1>3, <1>4, <1>5, <1>6, <1>7, <1>8, <1>9, <1>10, <1>11, <1>12

\* A step that changes nothing changes nothing the invariant speaks of.
LEMMA StutterKeeps ==
  ASSUME IInv, UNCHANGED vars
  PROVE  IInv'
<1>1. UNCHANGED <<ingress, ingressLeases, pipeline, pipelineLeases, stage, provider, body>>
  BY DEF vars, ingressVars, pipelineVars, workVars
<1>2. IngressOK' /\ PipelineOK'
  BY <1>1 DEF IInv, IngressOK, PipelineOK, Counted, Holders
<1>3. WorksOK' /\ ProvidersStartLate' /\ IngressFollowsHandler' /\ CapacityFollowsWork'
  BY <1>1 DEF IInv, WorksOK, ProvidersStartLate, IngressFollowsHandler, CapacityFollowsWork
<1> QED
  BY <1>2, <1>3 DEF IInv

-----------------------------------------------------------------------------
(* The bytes.                                                               *)

\* Inductive given IInv: a lease that is not held reserves nothing, so taking one
\* changes no sum.
IngressAccount ==
  /\ ingressBytes = Cardinality(Reserved(ingress)) /\ ingressBytes <= MaxIngressBytes
  /\ \A w \in Works : ~ingress[w].held => ingress[w].bytes = 0

PipelineAccount ==
  /\ pipelineBytes = Cardinality(Reserved(pipeline)) /\ pipelineBytes <= MaxPipelineBytes
  /\ \A w \in Works : ~pipeline[w].held => pipeline[w].bytes = 0

\* What one work's leases cover, as far as its handler has come.
Covered(w) ==
  /\ stage[w] = "idle" => body[w] = 0
  /\ stage[w] \notin {"idle", "over"} => ingress[w].held
  /\ w \in Uploads => stage[w] \notin {"starting", "spooling", "stopping"}
  /\ w \in Uploads /\ stage[w] = "open" => 2 * body[w] <= ingress[w].bytes
  /\ Retained(w) <= ingress[w].bytes
  /\ stage[w] = "uploaded" \/ provider[w] \in {"working", "settling"}
       => pipeline[w].bytes = PipelineReservationBytes(w)

AccountsInv == IngressAccount /\ PipelineAccount /\ \A w \in Works : Covered(w)

\* The reservations of all works but one.
ReservedElsewhere(leases, w) == UNION {{v} \X (1..leases[v].bytes) : v \in Works \ {w}}

\* A work reserves as many bytes as its lease says, beside those of the others.
LEMMA ReservedAddsUp ==
  ASSUME NEW leases \in [Works -> Leases], NEW w \in Works
  PROVE  /\ Cardinality(ReservedElsewhere(leases, w)) \in Nat
         /\ Cardinality(Reserved(leases)) =
              Cardinality(ReservedElsewhere(leases, w)) + leases[w].bytes
<1> DEFINE own(v) == {v} \X (1..leases[v].bytes)
           others == Works \ {w}
           parts == {own(v) : v \in others}
           rest == ReservedElsewhere(leases, w)
<1>1. \A v \in Works : leases[v].bytes \in Nat
  BY DEF Leases
<1>2. \A v \in Works : IsFiniteSet(own(v)) /\ Cardinality(own(v)) = leases[v].bytes
  <2> TAKE v \in Works
  <2>1. IsFiniteSet({v}) /\ Cardinality({v}) = 1
    BY FS_Singleton
  <2>2. \A n \in Nat : IsFiniteSet(1..n) /\ Cardinality(1..n) = n
    <3> TAKE n \in Nat
    <3>1. IsFiniteSet(1..n) /\ Cardinality(1..n) = IF 1 > n THEN 0 ELSE n - 1 + 1
      BY FS_Interval
    <3> QED
      BY <3>1
  <2>3. ASSUME NEW n \in Nat
        PROVE  IsFiniteSet({v} \X (1..n)) /\ Cardinality({v} \X (1..n)) = n
    <3>1. IsFiniteSet(1..n) /\ Cardinality(1..n) = n
      BY <2>2
    <3>2. /\ IsFiniteSet({v} \X (1..n))
          /\ Cardinality({v} \X (1..n)) = Cardinality({v}) * Cardinality(1..n)
      BY <2>1, <3>1, FS_Product
    <3>3. Cardinality({v} \X (1..n)) = 1 * n
      BY <2>1, <3>1, <3>2, Zenon
    <3> QED
      BY <3>2, <3>3
  <2>4. \A n \in Nat : IsFiniteSet({v} \X (1..n)) /\ Cardinality({v} \X (1..n)) = n
    BY <2>3
  <2> QED
    BY <1>1, <2>4
<1>3. IsFiniteSet(rest)
  <2> DEFINE f == [v \in others |-> own(v)]
  <2>1. f \in Surjection(others, parts)
    BY DEF Surjection
  <2>2. IsFiniteSet(others)
    BY FS_Subset
  <2>3. IsFiniteSet(parts)
    BY <2>1, <2>2, FS_Surjection
  <2>4. \A T \in parts : IsFiniteSet(T)
    BY <1>2
  <2>5. IsFiniteSet(UNION parts)
    BY <2>3, <2>4, FS_UNION
  <2> QED
    BY <2>5 DEF ReservedElsewhere
<1>4. Reserved(leases) = rest \union own(w) /\ rest \intersect own(w) = {}
  BY DEF Reserved, ReservedElsewhere
<1>5. Cardinality(rest \intersect own(w)) = 0
  BY <1>4, FS_EmptySet
<1>6. Cardinality(rest) \in Nat
  BY <1>3, FS_CardinalityType
<1>7. Cardinality(rest \union own(w)) =
        Cardinality(rest) + leases[w].bytes - Cardinality(rest \intersect own(w))
  BY <1>2, <1>3, FS_Union
<1> QED
  BY <1>1, <1>4, <1>5, <1>6, <1>7

\* A change to one lease changes the sum by as much.
LEMMA OneLeaseMoves ==
  ASSUME NEW old \in [Works -> Leases], NEW new \in [Works -> Leases], NEW w \in Works,
         \A v \in Works \ {w} : new[v] = old[v]
  PROVE  /\ Cardinality(Reserved(old)) \in Nat /\ Cardinality(Reserved(new)) \in Nat
         /\ Cardinality(Reserved(new)) =
              Cardinality(Reserved(old)) - old[w].bytes + new[w].bytes
<1>1. ReservedElsewhere(new, w) = ReservedElsewhere(old, w)
  BY DEF ReservedElsewhere
<1>2. old[w].bytes \in Nat /\ new[w].bytes \in Nat
  BY DEF Leases
<1> QED
  BY <1>1, <1>2, ReservedAddsUp

\* The limits and the bytes of a reservation.
LEMMA LimitsAreNat == MaxIngressBytes \in Nat /\ MaxPipelineBytes \in Nat
BY LimitsArePositive DEF LimitsArePositive

LEMMA ReserveAccounts ==
  ASSUME IInv, IngressAccount, NEW w \in Works, NEW bytes \in Nat, ingress[w].held,
         ReserveIngress(w, bytes)
  PROVE  /\ IngressAccount'
         /\ ingress'[w].bytes = ingress[w].bytes + bytes
         /\ \A v \in Works \ {w} : ingress'[v] = ingress[v]
<1>1. /\ ingress' = [ingress EXCEPT ![w].bytes = @ + bytes]
      /\ ingressBytes' = ingressBytes + bytes
      /\ ~(ingressBytes > MaxIngressBytes \/ bytes > MaxIngressBytes - ingressBytes)
  BY DEF ReserveIngress, ExceedsCombinedLimit
<1>2. ingress \in [Works -> Leases] /\ \A v \in Works : ingress[v].bytes \in Nat
  BY OfOne DEF Leases
<1>3. ingress' \in [Works -> Leases]
  BY <1>1, <1>2 DEF Leases
<1>4. /\ ingress'[w].bytes = ingress[w].bytes + bytes /\ ingress'[w].held
      /\ \A v \in Works \ {w} : ingress'[v] = ingress[v]
  BY <1>1, <1>2 DEF Leases
<1>5. /\ Cardinality(Reserved(ingress)) \in Nat
      /\ Cardinality(Reserved(ingress')) =
           Cardinality(Reserved(ingress)) - ingress[w].bytes + ingress'[w].bytes
  BY <1>2, <1>3, <1>4, OneLeaseMoves
<1>6. ingressBytes' = Cardinality(Reserved(ingress')) /\ ingressBytes' <= MaxIngressBytes
  BY <1>1, <1>2, <1>4, <1>5, LimitsAreNat DEF IngressAccount
<1> QED
  BY <1>4, <1>6 DEF IngressAccount

LEMMA BeginAccounts ==
  ASSUME IInv, IngressAccount, NEW w \in Works, ~ingress[w].held, BeginIngress(w)
  PROVE  /\ IngressAccount'
         /\ ingress'[w].bytes = 0
         /\ \A v \in Works \ {w} : ingress'[v] = ingress[v]
<1>1. /\ ingress' = [ingress EXCEPT ![w] = [held |-> TRUE, bytes |-> 0]]
      /\ ingressBytes' = ingressBytes
  BY DEF BeginIngress
<1>2. ingress \in [Works -> Leases] /\ ingress[w].bytes = 0
  BY OfOne DEF IngressAccount
<1>3. ingress' \in [Works -> Leases]
  BY <1>1, <1>2 DEF Leases
<1>4. /\ ingress'[w].bytes = 0 /\ ingress'[w].held
      /\ \A v \in Works \ {w} : ingress'[v] = ingress[v]
  BY <1>1, <1>2 DEF Leases
<1>5. /\ Cardinality(Reserved(ingress)) \in Nat
      /\ Cardinality(Reserved(ingress')) =
           Cardinality(Reserved(ingress)) - ingress[w].bytes + ingress'[w].bytes
  BY <1>2, <1>3, <1>4, OneLeaseMoves
<1> QED
  BY <1>1, <1>2, <1>4, <1>5 DEF IngressAccount

LEMMA ReleaseIngressAccounts ==
  ASSUME IInv, IngressAccount, NEW w \in Works, ReleaseIngress(w)
  PROVE  IngressAccount' /\ ingress' \in [Works -> Leases]
<1>0. ingress \in [Works -> Leases] /\ \A v \in Works : ingress[v].bytes \in Nat
  BY OfOne DEF Leases
<1>1. CASE ~ingress[w].held
  <2>1. UNCHANGED <<ingress, ingressBytes>>
    BY <1>1 DEF ReleaseIngress, ingressVars
  <2> QED
    BY <1>0, <2>1 DEF IngressAccount, Reserved
<1>2. CASE ingress[w].held
  <2>1. /\ ingress' = [ingress EXCEPT ![w] = [held |-> FALSE, bytes |-> 0]]
        /\ ingressBytes' = ingressBytes - ingress[w].bytes
    BY <1>2 DEF ReleaseIngress
  <2>2. ingress' \in [Works -> Leases]
    BY <1>0, <2>1 DEF Leases
  <2>3. ingress'[w].bytes = 0 /\ \A v \in Works \ {w} : ingress'[v] = ingress[v]
    BY <1>0, <2>1 DEF Leases
  <2>4. /\ Cardinality(Reserved(ingress)) \in Nat
        /\ Cardinality(Reserved(ingress')) =
             Cardinality(Reserved(ingress)) - ingress[w].bytes + ingress'[w].bytes
    BY <1>0, <2>2, <2>3, OneLeaseMoves
  <2>5. ingressBytes' = Cardinality(Reserved(ingress')) /\ ingressBytes' <= MaxIngressBytes
    BY <1>0, <2>1, <2>3, <2>4, LimitsAreNat DEF IngressAccount
  <2> QED
    BY <2>2, <2>3, <2>5 DEF IngressAccount
<1> QED
  BY <1>1, <1>2

LEMMA AcquireAccounts ==
  ASSUME IInv, PipelineAccount, NEW w \in Works, ~pipeline[w].held, NEW bytes \in Nat,
         AcquirePipeline(w, bytes)
  PROVE  /\ PipelineAccount'
         /\ pipeline'[w].bytes = bytes
         /\ \A v \in Works \ {w} : pipeline'[v] = pipeline[v]
<1>1. /\ pipeline' = [pipeline EXCEPT ![w] = [held |-> TRUE, bytes |-> bytes]]
      /\ pipelineBytes' = pipelineBytes + bytes
      /\ ~(pipelineBytes > MaxPipelineBytes \/ bytes > MaxPipelineBytes - pipelineBytes)
  BY DEF AcquirePipeline, ExceedsCombinedLimit
<1>2. pipeline \in [Works -> Leases] /\ pipeline[w].bytes = 0
  BY OfOne DEF PipelineAccount
<1>3. pipeline' \in [Works -> Leases]
  BY <1>1, <1>2 DEF Leases
<1>4. /\ pipeline'[w].bytes = bytes /\ pipeline'[w].held
      /\ \A v \in Works \ {w} : pipeline'[v] = pipeline[v]
  BY <1>1, <1>2 DEF Leases
<1>5. /\ Cardinality(Reserved(pipeline)) \in Nat
      /\ Cardinality(Reserved(pipeline')) =
           Cardinality(Reserved(pipeline)) - pipeline[w].bytes + pipeline'[w].bytes
  BY <1>2, <1>3, <1>4, OneLeaseMoves
<1>6. pipelineBytes' = Cardinality(Reserved(pipeline')) /\ pipelineBytes' <= MaxPipelineBytes
  BY <1>1, <1>2, <1>4, <1>5, LimitsAreNat DEF PipelineAccount
<1> QED
  BY <1>4, <1>6 DEF PipelineAccount

LEMMA ReleasePipelineAccounts ==
  ASSUME IInv, PipelineAccount, NEW w \in Works, ReleasePipeline(w)
  PROVE  PipelineAccount'
<1>0. pipeline \in [Works -> Leases] /\ \A v \in Works : pipeline[v].bytes \in Nat
  BY OfOne DEF Leases
<1>1. CASE ~pipeline[w].held
  <2>1. UNCHANGED <<pipeline, pipelineBytes>>
    BY <1>1 DEF ReleasePipeline, pipelineVars
  <2> QED
    BY <2>1 DEF PipelineAccount, Reserved
<1>2. CASE pipeline[w].held
  <2>1. /\ pipeline' = [pipeline EXCEPT ![w] = [held |-> FALSE, bytes |-> 0]]
        /\ pipelineBytes' = pipelineBytes - pipeline[w].bytes
    BY <1>2 DEF ReleasePipeline
  <2>2. pipeline' \in [Works -> Leases]
    BY <1>0, <2>1 DEF Leases
  <2>3. pipeline'[w].bytes = 0 /\ \A v \in Works \ {w} : pipeline'[v] = pipeline[v]
    BY <1>0, <2>1 DEF Leases
  <2>4. /\ Cardinality(Reserved(pipeline)) \in Nat
        /\ Cardinality(Reserved(pipeline')) =
             Cardinality(Reserved(pipeline)) - pipeline[w].bytes + pipeline'[w].bytes
    BY <1>0, <2>2, <2>3, OneLeaseMoves
  <2>5. /\ pipelineBytes' = Cardinality(Reserved(pipeline'))
        /\ pipelineBytes' <= MaxPipelineBytes
    BY <1>0, <2>1, <2>3, <2>4, LimitsAreNat DEF PipelineAccount
  <2> QED
    BY <2>3, <2>5 DEF PipelineAccount
<1> QED
  BY <1>1, <1>2

\* A work that no step touches stays covered.
LEMMA BystandersStayCovered ==
  ASSUME NEW v \in Works, Covered(v),
         stage'[v] = stage[v], provider'[v] = provider[v], body'[v] = body[v],
         ingress'[v] = ingress[v], pipeline'[v] = pipeline[v]
  PROVE  Covered(v)'
BY DEF Covered, Retained, PipelineReservationBytes

\* The facts about one work that its next step starts from.
LEMMA CoveredOfOne ==
  ASSUME IInv, AccountsInv, NEW w \in Works
  PROVE  /\ Covered(w) /\ IngressAccount /\ PipelineAccount
         /\ body[w] \in Nat /\ ingress[w].bytes \in Nat /\ pipeline[w].bytes \in Nat
         /\ Header \in Nat /\ MaxDecoded \in Nat /\ LogLine \in Nat
         /\ w \in Uploads \/ w \in Streams
         /\ ~(w \in Uploads /\ w \in Streams)
  BY OfOne, SizesAreNat, WorksAreFinite DEF AccountsInv, Leases, Works, WorksAreFinite

\* Audio arrives: what a work keeps grows by no more than it has reserved.
LEMMA ArrivalIsCovered ==
  ASSUME IInv, AccountsInv, NEW w \in Works, NEW bytes \in Nat,
         \/ ReadBody(w, bytes) \/ SpoolChunk(w, bytes)
         \/ LogStart(w) \/ LogChunk(w) \/ LogStop(w) \/ CopyWave(w)
  PROVE  AccountsInv'
<1> USE DEF GoesTo
<1>0. 2 * bytes \in Nat /\ body[w] + Header \in Nat
  BY SizesAreNat
<1>1. PICK amount \in Nat : ReserveIngress(w, amount)
  BY <1>0, SizesAreNat DEF ReadBody, SpoolChunk, LogStart, LogChunk, LogStop, CopyWave
<1>2. /\ stage[w] \in {"starting", "open", "spooling", "stopping"}
      /\ UNCHANGED <<pipeline, pipelineBytes, provider>>
  BY DEF ReadBody, SpoolChunk, LogStart, LogChunk, LogStop, CopyWave, pipelineVars
<1>3. /\ IngressAccount' /\ ingress'[w].bytes = ingress[w].bytes + amount
      /\ \A v \in Works \ {w} : ingress'[v] = ingress[v]
      /\ ingress'[w].held
  <2>1. ingress[w].held
    BY <1>2, CoveredOfOne DEF Covered
  <2>2. ingress'[w].held
    BY <1>1, <2>1, OfOne DEF ReserveIngress, Leases
  <2> QED
    BY <1>1, <2>1, <2>2, ReserveAccounts DEF AccountsInv
<1>4. PipelineAccount'
  BY <1>2 DEF AccountsInv, PipelineAccount, Reserved
<1>5. provider[w] = "none"
  BY <1>2, OfOne DEF Before
<1>6. Covered(w)'
  <2>1. CASE ReadBody(w, bytes)
    <3>1. /\ stage[w] = "open" /\ stage'[w] = "open" /\ w \in Uploads
          /\ body'[w] = body[w] + bytes
          /\ ingress'[w].bytes = ingress[w].bytes + 2 * bytes
      BY <2>1, OfOne, ReserveAccounts, <1>0, <1>2, CoveredOfOne DEF ReadBody, Covered, AccountsInv
    <3>2. 2 * body[w] <= ingress[w].bytes
      BY <3>1, CoveredOfOne DEF Covered
    <3>3. 2 * body'[w] <= ingress'[w].bytes /\ body'[w] <= ingress'[w].bytes
      BY <1>0, <3>1, <3>2, CoveredOfOne
    <3> QED
      BY <1>2, <1>3, <1>5, <3>1, <3>3 DEF Covered, Retained
  <2>2. CASE SpoolChunk(w, bytes)
    <3>1. /\ stage[w] = "open" /\ stage'[w] = "spooling" /\ w \in Streams
          /\ body'[w] = body[w] + bytes
          /\ ingress'[w].bytes = ingress[w].bytes + bytes
      BY <2>2, OfOne, ReserveAccounts, <1>0, <1>2, CoveredOfOne DEF SpoolChunk, Covered, AccountsInv
    <3>2. body[w] <= ingress[w].bytes /\ w \notin Uploads
      BY <3>1, CoveredOfOne DEF Covered, Retained
    <3>3. body'[w] <= ingress'[w].bytes
      BY <1>0, <3>1, <3>2, CoveredOfOne
    <3> QED
      BY <1>2, <1>3, <1>5, <3>1, <3>2, <3>3 DEF Covered, Retained
  <2>3. CASE LogStart(w) \/ LogChunk(w) \/ LogStop(w)
    <3>1. /\ stage'[w] \in {"open", "stopping"} /\ body'[w] = body[w]
      BY <2>3, OfOne DEF LogStart, LogChunk, LogStop
    <3>2. w \notin Uploads
      BY <2>3, CoveredOfOne DEF LogStart, LogChunk, LogStop, Covered
    <3>3. body[w] <= ingress[w].bytes
      BY <1>2, CoveredOfOne DEF Covered, Retained
    <3>4. body'[w] <= ingress'[w].bytes
      BY <1>3, <3>1, <3>3, CoveredOfOne
    <3> QED
      BY <1>2, <1>3, <1>5, <3>1, <3>2, <3>4 DEF Covered, Retained
  <2>4. CASE CopyWave(w)
    <3>1. /\ stage[w] = "stopping" /\ stage'[w] = "claimed" /\ body'[w] = body[w]
          /\ ingress'[w].bytes = ingress[w].bytes + (body[w] + Header)
      BY <2>4, OfOne, ReserveAccounts, <1>0, <1>2, CoveredOfOne DEF CopyWave, Covered, AccountsInv
    <3>2. w \notin Uploads /\ body[w] <= ingress[w].bytes
      BY <3>1, CoveredOfOne DEF Covered, Retained
    <3>3. 2 * body'[w] + Header <= ingress'[w].bytes
      BY <3>1, <3>2, CoveredOfOne
    <3> QED
      BY <1>2, <1>3, <1>5, <3>1, <3>2, <3>3 DEF Covered, Retained
  <2> QED
    BY <2>1, <2>2, <2>3, <2>4
<1>7. \A v \in Works \ {w} : stage'[v] = stage[v] /\ body'[v] = body[v]
  BY OfOne DEF ReadBody, SpoolChunk, LogStart, LogChunk, LogStop, CopyWave
<1>8. \A v \in Works \ {w} : Covered(v)'
  BY <1>2, <1>3, <1>7, BystandersStayCovered DEF AccountsInv
<1> QED
  BY <1>3, <1>4, <1>6, <1>8 DEF AccountsInv

\* A handler that ends keeps nothing, and a provider it leaves behind keeps its lease.
LEMMA OverIsCovered ==
  ASSUME IInv, AccountsInv, NEW w \in Works, Over(w)
  PROVE  AccountsInv'
<1>1. /\ ReleaseIngress(w) /\ stage' = [stage EXCEPT ![w] = "over"]
      /\ UNCHANGED <<provider, body>>
  BY DEF Over, GoesTo
<1>2. /\ IngressAccount' /\ ingress' \in [Works -> Leases]
      /\ \A v \in Works \ {w} : ingress'[v] = ingress[v]
  BY <1>1, ReleaseIngressAccounts, ReleasedIngress, OfOne DEF AccountsInv
<1>3. PipelineAccount' /\ \A v \in Works \ {w} : pipeline'[v] = pipeline[v]
  <2>1. CASE ReleasePipeline(w)
    BY <2>1, ReleasePipelineAccounts, ReleasePipelineKeeps DEF AccountsInv, IInv
  <2>2. CASE UNCHANGED pipelineVars
    BY <2>2 DEF AccountsInv, PipelineAccount, pipelineVars, Reserved
  <2> QED
    BY <2>1, <2>2 DEF Over
<1>4. stage'[w] = "over" /\ \A v \in Works \ {w} : stage'[v] = stage[v]
  BY <1>1, OfOne
<1>5. ingress'[w].bytes \in Nat
  BY <1>2 DEF Leases
<1>6. provider[w] \in {"working", "settling"}
        => pipeline'[w].bytes = PipelineReservationBytes(w)'
  <2> SUFFICES ASSUME provider[w] \in {"working", "settling"}
               PROVE  pipeline'[w].bytes = PipelineReservationBytes(w)'
    OBVIOUS
  <2>1. UNCHANGED pipelineVars
    BY DEF Over, OwnsPipelineLease
  <2> QED
    BY <1>1, <2>1, CoveredOfOne DEF Covered, PipelineReservationBytes, pipelineVars
<1>7. Covered(w)'
  BY <1>1, <1>4, <1>5, <1>6 DEF Covered, Retained
<1>8. \A v \in Works \ {w} : Covered(v)'
  BY <1>1, <1>2, <1>3, <1>4, BystandersStayCovered DEF AccountsInv
<1> QED
  BY <1>2, <1>3, <1>7, <1>8 DEF AccountsInv

\* The claimed run and its provider.
LEMMA RunIsCovered ==
  ASSUME IInv, AccountsInv, NEW w \in Works,
         \/ AdmitPipeline(w) \/ StartProvider(w)
         \/ ProviderAnswers(w) \/ ProviderFails(w) \/ ProviderSettles(w)
  PROVE  AccountsInv'
<1> USE DEF GoesTo
<1>1. UNCHANGED <<ingress, ingressBytes, body>>
  BY DEF AdmitPipeline, StartProvider, ProviderAnswers, ProviderFails, ProviderSettles,
         ingressVars
<1>2. IngressAccount'
  BY <1>1 DEF AccountsInv, IngressAccount, Reserved
<1>3. PipelineReservationBytes(w)' = PipelineReservationBytes(w)
  BY <1>1 DEF PipelineReservationBytes
<1>4. \A v \in Works \ {w} : stage'[v] = stage[v] /\ provider'[v] = provider[v]
  BY OfOne DEF AdmitPipeline, StartProvider, ProviderAnswers, ProviderFails, ProviderSettles
<1>5. CASE AdmitPipeline(w)
  <2>1. /\ stage[w] = "claimed" /\ AcquirePipeline(w, PipelineReservationBytes(w))
        /\ stage'[w] = "uploaded"
    BY <1>5, OfOne DEF AdmitPipeline
  <2>2. ~pipeline[w].held
    BY <2>1, OfOne DEF Before
  <2>3. /\ PipelineAccount' /\ pipeline'[w].bytes = PipelineReservationBytes(w)
        /\ \A v \in Works \ {w} : pipeline'[v] = pipeline[v]
    BY <2>1, <2>2, SizesAreNat, AcquireAccounts DEF AccountsInv
  <2>4. Covered(w)'
    BY <1>1, <1>3, <2>1, <2>3, CoveredOfOne DEF Covered, Retained
  <2> QED
    BY <1>1, <1>2, <1>4, <2>3, <2>4, BystandersStayCovered DEF AccountsInv
<1>6. CASE StartProvider(w) \/ ProviderAnswers(w)
  <2>1. /\ UNCHANGED <<pipeline, pipelineBytes>>
        /\ stage[w] = "uploaded" \/ provider[w] = "working"
    BY <1>6 DEF StartProvider, ProviderAnswers, pipelineVars
  <2>2. /\ stage'[w] \in {stage[w], "waiting", "committing"}
        /\ stage'[w] # stage[w] => stage[w] \in {"uploaded", "waiting"}
        /\ stage[w] = "uploaded" => stage'[w] = "waiting"
    BY <1>6, OfOne DEF StartProvider, ProviderAnswers, Before
  <2>3. PipelineAccount'
    BY <2>1 DEF AccountsInv, PipelineAccount, Reserved
  <2>4. stage[w] \notin Before \/ stage[w] = "uploaded"
    BY <2>1, OfOne
  <2>5. Covered(w)'
    <3>1. pipeline'[w].bytes = PipelineReservationBytes(w)'
      BY <1>3, <2>1, CoveredOfOne DEF Covered
    <3>2. Retained(w)' <= ingress'[w].bytes
      BY <1>1, <2>2, <2>4, CoveredOfOne DEF Covered, Retained, Before
    <3> QED
      BY <1>1, <2>2, <2>4, <3>1, <3>2, CoveredOfOne DEF Covered, Before
  <2> QED
    BY <1>1, <1>2, <1>4, <2>1, <2>3, <2>5, BystandersStayCovered DEF AccountsInv
<1>7. CASE ProviderFails(w) \/ ProviderSettles(w)
  <2>1. ReleasePipeline(w) /\ provider'[w] = "settled" /\ provider[w] # "none"
    BY <1>7, OfOne DEF ProviderFails, ProviderSettles
  <2>2. PipelineAccount' /\ \A v \in Works \ {w} : pipeline'[v] = pipeline[v]
    BY <2>1, ReleasePipelineAccounts, ReleasePipelineKeeps DEF AccountsInv, IInv
  <2>3. stage[w] \notin Before
    BY <2>1, OfOne
  <2>4. \/ stage'[w] = stage[w]
        \/ stage[w] = "waiting" /\ stage'[w] = "committing"
    BY <1>7, OfOne DEF ProviderFails, ProviderSettles
  <2>5. Covered(w)'
    <3>1. Retained(w)' <= ingress'[w].bytes
      BY <1>1, <2>4, CoveredOfOne DEF Covered, Retained
    <3> QED
      BY <1>1, <2>1, <2>3, <2>4, <3>1, CoveredOfOne DEF Covered, Before
  <2> QED
    BY <1>1, <1>2, <1>4, <2>2, <2>5, BystandersStayCovered DEF AccountsInv
<1> QED
  BY <1>5, <1>6, <1>7

\* Beginning, and the end of a body.
LEMMA HandlerIsCovered ==
  ASSUME IInv, AccountsInv, NEW w \in Works, Begin(w) \/ BodyIsRead(w)
  PROVE  AccountsInv'
<1> USE DEF GoesTo
<1>1. UNCHANGED <<pipeline, pipelineBytes, provider, body>>
  BY DEF Begin, BodyIsRead, pipelineVars
<1>2. PipelineAccount'
  BY <1>1 DEF AccountsInv, PipelineAccount, Reserved
<1>3. \A v \in Works \ {w} : stage'[v] = stage[v]
  BY OfOne DEF Begin, BodyIsRead
<1>4. provider[w] = "none"
  BY OfOne DEF Begin, BodyIsRead, Before
<1>5. CASE Begin(w)
  <2>1. /\ stage[w] = "idle" /\ BeginIngress(w)
        /\ stage'[w] = IF w \in Streams THEN "starting" ELSE "open"
    BY <1>5, OfOne DEF Begin
  <2>2. ~ingress[w].held
    BY <2>1, OfOne
  <2>3. /\ IngressAccount' /\ ingress'[w].bytes = 0
        /\ \A v \in Works \ {w} : ingress'[v] = ingress[v]
    BY <2>1, <2>2, BeginAccounts DEF AccountsInv
  <2>4. ingress'[w].held
    BY <2>1, OfOne DEF BeginIngress
  <2>5. body'[w] = 0
    BY <1>1, <2>1, CoveredOfOne DEF Covered
  <2>6. Covered(w)'
    BY <1>1, <1>4, <2>1, <2>3, <2>4, <2>5, CoveredOfOne DEF Covered, Retained
  <2> QED
    BY <1>1, <1>2, <1>3, <2>3, <2>6, BystandersStayCovered DEF AccountsInv
<1>6. CASE BodyIsRead(w)
  <2>1. /\ stage[w] = "open" /\ stage'[w] = "claimed" /\ w \in Uploads
        /\ UNCHANGED <<ingress, ingressBytes>>
    BY <1>6, OfOne DEF BodyIsRead, ingressVars
  <2>2. IngressAccount'
    BY <2>1 DEF AccountsInv, IngressAccount, Reserved
  <2>3. Covered(w)'
    BY <1>1, <1>4, <2>1, CoveredOfOne DEF Covered, Retained
  <2> QED
    BY <1>1, <1>2, <1>3, <2>1, <2>2, <2>3, BystandersStayCovered DEF AccountsInv
<1> QED
  BY <1>5, <1>6

LEMMA InitIsCovered == Init => AccountsInv
<1> SUFFICES ASSUME Init PROVE AccountsInv
  OBVIOUS
<1>1. Reserved(ingress) = {} /\ Reserved(pipeline) = {}
  BY DEF Init, Reserved
<1>2. /\ Cardinality(Reserved(ingress)) = 0 /\ Cardinality(Reserved(pipeline)) = 0
      /\ 0 <= MaxIngressBytes /\ 0 <= MaxPipelineBytes
  BY <1>1, FS_EmptySet, LimitsAreNat
<1>3. IngressAccount /\ PipelineAccount
  BY <1>2 DEF Init, IngressAccount, PipelineAccount
<1>4. \A w \in Works : Covered(w)
  BY DEF Init, Covered, Retained
<1> QED
  BY <1>3, <1>4 DEF AccountsInv

LEMMA StepIsCovered == IInv /\ AccountsInv /\ [Next]_vars => AccountsInv'
<1> SUFFICES ASSUME IInv, AccountsInv, [Next]_vars PROVE AccountsInv'
  OBVIOUS
<1>1. CASE UNCHANGED vars
  <2>1. UNCHANGED <<ingress, ingressBytes, pipeline, pipelineBytes, stage, provider, body>>
    BY <1>1 DEF vars, ingressVars, pipelineVars, workVars
  <2>2. IngressAccount' /\ PipelineAccount'
    BY <2>1 DEF AccountsInv, IngressAccount, PipelineAccount, Reserved
  <2> QED
    BY <2>1, <2>2, BystandersStayCovered DEF AccountsInv
<1>2. ASSUME NEW w \in Works,
             \E bytes \in ChunkSizes : ReadBody(w, bytes) \/ SpoolChunk(w, bytes)
      PROVE  AccountsInv'
  BY <1>2, SizesAreNat, ArrivalIsCovered
<1>3. ASSUME NEW w \in Works, LogStart(w) \/ LogChunk(w) \/ LogStop(w) \/ CopyWave(w)
      PROVE  AccountsInv'
  <2>1. 0 \in Nat
    OBVIOUS
  <2> QED
    BY <1>3, <2>1, ArrivalIsCovered
<1>4. ASSUME NEW w \in Works, BeginRefused(w) \/ Ends(w) PROVE AccountsInv'
  BY <1>4, OverIsCovered DEF BeginRefused, Ends
<1>5. ASSUME NEW w \in Works, NEW v \in Works, TakesDeadline(v, w) PROVE AccountsInv'
  BY <1>5, OverIsCovered DEF TakesDeadline
<1> QED
  BY <1>1, <1>2, <1>3, <1>4, <1>5, HandlerIsCovered, RunIsCovered DEF Next

-----------------------------------------------------------------------------
(* The theorems.                                                            *)

\* The counters of both kinds of slot count their holders in every reachable state.
THEOREM Invariance == Spec => []IInv
<1>1. IInv /\ [Next]_vars => IInv'
  BY StepKeeps, StutterKeeps DEF Next
<1> QED
  BY <1>1, InitHolds, PTL DEF Spec

\* However many requests race for the last slot, no more of them get one than the
\* configured limits allow: beginIngress and acquirePipeline decide by counters.
THEOREM SlotsHold == Spec => []SlotsAreBounded
<1>1. IInv => SlotsAreBounded
  BY DEF IInv, IngressOK, PipelineOK, Counted, SlotsAreBounded
<1> QED
  BY <1>1, Invariance, PTL

\* A provider detached by a deadline keeps its slot until its promise settles, and
\* no slot outlives both the run and the provider.
THEOREM CapacityIsKept == Spec => []CapacityFollowsWork
<1>1. IInv => CapacityFollowsWork
  BY DEF IInv
<1> QED
  BY <1>1, Invariance, PTL

\* The four counters that beginIngress, reserveIngress and acquirePipeline decide by
\* are what is held and reserved, within the limits, and no handler or provider keeps
\* more in memory than it has reserved.
THEOREM MemoryIsAccounted == Spec => []AccountsCoverMemory
<1>1. IInv /\ AccountsInv => AccountsCoverMemory
  <2> SUFFICES ASSUME IInv, AccountsInv PROVE AccountsCoverMemory
    OBVIOUS
  <2>1. ASSUME NEW w \in Works
        PROVE  Retained(w) <= ingress[w].bytes /\ Processed(w) <= pipeline[w].bytes
    BY CoveredOfOne, SizesAreNat DEF Covered, Processed
  <2> QED
    BY <2>1 DEF IInv, IngressOK, PipelineOK, Counted, AccountsInv, IngressAccount,
                PipelineAccount, AccountsCoverMemory
<1> QED
  BY <1>1, Invariance, InitIsCovered, StepIsCovered, PTL DEF Spec
=============================================================================
