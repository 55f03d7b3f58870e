---------------------------- MODULE AudioAdmission ----------------------------
(***************************************************************************)
(* The process-wide admission of audio: how many requests may hold audio   *)
(* and how many providers may work on it, and with how many bytes.  Every  *)
(* method of the admission runs without an await, so each is part of one   *)
(* step; but its callers await between them, and many do so at once.       *)
(*                                                                         *)
(* A work is one attempt's audio: an HTTP upload, or a stream recorded on  *)
(* a connection.  Whether an attempt may go on is the subject of           *)
(* AttemptRuntime and OrderedPcmActor: here a work may give up whenever    *)
(* its handler regains control.                                            *)
(***************************************************************************)
EXTENDS Integers, FiniteSets

CONSTANTS
  Uploads, Streams,   \* the works, by how their audio arrives
  MaxIngressLeases, MaxIngressBytes,   \* the configured limits
  MaxPipelines, MaxPipelineBytes,
  MaxBody,            \* the most audio one work may bring
  MaxDecoded,         \* the most a provider decodes it into
  LogLine, Header,    \* bytes of a line of a stream's log, of a WAVE header
  ChunkSizes          \* bytes that one read or one message may bring

Works == Uploads \union Streams

ASSUME WorksAreFinite == IsFiniteSet(Works) /\ Uploads \intersect Streams = {}

ASSUME LimitsArePositive ==
  /\ {MaxIngressLeases, MaxIngressBytes, MaxPipelines, MaxPipelineBytes}
       \subseteq Nat \ {0}
  /\ {MaxBody, MaxDecoded, LogLine, Header} \subseteq Nat
  /\ ChunkSizes \subseteq Nat

VARIABLES
  ingressLeases, ingressBytes,     \* the admission's counters
  pipelineLeases, pipelineBytes,
  ingress,    \* each work's ingress lease
  pipeline,   \* each work's pipeline lease
  stage,      \* how far each work's handler is
  provider,   \* what the provider it started is doing
  body,       \* audio bytes each work has brought
  unbound     \* works whose deadline a losing upload took away as they waited

ingressVars  == <<ingressLeases, ingressBytes, ingress>>
pipelineVars == <<pipelineLeases, pipelineBytes, pipeline>>
workVars     == <<stage, provider, body, unbound>>
vars == <<ingressVars, pipelineVars, workVars>>

\* A stream logs its start ("starting") and then takes chunks; it writes a chunk
\* ("spooling") before it logs it, and logs its stop ("stopping") before it copies
\* its spool into one WAVE body.
Stages == {"idle", "starting", "open", "spooling", "stopping", "claimed",
           "uploaded", "waiting", "committing", "over"}

\* "settling": the provider has answered, but not released what it uses.
ProviderStates == {"none", "working", "settling", "settled"}

Leases == [held : BOOLEAN, bytes : Nat]

Init ==
  /\ ingressLeases = 0 /\ ingressBytes = 0
  /\ pipelineLeases = 0 /\ pipelineBytes = 0
  /\ ingress  = [w \in Works |-> [held |-> FALSE, bytes |-> 0]]
  /\ pipeline = [w \in Works |-> [held |-> FALSE, bytes |-> 0]]
  /\ stage    = [w \in Works |-> "idle"]
  /\ provider = [w \in Works |-> "none"]
  /\ body     = [w \in Works |-> 0]
  /\ unbound  = {}

-----------------------------------------------------------------------------
(* The admission.                                                           *)

\* Written so that the sum is never computed: the counters stay safe integers.
ExceedsCombinedLimit(current, additional, limit) ==
  current > limit \/ additional > limit - current

BeginIngress(w) ==
  /\ ingressLeases < MaxIngressLeases
  /\ ingressLeases' = ingressLeases + 1
  /\ ingress' = [ingress EXCEPT ![w] = [held |-> TRUE, bytes |-> 0]]
  /\ UNCHANGED ingressBytes

ReserveIngress_Unrecorded(w, bytes) ==
  /\ ~ExceedsCombinedLimit(ingressBytes, bytes, MaxIngressBytes)
  /\ ingressBytes' = ingressBytes + bytes
  /\ UNCHANGED <<ingress, ingressLeases>>

\* A lease remembers what it reserved, to give it all back at once.
ReserveIngress(w, bytes) ==
  /\ ~ExceedsCombinedLimit(ingressBytes, bytes, MaxIngressBytes)
  /\ ingressBytes' = ingressBytes + bytes
  /\ ingress' = [ingress EXCEPT ![w].bytes = @ + bytes]
  /\ UNCHANGED ingressLeases


\* Released once; a work without a lease has nothing to release.
ReleaseIngress(w) ==
  IF ingress[w].held
  THEN /\ ingressBytes'  = ingressBytes - ingress[w].bytes
       /\ ingressLeases' = ingressLeases - 1
       /\ ingress' = [ingress EXCEPT ![w] = [held |-> FALSE, bytes |-> 0]]
  ELSE UNCHANGED ingressVars

AcquirePipeline(w, bytes) ==
  /\ pipelineLeases < MaxPipelines
  /\ ~ExceedsCombinedLimit(pipelineBytes, bytes, MaxPipelineBytes)
  /\ pipelineLeases' = pipelineLeases + 1
  /\ pipelineBytes'  = pipelineBytes + bytes
  /\ pipeline' = [pipeline EXCEPT ![w] = [held |-> TRUE, bytes |-> bytes]]

ReleasePipeline(w) ==
  IF pipeline[w].held
  THEN /\ pipelineBytes'  = pipelineBytes - pipeline[w].bytes
       /\ pipelineLeases' = pipelineLeases - 1
       /\ pipeline' = [pipeline EXCEPT ![w] = [held |-> FALSE, bytes |-> 0]]
  ELSE UNCHANGED pipelineVars

-----------------------------------------------------------------------------
(* What a work holds and uses.                                              *)

\* The body, and the largest WAVE it may decode into.
PipelineReservationBytes(w) ==
  (IF w \in Streams THEN body[w] + Header ELSE body[w]) + MaxDecoded

\* Until its provider starts, the pipeline lease is the handler's own.
OwnsPipelineLease_Always(w) == TRUE
OwnsPipelineLease(w) == provider[w] = "none"

GoesTo(w, next) == stage' = [stage EXCEPT ![w] = next]

\* Every way out of a handler gives its leases back.
Over(w) ==
  /\ GoesTo(w, "over")
  /\ ReleaseIngress(w)
  /\ IF OwnsPipelineLease(w) THEN ReleasePipeline(w) ELSE UNCHANGED pipelineVars
  /\ UNCHANGED <<provider, body>>

-----------------------------------------------------------------------------
(* Audio arrives.                                                           *)

Begin(w) ==
  /\ stage[w] = "idle"
  /\ BeginIngress(w)
  /\ GoesTo(w, IF w \in Streams THEN "starting" ELSE "open")
  /\ UNCHANGED <<pipelineVars, provider, body, unbound>>

BeginRefused(w) ==
  /\ stage[w] = "idle"
  /\ ingressLeases >= MaxIngressLeases
  /\ Over(w)
  /\ UNCHANGED unbound

ReadBody_OneCopy(w, bytes) ==
  /\ stage[w] = "open" /\ w \in Uploads
  /\ bytes <= MaxBody - body[w]
  /\ ReserveIngress(w, bytes)
  /\ body' = [body EXCEPT ![w] = @ + bytes]
  /\ UNCHANGED <<pipelineVars, stage, provider, unbound>>

\* The chunks stay while they are joined into one body: two copies at the peak.
ReadBody(w, bytes) ==
  /\ stage[w] = "open" /\ w \in Uploads
  /\ bytes <= MaxBody - body[w]
  /\ ReserveIngress(w, 2 * bytes)
  /\ body' = [body EXCEPT ![w] = @ + bytes]
  /\ UNCHANGED <<pipelineVars, stage, provider, unbound>>

\* An empty body is refused.
BodyIsRead(w) ==
  /\ stage[w] = "open" /\ w \in Uploads
  /\ body[w] > 0
  /\ GoesTo(w, "claimed")
  /\ UNCHANGED <<ingressVars, pipelineVars, provider, body, unbound>>

LogStart(w) ==
  /\ stage[w] = "starting"
  /\ ReserveIngress(w, LogLine)
  /\ GoesTo(w, "open")
  /\ UNCHANGED <<pipelineVars, provider, body, unbound>>

SpoolChunk(w, bytes) ==
  /\ stage[w] = "open" /\ w \in Streams
  /\ bytes <= MaxBody - body[w]
  /\ ReserveIngress(w, bytes)
  /\ body' = [body EXCEPT ![w] = @ + bytes]
  /\ GoesTo(w, "spooling")
  /\ UNCHANGED <<pipelineVars, provider, unbound>>

LogChunk(w) ==
  /\ stage[w] = "spooling"
  /\ ReserveIngress(w, LogLine)
  /\ GoesTo(w, "open")
  /\ UNCHANGED <<pipelineVars, provider, body, unbound>>

LogStop(w) ==
  /\ stage[w] = "open" /\ w \in Streams
  /\ ReserveIngress(w, LogLine)
  /\ GoesTo(w, "stopping")
  /\ UNCHANGED <<pipelineVars, provider, body, unbound>>

\* A stream without audio is refused.
CopyWave(w) ==
  /\ stage[w] = "stopping"
  /\ body[w] > 0
  /\ ReserveIngress(w, body[w] + Header)
  /\ GoesTo(w, "claimed")
  /\ UNCHANGED <<pipelineVars, provider, body, unbound>>

-----------------------------------------------------------------------------
(* The claimed run.                                                         *)

AdmitPipeline(w) ==
  /\ stage[w] = "claimed"
  /\ AcquirePipeline(w, PipelineReservationBytes(w))
  /\ GoesTo(w, "uploaded")
  /\ UNCHANGED <<ingressVars, provider, body, unbound>>

\* audio.uploaded is written; from here the provider owns the lease.
StartProvider(w) ==
  /\ stage[w] = "uploaded"
  /\ GoesTo(w, "waiting")
  /\ provider' = [provider EXCEPT ![w] = "working"]
  /\ UNCHANGED <<ingressVars, pipelineVars, body, unbound>>

\* The provider answers, whether or not its handler still listens.
ProviderAnswers(w) ==
  /\ provider[w] = "working"
  /\ provider' = [provider EXCEPT ![w] = "settling"]
  /\ stage' = [stage EXCEPT ![w] = IF @ = "waiting" THEN "committing" ELSE @]
  /\ UNCHANGED <<ingressVars, pipelineVars, body, unbound>>

\* A provider that fails has nothing left to settle; its handler fails too.
ProviderFails(w) ==
  /\ provider[w] = "working"
  /\ provider' = [provider EXCEPT ![w] = "settled"]
  /\ ReleasePipeline(w)
  /\ stage' = [stage EXCEPT ![w] = IF @ = "waiting" THEN "committing" ELSE @]
  /\ UNCHANGED <<ingressVars, body, unbound>>

\* The resources of a result outlive it, for a worker that is being replaced.
ProviderSettles(w) ==
  /\ provider[w] = "settling"
  /\ provider' = [provider EXCEPT ![w] = "settled"]
  /\ ReleasePipeline(w)
  /\ UNCHANGED <<ingressVars, stage, body, unbound>>

\* The handler is done: it committed or failed, it was refused (too large, no
\* capacity, no claim), its client went away, or its deadline detached it from
\* whatever it was waiting for.
Ends(w) ==
  /\ stage[w] \notin {"idle", "over"}
  /\ Over(w)
  /\ UNCHANGED unbound

\* An upload that finds its body empty or too large, no room for it or the claim
\* taken cancels the deadline it armed, though the owner w of the claim goes by the
\* same one.  It aborts no work: a w that waits for its provider hears nothing.
TakesDeadline(v, w) ==
  /\ stage[v] = "open" /\ v \in Uploads
  /\ stage[w] = "waiting"
  /\ Over(v)
  /\ unbound' = unbound \union {w}

-----------------------------------------------------------------------------
Next ==
  \E w \in Works :
    \/ Begin(w) \/ BeginRefused(w)
    \/ \E bytes \in ChunkSizes : ReadBody(w, bytes) \/ SpoolChunk(w, bytes)
    \/ BodyIsRead(w) \/ LogStart(w) \/ LogChunk(w) \/ LogStop(w) \/ CopyWave(w)
    \/ AdmitPipeline(w) \/ StartProvider(w)
    \/ ProviderAnswers(w) \/ ProviderFails(w) \/ ProviderSettles(w)
    \/ Ends(w)
    \/ \E v \in Works : TakesDeadline(v, w)

\* A handler that waits for a provider, with no deadline to end its wait.
Strays(w) == w \in unbound /\ stage[w] = "waiting"

\* The attempt's deadline or its capture timer ends every other handler that has
\* begun.  No provider owes an answer, but one that answered does settle.
Fairness ==
  \A w \in Works :
    WF_vars(~Strays(w) /\ Ends(w)) /\ WF_vars(ProviderSettles(w))

Spec == Init /\ [][Next]_vars /\ Fairness

-----------------------------------------------------------------------------
(* Properties.                                                              *)

Holders(leases) == {w \in Works : leases[w].held}

\* Each byte that a lease has reserved.
Reserved(leases) == UNION {{w} \X (1..leases[w].bytes) : w \in Works}

\* Never more holders than slots, however many requests race for the last one.
SlotsAreBounded ==
  /\ Cardinality(Holders(ingress)) <= MaxIngressLeases
  /\ Cardinality(Holders(pipeline)) <= MaxPipelines

\* What a work's handler keeps in memory or in its spool.
Retained(w) ==
  CASE stage[w] \in {"idle", "over"} -> 0
    [] stage[w] \in {"starting", "open", "spooling", "stopping"} -> body[w]
    [] OTHER -> IF w \in Uploads THEN 2 * body[w] ELSE 2 * body[w] + Header

\* What a work's provider keeps: the body and what it decoded.
Processed(w) ==
  IF provider[w] \in {"working", "settling"} THEN PipelineReservationBytes(w) ELSE 0

\* The counters that decide about admission count what is really held, through
\* every order of refusals, disconnects, detached providers and late answers, and
\* so bound the memory itself, not the sum of the bodies: both copies of a body,
\* the WAVE copy of a stream, and what a detached provider still uses.
AccountsCoverMemory ==
  /\ ingressLeases  = Cardinality(Holders(ingress))
  /\ pipelineLeases = Cardinality(Holders(pipeline))
  /\ ingressBytes  = Cardinality(Reserved(ingress))  /\ ingressBytes  <= MaxIngressBytes
  /\ pipelineBytes = Cardinality(Reserved(pipeline)) /\ pipelineBytes <= MaxPipelineBytes
  /\ \A w \in Works :
       Retained(w) <= ingress[w].bytes /\ Processed(w) <= pipeline[w].bytes

\* A provider that may still use its slot holds it, even when a deadline has
\* detached its handler; and a slot is held only for a run or a provider.
CapacityFollowsWork ==
  \A w \in Works :
    pipeline[w].held <=>
      stage[w] = "uploaded" \/ provider[w] \in {"working", "settling"}

=============================================================================
