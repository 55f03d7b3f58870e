--------------------------- MODULE AttemptRuntime ----------------------------
(***************************************************************************)
(* One session attempt on the server, and everything that races for it:    *)
(* HTTP audio uploads, manual or operator transcripts, device buttons,     *)
(* operator events, the processing deadline, the provider work that may    *)
(* outlive its request, and the spoken output that follows a result.       *)
(*                                                                         *)
(* Node runs handlers on one thread, so a step of this module is the code  *)
(* between two awaits.  Every event is committed synchronously; the        *)
(* handler then awaits the receipt file, and other handlers run meanwhile. *)
(***************************************************************************)
EXTENDS SessionEvents, FiniteSets

CONSTANTS
  Uploads,   \* audio upload requests
  Manuals,   \* manual or operator transcript requests
  Channels,  \* reading channels resolved before a result (three in the code)
  NoOne      \* the claim holder before any claim, the author of outside events

Requests == Uploads \union Manuals

ASSUME RequestsAreDistinct ==
  /\ Uploads \intersect Manuals = {}
  /\ NoOne \notin Requests

ASSUME ChannelsArePositive == Channels \in Nat \ {0}

VARIABLES
  log,          \* committed events: [type, by]
  status,       \* SessionRecord.status
  claim,        \* the request that owns the attempt's input
  armed,        \* identity of the armed deadline, 0 when there is none
  anchors,      \* deadlines armed so far
  overdue,      \* the armed deadline's instant has passed
  held,         \* the deadline each upload observes
  hadDeadline,  \* the upload found a deadline already armed
  pc,           \* where each request stands
  written,      \* how many events of its plan each runner has committed
  work,         \* each runner's lease in the attempt work registry
  provider,     \* each runner's pipeline promise
  pipelineLease,\* each runner's pipeline admission lease is held
  speech,       \* the output task speaking the result
  speechAborted \* that task's abort signal

sessionVars  == <<log, status, claim>>
deadlineVars == <<armed, anchors, overdue>>
requestVars  == <<held, hadDeadline, pc, written>>
runVars      == <<work, provider, pipelineLease>>
speechVars   == <<speech, speechAborted>>
vars == <<sessionVars, deadlineVars, requestVars, runVars, speechVars>>

-----------------------------------------------------------------------------
(* What a runner commits, in order.                                        *)

Prelude(r) ==
  IF r \in Uploads
  THEN <<"audio_uploaded", "audio_normalized", "audio_transcribed",
         "audio_features", "reading_started">>
  ELSE <<"audio_transcribed", "audio_features", "reading_started">>

PlanLength(r) == Len(Prelude(r)) + Channels + 1

Plan(r) ==
  [i \in 1..PlanLength(r) |->
     IF i <= Len(Prelude(r)) THEN Prelude(r)[i]
     ELSE IF i < PlanLength(r) THEN "channel_resolved"
     ELSE "session_result"]

NextOf(r) == Plan(r)[written[r] + 1]

Finished(r) == written[r] = PlanLength(r)

AnalysisEvents ==
  {"audio_uploaded", "audio_normalized", "audio_transcribed", "audio_features",
   "reading_started", "channel_resolved", "session_result"}

Outcomes == {"answered", "rejected", "superseded", "failed"}

-----------------------------------------------------------------------------
(* The session record.                                                     *)

Commit(type, by) ==
  /\ log'    = Append(log, [type |-> type, by |-> by])
  /\ status' = StatusAfter(type, status)

MayFollow(type) == EventMayFollow(status, log, type)

IsAttemptOpen == status \notin {"reset", "error"}

\* The audio was released but no upload has been accepted yet.
AwaitsReleasedAudio ==
  /\ status = "processing"
  /\ log[Len(log)].type = "recording_stopped"
  /\ ~Logged(log, "audio_uploaded")

CanSubmitAudio == status \in {"created", "recording"} \/ AwaitsReleasedAudio

Unclaimed_Ignored == TRUE
Unclaimed == claim = NoOne

CanClaim(r) ==
  /\ Unclaimed
  /\ IF r \in Uploads THEN CanSubmitAudio ELSE status = "created"

-----------------------------------------------------------------------------
(* The deadline registry: one deadline per attempt, whose identity is the  *)
(* abort signal its observers hold.                                        *)

EnsureDeadline ==
  IF armed = 0
  THEN /\ anchors' = anchors + 1
       /\ armed'   = anchors + 1
       /\ overdue' = FALSE
  ELSE UNCHANGED deadlineVars

Disarm ==
  /\ armed'   = 0
  /\ overdue' = FALSE
  /\ UNCHANGED anchors

\* A committed result disarms the deadline before its receipt is awaited.
DisarmAfterResult(type) ==
  IF type = "session_result" THEN Disarm ELSE UNCHANGED deadlineVars

DeadlineDue_TimerOnly == FALSE
DeadlineDue == armed # 0 /\ overdue

\* Every way a deadline leaves the registry aborts its signal.
SignalAborted(u) == held[u] # armed

AllowsCommit(u) == ~DeadlineDue /\ ~SignalAborted(u) /\ IsAttemptOpen

MayCommit(u) == AllowsCommit(u) /\ work[u] # "aborted"

\* What one more abort does to the leases of the work registry.
Aborted(leases) ==
  [u \in Uploads |-> IF leases[u] = "active" THEN "aborted" ELSE leases[u]]

CancelSpeech ==
  /\ speechAborted' = (speechAborted \/ speech \notin {"none", "ended"})
  /\ UNCHANGED speech

\* cancelAttemptAfterTerminal, after a committed reset or error.
CancelAttempt(leases) ==
  /\ Disarm
  /\ work' = Aborted(leases)
  /\ CancelSpeech

Expire_DropsOnly(leases) ==
  /\ Disarm
  /\ work' = leases
  /\ UNCHANGED <<log, status, speechVars>>

\* The registry's expiry: drop the deadline and seal an attempt still running.
Expire(leases) ==
  IF status \in TerminalStatuses
  THEN /\ Disarm
       /\ work' = leases
       /\ UNCHANGED <<log, status, speechVars>>
  ELSE /\ Commit("session_error", NoOne)
       /\ CancelAttempt(leases)

\* attemptDeadlineAllowsCommit notices a due deadline and expires it.
ExpireIfDue(leases) ==
  IF DeadlineDue
  THEN Expire(leases)
  ELSE /\ work' = leases
       /\ UNCHANGED <<log, status, deadlineVars, speechVars>>

End(r, outcome) == pc' = [pc EXCEPT ![r] = outcome]

-----------------------------------------------------------------------------
Init ==
  /\ log    = <<[type |-> "session_created", by |-> NoOne]>>
  /\ status = "created"
  /\ claim  = NoOne
  /\ armed = 0 /\ anchors = 0 /\ overdue = FALSE
  /\ held          = [u \in Uploads |-> 0]
  /\ hadDeadline   = [u \in Uploads |-> FALSE]
  /\ pc            = [r \in Requests |-> "idle"]
  /\ written       = [r \in Requests |-> 0]
  /\ work          = [u \in Uploads |-> "none"]
  /\ provider      = [u \in Uploads |-> "none"]
  /\ pipelineLease = [u \in Uploads |-> FALSE]
  /\ speech = "none" /\ speechAborted = FALSE

-----------------------------------------------------------------------------
(* Audio uploads: acceptance, body, claim.                                 *)

\* The request is accepted and starts, or joins, the attempt's deadline.
AcceptUpload(u) ==
  /\ pc[u] = "idle"
  /\ CanSubmitAudio
  /\ EnsureDeadline
  /\ hadDeadline' = [hadDeadline EXCEPT ![u] = (armed # 0)]
  /\ held' = [held EXCEPT ![u] = armed']
  /\ pc'   = [pc EXCEPT ![u] = "body"]
  /\ UNCHANGED <<sessionVars, written, runVars, speechVars>>

\* Wrong status, wrong content type, unknown consent or no ingress slot left.
RefuseUpload(u) ==
  /\ pc[u] = "idle"
  /\ End(u, "rejected")
  /\ UNCHANGED <<sessionVars, deadlineVars, held, hadDeadline, written,
                 runVars, speechVars>>

\* The deadline's signal interrupts the body, or the body completes too late.
BodySuperseded(u) ==
  /\ pc[u] = "body"
  /\ ~AllowsCommit(u)
  /\ IF SignalAborted(u)
     THEN UNCHANGED <<log, status, deadlineVars, work, speechVars>>
     ELSE ExpireIfDue(work)
  /\ End(u, "superseded")
  /\ UNCHANGED <<claim, held, hadDeadline, written, provider, pipelineLease>>

\* The client disconnects: the handler throws and the deadline stays armed.
BodyBroken(u) ==
  /\ pc[u] = "body"
  /\ ~SignalAborted(u)
  /\ End(u, "failed")
  /\ UNCHANGED <<sessionVars, deadlineVars, held, hadDeadline, written,
                 runVars, speechVars>>

\* A rejected request cancels the deadline it believes to be its own.
CancelRequestOwnedDeadline(u) ==
  IF hadDeadline[u] THEN UNCHANGED deadlineVars ELSE Disarm

\* The body is too large or over the ingress budget (rejected at any time), or
\* it is complete but empty, or it lost the input claim.
BodyRejected(u) ==
  /\ pc[u] = "body"
  /\ ~SignalAborted(u)
  /\ CancelRequestOwnedDeadline(u)
  /\ End(u, "rejected")
  /\ UNCHANGED <<sessionVars, held, hadDeadline, written, runVars, speechVars>>

\* What starting the claimed run does once the runner holds its work lease:
\* either the pipeline is admitted and the upload is committed, or capacity
\* fails the attempt with a typed error.
StartRun(u) ==
  LET leases == [Aborted(work) EXCEPT ![u] = "active"]
  IN  \/ /\ Commit("audio_uploaded", u)
         /\ written' = [written EXCEPT ![u] = 1]
         /\ pc'      = [pc EXCEPT ![u] = "writing"]
         /\ work'    = leases
         /\ pipelineLease' = [pipelineLease EXCEPT ![u] = TRUE]
         /\ UNCHANGED <<deadlineVars, speechVars>>
      \/ /\ Commit("session_error", u)
         /\ CancelAttempt(leases)
         /\ pc' = [pc EXCEPT ![u] = "closing"]
         /\ UNCHANGED <<written, pipelineLease>>

\* The complete body claims the attempt and its run starts in the same step.
BodyClaims(u) ==
  /\ pc[u] = "body"
  /\ AllowsCommit(u)
  /\ CanClaim(u)
  /\ claim' = u
  /\ StartRun(u)
  /\ UNCHANGED <<held, hadDeadline, provider>>

\* An upload that carries its duration while the attempt is still recording
\* commits the stop first and awaits that receipt.
BodyClaimsAndStops(u) ==
  /\ pc[u] = "body"
  /\ AllowsCommit(u)
  /\ CanClaim(u)
  /\ status = "recording"
  /\ claim' = u
  /\ Commit("recording_stopped", u)
  /\ pc' = [pc EXCEPT ![u] = "stopWrite"]
  /\ UNCHANGED <<deadlineVars, held, hadDeadline, written, runVars, speechVars>>

BodyLosesClaim(u) ==
  /\ pc[u] = "body"
  /\ AllowsCommit(u)
  /\ ~CanClaim(u)
  /\ CancelRequestOwnedDeadline(u)
  /\ End(u, "rejected")
  /\ UNCHANGED <<sessionVars, held, hadDeadline, written, runVars, speechVars>>

StopWritten(u) ==
  /\ pc[u] = "stopWrite"
  /\ AllowsCommit(u)
  /\ StartRun(u)
  /\ UNCHANGED <<claim, held, hadDeadline, provider>>

StopSuperseded(u) ==
  /\ pc[u] = "stopWrite"
  /\ ~AllowsCommit(u)
  /\ ExpireIfDue(work)
  /\ End(u, "superseded")
  /\ UNCHANGED <<claim, held, hadDeadline, written, provider, pipelineLease>>

StopNotWritten(u) ==
  /\ pc[u] = "stopWrite"
  /\ End(u, IF SignalAborted(u) THEN "superseded" ELSE "failed")
  /\ UNCHANGED <<sessionVars, deadlineVars, held, hadDeadline, written,
                 runVars, speechVars>>

-----------------------------------------------------------------------------
(* The claimed audio run, the one commit path shared with ordered PCM.     *)

\* The runner's last await resolves and its next step is still allowed.
CommitNext(r) ==
  /\ ~Finished(r)
  /\ Commit(NextOf(r), r)
  /\ written' = [written EXCEPT ![r] = @ + 1]
  /\ pc' = [pc EXCEPT ![r] = "writing"]

\* The last receipt settled, so the runner moves on to its next event; the
\* audio run first waits for its pipeline when the upload itself is committed.
AudioContinues(u) ==
  /\ pc[u] = "writing"
  /\ written[u] # 1
  /\ MayCommit(u)
  /\ CommitNext(u)
  /\ DisarmAfterResult(NextOf(u))
  /\ UNCHANGED <<claim, held, hadDeadline, runVars, speechVars>>

StartPipeline(u) ==
  /\ pc[u] = "writing"
  /\ written[u] = 1
  /\ MayCommit(u)
  /\ provider' = [provider EXCEPT ![u] = "running"]
  /\ pc' = [pc EXCEPT ![u] = "pipeline"]
  /\ UNCHANGED <<sessionVars, deadlineVars, held, hadDeadline, written, work,
                 pipelineLease, speechVars>>

\* The pipeline returned before anything aborted the run.
PipelineJoined(u) ==
  /\ pc[u] = "pipeline"
  /\ provider[u] = "returned"
  /\ MayCommit(u)
  /\ CommitNext(u)
  /\ UNCHANGED <<claim, deadlineVars, held, hadDeadline, runVars, speechVars>>

\* What a run gives back however it ends.  Once provider work exists, the
\* lease is the provider's and only its settlement releases it.
ReleaseOwnLease(u) ==
  [pipelineLease EXCEPT ![u] = @ /\ provider[u] # "none"]

\* At a commit boundary, or when the abort wins the race against the pipeline,
\* the run finds that it was superseded and leaves the attempt as it is.
AudioSuperseded(u) ==
  /\ \/ pc[u] = "writing" /\ ~Finished(u)
     \/ pc[u] = "pipeline" /\ provider[u] # "running"
     \/ pc[u] = "pipeline" /\ work[u] = "aborted"
  /\ ~MayCommit(u)
  /\ ExpireIfDue([work EXCEPT ![u] = "none"])
  /\ End(u, "superseded")
  /\ pipelineLease' = ReleaseOwnLease(u)
  /\ UNCHANGED <<claim, held, hadDeadline, written, provider>>

\* A receipt that could not be written, or a failed pipeline, fails an attempt
\* that is still the run's to fail.
AudioFails(u) ==
  /\ \/ pc[u] = "writing" /\ ~Finished(u)
     \/ pc[u] = "pipeline" /\ provider[u] = "failed"
  /\ MayCommit(u)
  /\ Commit("session_error", u)
  /\ CancelAttempt(work)
  /\ End(u, "closing")
  /\ UNCHANGED <<claim, held, hadDeadline, written, provider, pipelineLease>>

\* The receipt of the run's own error settles, written or not.
AudioErrorAnswered(u) ==
  /\ pc[u] = "closing"
  /\ work' = [work EXCEPT ![u] = "none"]
  /\ pipelineLease' = ReleaseOwnLease(u)
  /\ End(u, "failed")
  /\ UNCHANGED <<sessionVars, deadlineVars, held, hadDeadline, written,
                 provider, speechVars>>

\* The result's receipt settles, written or not, and its speech is scheduled.
ScheduleSpeech ==
  /\ speech' = "pacing"
  /\ speechAborted' = FALSE

AudioAnswered(u) ==
  /\ pc[u] = "writing"
  /\ Finished(u)
  /\ ScheduleSpeech
  /\ work' = [work EXCEPT ![u] = "none"]
  /\ pipelineLease' = ReleaseOwnLease(u)
  /\ End(u, "answered")
  /\ UNCHANGED <<sessionVars, deadlineVars, held, hadDeadline, written,
                 provider>>

-----------------------------------------------------------------------------
(* The pipeline's own life.  It may return a result while a timed-out       *)
(* adapter still holds resources, and it may never return at all.          *)

PipelineReturns(u) ==
  /\ provider[u] = "running"
  /\ \E outcome \in {"returned", "failed"} :
       provider' = [provider EXCEPT ![u] = outcome]
  /\ UNCHANGED <<sessionVars, deadlineVars, requestVars, work, pipelineLease,
                 speechVars>>

ResourcesSettle(u) ==
  /\ provider[u] \in {"returned", "failed"}
  /\ pipelineLease[u]
  /\ pipelineLease' = [pipelineLease EXCEPT ![u] = FALSE]
  /\ UNCHANGED <<sessionVars, deadlineVars, requestVars, work, provider,
                 speechVars>>

-----------------------------------------------------------------------------
(* Manual and operator transcripts: the same events, no deadline, no lease. *)

\* The claim and the first event are one step: nothing is awaited in between.
ManualStarts(m) ==
  /\ pc[m] = "idle"
  /\ CanClaim(m)
  /\ claim' = m
  /\ CommitNext(m)
  /\ UNCHANGED <<deadlineVars, held, hadDeadline, runVars, speechVars>>

ManualRefused(m) ==
  /\ pc[m] = "idle"
  /\ ~CanClaim(m)
  /\ End(m, "rejected")
  /\ UNCHANGED <<sessionVars, deadlineVars, held, hadDeadline, written,
                 runVars, speechVars>>

\* "reading_started" is emitted without asking whether the attempt is open, so
\* only the store's own transition check can stop it.
ChecksOpen(m) == NextOf(m) # "reading_started"

ManualContinues(m) ==
  /\ pc[m] = "writing"
  /\ ~Finished(m) /\ IF ChecksOpen(m) THEN IsAttemptOpen ELSE MayFollow(NextOf(m))
  /\ CommitNext(m)
  /\ DisarmAfterResult(NextOf(m))
  /\ UNCHANGED <<claim, held, hadDeadline, runVars, speechVars>>

ManualStopped(m) ==
  /\ pc[m] = "writing"
  /\ ~Finished(m)
  /\ ~IsAttemptOpen
  /\ End(m, IF ChecksOpen(m) THEN "superseded" ELSE "failed")
  /\ UNCHANGED <<sessionVars, deadlineVars, held, hadDeadline, written,
                 runVars, speechVars>>

\* A receipt that could not be written ends the request, not the attempt.
ManualNotWritten(m) ==
  /\ pc[m] = "writing"
  /\ ~Finished(m)
  /\ End(m, "failed")
  /\ UNCHANGED <<sessionVars, deadlineVars, held, hadDeadline, written,
                 runVars, speechVars>>

ManualAnswered(m) ==
  /\ pc[m] = "writing"
  /\ Finished(m)
  /\ ScheduleSpeech
  /\ End(m, "answered")
  /\ UNCHANGED <<sessionVars, deadlineVars, held, hadDeadline, written, runVars>>

-----------------------------------------------------------------------------
(* Events from outside.  The input route refuses a claimed attempt; the     *)
(* operator route does not ask.                                            *)

DeviceStarts ==
  /\ Unclaimed
  /\ CanAcceptExternal(status, "recording_started")
  /\ CancelSpeech
  /\ Commit("recording_started", NoOne)
  /\ UNCHANGED <<claim, deadlineVars, requestVars, runVars>>

DeviceStops ==
  /\ Unclaimed
  /\ CanAcceptExternal(status, "recording_stopped")
  /\ Commit("recording_stopped", NoOne)
  /\ EnsureDeadline
  /\ UNCHANGED <<claim, requestVars, runVars, speechVars>>

DeviceFails ==
  /\ Unclaimed
  /\ CanAcceptExternal(status, "session_error")
  /\ Commit("session_error", NoOne)
  /\ CancelAttempt(work)
  /\ UNCHANGED <<claim, requestVars, provider, pipelineLease>>

OperatorStarts ==
  /\ CanAcceptExternal(status, "recording_started")
  /\ Commit("recording_started", NoOne)
  /\ UNCHANGED <<claim, deadlineVars, requestVars, runVars, speechVars>>

OperatorStops ==
  /\ CanAcceptExternal(status, "recording_stopped")
  /\ Commit("recording_stopped", NoOne)
  /\ EnsureDeadline
  /\ UNCHANGED <<claim, requestVars, runVars, speechVars>>

OperatorEnds(type) ==
  /\ type \in {"session_reset", "session_error"}
  /\ CanAcceptExternal(status, type)
  /\ Commit(type, NoOne)
  /\ CancelAttempt(work)
  /\ UNCHANGED <<claim, requestVars, provider, pipelineLease>>

OperatorSilences ==
  /\ CanAcceptExternal(status, "session_silence")
  /\ Commit("session_silence", NoOne)
  /\ UNCHANGED <<claim, deadlineVars, requestVars, runVars, speechVars>>

\* Another session was created, started recording or scheduled its own output.
OutputReplaced ==
  /\ speech \notin {"none", "ended"}
  /\ ~speechAborted
  /\ CancelSpeech
  /\ UNCHANGED <<sessionVars, deadlineVars, requestVars, runVars>>

-----------------------------------------------------------------------------
(* The deadline's clock.  The timer may fire long after its instant, when   *)
(* synchronous work held the event loop.                                   *)

DeadlinePasses ==
  /\ armed # 0
  /\ ~overdue
  /\ overdue' = TRUE
  /\ UNCHANGED <<sessionVars, armed, anchors, requestVars, runVars, speechVars>>

DeadlineFires ==
  /\ armed # 0
  /\ overdue
  /\ Expire(work)
  /\ UNCHANGED <<claim, requestVars, provider, pipelineLease>>

-----------------------------------------------------------------------------
(* The output task of a committed result.                                  *)

SpeechOnly == UNCHANGED <<claim, deadlineVars, requestVars, runVars>>

SpeechStarts ==
  /\ speech = "pacing"
  /\ ~speechAborted
  /\ MayFollow("tts_started")
  /\ Commit("tts_started", NoOne)
  /\ speech' = "starting"
  /\ SpeechOnly /\ UNCHANGED speechAborted

SpeechNeverStarts ==
  /\ speech = "pacing"
  /\ speechAborted \/ ~MayFollow("tts_started")
  /\ speech' = "ended"
  /\ SpeechOnly /\ UNCHANGED <<log, status, speechAborted>>

SpeechPlays ==
  /\ speech = "starting"
  /\ speech' = "speaking"
  /\ SpeechOnly /\ UNCHANGED <<log, status, speechAborted>>

\* The player returned, failed or was aborted, or the start's receipt was not
\* written: the task closes the spoken output if the result still stands.
SpeechEnds ==
  /\ speech \in {"starting", "speaking"}
  /\ IF MayFollow("tts_finished")
     THEN Commit("tts_finished", NoOne)
     ELSE UNCHANGED <<log, status>>
  /\ speech' = "ended"
  /\ SpeechOnly /\ UNCHANGED speechAborted

-----------------------------------------------------------------------------
Upload(u) ==
  \/ AcceptUpload(u) \/ RefuseUpload(u)
  \/ BodySuperseded(u) \/ BodyBroken(u) \/ BodyRejected(u)
  \/ BodyClaims(u) \/ BodyClaimsAndStops(u) \/ BodyLosesClaim(u)

AudioRun(u) ==
  \/ StopWritten(u) \/ StopSuperseded(u) \/ StopNotWritten(u)
  \/ AudioContinues(u) \/ StartPipeline(u) \/ PipelineJoined(u)
  \/ AudioSuperseded(u) \/ AudioFails(u)
  \/ AudioErrorAnswered(u) \/ AudioAnswered(u)

Pipeline(u) == PipelineReturns(u) \/ ResourcesSettle(u)

ManualRun(m) ==
  \/ ManualContinues(m) \/ ManualStopped(m) \/ ManualNotWritten(m)
  \/ ManualAnswered(m)

Manual(m) == ManualStarts(m) \/ ManualRefused(m) \/ ManualRun(m)

Outside ==
  \/ DeviceStarts \/ DeviceStops \/ DeviceFails
  \/ OperatorStarts \/ OperatorStops \/ OperatorSilences
  \/ \E type \in EventTypes : OperatorEnds(type)
  \/ OutputReplaced

Clock == DeadlinePasses \/ DeadlineFires

Speech == SpeechStarts \/ SpeechNeverStarts \/ SpeechPlays \/ SpeechEnds

Next ==
  \/ \E u \in Uploads : Upload(u) \/ AudioRun(u) \/ Pipeline(u)
  \/ \E m \in Manuals : Manual(m)
  \/ Outside \/ Clock \/ Speech

\* File writes settle, the clock advances, timers fire and players end.  Nobody
\* owes a request, a body, an outside event or a provider's answer.
Fairness ==
  /\ \A u \in Uploads : WF_vars(AudioRun(u))
  /\ \A m \in Manuals : WF_vars(ManualRun(m))
  /\ WF_vars(DeadlinePasses) /\ WF_vars(DeadlineFires)
  /\ WF_vars(Speech)

Spec == Init /\ [][Next]_vars /\ Fairness

-----------------------------------------------------------------------------
(* Properties.                                                             *)

SessionTypeOK ==
  /\ log \in Seq([type : EventTypes, by : Requests \union {NoOne}])
  /\ status \in Statuses
  /\ claim \in Requests \union {NoOne}

DeadlineTypeOK == armed \in Nat /\ anchors \in Nat /\ overdue \in BOOLEAN

RequestTypeOK ==
  /\ held \in [Uploads -> Nat]
  /\ hadDeadline \in [Uploads -> BOOLEAN]
  /\ pc \in [Requests -> {"idle", "body", "stopWrite", "writing", "pipeline",
                          "closing"} \union Outcomes]
  /\ written \in [Requests -> Nat]
  /\ \A r \in Requests : written[r] <= PlanLength(r)

RunTypeOK ==
  /\ work \in [Uploads -> {"none", "active", "aborted"}]
  /\ provider \in [Uploads -> {"none", "running", "returned", "failed"}]
  /\ pipelineLease \in [Uploads -> BOOLEAN]

SpeechTypeOK ==
  /\ speech \in {"none", "pacing", "starting", "speaking", "ended"}
  /\ speechAborted \in BOOLEAN

\* Every variable keeps its type, and no runner commits past its plan.
TypeOK ==
  SessionTypeOK /\ DeadlineTypeOK /\ RequestTypeOK /\ RunTypeOK /\ SpeechTypeOK

\* However uploads and transcripts race, every analysis event of the attempt
\* was written by the one request that holds its input claim.
OneInputOwner ==
  \A i \in DOMAIN log : log[i].type \in AnalysisEvents => log[i].by = claim

\* Where analysis events stand among the first n of a log.
AnalysisUpTo(events, n) == {i \in 1..n : events[i].type \in AnalysisEvents}

\* Whoever reads the log reads one reading: however requests race, the analysis
\* events committed to an attempt are the first steps of a single run, that of the
\* request that claimed its input, in order, without a gap and without a repetition.
OneReading ==
  \A i \in AnalysisUpTo(log, Len(log)) :
    LET place == Cardinality(AnalysisUpTo(log, i))
    IN  /\ claim \in Requests /\ log[i].by = claim
        /\ place \in 1..PlanLength(claim) /\ log[i].type = Plan(claim)[place]

\* The commit check is sufficient: an audio run that passed it is never
\* refused by the store, so a run ends with a 202, a 409 or a typed error.
CheckedCommitsAreLegal ==
  \A u \in Uploads :
    /\ \/ pc[u] = "writing" /\ ~Finished(u)
       \/ pc[u] = "pipeline"
    /\ MayCommit(u)
    => MayFollow(NextOf(u))

\* A deadline is armed only while there is something left for it to seal.
ArmedMeansOpen == armed # 0 => status \notin TerminalStatuses

\* Reset and error reach the run: no work of a sealed attempt is left running
\* without its abort signal set.
SealedWorkIsAborted ==
  ~IsAttemptOpen => \A u \in Uploads : work[u] # "active"

\* Pipeline capacity is accounted for as long as provider work can consume it,
\* even after its request was answered, and is never left behind by a request
\* that ended before its provider started.
LeaseFollowsWork ==
  \A u \in Uploads :
    /\ provider[u] = "running" => pipelineLease[u]
    /\ pc[u] \in Outcomes /\ provider[u] = "none" => ~pipelineLease[u]

\* Reset absorbs, error admits only a reset: nothing late is ever appended.
SealedLogIsFinal ==
  [][~IsAttemptOpen /\ log' # log
       => /\ status = "error" /\ status' = "reset"
          /\ log' = Append(log, [type |-> "session_reset", by |-> NoOne])]_vars

\* No audio run commits anything once its deadline's instant has passed, even
\* though the timer that should have sealed the attempt has not run yet.
NoOverdueCommit ==
  [][\A u \in Uploads : written'[u] # written[u] => ~overdue]_vars

\* The deadline bounds a claimed audio attempt, answering provider or not.
AudioAttemptEnds == claim \in Uploads ~> status \in TerminalStatuses

\* An upload whose attempt no other upload was accepted for.
Alone(u) == \A v \in Uploads \ {u} : held[v] = 0

\* As long as nobody else joined, or armed, its deadline, a claimed audio attempt
\* ends in spite of hanging providers, failing receipts and late timers.
LoneAudioEnds ==
  \A u \in Uploads :
    claim = u /\ Alone(u) ~> ~Alone(u) \/ status \in TerminalStatuses
=============================================================================
