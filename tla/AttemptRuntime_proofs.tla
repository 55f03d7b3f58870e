------------------------ MODULE AttemptRuntime_proofs ------------------------
(***************************************************************************)
(* Proofs about one session attempt, for every set of uploads and          *)
(* transcripts, every number of channels and every behaviour of the        *)
(* provider, the clock and the clients.                                    *)
(***************************************************************************)
EXTENDS AttemptRuntime, FiniteSetTheorems, TLAPS

Entry  == [type : EventTypes, by : Requests \union {NoOne}]
Leases == [Uploads -> {"none", "active", "aborted"}]

USE ChannelsArePositive DEF ChannelsArePositive

-----------------------------------------------------------------------------
(* What runners commit.                                                    *)

\* The analysis events are event types of the contract.
LEMMA AnalysisIsTyped == AnalysisEvents \subseteq EventTypes
BY DEF AnalysisEvents, EventTypes, OrdinaryEvents, AcceptedIn

\* An audio run has five events before its channels, a transcript three.
LEMMA PreludeLengths ==
  ASSUME NEW r \in Requests
  PROVE  /\ r \in Uploads => Len(Prelude(r)) = 5
         /\ r \notin Uploads => Len(Prelude(r)) = 3
         /\ PlanLength(r) \in Nat
         /\ PlanLength(r) > Len(Prelude(r))
  BY DEF Prelude, PlanLength

\* Every event of a plan is an analysis event.
LEMMA PlanIsTyped ==
  ASSUME NEW r \in Requests, NEW i \in 1..PlanLength(r)
  PROVE  Plan(r)[i] \in AnalysisEvents
<1>1. CASE i <= Len(Prelude(r))
  <2>1. Plan(r)[i] = Prelude(r)[i]
    BY <1>1 DEF Plan
  <2>2. Prelude(r)[i] \in AnalysisEvents
    <3>1. CASE r \in Uploads
      BY <1>1, <3>1, PreludeLengths DEF Prelude, AnalysisEvents
    <3>2. CASE r \notin Uploads
      BY <1>1, <3>2, PreludeLengths DEF Prelude, AnalysisEvents
    <3> QED BY <3>1, <3>2
  <2> QED BY <2>1, <2>2
<1>2. CASE ~(i <= Len(Prelude(r)))
  BY <1>2 DEF Plan, AnalysisEvents
<1> QED BY <1>1, <1>2

\* A runner that is not finished has a next event, and it is an analysis event.
LEMMA NextIsTyped ==
  ASSUME RequestTypeOK, NEW r \in Requests, ~Finished(r)
  PROVE  /\ NextOf(r) \in AnalysisEvents
         /\ NextOf(r) \in EventTypes
         /\ written[r] + 1 <= PlanLength(r)
<1>1. written[r] \in Nat /\ written[r] <= PlanLength(r) /\ written[r] # PlanLength(r)
  BY DEF RequestTypeOK, Finished
<1>2. written[r] + 1 \in 1..PlanLength(r)
  BY <1>1, PreludeLengths
<1>3. NextOf(r) \in AnalysisEvents
  BY <1>2, PlanIsTyped DEF NextOf
<1> QED BY <1>2, <1>3, AnalysisIsTyped

-----------------------------------------------------------------------------
(* The helpers of the model keep types.                                    *)

LEMMA StatusIsTyped ==
  ASSUME NEW type \in EventTypes, NEW s \in Statuses
  PROVE  StatusAfter(type, s) \in Statuses
BY DEF StatusAfter, Statuses

LEMMA CommitIsTyped ==
  ASSUME SessionTypeOK, NEW type \in EventTypes,
         NEW by \in Requests \union {NoOne}, Commit(type, by)
  PROVE  log' \in Seq(Entry) /\ status' \in Statuses
<1>1. [type |-> type, by |-> by] \in Entry
  BY DEF Entry
<1>2. log \in Seq(Entry)
  BY DEF SessionTypeOK, Entry
<1>3. log' \in Seq(Entry)
  BY <1>1, <1>2 DEF Commit
<1> QED BY <1>3, StatusIsTyped DEF Commit, SessionTypeOK

LEMMA DisarmIsTyped ==
  ASSUME DeadlineTypeOK, Disarm
  PROVE  DeadlineTypeOK'
BY DEF DeadlineTypeOK, Disarm

LEMMA EnsureIsTyped ==
  ASSUME DeadlineTypeOK, EnsureDeadline
  PROVE  DeadlineTypeOK'
<1>1. armed' \in Nat /\ anchors' \in Nat
  BY DEF DeadlineTypeOK, EnsureDeadline, deadlineVars
<1>2. overdue' \in BOOLEAN
  BY Zenon DEF DeadlineTypeOK, EnsureDeadline, deadlineVars
<1> QED BY <1>1, <1>2 DEF DeadlineTypeOK

LEMMA CancelSpeechIsTyped ==
  ASSUME SpeechTypeOK, CancelSpeech
  PROVE  SpeechTypeOK'
BY DEF SpeechTypeOK, CancelSpeech

LEMMA AbortedIsTyped ==
  ASSUME NEW leases \in Leases
  PROVE  Aborted(leases) \in Leases
BY DEF Leases, Aborted

LEMMA CancelAttemptIsTyped ==
  ASSUME DeadlineTypeOK, SpeechTypeOK, NEW leases \in Leases,
         CancelAttempt(leases)
  PROVE  DeadlineTypeOK' /\ SpeechTypeOK' /\ work' \in Leases
<1>1. Disarm /\ work' = Aborted(leases) /\ CancelSpeech
  BY DEF CancelAttempt
<1> QED BY <1>1, DisarmIsTyped, CancelSpeechIsTyped, AbortedIsTyped

LEMMA ExpireIsTyped ==
  ASSUME SessionTypeOK, DeadlineTypeOK, SpeechTypeOK, NEW leases \in Leases,
         Expire(leases)
  PROVE  /\ log' \in Seq(Entry) /\ status' \in Statuses
         /\ DeadlineTypeOK' /\ SpeechTypeOK' /\ work' \in Leases
<1>1. CASE status \in TerminalStatuses
  <2>1. Disarm /\ work' = leases /\ UNCHANGED <<log, status, speechVars>>
    BY <1>1 DEF Expire
  <2>2. SpeechTypeOK'
    BY <2>1 DEF SpeechTypeOK, speechVars
  <2> QED BY <2>1, <2>2, DisarmIsTyped DEF SessionTypeOK, Entry
<1>2. CASE status \notin TerminalStatuses
  <2>1. Commit("session_error", NoOne) /\ CancelAttempt(leases)
    BY <1>2 DEF Expire
  <2>2. "session_error" \in EventTypes
    BY DEF EventTypes
  <2> QED BY <2>1, <2>2, CommitIsTyped, CancelAttemptIsTyped
<1> QED BY <1>1, <1>2

LEMMA ExpireIfDueIsTyped ==
  ASSUME SessionTypeOK, DeadlineTypeOK, SpeechTypeOK, NEW leases \in Leases,
         ExpireIfDue(leases)
  PROVE  /\ log' \in Seq(Entry) /\ status' \in Statuses
         /\ DeadlineTypeOK' /\ SpeechTypeOK' /\ work' \in Leases
<1>1. CASE DeadlineDue
  BY <1>1, ExpireIsTyped DEF ExpireIfDue
<1>2. CASE ~DeadlineDue
  BY <1>2 DEF ExpireIfDue, SessionTypeOK, DeadlineTypeOK, SpeechTypeOK,
              deadlineVars, speechVars, Entry
<1> QED BY <1>1, <1>2

\* Where a request ends is one of its places.
LEMMA EndIsTyped ==
  ASSUME RequestTypeOK, NEW r \in Requests,
         NEW place \in {"body", "stopWrite", "writing", "pipeline", "closing"}
                         \union Outcomes,
         pc' = [pc EXCEPT ![r] = place],
         UNCHANGED <<held, hadDeadline, written>>
  PROVE  RequestTypeOK'
<1>1. pc' \in [Requests -> {"idle", "body", "stopWrite", "writing", "pipeline",
                            "closing"} \union Outcomes]
  BY DEF RequestTypeOK
<1> QED BY <1>1 DEF RequestTypeOK, PlanLength, Prelude

\* Committing the next event keeps the runner within its plan.
LEMMA AdvanceIsTyped ==
  ASSUME RequestTypeOK, NEW r \in Requests, ~Finished(r),
         pc' = [pc EXCEPT ![r] = "writing"],
         written' = [written EXCEPT ![r] = @ + 1],
         UNCHANGED <<held, hadDeadline>>
  PROVE  RequestTypeOK'
<1>1. pc' \in [Requests -> {"idle", "body", "stopWrite", "writing", "pipeline",
                            "closing"} \union Outcomes]
  BY DEF RequestTypeOK
<1>2. written' \in [Requests -> Nat]
  BY DEF RequestTypeOK
<1>3. \A s \in Requests : written'[s] <= PlanLength(s)
  BY NextIsTyped DEF RequestTypeOK
<1>4. \A s \in Requests : PlanLength(s)' = PlanLength(s)
  BY DEF PlanLength, Prelude
<1> QED BY <1>1, <1>2, <1>3, <1>4 DEF RequestTypeOK
-----------------------------------------------------------------------------
(* Type correctness.                                                       *)

LEMMA InitTypeOK == Init => TypeOK
<1> SUFFICES ASSUME Init PROVE TypeOK
  OBVIOUS
<1>1. SessionTypeOK
  BY DEF Init, SessionTypeOK, EventTypes, OrdinaryEvents, AcceptedIn, Statuses
<1>2. DeadlineTypeOK
  BY DEF Init, DeadlineTypeOK
<1>3. RequestTypeOK
  BY PreludeLengths DEF Init, RequestTypeOK
<1>4. RunTypeOK
  BY DEF Init, RunTypeOK
<1>5. SpeechTypeOK
  BY DEF Init, SpeechTypeOK
<1> QED BY <1>1, <1>2, <1>3, <1>4, <1>5 DEF TypeOK

\* The fixed parts that a step leaves alone stay typed.
LEMMA UnchangedIsTyped ==
  ASSUME TypeOK
  PROVE  /\ UNCHANGED sessionVars => SessionTypeOK'
         /\ UNCHANGED deadlineVars => DeadlineTypeOK'
         /\ UNCHANGED requestVars => RequestTypeOK'
         /\ UNCHANGED runVars => RunTypeOK'
         /\ UNCHANGED speechVars => SpeechTypeOK'
<1>1. UNCHANGED sessionVars => SessionTypeOK'
  BY DEF TypeOK, SessionTypeOK, sessionVars
<1>2. UNCHANGED deadlineVars => DeadlineTypeOK'
  BY DEF TypeOK, DeadlineTypeOK, deadlineVars
<1>3. UNCHANGED requestVars => RequestTypeOK'
  BY DEF TypeOK, RequestTypeOK, requestVars, PlanLength, Prelude
<1>4. UNCHANGED runVars => RunTypeOK'
  BY DEF TypeOK, RunTypeOK, runVars
<1>5. UNCHANGED speechVars => SpeechTypeOK'
  BY DEF TypeOK, SpeechTypeOK, speechVars
<1> QED BY <1>1, <1>2, <1>3, <1>4, <1>5

\* A committed event keeps the session typed when the claim is kept, or moves
\* to a request.
LEMMA SessionIsTyped ==
  ASSUME log' \in Seq(Entry), status' \in Statuses,
         claim' \in Requests \union {NoOne}
  PROVE  SessionTypeOK'
BY DEF SessionTypeOK, Entry

LEMMA StartRunIsTyped ==
  ASSUME TypeOK, NEW u \in Uploads, StartRun(u),
         claim' \in Requests \union {NoOne},
         UNCHANGED <<held, hadDeadline, provider>>
  PROVE  TypeOK'
<1> DEFINE leases == [Aborted(work) EXCEPT ![u] = "active"]
<1>0. /\ SessionTypeOK /\ DeadlineTypeOK /\ RequestTypeOK
      /\ RunTypeOK /\ SpeechTypeOK
  BY DEF TypeOK
<1>1. leases \in Leases
  BY <1>0, AbortedIsTyped DEF RunTypeOK, Leases
<1>2. u \in Requests
  BY DEF Requests
<1>3. "audio_uploaded" \in EventTypes /\ "session_error" \in EventTypes
  BY DEF EventTypes, OrdinaryEvents, AcceptedIn
<1>4. CASE Commit("audio_uploaded", u) /\ written' = [written EXCEPT ![u] = 1]
             /\ pc' = [pc EXCEPT ![u] = "writing"] /\ work' = leases
             /\ pipelineLease' = [pipelineLease EXCEPT ![u] = TRUE]
             /\ UNCHANGED <<deadlineVars, speechVars>>
  <2>1. SessionTypeOK'
    BY <1>0, <1>2, <1>3, <1>4, CommitIsTyped, SessionIsTyped
  <2>2. DeadlineTypeOK' /\ SpeechTypeOK'
    BY <1>4, UnchangedIsTyped
  <2>3. RequestTypeOK'
    <3>1. pc' \in [Requests -> {"idle", "body", "stopWrite", "writing",
                                "pipeline", "closing"} \union Outcomes]
      BY <1>0, <1>4 DEF RequestTypeOK
    <3>2. written' \in [Requests -> Nat]
      BY <1>0, <1>4 DEF RequestTypeOK
    <3>3. \A s \in Requests : written'[s] <= PlanLength(s)
      BY <1>0, <1>2, <1>4, PreludeLengths DEF RequestTypeOK
    <3>4. \A s \in Requests : PlanLength(s)' = PlanLength(s)
      BY DEF PlanLength, Prelude
    <3> QED BY <1>0, <3>1, <3>2, <3>3, <3>4 DEF RequestTypeOK
  <2>4. RunTypeOK'
    BY <1>0, <1>1, <1>4 DEF RunTypeOK, Leases
  <2> QED BY <2>1, <2>2, <2>3, <2>4 DEF TypeOK
<1>5. CASE Commit("session_error", u) /\ CancelAttempt(leases)
             /\ pc' = [pc EXCEPT ![u] = "closing"]
             /\ UNCHANGED <<written, pipelineLease>>
  <2>1. SessionTypeOK'
    BY <1>0, <1>2, <1>3, <1>5, CommitIsTyped, SessionIsTyped
  <2>2. DeadlineTypeOK' /\ SpeechTypeOK' /\ work' \in Leases
    BY <1>0, <1>1, <1>5, CancelAttemptIsTyped
  <2>3. RequestTypeOK'
    BY <1>0, <1>2, <1>5, EndIsTyped
  <2>4. RunTypeOK'
    BY <1>0, <2>2, <1>5 DEF RunTypeOK, Leases
  <2> QED BY <2>1, <2>2, <2>3, <2>4 DEF TypeOK
<1> QED BY <1>4, <1>5 DEF StartRun

\* A request that only ends, and touches nothing else of the record.
LEMMA EndsOnlyIsTyped ==
  ASSUME TypeOK, NEW r \in Requests,
         NEW place \in {"body", "stopWrite", "writing", "pipeline", "closing"}
                         \union Outcomes,
         pc' = [pc EXCEPT ![r] = place],
         UNCHANGED <<held, hadDeadline, written>>,
         SessionTypeOK', DeadlineTypeOK', RunTypeOK', SpeechTypeOK'
  PROVE  TypeOK'
BY EndIsTyped DEF TypeOK

LEMMA UploadTypeOK ==
  ASSUME TypeOK, NEW u \in Uploads, Upload(u)
  PROVE  TypeOK'
<1>0. /\ SessionTypeOK /\ DeadlineTypeOK /\ RequestTypeOK
      /\ RunTypeOK /\ SpeechTypeOK
  BY DEF TypeOK
<1>r. u \in Requests /\ work \in Leases
  BY <1>0 DEF Requests, RunTypeOK, Leases
<1>1. CASE AcceptUpload(u)
  <2>1. SessionTypeOK' /\ RunTypeOK' /\ SpeechTypeOK' /\ DeadlineTypeOK'
    BY <1>0, <1>1, UnchangedIsTyped, EnsureIsTyped DEF AcceptUpload
  <2>2. held' \in [Uploads -> Nat] /\ hadDeadline' \in [Uploads -> BOOLEAN]
    BY <1>0, <1>1, <2>1 DEF AcceptUpload, RequestTypeOK, DeadlineTypeOK
  <2>3. pc' \in [Requests -> {"idle", "body", "stopWrite", "writing", "pipeline",
                              "closing"} \union Outcomes]
    BY <1>0, <1>1 DEF AcceptUpload, RequestTypeOK
  <2>4. RequestTypeOK'
    BY <1>0, <1>1, <2>2, <2>3 DEF AcceptUpload, RequestTypeOK, PlanLength, Prelude
  <2> QED BY <2>1, <2>4 DEF TypeOK
<1>2. CASE RefuseUpload(u)
  BY <1>2, <1>r, UnchangedIsTyped, EndsOnlyIsTyped DEF RefuseUpload, End, Outcomes
<1>3. CASE BodySuperseded(u)
  <2>1. SessionTypeOK' /\ DeadlineTypeOK' /\ SpeechTypeOK' /\ RunTypeOK'
    <3>1. CASE SignalAborted(u)
      BY <1>0, <1>3, <3>1 DEF BodySuperseded, SessionTypeOK, DeadlineTypeOK,
         SpeechTypeOK, RunTypeOK, deadlineVars, speechVars
    <3>2. CASE ~SignalAborted(u)
      <4>1. ExpireIfDue(work) /\ UNCHANGED <<claim, provider, pipelineLease>>
        BY <1>3, <3>2 DEF BodySuperseded
      <4>2. /\ log' \in Seq(Entry) /\ status' \in Statuses
            /\ DeadlineTypeOK' /\ SpeechTypeOK' /\ work' \in Leases
        BY <1>0, <1>r, <4>1, ExpireIfDueIsTyped
      <4> QED BY <1>0, <4>1, <4>2, SessionIsTyped DEF SessionTypeOK, RunTypeOK, Leases
    <3> QED BY <3>1, <3>2
  <2> QED BY <1>3, <1>r, <2>1, EndsOnlyIsTyped DEF BodySuperseded, End, Outcomes
<1>4. CASE BodyBroken(u)
  BY <1>4, <1>r, UnchangedIsTyped, EndsOnlyIsTyped DEF BodyBroken, End, Outcomes
<1>5. CASE BodyRejected(u)
  <2>1. DeadlineTypeOK'
    BY <1>0, <1>5, DisarmIsTyped, UnchangedIsTyped
       DEF BodyRejected, CancelRequestOwnedDeadline
  <2> QED BY <1>5, <1>r, <2>1, UnchangedIsTyped, EndsOnlyIsTyped
          DEF BodyRejected, End, Outcomes
<1>6. CASE BodyClaims(u)
  BY <1>6, <1>r, StartRunIsTyped DEF BodyClaims
<1>7. CASE BodyClaimsAndStops(u)
  <2>1. "recording_stopped" \in EventTypes
    BY DEF EventTypes, OrdinaryEvents, AcceptedIn
  <2>2. SessionTypeOK'
    BY <1>0, <1>7, <1>r, <2>1, CommitIsTyped, SessionIsTyped
       DEF BodyClaimsAndStops
  <2> QED BY <1>7, <1>r, <2>2, UnchangedIsTyped, EndsOnlyIsTyped
          DEF BodyClaimsAndStops
<1>8. CASE BodyLosesClaim(u)
  <2>1. DeadlineTypeOK'
    BY <1>0, <1>8, DisarmIsTyped, UnchangedIsTyped
       DEF BodyLosesClaim, CancelRequestOwnedDeadline
  <2> QED BY <1>8, <1>r, <2>1, UnchangedIsTyped, EndsOnlyIsTyped
          DEF BodyLosesClaim, End, Outcomes
<1> QED BY <1>1, <1>2, <1>3, <1>4, <1>5, <1>6, <1>7, <1>8 DEF Upload

LEMMA AudioRunTypeOK ==
  ASSUME TypeOK, NEW u \in Uploads, AudioRun(u)
  PROVE  TypeOK'
<1>0. /\ SessionTypeOK /\ DeadlineTypeOK /\ RequestTypeOK
      /\ RunTypeOK /\ SpeechTypeOK
  BY DEF TypeOK
<1>r. u \in Requests /\ work \in Leases
  BY <1>0 DEF Requests, RunTypeOK, Leases
<1>e. "session_error" \in EventTypes
  BY DEF EventTypes
<1>c. claim \in Requests \union {NoOne}
  BY <1>0 DEF SessionTypeOK
<1>1. CASE StopWritten(u)
  BY <1>1, <1>c, StartRunIsTyped DEF StopWritten
<1>2. CASE StopSuperseded(u)
  <2>1. /\ log' \in Seq(Entry) /\ status' \in Statuses
        /\ DeadlineTypeOK' /\ SpeechTypeOK' /\ work' \in Leases
    BY <1>0, <1>r, <1>2, ExpireIfDueIsTyped DEF StopSuperseded
  <2>2. SessionTypeOK' /\ RunTypeOK'
    BY <1>0, <1>2, <2>1, SessionIsTyped
       DEF StopSuperseded, SessionTypeOK, RunTypeOK, Leases
  <2> QED BY <1>2, <1>r, <2>1, <2>2, EndsOnlyIsTyped
          DEF StopSuperseded, End, Outcomes
<1>3. CASE StopNotWritten(u)
  BY <1>3, <1>r, UnchangedIsTyped, EndsOnlyIsTyped DEF StopNotWritten, End, Outcomes
<1>4. CASE AudioContinues(u) \/ PipelineJoined(u)
  <2>1. ~Finished(u)
    BY <1>4 DEF AudioContinues, PipelineJoined, CommitNext
  <2>2. /\ Commit(NextOf(u), u) /\ written' = [written EXCEPT ![u] = @ + 1]
        /\ pc' = [pc EXCEPT ![u] = "writing"]
        /\ UNCHANGED <<claim, held, hadDeadline, runVars, speechVars>>
    BY <1>4 DEF AudioContinues, PipelineJoined, CommitNext
  <2>3. SessionTypeOK'
    BY <1>0, <1>r, <1>c, <2>1, <2>2, NextIsTyped, CommitIsTyped, SessionIsTyped
  <2>4. RequestTypeOK'
    BY <1>0, <1>r, <2>1, <2>2, AdvanceIsTyped
  <2>5. DeadlineTypeOK'
    BY <1>0, <1>4, DisarmIsTyped, UnchangedIsTyped
       DEF AudioContinues, PipelineJoined, DisarmAfterResult
  <2> QED BY <2>2, <2>3, <2>4, <2>5, UnchangedIsTyped DEF TypeOK
<1>5. CASE StartPipeline(u)
  <2>1. RunTypeOK'
    BY <1>0, <1>5 DEF StartPipeline, RunTypeOK
  <2> QED BY <1>5, <1>r, <2>1, UnchangedIsTyped, EndsOnlyIsTyped DEF StartPipeline
<1>6. CASE AudioSuperseded(u)
  <2>1. [work EXCEPT ![u] = "none"] \in Leases
    BY <1>r DEF Leases
  <2>2. /\ log' \in Seq(Entry) /\ status' \in Statuses
        /\ DeadlineTypeOK' /\ SpeechTypeOK' /\ work' \in Leases
    BY <1>0, <1>6, <2>1, ExpireIfDueIsTyped DEF AudioSuperseded
  <2>3. pipelineLease' \in [Uploads -> BOOLEAN]
    BY <1>0, <1>6 DEF AudioSuperseded, ReleaseOwnLease, RunTypeOK
  <2>4. SessionTypeOK' /\ RunTypeOK'
    BY <1>0, <1>c, <1>6, <2>2, <2>3, SessionIsTyped
       DEF AudioSuperseded, RunTypeOK, Leases
  <2> QED BY <1>6, <1>r, <2>2, <2>4, EndsOnlyIsTyped
          DEF AudioSuperseded, End, Outcomes
<1>7. CASE AudioFails(u)
  <2>1. log' \in Seq(Entry) /\ status' \in Statuses
    BY <1>0, <1>r, <1>e, <1>7, CommitIsTyped DEF AudioFails
  <2>2. DeadlineTypeOK' /\ SpeechTypeOK' /\ work' \in Leases
    BY <1>0, <1>r, <1>7, CancelAttemptIsTyped DEF AudioFails
  <2>3. SessionTypeOK' /\ RunTypeOK'
    BY <1>0, <1>c, <1>7, <2>1, <2>2, SessionIsTyped DEF AudioFails, RunTypeOK, Leases
  <2> QED BY <1>7, <1>r, <2>2, <2>3, EndsOnlyIsTyped DEF AudioFails, End
<1>8. CASE AudioErrorAnswered(u)
  <2>1. RunTypeOK'
    BY <1>0, <1>8 DEF AudioErrorAnswered, ReleaseOwnLease, RunTypeOK
  <2> QED BY <1>8, <1>r, <2>1, UnchangedIsTyped, EndsOnlyIsTyped
          DEF AudioErrorAnswered, End, Outcomes
<1>9. CASE AudioAnswered(u)
  <2>1. RunTypeOK'
    BY <1>0, <1>9 DEF AudioAnswered, ReleaseOwnLease, RunTypeOK
  <2>2. SpeechTypeOK'
    BY <1>9 DEF AudioAnswered, ScheduleSpeech, SpeechTypeOK
  <2> QED BY <1>9, <1>r, <2>1, <2>2, UnchangedIsTyped, EndsOnlyIsTyped
          DEF AudioAnswered, End, Outcomes
<1> QED BY <1>1, <1>2, <1>3, <1>4, <1>5, <1>6, <1>7, <1>8, <1>9 DEF AudioRun

LEMMA PipelineTypeOK ==
  ASSUME TypeOK, NEW u \in Uploads, Pipeline(u)
  PROVE  TypeOK'
<1>1. CASE PipelineReturns(u)
  <2>1. RunTypeOK'
    BY <1>1 DEF PipelineReturns, TypeOK, RunTypeOK
  <2> QED BY <1>1, <2>1, UnchangedIsTyped DEF PipelineReturns, TypeOK
<1>2. CASE ResourcesSettle(u)
  <2>1. RunTypeOK'
    BY <1>2 DEF ResourcesSettle, TypeOK, RunTypeOK
  <2> QED BY <1>2, <2>1, UnchangedIsTyped DEF ResourcesSettle, TypeOK
<1> QED BY <1>1, <1>2 DEF Pipeline

LEMMA ManualTypeOK ==
  ASSUME TypeOK, NEW m \in Manuals, Manual(m)
  PROVE  TypeOK'
<1>0. /\ SessionTypeOK /\ DeadlineTypeOK /\ RequestTypeOK
      /\ RunTypeOK /\ SpeechTypeOK
  BY DEF TypeOK
<1>r. m \in Requests
  BY DEF Requests
<1>1. CASE ManualStarts(m) \/ ManualContinues(m)
  <2>1. ~Finished(m)
    BY <1>1 DEF ManualStarts, ManualContinues, CommitNext
  <2>2. /\ Commit(NextOf(m), m) /\ written' = [written EXCEPT ![m] = @ + 1]
        /\ pc' = [pc EXCEPT ![m] = "writing"]
        /\ UNCHANGED <<held, hadDeadline, runVars, speechVars>>
    BY <1>1 DEF ManualStarts, ManualContinues, CommitNext
  <2>3. claim' \in Requests \union {NoOne}
    BY <1>0, <1>r, <1>1 DEF ManualStarts, ManualContinues, SessionTypeOK
  <2>4. SessionTypeOK'
    BY <1>0, <1>r, <2>1, <2>2, <2>3, NextIsTyped, CommitIsTyped, SessionIsTyped
  <2>5. RequestTypeOK'
    BY <1>0, <1>r, <2>1, <2>2, AdvanceIsTyped
  <2>6. DeadlineTypeOK'
    BY <1>0, <1>1, DisarmIsTyped, UnchangedIsTyped
       DEF ManualStarts, ManualContinues, DisarmAfterResult
  <2> QED BY <2>2, <2>4, <2>5, <2>6, UnchangedIsTyped DEF TypeOK
<1>2. CASE ManualRefused(m)
  BY <1>2, <1>r, UnchangedIsTyped, EndsOnlyIsTyped DEF ManualRefused, End, Outcomes
<1>3. CASE ManualStopped(m)
  BY <1>3, <1>r, UnchangedIsTyped, EndsOnlyIsTyped DEF ManualStopped, End, Outcomes
<1>4. CASE ManualNotWritten(m)
  BY <1>4, <1>r, UnchangedIsTyped, EndsOnlyIsTyped DEF ManualNotWritten, End, Outcomes
<1>5. CASE ManualAnswered(m)
  <2>1. SpeechTypeOK'
    BY <1>5 DEF ManualAnswered, ScheduleSpeech, SpeechTypeOK
  <2> QED BY <1>5, <1>r, <2>1, UnchangedIsTyped, EndsOnlyIsTyped
          DEF ManualAnswered, End, Outcomes
<1> QED BY <1>1, <1>2, <1>3, <1>4, <1>5 DEF Manual, ManualRun

LEMMA OutsideTypeOK ==
  ASSUME TypeOK, Outside
  PROVE  TypeOK'
<1>0. /\ SessionTypeOK /\ DeadlineTypeOK /\ RequestTypeOK
      /\ RunTypeOK /\ SpeechTypeOK
  BY DEF TypeOK
<1>r. work \in Leases /\ claim \in Requests \union {NoOne}
  BY <1>0 DEF RunTypeOK, Leases, SessionTypeOK
<1>t. {"recording_started", "recording_stopped", "session_silence",
       "session_reset", "session_error"} \subseteq EventTypes
  BY DEF EventTypes, OrdinaryEvents, AcceptedIn
<1>1. CASE \/ DeviceStarts \/ DeviceStops \/ OperatorStarts \/ OperatorStops
           \/ OperatorSilences
  <2>1. PICK type \in {"recording_started", "recording_stopped", "session_silence"} :
          Commit(type, NoOne)
    BY <1>1 DEF DeviceStarts, DeviceStops, OperatorStarts, OperatorStops,
                OperatorSilences
  <2>2. UNCHANGED <<claim, requestVars, runVars>>
    BY <1>1 DEF DeviceStarts, DeviceStops, OperatorStarts, OperatorStops,
                OperatorSilences
  <2>3. SessionTypeOK'
    BY <1>0, <1>r, <1>t, <2>1, <2>2, CommitIsTyped, SessionIsTyped
  <2>4. DeadlineTypeOK' /\ SpeechTypeOK'
    BY <1>0, <1>1, EnsureIsTyped, CancelSpeechIsTyped, UnchangedIsTyped
       DEF DeviceStarts, DeviceStops, OperatorStarts, OperatorStops,
           OperatorSilences
  <2> QED BY <2>2, <2>3, <2>4, UnchangedIsTyped DEF TypeOK
<1>2. CASE DeviceFails \/ \E type \in EventTypes : OperatorEnds(type)
  <2>1. PICK type \in {"session_reset", "session_error"} :
          Commit(type, NoOne) /\ CancelAttempt(work)
    BY <1>2 DEF DeviceFails, OperatorEnds
  <2>2. UNCHANGED <<claim, requestVars, provider, pipelineLease>>
    BY <1>2 DEF DeviceFails, OperatorEnds
  <2>3. SessionTypeOK'
    BY <1>0, <1>r, <1>t, <2>1, <2>2, CommitIsTyped, SessionIsTyped
  <2>4. DeadlineTypeOK' /\ SpeechTypeOK' /\ work' \in Leases
    BY <1>0, <1>r, <2>1, CancelAttemptIsTyped
  <2>5. RunTypeOK'
    BY <1>0, <2>2, <2>4 DEF RunTypeOK, Leases
  <2> QED BY <2>2, <2>3, <2>4, <2>5, UnchangedIsTyped DEF TypeOK
<1>3. CASE OutputReplaced
  BY <1>0, <1>3, CancelSpeechIsTyped, UnchangedIsTyped DEF OutputReplaced, TypeOK
<1> QED BY <1>1, <1>2, <1>3 DEF Outside

LEMMA ClockTypeOK ==
  ASSUME TypeOK, Clock
  PROVE  TypeOK'
<1>0. /\ SessionTypeOK /\ DeadlineTypeOK /\ RequestTypeOK
      /\ RunTypeOK /\ SpeechTypeOK
  BY DEF TypeOK
<1>1. CASE DeadlinePasses
  <2>1. DeadlineTypeOK'
    BY <1>0, <1>1 DEF DeadlinePasses, DeadlineTypeOK
  <2> QED BY <1>1, <2>1, UnchangedIsTyped DEF DeadlinePasses, TypeOK
<1>2. CASE DeadlineFires
  <2>1. work \in Leases
    BY <1>0 DEF RunTypeOK, Leases
  <2>2. /\ log' \in Seq(Entry) /\ status' \in Statuses
        /\ DeadlineTypeOK' /\ SpeechTypeOK' /\ work' \in Leases
    BY <1>0, <1>2, <2>1, ExpireIsTyped DEF DeadlineFires
  <2>3. SessionTypeOK' /\ RunTypeOK'
    BY <1>0, <1>2, <2>2, SessionIsTyped
       DEF DeadlineFires, SessionTypeOK, RunTypeOK, Leases
  <2> QED BY <1>2, <2>2, <2>3, UnchangedIsTyped DEF DeadlineFires, TypeOK
<1> QED BY <1>1, <1>2 DEF Clock

LEMMA SpeechStepTypeOK ==
  ASSUME TypeOK, Speech
  PROVE  TypeOK'
<1>0. /\ SessionTypeOK /\ DeadlineTypeOK /\ RequestTypeOK
      /\ RunTypeOK /\ SpeechTypeOK
  BY DEF TypeOK
<1>1. DeadlineTypeOK' /\ RequestTypeOK' /\ RunTypeOK'
  BY UnchangedIsTyped DEF Speech, SpeechStarts, SpeechNeverStarts, SpeechPlays,
                          SpeechEnds, SpeechOnly
<1>2. SpeechTypeOK'
  BY <1>0 DEF Speech, SpeechStarts, SpeechNeverStarts, SpeechPlays, SpeechEnds,
              SpeechTypeOK
<1>3. {"tts_started", "tts_finished"} \subseteq EventTypes
  BY DEF EventTypes, OrdinaryEvents, AcceptedIn
<1>4. \/ UNCHANGED <<log, status>>
      \/ \E type \in {"tts_started", "tts_finished"} : Commit(type, NoOne)
  BY DEF Speech, SpeechStarts, SpeechNeverStarts, SpeechPlays, SpeechEnds
<1>5. log' \in Seq(Entry) /\ status' \in Statuses
  BY <1>0, <1>3, <1>4, CommitIsTyped DEF SessionTypeOK, Entry
<1>6. claim' = claim
  BY DEF Speech, SpeechStarts, SpeechNeverStarts, SpeechPlays, SpeechEnds, SpeechOnly
<1> QED BY <1>0, <1>1, <1>2, <1>5, <1>6, SessionIsTyped DEF TypeOK, SessionTypeOK

LEMMA StepTypeOK == TypeOK /\ [Next]_vars => TypeOK'
<1> SUFFICES ASSUME TypeOK, [Next]_vars PROVE TypeOK'
  OBVIOUS
<1>1. CASE \E u \in Uploads : Upload(u) \/ AudioRun(u) \/ Pipeline(u)
  BY <1>1, UploadTypeOK, AudioRunTypeOK, PipelineTypeOK
<1>2. CASE \E m \in Manuals : Manual(m)
  BY <1>2, ManualTypeOK
<1>3. CASE Outside \/ Clock \/ Speech
  BY <1>3, OutsideTypeOK, ClockTypeOK, SpeechStepTypeOK
<1>4. CASE UNCHANGED vars
  <2>1. UNCHANGED <<sessionVars, deadlineVars, requestVars, runVars, speechVars>>
    BY <1>4 DEF vars
  <2> QED BY <2>1, UnchangedIsTyped DEF TypeOK
<1> QED BY <1>1, <1>2, <1>3, <1>4 DEF Next

\* Every variable of the attempt keeps its type, and no runner ever commits an
\* event its plan does not have.
THEOREM TypeCorrect == Spec => []TypeOK
<1> QED BY InitTypeOK, StepTypeOK, PTL DEF Spec

-----------------------------------------------------------------------------
(* One owner.  The invariant behind OneInputOwner ties the log to the claim *)
(* and the claim to whoever is still writing.                              *)

OwnedLog ==
  \A i \in DOMAIN log :
    log[i].type \in AnalysisEvents => log[i].by = claim /\ log[i].by # NoOne

Running == {"stopWrite", "writing", "pipeline"}

RunnerHoldsClaim == \A r \in Requests : pc[r] \in Running => claim = r

OwnerInv == OwnedLog /\ RunnerHoldsClaim

\* A step that commits nothing foreign and never moves a claim once it is held
\* keeps the log owned.
LEMMA CommitKeepsOwner ==
  ASSUME SessionTypeOK, OwnedLog, NEW type, NEW by, Commit(type, by),
         type \in AnalysisEvents => by = claim' /\ by # NoOne,
         claim' = claim \/ claim = NoOne
  PROVE  OwnedLog'
<1>1. log \in Seq(Entry) /\ log' = Append(log, [type |-> type, by |-> by])
  BY DEF SessionTypeOK, Entry, Commit
<1>2. Len(log) \in Nat /\ DOMAIN log = 1..Len(log)
  BY <1>1
<1>3. /\ DOMAIN log' = 1..(Len(log) + 1)
      /\ log'[Len(log) + 1] = [type |-> type, by |-> by]
      /\ \A i \in 1..Len(log) : log'[i] = log[i]
  BY <1>1
<1>4. \A i \in DOMAIN log' : i = Len(log) + 1 \/ i \in DOMAIN log
  BY <1>2, <1>3
<1>5. ASSUME NEW i \in DOMAIN log', log'[i].type \in AnalysisEvents
      PROVE  log'[i].by = claim' /\ log'[i].by # NoOne
  BY <1>2, <1>3, <1>4, <1>5 DEF OwnedLog
<1> QED BY <1>5 DEF OwnedLog

LEMMA QuietKeepsOwner ==
  ASSUME OwnedLog, log' = log, claim' = claim
  PROVE  OwnedLog'
BY DEF OwnedLog

\* One request moves: unless it now runs, nothing else about the claim matters.
LEMMA MoveKeepsClaim ==
  ASSUME RequestTypeOK, RunnerHoldsClaim, NEW r \in Requests, NEW place,
         pc' = [pc EXCEPT ![r] = place],
         place \in Running => claim' = r,
         claim' = claim \/ claim = NoOne
  PROVE  RunnerHoldsClaim'
<1>1. NoOne \notin Requests
  BY RequestsAreDistinct DEF RequestsAreDistinct
<1>2. ASSUME NEW s \in Requests, pc'[s] \in Running PROVE claim' = s
  <2>1. CASE s = r
    BY <1>2, <2>1 DEF RequestTypeOK
  <2>2. CASE s # r
    <3>1. pc[s] \in Running
      BY <1>2, <2>2 DEF RequestTypeOK
    <3> QED BY <1>1, <3>1 DEF RunnerHoldsClaim
  <2> QED BY <2>1, <2>2
<1> QED BY <1>2 DEF RunnerHoldsClaim

LEMMA StillKeepsClaim ==
  ASSUME RunnerHoldsClaim, pc' = pc, claim' = claim
  PROVE  RunnerHoldsClaim'
BY DEF RunnerHoldsClaim

\* Sealing an attempt commits no analysis event.
LEMMA ExpireKeepsOwner ==
  ASSUME SessionTypeOK, OwnedLog, claim' = claim, NEW leases,
         Expire(leases) \/ ExpireIfDue(leases)
  PROVE  OwnedLog'
<1>1. log' = log \/ Commit("session_error", NoOne)
  BY DEF Expire, ExpireIfDue
<1>2. "session_error" \notin AnalysisEvents
  BY DEF AnalysisEvents
<1>3. CASE log' = log
  BY <1>3, QuietKeepsOwner
<1>4. CASE Commit("session_error", NoOne)
  BY <1>2, <1>4, CommitKeepsOwner
<1> QED BY <1>1, <1>3, <1>4

LEMMA StartRunKeepsOwner ==
  ASSUME TypeOK, OwnerInv, NEW u \in Uploads, StartRun(u), claim' = u,
         claim' = claim \/ claim = NoOne
  PROVE  OwnerInv'
<1>1. u \in Requests /\ u # NoOne /\ SessionTypeOK /\ RequestTypeOK
  BY RequestsAreDistinct DEF RequestsAreDistinct, Requests, TypeOK
<1>2. PICK type \in {"audio_uploaded", "session_error"} : Commit(type, u)
  BY DEF StartRun
<1>3. OwnedLog'
  BY <1>1, <1>2, CommitKeepsOwner DEF OwnerInv
<1>4. PICK place \in {"writing", "closing"} : pc' = [pc EXCEPT ![u] = place]
  BY DEF StartRun
<1>5. RunnerHoldsClaim'
  BY <1>1, <1>4, MoveKeepsClaim DEF OwnerInv
<1> QED BY <1>3, <1>5 DEF OwnerInv

LEMMA UploadKeepsOwner ==
  ASSUME TypeOK, OwnerInv, NEW u \in Uploads, Upload(u)
  PROVE  OwnerInv'
<1>0. /\ u \in Requests /\ SessionTypeOK /\ RequestTypeOK
      /\ OwnedLog /\ RunnerHoldsClaim
  BY DEF Requests, TypeOK, OwnerInv
<1>n. Outcomes \intersect Running = {} /\ "body" \notin Running
  BY DEF Outcomes, Running
<1>1. CASE AcceptUpload(u) \/ RefuseUpload(u) \/ BodyBroken(u)
           \/ BodyRejected(u) \/ BodyLosesClaim(u)
  <2>1. UNCHANGED sessionVars
    BY <1>1 DEF AcceptUpload, RefuseUpload, BodyBroken, BodyRejected, BodyLosesClaim
  <2>2. PICK place \in {"body"} \union Outcomes : pc' = [pc EXCEPT ![u] = place]
    BY <1>1 DEF AcceptUpload, RefuseUpload, BodyBroken, BodyRejected,
                BodyLosesClaim, End, Outcomes
  <2> QED BY <1>0, <1>n, <2>1, <2>2, QuietKeepsOwner, MoveKeepsClaim
          DEF sessionVars, OwnerInv
<1>2. CASE BodySuperseded(u)
  <2>1. claim' = claim /\ pc' = [pc EXCEPT ![u] = "superseded"]
    BY <1>2 DEF BodySuperseded, End
  <2>2. log' = log \/ ExpireIfDue(work)
    BY <1>2 DEF BodySuperseded
  <2>3. OwnedLog'
    BY <1>0, <2>1, <2>2, QuietKeepsOwner, ExpireKeepsOwner
  <2>4. RunnerHoldsClaim'
    BY <1>0, <2>1, MoveKeepsClaim DEF Running
  <2> QED BY <2>3, <2>4 DEF OwnerInv
<1>3. CASE BodyClaims(u)
  BY <1>3, StartRunKeepsOwner DEF BodyClaims, CanClaim, Unclaimed
<1>4. CASE BodyClaimsAndStops(u)
  <2>1. /\ claim = NoOne /\ claim' = u /\ Commit("recording_stopped", u)
        /\ pc' = [pc EXCEPT ![u] = "stopWrite"]
    BY <1>4 DEF BodyClaimsAndStops, CanClaim, Unclaimed
  <2>2. "recording_stopped" \notin AnalysisEvents
    BY DEF AnalysisEvents
  <2>3. OwnedLog'
    BY <1>0, <2>1, <2>2, CommitKeepsOwner
  <2>4. RunnerHoldsClaim'
    BY <1>0, <2>1, MoveKeepsClaim
  <2> QED BY <2>3, <2>4 DEF OwnerInv
<1> QED BY <1>1, <1>2, <1>3, <1>4 DEF Upload

LEMMA AudioRunKeepsOwner ==
  ASSUME TypeOK, OwnerInv, NEW u \in Uploads, AudioRun(u) \/ Pipeline(u)
  PROVE  OwnerInv'
<1>0. /\ u \in Requests /\ u # NoOne /\ SessionTypeOK /\ RequestTypeOK
      /\ OwnedLog /\ RunnerHoldsClaim
  BY RequestsAreDistinct DEF RequestsAreDistinct, Requests, TypeOK, OwnerInv
<1>n. Outcomes \intersect Running = {} /\ "closing" \notin Running
  BY DEF Outcomes, Running
<1>h. pc[u] \in Running => claim = u
  BY <1>0 DEF RunnerHoldsClaim
<1>1. CASE StopWritten(u)
  BY <1>1, <1>h, StartRunKeepsOwner DEF StopWritten, Running
<1>2. CASE StopSuperseded(u) \/ AudioSuperseded(u)
  <2>1. claim' = claim /\ pc' = [pc EXCEPT ![u] = "superseded"]
    BY <1>2 DEF StopSuperseded, AudioSuperseded, End
  <2>2. \/ ExpireIfDue(work) \/ ExpireIfDue([work EXCEPT ![u] = "none"])
    BY <1>2 DEF StopSuperseded, AudioSuperseded
  <2>3. OwnedLog'
    BY <1>0, <2>1, <2>2, ExpireKeepsOwner
  <2>4. RunnerHoldsClaim'
    BY <1>0, <2>1, MoveKeepsClaim DEF Running
  <2> QED BY <2>3, <2>4 DEF OwnerInv
<1>3. CASE StopNotWritten(u) \/ AudioErrorAnswered(u) \/ AudioAnswered(u)
           \/ StartPipeline(u)
  <2>1. UNCHANGED sessionVars
    BY <1>3 DEF StopNotWritten, AudioErrorAnswered, AudioAnswered, StartPipeline
  <2>2. PICK place : /\ pc' = [pc EXCEPT ![u] = place]
                     /\ place \in Running => pc[u] \in Running
    BY <1>3, <1>n DEF StopNotWritten, AudioErrorAnswered, AudioAnswered,
                      StartPipeline, End, Outcomes, Running
  <2> QED BY <1>0, <1>h, <2>1, <2>2, QuietKeepsOwner, MoveKeepsClaim
          DEF sessionVars, OwnerInv
<1>4. CASE AudioContinues(u) \/ PipelineJoined(u)
  <2>1. /\ Commit(NextOf(u), u) /\ claim' = claim /\ claim = u
        /\ pc' = [pc EXCEPT ![u] = "writing"]
    BY <1>4, <1>h DEF AudioContinues, PipelineJoined, CommitNext, Running
  <2> QED BY <1>0, <2>1, CommitKeepsOwner, MoveKeepsClaim DEF OwnerInv
<1>5. CASE AudioFails(u)
  <2>1. /\ Commit("session_error", u) /\ claim' = claim
        /\ pc' = [pc EXCEPT ![u] = "closing"]
    BY <1>5 DEF AudioFails, End
  <2>2. "session_error" \notin AnalysisEvents
    BY DEF AnalysisEvents
  <2> QED BY <1>0, <1>n, <2>1, <2>2, CommitKeepsOwner, MoveKeepsClaim DEF OwnerInv
<1>6. CASE Pipeline(u)
  <2>1. UNCHANGED sessionVars /\ UNCHANGED requestVars
    BY <1>6 DEF Pipeline, PipelineReturns, ResourcesSettle
  <2> QED BY <1>0, <2>1, QuietKeepsOwner, StillKeepsClaim
          DEF sessionVars, requestVars, OwnerInv
<1> QED BY <1>1, <1>2, <1>3, <1>4, <1>5, <1>6 DEF AudioRun

LEMMA ManualKeepsOwner ==
  ASSUME TypeOK, OwnerInv, NEW m \in Manuals, Manual(m)
  PROVE  OwnerInv'
<1>0. /\ m \in Requests /\ m # NoOne /\ SessionTypeOK /\ RequestTypeOK
      /\ OwnedLog /\ RunnerHoldsClaim
  BY RequestsAreDistinct DEF RequestsAreDistinct, Requests, TypeOK, OwnerInv
<1>1. CASE ManualStarts(m) \/ ManualContinues(m)
  <2>1. /\ Commit(NextOf(m), m) /\ claim' = m /\ pc' = [pc EXCEPT ![m] = "writing"]
        /\ claim' = claim \/ claim = NoOne
    <3>1. CASE ManualStarts(m)
      BY <3>1 DEF ManualStarts, CommitNext, CanClaim, Unclaimed
    <3>2. CASE ManualContinues(m)
      <4>1. claim = m
        BY <1>0, <3>2 DEF ManualContinues, RunnerHoldsClaim, Running
      <4> QED BY <3>2, <4>1 DEF ManualContinues, CommitNext
    <3> QED BY <1>1, <3>1, <3>2
  <2> QED BY <1>0, <2>1, CommitKeepsOwner, MoveKeepsClaim DEF OwnerInv
<1>2. CASE ManualRefused(m) \/ ManualStopped(m) \/ ManualNotWritten(m)
           \/ ManualAnswered(m)
  <2>1. UNCHANGED sessionVars
    BY <1>2 DEF ManualRefused, ManualStopped, ManualNotWritten, ManualAnswered
  <2>2. PICK place \in Outcomes : pc' = [pc EXCEPT ![m] = place]
    BY <1>2 DEF ManualRefused, ManualStopped, ManualNotWritten, ManualAnswered,
                End, Outcomes
  <2>3. Outcomes \intersect Running = {}
    BY DEF Outcomes, Running
  <2> QED BY <1>0, <2>1, <2>2, <2>3, QuietKeepsOwner, MoveKeepsClaim
          DEF sessionVars, OwnerInv
<1> QED BY <1>1, <1>2 DEF Manual, ManualRun

LEMMA OthersKeepOwner ==
  ASSUME TypeOK, OwnerInv, Outside \/ Clock \/ Speech
  PROVE  OwnerInv'
<1>0. SessionTypeOK /\ OwnedLog /\ RunnerHoldsClaim
  BY DEF TypeOK, OwnerInv
<1>1. claim' = claim /\ pc' = pc
  <2>1. claim' = claim
    BY DEF Outside, DeviceStarts, DeviceStops, DeviceFails, OperatorStarts,
           OperatorStops, OperatorSilences, OperatorEnds, OutputReplaced, Clock,
           DeadlinePasses, DeadlineFires, Speech, SpeechStarts,
           SpeechNeverStarts, SpeechPlays, SpeechEnds, SpeechOnly, sessionVars
  <2>2. UNCHANGED requestVars
    BY DEF Outside, DeviceStarts, DeviceStops, DeviceFails, OperatorStarts,
           OperatorStops, OperatorSilences, OperatorEnds, OutputReplaced, Clock,
           DeadlinePasses, DeadlineFires, Speech, SpeechStarts,
           SpeechNeverStarts, SpeechPlays, SpeechEnds, SpeechOnly
  <2> QED BY <2>1, <2>2 DEF requestVars
<1>2. \/ log' = log
      \/ \E type \in {"recording_started", "recording_stopped", "session_silence",
                      "session_reset", "session_error", "tts_started",
                      "tts_finished"} : Commit(type, NoOne)
  BY DEF Outside, DeviceStarts, DeviceStops, DeviceFails, OperatorStarts,
         OperatorStops, OperatorSilences, OperatorEnds, OutputReplaced, Clock,
         DeadlinePasses, DeadlineFires, Expire, Speech, SpeechStarts,
         SpeechNeverStarts, SpeechPlays, SpeechEnds, sessionVars
<1>3. AnalysisEvents \intersect
        {"recording_started", "recording_stopped", "session_silence",
         "session_reset", "session_error", "tts_started", "tts_finished"} = {}
  BY DEF AnalysisEvents
<1>4. OwnedLog'
  BY <1>0, <1>1, <1>2, <1>3, QuietKeepsOwner, CommitKeepsOwner
<1> QED BY <1>0, <1>1, <1>4, StillKeepsClaim DEF OwnerInv

LEMMA StepKeepsOwner == TypeOK /\ OwnerInv /\ [Next]_vars => OwnerInv'
<1> SUFFICES ASSUME TypeOK, OwnerInv, [Next]_vars PROVE OwnerInv'
  OBVIOUS
<1>1. CASE \E u \in Uploads : Upload(u) \/ AudioRun(u) \/ Pipeline(u)
  BY <1>1, UploadKeepsOwner, AudioRunKeepsOwner
<1>2. CASE \E m \in Manuals : Manual(m)
  BY <1>2, ManualKeepsOwner
<1>3. CASE Outside \/ Clock \/ Speech
  BY <1>3, OthersKeepOwner
<1>4. CASE UNCHANGED vars
  BY <1>4 DEF vars, sessionVars, requestVars, OwnerInv, OwnedLog, RunnerHoldsClaim
<1> QED BY <1>1, <1>2, <1>3, <1>4 DEF Next

LEMMA InitOwner == Init => OwnerInv
<1> SUFFICES ASSUME Init PROVE OwnerInv
  OBVIOUS
<1>1. \A i \in DOMAIN log : log[i].type = "session_created"
  BY DEF Init
<1> QED BY <1>1 DEF Init, OwnerInv, OwnedLog, RunnerHoldsClaim, AnalysisEvents, Running

\* However many uploads and transcripts race for an attempt, every analysis
\* event of its log was written by the one request that claimed its input.
THEOREM SingleOwner == Spec => []OneInputOwner
<1>1. OwnerInv => OneInputOwner
  BY DEF OwnerInv, OwnedLog, OneInputOwner
<1> QED BY <1>1, InitTypeOK, StepTypeOK, InitOwner, StepKeepsOwner, PTL DEF Spec

-----------------------------------------------------------------------------
(* Sealing.  Reset, error, result and the deadline have to reach the armed  *)
(* deadline and the running work in the step that commits them.            *)

Closing == {"session_result", "session_silence", "session_reset", "session_error"}

\* Only four events make an attempt terminal, and only two of them seal it.
LEMMA OrdinaryEventsKeepOpen ==
  ASSUME NEW type, NEW by, Commit(type, by)
  PROVE  /\ type \notin Closing =>
              /\ status' \in TerminalStatuses => status' = status
              /\ ~IsAttemptOpen' => ~IsAttemptOpen
         /\ type = "session_result" => status' = "result"
         /\ type = "session_silence" => status' = "silence"
         /\ type = "session_reset" => status' = "reset"
         /\ type = "session_error" => status' = "error"
         /\ type \in {"audio_uploaded", "recording_stopped"} => status' = "processing"
<1>1. status' = StatusAfter(type, status)
  BY DEF Commit
<1>2. \/ type \in Closing
      \/ StatusAfter(type, status) \in {"recording", "processing", "reading"}
      \/ StatusAfter(type, status) = status
  BY DEF StatusAfter, Closing
<1>3. /\ type = "session_result" => status' = "result"
      /\ type = "session_silence" => status' = "silence"
      /\ type = "session_reset" => status' = "reset"
      /\ type = "session_error" => status' = "error"
      /\ type \in {"audio_uploaded", "recording_stopped"} => status' = "processing"
  <2>1. type = "session_result" => status' = "result"
    BY <1>1 DEF StatusAfter
  <2>2. type = "session_silence" => status' = "silence"
    BY <1>1 DEF StatusAfter
  <2>3. type = "session_reset" => status' = "reset"
    BY <1>1 DEF StatusAfter
  <2>4. type = "session_error" => status' = "error"
    BY <1>1 DEF StatusAfter
  <2>5. type = "audio_uploaded" => status' = "processing"
    BY <1>1 DEF StatusAfter
  <2>6. type = "recording_stopped" => status' = "processing"
    BY <1>1 DEF StatusAfter
  <2> QED BY <2>1, <2>2, <2>3, <2>4, <2>5, <2>6
<1> QED BY <1>1, <1>2, <1>3 DEF Closing, TerminalStatuses, IsAttemptOpen

OverdueIsArmed == overdue => armed # 0

\* A request that has not started committed nothing, and a run waits for its
\* pipeline with only its upload committed.
PlanPosition ==
  \A r \in Requests :
    /\ pc[r] = "idle" => written[r] = 0
    /\ pc[r] = "pipeline" => written[r] = 1

SealInv ==
  ArmedMeansOpen /\ SealedWorkIsAborted /\ OverdueIsArmed /\ PlanPosition

LEMMA InitSeal == Init => SealInv
<1> SUFFICES ASSUME Init PROVE SealInv
  OBVIOUS
<1>1. ArmedMeansOpen /\ SealedWorkIsAborted
  BY DEF Init, ArmedMeansOpen, SealedWorkIsAborted, IsAttemptOpen
<1>2. OverdueIsArmed
  BY Zenon DEF Init, OverdueIsArmed
<1>3. PlanPosition
  BY DEF Init, PlanPosition, Requests
<1> QED BY <1>1, <1>2, <1>3 DEF SealInv

\* Whatever is left after a cancelled attempt is not running unabated.
LEMMA CancelSeals ==
  ASSUME NEW leases \in Leases, CancelAttempt(leases)
  PROVE  /\ armed' = 0 /\ overdue' = FALSE
         /\ \A v \in Uploads : work'[v] # "active"
BY DEF CancelAttempt, Disarm, Aborted, Leases

\* The deadline's expiry leaves nothing armed and nothing running behind a seal.
LEMMA ExpireSeals ==
  ASSUME TypeOK, SealInv, NEW leases \in Leases,
         \A v \in Uploads : leases[v] = "active" => work[v] = "active",
         Expire(leases) \/ ExpireIfDue(leases)
  PROVE  ArmedMeansOpen' /\ SealedWorkIsAborted' /\ OverdueIsArmed'
<1>1. CASE Expire(leases)
  <2>1. CASE status \in TerminalStatuses
    BY <1>1, <2>1 DEF Expire, Disarm, SealInv, ArmedMeansOpen, OverdueIsArmed,
       SealedWorkIsAborted, IsAttemptOpen
  <2>2. CASE status \notin TerminalStatuses
    BY <1>1, <2>2, CancelSeals DEF Expire, ArmedMeansOpen, OverdueIsArmed,
       SealedWorkIsAborted
  <2> QED BY <2>1, <2>2
<1>2. CASE ~DeadlineDue /\ ExpireIfDue(leases)
  <2>1. /\ work' = leases /\ status' = status
        /\ armed' = armed /\ overdue' = overdue
    BY <1>2 DEF ExpireIfDue, deadlineVars
  <2> QED BY <2>1 DEF SealInv, ArmedMeansOpen, OverdueIsArmed,
       SealedWorkIsAborted, IsAttemptOpen
<1> QED BY <1>1, <1>2 DEF ExpireIfDue

\* A step that commits an ordinary event, or none, and only disarms or ends
\* work keeps the seal.
LEMMA QuietKeepsSeal ==
  ASSUME SealInv,
         \/ UNCHANGED status
         \/ \E type, by : type \notin Closing /\ Commit(type, by),
         Disarm \/ UNCHANGED deadlineVars,
         \A v \in Uploads : work'[v] = "active" => work[v] = "active"
  PROVE  ArmedMeansOpen' /\ SealedWorkIsAborted' /\ OverdueIsArmed'
<1>1. /\ status' \in TerminalStatuses => status' = status
      /\ ~IsAttemptOpen' => ~IsAttemptOpen
  BY OrdinaryEventsKeepOpen DEF IsAttemptOpen
<1>2. \/ armed' = 0 /\ overdue' = FALSE
      \/ armed' = armed /\ overdue' = overdue
  BY DEF Disarm, deadlineVars
<1> QED BY <1>1, <1>2 DEF SealInv, ArmedMeansOpen, SealedWorkIsAborted, OverdueIsArmed

LEMMA StartRunSeals ==
  ASSUME TypeOK, SealInv, NEW u \in Uploads, StartRun(u)
  PROVE  ArmedMeansOpen' /\ SealedWorkIsAborted' /\ OverdueIsArmed'
<1> DEFINE leases == [Aborted(work) EXCEPT ![u] = "active"]
<1>1. leases \in Leases
  BY AbortedIsTyped DEF TypeOK, RunTypeOK, Leases
<1>2. CASE Commit("audio_uploaded", u) /\ UNCHANGED deadlineVars
  <2>1. status' = "processing"
    BY <1>2, OrdinaryEventsKeepOpen
  <2> QED BY <1>2, <2>1 DEF SealInv, ArmedMeansOpen, SealedWorkIsAborted,
          OverdueIsArmed, IsAttemptOpen, TerminalStatuses, deadlineVars
<1>3. CASE CancelAttempt(leases)
  BY <1>1, <1>3, CancelSeals DEF ArmedMeansOpen, SealedWorkIsAborted, OverdueIsArmed
<1> QED BY <1>2, <1>3 DEF StartRun

\* Nobody else moves a run into, or on from, the wait for its pipeline.
LEMMA MoveKeepsPosition ==
  ASSUME RequestTypeOK, PlanPosition, NEW r \in Requests, NEW place,
         pc' = [pc EXCEPT ![r] = place],
         place # "idle", place = "pipeline" => written'[r] = 1,
         \A s \in Requests \ {r} : written'[s] = written[s]
  PROVE  PlanPosition'
BY DEF PlanPosition, RequestTypeOK

LEMMA UploadSeals ==
  ASSUME TypeOK, SealInv, NEW u \in Uploads, Upload(u)
  PROVE  SealInv'
<1>0. /\ u \in Requests /\ RequestTypeOK /\ PlanPosition
      /\ work \in Leases
  BY DEF Requests, TypeOK, SealInv, RunTypeOK, Leases
<1>1. PlanPosition'
  <2>1. PICK place \in {"body", "stopWrite", "writing", "closing"} \union Outcomes :
          pc' = [pc EXCEPT ![u] = place]
    BY DEF Upload, AcceptUpload, RefuseUpload, BodySuperseded, BodyBroken,
           BodyRejected, BodyClaims, BodyClaimsAndStops, BodyLosesClaim, StartRun,
           End, Outcomes
  <2>2. \A s \in Requests \ {u} : written'[s] = written[s]
    BY <1>0 DEF Upload, AcceptUpload, RefuseUpload, BodySuperseded, BodyBroken,
           BodyRejected, BodyClaims, BodyClaimsAndStops, BodyLosesClaim, StartRun,
           RequestTypeOK
  <2> QED BY <1>0, <2>1, <2>2, MoveKeepsPosition DEF Outcomes
<1>2. ArmedMeansOpen' /\ SealedWorkIsAborted' /\ OverdueIsArmed'
  <2>1. CASE AcceptUpload(u)
    <3>1. status \in {"created", "recording", "processing"}
      BY <2>1 DEF AcceptUpload, CanSubmitAudio, AwaitsReleasedAudio
    <3>2. status' = status /\ work' = work
      BY <2>1 DEF AcceptUpload, sessionVars, runVars
    <3>3. armed' # 0 \/ ~overdue'
      <4>1. CASE armed = 0
        BY <2>1, <4>1 DEF AcceptUpload, EnsureDeadline
      <4>2. CASE armed # 0
        BY <2>1, <4>2 DEF AcceptUpload, EnsureDeadline, deadlineVars
      <4> QED BY <4>1, <4>2
    <3> QED BY <3>1, <3>2, <3>3 DEF ArmedMeansOpen, SealedWorkIsAborted,
            OverdueIsArmed, IsAttemptOpen, TerminalStatuses
  <2>2. CASE RefuseUpload(u) \/ BodyBroken(u) \/ BodyRejected(u)
             \/ BodyLosesClaim(u) \/ BodyClaimsAndStops(u)
    <3>1. UNCHANGED status \/ Commit("recording_stopped", u)
      BY <2>2 DEF RefuseUpload, BodyBroken, BodyRejected, BodyLosesClaim,
                  BodyClaimsAndStops, sessionVars
    <3>2. Disarm \/ UNCHANGED deadlineVars
      BY <2>2 DEF RefuseUpload, BodyBroken, BodyRejected, BodyLosesClaim,
                  BodyClaimsAndStops, CancelRequestOwnedDeadline
    <3>3. work' = work
      BY <2>2 DEF RefuseUpload, BodyBroken, BodyRejected, BodyLosesClaim,
                  BodyClaimsAndStops, runVars
    <3> QED BY <3>1, <3>2, <3>3, QuietKeepsSeal DEF Closing
  <2>3. CASE BodySuperseded(u)
    <3>1. CASE SignalAborted(u)
      BY <2>3, <3>1, QuietKeepsSeal DEF BodySuperseded
    <3>2. CASE ~SignalAborted(u)
      BY <1>0, <2>3, <3>2, ExpireSeals DEF BodySuperseded
    <3> QED BY <3>1, <3>2
  <2>4. CASE BodyClaims(u)
    BY <2>4, StartRunSeals DEF BodyClaims
  <2> QED BY <2>1, <2>2, <2>3, <2>4 DEF Upload
<1> QED BY <1>1, <1>2 DEF SealInv

\* After its upload, a run's next event is never its result.
LEMMA PipelineIsNotResult ==
  ASSUME NEW u \in Uploads, written[u] = 1
  PROVE  NextOf(u) = "audio_normalized"
<1>1. u \in Requests
  BY DEF Requests
<1>2. Len(Prelude(u)) = 5 /\ PlanLength(u) \in Nat /\ PlanLength(u) > 5
  BY <1>1, PreludeLengths
<1>3. 2 \in 1..PlanLength(u) /\ Plan(u)[2] = Prelude(u)[2]
  BY <1>2 DEF Plan
<1> QED BY <1>3 DEF NextOf, Prelude

LEMMA AudioRunSeals ==
  ASSUME TypeOK, SealInv, NEW u \in Uploads, AudioRun(u) \/ Pipeline(u)
  PROVE  SealInv'
<1>0. /\ u \in Requests /\ RequestTypeOK /\ PlanPosition
      /\ work \in Leases
  BY DEF Requests, TypeOK, SealInv, RunTypeOK, Leases
<1>1. CASE StopWritten(u)
  <2>1. PICK place \in {"writing", "closing"} : pc' = [pc EXCEPT ![u] = place]
    BY <1>1 DEF StopWritten, StartRun
  <2>2. \A s \in Requests \ {u} : written'[s] = written[s]
    BY <1>0, <1>1 DEF StopWritten, StartRun, RequestTypeOK
  <2> QED BY <1>0, <1>1, <2>1, <2>2, MoveKeepsPosition, StartRunSeals
          DEF StopWritten, SealInv
<1>2. CASE StopSuperseded(u) \/ AudioSuperseded(u)
  <2>1. pc' = [pc EXCEPT ![u] = "superseded"] /\ written' = written
    BY <1>2 DEF StopSuperseded, AudioSuperseded, End
  <2>2. PICK leases \in Leases :
          /\ \A v \in Uploads : leases[v] = "active" => work[v] = "active"
          /\ ExpireIfDue(leases)
    <3>1. [work EXCEPT ![u] = "none"] \in Leases
      BY <1>0 DEF Leases
    <3>2. \A v \in Uploads :
            [work EXCEPT ![u] = "none"][v] = "active" => work[v] = "active"
      BY <1>0 DEF Leases
    <3> QED BY <1>0, <1>2, <3>1, <3>2 DEF StopSuperseded, AudioSuperseded
  <2> QED BY <1>0, <2>1, <2>2, MoveKeepsPosition, ExpireSeals DEF SealInv
<1>3. CASE StopNotWritten(u) \/ AudioErrorAnswered(u) \/ AudioAnswered(u)
  <2>1. PICK place \in Outcomes : pc' = [pc EXCEPT ![u] = place]
    BY <1>3 DEF StopNotWritten, AudioErrorAnswered, AudioAnswered, End, Outcomes
  <2>2. UNCHANGED status /\ UNCHANGED deadlineVars /\ written' = written
    BY <1>3 DEF StopNotWritten, AudioErrorAnswered, AudioAnswered, sessionVars
  <2>3. \A v \in Uploads : work'[v] = "active" => work[v] = "active"
    BY <1>0, <1>3 DEF StopNotWritten, AudioErrorAnswered, AudioAnswered,
                      runVars, Leases
  <2> QED BY <1>0, <2>1, <2>2, <2>3, MoveKeepsPosition, QuietKeepsSeal
          DEF SealInv, Outcomes
<1>4. CASE StartPipeline(u)
  <2>1. /\ pc' = [pc EXCEPT ![u] = "pipeline"] /\ written' = written
        /\ written[u] = 1 /\ UNCHANGED status /\ UNCHANGED deadlineVars
        /\ work' = work
    BY <1>4 DEF StartPipeline, sessionVars
  <2> QED BY <1>0, <2>1, MoveKeepsPosition, QuietKeepsSeal DEF SealInv
<1>5. CASE AudioContinues(u) \/ PipelineJoined(u)
  <2>1. /\ Commit(NextOf(u), u) /\ pc' = [pc EXCEPT ![u] = "writing"]
        /\ written' = [written EXCEPT ![u] = @ + 1] /\ ~Finished(u)
        /\ work' = work
    BY <1>5 DEF AudioContinues, PipelineJoined, CommitNext, runVars
  <2>2. NextOf(u) \in AnalysisEvents
    BY <1>0, <2>1, NextIsTyped
  <2>3. PlanPosition'
    BY <1>0, <2>1, MoveKeepsPosition DEF RequestTypeOK
  <2>4. CASE NextOf(u) = "session_result"
    <3>1. AudioContinues(u)
      BY <1>0, <1>5, <2>4, PipelineIsNotResult
         DEF PipelineJoined, PlanPosition
    <3>2. armed' = 0 /\ overdue' = FALSE
      BY <2>4, <3>1 DEF AudioContinues, DisarmAfterResult, Disarm
    <3>3. status' = "result"
      BY <2>1, <2>4, OrdinaryEventsKeepOpen
    <3> QED BY <2>3, <3>2, <3>3 DEF SealInv, ArmedMeansOpen, SealedWorkIsAborted,
            OverdueIsArmed, IsAttemptOpen
  <2>5. CASE NextOf(u) # "session_result"
    <3>1. UNCHANGED deadlineVars
      BY <1>5, <2>5 DEF AudioContinues, PipelineJoined, DisarmAfterResult, deadlineVars
    <3>2. NextOf(u) \notin Closing
      BY <2>2, <2>5 DEF AnalysisEvents, Closing
    <3> QED BY <2>1, <2>3, <3>1, <3>2, QuietKeepsSeal DEF SealInv
  <2> QED BY <2>4, <2>5
<1>6. CASE AudioFails(u)
  <2>1. CancelAttempt(work) /\ pc' = [pc EXCEPT ![u] = "closing"] /\ written' = written
    BY <1>6 DEF AudioFails, End
  <2> QED BY <1>0, <2>1, MoveKeepsPosition, CancelSeals
          DEF SealInv, ArmedMeansOpen, SealedWorkIsAborted, OverdueIsArmed
<1>7. CASE Pipeline(u)
  <2>1. /\ pc' = pc /\ written' = written /\ UNCHANGED status
        /\ UNCHANGED deadlineVars /\ work' = work
    BY <1>7 DEF Pipeline, PipelineReturns, ResourcesSettle, sessionVars, requestVars
  <2> QED BY <2>1, QuietKeepsSeal DEF SealInv, PlanPosition
<1> QED BY <1>1, <1>2, <1>3, <1>4, <1>5, <1>6, <1>7 DEF AudioRun

LEMMA ManualSeals ==
  ASSUME TypeOK, SealInv, NEW m \in Manuals, Manual(m)
  PROVE  SealInv'
<1>0. /\ m \in Requests /\ RequestTypeOK /\ PlanPosition
      /\ m \notin Uploads
  BY RequestsAreDistinct DEF RequestsAreDistinct, Requests, TypeOK, SealInv
<1>1. work' = work
  BY DEF Manual, ManualRun, ManualStarts, ManualRefused, ManualStopped,
         ManualNotWritten, ManualAnswered, ManualContinues, runVars
<1>2. CASE ManualStarts(m) \/ ManualContinues(m)
  <2>1. /\ Commit(NextOf(m), m) /\ pc' = [pc EXCEPT ![m] = "writing"]
        /\ written' = [written EXCEPT ![m] = @ + 1] /\ ~Finished(m)
    BY <1>2 DEF ManualStarts, ManualContinues, CommitNext
  <2>2. NextOf(m) \in AnalysisEvents
    BY <1>0, <2>1, NextIsTyped
  <2>3. PlanPosition'
    BY <1>0, <2>1, MoveKeepsPosition DEF RequestTypeOK
  <2>4. CASE NextOf(m) = "session_result"
    <3>1. status' = "result"
      BY <2>1, <2>4, OrdinaryEventsKeepOpen
    <3>2. armed' = 0 /\ overdue' = FALSE
      <4>1. CASE ManualContinues(m)
        BY <2>4, <4>1 DEF ManualContinues, DisarmAfterResult, Disarm
      <4>2. CASE ManualStarts(m)
        <5>1. status = "created" /\ UNCHANGED deadlineVars
          BY <1>0, <4>2 DEF ManualStarts, CanClaim
        <5>2. written[m] = 0 /\ 1 \in 1..PlanLength(m)
          BY <1>0, <4>2, PreludeLengths DEF ManualStarts, PlanPosition
        <5>3. NextOf(m) = "audio_transcribed"
          BY <1>0, <5>2, PreludeLengths DEF NextOf, Plan, Prelude
        <5> QED BY <2>4, <5>3
      <4> QED BY <1>2, <4>1, <4>2
    <3> QED BY <1>1, <2>3, <3>1, <3>2 DEF SealInv, ArmedMeansOpen,
            SealedWorkIsAborted, OverdueIsArmed, IsAttemptOpen
  <2>5. CASE NextOf(m) # "session_result"
    <3>1. UNCHANGED deadlineVars
      BY <1>2, <2>5 DEF ManualStarts, ManualContinues, DisarmAfterResult, deadlineVars
    <3>2. NextOf(m) \notin Closing
      BY <2>2, <2>5 DEF AnalysisEvents, Closing
    <3> QED BY <1>1, <2>1, <2>3, <3>1, <3>2, QuietKeepsSeal DEF SealInv
  <2> QED BY <2>4, <2>5
<1>3. CASE ManualRefused(m) \/ ManualStopped(m) \/ ManualNotWritten(m)
           \/ ManualAnswered(m)
  <2>1. PICK place \in Outcomes : pc' = [pc EXCEPT ![m] = place]
    BY <1>3 DEF ManualRefused, ManualStopped, ManualNotWritten, ManualAnswered,
                End, Outcomes
  <2>2. UNCHANGED status /\ UNCHANGED deadlineVars /\ written' = written
    BY <1>3 DEF ManualRefused, ManualStopped, ManualNotWritten, ManualAnswered,
                sessionVars
  <2> QED BY <1>0, <1>1, <2>1, <2>2, MoveKeepsPosition, QuietKeepsSeal
          DEF SealInv, Outcomes
<1> QED BY <1>2, <1>3 DEF Manual, ManualRun

LEMMA OthersSeal ==
  ASSUME TypeOK, SealInv, Outside \/ Clock \/ Speech
  PROVE  SealInv'
<1>0. work \in Leases
  BY DEF TypeOK, RunTypeOK, Leases
<1>1. PlanPosition'
  <2>1. UNCHANGED requestVars
    BY DEF Outside, DeviceStarts, DeviceStops, DeviceFails, OperatorStarts,
           OperatorStops, OperatorSilences, OperatorEnds, OutputReplaced, Clock,
           DeadlinePasses, DeadlineFires, Speech, SpeechStarts,
           SpeechNeverStarts, SpeechPlays, SpeechEnds, SpeechOnly
  <2> QED BY <2>1 DEF requestVars, SealInv, PlanPosition
<1>2. ArmedMeansOpen' /\ SealedWorkIsAborted' /\ OverdueIsArmed'
  <2>1. CASE DeviceStarts \/ OperatorStarts \/ OutputReplaced \/ Speech
    <3>1. UNCHANGED deadlineVars /\ work' = work
      BY <2>1 DEF DeviceStarts, OperatorStarts, OutputReplaced, Speech,
         SpeechStarts, SpeechNeverStarts, SpeechPlays, SpeechEnds, SpeechOnly, runVars
    <3>2. \/ UNCHANGED status
          \/ \E type \in {"recording_started", "tts_started", "tts_finished"} :
               Commit(type, NoOne)
      BY <2>1 DEF DeviceStarts, OperatorStarts, OutputReplaced, Speech,
         SpeechStarts, SpeechNeverStarts, SpeechPlays, SpeechEnds, sessionVars
    <3> QED BY <3>1, <3>2, QuietKeepsSeal DEF Closing
  <2>2. CASE DeviceStops \/ OperatorStops
    <3>1. status' = "processing" /\ work' = work /\ EnsureDeadline
      BY <2>2, OrdinaryEventsKeepOpen DEF DeviceStops, OperatorStops, runVars
    <3>2. armed' # 0 \/ ~overdue'
      BY <3>1 DEF EnsureDeadline, deadlineVars, SealInv, OverdueIsArmed
    <3> QED BY <3>1, <3>2 DEF ArmedMeansOpen, SealedWorkIsAborted,
            OverdueIsArmed, IsAttemptOpen, TerminalStatuses
  <2>3. CASE DeviceFails \/ \E type \in EventTypes : OperatorEnds(type)
    <3>1. CancelAttempt(work)
      BY <2>3 DEF DeviceFails, OperatorEnds
    <3> QED BY <1>0, <3>1, CancelSeals
            DEF ArmedMeansOpen, SealedWorkIsAborted, OverdueIsArmed
  <2>4. CASE OperatorSilences
    <3>1. status = "result"
      BY <2>4 DEF OperatorSilences, CanAcceptExternal, CanApply, AcceptedIn,
                  OrdinaryEvents
    <3>2. /\ status' = "silence" /\ armed' = armed /\ overdue' = overdue
          /\ work' = work
      BY <2>4, OrdinaryEventsKeepOpen DEF OperatorSilences, deadlineVars, runVars
    <3> QED BY <3>1, <3>2 DEF SealInv, ArmedMeansOpen, SealedWorkIsAborted,
            OverdueIsArmed, IsAttemptOpen, TerminalStatuses
  <2>5. CASE DeadlinePasses
    BY <2>5 DEF DeadlinePasses, SealInv, ArmedMeansOpen, SealedWorkIsAborted,
       OverdueIsArmed, IsAttemptOpen, sessionVars, runVars
  <2>6. CASE DeadlineFires
    BY <1>0, <2>6, ExpireSeals DEF DeadlineFires
  <2> QED BY <2>1, <2>2, <2>3, <2>4, <2>5, <2>6 DEF Outside, Clock
<1> QED BY <1>1, <1>2 DEF SealInv

LEMMA StepSeals == TypeOK /\ SealInv /\ [Next]_vars => SealInv'
<1> SUFFICES ASSUME TypeOK, SealInv, [Next]_vars PROVE SealInv'
  OBVIOUS
<1>1. CASE \E u \in Uploads : Upload(u) \/ AudioRun(u) \/ Pipeline(u)
  BY <1>1, UploadSeals, AudioRunSeals
<1>2. CASE \E m \in Manuals : Manual(m)
  BY <1>2, ManualSeals
<1>3. CASE Outside \/ Clock \/ Speech
  BY <1>3, OthersSeal
<1>4. CASE UNCHANGED vars
  BY <1>4 DEF vars, sessionVars, deadlineVars, requestVars, runVars, SealInv,
     ArmedMeansOpen, SealedWorkIsAborted, OverdueIsArmed, PlanPosition,
     IsAttemptOpen
<1> QED BY <1>1, <1>2, <1>3, <1>4 DEF Next

\* A deadline is armed only while it still has something to seal: whoever makes
\* the attempt terminal disarms it in the same step.
THEOREM DeadlineGuardsOpen == Spec => []ArmedMeansOpen
<1>1. SealInv => ArmedMeansOpen
  BY DEF SealInv
<1> QED BY <1>1, InitTypeOK, StepTypeOK, InitSeal, StepSeals, PTL DEF Spec

\* Reset and error reach every run, in the step that commits them.
THEOREM SealReachesWork == Spec => []SealedWorkIsAborted
<1>1. SealInv => SealedWorkIsAborted
  BY DEF SealInv
<1> QED BY <1>1, InitTypeOK, StepTypeOK, InitSeal, StepSeals, PTL DEF Spec

-----------------------------------------------------------------------------
(* The deadline wins every race it should, and sealed logs stay sealed.     *)

\* No audio run commits anything after its deadline's instant, whenever the
\* timer that should have sealed the attempt gets to run.
THEOREM DeadlineWins == Spec => NoOverdueCommit
<1>1. TypeOK /\ SealInv /\ [Next]_vars =>
        [\A u \in Uploads : written'[u] # written[u] => ~overdue]_vars
  <2> SUFFICES ASSUME TypeOK, SealInv, Next, NEW u \in Uploads,
                      written'[u] # written[u]
               PROVE  ~overdue
    OBVIOUS
  <2>0. /\ written \in [Requests -> Nat] /\ u \in Requests /\ OverdueIsArmed
        /\ Uploads \intersect Manuals = {}
    BY RequestsAreDistinct DEF RequestsAreDistinct, TypeOK, RequestTypeOK,
       Requests, SealInv
  <2>1. \E v \in Uploads : AllowsCommit(v)
    <3>1. CASE \E v \in Uploads : Upload(v)
      <4>1. PICK v \in Uploads : Upload(v)
        BY <3>1
      <4>2. BodyClaims(v)
        BY <4>1, <2>0 DEF Upload, AcceptUpload, RefuseUpload, BodySuperseded,
           BodyBroken, BodyRejected, BodyClaimsAndStops, BodyLosesClaim
      <4> QED BY <4>2 DEF BodyClaims
    <3>2. CASE \E v \in Uploads : AudioRun(v) \/ Pipeline(v)
      <4>1. PICK v \in Uploads : AudioRun(v) \/ Pipeline(v)
        BY <3>2
      <4>2. StopWritten(v) \/ AudioContinues(v) \/ PipelineJoined(v)
        BY <4>1, <2>0 DEF AudioRun, Pipeline, StopSuperseded, StopNotWritten,
           StartPipeline, AudioSuperseded, AudioFails, AudioErrorAnswered,
           AudioAnswered, PipelineReturns, ResourcesSettle, requestVars
      <4> QED BY <4>2 DEF StopWritten, AudioContinues, PipelineJoined, MayCommit
    <3>3. CASE \E m \in Manuals : Manual(m)
      <4>1. PICK m \in Manuals : Manual(m)
        BY <3>3
      <4>2. m # u
        BY <2>0
      <4>3. written' = written \/ written' = [written EXCEPT ![m] = @ + 1]
        BY <4>1 DEF Manual, ManualRun, ManualStarts, ManualRefused,
           ManualStopped, ManualNotWritten, ManualAnswered, ManualContinues,
           CommitNext
      <4> QED BY <2>0, <4>2, <4>3
    <3>4. CASE Outside \/ Clock \/ Speech
      <4>1. UNCHANGED requestVars
        BY <3>4 DEF Outside, DeviceStarts, DeviceStops, DeviceFails,
           OperatorStarts, OperatorStops, OperatorSilences, OperatorEnds,
           OutputReplaced, Clock, DeadlinePasses, DeadlineFires, Speech,
           SpeechStarts, SpeechNeverStarts, SpeechPlays, SpeechEnds, SpeechOnly
      <4> QED BY <4>1 DEF requestVars
    <3> QED BY <3>1, <3>2, <3>3, <3>4 DEF Next
  <2> QED BY <2>0, <2>1 DEF AllowsCommit, DeadlineDue, OverdueIsArmed
<1> QED BY <1>1, InitTypeOK, StepTypeOK, InitSeal, StepSeals, PTL
        DEF Spec, NoOverdueCommit

\* Nothing late is ever appended to a sealed attempt, whoever is late: only the
\* operator's reset of a failed one.
THEOREM SealIsFinal == Spec => SealedLogIsFinal
<1> DEFINE OnlyReset == /\ status = "error" /\ status' = "reset"
                        /\ log' = Append(log, [type |-> "session_reset", by |-> NoOne])
<1>1. [Next]_vars => [~IsAttemptOpen /\ log' # log => OnlyReset]_vars
  <2> SUFFICES ASSUME Next, ~IsAttemptOpen, log' # log PROVE OnlyReset
    OBVIOUS
  <2>0. status \in {"reset", "error"} /\ status \in TerminalStatuses
    BY DEF IsAttemptOpen, TerminalStatuses
  <2>1. ASSUME NEW u \in Uploads, Upload(u) \/ AudioRun(u) \/ Pipeline(u)
        PROVE  FALSE
    <3>1. CASE \/ AcceptUpload(u) \/ RefuseUpload(u) \/ BodyBroken(u)
               \/ BodyRejected(u) \/ BodyLosesClaim(u) \/ StopNotWritten(u)
               \/ StartPipeline(u) \/ AudioErrorAnswered(u) \/ AudioAnswered(u)
               \/ Pipeline(u)
      BY <3>1 DEF AcceptUpload, RefuseUpload, BodyBroken, BodyRejected,
         BodyLosesClaim, StopNotWritten, StartPipeline, AudioErrorAnswered,
         AudioAnswered, Pipeline, PipelineReturns, ResourcesSettle, sessionVars
    <3>2. CASE BodySuperseded(u) \/ StopSuperseded(u) \/ AudioSuperseded(u)
      BY <2>0, <3>2 DEF BodySuperseded, StopSuperseded, AudioSuperseded,
         ExpireIfDue, Expire
    <3>3. CASE \/ BodyClaims(u) \/ BodyClaimsAndStops(u) \/ StopWritten(u)
               \/ AudioContinues(u) \/ PipelineJoined(u) \/ AudioFails(u)
      BY <3>3 DEF BodyClaims, BodyClaimsAndStops, StopWritten, AudioContinues,
         PipelineJoined, AudioFails, MayCommit, AllowsCommit
    <3> QED BY <2>1, <3>1, <3>2, <3>3 DEF Upload, AudioRun
  <2>2. ASSUME NEW m \in Manuals, Manual(m)
        PROVE  FALSE
    <3>1. CASE ManualStarts(m) /\ status = "created"
      BY <3>1, <2>0
    <3>2. CASE ManualContinues(m)
      <4>1. MayFollow("reading_started")
        BY <3>2 DEF ManualContinues, ChecksOpen
      <4>2. CanApply(status, "reading_started")
        BY <4>1 DEF MayFollow, EventMayFollow
      <4>3. status \in AcceptedIn["reading_started"]
        BY <4>2 DEF CanApply
      <4> QED BY <2>0, <4>3 DEF AcceptedIn
    <3>3. CASE ManualRefused(m) \/ ManualStopped(m) \/ ManualNotWritten(m)
               \/ ManualAnswered(m)
      BY <3>3 DEF ManualRefused, ManualStopped, ManualNotWritten, ManualAnswered,
         sessionVars
    <3>4. ManualStarts(m) => status = "created"
      BY RequestsAreDistinct DEF RequestsAreDistinct, ManualStarts, CanClaim
    <3> QED BY <2>2, <3>1, <3>2, <3>3, <3>4 DEF Manual, ManualRun
  <2>3. CASE Outside
    <3>1. CASE \/ DeviceStarts \/ DeviceStops \/ DeviceFails \/ OperatorStarts
               \/ OperatorStops \/ OperatorSilences
      <4>1. PICK type \in {"recording_started", "recording_stopped",
                           "session_silence", "session_error"} :
              CanAcceptExternal(status, type)
        BY <3>1 DEF DeviceStarts, DeviceStops, DeviceFails, OperatorStarts,
           OperatorStops, OperatorSilences
      <4> QED BY <2>0, <4>1 DEF CanAcceptExternal, CanApply, AcceptedIn,
              OrdinaryEvents
    <3>2. CASE \E type \in EventTypes : OperatorEnds(type)
      <4>1. PICK type \in {"session_reset", "session_error"} : OperatorEnds(type)
        BY <3>2 DEF OperatorEnds
      <4>2. type = "session_reset" /\ status = "error"
        BY <2>0, <4>1 DEF OperatorEnds, CanAcceptExternal, CanApply, AcceptedIn,
           OrdinaryEvents
      <4>3. Commit("session_reset", NoOne)
        BY <4>1, <4>2 DEF OperatorEnds
      <4>4. status' = "reset"
        BY <4>3, OrdinaryEventsKeepOpen
      <4> QED BY <4>2, <4>3, <4>4 DEF Commit
    <3>3. CASE OutputReplaced
      BY <3>3 DEF OutputReplaced, sessionVars
    <3> QED BY <2>3, <3>1, <3>2, <3>3 DEF Outside
  <2>4. CASE Clock
    BY <2>0, <2>4 DEF Clock, DeadlinePasses, DeadlineFires, Expire, sessionVars
  <2>5. CASE Speech
    <3>1. ~MayFollow("tts_started") /\ ~MayFollow("tts_finished")
      BY <2>0 DEF MayFollow, EventMayFollow, CanApply, AcceptedIn, OrdinaryEvents
    <3> QED BY <2>5, <3>1 DEF Speech, SpeechStarts, SpeechNeverStarts,
            SpeechPlays, SpeechEnds
  <2> QED BY <2>1, <2>2, <2>3, <2>4, <2>5 DEF Next
<1> QED BY <1>1, PTL DEF Spec, SealedLogIsFinal

-----------------------------------------------------------------------------
(* Pipeline capacity follows the provider's work, not the request.          *)

Before == {"idle", "body", "stopWrite"}

\* A run between its claim and its pipeline holds its lease itself.
LeaseOf(u) ==
  /\ provider[u] = "running" => pipelineLease[u]
  /\ pc[u] \in Before => provider[u] = "none"
  /\ pc[u] \in Before \union Outcomes /\ provider[u] = "none" => ~pipelineLease[u]
  /\ pc[u] = "writing" => written[u] >= 1
  /\ pc[u] = "writing" /\ provider[u] = "none" => pipelineLease[u]
  /\ pc[u] = "writing" /\ written[u] = 1 => provider[u] = "none"

LeaseInv == \A u \in Uploads : LeaseOf(u)

\* An upload's own variables decide about its lease.
LEMMA LeaseIsLocal ==
  ASSUME NEW v \in Uploads, LeaseOf(v),
         pc'[v] = pc[v], written'[v] = written[v], provider'[v] = provider[v],
         pipelineLease'[v] = pipelineLease[v]
  PROVE  LeaseOf(v)'
BY DEF LeaseOf

LEMMA InitLease == Init => LeaseInv
<1> SUFFICES ASSUME Init, NEW u \in Uploads PROVE LeaseOf(u)
  BY DEF LeaseInv
<1>1. /\ pc[u] = "idle" /\ provider[u] = "none" /\ pipelineLease[u] = FALSE
  BY DEF Init, Requests
<1> QED BY <1>1 DEF LeaseOf

\* Where another upload stands after a step of upload u.
LEMMA OthersKeepLease ==
  ASSUME RequestTypeOK, RunTypeOK, NEW u \in Uploads,
         Upload(u) \/ AudioRun(u) \/ Pipeline(u), NEW v \in Uploads, v # u
  PROVE  /\ pc'[v] = pc[v] /\ written'[v] = written[v]
         /\ provider'[v] = provider[v] /\ pipelineLease'[v] = pipelineLease[v]
<1>0. /\ pc \in [Requests -> {"idle", "body", "stopWrite", "writing", "pipeline",
                              "closing"} \union Outcomes]
      /\ written \in [Requests -> Nat] /\ v \in Requests /\ u \in Requests
      /\ provider \in [Uploads -> {"none", "running", "returned", "failed"}]
      /\ pipelineLease \in [Uploads -> BOOLEAN]
  BY DEF RequestTypeOK, RunTypeOK, Requests
<1>1. pc'[v] = pc[v]
  BY <1>0 DEF Upload, AcceptUpload, RefuseUpload, BodySuperseded, BodyBroken,
     BodyRejected, BodyClaims, BodyClaimsAndStops, BodyLosesClaim, StartRun, End,
     AudioRun, StopWritten, StopSuperseded, StopNotWritten, AudioContinues,
     StartPipeline, PipelineJoined, AudioSuperseded, AudioFails,
     AudioErrorAnswered, AudioAnswered, CommitNext, Pipeline, PipelineReturns,
     ResourcesSettle, requestVars
<1>2. written'[v] = written[v]
  BY <1>0 DEF Upload, AcceptUpload, RefuseUpload, BodySuperseded, BodyBroken,
     BodyRejected, BodyClaims, BodyClaimsAndStops, BodyLosesClaim, StartRun,
     AudioRun, StopWritten, StopSuperseded, StopNotWritten, AudioContinues,
     StartPipeline, PipelineJoined, AudioSuperseded, AudioFails,
     AudioErrorAnswered, AudioAnswered, CommitNext, Pipeline, PipelineReturns,
     ResourcesSettle, requestVars
<1>3. provider'[v] = provider[v]
  BY <1>0 DEF Upload, AcceptUpload, RefuseUpload, BodySuperseded, BodyBroken,
     BodyRejected, BodyClaims, BodyClaimsAndStops, BodyLosesClaim, StartRun,
     AudioRun, StopWritten, StopSuperseded, StopNotWritten, AudioContinues,
     StartPipeline, PipelineJoined, AudioSuperseded, AudioFails,
     AudioErrorAnswered, AudioAnswered, Pipeline, PipelineReturns,
     ResourcesSettle, runVars
<1>4. pipelineLease'[v] = pipelineLease[v]
  BY <1>0 DEF Upload, AcceptUpload, RefuseUpload, BodySuperseded, BodyBroken,
     BodyRejected, BodyClaims, BodyClaimsAndStops, BodyLosesClaim, StartRun,
     AudioRun, StopWritten, StopSuperseded, StopNotWritten, AudioContinues,
     StartPipeline, PipelineJoined, AudioSuperseded, AudioFails,
     AudioErrorAnswered, AudioAnswered, ReleaseOwnLease, Pipeline,
     PipelineReturns, ResourcesSettle, runVars
<1> QED BY <1>1, <1>2, <1>3, <1>4

LEMMA UploadKeepsLease ==
  ASSUME TypeOK, LeaseInv, PlanPosition, NEW u \in Uploads,
         Upload(u) \/ AudioRun(u) \/ Pipeline(u)
  PROVE  LeaseInv'
<1>0. /\ RequestTypeOK /\ RunTypeOK /\ LeaseOf(u) /\ u \in Requests
  BY DEF TypeOK, LeaseInv, Requests
<1>t. /\ pc \in [Requests -> {"idle", "body", "stopWrite", "writing", "pipeline",
                              "closing"} \union Outcomes]
      /\ written \in [Requests -> Nat]
      /\ provider \in [Uploads -> {"none", "running", "returned", "failed"}]
      /\ pipelineLease \in [Uploads -> BOOLEAN]
  BY <1>0 DEF RequestTypeOK, RunTypeOK
<1>1. LeaseOf(u)'
  <2>1. CASE \/ AcceptUpload(u) \/ RefuseUpload(u) \/ BodySuperseded(u)
             \/ BodyBroken(u) \/ BodyRejected(u) \/ BodyClaimsAndStops(u)
             \/ BodyLosesClaim(u) \/ StopSuperseded(u) \/ StopNotWritten(u)
    <3>1. pc[u] \in Before /\ pc'[u] \in Before \union Outcomes
      BY <1>t, <1>0, <2>1 DEF AcceptUpload, RefuseUpload, BodySuperseded,
         BodyBroken, BodyRejected, BodyClaimsAndStops, BodyLosesClaim,
         StopSuperseded, StopNotWritten, End, Before, Outcomes
    <3>2. provider' = provider /\ pipelineLease' = pipelineLease
      BY <2>1 DEF AcceptUpload, RefuseUpload, BodySuperseded,
         BodyBroken, BodyRejected, BodyClaimsAndStops, BodyLosesClaim,
         StopSuperseded, StopNotWritten, runVars
    <3> QED BY <1>0, <3>1, <3>2 DEF LeaseOf, Before, Outcomes
  <2>2. CASE BodyClaims(u) \/ StopWritten(u)
    <3>1. pc[u] \in Before /\ provider' = provider /\ StartRun(u)
      BY <2>2 DEF BodyClaims, StopWritten, Before
    <3>2. \/ pc'[u] = "writing" /\ written'[u] = 1 /\ pipelineLease'[u] = TRUE
          \/ pc'[u] = "closing"
      BY <1>t, <1>0, <3>1 DEF StartRun
    <3> QED BY <1>0, <3>1, <3>2 DEF LeaseOf, Before, Outcomes
  <2>3. CASE AudioContinues(u) \/ PipelineJoined(u)
    <3>1. /\ pc[u] \in {"writing", "pipeline"} /\ pc'[u] = "writing"
          /\ written'[u] = written[u] + 1 /\ runVars' = runVars
      BY <1>t, <1>0, <2>3 DEF AudioContinues, PipelineJoined, CommitNext
    <3>2. provider' = provider /\ pipelineLease' = pipelineLease
      BY <3>1 DEF runVars
    <3>3. written[u] >= 1 /\ written[u] \in Nat
      BY <1>t, <1>0, <3>1 DEF LeaseOf, PlanPosition
    <3>4. pc[u] = "pipeline" => provider[u] # "none"
      BY <2>3, <3>1 DEF AudioContinues, PipelineJoined
    <3> QED BY <1>0, <3>1, <3>2, <3>3, <3>4 DEF LeaseOf, Before, Outcomes
  <2>4. CASE StartPipeline(u)
    <3>1. /\ pc[u] = "writing" /\ written[u] = 1 /\ pc'[u] = "pipeline"
          /\ provider'[u] = "running" /\ pipelineLease' = pipelineLease
      BY <1>t, <1>0, <2>4 DEF StartPipeline
    <3> QED BY <1>0, <3>1 DEF LeaseOf, Before, Outcomes
  <2>5. CASE AudioSuperseded(u) \/ AudioErrorAnswered(u) \/ AudioAnswered(u)
    <3>1. /\ pc'[u] \in Outcomes /\ provider' = provider
          /\ pipelineLease'[u] = (pipelineLease[u] /\ provider[u] # "none")
      BY <1>t, <1>0, <2>5 DEF AudioSuperseded, AudioErrorAnswered, AudioAnswered,
         End, ReleaseOwnLease, Outcomes
    <3> QED BY <1>0, <3>1 DEF LeaseOf, Before, Outcomes
  <2>6. CASE AudioFails(u)
    <3>1. /\ pc'[u] = "closing" /\ provider' = provider
          /\ pipelineLease' = pipelineLease
      BY <1>t, <1>0, <2>6 DEF AudioFails, End
    <3> QED BY <1>0, <3>1 DEF LeaseOf, Before, Outcomes
  <2>7. CASE Pipeline(u)
    <3>1. /\ pc' = pc /\ written' = written /\ provider[u] # "none"
          /\ provider'[u] # "none"
          /\ provider'[u] = "running" => pipelineLease'[u] = pipelineLease[u]
          /\ provider'[u] = "running" => provider[u] = "running"
      BY <1>t, <2>7 DEF Pipeline, PipelineReturns, ResourcesSettle, requestVars
    <3> QED BY <1>0, <3>1 DEF LeaseOf, Before, Outcomes
  <2> QED BY <2>1, <2>2, <2>3, <2>4, <2>5, <2>6, <2>7 DEF Upload, AudioRun
<1>2. ASSUME NEW v \in Uploads, v # u PROVE LeaseOf(v)'
  BY <1>0, <1>2, OthersKeepLease, LeaseIsLocal DEF LeaseInv
<1> QED BY <1>1, <1>2 DEF LeaseInv

LEMMA StepKeepsLease ==
  TypeOK /\ SealInv /\ LeaseInv /\ [Next]_vars => LeaseInv'
<1> SUFFICES ASSUME TypeOK, SealInv, LeaseInv, [Next]_vars PROVE LeaseInv'
  OBVIOUS
<1>1. CASE \E u \in Uploads : Upload(u) \/ AudioRun(u) \/ Pipeline(u)
  BY <1>1, UploadKeepsLease DEF SealInv
<1>2. CASE \/ \E m \in Manuals : Manual(m)
           \/ Outside \/ Clock \/ Speech \/ UNCHANGED vars
  <2>1. provider' = provider /\ pipelineLease' = pipelineLease
    BY <1>2 DEF Manual, ManualRun, ManualStarts, ManualRefused, ManualStopped,
       ManualNotWritten, ManualAnswered, ManualContinues, Outside, DeviceStarts,
       DeviceStops, DeviceFails, OperatorStarts, OperatorStops, OperatorSilences,
       OperatorEnds, OutputReplaced, Clock, DeadlinePasses, DeadlineFires,
       Speech, SpeechStarts, SpeechNeverStarts, SpeechPlays, SpeechEnds,
       SpeechOnly, runVars, vars
  <2>2. \A u \in Uploads : pc'[u] = pc[u] /\ written'[u] = written[u]
    <3>1. CASE \E m \in Manuals : Manual(m)
      <4>1. PICK m \in Manuals : Manual(m)
        BY <3>1
      <4>2. \A u \in Uploads : u # m /\ u \in Requests
        BY RequestsAreDistinct DEF RequestsAreDistinct, Requests
      <4>3. \E place : pc' = [pc EXCEPT ![m] = place]
        BY <4>1 DEF Manual, ManualRun, ManualStarts, ManualRefused, ManualStopped,
           ManualNotWritten, ManualAnswered, ManualContinues, CommitNext, End
      <4>4. written' = written \/ written' = [written EXCEPT ![m] = @ + 1]
        BY <4>1 DEF Manual, ManualRun, ManualStarts, ManualRefused, ManualStopped,
           ManualNotWritten, ManualAnswered, ManualContinues, CommitNext
      <4> QED BY <4>2, <4>3, <4>4 DEF TypeOK, RequestTypeOK
    <3>2. CASE Outside \/ Clock \/ Speech \/ UNCHANGED vars
      <4>1. UNCHANGED requestVars
        BY <3>2 DEF Outside, DeviceStarts, DeviceStops, DeviceFails,
           OperatorStarts, OperatorStops, OperatorSilences, OperatorEnds,
           OutputReplaced, Clock, DeadlinePasses, DeadlineFires, Speech,
           SpeechStarts, SpeechNeverStarts, SpeechPlays, SpeechEnds, SpeechOnly,
           vars
      <4> QED BY <4>1 DEF requestVars
    <3> QED BY <1>2, <3>1, <3>2
  <2> QED BY <2>1, <2>2, LeaseIsLocal DEF LeaseInv
<1> QED BY <1>1, <1>2 DEF Next

\* Pipeline capacity stays accounted for while provider work can consume it,
\* and is never left behind by a request that ended without any.
THEOREM LeasesFollowWork == Spec => []LeaseFollowsWork
<1>1. LeaseInv => LeaseFollowsWork
  BY DEF LeaseInv, LeaseOf, LeaseFollowsWork, Before
<1> QED BY <1>1, InitTypeOK, StepTypeOK, InitSeal, StepSeals, InitLease,
        StepKeepsLease, PTL DEF Spec

-----------------------------------------------------------------------------
(* The log and the status follow the run.  Whoever else commits something   *)
(* while a run is under way seals the attempt, so the check before a commit *)
(* is enough; and none of it is an analysis event.                          *)

HasResult == Logged(log, "session_result")

\* The status in which an unfinished audio run finds its open attempt.
Phase(u) == IF written[u] < 5 THEN "processing" ELSE "reading"

\* The run's events in the log are as many as it has written, and in its order.
ReadingInv ==
  /\ Cardinality(AnalysisUpTo(log, Len(log))) =
       IF claim \in Requests THEN written[claim] ELSE 0
  /\ OneReading

PhaseInv ==
  /\ ReadingInv
  /\ \A r \in Requests : written[r] # 0 => claim = r
  /\ \A r \in Requests : pc[r] \in Before => written[r] = 0
  /\ HasResult => claim \in Requests /\ Finished(claim)
  /\ \A u \in Uploads :
       written[u] # 0 /\ ~Finished(u) /\ IsAttemptOpen => status = Phase(u)

\* Who is not running commits none of its events, or seals the attempt, or finds no run in it.
Bystands ==
  /\ written' = written
  /\ claim' = claim \/ claim = NoOne
  /\ \A r \in Requests : pc'[r] \in Before => pc[r] \in Before
  /\ \/ log' = log /\ status' = status
     \/ /\ \E type, by : type \in EventTypes \ AnalysisEvents /\ Commit(type, by)
        /\ \/ status' \in {"reset", "error", status}
           \/ status \in {"created", "recording", "result"}

\* What one more entry does to the result's presence.
LEMMA ResultIsLogged ==
  ASSUME SessionTypeOK, NEW type \in EventTypes,
         NEW by, log' = Append(log, [type |-> type, by |-> by])
  PROVE  HasResult' <=> HasResult \/ type = "session_result"
<1>1. log \in Seq(Entry)
  BY DEF SessionTypeOK, Entry
<1>2. /\ DOMAIN log = 1..Len(log) /\ DOMAIN log' = 1..(Len(log) + 1) /\ Len(log) \in Nat
      /\ log'[Len(log) + 1].type = type
      /\ \A i \in 1..Len(log) : log'[i] = log[i]
  BY <1>1
<1> QED BY <1>2 DEF HasResult, Logged

\* The analysis events of a log that has one more entry.
LEMMA AnalysisOfAppend ==
  ASSUME SessionTypeOK, NEW type, NEW by, log' = Append(log, [type |-> type, by |-> by])
  PROVE  /\ Len(log) \in Nat /\ Len(log') = Len(log) + 1
         /\ \A i \in 1..Len(log) :
              log'[i] = log[i] /\ AnalysisUpTo(log', i) = AnalysisUpTo(log, i)
         /\ log'[Len(log) + 1] = [type |-> type, by |-> by]
         /\ AnalysisUpTo(log', Len(log) + 1) =
              AnalysisUpTo(log, Len(log))
                \union (IF type \in AnalysisEvents THEN {Len(log) + 1} ELSE {})
<1>1. log \in Seq(Entry)
  BY DEF SessionTypeOK, Entry
<1>2. /\ Len(log) \in Nat /\ Len(log') = Len(log) + 1
      /\ log'[Len(log) + 1] = [type |-> type, by |-> by]
      /\ \A i \in 1..Len(log) : log'[i] = log[i]
  BY <1>1
<1>3. \A i \in 1..Len(log) : AnalysisUpTo(log', i) = AnalysisUpTo(log, i)
  BY <1>2 DEF AnalysisUpTo
<1>4. AnalysisUpTo(log', Len(log) + 1) =
        AnalysisUpTo(log, Len(log))
          \union (IF type \in AnalysisEvents THEN {Len(log) + 1} ELSE {})
  BY <1>2 DEF AnalysisUpTo
<1> QED BY <1>2, <1>3, <1>4

\* There are finitely many of them.
LEMMA AnalysisIsFinite ==
  ASSUME NEW events, NEW n \in Nat
  PROVE  /\ IsFiniteSet(AnalysisUpTo(events, n))
         /\ Cardinality(AnalysisUpTo(events, n)) \in Nat
<1>1. IsFiniteSet(1..n)
  BY FS_Interval
<1>2. AnalysisUpTo(events, n) \in SUBSET (1..n)
  BY DEF AnalysisUpTo
<1> QED BY <1>1, <1>2, FS_Subset, FS_CardinalityType

\* An entry that is no analysis event, or none at all, leaves the reading alone.
LEMMA BystandersKeepReading ==
  ASSUME TypeOK, PhaseInv, Bystands
  PROVE  ReadingInv'
<1>0. SessionTypeOK /\ NoOne \notin Requests /\ Len(log) \in Nat
  BY RequestsAreDistinct DEF RequestsAreDistinct, TypeOK, SessionTypeOK
<1>1. CASE log' = log
  <2>1. CASE claim' = claim
    BY <1>1, <2>1 DEF PhaseInv, ReadingInv, OneReading, Bystands, PlanLength, Prelude, Plan
  <2>2. CASE claim = NoOne
    <3>1. Cardinality(AnalysisUpTo(log, Len(log))) = 0
      BY <1>0, <2>2 DEF PhaseInv, ReadingInv
    <3>2. AnalysisUpTo(log, Len(log)) = {}
      BY <1>0, <3>1, AnalysisIsFinite, FS_EmptySet
    <3>3. \A r \in Requests : written'[r] = 0
      BY <1>0, <2>2 DEF PhaseInv, Bystands
    <3> QED BY <1>1, <3>1, <3>2, <3>3 DEF ReadingInv, OneReading
  <2> QED BY <2>1, <2>2 DEF Bystands
<1>2. CASE \E type, by : type \in EventTypes \ AnalysisEvents /\ Commit(type, by)
  <2>1. PICK type, by : type \in EventTypes \ AnalysisEvents /\ Commit(type, by)
    BY <1>2
  <2>2. /\ Len(log') = Len(log) + 1
        /\ AnalysisUpTo(log', Len(log')) = AnalysisUpTo(log, Len(log))
        /\ \A i \in 1..Len(log) :
             log'[i] = log[i] /\ AnalysisUpTo(log', i) = AnalysisUpTo(log, i)
    BY <1>0, <2>1, AnalysisOfAppend DEF Commit
  <2>3. AnalysisUpTo(log, Len(log)) \subseteq 1..Len(log)
    BY DEF AnalysisUpTo
  <2>4. CASE claim' = claim
    <3>1. Cardinality(AnalysisUpTo(log', Len(log'))) =
            IF claim' \in Requests THEN written'[claim'] ELSE 0
      BY <2>2, <2>4 DEF PhaseInv, ReadingInv, Bystands
    <3>2. OneReading'
      BY <2>2, <2>3, <2>4 DEF PhaseInv, ReadingInv, OneReading, PlanLength, Prelude, Plan
    <3> QED BY <3>1, <3>2 DEF ReadingInv
  <2>5. CASE claim = NoOne
    <3>1. Cardinality(AnalysisUpTo(log, Len(log))) = 0
      BY <1>0, <2>5 DEF PhaseInv, ReadingInv
    <3>2. AnalysisUpTo(log, Len(log)) = {}
      BY <1>0, <3>1, AnalysisIsFinite, FS_EmptySet
    <3>3. \A r \in Requests : written'[r] = 0
      BY <1>0, <2>5 DEF PhaseInv, Bystands
    <3> QED BY <2>2, <3>1, <3>2, <3>3 DEF ReadingInv, OneReading
  <2> QED BY <2>4, <2>5 DEF Bystands
<1> QED BY <1>1, <1>2 DEF Bystands

\* The next event of the run is the next of its plan.
LEMMA AdvanceKeepsReading ==
  ASSUME TypeOK, PhaseInv, NEW r \in Requests, ~Finished(r), Commit(NextOf(r), r),
         written' = [written EXCEPT ![r] = @ + 1], claim' = r, claim \in {NoOne, r}
  PROVE  ReadingInv'
<1> DEFINE n == Len(log)
           place(i) == Cardinality(AnalysisUpTo(log, i))
<1>0. /\ SessionTypeOK /\ RequestTypeOK /\ NoOne \notin Requests
      /\ written \in [Requests -> Nat] /\ PlanLength(r) \in Nat
  BY PreludeLengths, RequestsAreDistinct
     DEF RequestsAreDistinct, TypeOK, RequestTypeOK
<1>1. /\ n \in Nat /\ Len(log') = n + 1
      /\ \A i \in 1..n : log'[i] = log[i] /\ AnalysisUpTo(log', i) = AnalysisUpTo(log, i)
      /\ log'[n + 1] = [type |-> NextOf(r), by |-> r]
      /\ AnalysisUpTo(log', n + 1) = AnalysisUpTo(log, n) \union {n + 1}
  BY <1>0, NextIsTyped, AnalysisOfAppend DEF Commit
<1>2. n + 1 \notin AnalysisUpTo(log, n) /\ AnalysisUpTo(log, n) \subseteq 1..n
  BY <1>1 DEF AnalysisUpTo
<1>3. place(n) = written[r]
  BY <1>0 DEF PhaseInv, ReadingInv
<1>4. Cardinality(AnalysisUpTo(log', n + 1)) = written[r] + 1
  BY <1>1, <1>2, <1>3, AnalysisIsFinite, FS_AddElement
<1>5. written'[claim'] = written[r] + 1
  BY <1>0
<1>6. written[r] + 1 \in 1..PlanLength(r) /\ NextOf(r) = Plan(r)[written[r] + 1]
  BY <1>0, NextIsTyped DEF NextOf
<1>7. ASSUME NEW i \in AnalysisUpTo(log', n + 1)
      PROVE  LET at == Cardinality(AnalysisUpTo(log', i))
             IN  /\ claim' \in Requests /\ log'[i].by = claim'
                 /\ at \in 1..PlanLength(r) /\ log'[i].type = Plan(r)[at]
  <2>1. CASE i = n + 1
    BY <1>1, <1>4, <1>6, <2>1
  <2>2. CASE i # n + 1
    <3>1. i \in AnalysisUpTo(log, n) /\ i \in 1..n
      BY <1>1, <1>2, <2>2
    <3>2. claim = r
      BY <1>0, <3>1 DEF PhaseInv, ReadingInv, OneReading
    <3> QED BY <1>1, <3>1, <3>2 DEF PhaseInv, ReadingInv, OneReading
  <2> QED BY <2>1, <2>2
<1>8. OneReading'
  BY <1>1, <1>7 DEF OneReading, PlanLength, Prelude, Plan
<1> QED BY <1>1, <1>4, <1>5, <1>8 DEF ReadingInv

LEMMA BystandersKeepPhase ==
  ASSUME TypeOK, PhaseInv, Bystands
  PROVE  PhaseInv'
<1>1. /\ SessionTypeOK /\ NoOne \notin Requests /\ Uploads \subseteq Requests
  BY RequestsAreDistinct DEF RequestsAreDistinct, TypeOK, Requests
<1>2. \A r \in Requests : written'[r] = written[r] /\ Finished(r)' = Finished(r)
  BY DEF Bystands, Finished, PlanLength, Prelude
<1>3. \A r \in Requests : claim = r => claim' = r
  BY <1>1 DEF Bystands
<1>4. HasResult' <=> HasResult
  <2>1. CASE log' = log
    BY <2>1 DEF HasResult, Logged
  <2>2. CASE \E type, by : type \in EventTypes \ AnalysisEvents /\ Commit(type, by)
    <3>1. PICK type, by : type \in EventTypes \ AnalysisEvents /\ Commit(type, by)
      BY <2>2
    <3>2. type # "session_result"
      BY <3>1 DEF AnalysisEvents
    <3> QED BY <1>1, <3>1, <3>2, ResultIsLogged DEF Commit
  <2> QED BY <2>1, <2>2 DEF Bystands
<1>5. /\ \A r \in Requests : written'[r] # 0 => claim' = r
      /\ \A r \in Requests : pc'[r] \in Before => written'[r] = 0
  BY <1>2, <1>3 DEF PhaseInv, Bystands
<1>6. HasResult' => claim' \in Requests /\ Finished(claim)'
  <2> SUFFICES ASSUME HasResult PROVE claim' \in Requests /\ Finished(claim)'
    BY <1>4
  <2>1. claim \in Requests /\ Finished(claim) /\ claim' = claim
    BY <1>3 DEF PhaseInv
  <2>2. written'[claim] = PlanLength(claim)
    BY <1>2, <2>1 DEF Finished
  <2> QED BY <2>1, <2>2 DEF Finished, PlanLength, Prelude
<1>7. ASSUME NEW u \in Uploads, written'[u] # 0, ~Finished(u)', IsAttemptOpen'
      PROVE  status' = Phase(u)'
  <2>1. written[u] # 0 /\ ~Finished(u) /\ Phase(u)' = Phase(u)
    BY <1>1, <1>2, <1>7 DEF Phase
  <2>2. status' \notin {"reset", "error"}
    BY <1>7 DEF IsAttemptOpen
  <2>3. status' = status \/ status \in {"created", "recording", "result"}
    BY <2>2 DEF Bystands
  <2>4. IsAttemptOpen
    BY <2>2, <2>3 DEF IsAttemptOpen
  <2>5. status = Phase(u)
    BY <2>1, <2>4 DEF PhaseInv
  <2>6. status \notin {"created", "recording", "result"}
    BY <2>5 DEF Phase
  <2> QED BY <2>1, <2>3, <2>5, <2>6
<1> QED BY <1>5, <1>6, <1>7, BystandersKeepReading DEF PhaseInv

-----------------------------------------------------------------------------
(* The runs.                                                               *)

\* What an audio run commits next, and in which status.
LEMMA AudioPlan ==
  ASSUME RequestTypeOK, NEW u \in Uploads, ~Finished(u), written[u] # 0
  PROVE  /\ written[u] = 1 => NextOf(u) = "audio_normalized"
         /\ written[u] = 2 => NextOf(u) = "audio_transcribed"
         /\ written[u] = 3 => NextOf(u) = "audio_features"
         /\ written[u] = 4 => NextOf(u) = "reading_started"
         /\ written[u] >= 5 => NextOf(u) \in {"channel_resolved", "session_result"}
         /\ NextOf(u) = "session_result" => written[u] + 1 = PlanLength(u)
         /\ written[u] \in 1..(PlanLength(u) - 1) /\ PlanLength(u) \in Nat
         /\ PlanLength(u) > 5
<1>1. u \in Requests
  BY DEF Requests
<1>2. Len(Prelude(u)) = 5 /\ PlanLength(u) \in Nat /\ PlanLength(u) > 5
  BY <1>1, PreludeLengths
<1>3. written[u] \in 1..(PlanLength(u) - 1)
  BY <1>1, <1>2 DEF RequestTypeOK, Finished
<1> DEFINE n == written[u] + 1
<1>4. n \in 1..PlanLength(u) /\ NextOf(u) = Plan(u)[n]
  BY <1>2, <1>3 DEF NextOf
<1>5. CASE n <= 5
  <2>1. NextOf(u) = Prelude(u)[n]
    BY <1>2, <1>4, <1>5 DEF Plan
  <2>2. Prelude(u) = <<"audio_uploaded", "audio_normalized", "audio_transcribed",
                       "audio_features", "reading_started">>
    BY DEF Prelude
  <2> QED BY <1>2, <1>3, <1>5, <2>1, <2>2
<1>6. CASE n > 5
  <2>1. NextOf(u) = IF n < PlanLength(u) THEN "channel_resolved" ELSE "session_result"
    BY <1>2, <1>4, <1>6 DEF Plan
  <2> QED BY <1>2, <1>3, <1>6, <2>1
<1> QED BY <1>3, <1>5, <1>6

\* Nobody's plan has its result before its end.
LEMMA ResultIsLast ==
  ASSUME RequestTypeOK, NEW r \in Requests, ~Finished(r), NextOf(r) = "session_result"
  PROVE  written[r] + 1 = PlanLength(r)
<1>1. /\ PlanLength(r) \in Nat /\ PlanLength(r) > Len(Prelude(r))
      /\ Len(Prelude(r)) \in Nat
  BY PreludeLengths DEF Prelude
<1> DEFINE n == written[r] + 1
<1>2. n \in 1..PlanLength(r) /\ NextOf(r) = Plan(r)[n]
  BY <1>1 DEF RequestTypeOK, Finished, NextOf
<1>3. CASE n <= Len(Prelude(r))
  <2>1. NextOf(r) = Prelude(r)[n]
    BY <1>1, <1>2, <1>3 DEF Plan
  <2>2. CASE r \in Uploads
    BY <1>2, <1>3, <2>1, <2>2, PreludeLengths DEF Prelude
  <2>3. CASE r \notin Uploads
    BY <1>2, <1>3, <2>1, <2>3, PreludeLengths DEF Prelude
  <2> QED BY <2>2, <2>3
<1>4. CASE ~(n <= Len(Prelude(r)))
  BY <1>1, <1>2, <1>4 DEF Plan
<1> QED BY <1>3, <1>4

\* The event of a run leaves the attempt in the status of its next one.
LEMMA AdvanceKeepsPhase ==
  ASSUME TypeOK, PhaseInv, NEW r \in Requests, CommitNext(r),
         claim' = r, claim \in {NoOne, r},
         r \in Uploads => written[r] # 0 /\ IsAttemptOpen
  PROVE  PhaseInv'
<1>0. /\ SessionTypeOK /\ RequestTypeOK /\ NoOne \notin Requests
      /\ Uploads \subseteq Requests
  BY RequestsAreDistinct DEF RequestsAreDistinct, TypeOK, Requests
<1>1. /\ ~Finished(r) /\ Commit(NextOf(r), r)
      /\ written' = [written EXCEPT ![r] = @ + 1] /\ pc' = [pc EXCEPT ![r] = "writing"]
  BY DEF CommitNext
<1>2. /\ written \in [Requests -> Nat] /\ \A s \in Requests : PlanLength(s) \in Nat
      /\ pc \in [Requests -> {"idle", "body", "stopWrite", "writing", "pipeline",
                              "closing"} \union Outcomes]
  BY <1>0, PreludeLengths DEF RequestTypeOK
<1>3. \A s \in Requests : s # r => written[s] = 0 /\ written'[s] = 0
  BY <1>0, <1>1, <1>2 DEF PhaseInv
<1>4. \A s \in Requests : written'[s] # 0 => claim' = s
  BY <1>3
<1>5. \A s \in Requests : pc'[s] \in Before => written'[s] = 0
  BY <1>1, <1>2, <1>3 DEF Before, PhaseInv
<1>6. HasResult' => claim' \in Requests /\ Finished(claim)'
  <2>1. ~HasResult
    BY <1>0, <1>1 DEF PhaseInv
  <2>2. HasResult' => NextOf(r) = "session_result"
    BY <1>0, <1>1, <2>1, NextIsTyped, ResultIsLogged DEF Commit
  <2>3. NextOf(r) = "session_result" => written'[r] = PlanLength(r)
    BY <1>0, <1>1, <1>2, ResultIsLast
  <2> QED BY <2>2, <2>3 DEF Finished, PlanLength, Prelude
<1>7. ASSUME NEW u \in Uploads, written'[u] # 0, ~Finished(u)' PROVE status' = Phase(u)'
  <2>1. u = r /\ written[u] # 0 /\ IsAttemptOpen /\ ~Finished(u)
    BY <1>0, <1>1, <1>3, <1>7
  <2>2. status = Phase(u) /\ status' = StatusAfter(NextOf(u), status)
    BY <1>1, <2>1 DEF PhaseInv, Commit
  <2>3. written'[u] = written[u] + 1 /\ written[u] \in Nat
    BY <1>0, <1>1, <1>2, <2>1
  <2>4. written'[u] # PlanLength(u)
    BY <1>7 DEF Finished, PlanLength, Prelude
  <2>5. NextOf(u) # "session_result"
    BY <1>0, <2>1, <2>3, <2>4, AudioPlan
  <2>6. CASE written[u] < 4
    <3>1. NextOf(u) \in {"audio_normalized", "audio_transcribed", "audio_features"}
      BY <1>0, <2>1, <2>3, <2>6, AudioPlan
    <3>2. status = "processing" /\ Phase(u)' = "processing"
      BY <2>2, <2>3, <2>6 DEF Phase
    <3> QED BY <2>2, <3>1, <3>2 DEF StatusAfter
  <2>7. CASE written[u] = 4
    <3>1. NextOf(u) = "reading_started" /\ Phase(u)' = "reading"
      BY <1>0, <2>1, <2>3, <2>7, AudioPlan DEF Phase
    <3> QED BY <2>2, <3>1 DEF StatusAfter
  <2>8. CASE written[u] > 4
    <3>1. NextOf(u) = "channel_resolved" /\ Phase(u)' = "reading"
      BY <1>0, <2>1, <2>3, <2>5, <2>8, AudioPlan DEF Phase
    <3> QED BY <2>2, <3>1 DEF StatusAfter
  <2> QED BY <2>3, <2>6, <2>7, <2>8
<1> QED BY <1>1, <1>4, <1>5, <1>6, <1>7, AdvanceKeepsReading DEF PhaseInv

\* Sealing an attempt, and what is accepted from outside, leave the phases alone.
LEMMA SealBystands ==
  ASSUME NEW type \in {"session_error", "session_reset"}, NEW by, Commit(type, by)
  PROVE  /\ \E t, b : t \in EventTypes \ AnalysisEvents /\ Commit(t, b)
         /\ status' \in {"reset", "error", status}
<1>1. type \in EventTypes \ AnalysisEvents
  BY DEF EventTypes, AnalysisEvents
<1> QED BY <1>1, OrdinaryEventsKeepOpen

LEMMA ExternalBystands ==
  ASSUME NEW type \in {"recording_started", "recording_stopped", "session_silence"},
         NEW by, Commit(type, by), CanAcceptExternal(status, type)
  PROVE  /\ \E t, b : t \in EventTypes \ AnalysisEvents /\ Commit(t, b)
         /\ status \in {"created", "recording", "result"}
<1>1. type \in EventTypes \ AnalysisEvents
  BY DEF EventTypes, OrdinaryEvents, AcceptedIn, AnalysisEvents
<1>2. status \in {"created", "recording", "result"}
  BY DEF CanAcceptExternal, CanApply, OrdinaryEvents, AcceptedIn
<1> QED BY <1>1, <1>2

LEMMA SpeechBystands ==
  ASSUME NEW type \in {"tts_started", "tts_finished"}, NEW by, Commit(type, by)
  PROVE  /\ \E t, b : t \in EventTypes \ AnalysisEvents /\ Commit(t, b)
         /\ status' \in {"reset", "error", status}
<1>1. type \in EventTypes \ AnalysisEvents
  BY DEF EventTypes, OrdinaryEvents, AcceptedIn, AnalysisEvents
<1>2. StatusAfter(type, status) = status
  BY DEF StatusAfter
<1> QED BY <1>1, <1>2 DEF Commit

\* What expiry may do to the session.
LEMMA ExpiryBystands ==
  ASSUME NEW leases, Expire(leases) \/ ExpireIfDue(leases)
  PROVE  \/ log' = log /\ status' = status
         \/ /\ \E t, b : t \in EventTypes \ AnalysisEvents /\ Commit(t, b)
            /\ status' \in {"reset", "error", status}
<1>1. (log' = log /\ status' = status) \/ Commit("session_error", NoOne)
  BY DEF Expire, ExpireIfDue
<1> QED BY <1>1, SealBystands

LEMMA StartKeepsPhase ==
  ASSUME TypeOK, PhaseInv, NEW u \in Uploads, StartRun(u), claim' = u,
         claim \in {NoOne, u}, pc[u] \in Before
  PROVE  PhaseInv'
<1>0. /\ SessionTypeOK /\ RequestTypeOK /\ NoOne \notin Requests /\ u \in Requests
      /\ Uploads \subseteq Requests
  BY RequestsAreDistinct DEF RequestsAreDistinct, TypeOK, Requests
<1>1. /\ written \in [Requests -> Nat] /\ \A s \in Requests : PlanLength(s) \in Nat
      /\ pc \in [Requests -> {"idle", "body", "stopWrite", "writing", "pipeline",
                              "closing"} \union Outcomes]
      /\ PlanLength(u) > 5
  BY <1>0, PreludeLengths DEF RequestTypeOK
<1>2. CASE Commit("session_error", u) /\ pc' = [pc EXCEPT ![u] = "closing"]
           /\ written' = written
  <2>1. Bystands
    BY <1>0, <1>1, <1>2, SealBystands DEF Bystands, Before
  <2> QED BY <2>1, BystandersKeepPhase
<1>3. CASE Commit("audio_uploaded", u) /\ pc' = [pc EXCEPT ![u] = "writing"]
           /\ written' = [written EXCEPT ![u] = 1]
  <2>1. \A s \in Requests : s # u => written[s] = 0 /\ written'[s] = 0
    BY <1>0, <1>1, <1>3 DEF PhaseInv
  <2>2. written[u] = 0 /\ ~Finished(u)
    BY <1>0, <1>1 DEF PhaseInv, Finished
  <2>3. ~HasResult'
    <3>1. ~HasResult
      BY <1>0, <2>2 DEF PhaseInv
    <3>2. "audio_uploaded" \in EventTypes
      BY DEF EventTypes, OrdinaryEvents, AcceptedIn
    <3> QED BY <1>0, <1>3, <3>1, <3>2, ResultIsLogged DEF Commit
  <2>4. \A s \in Requests : written'[s] # 0 => claim' = s
    BY <2>1
  <2>5. \A s \in Requests : pc'[s] \in Before => written'[s] = 0
    BY <1>1, <1>3, <2>1 DEF Before
  <2>6. status' = "processing"
    BY <1>3, OrdinaryEventsKeepOpen
  <2>7. ASSUME NEW v \in Uploads, written'[v] # 0 PROVE status' = Phase(v)'
    BY <1>0, <1>1, <1>3, <2>1, <2>6, <2>7 DEF Phase
  <2>8. NextOf(u) = "audio_uploaded"
    BY <1>0, <1>1, <2>2, PreludeLengths DEF NextOf, Plan, Prelude
  <2>9. written' = [written EXCEPT ![u] = @ + 1]
    BY <1>0, <1>1, <1>3, <2>2
  <2>10. ReadingInv'
    BY <1>0, <1>3, <2>2, <2>8, <2>9, AdvanceKeepsReading
  <2> QED BY <2>3, <2>4, <2>5, <2>7, <2>10 DEF PhaseInv
<1> QED BY <1>2, <1>3 DEF StartRun

\* An upload that is received, refused or superseded stands by.
LEMMA UploadKeepsPhase ==
  ASSUME TypeOK, PhaseInv, NEW u \in Uploads, Upload(u)
  PROVE  PhaseInv'
<1>0. /\ u \in Requests
      /\ pc \in [Requests -> {"idle", "body", "stopWrite", "writing", "pipeline",
                              "closing"} \union Outcomes]
  BY DEF TypeOK, RequestTypeOK, Requests
<1>1. CASE BodyClaims(u)
  <2>1. StartRun(u) /\ claim' = u /\ claim = NoOne /\ pc[u] \in Before
    BY <1>1 DEF BodyClaims, CanClaim, Unclaimed, Before
  <2> QED BY <2>1, StartKeepsPhase
<1>2. CASE \/ AcceptUpload(u) \/ RefuseUpload(u) \/ BodyBroken(u) \/ BodyRejected(u)
           \/ BodyLosesClaim(u)
  <2>1. /\ written' = written /\ UNCHANGED sessionVars /\ pc[u] \in Before
        /\ \E place : pc' = [pc EXCEPT ![u] = place]
    BY <1>2 DEF AcceptUpload, RefuseUpload, BodyBroken, BodyRejected, BodyLosesClaim,
                End, Before
  <2>2. Bystands
    BY <1>0, <2>1 DEF Bystands, sessionVars
  <2> QED BY <2>2, BystandersKeepPhase
<1>3. CASE BodySuperseded(u)
  <2>1. /\ written' = written /\ claim' = claim /\ pc[u] \in Before
        /\ \E place : pc' = [pc EXCEPT ![u] = place]
        /\ (log' = log /\ status' = status) \/ ExpireIfDue(work)
    BY <1>3 DEF BodySuperseded, End, Before
  <2>2. \A r \in Requests : pc'[r] \in Before => pc[r] \in Before
    BY <1>0, <2>1
  <2>3. Bystands
    BY <2>1, <2>2, ExpiryBystands DEF Bystands
  <2> QED BY <2>3, BystandersKeepPhase
<1>4. CASE BodyClaimsAndStops(u)
  <2>1. /\ written' = written /\ claim = NoOne /\ pc' = [pc EXCEPT ![u] = "stopWrite"]
        /\ pc[u] \in Before /\ status = "recording" /\ Commit("recording_stopped", u)
    BY <1>4 DEF BodyClaimsAndStops, CanClaim, Unclaimed, Before
  <2>2. "recording_stopped" \in EventTypes \ AnalysisEvents
    BY DEF EventTypes, OrdinaryEvents, AcceptedIn, AnalysisEvents
  <2>3. \A r \in Requests : pc'[r] \in Before => pc[r] \in Before
    BY <1>0, <2>1
  <2>4. Bystands
    BY <2>1, <2>2, <2>3 DEF Bystands
  <2> QED BY <2>4, BystandersKeepPhase
<1> QED BY <1>1, <1>2, <1>3, <1>4 DEF Upload

LEMMA AudioRunKeepsPhase ==
  ASSUME TypeOK, OwnerInv, LeaseInv, SealInv, PhaseInv, NEW u \in Uploads,
         AudioRun(u) \/ Pipeline(u)
  PROVE  PhaseInv'
<1>0. /\ u \in Requests
      /\ pc \in [Requests -> {"idle", "body", "stopWrite", "writing", "pipeline",
                              "closing"} \union Outcomes]
      /\ written \in [Requests -> Nat]
  BY DEF TypeOK, RequestTypeOK, Requests
<1>1. CASE StopWritten(u)
  <2>1. StartRun(u) /\ claim' = u /\ claim = u /\ pc[u] \in Before
    BY <1>0, <1>1 DEF StopWritten, Before, OwnerInv, RunnerHoldsClaim, Running
  <2> QED BY <2>1, StartKeepsPhase
<1>2. CASE AudioContinues(u) \/ PipelineJoined(u)
  <2>1. CommitNext(u) /\ MayCommit(u) /\ pc[u] \in {"writing", "pipeline"} /\ claim' = claim
    BY <1>2 DEF AudioContinues, PipelineJoined
  <2>2. claim = u /\ written[u] # 0
    BY <1>0, <2>1 DEF OwnerInv, RunnerHoldsClaim, Running, LeaseInv, LeaseOf,
                      SealInv, PlanPosition
  <2>3. IsAttemptOpen
    BY <2>1 DEF MayCommit, AllowsCommit
  <2> QED BY <1>0, <2>1, <2>2, <2>3, AdvanceKeepsPhase
<1>3. CASE StopSuperseded(u) \/ AudioSuperseded(u)
  <2>1. /\ written' = written /\ claim' = claim
        /\ pc' = [pc EXCEPT ![u] = "superseded"]
        /\ \E leases : ExpireIfDue(leases)
    BY <1>3 DEF StopSuperseded, AudioSuperseded, End
  <2>2. \A r \in Requests : pc'[r] \in Before => pc[r] \in Before
    BY <1>0, <2>1 DEF Before
  <2>3. Bystands
    BY <2>1, <2>2, ExpiryBystands DEF Bystands
  <2> QED BY <2>3, BystandersKeepPhase
<1>4. CASE AudioFails(u)
  <2>1. /\ written' = written /\ claim' = claim /\ Commit("session_error", u)
        /\ pc' = [pc EXCEPT ![u] = "closing"]
    BY <1>4 DEF AudioFails, End
  <2>2. \A r \in Requests : pc'[r] \in Before => pc[r] \in Before
    BY <1>0, <2>1 DEF Before
  <2>3. Bystands
    BY <2>1, <2>2, SealBystands DEF Bystands
  <2> QED BY <2>3, BystandersKeepPhase
<1>5. CASE \/ StopNotWritten(u) \/ StartPipeline(u) \/ AudioErrorAnswered(u)
           \/ AudioAnswered(u) \/ Pipeline(u)
  <2>1. /\ written' = written /\ UNCHANGED sessionVars
        /\ pc' = pc \/ \E place \in {"pipeline"} \union Outcomes : pc' = [pc EXCEPT ![u] = place]
    BY <1>5 DEF StopNotWritten, StartPipeline, AudioErrorAnswered, AudioAnswered,
                Pipeline, PipelineReturns, ResourcesSettle, requestVars, End, Outcomes
  <2>2. \A r \in Requests : pc'[r] \in Before => pc[r] \in Before
    BY <1>0, <2>1 DEF Before, Outcomes
  <2>3. Bystands
    BY <2>1, <2>2 DEF Bystands, sessionVars
  <2> QED BY <2>3, BystandersKeepPhase
<1> QED BY <1>1, <1>2, <1>3, <1>4, <1>5 DEF AudioRun

LEMMA ManualKeepsPhase ==
  ASSUME TypeOK, OwnerInv, PhaseInv, NEW m \in Manuals, Manual(m)
  PROVE  PhaseInv'
<1>0. /\ m \in Requests /\ m \notin Uploads
      /\ pc \in [Requests -> {"idle", "body", "stopWrite", "writing", "pipeline",
                              "closing"} \union Outcomes]
  BY RequestsAreDistinct DEF RequestsAreDistinct, TypeOK, RequestTypeOK, Requests
<1>1. CASE ManualStarts(m)
  <2>1. CommitNext(m) /\ claim' = m /\ claim = NoOne
    BY <1>1 DEF ManualStarts, CanClaim, Unclaimed
  <2> QED BY <1>0, <2>1, AdvanceKeepsPhase
<1>2. CASE ManualContinues(m)
  <2>1. CommitNext(m) /\ claim' = claim /\ pc[m] = "writing"
    BY <1>2 DEF ManualContinues
  <2>2. claim = m
    BY <1>0, <2>1 DEF OwnerInv, RunnerHoldsClaim, Running
  <2> QED BY <1>0, <2>1, <2>2, AdvanceKeepsPhase
<1>3. CASE ManualRefused(m) \/ ManualStopped(m) \/ ManualNotWritten(m) \/ ManualAnswered(m)
  <2>1. /\ written' = written /\ UNCHANGED sessionVars
        /\ \E place \in Outcomes : pc' = [pc EXCEPT ![m] = place]
    BY <1>3 DEF ManualRefused, ManualStopped, ManualNotWritten, ManualAnswered, End, Outcomes
  <2>2. \A r \in Requests : pc'[r] \in Before => pc[r] \in Before
    BY <1>0, <2>1 DEF Before, Outcomes
  <2>3. Bystands
    BY <2>1, <2>2 DEF Bystands, sessionVars
  <2> QED BY <2>3, BystandersKeepPhase
<1> QED BY <1>1, <1>2, <1>3 DEF Manual, ManualRun

LEMMA OthersKeepPhase ==
  ASSUME TypeOK, PhaseInv, Outside \/ Clock \/ Speech \/ UNCHANGED vars
  PROVE  PhaseInv'
<1>1. /\ written' = written /\ pc' = pc /\ claim' = claim
  BY DEF Outside, DeviceStarts, DeviceStops, DeviceFails, OperatorStarts,
         OperatorStops, OperatorSilences, OperatorEnds, OutputReplaced, Clock,
         DeadlinePasses, DeadlineFires, Speech, SpeechStarts, SpeechNeverStarts,
         SpeechPlays, SpeechEnds, SpeechOnly, sessionVars, requestVars, vars
<1>2. CASE \/ DeviceStarts \/ OperatorStarts \/ DeviceStops \/ OperatorStops
           \/ OperatorSilences
  <2>1. \E type \in {"recording_started", "recording_stopped", "session_silence"} :
          Commit(type, NoOne) /\ CanAcceptExternal(status, type)
    BY <1>2 DEF DeviceStarts, OperatorStarts, DeviceStops, OperatorStops, OperatorSilences
  <2>2. Bystands
    BY <1>1, <2>1, ExternalBystands DEF Bystands
  <2> QED BY <2>2, BystandersKeepPhase
<1>3. CASE DeviceFails \/ \E type \in EventTypes : OperatorEnds(type)
  <2>1. \E type \in {"session_error", "session_reset"} : Commit(type, NoOne)
    BY <1>3 DEF DeviceFails, OperatorEnds
  <2>2. Bystands
    BY <1>1, <2>1, SealBystands DEF Bystands
  <2> QED BY <2>2, BystandersKeepPhase
<1>4. CASE DeadlineFires
  <2>1. Bystands
    BY <1>1, <1>4, ExpiryBystands DEF DeadlineFires, Bystands
  <2> QED BY <2>1, BystandersKeepPhase
<1>5. CASE Speech
  <2>1. \/ log' = log /\ status' = status
        \/ \E type \in {"tts_started", "tts_finished"} : Commit(type, NoOne)
    BY <1>5 DEF Speech, SpeechStarts, SpeechNeverStarts, SpeechPlays, SpeechEnds
  <2>2. Bystands
    BY <1>1, <2>1, SpeechBystands DEF Bystands
  <2> QED BY <2>2, BystandersKeepPhase
<1>6. CASE OutputReplaced \/ DeadlinePasses \/ UNCHANGED vars
  <2>1. Bystands
    BY <1>1, <1>6 DEF OutputReplaced, DeadlinePasses, vars, sessionVars, Bystands
  <2> QED BY <2>1, BystandersKeepPhase
<1> QED BY <1>2, <1>3, <1>4, <1>5, <1>6 DEF Outside, Clock

LEMMA InitPhase == Init => PhaseInv
<1> SUFFICES ASSUME Init PROVE PhaseInv
  OBVIOUS
<1>1. \A r \in Requests : written[r] = 0
  BY DEF Init
<1>2. ~HasResult
  BY DEF Init, HasResult, Logged
<1>3. AnalysisUpTo(log, Len(log)) = {} /\ claim = NoOne
  BY DEF Init, AnalysisUpTo, AnalysisEvents
<1>4. ReadingInv
  BY <1>3, RequestsAreDistinct, FS_EmptySet DEF RequestsAreDistinct, ReadingInv, OneReading
<1> QED BY <1>1, <1>2, <1>4 DEF PhaseInv, Requests

LEMMA StepKeepsPhase ==
  TypeOK /\ OwnerInv /\ LeaseInv /\ SealInv /\ PhaseInv /\ [Next]_vars => PhaseInv'
BY UploadKeepsPhase, AudioRunKeepsPhase, ManualKeepsPhase, OthersKeepPhase DEF Next

\* The check before a commit is all an audio run needs: the store never refuses
\* what it lets through, whoever else writes to the attempt.
THEOREM CommitCheckSuffices == Spec => []CheckedCommitsAreLegal
<1>1. TypeOK /\ LeaseInv /\ SealInv /\ PhaseInv => CheckedCommitsAreLegal
  <2> SUFFICES ASSUME TypeOK, LeaseInv, SealInv, PhaseInv, NEW u \in Uploads,
                      (pc[u] = "writing" /\ ~Finished(u)) \/ pc[u] = "pipeline",
                      MayCommit(u)
               PROVE  MayFollow(NextOf(u))
    BY DEF CheckedCommitsAreLegal
  <2>1. /\ RequestTypeOK /\ u \in Requests /\ written[u] \in Nat
        /\ PlanLength(u) \in Nat /\ PlanLength(u) > 5
    BY PreludeLengths DEF TypeOK, RequestTypeOK, Requests
  <2>2. written[u] # 0 /\ ~Finished(u)
    BY <2>1 DEF LeaseInv, LeaseOf, SealInv, PlanPosition, Finished
  <2>3. status = Phase(u)
    BY <2>2 DEF MayCommit, AllowsCommit, PhaseInv
  <2>4. ~HasResult
    BY <2>1, <2>2 DEF PhaseInv
  <2>5. CanApply(status, NextOf(u))
    <3>1. CASE written[u] < 4
      <4>1. NextOf(u) \in {"audio_normalized", "audio_transcribed", "audio_features"}
        BY <2>1, <2>2, <3>1, AudioPlan
      <4>2. status = "processing"
        BY <2>1, <2>2, <2>3, <3>1 DEF Phase
      <4> QED BY <4>1, <4>2 DEF CanApply, OrdinaryEvents, AcceptedIn
    <3>2. CASE written[u] = 4
      <4>1. NextOf(u) = "reading_started"
        BY <2>1, <2>2, <3>2, AudioPlan
      <4> QED BY <2>3, <3>2, <4>1 DEF Phase, CanApply, OrdinaryEvents, AcceptedIn
    <3>3. CASE written[u] > 4
      <4>1. NextOf(u) \in {"channel_resolved", "session_result"}
        BY <2>1, <2>2, <3>3, AudioPlan
      <4>2. status = "reading"
        BY <2>1, <2>3, <3>3 DEF Phase
      <4> QED BY <4>1, <4>2 DEF CanApply, OrdinaryEvents, AcceptedIn
    <3> QED BY <2>1, <3>1, <3>2, <3>3
  <2>6. NextOf(u) \in AnalysisEvents
    BY <2>1, <2>2, NextIsTyped
  <2> QED BY <2>4, <2>5, <2>6 DEF MayFollow, EventMayFollow, HasResult, AnalysisEvents
<1> QED BY <1>1, StepKeepsPhase, InitTypeOK, StepTypeOK, InitSeal, StepSeals, InitOwner,
        StepKeepsOwner, InitLease, StepKeepsLease, InitPhase, PTL DEF Spec

\* However uploads, transcripts, operators, devices and the deadline race, the analysis
\* in an attempt's log is the beginning of one request's plan, without gap or repetition.
THEOREM LogIsOneReading == Spec => []OneReading
<1>1. PhaseInv => OneReading
  BY DEF PhaseInv, ReadingInv
<1> QED BY <1>1, StepKeepsPhase, InitTypeOK, StepTypeOK, InitSeal, StepSeals, InitOwner,
        StepKeepsOwner, InitLease, StepKeepsLease, InitPhase, PTL DEF Spec
=============================================================================
