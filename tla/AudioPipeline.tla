---------------------------- MODULE AudioPipeline ----------------------------
(***************************************************************************)
(* runAudioPipeline with the speech provider it calls.  A job's audio is   *)
(* normalized by a program into a temporary directory; its features and    *)
(* its transcript are then taken from there at the same time, and it is    *)
(* read.  The job holds one of the admission's slots and its directory     *)
(* until what it has started has settled.                                  *)
(*                                                                         *)
(* The transcript comes from the one configured provider: the worker of    *)
(* PersistentSttWorker, which all jobs and the readiness probe share, a    *)
(* program of their own ("process"), or a request to a server ("fetch"),   *)
(* a self-hosted or, with consent, a remote one.                           *)
(* The programs are those of ProcessRun.                                   *)
(*                                                                         *)
(* As in PersistentSttWorker, continuations run before the next event.     *)
(***************************************************************************)
EXTENDS PersistentSttWorker

CONSTANT Cancellable   \* a bound: the requests whose attempt may be cancelled

ASSUME CancellableAreRequests == Cancellable \subseteq Requests

Jobs == Requests

VARIABLES
  provider,   \* the configured one
  stage,      \* how far each job is
  features,   \* each job's features branch
  stt,        \* each job's transcript branch: transcribeAudio
  fetching,   \* how far each job's request to a server is
  aborted,    \* jobs whose attempt has been cancelled
  dirs,       \* jobs whose temporary directory exists
  slots,      \* jobs that hold a slot
  run         \* the programs

Normalizer(j)  == <<"ffmpeg", j>>
Transcriber(j) == <<"whisper", j>>

Programs == {"ffmpeg", "whisper"} \X Jobs

Program == INSTANCE ProcessRun WITH
  Runs  <- Programs,
  Timed <- {"ffmpeg"} \X Jobs,
  Fed   <- {}

jobVars == <<provider, stage, features, stt, fetching, aborted, dirs, slots>>
pipelineVars == <<vars, jobVars, run>>

\* "cleaning": the directory is to go, with nothing to wait for; "owing": when the
\* provider has settled, after a failure or after the result was returned.
Stages == {"idle", "writing", "normalizing", "measuring", "branching",
           "owing", "cleaning", "over"}
FeatureStates == {"none", "reading", "ready", "failed", "threw"}

\* The audio is read from its file before it is sent.
FetchStates == {"none", "reading", "sent"}

\* "racing": the provider against the deadline's signal; "settling": cancelled, and
\* waiting for the provider; "returned": a transcript, or that there is none.
SttStates == {"none", "racing", "settling", "returned", "threw"}

PipelineInit ==
  /\ Init
  /\ provider \in {"worker", "process", "fetch"}
  /\ stage = [j \in Jobs |-> "idle"]
  /\ features = [j \in Jobs |-> "none"]
  /\ stt = [j \in Jobs |-> "none"]
  /\ fetching = [j \in Jobs |-> "none"]
  /\ aborted = {} /\ dirs = {} /\ slots = {}
  /\ Program!Init

-----------------------------------------------------------------------------
(* The provider of a job.                                                   *)

\* providerWork has not settled, whoever still waits for it.
ProviderBusy(j) ==
  \/ request[j] \in {"waiting", "sent"}
  \/ Program!Pending(Transcriber(j))
  \/ fetching[j] # "none"

\* The shared worker is asked, and starts if it is not there.
AsksWorker(j) ==
  /\ provider = "worker"
  /\ Transcribe(j)
  /\ UNCHANGED <<fetching, run>>

\* whisper.cpp is run on the normalized file.
RunsWhisper(j) ==
  /\ provider = "process"
  /\ \E p \in Program!Called(j \in aborted) : Program!Becomes(Transcriber(j), p)
  /\ UNCHANGED <<vars, fetching>>

\* The body of a request to a server is read, a self-hosted or, when the upload came
\* with a consent to it, a remote one.
AsksServer(j) ==
  /\ provider = "fetch"
  /\ fetching' = [fetching EXCEPT ![j] = "reading"]
  /\ UNCHANGED <<vars, run>>

\* A provider that is not configured, or that has no consent, says so at once.
Refuses == UNCHANGED <<vars, fetching, run>>

ProviderStarts(j) == AsksWorker(j) \/ RunsWhisper(j) \/ AsksServer(j) \/ Refuses

\* The deadline's signal aborts: the provider hears of it, and need not obey.
ProviderIsCut(j, runs) ==
  /\ run' = [runs EXCEPT ![Transcriber(j)] = Program!Aborted(@)]
  /\ IF request[j] \in {"waiting", "sent"} THEN Abort(j) ELSE UNCHANGED vars

-----------------------------------------------------------------------------
(* Continuations.                                                           *)

NormalizerDone(j) == stage[j] = "normalizing" /\ Program!Settled(Normalizer(j))
ProviderDone(j)   == stt[j] \in {"racing", "settling"} /\ ~ProviderBusy(j)
BranchThrew(j)    == "threw" \in {features[j], stt[j]}
BothDone(j)       == features[j] \in {"ready", "failed"} /\ stt[j] = "returned"

Due(j) ==
  \/ NormalizerDone(j)
  \/ ProviderDone(j)
  \/ stage[j] = "branching" /\ (BranchThrew(j) \/ BothDone(j))
  \/ stage[j] = "owing" /\ ~ProviderBusy(j)

PipelineEvent == Event /\ \A j \in Jobs : ~Due(j)

GoesTo(j, next) == stage' = [stage EXCEPT ![j] = next]

OnlyStage(j, next) ==
  /\ GoesTo(j, next)
  /\ UNCHANGED <<vars, provider, features, stt, fetching, aborted, dirs, slots, run>>

-----------------------------------------------------------------------------
(* Normalization.                                                           *)

\* The handler has a slot and starts the pipeline, which makes its directory and
\* writes the upload into it.
RunPipeline(j) ==
  /\ PipelineEvent /\ ~shut
  /\ stage[j] = "idle" /\ j \notin aborted
  /\ GoesTo(j, "writing")
  /\ slots' = slots \union {j} /\ dirs' = dirs \union {j}
  /\ UNCHANGED <<vars, provider, features, stt, fetching, aborted, run>>

\* normalizeAudio: the program gets a timeout and the attempt's signal.
NormalizerCalled(j) ==
  \E p \in Program!Called(j \in aborted) : Program!Becomes(Normalizer(j), p)

\* The upload is in its file: the normalizer is started, for an attempt that is
\* not cancelled.
InputWritten(j) ==
  /\ PipelineEvent /\ stage[j] = "writing"
  /\ GoesTo(j, "normalizing")
  /\ NormalizerCalled(j)
  /\ UNCHANGED <<vars, provider, features, stt, fetching, aborted, dirs, slots>>

InputNotWritten(j) ==
  /\ PipelineEvent /\ stage[j] = "writing"
  /\ OnlyStage(j, "cleaning")

NormalizerAwaited(j) ==
  /\ NormalizerDone(j)
  /\ GoesTo(j, IF run[Normalizer(j)].promise = "resolved" THEN "measuring" ELSE "cleaning")
  /\ Program!Forgets(Normalizer(j))
  /\ UNCHANGED <<vars, provider, features, stt, fetching, aborted, dirs, slots>>

\* There is a final of the streaming scheduler, or no time is left for STT.
NeedsNoProvider(j) ==
  /\ stt' = [stt EXCEPT ![j] = "returned"]
  /\ UNCHANGED <<vars, fetching, run>>

\* The normalized audio is of a size that can be analysed: both branches start.
Branches(j) ==
  /\ PipelineEvent /\ stage[j] = "measuring" /\ j \notin aborted
  /\ GoesTo(j, "branching")
  /\ features' = [features EXCEPT ![j] = "reading"]
  /\ \/ stt' = [stt EXCEPT ![j] = "racing"] /\ ProviderStarts(j)
     \/ NeedsNoProvider(j)
  /\ UNCHANGED <<provider, aborted, dirs, slots>>

BadNormalization(j) ==
  /\ PipelineEvent /\ stage[j] = "measuring"
  /\ OnlyStage(j, "cleaning")

-----------------------------------------------------------------------------
(* The branches.                                                            *)

\* The file is read and analysed; a branch that finds its attempt cancelled throws.
FeaturesTaken(j) ==
  /\ PipelineEvent /\ features[j] = "reading"
  /\ \E outcome \in (IF j \in aborted THEN {"threw"} ELSE {"ready", "failed"}) :
       features' = [features EXCEPT ![j] = outcome]
  /\ UNCHANGED <<vars, provider, stage, stt, fetching, aborted, dirs, slots, run>>

\* transcribeAudio returns what the provider said, or that it failed or was late.
ProviderAwaited(j) ==
  /\ ProviderDone(j)
  /\ stt' = [stt EXCEPT ![j] = IF @ = "racing" THEN "returned" ELSE "threw"]
  /\ Program!Forgets(Transcriber(j))
  /\ UNCHANGED <<vars, provider, stage, features, fetching, aborted, dirs, slots>>

IsCut(j) == stt[j] \in {"settling", "returned", "threw"}

\* The audio has been read, or is gone: it is sent, unless the signal has aborted.
FetchSends(j) ==
  /\ PipelineEvent /\ fetching[j] = "reading"
  /\ \E next \in (IF IsCut(j) THEN {"none"} ELSE {"none", "sent"}) :
       fetching' = [fetching EXCEPT ![j] = next]
  /\ UNCHANGED <<vars, provider, stage, features, stt, aborted, dirs, slots, run>>

\* The server answers with a transcript or an error, or the request was aborted.
FetchSettles(j) ==
  /\ PipelineEvent /\ fetching[j] = "sent"
  /\ fetching' = [fetching EXCEPT ![j] = "none"]
  /\ UNCHANGED <<vars, provider, stage, features, stt, aborted, dirs, slots, run>>

\* The transcript is late: the job goes on without it.
SttDeadline(j) ==
  /\ PipelineEvent /\ stt[j] = "racing"
  /\ stt' = [stt EXCEPT ![j] = "returned"]
  /\ ProviderIsCut(j, run)
  /\ UNCHANGED <<provider, stage, features, fetching, aborted, dirs, slots>>

Cancel_MissesProvider(j) ==
  /\ PipelineEvent /\ j \in Cancellable \ aborted /\ stage[j] \notin {"idle", "over"}
  /\ aborted' = aborted \union {j}
  /\ stt' = [stt EXCEPT ![j] = IF @ = "racing" THEN "settling" ELSE @]
  /\ run' = [run EXCEPT ![Normalizer(j)] = Program!Aborted(@)]
  /\ UNCHANGED <<vars, provider, stage, features, fetching, dirs, slots>>

\* A reset, a failure or the attempt's deadline aborts the work's signal, and with
\* it every signal derived from it.
Cancel(j) ==
  /\ PipelineEvent /\ j \in Cancellable \ aborted /\ stage[j] \notin {"idle", "over"}
  /\ aborted' = aborted \union {j}
  /\ stt' = [stt EXCEPT ![j] = IF @ = "racing" THEN "settling" ELSE @]
  /\ LET runs == [run EXCEPT ![Normalizer(j)] = Program!Aborted(@)] IN
     IF stt[j] = "racing"
     THEN ProviderIsCut(j, runs)
     ELSE run' = runs /\ UNCHANGED vars
  /\ UNCHANGED <<provider, stage, features, fetching, dirs, slots>>

-----------------------------------------------------------------------------
(* The end.                                                                 *)

\* Promise.all rejects with the first branch that throws, whatever the other one
\* is doing: the provider's settlement is not known here yet.
BranchesReject(j) ==
  /\ stage[j] = "branching" /\ BranchThrew(j)
  /\ OnlyStage(j, "cleaning")

BranchesResolve_Forgets(j) ==
  /\ stage[j] = "branching" /\ BothDone(j)
  /\ OnlyStage(j, "cleaning")

\* Features that failed fail the job, and the settlement is not awaited either.
\* Else the transcript is enhanced and read, without another await: the result is
\* returned, or that fails.  Both leave what the provider may still use.
BranchesResolve(j) ==
  /\ stage[j] = "branching" /\ BothDone(j)
  /\ OnlyStage(j, IF features[j] = "failed" THEN "cleaning" ELSE "owing")

ProviderSettled(j) ==
  /\ stage[j] = "owing" /\ ~ProviderBusy(j)
  /\ OnlyStage(j, "cleaning")

\* The directory is gone, and the slot with it.
Cleaned(j) ==
  /\ PipelineEvent /\ stage[j] = "cleaning"
  /\ GoesTo(j, "over")
  /\ dirs' = dirs \ {j} /\ slots' = slots \ {j}
  /\ UNCHANGED <<vars, provider, features, stt, fetching, aborted, run>>

-----------------------------------------------------------------------------
(* The probe, the worker, the programs.                                      *)

\* A readiness check waits for the worker, if that is the provider.
Health(p) ==
  /\ PipelineEvent /\ provider = "worker"
  /\ Probe(p)
  /\ UNCHANGED <<jobVars, run>>

\* The server has aborted all work before it stops the worker.
StopWorker ==
  /\ PipelineEvent /\ Stop
  /\ UNCHANGED <<jobVars, run>>

WorkerEvent ==
  /\ \A j \in Jobs : ~Due(j)
  /\ \/ \E r \in Requests : Answer(r) \/ BadAnswer(r)
     \/ Close \/ ReadyMessage \/ BadMessage \/ StartupTimeout
  /\ UNCHANGED <<jobVars, run>>

Resumes(c) == Resume(c) /\ UNCHANGED <<jobVars, run>>

ProgramEvent(r) ==
  /\ PipelineEvent /\ Program!RunEvent(r)
  /\ UNCHANGED <<vars, jobVars>>

Continues(j) ==
  \/ NormalizerAwaited(j) \/ ProviderAwaited(j)
  \/ BranchesReject(j) \/ BranchesResolve(j) \/ ProviderSettled(j)

FileEvent(j) ==
  \/ InputWritten(j) \/ InputNotWritten(j)
  \/ Branches(j) \/ BadNormalization(j) \/ FeaturesTaken(j) \/ FetchSends(j) \/ Cleaned(j)

PipelineNext ==
  \/ \E j \in Jobs : RunPipeline(j) \/ FileEvent(j) \/ Continues(j)
                       \/ FetchSettles(j) \/ SttDeadline(j) \/ Cancel(j)
  \/ \E p \in Probes : Health(p)
  \/ \E c \in Callers : Resumes(c)
  \/ StopWorker \/ WorkerEvent
  \/ \E r \in Programs : ProgramEvent(r)

\* What is owed: promises go on, files are read and written, timers fire, a program
\* that is killed exits, a worker told to stop closes, and a request to a server
\* settles once it was aborted.  Nobody owes an answer.
Owed ==
  \/ \E j \in Jobs : \/ FileEvent(j) \/ Continues(j) \/ SttDeadline(j)
                     \/ IsCut(j) /\ FetchSettles(j)
  \/ \E r \in Programs : ProgramEvent(r) /\ Program!OwedEvent(r)
  \/ \E c \in Callers : Resumes(c)
  \/ WorkerEvent /\ (StartupTimeout \/ (stopping # "no" /\ Close))

\* The event loop does not rest while anything is owed.  Every job takes finitely
\* many steps, so none of them can keep another waiting for ever.
PipelineFairness == WF_pipelineVars(Owed)

PipelineSpec == PipelineInit /\ [][PipelineNext]_pipelineVars /\ PipelineFairness

-----------------------------------------------------------------------------
(* Properties.                                                              *)

ProgramAtWork(j) == Program!Alive(Normalizer(j)) \/ Program!Alive(Transcriber(j))

\* What a job has at work: a provider that has not settled, a program, or the
\* worker's process, which has its file until it answers or is gone.
Working(j) == ProviderBusy(j) \/ ProgramAtWork(j) \/ j \in serving

\* All that is left of a job's work is a worker's process that is told to stop.
OnlyBeingStopped(j) == stopping # "no" /\ ~ProviderBusy(j) /\ ~ProgramAtWork(j)

\* A job keeps its slot and its directory for as long as it has anything at work,
\* through timeouts, cancellations and programs that do not obey.  The exceptions
\* are what the code does: features that throw reject Promise.all, and features
\* that fail end the job, before the provider's settlement is known; and a request
\* that the worker's termination rejects is settled before its process is gone.
SlotOutlastsWork ==
  \A j \in Jobs :
    Working(j) => \/ j \in slots \intersect dirs
                  \/ features[j] \in {"threw", "failed"}
                  \/ OnlyBeingStopped(j)

AtRest(j) == stage[j] \in {"idle", "over"} /\ j \notin slots \union dirs /\ ~Working(j)

\* Everything comes to rest: every job ends and leaves no slot, directory, provider
\* or program behind, whatever its programs ignore and whenever it is cancelled,
\* and no call of start() waits for ever.
EverythingRests ==
  []<>(/\ \A j \in Jobs : AtRest(j)
       /\ \A c \in Callers : call[c] \notin {"starting", "stopping"})
=============================================================================
