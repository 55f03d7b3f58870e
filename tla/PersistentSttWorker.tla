------------------------- MODULE PersistentSttWorker -------------------------
(***************************************************************************)
(* One local speech worker process with one loaded model, shared by every  *)
(* transcription and by the readiness probes.  It is killed whenever a     *)
(* request is cancelled, and launched again by the next one.               *)
(*                                                                         *)
(* The continuations of promises run before the next event, but a chunk of *)
(* the worker's output may hold several messages and they are all handled  *)
(* first: an Event waits for every continuation, a message does not.       *)
(***************************************************************************)
EXTENDS Naturals, FiniteSets

CONSTANTS
  Requests,    \* transcriptions, each with its abort signal
  Probes,      \* readiness probes, which have none
  MaxPending   \* requests the worker may hold at once

ASSUME CallersAreDistinct == Requests \intersect Probes = {} /\ IsFiniteSet(Requests)
ASSUME MaxPendingIsPositive == MaxPending \in Nat \ {0}

Callers == Requests \union Probes

VARIABLES
  snapshot,  \* "not_started", "starting", "ready", "stopped" or "failed"
  child,     \* the worker object holds a process
  alive,     \* processes launched and not yet gone
  stopping,  \* stopState: "no", or the snapshot it will leave
  startup,   \* startupPromise: "none", "pending", "resolved" or "rejected"
  call,      \* each caller's call of start()
  request,   \* each request, as its transcription sees it
  serving,   \* requests the process has got and not answered: their files are its
  shut       \* stop() was called, and nothing asks for this worker any more

processVars == <<snapshot, child, alive, stopping, startup>>
vars == <<processVars, call, request, serving, shut>>

Pending == {r \in Requests : request[r] = "sent"}

Init ==
  /\ snapshot = "not_started" /\ child = FALSE /\ alive = 0
  /\ stopping = "no" /\ startup = "none"
  /\ call = [c \in Callers |-> "none"]
  /\ request = [r \in Requests |-> "new"]
  /\ serving = {}
  /\ shut = FALSE

\* No continuation is due: none awaits a stop or a startup that has settled.
Event == \A c \in Callers : call[c] \notin {"stopped", "ready"}

\* A message is read, perhaps right behind the one that made the worker ready.
Message == child /\ \A c \in Callers : call[c] # "stopped"

-----------------------------------------------------------------------------
(* Ending a process.                                                        *)

\* Rejecting the startup fails the calls that await it, and their requests.
RejectStartup(calls) ==
  [c \in Callers |-> IF calls[c] = "starting" THEN "failed" ELSE calls[c]]

RejectAll(calls, requests) ==
  [r \in Requests |->
     IF requests[r] = "sent" \/ (requests[r] = "waiting" /\ calls[r] = "starting")
     THEN "failed" ELSE requests[r]]

Terminate_Forgets(kind, calls, requests) ==
  /\ call' = RejectStartup(calls)
  /\ request' = RejectAll(calls, requests)
  /\ snapshot' = kind /\ startup' = "none" /\ child' = FALSE
  /\ UNCHANGED <<alive, stopping>>

\* terminate(): kill the process, and tell everyone who waits for it.  What was
\* pending is told at once; the process may take its time, and until it is gone it
\* may be at work on what it was sent.
Terminate(kind, calls, requests) ==
  IF stopping # "no"
  THEN call' = calls /\ request' = requests /\ UNCHANGED processVars
  ELSE /\ call' = RejectStartup(calls)
       /\ request' = RejectAll(calls, requests)
       /\ IF child
          THEN /\ stopping' = kind
               /\ startup' = IF startup = "pending" THEN "rejected" ELSE startup
               /\ UNCHANGED <<snapshot, child, alive>>
          ELSE /\ snapshot' = kind /\ startup' = "none"
               /\ UNCHANGED <<child, alive, stopping>>

Fail == Terminate("failed", call, request) /\ UNCHANGED <<serving, shut>>

\* Resolving the stop lets the calls that await it go on.
StopResolved(calls) ==
  [c \in Callers |-> IF calls[c] = "stopping" THEN "stopped" ELSE calls[c]]

Closed ==
  /\ child' = FALSE /\ alive' = alive - 1
  /\ startup' = "none" /\ stopping' = "no"
  /\ snapshot' = IF stopping = "no" THEN "failed" ELSE stopping

Close_KeepsPending ==
  /\ child /\ Event
  /\ Closed
  /\ call' = StopResolved(RejectStartup(call))
  /\ serving' = {}
  /\ UNCHANGED <<request, shut>>

\* 'close': the process is gone and its output is read to the end.
Close ==
  /\ child /\ Event
  /\ Closed
  /\ call' = StopResolved(RejectStartup(call))
  /\ request' = RejectAll(call, request)
  /\ serving' = {}
  /\ UNCHANGED shut

-----------------------------------------------------------------------------
(* start().                                                                 *)

Launch ==
  /\ snapshot' = "starting" /\ startup' = "pending"
  /\ child' = TRUE /\ alive' = alive + 1
  /\ UNCHANGED stopping

Arrives(c, at) == call' = [call EXCEPT ![c] = at]

\* Once nothing is stopping: the worker is ready, or becomes so, or is launched.
Continue(c) ==
  \/ snapshot = "ready" /\ Arrives(c, "ready") /\ UNCHANGED processVars
  \/ /\ snapshot # "ready" /\ startup # "none"
     /\ Arrives(c, "starting") /\ UNCHANGED processVars
  \/ /\ snapshot # "ready" /\ startup = "none"
     /\ Launch /\ Arrives(c, "starting")

Start(c) ==
  \/ stopping # "no" /\ Arrives(c, "stopping") /\ UNCHANGED processVars
  \/ stopping = "no" /\ Continue(c)

Transcribe(r) ==
  /\ Event /\ ~shut
  /\ request[r] = "new"
  /\ Start(r)
  /\ request' = [request EXCEPT ![r] = "waiting"]
  /\ UNCHANGED <<serving, shut>>

Probe(p) ==
  /\ Event /\ ~shut
  /\ call[p] = "none"
  /\ Start(p)
  /\ UNCHANGED <<request, serving, shut>>

\* The stop is over.  Whether anyone still wants the worker is not asked again.
StopAwaited(c) ==
  /\ call[c] = "stopped"
  /\ Continue(c)
  /\ UNCHANGED <<request, serving, shut>>

\* A probe, or a request that is over, has no use for a worker that is ready.
StartAwaited(c) ==
  /\ call[c] = "ready"
  /\ c \in Requests => request[c] # "waiting"
  /\ Arrives(c, "done")
  /\ UNCHANGED <<processVars, request, serving, shut>>

-----------------------------------------------------------------------------
(* The rest of a transcription.                                             *)

\* Whether the process it writes to has been told to stop is not asked.
Accepts == Cardinality(Pending) < MaxPending /\ child /\ snapshot = "ready"

Send(r) ==
  /\ call[r] = "ready" /\ request[r] = "waiting" /\ Accepts
  /\ Arrives(r, "done")
  /\ request' = [request EXCEPT ![r] = "sent"]
  /\ serving' = serving \union {r}
  /\ UNCHANGED <<processVars, shut>>

\* The queue is full, or the worker is gone again.
Refuse(r) ==
  /\ call[r] = "ready" /\ request[r] = "waiting" /\ ~Accepts
  /\ Arrives(r, "done")
  /\ request' = [request EXCEPT ![r] = "refused"]
  /\ UNCHANGED <<processVars, serving, shut>>

\* The request cannot be written.
SendFails(r) ==
  /\ call[r] = "ready" /\ request[r] = "waiting" /\ Accepts
  /\ Terminate("failed", [call EXCEPT ![r] = "done"], [request EXCEPT ![r] = "failed"])
  /\ UNCHANGED <<serving, shut>>

\* The attempt's work is cancelled or its time is up: the request is over at
\* once and the process is told to stop, which nobody waits for.  Its call of
\* start() goes on without it.
Abort(r) ==
  /\ Event
  /\ request[r] \in {"waiting", "sent"}
  /\ Terminate("stopped", call, [request EXCEPT ![r] = "aborted"])
  /\ UNCHANGED <<serving, shut>>

\* stop(), at shutdown: every request's signal was aborted before.
Stop ==
  /\ Event /\ ~shut
  /\ \A r \in Requests : request[r] \notin {"waiting", "sent"}
  /\ Terminate("stopped", call, request)
  /\ shut' = TRUE
  /\ UNCHANGED serving

-----------------------------------------------------------------------------
(* What the process does.                                                   *)

ReadyMessage ==
  /\ Message
  /\ IF snapshot = "starting"
     THEN /\ snapshot' = "ready"
          /\ startup' = IF startup = "pending" THEN "resolved" ELSE startup
          /\ call' = [c \in Callers |-> IF call[c] = "starting" THEN "ready" ELSE call[c]]
          /\ UNCHANGED <<child, alive, stopping, request, serving, shut>>
     ELSE Fail

\* A startup error, an invalid readiness, a line that is no message, too much
\* output, or an error of the process or of its input.
BadMessage == Message /\ Fail

\* An answer to a request that is no longer pending is dropped.
Answer(r) ==
  /\ Message /\ r \in serving
  /\ serving' = serving \ {r}
  /\ IF r \in Pending
     THEN \E outcome \in {"answered", "failed"} :
            request' = [request EXCEPT ![r] = outcome]
     ELSE request' = request
  /\ UNCHANGED <<processVars, call, shut>>

\* An answer that makes no sense fails its request and the process.
BadAnswer(r) ==
  /\ Message /\ r \in Pending
  /\ Terminate("failed", call, [request EXCEPT ![r] = "failed"])
  /\ serving' = serving \ {r}
  /\ UNCHANGED shut

\* The worker is not ready in time, whoever it was launched for.
StartupTimeout ==
  /\ Event
  /\ child /\ snapshot = "starting"
  /\ Fail

-----------------------------------------------------------------------------
Resume(c) ==
  \/ StopAwaited(c) \/ StartAwaited(c)
  \/ c \in Requests /\ (Send(c) \/ Refuse(c) \/ SendFails(c))

Next ==
  \/ \E r \in Requests : Transcribe(r) \/ Abort(r) \/ Answer(r) \/ BadAnswer(r)
  \/ \E c \in Callers : Resume(c)
  \/ \E p \in Probes : Probe(p)
  \/ Stop \/ Close
  \/ ReadyMessage \/ BadMessage \/ StartupTimeout

\* Promises go on, a process told to stop is killed and closes, and one that
\* does not become ready times out.  Requests need not be aborted or answered.
Fairness ==
  /\ \A c \in Callers : WF_vars(Resume(c))
  /\ WF_vars(stopping # "no" /\ Close)
  /\ WF_vars(StartupTimeout)

Spec == Init /\ [][Next]_vars /\ Fairness

-----------------------------------------------------------------------------
\* Every variable keeps its type.
TypeOK ==
  /\ snapshot \in {"not_started", "starting", "ready", "stopped", "failed"}
  /\ child \in BOOLEAN /\ alive \in Nat
  /\ stopping \in {"no", "stopped", "failed"}
  /\ startup \in {"none", "pending", "resolved", "rejected"}
  /\ call \in [Callers -> {"none", "stopping", "stopped", "starting", "ready",
                           "done", "failed"}]
  /\ request \in [Requests -> {"new", "waiting", "sent", "answered", "failed",
                               "refused", "aborted"}]
  /\ serving \subseteq Requests
  /\ shut \in BOOLEAN

\* However aborts, failures and restarts overlap, the model is never loaded by
\* two processes at once.
OneModel == alive <= 1

\* Whoever waits, waits for something that will happen: a request was sent to a
\* process that is still there, a startup is under way, a stop is not over.
NobodyWaitsOnTheDead ==
  /\ Pending # {} => child
  /\ \A c \in Callers :
       /\ call[c] = "starting" => child /\ startup = "pending" /\ stopping = "no"
       /\ call[c] = "stopping" => stopping # "no"
=============================================================================
