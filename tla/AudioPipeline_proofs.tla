-------------------------- MODULE AudioPipeline_proofs --------------------------
(***************************************************************************)
(* At any number of transcriptions and probes, one process at most has the *)
(* model loaded, and nobody waits for a process or a stop that is over;    *)
(* and a job keeps its slot and its directory while it has work under way. *)
(*                                                                         *)
(* The argument for the worker: its promises tell the truth about its      *)
(* process.  While no stop is under way, an unsettled startup means a      *)
(* process that is starting and a settled one a process that is ready; and *)
(* calls whose stop is over go on before anything can stop it again.       *)
(* The pipeline takes the worker's steps, so the worker's theorems hold in *)
(* it.  The argument for a job: its provider is asked once, when its       *)
(* branches start, and what is at rest after that stays at rest.           *)
(***************************************************************************)
EXTENDS AudioPipeline, TLAPS

CallStates == {"none", "stopping", "stopped", "starting", "ready", "done", "failed"}
RequestStates == {"new", "waiting", "sent", "answered", "failed", "refused", "aborted"}

\* The promises agree with the process.
PromisesAreTrue ==
  /\ alive = IF child THEN 1 ELSE 0
  /\ ~child => startup = "none" /\ stopping = "no" /\ snapshot \notin {"starting", "ready"}
  /\ stopping # "no" => startup # "pending"
  /\ child /\ stopping = "no" =>
       \/ startup = "pending" /\ snapshot = "starting"
       \/ startup = "resolved" /\ snapshot = "ready"

\* So do the calls that wait on them.
WaitsAreTrue ==
  /\ \A c \in Callers : call[c] = "starting" => startup = "pending"
  /\ \A c \in Callers : call[c] = "stopping" => stopping # "no"
  /\ \A r \in Requests : request[r] = "sent" => child

\* A stop that just ended leaves a worker that is not ready.
StopsAreOver ==
  \A c \in Callers : call[c] = "stopped" =>
    stopping = "no" /\ snapshot # "ready" /\ \A d \in Callers : call[d] # "ready"

IInv == TypeOK /\ PromisesAreTrue /\ WaitsAreTrue /\ StopsAreOver

-----------------------------------------------------------------------------
\* The worker's words keep their types when its callers are told of an end.
LEMMA RejectionTypes ==
  ASSUME NEW calls \in [Callers -> CallStates],
         NEW requests \in [Requests -> RequestStates]
  PROVE  /\ RejectStartup(calls) \in [Callers -> CallStates]
         /\ RejectAll(calls, requests) \in [Requests -> RequestStates]
         /\ StopResolved(calls) \in [Callers -> CallStates]
  BY DEF RejectStartup, RejectAll, StopResolved, CallStates, RequestStates, Callers

\* terminate() keeps the promises true, when no call is about to go on after a
\* stop and the callers it was handed are the ones there are, or gone.
LEMMA TerminateKeeps ==
  ASSUME IInv,
         NEW kind \in {"stopped", "failed"},
         NEW calls \in [Callers -> CallStates],
         NEW requests \in [Requests -> RequestStates],
         \A c \in Callers : calls[c] = call[c] \/ calls[c] = "done",
         \A c \in Callers : call[c] # "stopped",
         \A r \in Requests : requests[r] = "sent" => request[r] = "sent",
         Terminate(kind, calls, requests),
         serving' \subseteq serving, shut' \in BOOLEAN
  PROVE  IInv'
<1>1. CASE stopping # "no"
  <2>1. call' = calls /\ request' = requests /\ UNCHANGED processVars
    BY <1>1 DEF Terminate
  <2>2. TypeOK'
    BY <2>1 DEF IInv, TypeOK, processVars, CallStates, RequestStates
  <2>3. PromisesAreTrue'
    BY <2>1 DEF IInv, PromisesAreTrue, processVars
  <2>4. WaitsAreTrue' /\ StopsAreOver'
    BY <2>1 DEF IInv, WaitsAreTrue, StopsAreOver, processVars
  <2> QED BY <2>2, <2>3, <2>4 DEF IInv
<1>2. CASE stopping = "no"
  <2>1. /\ call' = RejectStartup(calls)
        /\ request' = RejectAll(calls, requests)
    BY <1>2 DEF Terminate
  <2>2. /\ call' \in [Callers -> CallStates]
        /\ request' \in [Requests -> RequestStates]
    BY <2>1, RejectionTypes
  <2>3. \A c \in Callers :
          /\ call'[c] # "starting" /\ call'[c] # "stopped"
          /\ call'[c] = "stopping" => call[c] = "stopping"
    BY <2>1 DEF RejectStartup
  <2>4. \A r \in Requests : request'[r] # "sent"
    BY <2>1 DEF RejectAll
  <2>5. CASE child
    <3>1. /\ stopping' = kind /\ child' = child /\ alive' = alive /\ snapshot' = snapshot
          /\ startup' = IF startup = "pending" THEN "rejected" ELSE startup
      BY <1>2, <2>5 DEF Terminate
    <3>2. TypeOK'
      BY <2>2, <3>1 DEF IInv, TypeOK, CallStates, RequestStates
    <3>3. PromisesAreTrue'
      BY <2>5, <3>1 DEF IInv, PromisesAreTrue
    <3>4. WaitsAreTrue' /\ StopsAreOver'
      BY <2>3, <2>4, <3>1 DEF WaitsAreTrue, StopsAreOver
    <3> QED BY <3>2, <3>3, <3>4 DEF IInv
  <2>6. CASE ~child
    <3>1. /\ snapshot' = kind /\ startup' = "none"
          /\ child' = child /\ alive' = alive /\ stopping' = stopping
      BY <1>2, <2>6 DEF Terminate
    <3>2. TypeOK'
      BY <2>2, <3>1 DEF IInv, TypeOK, CallStates, RequestStates
    <3>3. PromisesAreTrue'
      BY <2>6, <3>1 DEF IInv, PromisesAreTrue
    <3>4. WaitsAreTrue' /\ StopsAreOver'
      BY <1>2, <2>3, <2>4, <3>1 DEF IInv, WaitsAreTrue, StopsAreOver
    <3> QED BY <3>2, <3>3, <3>4 DEF IInv
  <2> QED BY <2>5, <2>6
<1> QED BY <1>1, <1>2

\* The same for the failures that change no caller first.
LEMMA FailKeeps ==
  ASSUME IInv, \A c \in Callers : call[c] # "stopped", Fail
  PROVE  IInv'
<1>1. call \in [Callers -> CallStates] /\ request \in [Requests -> RequestStates]
  BY DEF IInv, TypeOK, CallStates, RequestStates
<1>2. /\ serving' \subseteq serving /\ shut' \in BOOLEAN
      /\ Terminate("failed", call, request)
  BY DEF Fail, IInv, TypeOK
<1> QED BY <1>1, <1>2, TerminateKeeps

\* A call that goes on finds a worker that is ready, becomes so or is launched.
LEMMA ContinueKeeps ==
  ASSUME IInv, NEW c \in Callers, Continue(c), stopping = "no",
         request' \in [Requests -> RequestStates],
         \A r \in Requests : request'[r] = "sent" => request[r] = "sent",
         snapshot = "ready" => \A d \in Callers : call[d] # "stopped",
         UNCHANGED <<serving, shut>>
  PROVE  IInv'
<1>1. CASE snapshot = "ready"
  <2>1. /\ call' = [call EXCEPT ![c] = "ready"] /\ UNCHANGED processVars
    BY <1>1 DEF Continue, Arrives
  <2>2. TypeOK'
    BY <2>1 DEF IInv, TypeOK, processVars, RequestStates
  <2>3. PromisesAreTrue'
    BY <2>1 DEF IInv, PromisesAreTrue, processVars
  <2>4. WaitsAreTrue' /\ StopsAreOver'
    BY <1>1, <2>1 DEF IInv, TypeOK, WaitsAreTrue, StopsAreOver, processVars
  <2> QED BY <2>2, <2>3, <2>4 DEF IInv
<1>2. CASE snapshot # "ready" /\ startup # "none"
  <2>1. /\ call' = [call EXCEPT ![c] = "starting"] /\ UNCHANGED processVars
    BY <1>2 DEF Continue, Arrives
  <2>2. TypeOK'
    BY <2>1 DEF IInv, TypeOK, processVars, RequestStates
  <2>3. PromisesAreTrue'
    BY <2>1 DEF IInv, PromisesAreTrue, processVars
  <2>4. startup = "pending"
    BY <1>2 DEF IInv, PromisesAreTrue
  <2>5. WaitsAreTrue' /\ StopsAreOver'
    BY <2>1, <2>4 DEF IInv, TypeOK, WaitsAreTrue, StopsAreOver, processVars
  <2> QED BY <2>2, <2>3, <2>5 DEF IInv
<1>3. CASE snapshot # "ready" /\ startup = "none"
  <2>1. /\ call' = [call EXCEPT ![c] = "starting"]
        /\ snapshot' = "starting" /\ startup' = "pending" /\ child' = TRUE
        /\ alive' = alive + 1 /\ stopping' = stopping
    BY <1>3 DEF Continue, Arrives, Launch
  <2>2. ~child
    BY <1>3 DEF IInv, PromisesAreTrue
  <2>3. alive' = 1
    BY <2>1, <2>2 DEF IInv, PromisesAreTrue
  <2>4. TypeOK'
    BY <2>1, <2>3 DEF IInv, TypeOK, RequestStates
  <2>5. PromisesAreTrue'
    BY <2>1, <2>3 DEF PromisesAreTrue
  <2>6. WaitsAreTrue' /\ StopsAreOver'
    BY <2>1 DEF IInv, TypeOK, WaitsAreTrue, StopsAreOver
  <2> QED BY <2>4, <2>5, <2>6 DEF IInv
<1> QED BY <1>1, <1>2, <1>3

\* So does a call of start(), made between the events of others.
LEMMA StartKeeps ==
  ASSUME IInv, Event, NEW c \in Callers, Start(c),
         request' \in [Requests -> RequestStates],
         \A r \in Requests : request'[r] = "sent" => request[r] = "sent",
         UNCHANGED <<serving, shut>>
  PROVE  IInv'
<1>1. \A d \in Callers : call[d] # "stopped" /\ call[d] # "ready"
  BY DEF Event
<1>2. CASE stopping = "no"
  <2>1. Continue(c)
    BY <1>2 DEF Start
  <2> QED BY <1>1, <1>2, <2>1, ContinueKeeps
<1>3. CASE stopping # "no"
  <2>1. /\ call' = [call EXCEPT ![c] = "stopping"] /\ UNCHANGED processVars
    BY <1>3 DEF Start, Arrives
  <2>2. TypeOK'
    BY <2>1 DEF IInv, TypeOK, processVars, RequestStates
  <2>3. PromisesAreTrue'
    BY <2>1 DEF IInv, PromisesAreTrue, processVars
  <2>4. WaitsAreTrue' /\ StopsAreOver'
    BY <1>1, <1>3, <2>1 DEF IInv, TypeOK, WaitsAreTrue, StopsAreOver, processVars
  <2> QED BY <2>2, <2>3, <2>4 DEF IInv
<1> QED BY <1>2, <1>3

\* A process that is gone leaves nobody behind.
LEMMA CloseKeeps ==
  ASSUME IInv, Close
  PROVE  IInv'
<1>1. /\ child' = FALSE /\ alive' = alive - 1 /\ startup' = "none" /\ stopping' = "no"
      /\ snapshot' = IF stopping = "no" THEN "failed" ELSE stopping
      /\ call' = StopResolved(RejectStartup(call))
      /\ request' = RejectAll(call, request) /\ serving' = {} /\ shut' = shut
  BY DEF Close, Closed
<1>2. call \in [Callers -> CallStates] /\ request \in [Requests -> RequestStates]
  BY DEF IInv, TypeOK, CallStates, RequestStates
<1>3. /\ call' \in [Callers -> CallStates]
      /\ request' \in [Requests -> RequestStates]
  BY <1>1, <1>2, RejectionTypes
<1>4. \A c \in Callers :
        call'[c] # "starting" /\ call'[c] # "stopping" /\ call'[c] # "ready"
  BY <1>1 DEF Close, Event, RejectStartup, StopResolved
<1>5. \A r \in Requests : request'[r] # "sent"
  BY <1>1 DEF RejectAll
<1>6. alive' = 0
  BY <1>1 DEF Close, IInv, PromisesAreTrue
<1>7. snapshot' \in {"stopped", "failed"}
  BY <1>1 DEF IInv, TypeOK
<1>8. TypeOK'
  <2>1. alive' \in Nat
    BY <1>6
  <2>2. child' \in BOOLEAN /\ shut' \in BOOLEAN
    BY <1>1 DEF IInv, TypeOK
  <2>3. stopping' = "no" /\ startup' = "none" /\ serving' \subseteq Requests
    BY <1>1
  <2> QED BY <1>3, <1>7, <2>1, <2>2, <2>3 DEF TypeOK, CallStates, RequestStates
<1>9. PromisesAreTrue'
  BY <1>1, <1>6, <1>7 DEF PromisesAreTrue
<1>10. WaitsAreTrue' /\ StopsAreOver'
  BY <1>1, <1>4, <1>5, <1>7 DEF WaitsAreTrue, StopsAreOver
<1> QED BY <1>8, <1>9, <1>10 DEF IInv

\* A call that is over changes nothing the others wait for.
LEMMA DoneKeeps ==
  ASSUME IInv, NEW c \in Callers, Arrives(c, "done"),
         request' \in [Requests -> RequestStates],
         \A r \in Requests : request'[r] = "sent" => request[r] = "sent" \/ child,
         serving' \subseteq Requests, UNCHANGED <<processVars, shut>>
  PROVE  IInv'
<1>1. TypeOK'
  BY DEF IInv, TypeOK, Arrives, processVars, RequestStates
<1>2. PromisesAreTrue'
  BY DEF IInv, PromisesAreTrue, processVars
<1>3. WaitsAreTrue'
  BY DEF IInv, TypeOK, WaitsAreTrue, Arrives, processVars
<1>4. StopsAreOver'
  BY DEF IInv, TypeOK, StopsAreOver, Arrives, processVars
<1> QED BY <1>1, <1>2, <1>3, <1>4 DEF IInv

\* Readiness, once, resolves every call that awaits it.
LEMMA ReadyKeeps ==
  ASSUME IInv, ReadyMessage
  PROVE  IInv'
<1>1. \A c \in Callers : call[c] # "stopped"
  BY DEF ReadyMessage, Message
<1>2. CASE snapshot # "starting"
  BY <1>1, <1>2, FailKeeps DEF ReadyMessage
<1>3. CASE snapshot = "starting"
  <2>1. /\ snapshot' = "ready"
        /\ startup' = IF startup = "pending" THEN "resolved" ELSE startup
        /\ call' = [c \in Callers |-> IF call[c] = "starting" THEN "ready" ELSE call[c]]
        /\ child' = child /\ alive' = alive /\ stopping' = stopping
        /\ request' = request /\ serving' = serving /\ shut' = shut /\ child
    BY <1>3 DEF ReadyMessage, Message
  <2>2. TypeOK'
    BY <2>1 DEF IInv, TypeOK
  <2>3. PromisesAreTrue'
    BY <2>1 DEF IInv, PromisesAreTrue
  <2>4. WaitsAreTrue' /\ StopsAreOver'
    BY <1>1, <2>1 DEF IInv, WaitsAreTrue, StopsAreOver
  <2> QED BY <2>2, <2>3, <2>4 DEF IInv
<1> QED BY <1>2, <1>3
-----------------------------------------------------------------------------
\* The promises are true initially, and every step keeps them so.
LEMMA InitIsSound == Init => IInv
<1> SUFFICES ASSUME Init PROVE IInv
  OBVIOUS
<1>1. TypeOK
  BY DEF Init, TypeOK
<1>2. PromisesAreTrue
  BY DEF Init, PromisesAreTrue
<1>3. WaitsAreTrue /\ StopsAreOver
  BY DEF Init, WaitsAreTrue, StopsAreOver
<1> QED BY <1>1, <1>2, <1>3 DEF IInv

LEMMA StepIsSound == IInv /\ [Next]_vars => IInv'
<1> SUFFICES ASSUME IInv, [Next]_vars PROVE IInv'
  OBVIOUS
<1> USE DEF Callers
<1>1. call \in [Callers -> CallStates] /\ request \in [Requests -> RequestStates]
  BY DEF IInv, TypeOK, CallStates, RequestStates
<1>2. ASSUME NEW r \in Requests, Transcribe(r) PROVE IInv'
  <2>1. /\ request' = [request EXCEPT ![r] = "waiting"] /\ Event /\ Start(r)
        /\ UNCHANGED <<serving, shut>>
    BY <1>2 DEF Transcribe
  <2>2. /\ request' \in [Requests -> RequestStates]
        /\ \A q \in Requests : request'[q] = "sent" => request[q] = "sent"
    BY <1>1, <2>1 DEF RequestStates
  <2> QED BY <2>1, <2>2, StartKeeps
<1>3. ASSUME NEW r \in Requests, Abort(r) PROVE IInv'
  <2> DEFINE after == [request EXCEPT ![r] = "aborted"]
  <2>1. /\ Terminate("stopped", call, after) /\ serving' = serving /\ shut' = shut
        /\ \A c \in Callers : call[c] # "stopped"
    BY <1>3 DEF Abort, Event
  <2>2. /\ after \in [Requests -> RequestStates]
        /\ \A q \in Requests : after[q] = "sent" => request[q] = "sent"
    BY <1>1 DEF RequestStates
  <2>3. serving' \subseteq serving /\ shut' \in BOOLEAN
    BY <2>1 DEF IInv, TypeOK
  <2> HIDE DEF after
  <2> QED BY <1>1, <2>1, <2>2, <2>3, TerminateKeeps
<1>4. ASSUME NEW r \in Requests, Answer(r) PROVE IInv'
  <2>1. \/ request' = request
        \/ \E outcome \in {"answered", "failed"} :
             request' = [request EXCEPT ![r] = outcome]
    BY <1>4 DEF Answer
  <2>2. serving' = serving \ {r} /\ UNCHANGED <<processVars, call, shut>>
    BY <1>4 DEF Answer
  <2>3. TypeOK'
    BY <1>1, <2>1, <2>2 DEF IInv, TypeOK, processVars, RequestStates
  <2>4. PromisesAreTrue' /\ StopsAreOver'
    BY <2>2 DEF IInv, PromisesAreTrue, StopsAreOver, processVars
  <2>5. WaitsAreTrue'
    BY <1>1, <2>1, <2>2 DEF IInv, WaitsAreTrue, processVars
  <2> QED BY <2>3, <2>4, <2>5 DEF IInv
<1>5. ASSUME NEW r \in Requests, BadAnswer(r) PROVE IInv'
  <2> DEFINE after == [request EXCEPT ![r] = "failed"]
  <2>1. /\ Terminate("failed", call, after) /\ serving' = serving \ {r} /\ shut' = shut
        /\ \A c \in Callers : call[c] # "stopped"
    BY <1>5 DEF BadAnswer, Message
  <2>2. /\ after \in [Requests -> RequestStates]
        /\ \A q \in Requests : after[q] = "sent" => request[q] = "sent"
    BY <1>1 DEF RequestStates
  <2>3. serving' \subseteq serving /\ shut' \in BOOLEAN
    BY <2>1 DEF IInv, TypeOK
  <2> HIDE DEF after
  <2> QED BY <1>1, <2>1, <2>2, <2>3, TerminateKeeps
<1>6. ASSUME NEW c \in Callers, StopAwaited(c) PROVE IInv'
  <2>1. /\ call[c] = "stopped" /\ Continue(c) /\ request' = request
        /\ UNCHANGED <<serving, shut>>
    BY <1>6 DEF StopAwaited
  <2>2. stopping = "no" /\ snapshot # "ready"
    BY <2>1 DEF IInv, StopsAreOver
  <2> QED BY <1>1, <2>1, <2>2, ContinueKeeps
<1>7. ASSUME NEW c \in Callers, StartAwaited(c) PROVE IInv'
  BY <1>1, <1>7, DoneKeeps DEF StartAwaited, IInv, TypeOK
<1>8. ASSUME NEW r \in Requests, Send(r) PROVE IInv'
  <2>1. /\ Arrives(r, "done") /\ child /\ UNCHANGED <<processVars, shut>>
        /\ request' = [request EXCEPT ![r] = "sent"] /\ serving' = serving \union {r}
    BY <1>8 DEF Send, Accepts
  <2>2. /\ request' \in [Requests -> RequestStates]
        /\ \A q \in Requests : request'[q] = "sent" => request[q] = "sent" \/ child
        /\ serving' \subseteq Requests
    BY <1>1, <2>1 DEF RequestStates, IInv, TypeOK
  <2> QED BY <2>1, <2>2, DoneKeeps
<1>9. ASSUME NEW r \in Requests, Refuse(r) PROVE IInv'
  <2>1. /\ Arrives(r, "done") /\ UNCHANGED <<processVars, serving, shut>>
        /\ request' = [request EXCEPT ![r] = "refused"]
    BY <1>9 DEF Refuse
  <2>2. /\ request' \in [Requests -> RequestStates]
        /\ \A q \in Requests : request'[q] = "sent" => request[q] = "sent" \/ child
        /\ serving' \subseteq Requests
    BY <1>1, <2>1 DEF RequestStates, IInv, TypeOK
  <2> QED BY <2>1, <2>2, DoneKeeps
<1>10. ASSUME NEW r \in Requests, SendFails(r) PROVE IInv'
  <2> DEFINE after == [request EXCEPT ![r] = "failed"]
  <2> DEFINE calls == [call EXCEPT ![r] = "done"]
  <2>1. /\ Terminate("failed", calls, after) /\ serving' = serving /\ shut' = shut
        /\ call[r] = "ready"
    BY <1>10 DEF SendFails
  <2>2. \A c \in Callers : call[c] # "stopped"
    BY <2>1 DEF IInv, StopsAreOver
  <2>3. /\ after \in [Requests -> RequestStates]
        /\ \A q \in Requests : after[q] = "sent" => request[q] = "sent"
    BY <1>1 DEF RequestStates
  <2>4. /\ calls \in [Callers -> CallStates]
        /\ \A c \in Callers : calls[c] = call[c] \/ calls[c] = "done"
    BY <1>1 DEF CallStates
  <2>5. serving' \subseteq serving /\ shut' \in BOOLEAN
    BY <2>1 DEF IInv, TypeOK
  <2> HIDE DEF after, calls
  <2> QED BY <2>1, <2>2, <2>3, <2>4, <2>5, TerminateKeeps
<1>11. ASSUME NEW p \in Probes, Probe(p) PROVE IInv'
  <2>1. request' = request /\ Event /\ Start(p) /\ UNCHANGED <<serving, shut>>
    BY <1>11 DEF Probe
  <2> QED BY <1>1, <2>1, StartKeeps
<1>12. CASE Stop
  <2>1. /\ Terminate("stopped", call, request) /\ serving' = serving /\ shut' \in BOOLEAN
        /\ \A c \in Callers : call[c] # "stopped"
    BY <1>12 DEF Stop, Event
  <2> QED BY <1>1, <2>1, TerminateKeeps
<1>13. CASE Close
  BY <1>13, CloseKeeps
<1>14. CASE ReadyMessage
  BY <1>14, ReadyKeeps
<1>15. CASE BadMessage
  BY <1>15, FailKeeps DEF BadMessage, Message
<1>16. CASE StartupTimeout
  BY <1>16, FailKeeps DEF StartupTimeout, Event
<1>17. CASE UNCHANGED vars
  <2>1. TypeOK'
    BY <1>17 DEF IInv, TypeOK, vars, processVars
  <2>2. PromisesAreTrue'
    BY <1>17 DEF IInv, PromisesAreTrue, vars, processVars
  <2>3. WaitsAreTrue' /\ StopsAreOver'
    BY <1>17 DEF IInv, WaitsAreTrue, StopsAreOver, vars, processVars
  <2> QED BY <2>1, <2>2, <2>3 DEF IInv
<1> QED
  BY <1>2, <1>3, <1>4, <1>5, <1>6, <1>7, <1>8, <1>9, <1>10, <1>11, <1>12, <1>13,
     <1>14, <1>15, <1>16, <1>17 DEF Next, Resume

THEOREM Invariance == Spec => []IInv
BY InitIsSound, StepIsSound, PTL DEF Spec

\* However often requests are aborted and the worker is killed and launched
\* again, the model is never loaded by two processes at once.
THEOREM SingleModel == Spec => []OneModel
<1>1. IInv => OneModel
  BY DEF IInv, PromisesAreTrue, OneModel
<1> QED BY <1>1, Invariance, PTL

\* Whoever waits for an answer, a startup or a stop waits for something that is
\* still under way.
THEOREM WaitsAreLive == Spec => []NobodyWaitsOnTheDead
<1>1. IInv => NobodyWaitsOnTheDead
  BY DEF IInv, PromisesAreTrue, WaitsAreTrue, NobodyWaitsOnTheDead, Pending
<1> QED BY <1>1, Invariance, PTL

-----------------------------------------------------------------------------
(* The pipeline's use of the worker.                                        *)

\* Every step of the pipeline is a step of the worker, or leaves it alone.
LEMMA PipelineTakesWorkerSteps ==
  ASSUME [PipelineNext]_pipelineVars PROVE [Next]_vars
<1>1. ASSUME NEW j \in Jobs, NEW runs, ProviderIsCut(j, runs) PROVE [Next]_vars
  BY <1>1 DEF ProviderIsCut, Next, Jobs
<1>2. ASSUME NEW j \in Jobs, ProviderStarts(j) PROVE [Next]_vars
  BY <1>2 DEF ProviderStarts, AsksWorker, RunsWhisper, AsksServer, Refuses, Next, Jobs
<1>3. ASSUME NEW j \in Jobs, RunPipeline(j) \/ FetchSettles(j) PROVE [Next]_vars
  BY <1>3 DEF RunPipeline, FetchSettles
<1>4. ASSUME NEW j \in Jobs, FileEvent(j) PROVE [Next]_vars
  BY <1>2, <1>4 DEF FileEvent, InputWritten, InputNotWritten, Branches, BadNormalization,
                    FeaturesTaken, FetchSends, Cleaned, OnlyStage, NeedsNoProvider
<1>5. ASSUME NEW j \in Jobs, Continues(j) PROVE [Next]_vars
  BY <1>5 DEF Continues, NormalizerAwaited, ProviderAwaited, BranchesReject,
              BranchesResolve, ProviderSettled, OnlyStage
<1>6. ASSUME NEW j \in Jobs, SttDeadline(j) \/ Cancel(j) PROVE [Next]_vars
  BY <1>1, <1>6 DEF SttDeadline, Cancel
<1>7. CASE \E p \in Probes : Health(p)
  BY <1>7 DEF Health, Next
<1>8. CASE \E c \in Callers : Resumes(c)
  BY <1>8 DEF Resumes, Next
<1>9. CASE StopWorker \/ WorkerEvent
  BY <1>9 DEF StopWorker, WorkerEvent, Next
<1>10. CASE \E r \in Programs : ProgramEvent(r)
  BY <1>10 DEF ProgramEvent
<1>11. CASE UNCHANGED pipelineVars
  BY <1>11 DEF pipelineVars
<1> QED BY <1>3, <1>4, <1>5, <1>6, <1>7, <1>8, <1>9, <1>10, <1>11 DEF PipelineNext

\* The worker that the jobs share is as PersistentSttWorker describes it.
LEMMA WorkerInPipeline == PipelineSpec => []IInv
<1>1. PipelineInit => IInv
  BY InitIsSound DEF PipelineInit
<1>2. IInv /\ [PipelineNext]_pipelineVars => IInv'
  BY StepIsSound, PipelineTakesWorkerSteps
<1> QED BY <1>1, <1>2, PTL DEF PipelineSpec

\* However the jobs of the pipeline are cancelled and time out, the model they
\* share is never loaded by two processes at once.
THEOREM PipelineSingleModel == PipelineSpec => []OneModel
<1>1. IInv => OneModel
  BY DEF IInv, PromisesAreTrue, OneModel
<1> QED BY <1>1, WorkerInPipeline, PTL

\* A job or a readiness check that waits for the worker waits for something that is
\* still under way.
THEOREM PipelineWaitsAreLive == PipelineSpec => []NobodyWaitsOnTheDead
<1>1. IInv => NobodyWaitsOnTheDead
  BY DEF IInv, PromisesAreTrue, WaitsAreTrue, NobodyWaitsOnTheDead, Pending
<1> QED BY <1>1, WorkerInPipeline, PTL

-----------------------------------------------------------------------------
(* The programs.                                                            *)

\* A program that runs has somebody waiting for it.
Awaited(p) == p.child = "running" => p.promise = "pending"

\* What a step may make of a run that is not called anew.
Settles(p, q) ==
  /\ q \in Program!RunRecords
  /\ Awaited(p) => Awaited(q)
  /\ q.promise = "pending" => p.promise = "pending"

LEMMA CallsAreAwaited ==
  ASSUME NEW cut, NEW p \in Program!Called(cut)
  PROVE  p \in Program!RunRecords /\ Awaited(p)
<1>1. CASE cut
  <2>1. p = [Program!NotCalled EXCEPT !.promise = "rejected"]
    BY <1>1 DEF Program!Called
  <2> QED BY <2>1 DEF Program!NotCalled, Program!RunRecords, Awaited
<1>2. CASE ~cut
  <2>1. PICK c \in {"running", "broken"} :
          p = [Program!NotCalled EXCEPT !.promise = "pending", !.child = c]
    BY <1>2 DEF Program!Called
  <2> QED BY <2>1 DEF Program!NotCalled, Program!RunRecords, Awaited
<1> QED BY <1>1, <1>2

LEMMA AbortSettles ==
  ASSUME NEW p \in Program!RunRecords
  PROVE  Settles(p, Program!Aborted(p))
BY DEF Program!Aborted, Program!Terminated, Program!RunRecords, Settles, Awaited

LEMMA ForgettingSettles ==
  ASSUME NEW p \in Program!RunRecords
  PROVE  Settles(p, Program!Forgotten(p))
BY DEF Program!Forgotten, Program!NotCalled, Program!RunRecords, Settles, Awaited

LEMMA EventSettles ==
  ASSUME NEW r \in Programs, run[r] \in Program!RunRecords, Program!RunEvent(r)
  PROVE  \E q : run' = [run EXCEPT ![r] = q] /\ Settles(run[r], q)
<1> DEFINE p == run[r]
<1>1. CASE Program!TimeIsUp(r)
  <2>1. run' = [run EXCEPT ![r] = Program!Terminated(p, "timeout")]
    BY <1>1 DEF Program!TimeIsUp, Program!Becomes
  <2>2. Settles(p, Program!Terminated(p, "timeout"))
    BY DEF Program!Terminated, Program!RunRecords, Settles, Awaited
  <2> QED BY <2>1, <2>2
<1>2. CASE Program!ForceKill(r)
  <2>1. run' = [run EXCEPT ![r] = [p EXCEPT !.told = "kill"]]
    BY <1>2 DEF Program!ForceKill, Program!Becomes
  <2>2. Settles(p, [p EXCEPT !.told = "kill"])
    BY DEF Program!RunRecords, Settles, Awaited
  <2> QED BY <2>1, <2>2
<1>3. CASE Program!Exits(r)
  <2>1. PICK how \in {"exited", "broken"} : run' = [run EXCEPT ![r] = [p EXCEPT !.child = how]]
    BY <1>3 DEF Program!Exits, Program!Becomes
  <2>2. Settles(p, [p EXCEPT !.child = how])
    BY DEF Program!RunRecords, Settles, Awaited
  <2> QED BY <2>1, <2>2
<1>4. CASE Program!CloseEvent(r)
  <2>1. PICK o \in {"resolved", "rejected"} :
          run' = [run EXCEPT ![r] = [p EXCEPT !.child = "gone", !.promise = o]]
    BY <1>4 DEF Program!CloseEvent, Program!Becomes
  <2>2. Settles(p, [p EXCEPT !.child = "gone", !.promise = o])
    BY DEF Program!RunRecords, Settles, Awaited
  <2> QED BY <2>1, <2>2
<1>5. ~Program!InputBreaks(r)
  BY DEF Program!InputBreaks
<1> QED BY <1>1, <1>2, <1>3, <1>4, <1>5 DEF Program!RunEvent

-----------------------------------------------------------------------------
(* The requests.                                                            *)

Busy == {"waiting", "sent"}

\* No request but those of S becomes busy.
Calm(S) == \A r \in Requests \ S : request'[r] \in Busy => request[r] \in Busy

LEMMA EndsAreCalm ==
  ASSUME NEW kind, NEW calls, NEW requests, Terminate(kind, calls, requests),
         \A r \in Requests : requests[r] \in Busy => request[r] \in Busy
  PROVE  Calm({})
<1>1. request' = requests \/ request' = RejectAll(calls, requests)
  BY DEF Terminate
<1> QED BY <1>1 DEF Calm, Busy, RejectAll

\* Only Transcribe makes a request busy.
LEMMA WorkerIsCalm ==
  ASSUME request \in [Requests -> RequestStates],
         \/ \E r \in Requests : Abort(r) \/ Answer(r) \/ BadAnswer(r)
         \/ \E c \in Callers : Resume(c)
         \/ \E p \in Probes : Probe(p)
         \/ Stop \/ Close \/ ReadyMessage \/ BadMessage \/ StartupTimeout
         \/ UNCHANGED vars
  PROVE  Calm({})
<1>1. Fail => Calm({})
  BY EndsAreCalm DEF Fail
<1>2. ASSUME NEW r \in Requests, Abort(r) PROVE Calm({})
  <2> DEFINE after == [request EXCEPT ![r] = "aborted"]
  <2>1. Terminate("stopped", call, after)
    BY <1>2 DEF Abort
  <2>2. \A q \in Requests : after[q] \in Busy => request[q] \in Busy
    BY DEF Busy
  <2> HIDE DEF after
  <2> QED BY <2>1, <2>2, EndsAreCalm
<1>3. ASSUME NEW r \in Requests, Answer(r) PROVE Calm({})
  BY <1>3 DEF Answer, Calm, Busy
<1>4. ASSUME NEW r \in Requests, BadAnswer(r) PROVE Calm({})
  <2> DEFINE after == [request EXCEPT ![r] = "failed"]
  <2>1. Terminate("failed", call, after)
    BY <1>4 DEF BadAnswer
  <2>2. \A q \in Requests : after[q] \in Busy => request[q] \in Busy
    BY DEF Busy
  <2> HIDE DEF after
  <2> QED BY <2>1, <2>2, EndsAreCalm
<1>5. ASSUME NEW c \in Callers, Resume(c) PROVE Calm({})
  <2>1. CASE StopAwaited(c) \/ StartAwaited(c)
    BY <2>1 DEF StopAwaited, StartAwaited, Calm
  <2>2. CASE c \in Requests /\ (Send(c) \/ Refuse(c))
    BY <2>2 DEF Send, Refuse, Calm, Busy
  <2>3. CASE c \in Requests /\ SendFails(c)
    <3> DEFINE after == [request EXCEPT ![c] = "failed"]
    <3>1. Terminate("failed", [call EXCEPT ![c] = "done"], after)
      BY <2>3 DEF SendFails
    <3>2. \A q \in Requests : after[q] \in Busy => request[q] \in Busy
      BY DEF Busy
    <3> HIDE DEF after
    <3> QED BY <3>1, <3>2, EndsAreCalm
  <2> QED BY <1>5, <2>1, <2>2, <2>3 DEF Resume
<1>6. ASSUME NEW p \in Probes, Probe(p) PROVE Calm({})
  BY <1>6 DEF Probe, Calm
<1>7. CASE Stop
  BY <1>7, EndsAreCalm DEF Stop
<1>8. CASE Close
  BY <1>8 DEF Close, RejectAll, Calm, Busy
<1>9. CASE ReadyMessage
  BY <1>1, <1>9 DEF ReadyMessage, Calm
<1>10. CASE BadMessage \/ StartupTimeout
  BY <1>1, <1>10 DEF BadMessage, StartupTimeout
<1>11. CASE UNCHANGED vars
  BY <1>11 DEF vars, Calm
<1> QED BY <1>2, <1>3, <1>4, <1>5, <1>6, <1>7, <1>8, <1>9, <1>10, <1>11

-----------------------------------------------------------------------------
(* The jobs.                                                                *)

PipelineTypeOK ==
  /\ stage \in [Jobs -> Stages]
  /\ features \in [Jobs -> FeatureStates]
  /\ stt \in [Jobs -> SttStates]
  /\ fetching \in [Jobs -> FetchStates]
  /\ run \in [Programs -> Program!RunRecords]

\* A job that is under way has its slot and its directory; its normalizer runs
\* while it normalizes; its provider is asked once, after that, and when the job
\* ends first then because its features did.
JobSound(j) ==
  /\ stage[j] \notin {"idle", "over"} => j \in slots \intersect dirs
  /\ run[Normalizer(j)].promise = "pending" => stage[j] = "normalizing"
  /\ stage[j] \in {"idle", "writing", "normalizing", "measuring"} => stt[j] = "none"
  /\ stt[j] \in {"none", "threw"} => ~ProviderBusy(j)
  /\ stage[j] \in {"cleaning", "over"} /\ ProviderBusy(j)
       => features[j] \in {"failed", "threw"}

PipelineInv ==
  /\ PipelineTypeOK
  /\ \A p \in Programs : Awaited(run[p])
  /\ \A j \in Jobs : JobSound(j)

LEMMA ProgramsOfJobs ==
  /\ \A j \in Jobs : Normalizer(j) \in Programs /\ Transcriber(j) \in Programs
  /\ \A j, k \in Jobs : /\ Normalizer(j) # Transcriber(k)
                        /\ Normalizer(j) = Normalizer(k) => j = k
                        /\ Transcriber(j) = Transcriber(k) => j = k
BY DEF Programs, Normalizer, Transcriber

\* Nothing of job k is called anew.
Restful(k) ==
  /\ request'[k] \in Busy => request[k] \in Busy
  /\ fetching'[k] # "none" => fetching[k] # "none"
  /\ run'[Normalizer(k)].promise = "pending" => run[Normalizer(k)].promise = "pending"
  /\ run'[Transcriber(k)].promise = "pending" => run[Transcriber(k)].promise = "pending"

LEMMA RestfulIsNotBusier ==
  ASSUME NEW k, Restful(k), ~ProviderBusy(k) PROVE ~ProviderBusy(k)'
BY DEF Restful, ProviderBusy, Busy, Program!Pending

\* A job that is not called anew and whose course does not change stays sound.
LEMMA JobStays ==
  ASSUME NEW k, JobSound(k), Restful(k),
         stage'[k] = stage[k], stt'[k] = stt[k],
         features'[k] = features[k] \/ features[k] \notin {"failed", "threw"},
         k \in slots => k \in slots', k \in dirs => k \in dirs'
  PROVE  JobSound(k)'
<1>1. ~ProviderBusy(k) => ~ProviderBusy(k)'
  BY RestfulIsNotBusier
<1> QED BY <1>1 DEF JobSound, Restful

\* The others, when a step is one job's.
LEMMA OthersStay ==
  ASSUME PipelineInv, NEW j \in Jobs, NEW k \in Jobs, k # j, Calm({j}),
         stage' = stage \/ \E x : stage' = [stage EXCEPT ![j] = x],
         features' = features \/ \E x : features' = [features EXCEPT ![j] = x],
         stt' = stt \/ \E x : stt' = [stt EXCEPT ![j] = x],
         fetching' = fetching \/ \E x : fetching' = [fetching EXCEPT ![j] = x],
         \A p \in Programs \ {Normalizer(j), Transcriber(j)} : run'[p] = run[p],
         slots \subseteq slots' \union {j}, dirs \subseteq dirs' \union {j}
  PROVE  JobSound(k)'
<1>1. /\ stage'[k] = stage[k] /\ features'[k] = features[k]
      /\ stt'[k] = stt[k] /\ fetching'[k] = fetching[k]
  BY DEF PipelineInv, PipelineTypeOK
<1>2. run'[Normalizer(k)] = run[Normalizer(k)] /\ run'[Transcriber(k)] = run[Transcriber(k)]
  BY ProgramsOfJobs
<1>3. Restful(k)
  BY <1>1, <1>2 DEF Restful, Calm, Jobs
<1> QED BY <1>1, <1>3, JobStays DEF PipelineInv

\* A step of one job: what it may change.
JobMoves(j) ==
  /\ Calm({j})
  /\ stage' = stage \/ \E x \in Stages : stage' = [stage EXCEPT ![j] = x]
  /\ features' = features \/ \E x \in FeatureStates : features' = [features EXCEPT ![j] = x]
  /\ stt' = stt \/ \E x \in SttStates : stt' = [stt EXCEPT ![j] = x]
  /\ fetching' = fetching \/ \E x \in FetchStates : fetching' = [fetching EXCEPT ![j] = x]
  /\ run' \in [Programs -> Program!RunRecords]
  /\ \A p \in Programs : Awaited(run'[p])
  /\ \A p \in Programs \ {Normalizer(j), Transcriber(j)} : run'[p] = run[p]
  /\ slots \subseteq slots' \union {j} /\ dirs \subseteq dirs' \union {j}

LEMMA JobStep ==
  ASSUME PipelineInv, NEW j \in Jobs, JobMoves(j), JobSound(j)'
  PROVE  PipelineInv'
<1>1. PipelineTypeOK'
  BY DEF PipelineInv, PipelineTypeOK, JobMoves
<1>2. ASSUME NEW k \in Jobs, k # j PROVE JobSound(k)'
  BY <1>2, OthersStay DEF JobMoves
<1> QED BY <1>1, <1>2 DEF PipelineInv, JobMoves

\* A step that changes no job's course.
LEMMA QuietStep ==
  ASSUME PipelineInv, Calm({}), UNCHANGED <<stage, stt, features, slots, dirs>>,
         fetching' \in [Jobs -> FetchStates],
         \A k \in Jobs : fetching'[k] # "none" => fetching[k] # "none",
         run' \in [Programs -> Program!RunRecords],
         \A p \in Programs : Settles(run[p], run'[p])
  PROVE  PipelineInv'
<1>1. PipelineTypeOK'
  BY DEF PipelineInv, PipelineTypeOK
<1>2. \A p \in Programs : Awaited(run'[p])
  BY DEF PipelineInv, Settles
<1>3. ASSUME NEW k \in Jobs PROVE JobSound(k)'
  <2>1. Restful(k)
    BY ProgramsOfJobs DEF Restful, Calm, Settles, Jobs
  <2> QED BY <2>1, JobStays DEF PipelineInv
<1> QED BY <1>1, <1>2, <1>3 DEF PipelineInv

\* Programs that are left alone, one that is told or noticed, one that is called.
LEMMA RunsStay ==
  ASSUME PipelineInv, run' = run
  PROVE  /\ run' \in [Programs -> Program!RunRecords]
         /\ \A p \in Programs : Awaited(run'[p]) /\ Settles(run[p], run'[p])
BY DEF PipelineInv, PipelineTypeOK, Settles

LEMMA RunSettles ==
  ASSUME PipelineInv, NEW r \in Programs, NEW q, Settles(run[r], q),
         run' = [run EXCEPT ![r] = q]
  PROVE  /\ run' \in [Programs -> Program!RunRecords]
         /\ \A p \in Programs : Awaited(run'[p]) /\ Settles(run[p], run'[p])
         /\ \A p \in Programs \ {r} : run'[p] = run[p]
         /\ run'[r] = q
BY DEF PipelineInv, PipelineTypeOK, Settles

LEMMA RunIsCalled ==
  ASSUME PipelineInv, NEW r \in Programs, NEW cut,
         NEW q \in Program!Called(cut), Program!Becomes(r, q)
  PROVE  /\ run' \in [Programs -> Program!RunRecords]
         /\ \A p \in Programs : Awaited(run'[p])
         /\ \A p \in Programs \ {r} : run'[p] = run[p]
BY CallsAreAwaited DEF PipelineInv, PipelineTypeOK, Program!Becomes

-----------------------------------------------------------------------------
(* The steps.                                                               *)

LEMMA UnchangedIsCalm == UNCHANGED vars => Calm({})
BY DEF vars, Calm

LEMMA CalmGrows == ASSUME Calm({}) PROVE \A j : Calm({j})
BY DEF Calm

\* The worker, the programs and the servers go about their work.
LEMMA QuietKeeps ==
  ASSUME PipelineInv, IInv,
         \/ \E p \in Probes : Health(p)
         \/ \E c \in Callers : Resumes(c)
         \/ StopWorker \/ WorkerEvent
         \/ \E r \in Programs : ProgramEvent(r)
         \/ \E j \in Jobs : FetchSends(j) \/ FetchSettles(j)
         \/ UNCHANGED pipelineVars
  PROVE  PipelineInv'
<1>1. request \in [Requests -> RequestStates]
  BY DEF IInv, TypeOK, RequestStates
<1>2. PipelineTypeOK
  BY DEF PipelineInv
<1>3. CASE \/ \E p \in Probes : Health(p)
           \/ \E c \in Callers : Resumes(c)
           \/ StopWorker \/ WorkerEvent
  <2>1. UNCHANGED <<jobVars, run>>
    BY <1>3 DEF Health, Resumes, StopWorker, WorkerEvent
  <2>2. Calm({})
    BY <1>1, <1>3, WorkerIsCalm DEF Health, Resumes, StopWorker, WorkerEvent
  <2> QED BY <1>2, <2>1, <2>2, RunsStay, QuietStep DEF jobVars, PipelineTypeOK
<1>4. ASSUME NEW r \in Programs, ProgramEvent(r) PROVE PipelineInv'
  <2>1. UNCHANGED <<vars, jobVars>> /\ Program!RunEvent(r)
    BY <1>4 DEF ProgramEvent
  <2>2. PICK q : run' = [run EXCEPT ![r] = q] /\ Settles(run[r], q)
    BY <1>2, <2>1, EventSettles DEF PipelineTypeOK
  <2>3. Calm({})
    BY <2>1, UnchangedIsCalm
  <2> QED BY <1>2, <2>1, <2>2, <2>3, RunSettles, QuietStep DEF jobVars, PipelineTypeOK
<1>5. ASSUME NEW j \in Jobs, FetchSends(j) \/ FetchSettles(j) PROVE PipelineInv'
  <2>1. UNCHANGED <<vars, stage, features, stt, dirs, slots, run>>
    BY <1>5 DEF FetchSends, FetchSettles
  <2>2. fetching[j] # "none" /\ \E x \in FetchStates : fetching' = [fetching EXCEPT ![j] = x]
    BY <1>5 DEF FetchSends, FetchSettles, FetchStates
  <2>3. Calm({})
    BY <2>1, UnchangedIsCalm
  <2>4. /\ fetching' \in [Jobs -> FetchStates]
        /\ \A k \in Jobs : fetching'[k] # "none" => fetching[k] # "none"
    BY <1>2, <2>2 DEF PipelineTypeOK
  <2> QED BY <2>1, <2>3, <2>4, RunsStay, QuietStep
<1>6. CASE UNCHANGED pipelineVars
  <2>1. UNCHANGED <<vars, jobVars, run>>
    BY <1>6 DEF pipelineVars
  <2>2. Calm({})
    BY <2>1, UnchangedIsCalm
  <2> QED BY <1>2, <2>1, <2>2, RunsStay, QuietStep DEF jobVars, PipelineTypeOK
<1> QED BY <1>3, <1>4, <1>5, <1>6

\* The course of a job whose provider has nothing to do with the step.
LEMMA StageKeeps ==
  ASSUME PipelineInv, NEW j \in Jobs,
         \/ RunPipeline(j) \/ InputNotWritten(j) \/ BadNormalization(j)
         \/ BranchesReject(j) \/ BranchesResolve(j) \/ ProviderSettled(j) \/ Cleaned(j)
  PROVE  PipelineInv'
<1>1. /\ UNCHANGED <<vars, features, stt, fetching, run>>
      /\ \E x \in Stages : stage' = [stage EXCEPT ![j] = x]
      /\ slots \subseteq slots' \union {j} /\ dirs \subseteq dirs' \union {j}
  BY DEF RunPipeline, InputNotWritten, BadNormalization, BranchesReject, BranchesResolve,
         ProviderSettled, Cleaned, OnlyStage, GoesTo, Stages
<1>2. JobMoves(j)
  BY <1>1, UnchangedIsCalm, CalmGrows, RunsStay DEF JobMoves
<1>3. /\ JobSound(j) /\ stage \in [Jobs -> Stages]
      /\ ProviderBusy(j)' = ProviderBusy(j)
  BY <1>1 DEF PipelineInv, PipelineTypeOK, ProviderBusy, Program!Pending, vars
<1>4. run'[Normalizer(j)] = run[Normalizer(j)] /\ stt'[j] = stt[j] /\ features'[j] = features[j]
  BY <1>1
<1>5. CASE RunPipeline(j)
  <2>1. stage[j] = "idle" /\ stage'[j] = "writing" /\ j \in slots' /\ j \in dirs'
    BY <1>3, <1>5 DEF RunPipeline, GoesTo
  <2>2. JobSound(j)'
    BY <1>3, <1>4, <2>1 DEF JobSound
  <2> QED BY <1>2, <2>2, JobStep
<1>6. CASE InputNotWritten(j) \/ BadNormalization(j)
  <2>1. stage[j] \in {"writing", "measuring"} /\ stage'[j] = "cleaning"
        /\ slots' = slots /\ dirs' = dirs
    BY <1>3, <1>6 DEF InputNotWritten, BadNormalization, OnlyStage, GoesTo
  <2>2. JobSound(j)'
    BY <1>3, <1>4, <2>1 DEF JobSound
  <2> QED BY <1>2, <2>2, JobStep
<1>7. CASE BranchesReject(j)
  <2>1. stage[j] = "branching" /\ stage'[j] = "cleaning" /\ slots' = slots /\ dirs' = dirs
        /\ (features[j] = "threw" \/ stt[j] = "threw")
    BY <1>3, <1>7 DEF BranchesReject, BranchThrew, OnlyStage, GoesTo
  <2>2. JobSound(j)'
    BY <1>3, <1>4, <2>1 DEF JobSound
  <2> QED BY <1>2, <2>2, JobStep
<1>8. CASE BranchesResolve(j)
  <2>1. stage[j] = "branching" /\ slots' = slots /\ dirs' = dirs
        /\ stage'[j] = IF features[j] = "failed" THEN "cleaning" ELSE "owing"
    BY <1>3, <1>8 DEF BranchesResolve, OnlyStage, GoesTo
  <2>2. JobSound(j)'
    BY <1>3, <1>4, <2>1 DEF JobSound
  <2> QED BY <1>2, <2>2, JobStep
<1>9. CASE ProviderSettled(j)
  <2>1. stage[j] = "owing" /\ stage'[j] = "cleaning" /\ ~ProviderBusy(j)
        /\ slots' = slots /\ dirs' = dirs
    BY <1>3, <1>9 DEF ProviderSettled, OnlyStage, GoesTo
  <2>2. JobSound(j)'
    BY <1>3, <1>4, <2>1 DEF JobSound
  <2> QED BY <1>2, <2>2, JobStep
<1>10. CASE Cleaned(j)
  <2>1. stage[j] = "cleaning" /\ stage'[j] = "over"
    BY <1>3, <1>10 DEF Cleaned, GoesTo
  <2>2. JobSound(j)'
    BY <1>3, <1>4, <2>1 DEF JobSound
  <2> QED BY <1>2, <2>2, JobStep
<1> QED BY <1>5, <1>6, <1>7, <1>8, <1>9, <1>10

\* The normalizer is called, and its end awaited.
LEMMA NormalizerKeeps ==
  ASSUME PipelineInv, NEW j \in Jobs, InputWritten(j) \/ NormalizerAwaited(j)
  PROVE  PipelineInv'
<1>1. /\ UNCHANGED <<vars, features, stt, fetching, slots, dirs>>
      /\ \E x \in Stages : stage' = [stage EXCEPT ![j] = x]
  BY DEF InputWritten, NormalizerAwaited, GoesTo, Stages
<1>2. Normalizer(j) \in Programs /\ Transcriber(j) \in Programs /\ Normalizer(j) # Transcriber(j)
  BY ProgramsOfJobs
<1>3. /\ JobSound(j) /\ stage \in [Jobs -> Stages] /\ run[Normalizer(j)] \in Program!RunRecords
  BY <1>2 DEF PipelineInv, PipelineTypeOK
<1>4. CASE InputWritten(j)
  <2>1. PICK q \in Program!Called(j \in aborted) : Program!Becomes(Normalizer(j), q)
    BY <1>4 DEF InputWritten, NormalizerCalled
  <2>2. /\ run' \in [Programs -> Program!RunRecords]
        /\ \A p \in Programs : Awaited(run'[p])
        /\ \A p \in Programs \ {Normalizer(j)} : run'[p] = run[p]
    BY <1>2, <2>1, RunIsCalled
  <2>3. JobMoves(j)
    BY <1>1, <2>2, UnchangedIsCalm, CalmGrows DEF JobMoves
  <2>4. ProviderBusy(j)' = ProviderBusy(j)
    BY <1>1, <1>2, <2>2 DEF ProviderBusy, Program!Pending, vars
  <2>5. stage[j] = "writing" /\ stage'[j] = "normalizing"
    BY <1>3, <1>4 DEF InputWritten, GoesTo
  <2>6. JobSound(j)'
    BY <1>1, <1>3, <2>4, <2>5 DEF JobSound
  <2> QED BY <2>3, <2>6, JobStep
<1>5. CASE NormalizerAwaited(j)
  <2>1. run' = [run EXCEPT ![Normalizer(j)] = Program!Forgotten(run[Normalizer(j)])]
    BY <1>5 DEF NormalizerAwaited, Program!Forgets, Program!Becomes
  <2>2. Settles(run[Normalizer(j)], Program!Forgotten(run[Normalizer(j)]))
    BY <1>3, ForgettingSettles
  <2>3. /\ run' \in [Programs -> Program!RunRecords]
        /\ \A p \in Programs : Awaited(run'[p]) /\ Settles(run[p], run'[p])
        /\ \A p \in Programs \ {Normalizer(j)} : run'[p] = run[p]
    BY <1>2, <2>1, <2>2, RunSettles
  <2>4. JobMoves(j)
    BY <1>1, <2>3, UnchangedIsCalm, CalmGrows DEF JobMoves
  <2>5. ProviderBusy(j)' = ProviderBusy(j)
    BY <1>1, <1>2, <2>3 DEF ProviderBusy, Program!Pending, vars
  <2>6. /\ stage[j] = "normalizing" /\ stage'[j] \in {"measuring", "cleaning"}
        /\ run[Normalizer(j)].promise # "pending"
    BY <1>3, <1>5 DEF NormalizerAwaited, NormalizerDone, GoesTo, Program!Settled
  <2>7. run'[Normalizer(j)].promise # "pending"
    BY <1>2, <2>3, <2>6 DEF Settles
  <2>8. JobSound(j)'
    BY <1>1, <1>3, <2>5, <2>6, <2>7 DEF JobSound
  <2> QED BY <2>4, <2>8, JobStep
<1> QED BY <1>4, <1>5

\* The branches start: the provider is asked, for the only time.
LEMMA BranchesKeeps ==
  ASSUME PipelineInv, IInv, NEW j \in Jobs, Branches(j)
  PROVE  PipelineInv'
<1>1. /\ stage' = [stage EXCEPT ![j] = "branching"]
      /\ features' = [features EXCEPT ![j] = "reading"]
      /\ UNCHANGED <<slots, dirs>> /\ stage[j] = "measuring"
  BY DEF Branches, GoesTo
<1>2. Normalizer(j) \in Programs /\ Transcriber(j) \in Programs /\ Normalizer(j) # Transcriber(j)
  BY ProgramsOfJobs
<1>3. JobSound(j) /\ PipelineTypeOK
  BY DEF PipelineInv
<1>4. CASE NeedsNoProvider(j)
  <2>1. stt' = [stt EXCEPT ![j] = "returned"] /\ UNCHANGED <<vars, fetching, run>>
    BY <1>4 DEF NeedsNoProvider
  <2>2. JobMoves(j)
    BY <1>1, <2>1, UnchangedIsCalm, CalmGrows, RunsStay
       DEF JobMoves, Stages, FeatureStates, SttStates
  <2>3. stage'[j] = "branching" /\ stt'[j] = "returned" /\ j \in slots' \intersect dirs'
    BY <1>1, <1>3, <2>1 DEF PipelineTypeOK, JobSound
  <2>4. JobSound(j)'
    BY <1>1, <1>3, <2>1, <2>3 DEF JobSound
  <2> QED BY <2>2, <2>4, JobStep
<1>5. CASE stt' = [stt EXCEPT ![j] = "racing"] /\ ProviderStarts(j)
  <2>1. Calm({j})
    <3>1. CASE AsksWorker(j)
      BY <3>1 DEF AsksWorker, Transcribe, Calm, Busy
    <3>2. CASE RunsWhisper(j) \/ AsksServer(j) \/ Refuses
      BY <3>2, UnchangedIsCalm, CalmGrows DEF RunsWhisper, AsksServer, Refuses
    <3> QED BY <1>5, <3>1, <3>2 DEF ProviderStarts
  <2>2. fetching' = fetching \/ \E x \in FetchStates : fetching' = [fetching EXCEPT ![j] = x]
    BY <1>5 DEF ProviderStarts, AsksWorker, RunsWhisper, AsksServer, Refuses, FetchStates
  <2>3. /\ run' \in [Programs -> Program!RunRecords]
        /\ \A p \in Programs : Awaited(run'[p])
        /\ \A p \in Programs \ {Transcriber(j)} : run'[p] = run[p]
    <3>1. CASE RunsWhisper(j)
      <4>1. PICK q \in Program!Called(j \in aborted) : Program!Becomes(Transcriber(j), q)
        BY <3>1 DEF RunsWhisper
      <4> QED BY <1>2, <4>1, RunIsCalled
    <3>2. CASE AsksWorker(j) \/ AsksServer(j) \/ Refuses
      <4>1. run' = run
        BY <3>2 DEF AsksWorker, AsksServer, Refuses
      <4> QED BY <4>1, RunsStay
    <3> QED BY <1>5, <3>1, <3>2 DEF ProviderStarts
  <2>4. JobMoves(j)
    BY <1>1, <1>5, <2>1, <2>2, <2>3 DEF JobMoves, Stages, FeatureStates, SttStates
  <2>5. stage'[j] = "branching" /\ stt'[j] = "racing" /\ j \in slots' \intersect dirs'
    BY <1>1, <1>3, <1>5 DEF PipelineTypeOK, JobSound
  <2>6. run'[Normalizer(j)].promise # "pending"
    BY <1>1, <1>2, <1>3, <2>3 DEF JobSound
  <2>7. JobSound(j)'
    BY <2>5, <2>6 DEF JobSound
  <2> QED BY <2>4, <2>7, JobStep
<1> QED BY <1>4, <1>5 DEF Branches

\* A branch ends: the features are taken, or the provider has settled.
LEMMA BranchEndKeeps ==
  ASSUME PipelineInv, NEW j \in Jobs, FeaturesTaken(j) \/ ProviderAwaited(j)
  PROVE  PipelineInv'
<1>1. Normalizer(j) \in Programs /\ Transcriber(j) \in Programs /\ Normalizer(j) # Transcriber(j)
  BY ProgramsOfJobs
<1>2. JobSound(j) /\ PipelineTypeOK
  BY DEF PipelineInv
<1>3. CASE FeaturesTaken(j)
  <2>1. /\ UNCHANGED <<vars, stage, stt, fetching, dirs, slots, run>>
        /\ \E x \in FeatureStates : features' = [features EXCEPT ![j] = x]
        /\ features[j] = "reading"
    BY <1>3 DEF FeaturesTaken, FeatureStates
  <2>2. JobMoves(j)
    BY <2>1, UnchangedIsCalm, CalmGrows, RunsStay DEF JobMoves
  <2>3. Restful(j)
    BY <2>1 DEF Restful, vars
  <2>4. JobSound(j)'
    BY <1>2, <2>1, <2>3, JobStays
  <2> QED BY <2>2, <2>4, JobStep
<1>4. CASE ProviderAwaited(j)
  <2> DEFINE q == Program!Forgotten(run[Transcriber(j)])
  <2>1. /\ UNCHANGED <<vars, stage, features, fetching, dirs, slots>>
        /\ stt[j] \in {"racing", "settling"} /\ ~ProviderBusy(j)
        /\ run' = [run EXCEPT ![Transcriber(j)] = q]
    BY <1>4 DEF ProviderAwaited, ProviderDone, Program!Forgets, Program!Becomes
  <2>2. \E x \in {"returned", "threw"} : stt' = [stt EXCEPT ![j] = x]
    BY <1>4 DEF ProviderAwaited
  <2>3. Settles(run[Transcriber(j)], q)
    BY <1>1, <1>2, ForgettingSettles DEF PipelineTypeOK
  <2> HIDE DEF q
  <2>4. /\ run' \in [Programs -> Program!RunRecords]
        /\ \A p \in Programs : Awaited(run'[p]) /\ Settles(run[p], run'[p])
        /\ \A p \in Programs \ {Transcriber(j)} : run'[p] = run[p]
    BY <1>1, <2>1, <2>3, RunSettles
  <2>5. JobMoves(j)
    BY <2>1, <2>2, <2>4, UnchangedIsCalm, CalmGrows DEF JobMoves, SttStates
  <2>6. Restful(j)
    BY <1>1, <2>1, <2>4 DEF Restful, Settles, vars
  <2>7. ~ProviderBusy(j)'
    BY <2>1, <2>6, RestfulIsNotBusier
  <2>8. run'[Normalizer(j)] = run[Normalizer(j)] /\ stt'[j] \in {"returned", "threw"}
    BY <1>1, <1>2, <2>2, <2>4 DEF PipelineTypeOK
  <2>9. JobSound(j)'
    BY <1>2, <2>1, <2>7, <2>8 DEF JobSound
  <2> QED BY <2>5, <2>9, JobStep
<1> QED BY <1>3, <1>4

\* What hears of a cancellation is called no more than before.
LEMMA CutIsRestful ==
  ASSUME PipelineInv, IInv, NEW j \in Jobs, NEW runs \in [Programs -> Program!RunRecords],
         ProviderIsCut(j, runs)
  PROVE  /\ Calm({}) /\ run' \in [Programs -> Program!RunRecords]
         /\ \A p \in Programs \ {Transcriber(j)} : run'[p] = runs[p]
         /\ Settles(runs[Transcriber(j)], run'[Transcriber(j)])
<1>1. request \in [Requests -> RequestStates]
  BY DEF IInv, TypeOK, RequestStates
<1>2. Calm({})
  BY <1>1, WorkerIsCalm, UnchangedIsCalm DEF ProviderIsCut, Jobs
<1>3. Transcriber(j) \in Programs
  BY ProgramsOfJobs
<1>4. run' = [runs EXCEPT ![Transcriber(j)] = Program!Aborted(runs[Transcriber(j)])]
  BY DEF ProviderIsCut
<1>5. Settles(runs[Transcriber(j)], Program!Aborted(runs[Transcriber(j)]))
  BY <1>3, AbortSettles
<1> QED BY <1>2, <1>3, <1>4, <1>5 DEF Settles

\* The transcript is late, or the attempt is cancelled.
LEMMA CutKeeps ==
  ASSUME PipelineInv, IInv, NEW j \in Jobs, SttDeadline(j) \/ Cancel(j)
  PROVE  PipelineInv'
<1>1. Normalizer(j) \in Programs /\ Transcriber(j) \in Programs /\ Normalizer(j) # Transcriber(j)
  BY ProgramsOfJobs
<1>2. JobSound(j) /\ PipelineTypeOK /\ run \in [Programs -> Program!RunRecords]
  BY DEF PipelineInv, PipelineTypeOK
<1>3. /\ UNCHANGED <<stage, features, fetching, dirs, slots>>
      /\ \/ stt[j] = "racing" /\ \E x \in {"returned", "settling"} : stt' = [stt EXCEPT ![j] = x]
         \/ stt[j] # "racing" /\ stt' = [stt EXCEPT ![j] = stt[j]]
  BY DEF SttDeadline, Cancel
<1>4. /\ Calm({}) /\ run' \in [Programs -> Program!RunRecords]
      /\ \A p \in Programs \ {Normalizer(j), Transcriber(j)} : run'[p] = run[p]
      /\ Settles(run[Normalizer(j)], run'[Normalizer(j)])
      /\ Settles(run[Transcriber(j)], run'[Transcriber(j)])
  <2>1. CASE SttDeadline(j)
    <3>1. ProviderIsCut(j, run)
      BY <2>1 DEF SttDeadline
    <3>2. Settles(run[Normalizer(j)], run[Normalizer(j)])
      BY <1>1, <1>2 DEF Settles
    <3> QED BY <1>1, <1>2, <3>1, <3>2, CutIsRestful
  <2>2. CASE Cancel(j)
    <3> DEFINE runs == [run EXCEPT ![Normalizer(j)] = Program!Aborted(run[Normalizer(j)])]
    <3>1. Settles(run[Normalizer(j)], Program!Aborted(run[Normalizer(j)]))
      BY <1>1, <1>2, AbortSettles
    <3>2. /\ runs \in [Programs -> Program!RunRecords]
          /\ runs[Transcriber(j)] = run[Transcriber(j)]
          /\ Settles(run[Normalizer(j)], runs[Normalizer(j)])
          /\ \A p \in Programs \ {Normalizer(j)} : runs[p] = run[p]
      BY <1>1, <1>2, <3>1 DEF Settles
    <3>3. Settles(run[Transcriber(j)], run[Transcriber(j)])
      BY <1>1, <1>2 DEF Settles
    <3>4. ProviderIsCut(j, runs) \/ (run' = runs /\ UNCHANGED vars)
      BY <2>2 DEF Cancel
    <3> HIDE DEF runs
    <3>5. CASE ProviderIsCut(j, runs)
      BY <1>1, <3>2, <3>5, CutIsRestful
    <3>6. CASE run' = runs /\ UNCHANGED vars
      BY <1>1, <3>2, <3>3, <3>6, UnchangedIsCalm
    <3> QED BY <3>4, <3>5, <3>6
  <2> QED BY <2>1, <2>2
<1>5. \A p \in Programs : Awaited(run'[p])
  BY <1>4 DEF PipelineInv, Settles
<1>6. stt' = stt \/ \E x \in SttStates : stt' = [stt EXCEPT ![j] = x]
  BY <1>2, <1>3 DEF PipelineTypeOK, SttStates
<1>7. JobMoves(j)
  BY <1>3, <1>4, <1>5, <1>6, CalmGrows DEF JobMoves
<1>8. Restful(j)
  BY <1>3, <1>4 DEF Restful, Settles, Calm, Jobs
<1>9. CASE stt'[j] = stt[j]
  BY <1>2, <1>3, <1>7, <1>8, <1>9, JobStays, JobStep
<1>10. CASE stt[j] = "racing" /\ stt'[j] \in {"returned", "settling"}
  <2>1. run'[Normalizer(j)].promise = "pending" => stage[j] = "normalizing"
    BY <1>2, <1>8 DEF JobSound, Restful
  <2>2. JobSound(j)'
    BY <1>2, <1>3, <1>8, <1>10, <2>1, RestfulIsNotBusier DEF JobSound
  <2> QED BY <1>7, <2>2, JobStep
<1>11. stt'[j] = stt[j] \/ (stt[j] = "racing" /\ stt'[j] \in {"returned", "settling"})
  BY <1>2, <1>3 DEF PipelineTypeOK
<1> QED BY <1>9, <1>10, <1>11

LEMMA PipelineInitIsSound == PipelineInit => PipelineInv
<1> SUFFICES ASSUME PipelineInit PROVE PipelineInv
  OBVIOUS
<1>1. /\ run = [p \in Programs |-> Program!NotCalled]
      /\ request = [r \in Requests |-> "new"]
  BY DEF PipelineInit, Init, Program!Init
<1>2. PipelineTypeOK
  BY <1>1 DEF PipelineInit, PipelineTypeOK, Stages, FeatureStates, SttStates, FetchStates,
              Program!NotCalled, Program!RunRecords
<1>3. \A p \in Programs : Awaited(run[p]) /\ run[p].promise = "none"
  BY <1>1 DEF Awaited, Program!NotCalled
<1>4. ASSUME NEW j \in Jobs PROVE JobSound(j)
  <2>1. stage[j] = "idle" /\ stt[j] = "none" /\ fetching[j] = "none" /\ request[j] = "new"
    BY <1>1 DEF PipelineInit, Jobs
  <2>2. run[Normalizer(j)].promise = "none" /\ run[Transcriber(j)].promise = "none"
    BY <1>3, ProgramsOfJobs
  <2> QED BY <2>1, <2>2 DEF JobSound, ProviderBusy, Program!Pending
<1> QED BY <1>2, <1>3, <1>4 DEF PipelineInv

LEMMA PipelineStepIsSound ==
  ASSUME PipelineInv, IInv, [PipelineNext]_pipelineVars PROVE PipelineInv'
<1>1. ASSUME NEW j \in Jobs, RunPipeline(j) PROVE PipelineInv'
  BY <1>1, StageKeeps
<1>2. ASSUME NEW j \in Jobs, FileEvent(j) PROVE PipelineInv'
  BY <1>2, NormalizerKeeps, StageKeeps, BranchesKeeps, BranchEndKeeps, QuietKeeps DEF FileEvent
<1>3. ASSUME NEW j \in Jobs, Continues(j) PROVE PipelineInv'
  BY <1>3, NormalizerKeeps, BranchEndKeeps, StageKeeps DEF Continues
<1>4. ASSUME NEW j \in Jobs, SttDeadline(j) \/ Cancel(j) PROVE PipelineInv'
  BY <1>4, CutKeeps
<1> QED BY <1>1, <1>2, <1>3, <1>4, QuietKeeps DEF PipelineNext

-----------------------------------------------------------------------------
(* What the worker's process has not answered.                              *)

\* A request that the process still has to answer is pending, unless the process
\* was told to stop.
ServedIsKnown == \A r \in serving : request[r] = "sent" \/ stopping # "no"

LEMMA TerminationIsKnown ==
  ASSUME IInv, ServedIsKnown, NEW kind \in {"stopped", "failed"}, NEW calls, NEW requests,
         Terminate(kind, calls, requests), serving' \subseteq serving,
         \A r \in serving' : requests[r] = request[r] \/ child
  PROVE  ServedIsKnown'
<1>1. \A r \in serving : stopping # "no" \/ child
  BY DEF ServedIsKnown, IInv, TypeOK, WaitsAreTrue
<1>2. CASE stopping # "no"
  BY <1>2 DEF Terminate, processVars, ServedIsKnown
<1>3. CASE stopping = "no" /\ child
  <2>1. stopping' = kind
    BY <1>3 DEF Terminate
  <2> QED BY <2>1 DEF ServedIsKnown
<1>4. CASE stopping = "no" /\ ~child
  <2>1. serving = {}
    BY <1>1, <1>4
  <2> QED BY <2>1 DEF ServedIsKnown
<1> QED BY <1>2, <1>3, <1>4

LEMMA ServedStaysKnown == IInv /\ ServedIsKnown /\ [Next]_vars => ServedIsKnown'
<1> SUFFICES ASSUME IInv, ServedIsKnown, [Next]_vars PROVE ServedIsKnown'
  OBVIOUS
<1>1. \A r \in serving : r \in Requests /\ (stopping # "no" \/ child)
  BY DEF ServedIsKnown, IInv, TypeOK, WaitsAreTrue
<1>2. Fail => ServedIsKnown'
  BY TerminationIsKnown DEF Fail
<1>3. ASSUME NEW r \in Requests, Transcribe(r) PROVE ServedIsKnown'
  <2>1. /\ request[r] = "new" /\ request' = [request EXCEPT ![r] = "waiting"]
        /\ serving' = serving /\ stopping' = stopping
    BY <1>3 DEF Transcribe, Start, Continue, Launch, processVars
  <2> QED BY <1>1, <2>1 DEF ServedIsKnown, IInv, TypeOK
<1>4. ASSUME NEW r \in Requests, Abort(r) PROVE ServedIsKnown'
  <2> DEFINE after == [request EXCEPT ![r] = "aborted"]
  <2>1. Terminate("stopped", call, after) /\ serving' = serving
    BY <1>4 DEF Abort
  <2>2. CASE stopping = "no"
    <3>1. \A q \in serving' : child
      BY <1>1, <2>1, <2>2
    <3> HIDE DEF after
    <3> QED BY <2>1, <3>1, TerminationIsKnown
  <2>3. CASE stopping # "no"
    BY <2>1, <2>3 DEF Terminate, processVars, ServedIsKnown
  <2> QED BY <2>2, <2>3
<1>5. ASSUME NEW r \in Requests, Answer(r) PROVE ServedIsKnown'
  BY <1>1, <1>5 DEF Answer, processVars, ServedIsKnown, IInv, TypeOK
<1>6. ASSUME NEW r \in Requests, BadAnswer(r) PROVE ServedIsKnown'
  <2> DEFINE after == [request EXCEPT ![r] = "failed"]
  <2>1. Terminate("failed", call, after) /\ serving' = serving \ {r} /\ child
    BY <1>6 DEF BadAnswer, Message
  <2> HIDE DEF after
  <2> QED BY <2>1, TerminationIsKnown
<1>7. ASSUME NEW c \in Callers, StopAwaited(c) \/ StartAwaited(c) PROVE ServedIsKnown'
  BY <1>7 DEF StopAwaited, StartAwaited, Continue, Launch, processVars, ServedIsKnown
<1>8. ASSUME NEW r \in Requests, Send(r) PROVE ServedIsKnown'
  <2>1. /\ request' = [request EXCEPT ![r] = "sent"] /\ serving' = serving \union {r}
        /\ stopping' = stopping
    BY <1>8 DEF Send, processVars
  <2> QED BY <1>1, <2>1 DEF ServedIsKnown, IInv, TypeOK
<1>9. ASSUME NEW r \in Requests, Refuse(r) PROVE ServedIsKnown'
  <2>1. /\ request[r] = "waiting" /\ request' = [request EXCEPT ![r] = "refused"]
        /\ serving' = serving /\ stopping' = stopping
    BY <1>9 DEF Refuse, processVars
  <2> QED BY <1>1, <2>1 DEF ServedIsKnown, IInv, TypeOK
<1>10. ASSUME NEW r \in Requests, SendFails(r) PROVE ServedIsKnown'
  <2> DEFINE after == [request EXCEPT ![r] = "failed"]
             calls == [call EXCEPT ![r] = "done"]
  <2>1. Terminate("failed", calls, after) /\ serving' = serving /\ child
    BY <1>10 DEF SendFails, Accepts
  <2> HIDE DEF after, calls
  <2> QED BY <2>1, TerminationIsKnown
<1>11. ASSUME NEW p \in Probes, Probe(p) PROVE ServedIsKnown'
  BY <1>11 DEF Probe, Start, Continue, Launch, processVars, ServedIsKnown
<1>12. CASE Stop
  BY <1>12, TerminationIsKnown DEF Stop
<1>13. CASE Close
  BY <1>13 DEF Close, ServedIsKnown
<1>14. CASE ReadyMessage
  BY <1>2, <1>14 DEF ReadyMessage, ServedIsKnown
<1>15. CASE BadMessage \/ StartupTimeout
  BY <1>2, <1>15 DEF BadMessage, StartupTimeout
<1>16. CASE UNCHANGED vars
  BY <1>16 DEF vars, processVars, ServedIsKnown
<1> QED
  BY <1>3, <1>4, <1>5, <1>6, <1>7, <1>8, <1>9, <1>10, <1>11, <1>12, <1>13,
     <1>14, <1>15, <1>16 DEF Next, Resume

LEMMA ServedInPipeline == PipelineSpec => []ServedIsKnown
<1>1. PipelineInit => ServedIsKnown
  BY DEF PipelineInit, Init, ServedIsKnown
<1>2. IInv /\ ServedIsKnown /\ [PipelineNext]_pipelineVars => ServedIsKnown'
  BY ServedStaysKnown, PipelineTakesWorkerSteps
<1> QED BY <1>1, <1>2, WorkerInPipeline, PTL DEF PipelineSpec

\* Whatever its programs ignore and whenever it is cancelled or late, a job keeps
\* its slot and its directory for as long as its provider, one of its programs or
\* the worker's process is at work on it; unless its features failed, or all that is
\* left is a worker's process that has been told to stop.
THEOREM SlotsAreKept == PipelineSpec => []SlotOutlastsWork
<1>1. PipelineInv /\ ServedIsKnown => SlotOutlastsWork
  <2> SUFFICES ASSUME PipelineInv, ServedIsKnown, NEW j \in Jobs, Working(j),
                      features[j] \notin {"threw", "failed"}, ~OnlyBeingStopped(j)
               PROVE  j \in slots \intersect dirs
    BY DEF SlotOutlastsWork
  <2>1. JobSound(j) /\ stage[j] \in Stages
    BY DEF PipelineInv, PipelineTypeOK
  <2>2. /\ Program!Alive(Normalizer(j)) => run[Normalizer(j)].promise = "pending"
        /\ Program!Alive(Transcriber(j)) => ProviderBusy(j)
    BY ProgramsOfJobs DEF PipelineInv, Awaited, Program!Alive, ProviderBusy, Program!Pending
  <2>3. CASE ProviderBusy(j)
    BY <2>1, <2>3 DEF JobSound, Stages
  <2>4. CASE run[Normalizer(j)].promise = "pending"
    BY <2>1, <2>4 DEF JobSound
  <2>5. j \in serving => request[j] = "sent" \/ stopping # "no"
    BY DEF ServedIsKnown
  <2>6. request[j] = "sent" => ProviderBusy(j)
    BY DEF ProviderBusy
  <2>7. ProviderBusy(j) \/ run[Normalizer(j)].promise = "pending"
    BY <2>2, <2>5, <2>6 DEF Working, OnlyBeingStopped, ProgramAtWork
  <2> QED BY <2>3, <2>4, <2>7
<1>2. PipelineInv /\ IInv /\ [PipelineNext]_pipelineVars => PipelineInv'
  BY PipelineStepIsSound
<1> QED BY <1>1, <1>2, PipelineInitIsSound, WorkerInPipeline, ServedInPipeline, PTL DEF PipelineSpec
=============================================================================
