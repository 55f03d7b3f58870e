------------------------------ MODULE Recorder -------------------------------
(***************************************************************************)
(* The recorder of the page (useRecorder): a press of the button asks for  *)
(* the microphone, captures - as an ordered stream, or as one batch that   *)
(* is uploaded afterwards - registers a session meanwhile, and tells the   *)
(* user how the turn ended.  Each of these is a coroutine of its own that  *)
(* may find, after any of its awaits, that the press has failed, that a    *)
(* newer one is under way, or that the page is going.                      *)
(*                                                                         *)
(* A request and its retry are one request here, answered or given up; the *)
(* one that creates a session may still reach the server afterwards.  The  *)
(* messages that are shown are reduced to what they say of the server,     *)
(* `claim`.  The identity that is shown until a session is registered      *)
(* (pendingSessionId) is left out, and so are the sessions that a kiosk    *)
(* discovers by itself.                                                    *)
(***************************************************************************)
EXTENDS PcmCapture

CONSTANTS
  Modes,           \* "pcm" and "batch": what the browser supports and is asked for
  NoPress, Manual  \* nobody, and the typed transcript, as holders of the input

ASSUME HoldersAreOthers == NoPress = 0 /\ Manual \notin Turns \union {0}

ASSUME ModesAreKnown == Modes \subseteq {"pcm", "batch"}

VARIABLES
  mode,        \* of this page
  status,      \* what the button shows
  lease,       \* who has the input: a press, the typed transcript or nobody
  press,       \* the latest press; moved on once more when the page goes
  active,      \* the press whose capture is the active one
  leaving,     \* whether the page is going
  bound,       \* whose session is shown
  cap          \* what the coroutines of each press are at

pageVars == <<mode, status, lease, press, active, leaving, bound, cap>>
vars     == <<captureVars, pageVars>>

Idle == [mic |-> "none", start |-> "none", registration |-> "none",
         recorder |-> "none", finish |-> "none", failing |-> "none",
         report |-> "none", aborted |-> FALSE, claim |-> "none"]

Init ==
  /\ CaptureInit
  /\ mode \in Modes /\ status = "idle" /\ lease = NoPress /\ press = 0
  /\ active = NoPress /\ leaving = FALSE /\ bound = NoPress
  /\ cap = [p \in Turns |-> Idle]

-----------------------------------------------------------------------------
Becomes(p, c) == cap' = [cap EXCEPT ![p] = c]

Without(holder, p) == IF holder = p THEN NoPress ELSE holder

Silenced(c) == [c EXCEPT !.mic = IF @ = "live" THEN "off" ELSE @]

IsCurrent(p) == press = p /\ ~leaving

\* assertActiveCapture.
IsActive(p) == active = p /\ ~cap[p].aborted

Showing(s) == status' = s

Steady == UNCHANGED <<mode, press, leaving>>

-----------------------------------------------------------------------------
(* Starting.                                                                *)

Press ==
  /\ status \in {"idle", "error"} /\ ~leaving
  /\ active = NoPress /\ lease = NoPress
  /\ press + 1 \in Turns
  /\ press' = press + 1 /\ lease' = press'
  /\ Showing("authorizing")
  /\ Becomes(press', [Idle EXCEPT !.mic = "asked", !.start = "asking"])
  /\ UNCHANGED <<captureVars, mode, active, leaving, bound>>

\* The start throws: whatever it has of the microphone is stopped before the lease
\* is given back.
StartFails(p, mic) ==
  /\ Becomes(p, [cap[p] EXCEPT !.start = "ended", !.mic = mic])
  /\ lease' = Without(lease, p) /\ active' = Without(active, p)
  /\ IF IsCurrent(p) THEN Showing("error") ELSE UNCHANGED status
  /\ UNCHANGED <<captureVars, bound>> /\ Steady

MicrophoneRefused(p) ==
  /\ cap[p].mic = "asked"
  /\ IF cap[p].start = "asking" THEN StartFails(p, "off")
     ELSE Becomes(p, [cap[p] EXCEPT !.mic = "off"])
          /\ UNCHANGED <<captureVars, mode, status, lease, press, active, leaving, bound>>

\* The request goes on, and may be granted later.
MicrophoneTimesOut(p) == cap[p].start = "asking" /\ StartFails(p, cap[p].mic)

\* A microphone that comes too late is stopped at once.
MicrophoneGranted_KeepsLate(p) ==
  /\ cap[p].mic = "asked"
  /\ cap[p].start # "asking"
  /\ Becomes(p, [cap[p] EXCEPT !.mic = "live"])
  /\ UNCHANGED <<captureVars, mode, status, lease, press, active, leaving, bound>>

MicrophoneGranted(p) ==
  /\ cap[p].mic = "asked"
  /\ IF cap[p].start # "asking"
     THEN /\ Becomes(p, [cap[p] EXCEPT !.mic = "off"])
          /\ UNCHANGED <<captureVars, mode, status, lease, press, active, leaving, bound>>
     ELSE IF press # p THEN StartFails(p, "off")
     ELSE \/ StartFails(p, "off")
          \/ /\ mode = "pcm"
             /\ Becomes(p, [cap[p] EXCEPT !.mic = "live", !.start = "starting"])
             /\ UNCHANGED <<captureVars, status, lease, active, bound>> /\ Steady
          \/ /\ mode = "batch"
             /\ Becomes(p, [cap[p] EXCEPT !.mic = "live", !.start = "ended",
                                          !.recorder = "on",
                                          !.registration = "creating"])
             /\ active' = p /\ Showing("recording")
             /\ UNCHANGED <<captureVars, lease, bound>> /\ Steady

\* The audio context, the worklet or a track fails, or does not start in time.
CaptureFailsToStart(p) == cap[p].start = "starting" /\ StartFails(p, "off")

\* The worklet is armed.  A press that is no longer the latest aborts its capture
\* before the server has heard of it.
CaptureStarts(p) ==
  /\ cap[p].start = "starting"
  /\ IF ~IsCurrent(p) THEN StartFails(p, "off")
     ELSE /\ NewTransport(p)
          /\ Becomes(p, [cap[p] EXCEPT !.start = "ended", !.registration = "creating"])
          /\ active' = p /\ Showing("recording")
          /\ UNCHANGED <<lease, bound>> /\ Steady

-----------------------------------------------------------------------------
(* A stream that fails while it is captured.                                *)

\* failOrderedPcmCapture, until the audio context is closed.
Failing(c) == [c EXCEPT !.failing = "closing", !.aborted = TRUE]

Concerns(p) == cap[p].failing = "none" /\ active = p /\ ~leaving

\* onFailure: a transport that fails before its stop was requested.
Raised == Alive(t) /\ t.stop = "no" /\ t'.verdict = "failed"

Notices ==
  /\ cap' = IF Raised /\ Concerns(turn) THEN [cap EXCEPT ![turn] = Failing(@)] ELSE cap
  /\ UNCHANGED <<status, lease, active, bound>> /\ Steady

\* The failure is shown, whatever has become of the press meanwhile, and is then
\* reported as well as may be.
FailureIsShown(p) ==
  /\ cap[p].failing = "closing"
  /\ Becomes(p, [Silenced(cap[p]) EXCEPT !.failing = "done", !.report = "creating"])
  /\ lease' = Without(lease, p) /\ active' = Without(active, p)
  /\ Showing("error")
  /\ UNCHANGED <<captureVars, bound>> /\ Steady

\* The report binds its session only while nothing newer was begun.
ReportBinds_Always(p) == TRUE
ReportBinds(p) == ~leaving /\ press = p /\ active = NoPress

ReportRegisters(p) ==
  /\ cap[p].report = "creating" /\ session[p] # "none"
  /\ Becomes(p, [cap[p] EXCEPT !.report = "posting"])
  /\ bound' = IF ReportBinds(p) THEN p ELSE bound
  /\ UNCHANGED <<captureVars, status, lease, active>> /\ Steady

ReportIsGivenUp(p) ==
  /\ cap[p].report \in {"creating", "posting"}
  /\ Becomes(p, [cap[p] EXCEPT !.report = "done"])
  /\ UNCHANGED <<captureVars, status, lease, active, bound>> /\ Steady

-----------------------------------------------------------------------------
(* Registering.                                                             *)

Asked(p) == cap[p].registration # "none" \/ cap[p].report # "none"

\* The request to create the session reaches the server.
SessionIsCreated(p) ==
  /\ Asked(p) /\ session[p] = "none"
  /\ session' = [session EXCEPT ![p] = "created"]
  /\ UNCHANGED <<turn, source, port, t, wire, answers, link, stream, spooled, pageVars>>

RegistrationAnswers(p) ==
  /\ cap[p].registration = "creating" /\ session[p] # "none"
  /\ LET becomes(r) == Becomes(p, [cap[p] EXCEPT !.registration = r])
     IN  IF ~IsActive(p) THEN becomes("failed") /\ UNCHANGED <<captureVars, bound>>
         ELSE IF mode = "batch"
         THEN becomes("starting") /\ UNCHANGED <<captureVars, bound>>
         ELSE /\ becomes("ok") /\ bound' = p
              /\ t' = Connecting(t)
              /\ UNCHANGED <<turn, source, port, wire, answers, serverVars>>
  /\ UNCHANGED <<status, lease, active>> /\ Steady

\* A batch recording tells the server that it has started.
StartIsTold(p) ==
  /\ cap[p].registration = "starting" /\ session[p] = "created"
  /\ session' = [session EXCEPT ![p] = "recording"]
  /\ UNCHANGED <<turn, source, port, t, wire, answers, link, stream, spooled, pageVars>>

StartIsAnswered(p) ==
  /\ cap[p].registration = "starting" /\ session[p] = "recording"
  /\ Becomes(p, [cap[p] EXCEPT !.registration = IF IsActive(p) THEN "ok" ELSE "failed"])
  /\ bound' = IF IsActive(p) THEN p ELSE bound
  /\ UNCHANGED <<captureVars, status, lease, active>> /\ Steady

\* No answer in time, a refusal, or the press was cancelled.  A stream fails with it;
\* a batch goes on recording.
RegistrationFails(p) ==
  /\ cap[p].registration \in {"creating", "starting"}
  /\ LET c == [cap[p] EXCEPT !.registration = "failed"]
         fails == mode = "pcm" /\ Concerns(p) /\ ~cap[p].aborted
     IN  /\ Becomes(p, IF fails THEN Failing(c) ELSE c)
         /\ IF fails THEN Ends("aborted", port) ELSE UNCHANGED <<t, source, port>>
  /\ UNCHANGED <<turn, wire, answers, serverVars,
                 status, lease, active, bound>> /\ Steady

-----------------------------------------------------------------------------
(* Finishing a stream.                                                      *)

\* What every end of a finish does.
Released(c) == [Silenced(c) EXCEPT !.finish = "done"]

Over(p, c) ==
  /\ Becomes(p, Released(c))
  /\ lease' = Without(lease, p) /\ active' = Without(active, p)
  /\ UNCHANGED bound /\ Steady

Cancelled(p) == cap[p].aborted \/ leaving

Tells(p, shown, claim) ==
  Showing(shown) /\ Over(p, [cap[p] EXCEPT !.claim = claim])

\* stop() throws: a press that nobody handles yet is checked against the server.
StopThrows(p) ==
  IF Cancelled(p) \/ cap[p].failing # "none"
  THEN Over(p, cap[p]) /\ UNCHANGED status
  ELSE /\ Becomes(p, [Silenced(cap[p]) EXCEPT !.finish = "checking"])
       /\ UNCHANGED <<status, lease, active, bound>> /\ Steady

\* While a failed capture is being closed, its graph is gone and stop() throws at once.
PressToStopStream ==
  /\ Showing("uploading")
  /\ IF cap[active].failing = "none"
     THEN /\ AskWorkletToStop
          /\ Becomes(active, [cap[active] EXCEPT !.finish = "worklet"])
          /\ UNCHANGED <<lease, active, bound>> /\ Steady
     ELSE Over(active, cap[active]) /\ UNCHANGED captureVars

PressToStopBatch ==
  /\ cap[active].recorder = "on"
  /\ Showing("stopping")
  /\ Becomes(active, [cap[active] EXCEPT !.recorder = "stopping"])
  /\ UNCHANGED <<captureVars, lease, active, bound>> /\ Steady

PressToStop ==
  /\ status = "recording" /\ ~leaving
  /\ IF mode = "pcm" THEN PressToStopStream ELSE PressToStopBatch

\* The worklet has flushed: the microphone is closed, and the transport stops.
WorkletIsStopped ==
  /\ WorkletStopArrives
  /\ IF cap[turn].finish # "worklet"
     THEN UNCHANGED pageVars
     ELSE IF Alive(t)
     THEN /\ Becomes(turn, [Silenced(cap[turn]) EXCEPT !.finish = "transport"])
          /\ UNCHANGED <<status, lease, active, bound>> /\ Steady
     ELSE StopThrows(turn)

\* The transport of a press that has failed may have made way for a newer one.
Settled(p) == turn # p \/ ~Alive(t)

StopTimesOut_InTransit(p) ==
  /\ cap[p].finish = "transport" /\ ~Settled(p)
  /\ Ends("aborted", port)
  /\ StopThrows(p)
  /\ UNCHANGED <<turn, wire, answers, serverVars>>

\* The worklet does not flush, or the stop is not sent or not answered, in time.
StopTimesOut(p) ==
  /\ \/ cap[p].finish = "worklet"
     \/ cap[p].finish = "transport" /\ ~Settled(p)
  /\ IF turn = p THEN Ends("aborted", port) ELSE UNCHANGED <<t, source, port>>
  /\ StopThrows(p)
  /\ UNCHANGED <<turn, wire, answers, serverVars>>

TransportSettles(p) ==
  /\ cap[p].finish = "transport" /\ Settled(p)
  /\ IF t.verdict = "final" /\ IsActive(p) THEN Tells(p, "idle", "done")
     ELSE StopThrows(p)
  /\ UNCHANGED captureVars

CheckAnswers_TrustsTheStop(p) ==
  /\ cap[p].finish = "checking" /\ cap[p].registration = "ok" /\ ~Cancelled(p)
  /\ CASE session[p] \in {"result", "processing"} -> Tells(p, "idle", "done")
       [] session[p] \in {"error", "reset"}        -> Tells(p, "error", "sealed")
       [] session[p] \in {"created", "recording"}  ->
            /\ Becomes(p, [cap[p] EXCEPT !.finish = "posting"])
            /\ UNCHANGED <<status, lease, active, bound>> /\ Steady
  /\ UNCHANGED captureVars

\* The final answer may have been lost: the session is asked how it ended.
CheckAnswers(p) ==
  /\ cap[p].finish = "checking" /\ cap[p].registration = "ok" /\ ~Cancelled(p)
  /\ CASE session[p] = "result" /\ stream.complete -> Tells(p, "idle", "done")
       [] session[p] \in {"error", "reset"}        -> Tells(p, "error", "sealed")
       [] session[p] \in {"created", "recording"}  ->
            /\ Becomes(p, [cap[p] EXCEPT !.finish = "posting"])
            /\ UNCHANGED <<status, lease, active, bound>> /\ Steady
       [] OTHER -> Tells(p, "error", "none")
  /\ UNCHANGED captureVars

\* No registration, no answer, or none that can be used.
CheckFails(p) ==
  /\ \/ cap[p].finish = "checking" /\ cap[p].registration \in {"ok", "failed"}
     \/ cap[p].finish = "posting"
  /\ IF Cancelled(p) THEN Over(p, cap[p]) /\ UNCHANGED status
     ELSE Tells(p, "error", "none")
  /\ UNCHANGED captureVars

-----------------------------------------------------------------------------
(* Finishing a batch.                                                       *)

\* Asked to, or because its track has ended.
RecorderStops(p) ==
  /\ cap[p].recorder \in {"on", "stopping"}
  /\ Becomes(p, [Silenced(cap[p]) EXCEPT !.recorder = "off", !.finish = "syncing"])
  /\ Showing("uploading")
  /\ UNCHANGED <<captureVars, lease, active, bound>> /\ Steady

\* Nothing was recorded: that is posted; otherwise the stop is.
BatchIsSynced(p) ==
  /\ cap[p].finish = "syncing" /\ cap[p].registration = "ok" /\ IsActive(p)
  /\ \E next \in {"posting", "telling"} :
       Becomes(p, [cap[p] EXCEPT !.finish = next])
  /\ UNCHANGED <<captureVars, status, lease, active, bound>> /\ Steady

StopIsTold(p) ==
  /\ cap[p].finish = "telling" /\ session[p] = "recording"
  /\ session' = [session EXCEPT ![p] = "stopped"]
  /\ UNCHANGED <<turn, source, port, t, wire, answers, link, stream, spooled, pageVars>>

StopIsAnswered(p) ==
  /\ cap[p].finish = "telling" /\ session[p] = "stopped" /\ IsActive(p)
  /\ Becomes(p, [cap[p] EXCEPT !.finish = "uploading"])
  /\ UNCHANGED <<captureVars, status, lease, active, bound>> /\ Steady

AudioIsUploaded(p) ==
  /\ cap[p].finish = "uploading" /\ session[p] = "stopped"
  /\ session' = [session EXCEPT ![p] = "processing"]
  /\ UNCHANGED <<turn, source, port, t, wire, answers, link, stream, spooled, pageVars>>

\* The upload is answered when its analysis has ended, well or not.
UploadIsAnswered(p) ==
  /\ cap[p].finish = "uploading" /\ session[p] \in {"result", "error"} /\ IsActive(p)
  /\ Tells(p, "idle", "done")
  /\ UNCHANGED captureVars

\* Not registered, refused, too late, or cancelled.
BatchFails(p) ==
  /\ mode = "batch"
  /\ \/ cap[p].finish = "syncing" /\ cap[p].registration \in {"ok", "failed"}
     \/ cap[p].finish \in {"posting", "telling", "uploading"}
  /\ IF Cancelled(p) THEN Over(p, cap[p]) /\ UNCHANGED status
     ELSE Tells(p, "error", "none")
  /\ UNCHANGED captureVars

-----------------------------------------------------------------------------
(* The error that the page posts for a recording.                           *)

\* The server takes it unless the session's input is claimed, or it has ended.
TakesError(p) == session[p] \in (IF mode = "pcm" THEN {"created"}
                                 ELSE {"created", "recording", "stopped"})

\* Whether the answer arrives or not.
ErrorIsPosted(p) ==
  /\ cap[p].finish = "posting" \/ cap[p].report = "posting"
  /\ TakesError(p)
  /\ session' = [session EXCEPT ![p] = "error"]
  /\ IF cap[p].finish # "posting"
     THEN /\ Becomes(p, [cap[p] EXCEPT !.report = "done"])
          /\ UNCHANGED <<status, lease, active, bound>> /\ Steady
     ELSE IF Cancelled(p) THEN Over(p, cap[p]) /\ UNCHANGED status
     ELSE \E claim \in {"sealed", "none"} : Tells(p, "error", claim)
  /\ UNCHANGED <<turn, source, port, t, wire, answers, link, stream, spooled>>

-----------------------------------------------------------------------------
(* Others.                                                                  *)

\* A typed transcript takes the input for as long as its request runs, and binds a
\* session of its own.
TypedTurn ==
  \/ /\ lease = NoPress /\ ~leaving /\ status \in {"idle", "error"}
     /\ lease' = Manual /\ UNCHANGED bound
  \/ /\ lease = Manual
     /\ bound' = Manual /\ UNCHANGED lease
  \/ /\ lease = Manual
     /\ lease' = NoPress /\ UNCHANGED bound

Typing ==
  /\ TypedTurn
  /\ UNCHANGED <<captureVars, status, active, cap>> /\ Steady

\* The page goes: whatever is captured, or about to be, is stopped.
Unmount ==
  /\ ~leaving /\ leaving' = TRUE
  /\ press' = press + 1
  /\ cap' = [p \in Turns |->
       LET c == Silenced(cap[p])
       IN  IF p = active THEN [c EXCEPT !.aborted = TRUE,
                                       !.recorder = IF @ = "none" THEN @ ELSE "off"]
           ELSE IF cap[p].start = "starting" THEN c ELSE cap[p]]
  /\ IF active = turn /\ active # NoPress
     THEN Ends("aborted", port) ELSE UNCHANGED <<t, source, port>>
  /\ lease' = IF active = NoPress THEN lease ELSE Without(lease, active)
  /\ active' = NoPress
  /\ UNCHANGED <<turn, wire, answers, serverVars, mode, status, bound>>

\* A batch whose audio does not come is ended by the session's deadline.
DeadlinePasses(p) ==
  /\ session[p] = "stopped"
  /\ session' = [session EXCEPT ![p] = "error"]
  /\ UNCHANGED <<turn, source, port, t, wire, answers, link, stream, spooled, pageVars>>

-----------------------------------------------------------------------------
Capturing == (Page \/ Faults) /\ Notices
Serving   == Remote /\ UNCHANGED pageVars

Starting(p) ==
  \/ MicrophoneRefused(p) \/ MicrophoneTimesOut(p) \/ MicrophoneGranted(p)
  \/ CaptureFailsToStart(p) \/ CaptureStarts(p)

Registering(p) ==
  \/ SessionIsCreated(p) \/ RegistrationAnswers(p) \/ RegistrationFails(p)
  \/ StartIsTold(p) \/ StartIsAnswered(p)

Finishing(p) ==
  \/ StopTimesOut(p) \/ TransportSettles(p) \/ CheckAnswers(p) \/ CheckFails(p)
  \/ ErrorIsPosted(p)

FinishingBatch(p) ==
  \/ RecorderStops(p) \/ BatchIsSynced(p) \/ StopIsTold(p) \/ StopIsAnswered(p)
  \/ AudioIsUploaded(p) \/ UploadIsAnswered(p) \/ BatchFails(p)

Reporting(p) == FailureIsShown(p) \/ ReportRegisters(p) \/ ReportIsGivenUp(p)

Outside(p) ==
  (AnalysisEnds(p) \/ OperatorResets(p)) /\ UNCHANGED pageVars

Next ==
  \/ Press \/ PressToStop \/ WorkletIsStopped \/ Capturing \/ Serving
  \/ Typing \/ Unmount
  \/ \E p \in Turns :
       \/ Starting(p) \/ Registering(p) \/ Finishing(p) \/ FinishingBatch(p)
       \/ Reporting(p) \/ Outside(p) \/ DeadlinePasses(p)

\* What the page waits for is bounded by a timer of its own, but for what the browser
\* promises: it closes an audio context, and it ends a recorder that is stopped.
Bounded(p) ==
  \/ MicrophoneTimesOut(p) \/ CaptureFailsToStart(p) \/ RegistrationFails(p)
  \/ StopTimesOut(p) \/ TransportSettles(p) \/ CheckFails(p) \/ BatchFails(p)
  \/ FailureIsShown(p)
  \/ cap[p].recorder = "stopping" /\ RecorderStops(p)

Fairness == WF_vars(\E p \in Turns : Bounded(p))

Spec == Init /\ [][Next]_vars /\ Fairness

-----------------------------------------------------------------------------
\* A microphone is open only for the press that holds the input, and never while the
\* button says that nothing is going on.
MicrophoneIsOwned ==
  \A p \in Turns :
    cap[p].mic = "live" =>
      lease = p /\ (status \in {"idle", "error"} => leaving)

\* What the user is told of the turn is so on the server: a stream whose final was
\* accepted is there as a whole, a turn that is done has its result (an uploaded one
\* has been answered), and a failure that is put down to the session is one that the
\* session has.
VerdictIsTrue ==
  /\ t.verdict = "final" => IsWhole
  /\ \A p \in Turns :
       /\ cap[p].claim = "done" =>
            session[p] \in {"result", "reset"}
                            \union (IF mode = "batch" THEN {"error"} ELSE {})
       /\ cap[p].claim = "sealed" => session[p] \in {"error", "reset"}

\* The session that is shown while a registered capture is active is its own, whatever
\* an earlier press still has to report.
RecordingIsBound ==
  active # NoPress /\ cap[active].registration = "ok" => bound = active

\* However silent the server, the microphone's user, the worklet and the network: a
\* press records until it is stopped, or it gives the input back.
IsBusy == lease \in Turns /\ status # "recording"

PressSettles == IsBusy ~> ~IsBusy
=============================================================================
