---------------------------- MODULE EventStream -----------------------------
(***************************************************************************)
(* How a browser follows one session: the server publishes what it commits *)
(* to the session's subscribers and replays the log to a new one; the      *)
(* browser's EventSource reconnects by itself with the identity of the     *)
(* last event it saw; and the client applies only the next event of the    *)
(* attempt it knows.  Anything else is a gap, for which it asks once for a *)
(* replay from the start.                                                  *)
(*                                                                         *)
(* The store may retire the session and take its identity again for a new  *)
(* attempt, while the browser stays subscribed.                            *)
(***************************************************************************)
EXTENDS SessionEvents, FiniteSetsExt

CONSTANTS
  Types,        \* the event types that are looked at
  MaxEvents,    \* bound: events of one attempt
  MaxAttempts,  \* bound: attempts that bear the identity
  MaxDrops,     \* bound: connections that break
  MaxBuffered   \* frames a response buffers before write() asks to wait

ASSUME BufferIsNatural == MaxBuffered \in Nat

VARIABLES
  attempt,     \* the last attempt that bore the identity
  held,        \* the store holds it
  log, sessionStatus, \* its record
  line,        \* the event stream: "none", "open", "ending" or "failed"
  frames,        \* events written to it and not yet dispatched
  cursor,      \* the EventSource's last event identity
  view,        \* what the client knows: an attempt and the events it applied
  transport,   \* what the client says of its stream
  tried,       \* the position at which it last asked for a fresh replay
  recovering,  \* the timer of that replay runs
  cut,         \* the stream broke off in a gap, and nothing was applied since
  drops        \* connections that broke

server  == <<attempt, held, log, sessionStatus>>
client  == <<cursor, view, transport, tried, recovering, cut>>
followVars    == <<server, line, frames, client, drops>>

NoEvent == [attempt |-> 0, sequence |-> 0]
Unseen  == [attempt |-> 0, applied |-> <<>>, phase |-> "idle"]
Created == << [type |-> "session_created"] >>

LastSequence == Len(view.applied)

FollowInit ==
  /\ attempt = 1 /\ held = TRUE /\ log = Created /\ sessionStatus = "created"
  /\ line = "none" /\ frames = <<>>
  /\ cursor = NoEvent /\ view = Unseen /\ transport = "connecting"
  /\ tried = MaxEvents + 2 /\ recovering = FALSE /\ cut = FALSE
  /\ drops = 0

-----------------------------------------------------------------------------
(* The server.                                                              *)

Frame(n, type) == [attempt |-> attempt', sequence |-> n, type |-> type]

\* A frame that the response has to buffer is still sent, but ends the stream.
Write(written) ==
  /\ frames' = written
  /\ line' = IF Len(written) > MaxBuffered THEN "ending" ELSE "open"

Publish(frame) ==
  IF line = "open" THEN Write(Append(frames, frame)) ELSE UNCHANGED <<line, frames>>

Commit(type) ==
  /\ held /\ Len(log) < MaxEvents
  /\ EventMayFollow(sessionStatus, log, type)
  /\ log' = Append(log, [type |-> type])
  /\ sessionStatus' = StatusAfter(type, sessionStatus)
  /\ UNCHANGED <<attempt, held>>
  /\ Publish(Frame(Len(log) + 1, type))
  /\ UNCHANGED <<client, drops>>

\* A request that read its body while the record was retired: its event is committed
\* nowhere, and published all the same.
PublishUncommitted(type) ==
  /\ ~held
  /\ CanAcceptExternal(sessionStatus, type)
  /\ UNCHANGED server
  /\ Publish(Frame(Len(log) + 1, type))
  /\ UNCHANGED <<client, drops>>

\* Subscribers are not told.
Retire ==
  /\ held
  /\ held' = FALSE
  /\ UNCHANGED <<attempt, log, sessionStatus, line, frames, client, drops>>

Recreate ==
  /\ ~held /\ attempt < MaxAttempts
  /\ attempt' = attempt + 1 /\ held' = TRUE
  /\ log' = Created /\ sessionStatus' = "created"
  /\ Publish(Frame(1, "session_created"))
  /\ UNCHANGED <<client, drops>>

ReplayAfter_AnyAttempt == cursor.sequence

\* The cursor counts only if it names the attempt that is held.
ReplayAfter == IF cursor.attempt = attempt THEN cursor.sequence ELSE 0

\* The replay stops at the frame that fills the response's buffer.
Replay ==
  [i \in 1..Min({Len(log) - ReplayAfter, MaxBuffered + 1}) |->
     Frame(ReplayAfter + i, log[ReplayAfter + i].type)]

\* Subscription and replay are one step.
Connect ==
  /\ line = "none" /\ held
  /\ UNCHANGED server
  /\ Write(Replay)
  /\ transport' = "connected"
  /\ UNCHANGED <<cursor, view, tried, recovering, cut, drops>>

\* The session is not held, or others hold every connection.  An EventSource that is
\* refused does not try again.
Refused ==
  /\ line = "none"
  /\ line' = "failed"
  /\ transport' = "disconnected"
  /\ UNCHANGED <<server, frames, cursor, view, tried, recovering, cut, drops>>

-----------------------------------------------------------------------------
(* The client.                                                              *)

Foreign_Never(f) == FALSE

Foreign(f) == view.attempt # 0 /\ f.attempt # view.attempt

Duplicate(f) == ~Foreign(f) /\ f.sequence <= LastSequence

TransitionPhase == IF view.phase = "idle" THEN "created" ELSE view.phase

\* The shared reducer takes the next event of its attempt, in a phase that has it.
Applies(f) ==
  /\ ~Foreign(f)
  /\ f.sequence = LastSequence + 1
  /\ f.type = "session_created" => LastSequence = 0
  /\ CanApply(TransitionPhase, f.type)

PhaseAfter(type, phase) ==
  CASE type = "session_created"                          -> "idle"
    [] type = "recording_started"                        -> "recording"
    [] type \in {"recording_stopped", "audio_uploaded", "audio_normalized",
                 "audio_transcribed", "audio_features"}  -> "processing"
    [] type \in {"reading_started", "channel_resolved"}  -> "reading"
    [] type = "session_result"                           -> "result"
    [] type \in {"tts_started", "tts_finished"}          -> phase
    [] type = "session_silence"                          -> "silence"
    [] type = "session_reset"                            -> "reset"
    [] type = "session_error"                            -> "error"

Dispatch ==
  /\ frames # <<>>
  /\ frames' = Tail(frames)
  /\ cursor' = [attempt |-> Head(frames).attempt, sequence |-> Head(frames).sequence]
  /\ UNCHANGED <<server, line, tried, drops>>

ApplyEvent ==
  /\ Dispatch
  /\ LET f == Head(frames)
     IN  /\ Applies(f)
         /\ view' = [attempt |-> f.attempt,
                     applied |-> Append(view.applied, f.type),
                     phase   |-> PhaseAfter(f.type, view.phase)]
  /\ transport' = IF transport \in {"connecting", "gap"} THEN "connected" ELSE transport
  /\ recovering' = FALSE /\ cut' = FALSE

IgnoreDuplicate ==
  /\ Dispatch
  /\ Duplicate(Head(frames))
  /\ UNCHANGED <<view, transport, recovering, cut>>

MarkGap ==
  /\ Dispatch
  /\ ~Applies(Head(frames)) /\ ~Duplicate(Head(frames))
  /\ transport' = "gap"
  /\ UNCHANGED <<view, recovering, cut>>

\* One replay is asked for at each position, and its timer runs until the mark goes.
StartRecovery ==
  /\ transport = "gap" /\ tried # LastSequence
  /\ tried' = LastSequence
  /\ recovering' = TRUE
  /\ UNCHANGED <<server, line, frames, cursor, view, transport, cut, drops>>

\* A new EventSource has no cursor, and the client starts afresh.
FreshReplay ==
  /\ recovering
  /\ line' = "none" /\ frames' = <<>> /\ cursor' = NoEvent
  /\ view' = Unseen /\ transport' = "connecting"
  /\ recovering' = FALSE /\ cut' = FALSE
  /\ UNCHANGED <<server, tried, drops>>

\* The EventSource will reconnect; the client clears the gap's mark and its timer.
Disconnected ==
  /\ line' = "none" /\ frames' = <<>>
  /\ transport' = "disconnected"
  /\ recovering' = FALSE
  /\ cut' = (cut \/ transport = "gap")
  /\ UNCHANGED <<server, cursor, view, tried>>

StreamEnds ==
  /\ line = "ending" /\ frames = <<>>
  /\ Disconnected
  /\ UNCHANGED drops

Drop ==
  /\ line \in {"open", "ending"} /\ drops < MaxDrops
  /\ drops' = drops + 1
  /\ Disconnected

-----------------------------------------------------------------------------
FollowNext ==
  \/ \E type \in Types : Commit(type) \/ PublishUncommitted(type)
  \/ Retire \/ Recreate
  \/ Connect \/ Refused
  \/ ApplyEvent \/ IgnoreDuplicate \/ MarkGap
  \/ StartRecovery \/ FreshReplay
  \/ StreamEnds \/ Drop

\* The browser reconnects, what was written arrives, timers fire.
FollowFairness ==
  /\ WF_followVars(Connect \/ Refused)
  /\ WF_followVars(ApplyEvent \/ IgnoreDuplicate \/ MarkGap)
  /\ WF_followVars(StreamEnds)
  /\ WF_followVars(StartRecovery) /\ WF_followVars(FreshReplay)

FollowSpec == FollowInit /\ [][FollowNext]_followVars /\ FollowFairness

-----------------------------------------------------------------------------
StatusOf(phase) == IF phase = "idle" THEN "created" ELSE phase

\* What the browser shows of an attempt the server holds is its log, up to some
\* point, and the status the server gave it there: no event of another attempt, none
\* twice, none left out, none that was never committed.
ViewIsFaithful ==
  held /\ view.attempt = attempt =>
    /\ LastSequence <= Len(log)
    /\ \A i \in 1..LastSequence : view.applied[i] = log[i].type
    /\ LastSequence = Len(log) => StatusOf(view.phase) = sessionStatus

Behind == held /\ (view.attempt # attempt \/ LastSequence < Len(log))

\* It says that it has lost the session, or broke off in a gap.
GaveUp ==
  \/ line = "failed"
  \/ transport = "gap" /\ tried = LastSequence /\ ~recovering
  \/ cut

\* A browser that is behind catches up by itself, through ended and broken streams,
\* a full buffer and a change of attempt, or it says so.
ViewCatchesUp == Behind ~> ~Behind \/ GaveUp
=============================================================================
