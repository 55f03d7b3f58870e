--------------------------- MODULE Browser_proofs ----------------------------
(***************************************************************************)
(* The page: what it shows of a session is the session's log, and what it  *)
(* records.  The first half is about EventStream, the second about         *)
(* PcmCapture and Recorder, which share no state with it.                  *)
(***************************************************************************)
EXTENDS Recorder, EventStream, TLAPS

-----------------------------------------------------------------------------
(* What an event says by itself of the status it leaves.                    *)

\* An event is accepted in so few statuses that its type tells the one it leaves.
StatusLeft(type) ==
  CASE type = "session_created"                  -> "created"
    [] type = "audio_normalized"                 -> "processing"
    [] type \in {"tts_started", "tts_finished"}  -> "result"
    [] OTHER                                     -> StatusAfter(type, "created")

\* The server's record and the page's reducer come to that status.
LEMMA BothSidesAgree ==
  ASSUME NEW before \in Statuses, NEW type, CanApply(before, type)
  PROVE  /\ type \in EventTypes
         /\ StatusAfter(type, before) = StatusLeft(type)
         /\ StatusLeft(type) \in Statuses
         /\ StatusOf(PhaseAfter(type, before)) = StatusLeft(type)
         /\ PhaseAfter(type, before) \in Statuses \union {"idle"}
<1>1. type \in EventTypes
  BY DEF CanApply, EventTypes
<1>2. CASE type \in {"session_reset", "session_error"}
  BY <1>2 DEF StatusAfter, StatusLeft, StatusOf, PhaseAfter, Statuses, EventTypes
<1>3. CASE type \in OrdinaryEvents /\ before \in AcceptedIn[type]
  BY <1>3 DEF OrdinaryEvents, AcceptedIn, StatusAfter, StatusLeft, StatusOf, PhaseAfter,
     Statuses, EventTypes
<1> QED BY <1>1, <1>2, <1>3 DEF CanApply

-----------------------------------------------------------------------------
(* The invariant of the event stream.                                       *)

Events == [attempt : Nat, sequence : Nat, type : EventTypes]

FollowTypeOK ==
  /\ attempt \in Nat \ {0} /\ held \in BOOLEAN
  /\ log \in Seq([type : EventTypes]) /\ Len(log) > 0
  /\ sessionStatus \in Statuses
  /\ frames \in Seq(Events)
  /\ cursor \in [attempt : Nat, sequence : Nat]
  /\ view \in [attempt : Nat, applied : Seq(EventTypes), phase : Statuses \union {"idle"}]

\* An event of the attempt that is held is at its place in the log.
IsCommitted(f, last, isHeld, events) ==
  /\ f.attempt \in 1..last
  /\ isHeld /\ f.attempt = last =>
       f.sequence \in 1..Len(events) /\ events[f.sequence].type = f.type

LogInv == sessionStatus = StatusLeft(log[Len(log)].type)

WireInv ==
  /\ \A i \in 1..Len(frames) : IsCommitted(frames[i], attempt, held, log)
  /\ cursor.attempt <= attempt
  /\ held /\ cursor.attempt = attempt => cursor.sequence <= Len(log)

\* The view is of one attempt, and the last event it applied tells its phase.
ViewInv ==
  /\ view.attempt <= attempt
  /\ view.attempt = 0 => LastSequence = 0
  /\ LastSequence = 0 => view.phase = "idle"
  /\ LastSequence > 0 =>
       StatusOf(view.phase) = StatusLeft(view.applied[LastSequence])
  /\ held /\ view.attempt = attempt =>
       /\ LastSequence <= Len(log)
       /\ \A i \in 1..LastSequence : view.applied[i] = log[i].type

FollowInv == FollowTypeOK /\ LogInv /\ WireInv /\ ViewInv

LEMMA ViewsAreFaithful == FollowInv => ViewIsFaithful
<1> SUFFICES ASSUME FollowInv, held, view.attempt = attempt
             PROVE  ViewIsFaithful
  BY DEF ViewIsFaithful
<1>1. ASSUME LastSequence = Len(log) PROVE StatusOf(view.phase) = sessionStatus
  BY <1>1 DEF FollowInv, FollowTypeOK, LogInv, ViewInv, LastSequence
<1> QED BY <1>1 DEF FollowInv, ViewInv, ViewIsFaithful

LEMMA FollowInitSound == FollowInit => FollowInv
BY DEF FollowInit, FollowInv, FollowTypeOK, LogInv, WireInv, ViewInv, Created, NoEvent,
   Unseen, LastSequence, Events, StatusLeft, Statuses, EventTypes, OrdinaryEvents, AcceptedIn

\* What is published is added to what is on its way, or is not.
LEMMA Publishing ==
  ASSUME NEW f \in Events, Publish(f), frames \in Seq(Events),
         NEW last, NEW isHeld, NEW events,
         \A i \in 1..Len(frames) : IsCommitted(frames[i], last, isHeld, events),
         IsCommitted(f, last, isHeld, events)
  PROVE  /\ frames' \in Seq(Events)
         /\ \A i \in 1..Len(frames') : IsCommitted(frames'[i], last, isHeld, events)
<1>1. frames' = frames \/ frames' = Append(frames, f)
  BY DEF Publish, Write
<1>2. CASE frames' = Append(frames, f)
  BY <1>2
<1> QED BY <1>1, <1>2

LEMMA CommitSound ==
  ASSUME FollowInv, NEW type, Commit(type)
  PROVE  FollowInv'
<1>1. /\ CanApply(sessionStatus, type) /\ held /\ held' = held /\ attempt' = attempt
      /\ log' = Append(log, [type |-> type])
      /\ sessionStatus' = StatusAfter(type, sessionStatus)
      /\ cursor' = cursor /\ view' = view
  BY DEF Commit, EventMayFollow, client
<1>2. type \in EventTypes /\ StatusAfter(type, sessionStatus) = StatusLeft(type)
      /\ StatusLeft(type) \in Statuses
  BY <1>1, BothSidesAgree DEF FollowInv, FollowTypeOK
<1> DEFINE f == [attempt |-> attempt', sequence |-> Len(log) + 1, type |-> type]
<1>3. Publish(f)
  BY DEF Commit, Frame
<1>4. /\ Len(log') = Len(log) + 1 /\ log'[Len(log) + 1] = [type |-> type]
      /\ \A i \in 1..Len(log) : log'[i] = log[i]
      /\ log' \in Seq([type : EventTypes]) /\ Len(log) \in Nat
  BY <1>1, <1>2 DEF FollowInv, FollowTypeOK
<1>5. f \in Events
  BY <1>1, <1>2, <1>4 DEF Events, FollowInv, FollowTypeOK
<1>6. \A i \in 1..Len(frames) : IsCommitted(frames[i], attempt', held', log')
  <2> TAKE i \in 1..Len(frames)
  <2>1. IsCommitted(frames[i], attempt, held, log)
    BY DEF FollowInv, WireInv
  <2> QED BY <1>1, <1>4, <2>1 DEF IsCommitted
<1>7. IsCommitted(f, attempt', held', log')
  BY <1>1, <1>4 DEF IsCommitted, FollowInv, FollowTypeOK
<1>8. /\ frames' \in Seq(Events)
      /\ \A i \in 1..Len(frames') : IsCommitted(frames'[i], attempt', held', log')
  BY <1>3, <1>5, <1>6, <1>7, Publishing DEF FollowInv, FollowTypeOK
<1>9. FollowTypeOK'
  BY <1>1, <1>2, <1>4, <1>8 DEF FollowInv, FollowTypeOK
<1>10. LogInv'
  BY <1>1, <1>2, <1>4 DEF LogInv
<1>11. WireInv'
  <2>1. cursor.attempt \in Nat /\ cursor.sequence \in Nat
    BY DEF FollowInv, FollowTypeOK
  <2>2. /\ cursor.attempt <= attempt
        /\ held /\ cursor.attempt = attempt => cursor.sequence <= Len(log)
    BY DEF FollowInv, WireInv
  <2>3. /\ cursor'.attempt <= attempt'
        /\ held' /\ cursor'.attempt = attempt' => cursor'.sequence <= Len(log')
    BY <1>1, <1>4, <2>1, <2>2
  <2> QED BY <1>8, <2>3 DEF WireInv
<1>12. ViewInv'
  BY <1>1, <1>4 DEF FollowInv, FollowTypeOK, ViewInv, LastSequence
<1> QED BY <1>9, <1>10, <1>11, <1>12 DEF FollowInv

LEMMA PublishUncommittedSound ==
  ASSUME FollowInv, NEW type, PublishUncommitted(type)
  PROVE  FollowInv'
<1>1. /\ ~held /\ CanApply(sessionStatus, type)
      /\ UNCHANGED <<attempt, held, log, sessionStatus, cursor, view>>
  BY DEF PublishUncommitted, CanAcceptExternal, server, client
<1> DEFINE f == [attempt |-> attempt', sequence |-> Len(log) + 1, type |-> type]
<1>2. Publish(f)
  BY DEF PublishUncommitted, Frame
<1>3. f \in Events
  BY <1>1, BothSidesAgree DEF Events, FollowInv, FollowTypeOK
<1>4. IsCommitted(f, attempt, held, log)
  BY <1>1 DEF IsCommitted, FollowInv, FollowTypeOK
<1>5. /\ frames' \in Seq(Events)
      /\ \A i \in 1..Len(frames') : IsCommitted(frames'[i], attempt, held, log)
  BY <1>2, <1>3, <1>4, Publishing DEF FollowInv, FollowTypeOK, WireInv
<1> QED BY <1>1, <1>5 DEF FollowInv, FollowTypeOK, LogInv, WireInv, ViewInv, LastSequence

LEMMA RetireSound == FollowInv /\ Retire => FollowInv'
BY DEF Retire, client, FollowInv, FollowTypeOK, LogInv, WireInv, ViewInv, IsCommitted,
   LastSequence

\* Whatever names the attempt before is foreign from now on.
LEMMA RecreateSound ==
  ASSUME FollowInv, Recreate
  PROVE  FollowInv'
<1>1. /\ attempt \in Nat \ {0} /\ attempt' = attempt + 1 /\ held' = TRUE
      /\ log' = Created /\ sessionStatus' = "created" /\ UNCHANGED <<cursor, view>>
  BY DEF Recreate, client, FollowInv, FollowTypeOK
<1> DEFINE f == [attempt |-> attempt', sequence |-> 1, type |-> "session_created"]
<1>2. Publish(f)
  BY DEF Recreate, Frame
<1>3. "session_created" \in EventTypes
  BY DEF EventTypes, OrdinaryEvents, AcceptedIn
<1>4. f \in Events
  BY <1>1, <1>3 DEF Events
<1>5. \A i \in 1..Len(frames) : IsCommitted(frames[i], attempt', held', log')
  BY SMTT(30), <1>1 DEF IsCommitted, FollowInv, FollowTypeOK, WireInv, Events
<1>6. IsCommitted(f, attempt', held', log')
  BY <1>1 DEF IsCommitted, Created
<1>7. /\ frames' \in Seq(Events)
      /\ \A i \in 1..Len(frames') : IsCommitted(frames'[i], attempt', held', log')
  BY <1>2, <1>4, <1>5, <1>6, Publishing DEF FollowInv, FollowTypeOK
<1>8. FollowTypeOK'
  BY <1>1, <1>3, <1>7 DEF FollowInv, FollowTypeOK, Created, Statuses
<1>9. LogInv' /\ WireInv' /\ ViewInv'
  <2>1. Len(log') = 1 /\ log'[1].type = "session_created"
    BY <1>1 DEF Created
  <2>2. LogInv'
    BY <1>1, <2>1 DEF LogInv, StatusLeft
  <2>3. /\ view.attempt \in Nat /\ view.attempt <= attempt
        /\ cursor.attempt \in Nat /\ cursor.attempt <= attempt
    BY DEF FollowInv, FollowTypeOK, WireInv, ViewInv
  <2>4. WireInv'
    <3>1. cursor' = cursor /\ cursor'.attempt <= attempt' /\ cursor'.attempt # attempt'
      BY <1>1, <2>3
    <3> QED BY <1>7, <3>1 DEF WireInv
  <2>5. ViewInv'
    BY <1>1, <2>3 DEF ViewInv, LastSequence, FollowInv
  <2> QED BY <2>2, <2>4, <2>5
<1> QED BY <1>8, <1>9 DEF FollowInv

\* The replay is the rest of the log, or as much of it as the response buffers.
LEMMA ConnectSound ==
  ASSUME FollowInv, Connect
  PROVE  FollowInv'
<1>1. /\ held /\ UNCHANGED <<attempt, held, log, sessionStatus, cursor, view>>
      /\ frames' = Replay
  BY DEF Connect, server, Write
<1> DEFINE n == Min({Len(log) - ReplayAfter, MaxBuffered + 1})
<1>2. /\ ReplayAfter \in Nat /\ ReplayAfter <= Len(log) /\ Len(log) \in Nat
      /\ n \in Nat /\ ReplayAfter + n <= Len(log)
  <2>1. ReplayAfter \in Nat /\ ReplayAfter <= Len(log) /\ Len(log) \in Nat
    BY <1>1 DEF ReplayAfter, FollowInv, FollowTypeOK, WireInv
  <2>2. ASSUME NEW a \in Nat, NEW b \in Nat PROVE Min({a, b}) \in Nat /\ Min({a, b}) <= a
    <3>1. \E x \in {a, b} : \A y \in {a, b} : x <= y
      OBVIOUS
    <3> QED BY <3>1 DEF Min
  <2> QED BY <2>1, <2>2, BufferIsNatural DEF BufferIsNatural
<1>3. /\ Replay \in Seq(Events) /\ Len(Replay) = n
      /\ \A i \in 1..n : Replay[i] = [attempt |-> attempt', sequence |-> ReplayAfter + i,
                                       type |-> log[ReplayAfter + i].type]
  <2>1. Replay = [i \in 1..n |-> [attempt |-> attempt', sequence |-> ReplayAfter + i,
                                   type |-> log[ReplayAfter + i].type]]
    BY DEF Replay, Frame
  <2>2. \A i \in 1..n : ReplayAfter + i \in 1..Len(log)
    BY <1>2
  <2>3. \A i \in 1..n : [attempt |-> attempt', sequence |-> ReplayAfter + i,
                         type |-> log[ReplayAfter + i].type] \in Events
    <3>1. attempt' \in Nat
      BY <1>1 DEF FollowInv, FollowTypeOK
    <3>2. \A k \in 1..Len(log) : log[k].type \in EventTypes
      <4> DEFINE Logs == [type : EventTypes]
      <4>1. log \in Seq(Logs)
        BY DEF FollowInv, FollowTypeOK
      <4>2. \A k \in 1..Len(log) : log[k] \in Logs
        <5> HIDE DEF Logs
        <5> QED BY <4>1
      <4> QED BY <4>2
    <3> QED BY <1>2, <2>2, <3>1, <3>2 DEF Events
  <2> HIDE DEF n
  <2> DEFINE F(i) == [attempt |-> attempt', sequence |-> ReplayAfter + i,
                      type |-> log[ReplayAfter + i].type]
  <2>4. Replay = [i \in 1..n |-> F(i)] /\ \A i \in 1..n : F(i) \in Events
    BY <2>1, <2>3
  <2> HIDE DEF F
  <2>5. Replay \in Seq(Events) /\ Len(Replay) = n /\ \A i \in 1..n : Replay[i] = F(i)
    BY <1>2, <2>4
  <2> QED BY <2>5 DEF F
<1>4. \A i \in 1..Len(frames') : IsCommitted(frames'[i], attempt, held, log)
  <2> HIDE DEF n
  <2> QED BY <1>1, <1>2, <1>3 DEF IsCommitted, FollowInv, FollowTypeOK
<1> QED BY <1>1, <1>3, <1>4 DEF FollowInv, FollowTypeOK, LogInv, WireInv, ViewInv, LastSequence

\* The head of what is on its way, and what is left of it.
LEMMA Dispatching ==
  ASSUME FollowInv, Dispatch
  PROVE  /\ Head(frames) \in Events /\ IsCommitted(Head(frames), attempt, held, log)
         /\ UNCHANGED <<attempt, held, log, sessionStatus>>
         /\ FollowTypeOK /\ LogInv' /\ WireInv'
         /\ frames' \in Seq(Events) /\ cursor' \in [attempt : Nat, sequence : Nat]
<1>1. /\ frames # <<>> /\ frames \in Seq(Events) /\ frames' = Tail(frames)
      /\ UNCHANGED <<attempt, held, log, sessionStatus>>
      /\ cursor' = [attempt |-> Head(frames).attempt, sequence |-> Head(frames).sequence]
  BY DEF Dispatch, server, FollowInv, FollowTypeOK
<1>2. /\ Head(frames) = frames[1] /\ 1 \in 1..Len(frames) /\ Head(frames) \in Events
      /\ frames' \in Seq(Events) /\ Len(frames') = Len(frames) - 1
      /\ \A i \in 1..Len(frames') : frames'[i] = frames[i + 1] /\ i + 1 \in 1..Len(frames)
  BY <1>1
<1>3. IsCommitted(Head(frames), attempt, held, log)
  BY <1>2 DEF FollowInv, WireInv
<1>4. \A i \in 1..Len(frames') : IsCommitted(frames'[i], attempt', held', log')
  BY <1>1, <1>2 DEF FollowInv, WireInv
<1>5. WireInv'
  BY <1>1, <1>2, <1>3, <1>4 DEF WireInv, IsCommitted, FollowInv, FollowTypeOK, Events
<1> QED BY <1>1, <1>2, <1>3, <1>5 DEF FollowInv, LogInv, Events

\* The next event of the attempt that is shown.
LEMMA ApplySound ==
  ASSUME FollowInv, ApplyEvent
  PROVE  FollowInv'
<1> DEFINE f == Head(frames)
<1>1. /\ Dispatch /\ Applies(f)
      /\ view' = [attempt |-> f.attempt, applied |-> Append(view.applied, f.type),
                  phase |-> PhaseAfter(f.type, view.phase)]
  BY DEF ApplyEvent
<1>2. /\ f \in Events /\ IsCommitted(f, attempt, held, log)
      /\ UNCHANGED <<attempt, held, log, sessionStatus>>
      /\ FollowTypeOK /\ LogInv' /\ WireInv' /\ ViewInv
      /\ frames' \in Seq(Events) /\ cursor' \in [attempt : Nat, sequence : Nat]
  BY <1>1, Dispatching DEF FollowInv
<1> HIDE DEF f
<1>3. /\ StatusOf(PhaseAfter(f.type, view.phase)) = StatusLeft(f.type)
      /\ PhaseAfter(f.type, view.phase) \in Statuses \union {"idle"}
  <2>1. TransitionPhase \in Statuses /\ CanApply(TransitionPhase, f.type)
    BY <1>1, <1>2 DEF Applies, TransitionPhase, FollowTypeOK, Statuses
  <2>2. \/ PhaseAfter(f.type, TransitionPhase) = PhaseAfter(f.type, view.phase)
        \/ view.phase = "idle" /\ f.type \in {"tts_started", "tts_finished"}
    BY <1>2 DEF PhaseAfter, TransitionPhase, Events, EventTypes, OrdinaryEvents, AcceptedIn
  <2>3. ~(view.phase = "idle" /\ f.type \in {"tts_started", "tts_finished"})
    BY <2>1 DEF TransitionPhase, CanApply, OrdinaryEvents, AcceptedIn
  <2> QED BY <2>1, <2>2, <2>3, BothSidesAgree
<1>4. /\ view.applied \in Seq(EventTypes) /\ f.type \in EventTypes /\ f.attempt \in Nat
      /\ f.attempt \in 1..attempt
  BY <1>2 DEF FollowTypeOK, Events, IsCommitted
<1>5. view' \in [attempt : Nat, applied : Seq(EventTypes), phase : Statuses \union {"idle"}]
  BY <1>1, <1>3, <1>4
<1>6. FollowTypeOK'
  BY <1>2, <1>5 DEF FollowTypeOK
<1>7. /\ view'.attempt = f.attempt /\ view'.phase = PhaseAfter(f.type, view.phase)
      /\ Len(view'.applied) = LastSequence + 1 /\ LastSequence \in Nat
      /\ view'.applied[LastSequence + 1] = f.type
      /\ \A i \in 1..LastSequence : view'.applied[i] = view.applied[i]
      /\ f.sequence = LastSequence + 1
      /\ view.attempt # 0 => view.attempt = f.attempt
  BY <1>1, <1>2, <1>4 DEF LastSequence, Applies, Foreign
<1>8. ASSUME held', view'.attempt = attempt'
      PROVE  /\ LastSequence + 1 <= Len(log)
             /\ \A i \in 1..LastSequence + 1 : view'.applied[i] = log[i].type
  BY SMTT(30), <1>2, <1>7, <1>8 DEF IsCommitted, ViewInv, FollowTypeOK
<1>9. ViewInv'
  BY SMTT(30), <1>2, <1>3, <1>4, <1>7, <1>8 DEF ViewInv, LastSequence, FollowTypeOK
<1> QED BY <1>2, <1>6, <1>9 DEF FollowInv

LEMMA FollowNextSound == FollowInv /\ [FollowNext]_followVars => FollowInv'
<1> SUFFICES ASSUME FollowInv, [FollowNext]_followVars PROVE FollowInv'
  OBVIOUS
<1>1. CASE \E type \in Types : Commit(type) \/ PublishUncommitted(type)
  BY <1>1, CommitSound, PublishUncommittedSound
<1>2. CASE Retire \/ Recreate \/ Connect \/ ApplyEvent
  BY <1>2, RetireSound, RecreateSound, ConnectSound, ApplySound
<1>3. CASE IgnoreDuplicate \/ MarkGap
  <2>1. Dispatch /\ view' = view
    BY <1>3 DEF IgnoreDuplicate, MarkGap
  <2> QED BY <2>1, Dispatching DEF FollowInv, FollowTypeOK, ViewInv, LastSequence
<1>4. CASE Refused \/ StartRecovery \/ UNCHANGED followVars
  <2>1. UNCHANGED <<attempt, held, log, sessionStatus, frames, cursor, view>>
    BY <1>4 DEF Refused, StartRecovery, followVars, server, client
  <2> QED BY <2>1 DEF FollowInv, FollowTypeOK, LogInv, WireInv, ViewInv, LastSequence
<1>5. CASE FreshReplay
  BY <1>5 DEF FreshReplay, server, NoEvent, Unseen, FollowInv, FollowTypeOK, LogInv,
     WireInv, ViewInv, LastSequence
<1>6. CASE StreamEnds \/ Drop
  <2>1. UNCHANGED <<attempt, held, log, sessionStatus, cursor, view>> /\ frames' = <<>>
    BY <1>6 DEF StreamEnds, Drop, Disconnected, server
  <2> QED BY <2>1 DEF FollowInv, FollowTypeOK, LogInv, WireInv, ViewInv, LastSequence
<1> QED BY <1>1, <1>2, <1>3, <1>4, <1>5, <1>6 DEF FollowNext

\* However the stream breaks, is replayed or belongs to an attempt that is gone, what
\* the page shows of an attempt that the server holds is that attempt's log up to some
\* point, with the status it had there.
THEOREM ViewKeepsFaith == FollowSpec => []ViewIsFaithful
BY ViewsAreFaithful, FollowInitSound, FollowNextSound, PTL DEF FollowSpec

-----------------------------------------------------------------------------
(* The page and its presses: an invariant that needs nothing of the stream  *)
(* but whose it is.                                                         *)

StreamFinish == {"worklet", "transport", "checking"}
BatchFinish  == {"syncing", "telling", "uploading"}

CaptureStates ==
  [mic : {"none", "asked", "live", "off"},
   start : {"none", "asking", "starting", "ended"},
   registration : {"none", "creating", "starting", "ok", "failed"},
   recorder : {"none", "on", "stopping", "off"},
   finish : {"none", "posting", "done"} \union StreamFinish \union BatchFinish,
   failing : {"none", "closing", "done"},
   report : {"none", "creating", "posting", "done"},
   aborted : BOOLEAN, claim : {"none", "done", "sealed"}]

PageTypeOK ==
  /\ mode \in {"pcm", "batch"} /\ leaving \in BOOLEAN
  /\ status \in {"idle", "authorizing", "recording", "stopping", "uploading", "error"}
  /\ press \in Nat
  /\ active \in Turns \union {NoPress} /\ turn \in Turns \union {0}
  /\ lease \in Turns \union {NoPress, Manual} /\ bound \in Turns \union {NoPress, Manual}
  /\ cap \in [Turns -> CaptureStates]

\* Nothing of a press has happened but its start.
OnlyStarts(c) ==
  /\ c.registration = "none" /\ c.recorder = "none" /\ c.finish = "none"
  /\ c.failing = "none" /\ c.report = "none" /\ ~c.aborted /\ c.claim = "none"

\* A press that is being started has the input to itself.
StartsAlone ==
  \A p \in Turns :
    /\ p > press \/ (leaving /\ p = press) => cap[p].start = "none"
    /\ cap[p].start # "ended" => OnlyStarts(cap[p])
    /\ cap[p].start = "none" => cap[p].mic = "none"
    /\ cap[p].start = "asking" => cap[p].mic = "asked"
    /\ cap[p].start = "starting" => cap[p].mic \in {"live", "off"} /\ mode = "pcm"
    /\ cap[p].start \in {"asking", "starting"} =>
         /\ lease = p /\ active = NoPress
         /\ ~leaving => press = p /\ status = "authorizing"

\* The active capture is the latest press's, has the input, and is shown.
ActiveIsLatest ==
  /\ active # NoPress =>
       /\ ~leaving /\ active = press /\ lease = active
       /\ cap[active].start = "ended"
       /\ status \in {"recording", "stopping", "uploading"}
       /\ mode = "pcm" => turn = active /\ status # "stopping"
  /\ status = "recording" /\ ~leaving =>
       active # NoPress /\ cap[active].finish = "none"

MicrophonesAreHeld ==
  \A p \in Turns :
    cap[p].mic = "live" => ~leaving /\ (cap[p].start = "starting" \/ active = p)

\* A capture that failed keeps the page from a new press until that is shown.
FailuresHold ==
  \A p \in Turns :
    /\ cap[p].failing # "none" => cap[p].aborted /\ mode = "pcm"
    /\ cap[p].failing = "closing" /\ ~leaving =>
         press = p /\ status \in {"recording", "uploading"} /\ lease \in {p, NoPress}

\* What still finishes is active, or was aborted.
FinishesAreActive ==
  \A p \in Turns :
    /\ cap[p].finish \notin {"none", "done"} => cap[p].aborted \/ active = p
    /\ cap[p].recorder \in {"on", "stopping"} => active = p /\ mode = "batch"
    /\ cap[p].finish # "none" => cap[p].recorder \in {"none", "off"}
    /\ cap[p].finish \in BatchFinish => mode = "batch"
    /\ cap[p].finish \in StreamFinish => mode = "pcm"

PageInv ==
  /\ PageTypeOK /\ StartsAlone /\ ActiveIsLatest /\ MicrophonesAreHeld
  /\ FailuresHold /\ FinishesAreActive /\ (turn # 0 => mode = "pcm")

\* Places in a sequence, counted from the message behind the first.
LEMMA NextPlace ==
  ASSUME NEW last \in Nat, NEW i \in Nat, NEW n \in Nat
  PROVE  /\ last + (i + 1) = last + 1 + i /\ last + (i + 1) - 1 = last + 1 + i - 1
         /\ i + 1 = n => i = n - 1
OBVIOUS

USE LimitsArePositive, HoldersAreOthers, ModesAreKnown

LEMMA SilencedCapture ==
  ASSUME NEW c \in CaptureStates
  PROVE  /\ Silenced(c) \in CaptureStates /\ Silenced(c).mic \in {c.mic, "off"} \ {"live"}
         /\ Silenced(c).start = c.start /\ Silenced(c).registration = c.registration
         /\ Silenced(c).recorder = c.recorder /\ Silenced(c).finish = c.finish
         /\ Silenced(c).failing = c.failing /\ Silenced(c).report = c.report
         /\ Silenced(c).aborted = c.aborted /\ Silenced(c).claim = c.claim
BY DEF Silenced, CaptureStates

\* The coroutines of a press go on, and may notice its failure.
LEMMA PressGoesOn ==
  ASSUME PageInv, NEW p \in Turns, NEW c \in CaptureStates,
         cap' = [cap EXCEPT ![p] = c],
         UNCHANGED <<mode, status, lease, press, active, leaving, turn>>,
         bound' \in Turns \union {NoPress, Manual},
         cap[p].start = "ended", c.start = "ended",
         c.mic \in {cap[p].mic, "off"}, c.recorder = cap[p].recorder,
         cap[p].aborted => c.aborted,
         \/ c.failing = cap[p].failing
         \/ c.aborted /\ mode = "pcm" /\ active = p,
         \/ c.finish = cap[p].finish
         \/ /\ cap[p].finish \notin {"none", "done"}
            /\ c.finish \in {"posting"} \union (IF mode = "pcm" THEN StreamFinish ELSE BatchFinish)
  PROVE  PageInv'
<1> USE DEF PageInv
<1>1. PageTypeOK' BY DEF PageTypeOK
<1>2. StartsAlone' BY DEF StartsAlone, PageTypeOK
<1>3. ActiveIsLatest' BY DEF ActiveIsLatest, PageTypeOK
<1>4. MicrophonesAreHeld' BY DEF MicrophonesAreHeld, PageTypeOK
<1>5. FailuresHold'
  <2> SUFFICES ASSUME NEW q \in Turns
               PROVE  /\ cap'[q].failing # "none" => cap'[q].aborted /\ mode = "pcm"
                      /\ cap'[q].failing = "closing" /\ ~leaving =>
                           press = q /\ status \in {"recording", "uploading"} /\ lease \in {q, NoPress}
    BY DEF FailuresHold
  <2>1. /\ cap[q].failing # "none" => cap[q].aborted /\ mode = "pcm"
        /\ cap[q].failing = "closing" /\ ~leaving =>
             press = q /\ status \in {"recording", "uploading"} /\ lease \in {q, NoPress}
    BY DEF FailuresHold
  <2>2. cap' = [cap EXCEPT ![p] = c] /\ cap \in [Turns -> CaptureStates]
    BY DEF PageTypeOK
  <2>3. CASE q # p
    BY <2>1, <2>2, <2>3
  <2>4. CASE q = p
    <3>1. cap'[q] = c
      BY <2>2, <2>4
    <3>2. CASE c.failing = cap[p].failing
      BY <2>1, <2>4, <3>1, <3>2
    <3>3. CASE c.aborted /\ mode = "pcm" /\ active = p
      <4>1. active # NoPress
        BY <3>3
      <4>2. press = p /\ lease = p /\ status \in {"recording", "uploading"}
        BY <3>3, <4>1 DEF ActiveIsLatest
      <4> QED BY <2>4, <3>1, <3>3, <4>2
    <3> QED BY <3>2, <3>3
  <2> QED BY <2>3, <2>4
<1>6. FinishesAreActive' BY DEF FinishesAreActive, PageTypeOK, StreamFinish, BatchFinish
<1> QED BY <1>1, <1>2, <1>3, <1>4, <1>5, <1>6

\* A finish ends, and gives the input back.
LEMMA FinishEnds ==
  ASSUME PageInv, NEW p \in Turns, NEW c \in CaptureStates,
         cap' = [cap EXCEPT ![p] = c],
         lease' = Without(lease, p), active' = Without(active, p),
         UNCHANGED <<mode, press, leaving, turn, bound>>,
         cap[p].start = "ended", c.start = "ended", c.mic # "live", c.finish = "done",
         c.recorder = cap[p].recorder, c.recorder \in {"none", "off"},
         c.failing = cap[p].failing, c.aborted = cap[p].aborted,
         \/ status' = status /\ cap[p].finish # "none"
         \/ status' \in {"idle", "error"} /\ active = p /\ ~cap[p].aborted
         \/ status' = "uploading" /\ active = p
  PROVE  PageInv'
<1> USE DEF PageInv, Without
<1>1. PageTypeOK' BY DEF PageTypeOK
<1>2. StartsAlone' BY DEF StartsAlone, PageTypeOK
<1>3. ActiveIsLatest' BY DEF ActiveIsLatest, PageTypeOK
<1>4. MicrophonesAreHeld' BY DEF MicrophonesAreHeld, PageTypeOK
<1>5. FailuresHold' BY DEF FailuresHold, PageTypeOK, ActiveIsLatest
<1>6. FinishesAreActive' BY DEF FinishesAreActive, PageTypeOK, StreamFinish, BatchFinish
<1> QED BY <1>1, <1>2, <1>3, <1>4, <1>5, <1>6

LEMMA OverEnds ==
  ASSUME PageInv, NEW p \in Turns, NEW c \in CaptureStates, Over(p, c), turn' = turn,
         cap[p].start = "ended", c.start = "ended",
         c.recorder = cap[p].recorder, c.recorder \in {"none", "off"},
         c.failing = cap[p].failing, c.aborted = cap[p].aborted,
         \/ status' = status /\ cap[p].finish # "none"
         \/ status' \in {"idle", "error"} /\ active = p /\ ~cap[p].aborted
         \/ status' = "uploading" /\ active = p
  PROVE  PageInv'
<1> DEFINE s == Silenced(c)
           d == [s EXCEPT !.finish = "done"]
<1>1. /\ s \in CaptureStates /\ s.start = "ended" /\ s.mic # "live"
      /\ s.recorder = c.recorder /\ s.failing = c.failing /\ s.aborted = c.aborted
  BY SilencedCapture
<1>2. /\ cap' = [cap EXCEPT ![p] = d]
      /\ lease' = Without(lease, p) /\ active' = Without(active, p)
      /\ UNCHANGED <<mode, press, leaving, bound>>
  BY DEF Over, Becomes, Released, Steady
<1> HIDE DEF s
<1>3. d \in CaptureStates
  BY <1>1 DEF CaptureStates
<1>4. /\ d.start = s.start /\ d.mic = s.mic /\ d.finish = "done" /\ d.recorder = s.recorder
      /\ d.failing = s.failing /\ d.aborted = s.aborted
  BY <1>1 DEF CaptureStates
<1> HIDE DEF d
<1>5. /\ d.start = "ended" /\ d.mic # "live" /\ d.finish = "done"
      /\ d.recorder = cap[p].recorder /\ d.recorder \in {"none", "off"}
      /\ d.failing = cap[p].failing /\ d.aborted = cap[p].aborted
  BY ZenonT(40), <1>1, <1>4
<1>6. UNCHANGED <<mode, press, leaving, turn, bound>>
  BY <1>2
<1> QED BY ZenonT(40), <1>2, <1>3, <1>5, <1>6, FinishEnds

\* What the facts about a capture that finishes are.
LEMMA FinishingCapture ==
  ASSUME PageInv, NEW p \in Turns, cap[p].finish \notin {"none", "done"}
  PROVE  /\ cap[p] \in CaptureStates /\ cap[p].start = "ended"
         /\ cap[p].recorder \in {"none", "off"}
         /\ ~cap[p].aborted => active = p
BY DEF PageInv, PageTypeOK, StartsAlone, OnlyStarts, FinishesAreActive

LEMMA GivenUp ==
  ASSUME PageInv, NEW p \in Turns, cap[p].finish \notin {"none", "done"},
         Over(p, cap[p]), UNCHANGED <<status, turn>>
  PROVE  PageInv'
BY FinishingCapture, OverEnds

LEMMA Told ==
  ASSUME PageInv, NEW p \in Turns, cap[p].finish \notin {"none", "done"}, ~cap[p].aborted,
         NEW shown \in {"idle", "error"}, NEW claim \in {"none", "done", "sealed"},
         Tells(p, shown, claim), turn' = turn
  PROVE  PageInv'
<1> DEFINE c == [cap[p] EXCEPT !.claim = claim]
<1>1. /\ cap[p] \in CaptureStates /\ cap[p].start = "ended" /\ active = p
      /\ cap[p].recorder \in {"none", "off"}
  BY FinishingCapture
<1>2. /\ c \in CaptureStates /\ c.start = cap[p].start /\ c.recorder = cap[p].recorder
      /\ c.failing = cap[p].failing /\ c.aborted = cap[p].aborted
  BY <1>1 DEF CaptureStates
<1>3. Over(p, c) /\ status' = shown
  BY DEF Tells, Showing
<1> HIDE DEF c
<1> QED BY <1>1, <1>2, <1>3, OverEnds

\* A finish goes on to its next step.
LEMMA FinishGoesOn ==
  ASSUME PageInv, NEW p \in Turns, cap[p].finish \notin {"none", "done"},
         NEW next \in {"posting"} \union (IF mode = "pcm" THEN StreamFinish ELSE BatchFinish),
         \/ Becomes(p, [cap[p] EXCEPT !.finish = next])
         \/ Becomes(p, [Silenced(cap[p]) EXCEPT !.finish = next]),
         UNCHANGED <<mode, status, lease, press, active, leaving, bound, turn>>
  PROVE  PageInv'
<1>1. cap[p] \in CaptureStates /\ cap[p].start = "ended"
  BY FinishingCapture
<1>2. /\ Silenced(cap[p]) \in CaptureStates /\ Silenced(cap[p]).mic \in {cap[p].mic, "off"}
      /\ Silenced(cap[p]).start = "ended" /\ Silenced(cap[p]).recorder = cap[p].recorder
      /\ Silenced(cap[p]).failing = cap[p].failing /\ Silenced(cap[p]).aborted = cap[p].aborted
  BY <1>1, SilencedCapture
<1>3. PICK s \in CaptureStates :
        /\ Becomes(p, [s EXCEPT !.finish = next])
        /\ s.mic \in {cap[p].mic, "off"} /\ s.start = "ended"
        /\ s.recorder = cap[p].recorder
        /\ s.failing = cap[p].failing /\ s.aborted = cap[p].aborted
  BY <1>1, <1>2
<1> DEFINE c == [s EXCEPT !.finish = next]
<1>4. c \in CaptureStates
  BY DEF CaptureStates
<1>5. /\ c.start = s.start /\ c.mic = s.mic /\ c.finish = next /\ c.recorder = s.recorder
      /\ c.failing = s.failing /\ c.aborted = s.aborted
  BY DEF CaptureStates
<1>6. cap' = [cap EXCEPT ![p] = c] /\ bound' \in Turns \union {NoPress, Manual}
  BY <1>3 DEF Becomes, PageInv, PageTypeOK
<1> HIDE DEF c
<1> QED BY <1>1, <1>3, <1>4, <1>5, <1>6, PressGoesOn

LEMMA StopThrowsEnds ==
  ASSUME PageInv, NEW p \in Turns, cap[p].finish \in {"worklet", "transport"},
         StopThrows(p), turn' = turn
  PROVE  PageInv'
<1>1. mode = "pcm"
  BY DEF PageInv, FinishesAreActive, StreamFinish
<1>2. CASE Cancelled(p) \/ cap[p].failing # "none"
  BY <1>2, GivenUp DEF StopThrows
<1>3. CASE ~(Cancelled(p) \/ cap[p].failing # "none")
  <2>1. "checking" \in {"posting"} \union (IF mode = "pcm" THEN StreamFinish ELSE BatchFinish)
    BY <1>1 DEF StreamFinish
  <2> QED BY <1>3, <2>1, FinishGoesOn DEF StopThrows, Steady
<1> QED BY <1>2, <1>3

\* A start that throws.
LEMMA StartThrows ==
  ASSUME PageInv, NEW p \in Turns, NEW mic \in {"asked", "off"}, StartFails(p, mic),
         cap[p].start \in {"asking", "starting"}
  PROVE  PageInv'
<1> USE DEF PageInv, StartFails, Becomes, Without, IsCurrent, Showing, Steady, captureVars
<1> DEFINE c == [cap[p] EXCEPT !.start = "ended", !.mic = mic]
<1>1. c \in CaptureStates /\ cap' = [cap EXCEPT ![p] = c]
  <2>1. cap[p] \in CaptureStates
    BY DEF PageTypeOK
  <2> QED BY <2>1 DEF CaptureStates
<1>2. /\ c.start = "ended" /\ c.mic # "live" /\ c.failing = "none"
      /\ c.finish = "none" /\ c.recorder = "none"
  BY DEF PageTypeOK, CaptureStates, StartsAlone, OnlyStarts
<1> HIDE DEF c
<1>3. PageTypeOK' BY <1>1 DEF PageTypeOK
<1>4. StartsAlone' BY <1>1, <1>2 DEF StartsAlone, PageTypeOK
<1>5. ActiveIsLatest' BY <1>1 DEF ActiveIsLatest, PageTypeOK, StartsAlone
<1>6. MicrophonesAreHeld' BY <1>1, <1>2 DEF MicrophonesAreHeld, PageTypeOK
<1>7. FailuresHold' BY <1>1, <1>2 DEF FailuresHold, PageTypeOK, StartsAlone, OnlyStarts
<1>8. FinishesAreActive'
  BY <1>1, <1>2 DEF FinishesAreActive, PageTypeOK, StreamFinish, BatchFinish, StartsAlone, OnlyStarts
<1> QED BY <1>3, <1>4, <1>5, <1>6, <1>7, <1>8

\* A microphone that nobody waits for any more.
LEMMA LateMicrophone ==
  ASSUME PageInv, NEW p \in Turns, cap[p].mic = "asked", cap[p].start # "asking",
         Becomes(p, [cap[p] EXCEPT !.mic = "off"]),
         UNCHANGED <<captureVars, mode, status, lease, press, active, leaving, bound>>
  PROVE  PageInv'
<1> DEFINE c == [cap[p] EXCEPT !.mic = "off"]
<1>1. cap[p] \in CaptureStates /\ cap[p].start = "ended"
  BY DEF PageInv, PageTypeOK, StartsAlone, CaptureStates
<1>2. c \in CaptureStates /\ cap' = [cap EXCEPT ![p] = c]
  BY <1>1 DEF CaptureStates, Becomes
<1>3. /\ c.mic = "off" /\ c.start = "ended" /\ c.recorder = cap[p].recorder
      /\ c.aborted = cap[p].aborted /\ c.failing = cap[p].failing /\ c.finish = cap[p].finish
  BY <1>1 DEF CaptureStates
<1> HIDE DEF c
<1> QED BY <1>1, <1>2, <1>3, PressGoesOn DEF captureVars, PageInv, PageTypeOK

LEMMA NothingOfThePage ==
  ASSUME PageInv, UNCHANGED <<mode, status, lease, press, active, leaving, bound, turn, cap>>
  PROVE  PageInv'
BY DEF PageInv, PageTypeOK, StartsAlone, ActiveIsLatest, MicrophonesAreHeld, FailuresHold,
   FinishesAreActive

\* Before the first stream there is nothing that could be heard of it.
NoTransport ==
  turn = 0 => port = <<>> /\ source.state = "off" /\ t = FreshTransport

LEMMA PageStep ==
  PageInv /\ NoTransport /\ [Next]_vars => PageInv'
<1> SUFFICES ASSUME PageInv, NoTransport, [Next]_vars PROVE PageInv'
  OBVIOUS
<1>1. CASE Press
  <2> USE <1>1 DEF PageInv, Press, Showing, Becomes, captureVars
  <2> DEFINE c == [Idle EXCEPT !.mic = "asked", !.start = "asking"]
  <2>1. /\ press' \in Turns /\ press' = press + 1
        /\ c \in CaptureStates /\ cap' = [cap EXCEPT ![press'] = c]
        /\ c.start = "asking" /\ c.mic = "asked" /\ OnlyStarts(c)
    BY DEF CaptureStates, Idle, OnlyStarts
  <2> HIDE DEF c
  <2>2. PageTypeOK' BY <2>1 DEF PageTypeOK
  <2>3. StartsAlone' BY <2>1 DEF StartsAlone, PageTypeOK
  <2>4. ActiveIsLatest' BY DEF ActiveIsLatest
  <2>5. MicrophonesAreHeld' BY <2>1 DEF MicrophonesAreHeld, PageTypeOK
  <2>6. FailuresHold' BY <2>1 DEF FailuresHold, PageTypeOK, OnlyStarts
  <2>7. FinishesAreActive' BY <2>1 DEF FinishesAreActive, PageTypeOK, OnlyStarts,
        StreamFinish, BatchFinish
  <2> QED BY <2>2, <2>3, <2>4, <2>5, <2>6, <2>7
<1>2. ASSUME NEW p \in Turns, MicrophoneRefused(p) PROVE PageInv'
  <2>1. CASE cap[p].start = "asking"
    BY <1>2, <2>1, StartThrows DEF MicrophoneRefused
  <2>2. CASE cap[p].start # "asking"
    BY <1>2, <2>2, LateMicrophone DEF MicrophoneRefused
  <2> QED BY <2>1, <2>2
<1>3. ASSUME NEW p \in Turns, MicrophoneTimesOut(p) PROVE PageInv'
  <2>1. cap[p].mic = "asked"
    BY <1>3 DEF MicrophoneTimesOut, PageInv, StartsAlone
  <2> QED BY <1>3, <2>1, StartThrows DEF MicrophoneTimesOut
<1>4. ASSUME NEW p \in Turns, MicrophoneGranted(p) PROVE PageInv'
  <2>1. CASE cap[p].start # "asking"
    BY <1>4, <2>1, LateMicrophone DEF MicrophoneGranted
  <2>2. CASE cap[p].start = "asking" /\ StartFails(p, "off")
    BY <2>2, StartThrows
  <2>3. CASE cap[p].start = "asking" /\ press = p /\ ~StartFails(p, "off")
    <3> USE DEF PageInv
    <3>1. /\ ~leaving /\ lease = p /\ active = NoPress /\ OnlyStarts(cap[p])
          /\ cap[p] \in CaptureStates
      BY <2>3 DEF StartsAlone, PageTypeOK
    <3>2. CASE mode = "pcm"
      <4> DEFINE c == [cap[p] EXCEPT !.mic = "live", !.start = "starting"]
      <4>1. /\ c \in CaptureStates /\ cap' = [cap EXCEPT ![p] = c]
            /\ c.start = "starting" /\ c.mic = "live" /\ OnlyStarts(c)
            /\ UNCHANGED <<mode, press, leaving, status, lease, active, bound, turn>>
        BY <1>4, <2>3, <3>1, <3>2 DEF CaptureStates, OnlyStarts, MicrophoneGranted, Becomes,
           Steady, captureVars
      <4> HIDE DEF c
      <4>2. PageTypeOK' BY <4>1 DEF PageTypeOK
      <4>3. StartsAlone' BY <2>3, <3>1, <3>2, <4>1 DEF StartsAlone, PageTypeOK
      <4>4. ActiveIsLatest' BY <3>1, <4>1 DEF ActiveIsLatest
      <4>5. MicrophonesAreHeld' BY <3>1, <4>1 DEF MicrophonesAreHeld, PageTypeOK
      <4>6. FailuresHold' BY <4>1 DEF FailuresHold, PageTypeOK, OnlyStarts
      <4>7. FinishesAreActive' BY <4>1 DEF FinishesAreActive, PageTypeOK, OnlyStarts,
            StreamFinish, BatchFinish
      <4> QED BY <4>1, <4>2, <4>3, <4>4, <4>5, <4>6, <4>7
    <3>3. CASE mode = "batch"
      <4> DEFINE c == [cap[p] EXCEPT !.mic = "live", !.start = "ended", !.recorder = "on",
                                     !.registration = "creating"]
      <4>1. /\ c \in CaptureStates /\ cap' = [cap EXCEPT ![p] = c]
            /\ c.start = "ended" /\ c.mic = "live" /\ c.recorder = "on"
            /\ c.finish = "none" /\ c.failing = "none"
            /\ active' = p /\ status' = "recording"
            /\ UNCHANGED <<mode, press, leaving, lease, bound, turn>>
        BY <1>4, <2>3, <3>1, <3>3 DEF CaptureStates, OnlyStarts, MicrophoneGranted, Becomes,
           Steady, captureVars, Showing
      <4> HIDE DEF c
      <4>2. PageTypeOK' BY <4>1 DEF PageTypeOK
      <4>3. StartsAlone' BY <2>3, <3>1, <4>1 DEF StartsAlone, PageTypeOK
      <4>4. ActiveIsLatest' BY <2>3, <3>1, <3>3, <4>1 DEF ActiveIsLatest, PageTypeOK
      <4>5. MicrophonesAreHeld' BY <3>1, <4>1 DEF MicrophonesAreHeld, PageTypeOK
      <4>6. FailuresHold' BY <3>1, <3>3, <4>1 DEF FailuresHold, PageTypeOK
      <4>7. FinishesAreActive' BY <3>1, <3>3, <4>1 DEF FinishesAreActive, PageTypeOK,
            StreamFinish, BatchFinish
      <4> QED BY <4>1, <4>2, <4>3, <4>4, <4>5, <4>6, <4>7
    <3> QED BY <3>2, <3>3 DEF PageTypeOK
  <2> QED BY <1>4, <2>1, <2>2, <2>3 DEF MicrophoneGranted
<1>5. ASSUME NEW p \in Turns, CaptureFailsToStart(p) PROVE PageInv'
  BY <1>5, StartThrows DEF CaptureFailsToStart
<1>6. ASSUME NEW p \in Turns, CaptureStarts(p) PROVE PageInv'
  <2>1. CASE ~IsCurrent(p)
    BY <1>6, <2>1, StartThrows DEF CaptureStarts
  <2>2. CASE IsCurrent(p)
    <3> USE DEF PageInv
    <3> DEFINE c == [cap[p] EXCEPT !.start = "ended", !.registration = "creating"]
    <3>1. /\ ~leaving /\ press = p /\ lease = p /\ active = NoPress /\ OnlyStarts(cap[p])
          /\ cap[p] \in CaptureStates /\ mode = "pcm"
      BY <1>6, <2>2 DEF StartsAlone, PageTypeOK, IsCurrent, CaptureStarts
    <3>2. /\ c \in CaptureStates /\ cap' = [cap EXCEPT ![p] = c]
          /\ c.start = "ended" /\ c.mic = cap[p].mic /\ c.recorder = "none"
          /\ c.finish = "none" /\ c.failing = "none"
          /\ active' = p /\ status' = "recording" /\ turn' = p
          /\ UNCHANGED <<mode, press, leaving, lease, bound>>
      BY <1>6, <2>2, <3>1 DEF CaptureStates, OnlyStarts, CaptureStarts, Becomes,
         Steady, NewTransport, Showing
    <3> HIDE DEF c
    <3>3. PageTypeOK' BY <3>2 DEF PageTypeOK
    <3>4. StartsAlone' BY <3>1, <3>2 DEF StartsAlone, PageTypeOK
    <3>5. ActiveIsLatest' BY <3>1, <3>2 DEF ActiveIsLatest, PageTypeOK
    <3>6. MicrophonesAreHeld' BY <3>1, <3>2 DEF MicrophonesAreHeld, PageTypeOK
    <3>7. FailuresHold' BY <3>1, <3>2 DEF FailuresHold, PageTypeOK
    <3>8. FinishesAreActive' BY <3>1, <3>2 DEF FinishesAreActive, PageTypeOK,
          StreamFinish, BatchFinish
    <3> QED BY <3>1, <3>2, <3>3, <3>4, <3>5, <3>6, <3>7, <3>8
  <2> QED BY <2>1, <2>2
<1>7. CASE Capturing
  <2>1. UNCHANGED <<mode, status, lease, press, active, leaving, bound, turn>>
    BY <1>7 DEF Capturing, Page, Faults, FrameArrives, HashIsReady, AnswerArrives,
       SourceFails, SocketFails, TimerFires, Notices, Steady
  <2>2. CASE Raised /\ Concerns(turn)
    <3>1. CASE turn \in Turns
      <4>1. cap[turn] \in CaptureStates /\ cap[turn].start = "ended" /\ mode = "pcm"
        BY <2>2, <3>1 DEF PageInv, PageTypeOK, Concerns, ActiveIsLatest
      <4> DEFINE c == Failing(cap[turn])
      <4>2. c \in CaptureStates /\ cap' = [cap EXCEPT ![turn] = c]
        BY <1>7, <2>2, <4>1 DEF Capturing, Notices, Failing, CaptureStates
      <4>3. /\ c.mic = cap[turn].mic /\ c.start = "ended" /\ c.finish = cap[turn].finish
            /\ c.recorder = cap[turn].recorder /\ c.aborted
        BY <4>1 DEF Failing, CaptureStates
      <4>4. active = turn /\ bound' \in Turns \union {NoPress, Manual}
        BY <2>1, <2>2 DEF Concerns, PageInv, PageTypeOK
      <4> HIDE DEF c
      <4> QED BY <2>1, <3>1, <4>1, <4>2, <4>3, <4>4, PressGoesOn
    <3>2. CASE turn = 0
      <4>1. cap' = cap
        BY <1>7, <3>2 DEF Capturing, Notices, PageInv, PageTypeOK
      <4> QED BY <2>1, <4>1, NothingOfThePage
    <3> QED BY <3>1, <3>2 DEF PageInv, PageTypeOK
  <2>3. CASE ~(Raised /\ Concerns(turn))
    BY <1>7, <2>1, <2>3, NothingOfThePage DEF Capturing, Notices
  <2> QED BY <2>2, <2>3
<1>8. CASE Serving
  <2>1. turn' = turn
    BY <1>8 DEF Serving, Remote, SocketOpens, RenderFrame, WorkletStops, ServerStarts,
       ServerSpools, ServerStops, ServerRefuses, ServerSeesClose
  <2> QED BY <1>8, <2>1, NothingOfThePage DEF Serving, pageVars
<1>9. ASSUME NEW p \in Turns, FailureIsShown(p) PROVE PageInv'
  <2> USE <1>9 DEF PageInv
  <2> DEFINE s == Silenced(cap[p])
             c == [s EXCEPT !.failing = "done", !.report = "creating"]
  <2>1. /\ cap[p] \in CaptureStates /\ cap[p].failing = "closing" /\ cap[p].start = "ended"
        /\ cap[p].aborted /\ mode = "pcm"
    BY DEF PageTypeOK, FailureIsShown, StartsAlone, OnlyStarts, FailuresHold
  <2>2. /\ c \in CaptureStates /\ c.start = "ended" /\ c.mic # "live" /\ c.failing = "done"
        /\ c.aborted /\ c.finish = cap[p].finish /\ c.recorder = cap[p].recorder
    <3>1. /\ s \in CaptureStates /\ s.start = "ended" /\ s.mic # "live" /\ s.aborted
          /\ s.finish = cap[p].finish /\ s.recorder = cap[p].recorder
      BY <2>1, SilencedCapture
    <3> HIDE DEF s
    <3>2. c \in CaptureStates
      BY <3>1 DEF CaptureStates
    <3>3. /\ c.start = s.start /\ c.mic = s.mic /\ c.failing = "done"
          /\ c.aborted = s.aborted /\ c.finish = s.finish /\ c.recorder = s.recorder
      BY <3>1 DEF CaptureStates
    <3> QED BY <3>1, <3>2, <3>3
  <2>3. /\ cap' = [cap EXCEPT ![p] = c] /\ status' = "error"
        /\ lease' = Without(lease, p) /\ active' = Without(active, p)
        /\ UNCHANGED <<mode, press, leaving, bound, turn>>
    BY DEF FailureIsShown, Becomes, Showing, Steady, captureVars
  <2> HIDE DEF c
  <2> USE DEF Without
  <2>4. PageTypeOK' BY <2>2, <2>3 DEF PageTypeOK
  <2>5. ~leaving => press = p /\ active \in {p, NoPress} /\ lease \in {p, NoPress}
    BY <2>1 DEF FailuresHold, ActiveIsLatest
  <2>6. leaving => active = NoPress
    BY DEF ActiveIsLatest
  <2>7. StartsAlone'
    BY <2>1, <2>2, <2>3, <2>5, <2>6 DEF StartsAlone, PageTypeOK
  <2>8. ActiveIsLatest'
    BY <2>3, <2>5, <2>6 DEF ActiveIsLatest
  <2>9. MicrophonesAreHeld'
    BY <2>2, <2>3, <2>5, <2>6 DEF MicrophonesAreHeld, PageTypeOK
  <2>10. FailuresHold'
    BY <2>1, <2>2, <2>3, <2>5 DEF FailuresHold, PageTypeOK
  <2>11. FinishesAreActive'
    BY <2>1, <2>2, <2>3 DEF FinishesAreActive, PageTypeOK, StreamFinish, BatchFinish
  <2> QED BY <2>1, <2>3, <2>4, <2>7, <2>8, <2>9, <2>10, <2>11
<1>10. ASSUME NEW p \in Turns, ReportRegisters(p) \/ ReportIsGivenUp(p) PROVE PageInv'
  <2> DEFINE c(r) == [cap[p] EXCEPT !.report = r]
  <2>1. cap[p] \in CaptureStates /\ cap[p].start = "ended"
    BY <1>10 DEF PageInv, PageTypeOK, StartsAlone, OnlyStarts, ReportRegisters, ReportIsGivenUp
  <2>2. ASSUME NEW r \in {"posting", "done"}
        PROVE  /\ c(r) \in CaptureStates /\ c(r).start = "ended" /\ c(r).mic = cap[p].mic
               /\ c(r).recorder = cap[p].recorder /\ c(r).aborted = cap[p].aborted
               /\ c(r).failing = cap[p].failing /\ c(r).finish = cap[p].finish
    BY <2>1 DEF CaptureStates
  <2>3. \E r \in {"posting", "done"} : cap' = [cap EXCEPT ![p] = c(r)]
    BY <1>10 DEF ReportRegisters, ReportIsGivenUp, Becomes
  <2>4. /\ UNCHANGED <<mode, status, lease, press, active, leaving, turn>>
        /\ bound' \in Turns \union {NoPress, Manual}
    BY <1>10 DEF ReportRegisters, ReportIsGivenUp, Steady, captureVars, PageInv, PageTypeOK
  <2> HIDE DEF c
  <2>5. PICK r \in {"posting", "done"} : cap' = [cap EXCEPT ![p] = c(r)]
    BY <2>3
  <2> QED BY <2>1, <2>2, <2>4, <2>5, PressGoesOn
<1>11. ASSUME NEW p \in Turns, SessionIsCreated(p) \/ StartIsTold(p) \/ StopIsTold(p)
                               \/ AudioIsUploaded(p) \/ DeadlinePasses(p) \/ Outside(p)
       PROVE  PageInv'
  BY <1>11, NothingOfThePage DEF SessionIsCreated, StartIsTold, StopIsTold, AudioIsUploaded,
     DeadlinePasses, Outside, AnalysisEnds, OperatorResets, pageVars
<1>12. ASSUME NEW p \in Turns, RegistrationAnswers(p) \/ StartIsAnswered(p) PROVE PageInv'
  <2> DEFINE c(r) == [cap[p] EXCEPT !.registration = r]
  <2>1. cap[p] \in CaptureStates /\ cap[p].start = "ended"
    BY <1>12 DEF PageInv, PageTypeOK, StartsAlone, OnlyStarts, RegistrationAnswers,
       StartIsAnswered
  <2>2. ASSUME NEW r \in {"failed", "starting", "ok"}
        PROVE  /\ c(r) \in CaptureStates /\ c(r).start = "ended" /\ c(r).mic = cap[p].mic
               /\ c(r).recorder = cap[p].recorder /\ c(r).aborted = cap[p].aborted
               /\ c(r).failing = cap[p].failing /\ c(r).finish = cap[p].finish
    BY <2>1 DEF CaptureStates
  <2>3. \E r \in {"failed", "starting", "ok"} : cap' = [cap EXCEPT ![p] = c(r)]
    BY <1>12 DEF RegistrationAnswers, StartIsAnswered, Becomes
  <2>4. /\ UNCHANGED <<mode, status, lease, press, active, leaving, turn>>
        /\ bound' \in Turns \union {NoPress, Manual}
    BY <1>12 DEF RegistrationAnswers, StartIsAnswered, Steady, captureVars, PageInv, PageTypeOK
  <2> HIDE DEF c
  <2>5. PICK r \in {"failed", "starting", "ok"} : cap' = [cap EXCEPT ![p] = c(r)]
    BY <2>3
  <2> QED BY <2>1, <2>2, <2>4, <2>5, PressGoesOn
<1>13. ASSUME NEW p \in Turns, RegistrationFails(p) PROVE PageInv'
  <2> DEFINE fails == mode = "pcm" /\ Concerns(p) /\ ~cap[p].aborted
             d == [cap[p] EXCEPT !.registration = "failed"]
             c == IF fails THEN Failing(d) ELSE d
  <2>1. cap[p] \in CaptureStates /\ cap[p].start = "ended"
    BY <1>13 DEF PageInv, PageTypeOK, StartsAlone, OnlyStarts, RegistrationFails
  <2>2. /\ d \in CaptureStates /\ d.start = "ended" /\ d.mic = cap[p].mic
        /\ d.recorder = cap[p].recorder /\ d.aborted = cap[p].aborted
        /\ d.failing = cap[p].failing /\ d.finish = cap[p].finish
    BY <2>1 DEF CaptureStates
  <2>3. /\ cap' = [cap EXCEPT ![p] = c]
        /\ UNCHANGED <<mode, status, lease, press, active, leaving, turn, bound>>
    BY <1>13 DEF RegistrationFails, Steady, Becomes
  <2> HIDE DEF d
  <2>4. /\ c \in CaptureStates /\ c.start = "ended" /\ c.mic = cap[p].mic
        /\ c.recorder = cap[p].recorder /\ c.finish = cap[p].finish
        /\ cap[p].aborted => c.aborted
        /\ \/ c.failing = cap[p].failing
           \/ c.aborted /\ mode = "pcm" /\ active = p
    <3>1. CASE fails
      BY <2>2, <3>1 DEF CaptureStates, Failing, Concerns
    <3>2. CASE ~fails
      BY <2>2, <3>2
    <3> QED BY <3>1, <3>2
  <2> HIDE DEF c
  <2>5. bound' \in Turns \union {NoPress, Manual}
    BY <2>3 DEF PageInv, PageTypeOK
  <2> QED BY <2>1, <2>3, <2>4, <2>5, PressGoesOn
<1>14. CASE WorkletIsStopped
  <2>1. turn' = turn
    BY <1>14 DEF WorkletIsStopped, WorkletStopArrives
  <2>2. CASE cap[turn].finish # "worklet"
    BY <1>14, <2>1, <2>2, NothingOfThePage DEF WorkletIsStopped, pageVars
  <2>3. CASE cap[turn].finish = "worklet" /\ Alive(t) /\ turn \in Turns
    <3>1. "transport" \in {"posting"} \union (IF mode = "pcm" THEN StreamFinish ELSE BatchFinish)
      BY <2>3 DEF StreamFinish, PageInv, FinishesAreActive
    <3> QED BY <1>14, <2>1, <2>3, <3>1, FinishGoesOn DEF WorkletIsStopped, Steady
  <2>4. CASE cap[turn].finish = "worklet" /\ ~Alive(t) /\ turn \in Turns
    BY <1>14, <2>1, <2>4, StopThrowsEnds DEF WorkletIsStopped
  <2>5. turn # 0
    BY <1>14 DEF WorkletIsStopped, WorkletStopArrives, NoTransport
  <2> QED BY <2>2, <2>3, <2>4, <2>5 DEF PageInv, PageTypeOK
<1>15. ASSUME NEW p \in Turns, StopTimesOut(p) PROVE PageInv'
  BY <1>15, StopThrowsEnds DEF StopTimesOut
<1>16. ASSUME NEW p \in Turns, TransportSettles(p) PROVE PageInv'
  <2>1. CASE t.verdict = "final" /\ IsActive(p)
    BY <1>16, <2>1, Told DEF TransportSettles, IsActive, captureVars
  <2>2. CASE ~(t.verdict = "final" /\ IsActive(p))
    BY <1>16, <2>2, StopThrowsEnds DEF TransportSettles, captureVars
  <2> QED BY <2>1, <2>2
<1>17. ASSUME NEW p \in Turns, CheckAnswers(p) PROVE PageInv'
  <2> USE <1>17 DEF CheckAnswers
  <2>1. cap[p].finish = "checking" /\ ~cap[p].aborted /\ turn' = turn
    BY DEF Cancelled, captureVars
  <2>2. \/ \E shown \in {"idle", "error"}, claim \in {"none", "done", "sealed"} :
             Tells(p, shown, claim)
        \/ /\ Becomes(p, [cap[p] EXCEPT !.finish = "posting"])
           /\ UNCHANGED <<mode, status, lease, press, active, leaving, bound>>
    BY DEF Steady
  <2> HIDE <1>17 DEF CheckAnswers
  <2> QED BY <2>1, <2>2, Told, FinishGoesOn
<1>18. ASSUME NEW p \in Turns, CheckFails(p) \/ BatchFails(p) PROVE PageInv'
  <2>1. cap[p].finish \notin {"none", "done"} /\ turn' = turn
    BY <1>18 DEF CheckFails, BatchFails, captureVars
  <2>2. \/ Over(p, cap[p]) /\ UNCHANGED status
        \/ ~cap[p].aborted /\ Tells(p, "error", "none")
    BY <1>18 DEF CheckFails, BatchFails, Cancelled
  <2> QED BY <2>1, <2>2, GivenUp, Told
<1>19. ASSUME NEW p \in Turns, ErrorIsPosted(p) PROVE PageInv'
  <2>1. turn' = turn
    BY <1>19 DEF ErrorIsPosted
  <2>2. CASE cap[p].finish = "posting" /\ Cancelled(p)
    BY <1>19, <2>1, <2>2, GivenUp DEF ErrorIsPosted
  <2>3. CASE cap[p].finish = "posting" /\ ~Cancelled(p)
    <3>1. \E claim \in {"sealed", "none"} : Tells(p, "error", claim)
      BY <1>19, <2>3 DEF ErrorIsPosted
    <3> QED BY <2>1, <2>3, <3>1, Told DEF Cancelled
  <2>4. CASE cap[p].finish # "posting"
    <3> DEFINE c == [cap[p] EXCEPT !.report = "done"]
    <3>1. cap[p] \in CaptureStates /\ cap[p].start = "ended"
      BY <1>19, <2>4 DEF PageInv, PageTypeOK, StartsAlone, OnlyStarts, ErrorIsPosted
    <3>2. c \in CaptureStates
      BY <3>1 DEF CaptureStates
    <3>3. /\ c.start = "ended" /\ c.mic = cap[p].mic
          /\ c.recorder = cap[p].recorder /\ c.aborted = cap[p].aborted
          /\ c.failing = cap[p].failing /\ c.finish = cap[p].finish
      BY <3>1 DEF CaptureStates
    <3>4. /\ cap' = [cap EXCEPT ![p] = c]
          /\ UNCHANGED <<mode, status, lease, press, active, leaving, bound>>
      BY <1>19, <2>4 DEF ErrorIsPosted, Becomes, Steady
    <3>5. bound' \in Turns \union {NoPress, Manual}
      BY <3>4 DEF PageInv, PageTypeOK
    <3> HIDE DEF c
    <3> QED BY <2>1, <3>1, <3>2, <3>3, <3>4, <3>5, PressGoesOn
  <2> QED BY <2>2, <2>3, <2>4
<1>20. ASSUME NEW p \in Turns, BatchIsSynced(p) \/ StopIsAnswered(p) PROVE PageInv'
  <2>1. /\ cap[p].finish \in BatchFinish /\ mode = "batch"
        /\ UNCHANGED <<mode, status, lease, press, active, leaving, bound, turn>>
    BY <1>20 DEF BatchIsSynced, StopIsAnswered, BatchFinish, Steady, captureVars, PageInv,
       FinishesAreActive
  <2>2. \E next \in {"posting"} \union BatchFinish :
          Becomes(p, [cap[p] EXCEPT !.finish = next])
    BY <1>20 DEF BatchIsSynced, StopIsAnswered, BatchFinish
  <2> QED BY <2>1, <2>2, FinishGoesOn DEF BatchFinish
<1>21. ASSUME NEW p \in Turns, UploadIsAnswered(p) PROVE PageInv'
  BY <1>21, Told DEF UploadIsAnswered, IsActive, captureVars
<1>22. CASE PressToStop
  <2>1. /\ status = "recording" /\ ~leaving /\ active \in Turns /\ lease = active
        /\ cap[active] \in CaptureStates /\ cap[active].start = "ended"
        /\ cap[active].finish = "none" /\ mode \in {"pcm", "batch"}
    BY <1>22 DEF PressToStop, PageInv, PageTypeOK, ActiveIsLatest
  <2>2. CASE mode = "pcm" /\ cap[active].failing = "none"
    <3> DEFINE c == [cap[active] EXCEPT !.finish = "worklet"]
    <3>1. /\ cap' = [cap EXCEPT ![active] = c] /\ status' = "uploading"
          /\ UNCHANGED <<mode, press, leaving, lease, active, bound, turn>>
      BY <1>22, <2>1, <2>2 DEF PressToStop, PressToStopStream, AskWorkletToStop, Becomes,
         Showing, Steady
    <3>2. c \in CaptureStates
      BY <2>1 DEF CaptureStates, StreamFinish
    <3>3. /\ c.mic = cap[active].mic /\ c.start = "ended" /\ c.finish = "worklet"
          /\ c.recorder = cap[active].recorder /\ c.recorder \in {"none", "off"}
          /\ c.failing = "none" /\ c.aborted = cap[active].aborted
      BY <2>1, <2>2 DEF CaptureStates, PageInv, FinishesAreActive
    <3> HIDE DEF c
    <3> USE DEF PageInv
    <3>4. PageTypeOK' BY <3>1, <3>2 DEF PageTypeOK
    <3>5. StartsAlone' BY <2>1, <3>1, <3>3 DEF StartsAlone, PageTypeOK
    <3>6. ActiveIsLatest' BY <2>1, <3>1, <3>3 DEF ActiveIsLatest, PageTypeOK
    <3>7. MicrophonesAreHeld' BY <2>1, <3>1, <3>3 DEF MicrophonesAreHeld, PageTypeOK
    <3>8. FailuresHold' BY <2>1, <3>1, <3>3 DEF FailuresHold, PageTypeOK
    <3>9. FinishesAreActive'
      BY <2>1, <2>2, <3>1, <3>3 DEF FinishesAreActive, PageTypeOK, StreamFinish, BatchFinish
    <3> QED BY <3>1, <3>4, <3>5, <3>6, <3>7, <3>8, <3>9
  <2>3. CASE mode = "pcm" /\ cap[active].failing # "none"
    <3>1. /\ Over(active, cap[active]) /\ status' = "uploading" /\ turn' = turn
      BY <1>22, <2>3 DEF PressToStop, PressToStopStream, Showing, captureVars
    <3>2. cap[active].recorder \in {"none", "off"}
      BY <2>1, <2>3 DEF PageInv, FinishesAreActive, CaptureStates
    <3> QED BY <2>1, <3>1, <3>2, OverEnds
  <2>4. CASE mode = "batch"
    <3> DEFINE c == [cap[active] EXCEPT !.recorder = "stopping"]
    <3>1. /\ cap' = [cap EXCEPT ![active] = c] /\ status' = "stopping"
          /\ cap[active].recorder = "on"
          /\ UNCHANGED <<mode, press, leaving, lease, active, bound, turn>>
      BY <1>22, <2>1, <2>4 DEF PressToStop, PressToStopBatch, Becomes, Showing, Steady, captureVars
    <3>2. c \in CaptureStates
      BY <2>1 DEF CaptureStates
    <3>3. /\ c.mic = cap[active].mic /\ c.start = "ended" /\ c.finish = "none"
          /\ c.recorder = "stopping" /\ c.failing = cap[active].failing
          /\ c.aborted = cap[active].aborted
      BY <2>1 DEF CaptureStates
    <3> HIDE DEF c
    <3> USE DEF PageInv
    <3>4. PageTypeOK' BY <3>1, <3>2 DEF PageTypeOK
    <3>5. StartsAlone' BY <2>1, <3>1, <3>3 DEF StartsAlone, PageTypeOK
    <3>6. ActiveIsLatest' BY <2>1, <2>4, <3>1, <3>3 DEF ActiveIsLatest, PageTypeOK
    <3>7. MicrophonesAreHeld' BY <2>1, <3>1, <3>3 DEF MicrophonesAreHeld, PageTypeOK
    <3>8. FailuresHold' BY <2>1, <2>4, <3>1, <3>3 DEF FailuresHold, PageTypeOK
    <3>9. FinishesAreActive'
      BY <2>1, <2>4, <3>1, <3>3 DEF FinishesAreActive, PageTypeOK, StreamFinish, BatchFinish
    <3> QED BY <3>1, <3>4, <3>5, <3>6, <3>7, <3>8, <3>9
  <2> QED BY <2>1, <2>2, <2>3, <2>4
<1>23. ASSUME NEW p \in Turns, RecorderStops(p) PROVE PageInv'
  <2> DEFINE s == Silenced(cap[p])
             c == [s EXCEPT !.recorder = "off", !.finish = "syncing"]
  <2>1. /\ cap[p] \in CaptureStates /\ cap[p].start = "ended" /\ active = p /\ mode = "batch"
        /\ ~leaving /\ p = press /\ lease = p
    BY <1>23 DEF RecorderStops, PageInv, PageTypeOK, FinishesAreActive, ActiveIsLatest
  <2>2. /\ s \in CaptureStates /\ s.start = "ended" /\ s.mic # "live"
        /\ s.failing = cap[p].failing /\ s.aborted = cap[p].aborted
    BY <2>1, SilencedCapture
  <2>3. /\ cap' = [cap EXCEPT ![p] = c] /\ status' = "uploading"
        /\ UNCHANGED <<mode, press, leaving, lease, active, bound, turn>>
    BY <1>23 DEF RecorderStops, Becomes, Showing, Steady, captureVars
  <2> HIDE DEF s
  <2>4. c \in CaptureStates
    BY <2>2 DEF CaptureStates, BatchFinish
  <2>5. /\ c.start = "ended" /\ c.mic = s.mic /\ c.recorder = "off" /\ c.finish = "syncing"
        /\ c.failing = s.failing /\ c.aborted = s.aborted
    BY <2>2 DEF CaptureStates
  <2> HIDE DEF c
  <2> USE DEF PageInv
  <2>6. PageTypeOK' BY <2>3, <2>4 DEF PageTypeOK
  <2>7. StartsAlone' BY <2>1, <2>3, <2>5 DEF StartsAlone, PageTypeOK
  <2>8. ActiveIsLatest' BY <2>1, <2>3, <2>5 DEF ActiveIsLatest, PageTypeOK
  <2>9. MicrophonesAreHeld' BY <2>1, <2>2, <2>3, <2>5 DEF MicrophonesAreHeld, PageTypeOK
  <2>10. FailuresHold' BY <2>1, <2>2, <2>3, <2>5 DEF FailuresHold, PageTypeOK
  <2>11. FinishesAreActive'
    BY <2>1, <2>2, <2>3, <2>5 DEF FinishesAreActive, PageTypeOK, StreamFinish, BatchFinish
  <2> QED BY <2>3, <2>6, <2>7, <2>8, <2>9, <2>10, <2>11
<1>24. CASE Typing
  <2> USE DEF PageInv
  <2>1. /\ lease \in {NoPress, Manual} /\ lease' \in {NoPress, Manual}
        /\ lease = NoPress => status \in {"idle", "error"} /\ ~leaving
        /\ bound' \in {bound, Manual}
        /\ UNCHANGED <<mode, press, leaving, status, active, cap, turn>>
    BY <1>24 DEF Typing, TypedTurn, Steady, captureVars
  <2>2. active = NoPress
    BY <2>1 DEF ActiveIsLatest, PageTypeOK
  <2>3. PageTypeOK' BY <2>1 DEF PageTypeOK
  <2>4. StartsAlone' BY <2>1 DEF StartsAlone, PageTypeOK
  <2>5. ActiveIsLatest' BY <2>1, <2>2 DEF ActiveIsLatest
  <2>6. MicrophonesAreHeld' BY <2>1 DEF MicrophonesAreHeld
  <2>7. FailuresHold' BY <2>1 DEF FailuresHold, PageTypeOK
  <2>8. FinishesAreActive' BY <2>1 DEF FinishesAreActive
  <2> QED BY <2>1, <2>3, <2>4, <2>5, <2>6, <2>7, <2>8
<1>25. CASE Unmount
  <2> USE DEF PageInv
  <2>1. /\ ~leaving /\ leaving' = TRUE /\ press' = press + 1 /\ active' = NoPress
        /\ lease' = (IF active = NoPress THEN lease ELSE Without(lease, active))
        /\ UNCHANGED <<mode, status, bound, turn>>
    BY <1>25 DEF Unmount
  <2>2. ASSUME NEW p \in Turns
        PROVE  /\ cap'[p] \in CaptureStates /\ cap'[p].start = cap[p].start
               /\ cap'[p].mic \in {cap[p].mic, "off"} /\ cap'[p].mic # "live"
               /\ cap'[p].mic = "off" => cap[p].mic \in {"live", "off"}
               /\ cap'[p].failing = cap[p].failing /\ cap'[p].finish = cap[p].finish
               /\ p # active => /\ cap'[p].registration = cap[p].registration
                                /\ cap'[p].recorder = cap[p].recorder
                                /\ cap'[p].report = cap[p].report
                                /\ cap'[p].aborted = cap[p].aborted
                                /\ cap'[p].claim = cap[p].claim
               /\ p = active => cap'[p].aborted /\ cap'[p].recorder \in {"none", "off"}
    <3> DEFINE s == Silenced(cap[p])
               c == [s EXCEPT !.aborted = TRUE, !.recorder = IF @ = "none" THEN @ ELSE "off"]
    <3>1. cap[p] \in CaptureStates /\ (cap[p].mic = "live" => cap[p].start = "starting" \/ active = p)
      BY DEF PageTypeOK, MicrophonesAreHeld
    <3>2. /\ s \in CaptureStates /\ s.start = cap[p].start /\ s.mic # "live"
          /\ s.registration = cap[p].registration /\ s.recorder = cap[p].recorder
          /\ s.report = cap[p].report /\ s.aborted = cap[p].aborted /\ s.claim = cap[p].claim
          /\ s.mic \in {cap[p].mic, "off"}
          /\ s.mic = "off" => cap[p].mic \in {"live", "off"}
          /\ s.failing = cap[p].failing /\ s.finish = cap[p].finish
      BY <3>1 DEF Silenced, CaptureStates
    <3>3. cap'[p] = IF p = active THEN c ELSE IF cap[p].start = "starting" THEN s ELSE cap[p]
      BY <1>25 DEF Unmount
    <3> HIDE DEF s
    <3>4. CASE p = active
      <4>1. c \in CaptureStates
        BY ZenonT(40), <3>2 DEF CaptureStates
      <4>2. /\ c.start = s.start /\ c.mic = s.mic /\ c.failing = s.failing
            /\ c.finish = s.finish /\ c.aborted /\ c.recorder \in {"none", "off"}
        BY <3>2 DEF CaptureStates
      <4> HIDE DEF c
      <4> QED BY <3>2, <3>3, <3>4, <4>1, <4>2
    <3>5. CASE p # active /\ cap[p].start = "starting"
      BY <3>2, <3>3, <3>5
    <3>6. CASE p # active /\ cap[p].start # "starting"
      BY <3>1, <3>3, <3>6 DEF CaptureStates
    <3> QED BY <3>4, <3>5, <3>6
  <2>3. PageTypeOK'
    <3>1. cap' \in [Turns -> CaptureStates]
      BY <1>25, <2>2 DEF Unmount
    <3> QED BY <2>1, <3>1 DEF PageTypeOK, Without
  <2>4. StartsAlone'
    <3>1. ASSUME NEW p \in Turns, cap[p].start # "ended"
          PROVE  OnlyStarts(cap[p]) /\ p # active
      BY <3>1 DEF StartsAlone, ActiveIsLatest, PageTypeOK
    <3>2. ASSUME NEW p \in Turns, cap[p].start # "ended"
          PROVE  OnlyStarts(cap'[p])
      BY <2>2, <3>1, <3>2 DEF OnlyStarts
    <3>3. ASSUME NEW p \in Turns, cap[p].start \in {"asking", "starting"}
          PROVE  lease' = p /\ active' = NoPress
      BY <2>1, <3>3 DEF StartsAlone
    <3>4. ASSUME NEW p \in Turns, p > press'
          PROVE  cap'[p].start = "none"
      <4>1. p > press
        BY <2>1, <3>4 DEF PageTypeOK
      <4>2. cap[p].start = "none"
        BY <4>1 DEF StartsAlone
      <4> QED BY <2>2, <4>2
    <3>5. press + 1 \in Turns => cap'[press + 1].start = "none"
      BY <2>2 DEF StartsAlone, PageTypeOK
    <3>6. ASSUME NEW p \in Turns
          PROVE  /\ cap'[p].start = "none" => cap'[p].mic = "none"
                 /\ cap'[p].start = "asking" => cap'[p].mic = "asked"
                 /\ cap'[p].start = "starting" => cap'[p].mic \in {"live", "off"} /\ mode = "pcm"
      BY <2>2 DEF StartsAlone
    <3>7. ASSUME NEW p \in Turns, p > press' \/ p = press'
          PROVE  cap'[p].start = "none"
      BY <2>1, <3>4, <3>5, <3>7
    <3>8. ASSUME NEW p \in Turns
          PROVE  cap'[p].start = cap[p].start
      BY <2>2
    <3>9. mode' = mode /\ leaving'
      BY <2>1
    <3> SUFFICES ASSUME NEW p \in Turns
        PROVE  /\ p > press' \/ (leaving' /\ p = press') => cap'[p].start = "none"
               /\ cap'[p].start # "ended" => OnlyStarts(cap'[p])
               /\ cap'[p].start = "none" => cap'[p].mic = "none"
               /\ cap'[p].start = "asking" => cap'[p].mic = "asked"
               /\ cap'[p].start = "starting" => cap'[p].mic \in {"live", "off"} /\ mode' = "pcm"
               /\ cap'[p].start \in {"asking", "starting"} =>
                    /\ lease' = p /\ active' = NoPress
                    /\ ~leaving' => press' = p /\ status' = "authorizing"
      BY DEF StartsAlone
    <3>10. cap'[p].start # "ended" => OnlyStarts(cap'[p])
      BY <3>2, <3>8
    <3> HIDE DEF PageInv
    <3> QED BY <3>3, <3>6, <3>7, <3>8, <3>9, <3>10
  <2>5. ActiveIsLatest' BY <2>1 DEF ActiveIsLatest
  <2>6. MicrophonesAreHeld' BY <2>1, <2>2 DEF MicrophonesAreHeld
  <2>7. FailuresHold'
    <3>1. ASSUME NEW p \in Turns, cap'[p].failing # "none"
          PROVE  cap'[p].aborted /\ mode' = "pcm"
      BY <2>1, <2>2, <3>1 DEF FailuresHold
    <3> QED BY <2>1, <3>1 DEF FailuresHold
  <2>8. FinishesAreActive'
    <3>1. ASSUME NEW p \in Turns, cap[p].finish \notin {"none", "done"}
          PROVE  cap'[p].aborted
      BY <2>2, <3>1 DEF FinishesAreActive
    <3>2. ASSUME NEW p \in Turns PROVE cap'[p].recorder \in {"none", "off"}
      BY <2>2 DEF FinishesAreActive, PageTypeOK, CaptureStates
    <3> QED BY <2>1, <2>2, <3>1, <3>2 DEF FinishesAreActive
  <2> QED BY <2>1, <2>3, <2>4, <2>5, <2>6, <2>7, <2>8
<1>26. CASE UNCHANGED vars
  BY <1>26, NothingOfThePage DEF vars, captureVars, pageVars
<1> QED
  BY <1>1, <1>2, <1>3, <1>4, <1>5, <1>6, <1>7, <1>8, <1>9, <1>10, <1>11, <1>12, <1>13, <1>14,
     <1>15, <1>16, <1>17, <1>18, <1>19, <1>20, <1>21, <1>22, <1>23, <1>24, <1>25, <1>26
  DEF Next, Starting, Registering, Finishing, FinishingBatch, Reporting

-----------------------------------------------------------------------------
(* The transport's types, and what its functions leave alone.               *)

Losses == [gaps : Nat, overflows : Nat]

Sources == [state : {"off", "running", "asked", "stopped"}, clock : Nat, loss : Losses]

Posts == [type : {"frame"}, time : Nat, loss : Losses] \union [type : {"stopped"}, loss : Losses]

Packed == [sequence : Nat \ {0}, frames : Nat \ {0}, time : Nat, loss : Losses]

Verdicts == {"failed", "aborted", "final"}

Transports ==
  [socket : {"none", "connecting", "open", "closed"}, timer : {"none", "connect", "ack"},
   started : BOOLEAN, stop : {"no", "requested", "hashing", "sent"}, stopAt : Nat,
   verdict : Verdicts \union {"none"}, buffer : Nat, lastTime : Nat, loss : Losses,
   pending : Seq(Packed), inflight : Seq(Packed), next : Nat \ {0}, emitted : Nat]

LEMMA FreshTransportType == FreshTransport \in Transports
BY DEF FreshTransport, Transports, Losses, NoLoss

LEMMA EndedTransport ==
  ASSUME NEW u \in Transports, NEW verdict \in Verdicts
  PROVE  /\ Ended(u, verdict) \in Transports /\ Ended(u, verdict).verdict = verdict
         /\ Ended(u, verdict).socket = (IF u.socket = "none" THEN "none" ELSE "closed")
         /\ ~Alive(Ended(u, verdict))
<1> DEFINE s == IF u.socket = "none" THEN "none" ELSE "closed"
           e == [FreshTransport EXCEPT !.verdict = verdict, !.socket = s]
<1>1. Ended(u, verdict) = e
  BY DEF Ended, FreshTransport
<1>2. s \in {"none", "closed"}
  OBVIOUS
<1> HIDE DEF s
<1>3. e \in Transports
  BY <1>2, FreshTransportType DEF Transports
<1>4. e.verdict = verdict /\ e.socket = s
  BY DEF FreshTransport
<1> HIDE DEF e
<1> QED BY <1>1, <1>3, <1>4 DEF Alive, Verdicts, s

\* What packing, sending and acknowledging leave alone.
SameCourse(u, v) ==
  /\ v.verdict = u.verdict /\ v.socket = u.socket /\ v.stopAt = u.stopAt
  /\ v.lastTime = u.lastTime /\ v.loss = u.loss

LEMMA FlushedTransport ==
  ASSUME NEW u \in Transports, Alive(u)
  PROVE  LET v == Flushed(u) IN
         /\ v \in Transports
         /\ \/ v = Ended(u, "failed") /\ ~Alive(v)
            \/ /\ SameCourse(u, v) /\ Alive(v) /\ v.buffer = 0
               /\ v.emitted = u.emitted + u.buffer /\ v.stop = u.stop
               /\ v.started = u.started /\ v.timer = u.timer /\ v.inflight = u.inflight
               /\ u.buffer = 0 => v = u
               /\ u.buffer # 0 =>
                    /\ v.next = u.next + 1
                    /\ v.pending = Append(u.pending,
                         [sequence |-> u.next, frames |-> u.buffer, time |-> u.lastTime,
                          loss |-> u.loss])
<1> DEFINE chunk == [sequence |-> u.next, frames |-> u.buffer, time |-> u.lastTime,
                     loss |-> u.loss]
           queue == Append(u.pending, chunk)
           next == u.next + 1
           total == u.emitted + u.buffer
           v == [u EXCEPT !.pending = queue, !.next = next, !.emitted = total, !.buffer = 0]
<1>1. CASE u.buffer = 0
  BY <1>1 DEF Flushed, SameCourse, Transports
<1>2. CASE u.buffer # 0 /\ Flushed(u) = Ended(u, "failed")
  BY <1>2, EndedTransport DEF Verdicts
<1>3. CASE u.buffer # 0 /\ Flushed(u) = v
  <2>1. chunk \in Packed /\ u.pending \in Seq(Packed)
    BY <1>3 DEF Transports, Packed
  <2>2. queue \in Seq(Packed)
    BY <2>1
  <2> HIDE DEF chunk, queue
  <2>3. v \in Transports
    <3>1. next \in Nat \ {0} /\ total \in Nat
      BY SMTT(30) DEF Transports
    <3> HIDE DEF next, total
    <3> QED BY <2>2, <3>1 DEF Transports
  <2>4. /\ SameCourse(u, v) /\ v.buffer = 0 /\ v.emitted = u.emitted + u.buffer
        /\ v.stop = u.stop /\ v.started = u.started /\ v.timer = u.timer
        /\ v.inflight = u.inflight /\ v.next = u.next + 1 /\ v.pending = queue
    BY DEF SameCourse, Transports
  <2>5. Alive(v)
    BY <2>4 DEF SameCourse, Alive
  <2> HIDE DEF v
  <2> QED BY <1>3, <2>3, <2>4, <2>5 DEF queue, chunk
<1> QED BY <1>1, <1>2, <1>3 DEF Flushed

LEMMA PumpedTransport ==
  ASSUME NEW u \in Transports
  PROVE  LET v == Pumped(u) IN
         /\ v \in Transports /\ SameCourse(u, v) /\ v.buffer = u.buffer
         /\ v.next = u.next /\ v.emitted = u.emitted /\ v.started = u.started
         /\ v.stop = u.stop \/ (u.stop = "requested" /\ v.stop = "hashing" /\ Pumps(u))
         /\ Len(Burst(u)) \in 0..Len(u.pending)
         /\ Burst(u) = SubSeq(u.pending, 1, Len(Burst(u)))
         /\ Burst(u) \in Seq(Packed)
         /\ ~Pumps(u) => Burst(u) = <<>> /\ v = u
         /\ Pumps(u) => /\ v.inflight = u.inflight \o Burst(u)
                        /\ v.pending = SubSeq(u.pending, Len(Burst(u)) + 1, Len(u.pending))
                        /\ v.stop = "hashing" /\ u.stop = "requested" =>
                             v.pending = <<>> /\ v.inflight = <<>>
<1> DEFINE k == Fewer(Len(u.pending), MaxInflight - Len(u.inflight))
           burst == SubSeq(u.pending, 1, k)
           n == Len(burst)
           sent == u.inflight \o burst
           rest == SubSeq(u.pending, n + 1, Len(u.pending))
           timer == IF sent # <<>> THEN "ack" ELSE u.timer
           stop == IF u.stop = "requested" /\ rest = <<>> /\ sent = <<>> THEN "hashing" ELSE u.stop
           v == [u EXCEPT !.inflight = sent, !.pending = rest, !.timer = timer, !.stop = stop]
<1>1. CASE ~Pumps(u)
  <2>1. Burst(u) = <<>> /\ Pumped(u) = u
    BY <1>1 DEF Burst, Pumped
  <2>2. u.pending \in Seq(Packed)
    BY DEF Transports
  <2>3. SubSeq(u.pending, 1, 0) = <<>>
    BY <2>2
  <2> QED BY <1>1, <2>1, <2>2, <2>3 DEF SameCourse
<1>2. CASE Pumps(u)
  <2>1. /\ u.pending \in Seq(Packed) /\ u.inflight \in Seq(Packed)
        /\ u.timer \in {"none", "connect", "ack"}
        /\ u.stop \in {"no", "requested", "hashing", "sent"}
    BY DEF Transports
  <2>2. k \in Int /\ k <= Len(u.pending)
    BY <2>1, LimitsArePositive DEF Fewer
  <2> HIDE DEF k
  <2>3. burst \in Seq(Packed) /\ n \in 0..Len(u.pending) /\ burst = SubSeq(u.pending, 1, n)
    BY <2>1, <2>2
  <2>4. Burst(u) = burst
    BY <1>2 DEF Burst, k
  <2> HIDE DEF burst
  <2>5. rest \in Seq(Packed) /\ sent \in Seq(Packed)
    BY <2>1, <2>3
  <2>6. timer \in {"none", "connect", "ack"} /\ stop \in {"no", "requested", "hashing", "sent"}
    BY <2>1
  <2>7. Pumped(u) = v
    BY <1>2, <2>4 DEF Pumped
  <2>8. v.stop = u.stop \/ (u.stop = "requested" /\ v.stop = "hashing" /\ rest = <<>> /\ sent = <<>>)
    BY DEF Transports
  <2> HIDE DEF n, sent, rest, timer, stop
  <2>9. v \in Transports
    BY <2>5, <2>6 DEF Transports
  <2>10. /\ v.verdict = u.verdict /\ v.socket = u.socket /\ v.stopAt = u.stopAt
         /\ v.lastTime = u.lastTime /\ v.loss = u.loss /\ v.buffer = u.buffer
         /\ v.next = u.next /\ v.emitted = u.emitted /\ v.started = u.started
         /\ v.inflight = sent /\ v.pending = rest
    BY DEF Transports
  <2> HIDE DEF v
  <2> QED BY <1>2, <2>3, <2>4, <2>7, <2>8, <2>9, <2>10 DEF SameCourse, n, sent, rest
<1> QED BY <1>1, <1>2

-----------------------------------------------------------------------------
(* What a step of the page is to the stream.                                *)

Aborts == Ends("aborted", port) /\ UNCHANGED <<turn, wire, answers, serverVars>>

Connects ==
  /\ t' = Connecting(t)
  /\ UNCHANGED <<turn, source, port, wire, answers, serverVars>>

\* A session moves without its stream; the turn's is not analysed by that.
SessionMoves ==
  /\ \E p \in Turns, from, to \in {"none", "created", "recording", "stopped", "processing",
                                   "result", "error", "reset"} :
       /\ session[p] = from /\ session' = [session EXCEPT ![p] = to]
       /\ \/ /\ from \in {"none", "created", "recording", "stopped"}
             /\ to \in {"created", "recording", "stopped", "error"}
          \/ from = "stopped" /\ to = "processing" /\ p # turn
          \/ from # "none" /\ to = "reset"
  /\ UNCHANGED <<turn, source, port, t, wire, answers, link, stream, spooled>>

CaptureStep ==
  \/ UNCHANGED captureVars
  \/ Page \/ Faults \/ Remote \/ WorkletStopArrives \/ SessionMoves
  \/ /\ turn # 0
     /\ \/ Aborts
        \/ t.socket = "none" /\ Connects
        \/ Alive(t) /\ t.stop = "no" /\ source.state = "running" /\ AskWorkletToStop
  \/ \E p \in Turns : AnalysisEnds(p) \/ (session[p] = "none" /\ NewTransport(p))

\* What the page knows of its transport: while it records, that it runs; and that
\* nobody has been asked for a session, or for a socket, before the page did.
Records ==
  active # NoPress /\ mode = "pcm"
  /\ cap[active].finish = "none" /\ cap[active].failing = "none" =>
    Alive(t) /\ t.stop = "no" /\ source.state = "running"

Unconnected == turn # 0 /\ cap[turn].registration # "ok" => t.socket = "none"

Unasked == \A p \in Turns : ~Asked(p) => session[p] = "none"

PageMeetsStream == Records /\ Unconnected /\ Unasked

SessionStatuses ==
  {"none", "created", "recording", "stopped", "processing", "result", "error", "reset"}

LEMMA CaptureSteps ==
  ASSUME PageInv, PageMeetsStream, session \in [Turns -> SessionStatuses], [Next]_vars
  PROVE  CaptureStep
<1> USE DEF CaptureStep
<1>1. CASE Press \/ Typing
  BY <1>1 DEF Press, Typing
<1>2. CASE PressToStop
  <2>1. CASE mode = "pcm" /\ cap[active].failing = "none"
    <3>1. /\ active \in Turns /\ turn = active /\ cap[active].finish = "none"
          /\ cap[active] \in CaptureStates
      BY <1>2, <2>1 DEF PressToStop, PageInv, PageTypeOK, ActiveIsLatest
    <3>2. AskWorkletToStop
      BY <1>2, <2>1 DEF PressToStop, PressToStopStream
    <3> QED BY <2>1, <3>1, <3>2 DEF PageMeetsStream, Records, Unconnected, Unasked
  <2>2. CASE ~(mode = "pcm" /\ cap[active].failing = "none")
    BY <1>2, <2>2 DEF PressToStop, PressToStopStream, PressToStopBatch
  <2> QED BY <2>1, <2>2
<1>3. CASE WorkletIsStopped
  BY <1>3 DEF WorkletIsStopped
<1>4. CASE Capturing \/ Serving
  BY <1>4 DEF Capturing, Serving
<1>5. CASE Unmount
  <2>1. CASE active = turn /\ active # NoPress
    BY <1>5, <2>1, HoldersAreOthers DEF Unmount, Aborts
  <2>2. CASE ~(active = turn /\ active # NoPress)
    BY <1>5, <2>2 DEF Unmount, captureVars
  <2> QED BY <2>1, <2>2
<1>6. ASSUME NEW p \in Turns, Starting(p) PROVE CaptureStep
  <2>1. CASE CaptureStarts(p) /\ IsCurrent(p)
    <3>1. session[p] = "none"
      BY <2>1 DEF CaptureStarts, PageInv, StartsAlone, OnlyStarts, PageMeetsStream, Unasked, Asked
    <3> QED BY <2>1, <3>1 DEF CaptureStarts
  <2>2. CASE ~(CaptureStarts(p) /\ IsCurrent(p))
    BY <1>6, <2>2 DEF Starting, MicrophoneRefused, MicrophoneTimesOut, MicrophoneGranted,
       CaptureFailsToStart, CaptureStarts, StartFails
  <2> QED BY <2>1, <2>2
<1>7. ASSUME NEW p \in Turns, Registering(p) PROVE CaptureStep
  <2>1. CASE SessionIsCreated(p)
    BY <2>1 DEF SessionIsCreated, SessionMoves
  <2>2. CASE StartIsTold(p)
    BY <2>2 DEF StartIsTold, SessionMoves
  <2>3. CASE StartIsAnswered(p)
    BY <2>3 DEF StartIsAnswered
  <2>4. CASE RegistrationAnswers(p)
    <3>1. CASE ~IsActive(p) \/ mode = "batch"
      BY <2>4, <3>1 DEF RegistrationAnswers, captureVars
    <3>2. CASE IsActive(p) /\ mode # "batch"
      <4>1. turn = p
        BY <3>2, HoldersAreOthers DEF IsActive, PageInv, PageTypeOK, ActiveIsLatest
      <4>2. Connects /\ cap[p].registration = "creating"
        BY <2>4, <3>2 DEF RegistrationAnswers, Connects
      <4> QED BY <4>1, <4>2, LimitsArePositive DEF PageMeetsStream, Records, Unconnected, Unasked
    <3> QED BY <3>1, <3>2
  <2>5. CASE RegistrationFails(p)
    <3>1. CASE mode = "pcm" /\ Concerns(p) /\ ~cap[p].aborted
      <4>1. turn = p
        BY <3>1, HoldersAreOthers, LimitsArePositive DEF Concerns, PageInv, ActiveIsLatest
      <4>2. Aborts
        BY <2>5, <3>1 DEF RegistrationFails, Aborts
      <4> QED BY <4>1, <4>2, LimitsArePositive
    <3>2. CASE ~(mode = "pcm" /\ Concerns(p) /\ ~cap[p].aborted)
      BY <2>5, <3>2 DEF RegistrationFails, captureVars
    <3> QED BY <3>1, <3>2
  <2> QED BY <1>7, <2>1, <2>2, <2>3, <2>4, <2>5 DEF Registering
<1>8. ASSUME NEW p \in Turns, Finishing(p) PROVE CaptureStep
  <2>1. CASE StopTimesOut(p)
    <3>1. CASE turn = p
      BY <2>1, <3>1, LimitsArePositive DEF StopTimesOut, Aborts
    <3>2. CASE turn # p
      BY <2>1, <3>2 DEF StopTimesOut, captureVars
    <3> QED BY <3>1, <3>2
  <2>2. CASE TransportSettles(p) \/ CheckAnswers(p) \/ CheckFails(p)
    BY <2>2 DEF TransportSettles, CheckAnswers, CheckFails
  <2>3. CASE ErrorIsPosted(p)
    <3>1. session[p] \in {"created", "recording", "stopped"}
      BY <2>3 DEF ErrorIsPosted, TakesError
    <3> QED BY <2>3, <3>1 DEF ErrorIsPosted, SessionMoves
  <2> QED BY <1>8, <2>1, <2>2, <2>3 DEF Finishing
<1>9. ASSUME NEW p \in Turns, FinishingBatch(p) PROVE CaptureStep
  <2>1. CASE StopIsTold(p)
    BY <2>1 DEF StopIsTold, SessionMoves
  <2>2. CASE AudioIsUploaded(p)
    <3>1. p # turn
      BY <2>2, LimitsArePositive DEF AudioIsUploaded, PageInv, FinishesAreActive, BatchFinish
    <3> QED BY <2>2, <3>1 DEF AudioIsUploaded, SessionMoves
  <2>3. CASE RecorderStops(p) \/ BatchIsSynced(p) \/ StopIsAnswered(p) \/ UploadIsAnswered(p)
             \/ BatchFails(p)
    BY <2>3 DEF RecorderStops, BatchIsSynced, StopIsAnswered, UploadIsAnswered, BatchFails
  <2> QED BY <1>9, <2>1, <2>2, <2>3 DEF FinishingBatch
<1>10. ASSUME NEW p \in Turns, Reporting(p) PROVE CaptureStep
  BY <1>10 DEF Reporting, FailureIsShown, ReportRegisters, ReportIsGivenUp
<1>11. ASSUME NEW p \in Turns, Outside(p) PROVE CaptureStep
  <2>1. CASE OperatorResets(p)
    <3>1. session[p] \in SessionStatuses
      OBVIOUS
    <3> QED BY <2>1, <3>1 DEF OperatorResets, SessionMoves, SessionStatuses
  <2> QED BY <1>11, <2>1 DEF Outside
<1>12. ASSUME NEW p \in Turns, DeadlinePasses(p) PROVE CaptureStep
  BY <1>12 DEF DeadlinePasses, SessionMoves
<1>13. CASE UNCHANGED vars
  BY <1>13 DEF vars
<1> QED
  BY <1>1, <1>2, <1>3, <1>4, <1>5, <1>6, <1>7, <1>8, <1>9, <1>10, <1>11, <1>12, <1>13
  DEF Next

-----------------------------------------------------------------------------
(* The types of the stream.                                                 *)

Evidences ==
  [captureGapCount : Nat, droppedFrameCount : Nat, droppedByteCount : Nat, overflowCount : Nat]

StartMessages == [type : {"start"}, identity : {"turn"}, time : {0}]

ChunkMessages ==
  [type : {"chunk"}, identity : {"turn"}, time : Nat, sequence : Nat \ {0},
   frames : Nat \ {0}, bytes : Nat, loss : Evidences]

StopMessages ==
  [type : {"stop"}, identity : {"turn"}, time : Nat, finalSequence : Nat,
   frames : Nat, bytes : Nat, loss : Evidences]

Messages == StartMessages \union ChunkMessages \union StopMessages

Replies == [type : {"started", "error"}] \union [type : {"spooled", "final"}, sequence : Nat]

Streams ==
  [phase : {"idle", "open", "stopped"}, identity : {"turn"},
   startTime : Nat, lastTime : Nat, lastSequence : Nat,
   chunkCount : Nat, frameCount : Nat, byteCount : Nat,
   gapCount : Nat, missingCount : Nat, loss : Evidences, complete : BOOLEAN,
   emittedFrames : Nat, emittedBytes : Nat]

StreamTypeOK ==
  /\ turn \in Turns \union {0} /\ source \in Sources /\ port \in Seq(Posts)
  /\ t \in Transports /\ wire \in Seq(Messages) /\ answers \in Seq(Replies)
  /\ link \in {"none", "open", "closed"} /\ session \in [Turns -> SessionStatuses]
  /\ stream \in Streams /\ spooled \in Seq(Nat \ {0})

LEMMA EvidenceType ==
  ASSUME NEW loss \in Losses
  PROVE  Evidence(loss) \in Evidences /\ Dropped(loss) \in Nat
<1>1. loss.gaps \in Nat /\ loss.overflows \in Nat
  BY DEF Losses
<1>2. Dropped(loss) \in Nat /\ 2 * Dropped(loss) \in Nat
  BY <1>1 DEF Dropped
<1> QED BY <1>1, <1>2 DEF Evidence, Evidences

LEMMA MessageTypes ==
  ASSUME NEW u \in Transports
  PROVE  /\ StartMessage \in Messages
         /\ StopMessage(u) \in StopMessages /\ StopMessage(u) \in Messages
         /\ \A c \in Packed : ChunkMessage(c) \in ChunkMessages /\ ChunkMessage(c) \in Messages
<1>1. StartMessage \in Messages
  BY DEF StartMessage, Messages, StartMessages
<1>2. StopMessage(u) \in StopMessages
  <2>1. /\ u.lastTime \in Nat /\ u.next - 1 \in Nat /\ u.emitted \in Nat
        /\ 2 * u.emitted \in Nat /\ u.loss \in Losses
    BY SMTT(30) DEF Transports
  <2>2. Evidence(u.loss) \in Evidences
    BY <2>1, EvidenceType
  <2> QED BY <2>1, <2>2 DEF StopMessage, StopMessages
<1>3. ASSUME NEW c \in Packed PROVE ChunkMessage(c) \in ChunkMessages
  <2>1. /\ c.time \in Nat /\ c.sequence \in Nat \ {0} /\ c.frames \in Nat \ {0}
        /\ 2 * c.frames \in Nat /\ c.loss \in Losses
    BY DEF Packed
  <2>2. Evidence(c.loss) \in Evidences
    BY <2>1, EvidenceType
  <2> QED BY <2>1, <2>2 DEF ChunkMessage, ChunkMessages
<1> QED BY <1>1, <1>2, <1>3 DEF Messages

LEMMA SendsType ==
  ASSUME wire \in Seq(Messages), NEW chunks \in Seq(Packed), Sends(chunks)
  PROVE  wire' \in Seq(Messages)
<1> DEFINE sent == [i \in DOMAIN chunks |-> ChunkMessage(chunks[i])]
<1>1. \A i \in DOMAIN chunks : ChunkMessage(chunks[i]) \in Messages
  <2>1. \A c \in Packed : ChunkMessage(c) \in Messages
    BY FreshTransportType, MessageTypes
  <2> QED BY <2>1
<1>2. sent \in Seq(Messages)
  BY <1>1
<1> HIDE DEF sent
<1>3. wire' = wire \o sent
  BY DEF Sends, sent
<1> QED BY <1>2, <1>3

LEMMA FreshStream ==
  /\ Server!Fresh \in Streams /\ Server!Fresh.phase = "idle" /\ Server!Fresh.complete
  /\ Server!Fresh.lastSequence = 0 /\ Server!Fresh.missingCount = 0
  /\ Server!Fresh.frameCount = 0 /\ Server!Fresh.lastTime = 0
  /\ Server!Fresh.identity = "turn" /\ Server!Fresh.byteCount = 0
  /\ Server!Fresh.chunkCount = 0 /\ Server!Fresh.loss = Server!NoEvidence
<1>1. (CHOOSE i \in {"turn"} : TRUE) = "turn"
  OBVIOUS
<1>2. Server!NoEvidence \in Evidences
  BY DEF Server!NoEvidence, Evidences
<1> QED BY <1>1, <1>2 DEF Server!Fresh, Streams

\* The reducer's three steps, field by field.
LEMMA StartedStream ==
  ASSUME stream \in Streams, NEW m \in StartMessages, Server!Start(m)
  PROVE  /\ stream' \in Streams /\ stream.phase = "idle" /\ stream'.phase = "open"
         /\ stream'.identity = "turn" /\ stream'.startTime = 0 /\ stream'.lastTime = 0
         /\ stream'.lastSequence = 0 /\ stream'.frameCount = 0 /\ stream'.missingCount = 0
         /\ stream'.byteCount = 0 /\ stream'.chunkCount = 0
         /\ stream'.loss = Server!NoEvidence /\ stream'.complete
         /\ spooled' = spooled
<1> DEFINE f == Server!Fresh
<1>1. m.identity = "turn" /\ m.time = 0
  BY DEF StartMessages
<1>2. /\ stream.phase = "idle" /\ spooled' = spooled
      /\ stream' = [f EXCEPT !.phase = "open", !.identity = m.identity,
                             !.startTime = m.time, !.lastTime = m.time]
  BY DEF Server!Start
<1>3. /\ f \in Streams /\ f.lastSequence = 0 /\ f.frameCount = 0 /\ f.missingCount = 0
      /\ f.byteCount = 0 /\ f.chunkCount = 0 /\ f.loss = Server!NoEvidence /\ f.complete
  BY FreshStream
<1> HIDE DEF f
<1> QED BY <1>1, <1>2, <1>3 DEF Streams

LEMMA SpooledStream ==
  ASSUME stream \in Streams, NEW m \in ChunkMessages, Server!Chunk(m)
  PROVE  /\ stream' \in Streams /\ stream.phase = "open" /\ stream'.phase = "open"
         /\ stream'.identity = stream.identity /\ stream'.startTime = stream.startTime
         /\ stream'.lastTime = m.time /\ stream'.lastSequence = m.sequence
         /\ stream'.chunkCount = stream.chunkCount + 1
         /\ stream'.frameCount = stream.frameCount + m.frames
         /\ stream'.byteCount = stream.byteCount + m.bytes
         /\ stream'.missingCount = stream.missingCount + (m.sequence - stream.lastSequence - 1)
         /\ stream'.loss = m.loss
         /\ stream'.complete =>
              /\ stream.complete /\ m.sequence = stream.lastSequence + 1
              /\ m.loss = Server!NoEvidence
         /\ spooled' = Append(spooled, m.sequence) /\ m.sequence > stream.lastSequence
<1> DEFINE missing == m.sequence - stream.lastSequence - 1
           gaps == stream.gapCount + (IF missing > 0 THEN 1 ELSE 0)
           chunks == stream.chunkCount + 1
           frames_ == stream.frameCount + m.frames
           bytes == stream.byteCount + m.bytes
           lost == stream.missingCount + missing
           whole == stream.complete /\ missing = 0 /\ m.loss = Server!NoEvidence
<1>1. /\ m.sequence \in Nat \ {0} /\ m.time \in Nat /\ m.frames \in Nat /\ m.bytes \in Nat
      /\ m.loss \in Evidences
  BY DEF ChunkMessages
<1>2. /\ stream.lastSequence \in Nat /\ stream.gapCount \in Nat /\ stream.chunkCount \in Nat
      /\ stream.frameCount \in Nat /\ stream.byteCount \in Nat /\ stream.missingCount \in Nat
      /\ stream.complete \in BOOLEAN
  BY DEF Streams
<1>3. m.sequence > stream.lastSequence /\ stream.phase = "open"
  BY DEF Server!Chunk, Server!IsNew, Server!Continues
<1>4. missing \in Nat /\ gaps \in Nat /\ chunks \in Nat /\ frames_ \in Nat /\ bytes \in Nat /\ lost \in Nat
  BY <1>1, <1>2, <1>3
<1>5. stream' = [stream EXCEPT
           !.lastTime = m.time, !.lastSequence = m.sequence, !.chunkCount = chunks,
           !.frameCount = frames_, !.byteCount = bytes, !.gapCount = gaps,
           !.missingCount = lost, !.loss = m.loss, !.complete = whole]
  BY DEF Server!Chunk, Server!MissingBefore, Server!HasNoLoss
<1>6. spooled' = Append(spooled, m.sequence)
  BY DEF Server!Chunk
<1>7. whole \in BOOLEAN /\ (whole => m.sequence = stream.lastSequence + 1)
  BY <1>1, <1>2
<1>8. lost = stream.missingCount + (m.sequence - stream.lastSequence - 1)
  OBVIOUS
<1>9. whole => stream.complete /\ m.loss = Server!NoEvidence
  OBVIOUS
<1> HIDE DEF missing, gaps, lost, whole
<1> QED BY ZenonT(40), <1>1, <1>2, <1>3, <1>4, <1>5, <1>6, <1>7, <1>8, <1>9 DEF Streams

LEMMA StoppedStream ==
  ASSUME stream \in Streams, NEW m \in StopMessages, Server!Stop(m)
  PROVE  /\ stream' \in Streams /\ stream.phase = "open" /\ stream'.phase = "stopped"
         /\ stream'.lastSequence = stream.lastSequence
         /\ stream'.frameCount = stream.frameCount
         /\ stream'.missingCount = stream.missingCount
         /\ stream'.loss = m.loss
         /\ stream'.complete => stream.complete /\ m.loss = Server!NoEvidence
         /\ m.finalSequence = stream.lastSequence
         /\ stream.missingCount = 0 => m.frames = stream.frameCount
         /\ spooled' = spooled
<1> DEFINE whole == stream.complete /\ m.loss = Server!NoEvidence
<1>1. m.time \in Nat /\ m.frames \in Nat /\ m.bytes \in Nat /\ m.loss \in Evidences
  BY DEF StopMessages
<1>2. stream.complete \in BOOLEAN /\ stream.missingCount \in Nat
  BY DEF Streams
<1>3. /\ stream' = [stream EXCEPT
           !.phase = "stopped", !.lastTime = m.time, !.loss = m.loss,
           !.emittedFrames = m.frames, !.emittedBytes = m.bytes, !.complete = whole]
      /\ spooled' = spooled /\ m.finalSequence = stream.lastSequence
      /\ stream.phase = "open"
  BY DEF Server!Stop, Server!HasNoLoss, Server!Continues
<1>4. stream.missingCount = 0 => m.frames = stream.frameCount
  BY <1>2 DEF Server!Stop, Server!TotalsAgree
<1>5. whole \in BOOLEAN /\ (whole => stream.complete /\ m.loss = Server!NoEvidence)
  BY <1>2
<1> HIDE DEF whole
<1> QED BY <1>1, <1>2, <1>3, <1>4, <1>5 DEF Streams

LEMMA HighestAreNumbers ==
  ASSUME NEW u \in Transports
  PROVE  HighestAcknowledged(u) \in Int /\ HighestSent(u) \in Int
BY SMTT(30) DEF Transports, HighestAcknowledged, HighestSent

\* What an acknowledgement leaves of the transport.
LEMMA AcknowledgedTransport ==
  ASSUME NEW u \in Transports, NEW n \in Nat, n >= HighestAcknowledged(u)
  PROVE  LET v == Acknowledged(u, n) IN
         /\ v \in Transports /\ SameCourse(u, v) /\ v.buffer = u.buffer
         /\ v.next = u.next /\ v.emitted = u.emitted /\ v.started = u.started
         /\ v.stop = u.stop /\ v.pending = u.pending
         /\ v.inflight = SubSeq(u.inflight, n - HighestAcknowledged(u) + 1, Len(u.inflight))
<1> DEFINE rest == SubSeq(u.inflight, n - HighestAcknowledged(u) + 1, Len(u.inflight))
           timer == IF n > HighestAcknowledged(u) THEN "none" ELSE u.timer
           v == [u EXCEPT !.inflight = rest, !.timer = timer]
<1>1. /\ u.inflight \in Seq(Packed) /\ u.timer \in {"none", "connect", "ack"}
      /\ HighestAcknowledged(u) \in Int
  BY HighestAreNumbers DEF Transports
<1>2. rest \in Seq(Packed) /\ timer \in {"none", "connect", "ack"}
  BY <1>1
<1>3. Acknowledged(u, n) = v
  BY DEF Acknowledged
<1> HIDE DEF rest, timer
<1>4. v \in Transports
  BY <1>2 DEF Transports
<1>5. /\ SameCourse(u, v) /\ v.buffer = u.buffer /\ v.next = u.next /\ v.emitted = u.emitted
      /\ v.started = u.started /\ v.stop = u.stop /\ v.pending = u.pending
      /\ v.inflight = rest
  BY DEF SameCourse, Transports
<1> HIDE DEF v
<1> QED BY <1>3, <1>4, <1>5 DEF rest

LEMMA EndsTypes ==
  ASSUME StreamTypeOK, NEW verdict \in Verdicts, NEW rest \in Seq(Posts), Ends(verdict, rest)
  PROVE  /\ t' \in Transports
         /\ IF Alive(t) THEN t' = Ended(t, verdict) ELSE t' = t
         /\ source' \in Sources /\ port' \in Seq(Posts)
<1>1. FreshSource \in Sources /\ [FreshSource EXCEPT !.state = "off"] \in Sources
  BY DEF FreshSource, Sources, NoLoss, Losses
<1>2. t' \in Transports
  BY EndedTransport DEF Ends, StreamTypeOK
<1>3. <<>> \in Seq(Posts) /\ source \in Sources
  BY DEF StreamTypeOK
<1>4. source' \in Sources /\ port' \in Seq(Posts)
  BY <1>1, <1>3 DEF Ends
<1> QED BY <1>2, <1>4 DEF Ends

LEMMA PumpTypes ==
  ASSUME wire \in Seq(Messages), NEW u \in Transports, Pump(u)
  PROVE  t' \in Transports /\ wire' \in Seq(Messages)
BY PumpedTransport, SendsType DEF Pump

\* The transport that has heard a frame, and has not packed it yet.
Heard(f) ==
  [t EXCEPT !.loss = f.loss, !.buffer = @ + 1, !.lastTime = Later(@, f.time)]

LEMMA HeardTransport ==
  ASSUME StreamTypeOK, port # <<>>, Head(port).type = "frame"
  PROVE  LET f == Head(port)
             u == Heard(f)
         IN  /\ f.loss \in Losses /\ f.time \in Nat
             /\ u \in Transports /\ u.loss = f.loss /\ u.buffer = t.buffer + 1
             /\ u.lastTime = Later(t.lastTime, f.time)
             /\ u.verdict = t.verdict /\ u.socket = t.socket /\ u.stop = t.stop
             /\ u.stopAt = t.stopAt /\ u.next = t.next /\ u.emitted = t.emitted
             /\ u.pending = t.pending /\ u.inflight = t.inflight /\ u.started = t.started
<1> DEFINE f == Head(port)
           b == t.buffer + 1
           l == Later(t.lastTime, f.time)
<1>1. f \in Posts
  BY DEF StreamTypeOK
<1>2. f.loss \in Losses /\ f.time \in Nat
  BY <1>1 DEF Posts
<1>3. b \in Nat /\ l \in Nat /\ t \in Transports
  BY SMTT(30), <1>2 DEF Later, StreamTypeOK, Transports
<1>4. Heard(f) = [t EXCEPT !.loss = f.loss, !.buffer = b, !.lastTime = l]
  BY <1>3 DEF Heard, Transports
<1> HIDE DEF f, b, l
<1>5. [t EXCEPT !.loss = f.loss, !.buffer = b, !.lastTime = l] \in Transports
  BY <1>2, <1>3 DEF Transports
<1> QED BY ZenonT(40), <1>2, <1>3, <1>4, <1>5 DEF Transports, f, b, l

\* A frame is ignored, or is one too many, or is taken.
LEMMA ArrivedFrame ==
  ASSUME StreamTypeOK, FrameArrives
  PROVE  /\ \/ /\ ~Alive(t) \/ t.stop # "no"
               /\ port' = Tail(port) /\ UNCHANGED <<source, t, wire>>
            \/ /\ Alive(t) /\ t.stop = "no"
               /\ Ends("failed", Tail(port)) /\ UNCHANGED wire
            \/ /\ Alive(t) /\ t.stop = "no"
               /\ port' = Tail(port) /\ UNCHANGED source
               /\ \/ t' = Heard(Head(port)) /\ UNCHANGED wire
                  \/ /\ Alive(Flushed(Heard(Head(port))))
                     /\ Pump(Flushed(Heard(Head(port))))
         /\ port # <<>> /\ Head(port).type = "frame"
         /\ UNCHANGED <<turn, answers, serverVars>>
BY DEF FrameArrives, Heard

LEMMA PostedType ==
  ASSUME port \in Seq(Posts), NEW s \in Sources
  PROVE  Posted(s) \in Seq(Posts)
<1>1. [type |-> "frame", time |-> s.clock, loss |-> s.loss] \in Posts
  BY DEF Sources, Posts
<1> QED BY <1>1 DEF Posted

\* A frame is posted, or lost and counted.
LEMMA RenderedSource ==
  ASSUME StreamTypeOK, NEW lost \in BOOLEAN
  PROVE  LET s == Rendered(source, lost) IN
         /\ s \in Sources /\ s.state = source.state /\ s.clock = source.clock + 1
         /\ \/ /\ s.loss = source.loss
               /\ Posted(s) = Append(port, [type |-> "frame", time |-> s.clock, loss |-> s.loss])
            \/ /\ Dropped(s.loss) = Dropped(source.loss) + 1 /\ Posted(s) = port
               /\ s.loss.gaps >= source.loss.gaps /\ s.loss.overflows >= source.loss.overflows
         /\ Posted(s) \in Seq(Posts) /\ s # source
<1> DEFINE s == Rendered(source, lost)
           clock == source.clock + 1
           gaps == source.loss.gaps + (IF lost THEN 1 ELSE 0)
           overflows == source.loss.overflows + (IF ~lost /\ Len(port) >= Credits THEN 1 ELSE 0)
           loss == [gaps |-> gaps, overflows |-> overflows]
<1>1. /\ source.clock \in Nat /\ clock \in Nat /\ source.loss \in Losses
      /\ source.loss.gaps \in Nat /\ source.loss.overflows \in Nat
  BY SMTT(30) DEF StreamTypeOK, Sources, Losses
<1>2. s = [source EXCEPT !.clock = clock, !.loss = loss]
  BY DEF Rendered, StreamTypeOK, Sources
<1>3. /\ gaps \in Nat /\ overflows \in Nat
      /\ gaps >= source.loss.gaps /\ overflows >= source.loss.overflows
      /\ \/ gaps = source.loss.gaps /\ overflows = source.loss.overflows
         \/ gaps + overflows = source.loss.gaps + source.loss.overflows + 1
  <2>1. CASE lost
    <3>1. gaps = source.loss.gaps + 1 /\ overflows = source.loss.overflows
      BY <1>1, <2>1
    <3> HIDE DEF gaps, overflows
    <3> QED BY <1>1, <3>1
  <2>2. CASE ~lost
    <3>1. /\ gaps = source.loss.gaps
          /\ overflows \in {source.loss.overflows, source.loss.overflows + 1}
      BY SMTT(30), <1>1, <2>2
    <3> HIDE DEF gaps, overflows
    <3> QED BY <1>1, <3>1
  <2> QED BY <2>1, <2>2
<1> HIDE DEF gaps, overflows, clock
<1>4. loss \in Losses /\ loss.gaps = gaps /\ loss.overflows = overflows
  BY <1>3 DEF Losses
<1>5. gaps = source.loss.gaps /\ overflows = source.loss.overflows => loss = source.loss
  BY <1>1 DEF Losses
<1>6. Dropped(loss) = gaps + overflows
  BY <1>4 DEF Dropped
<1> HIDE DEF loss
<1>7. s \in Sources /\ s.state = source.state /\ s.clock = clock /\ s.loss = loss
  BY <1>1, <1>2, <1>4 DEF StreamTypeOK, Sources
<1> HIDE DEF s
<1>8. s # source
  BY <1>1, <1>7 DEF clock
<1>9. Posted(s) \in Seq(Posts)
  BY <1>7, PostedType DEF StreamTypeOK
<1>10. CASE gaps = source.loss.gaps /\ overflows = source.loss.overflows
  BY <1>5, <1>7, <1>8, <1>9, <1>10 DEF Posted, s, clock
<1>11. CASE gaps + overflows = source.loss.gaps + source.loss.overflows + 1
  <2>1. loss # source.loss /\ Dropped(loss) = Dropped(source.loss) + 1
    BY <1>1, <1>3, <1>4, <1>6, <1>11 DEF Dropped
  <2> QED BY <1>3, <1>4, <1>7, <1>8, <1>9, <2>1 DEF Posted, s, clock
<1> QED BY <1>3, <1>10, <1>11

\* The transport that is asked to stop, and has not packed its last frames yet.
Halted(loss) == StopsAt([t EXCEPT !.loss = loss])

\* It packs them and sends what it may, or fails.
LEMMA StoppedTransport ==
  ASSUME StreamTypeOK, WorkletStopArrives, Alive(t)
  PROVE  LET loss == Head(port).loss
             u == Halted(loss)
             v == Flushed(u)
         IN  /\ loss \in Losses /\ u \in Transports /\ u.stop = "requested" /\ Alive(u)
             /\ u.loss = loss /\ u.buffer = t.buffer /\ u.next = t.next /\ u.emitted = t.emitted
             /\ u.pending = t.pending /\ u.inflight = t.inflight /\ u.started = t.started
             /\ u.socket = t.socket /\ u.stopAt = t.stopAt
             /\ u.lastTime = Later(t.lastTime, t.stopAt)
             /\ v \in Transports /\ Burst(v) \in Seq(Packed) /\ Sends(Burst(v))
             /\ t' = (IF Alive(v) /\ Drifts(v.stopAt, v.emitted, v.loss)
                      THEN Ended(v, "failed") ELSE Pumped(v))
             /\ t' \in Transports
<1> DEFINE loss == Head(port).loss
           w == [t EXCEPT !.loss = loss]
           last == Later(t.lastTime, t.stopAt)
           u == Halted(loss)
           v == Flushed(u)
<1>1. Head(port) \in Posts /\ t \in Transports
  BY DEF WorkletStopArrives, StreamTypeOK
<1>2. loss \in Losses /\ last \in Nat
  BY <1>1 DEF Posts, Transports, Later
<1>3. t' = (IF Alive(v) /\ Drifts(v.stopAt, v.emitted, v.loss)
            THEN Ended(v, "failed") ELSE Pumped(v)) /\ Sends(Burst(v))
  BY DEF WorkletStopArrives, StopTransport, Halted
<1> HIDE DEF loss
<1>4. u = [w EXCEPT !.stop = "requested", !.lastTime = last]
  BY <1>1, <1>2 DEF Halted, StopsAt, Transports
<1> HIDE DEF last
<1>5. w \in Transports
  BY <1>1, <1>2 DEF Transports
<1>6. u \in Transports
  BY <1>2, <1>4, <1>5 DEF Transports
<1>7. /\ u.stop = "requested" /\ u.verdict = t.verdict /\ u.loss = loss
      /\ u.buffer = t.buffer /\ u.next = t.next /\ u.emitted = t.emitted
      /\ u.pending = t.pending /\ u.inflight = t.inflight /\ u.started = t.started
      /\ u.socket = t.socket /\ u.stopAt = t.stopAt /\ u.lastTime = last
  BY <1>1, <1>4 DEF Transports
<1>8. Alive(u)
  BY <1>7 DEF Alive
<1> HIDE DEF u
<1>9. v \in Transports
  BY <1>6, <1>8, FlushedTransport
<1>10. Burst(v) \in Seq(Packed) /\ t' \in Transports
  BY <1>3, <1>9, PumpedTransport, EndedTransport DEF Verdicts
<1> QED BY <1>2, <1>3, <1>6, <1>7, <1>8, <1>9, <1>10 DEF loss, last, u

LEMMA StreamTypes ==
  ASSUME StreamTypeOK, CaptureStep PROVE StreamTypeOK'
<1> USE DEF StreamTypeOK
<1>1. CASE UNCHANGED captureVars
  BY <1>1 DEF captureVars, serverVars
<1>2. CASE FrameArrives
  <2>1. Tail(port) \in Seq(Posts)
    BY <1>2, ArrivedFrame
  <2>2. Heard(Head(port)) \in Transports
    BY <1>2, ArrivedFrame, HeardTransport
  <2>3. ASSUME Alive(t), Alive(Flushed(Heard(Head(port)))) PROVE Flushed(Heard(Head(port))) \in Transports
    <3>1. Alive(Heard(Head(port)))
      BY <1>2, <2>3, ArrivedFrame, HeardTransport DEF Alive
    <3> QED BY <2>2, <3>1, FlushedTransport
  <2>4. t' \in Transports /\ wire' \in Seq(Messages) /\ source' \in Sources /\ port' \in Seq(Posts)
    BY <1>2, <2>1, <2>2, <2>3, ArrivedFrame, EndsTypes, PumpTypes DEF Verdicts
  <2>5. UNCHANGED <<turn, answers, serverVars>>
    BY <1>2, ArrivedFrame
  <2> QED BY <2>4, <2>5 DEF serverVars
<1>3. CASE HashIsReady
  <2>1. t' \in Transports
    BY <1>3 DEF HashIsReady, Transports
  <2>2. wire' \in Seq(Messages)
    BY <1>3, MessageTypes DEF HashIsReady
  <2> QED BY <1>3, <2>1, <2>2 DEF HashIsReady, serverVars
<1>4. CASE AnswerArrives
  <2> DEFINE a == Head(answers)
  <2>1. answers' \in Seq(Replies) /\ a \in Replies /\ UNCHANGED <<turn, serverVars>>
    BY <1>4 DEF AnswerArrives
  <2>2. CASE a.type = "started" /\ ~t.started
    <3> DEFINE u == [t EXCEPT !.started = TRUE, !.timer = "none"]
    <3>1. u \in Transports
      BY DEF Transports
    <3>2. Pump(u) /\ UNCHANGED <<source, port>>
      BY <1>4, <2>2 DEF AnswerArrives
    <3> HIDE DEF u
    <3> QED BY <2>1, <3>1, <3>2, PumpTypes DEF serverVars
  <2>3. CASE a.type = "spooled" /\ a.sequence \in HighestAcknowledged(t)..HighestSent(t)
    <3>1. a.sequence \in Nat
      BY <2>1, <2>3 DEF Replies
    <3>2. HighestAcknowledged(t) \in Int /\ HighestSent(t) \in Int
      BY HighestAreNumbers
    <3>3. a.sequence >= HighestAcknowledged(t)
      BY <2>3, <3>1, <3>2
    <3>4. Pump(Acknowledged(t, a.sequence)) /\ UNCHANGED <<source, port>>
      BY <1>4, <2>3 DEF AnswerArrives
    <3> QED BY <2>1, <3>1, <3>3, <3>4, PumpTypes, AcknowledgedTransport DEF serverVars
  <2>4. CASE a.type = "final" /\ t.stop = "sent" /\ a.sequence = t.next - 1
    <3>1. t' = Ended(t, "final") /\ UNCHANGED <<source, port, wire>>
      BY <1>4, <2>4 DEF AnswerArrives
    <3> QED BY <2>1, <3>1, EndedTransport DEF Verdicts, serverVars
  <2>5. CASE Ends("failed", port) /\ UNCHANGED wire
    BY <2>1, <2>5, EndsTypes DEF Verdicts, serverVars
  <2> QED BY <1>4, <2>2, <2>3, <2>4, <2>5 DEF AnswerArrives
<1>5. CASE Faults \/ (turn # 0 /\ Aborts)
  <2>1. \E verdict \in Verdicts : Ends(verdict, port)
    BY <1>5 DEF Faults, SourceFails, SocketFails, TimerFires, Aborts, Verdicts
  <2>2. UNCHANGED <<turn, wire, answers, serverVars>>
    BY <1>5 DEF Faults, SourceFails, SocketFails, TimerFires, Aborts
  <2> QED BY <2>1, <2>2, EndsTypes DEF serverVars
<1>6. CASE SocketOpens
  <2>1. t' \in Transports
    BY <1>6 DEF SocketOpens, Transports
  <2>2. wire' \in Seq(Messages)
    BY <1>6, MessageTypes DEF SocketOpens
  <2> QED BY <1>6, <2>1, <2>2 DEF SocketOpens
<1>7. CASE RenderFrame
  <2>1. PICK lost \in BOOLEAN : source' = Rendered(source, lost) /\ port' = Posted(source')
    BY <1>7 DEF RenderFrame
  <2> QED BY <1>7, <2>1, RenderedSource DEF RenderFrame, serverVars
<1>8. CASE WorkletStops
  <2>1. PICK s \in {source, Rendered(source, FALSE)} :
          /\ source' = [s EXCEPT !.state = "stopped"]
          /\ port' = Append(IF s = source THEN port ELSE Posted(s),
                            [type |-> "stopped", loss |-> s.loss])
    BY <1>8 DEF WorkletStops
  <2>2. s \in Sources /\ Posted(s) \in Seq(Posts)
    BY <2>1, RenderedSource, PostedType
  <2>3. source' \in Sources
    BY <2>1, <2>2 DEF Sources
  <2>4. [type |-> "stopped", loss |-> s.loss] \in Posts
    BY <2>2 DEF Sources, Posts
  <2>5. port' \in Seq(Posts)
    BY <2>1, <2>2, <2>4
  <2> QED BY <1>8, <2>3, <2>5 DEF WorkletStops, serverVars
<1>9. CASE ServerStarts \/ ServerSpools \/ ServerStops
  <2>1. wire # <<>> /\ wire' = Tail(wire)
    BY <1>9 DEF ServerStarts, ServerSpools, ServerStops, Reads
  <2>9. Head(wire) \in Messages /\ wire' \in Seq(Messages)
    BY <2>1
  <2>2. CASE ServerStarts
    <3>1. Head(wire) \in StartMessages
      BY <2>9, <2>2 DEF ServerStarts, Reads, Messages, StartMessages, ChunkMessages, StopMessages
    <3>2. stream' \in Streams /\ spooled' = spooled
      BY <2>2, <3>1, StartedStream DEF ServerStarts
    <3>3. [type |-> "started"] \in Replies
      BY DEF Replies
    <3>4. answers' \in Seq(Replies)
      BY <2>2, <3>3 DEF ServerStarts, Answers
    <3>5. session' \in [Turns -> SessionStatuses]
      BY <2>2 DEF ServerStarts, SessionBecomes, SessionStatuses
    <3> QED BY <2>2, <2>9, <3>2, <3>4, <3>5 DEF ServerStarts
  <2>3. CASE ServerSpools
    <3> DEFINE m == Head(wire)
    <3>1. m \in ChunkMessages
      BY <2>9, <2>3 DEF ServerSpools, Reads, Messages, StartMessages, ChunkMessages, StopMessages
    <3>2. stream' \in Streams /\ spooled' = Append(spooled, m.sequence)
      BY <2>3, <3>1, SpooledStream DEF ServerSpools
    <3>3. m.sequence \in Nat \ {0} /\ [type |-> "spooled", sequence |-> m.sequence] \in Replies
      BY <3>1 DEF Replies, ChunkMessages
    <3>4. answers' = Append(answers, [type |-> "spooled", sequence |-> m.sequence])
      BY <2>3 DEF ServerSpools, Answers
    <3> HIDE DEF m
    <3> QED BY <2>3, <2>9, <3>2, <3>3, <3>4 DEF ServerSpools
  <2>4. CASE ServerStops
    <3>1. Head(wire) \in StopMessages
      BY <2>9, <2>4 DEF ServerStops, Reads, Messages, StartMessages, ChunkMessages, StopMessages
    <3>2. stream' \in Streams /\ spooled' = spooled
      BY <2>4, <3>1, StoppedStream DEF ServerStops
    <3> QED BY <2>4, <2>9, <3>2 DEF ServerStops, SessionBecomes, SessionStatuses
  <2> QED BY <1>9, <2>2, <2>3, <2>4
<1>10. CASE ServerRefuses
  <2>1. [type |-> "error"] \in Replies
    BY DEF Replies
  <2>2. Server!Fresh \in Streams /\ <<>> \in Seq(Messages) /\ <<>> \in Seq(Nat \ {0})
    BY FreshStream
  <2> QED BY SMTT(30), <1>10, <2>1, <2>2 DEF ServerRefuses, Disconnects, SessionBecomes, Answers,
          SessionStatuses
<1>11. CASE ServerSeesClose
  <2>1. Server!Fresh \in Streams /\ <<>> \in Seq(Messages) /\ <<>> \in Seq(Nat \ {0})
        /\ <<>> \in Seq(Replies)
    BY FreshStream
  <2> QED BY <1>11, <2>1 DEF ServerSeesClose, Disconnects, SessionBecomes, SessionStatuses
<1>12. CASE WorkletStopArrives
  <2>1. Tail(port) \in Seq(Posts) /\ Head(port) \in Posts
    BY <1>12 DEF WorkletStopArrives
  <2>2. CASE ~Alive(t)
    BY <1>12, <2>1, <2>2 DEF WorkletStopArrives, serverVars
  <2>3. CASE Alive(t)
    <3>1. t' \in Transports /\ wire' \in Seq(Messages)
      BY <1>12, <2>3, StoppedTransport, SendsType
    <3> QED BY <1>12, <2>1, <3>1 DEF WorkletStopArrives, serverVars
  <2> QED BY <2>2, <2>3
<1>13. CASE SessionMoves
  BY <1>13 DEF SessionMoves, SessionStatuses
<1>14. CASE Connects
  <2>1. Connecting(t) \in Transports
    BY DEF Connecting, Transports
  <2> QED BY <1>14, <2>1 DEF Connects, serverVars
<1>15. CASE AskWorkletToStop
  <2>1. source' \in Sources
    BY <1>15 DEF AskWorkletToStop, Sources
  <2>2. PICK lag \in {0, 1} : t' = [t EXCEPT !.stopAt = source.clock + lag]
    BY <1>15 DEF AskWorkletToStop
  <2>3. source.clock + lag \in Nat
    BY DEF Sources
  <2>4. t' \in Transports
    BY <2>2, <2>3 DEF Transports
  <2> QED BY <1>15, <2>1, <2>4 DEF AskWorkletToStop, serverVars
<1>16. ASSUME NEW p \in Turns, AnalysisEnds(p) PROVE StreamTypeOK'
  <2>1. [type |-> "error"] \in Replies /\ stream.lastSequence \in Nat
    BY DEF Replies, Streams
  <2>2. [type |-> "final", sequence |-> stream.lastSequence] \in Replies
    BY <2>1 DEF Replies
  <2>3. PICK to \in {"result", "error"} :
          /\ session' = [session EXCEPT ![p] = to]
          /\ \/ answers' = Append(answers, [type |-> "error"])
             \/ answers' = Append(answers, [type |-> "final", sequence |-> stream.lastSequence])
             \/ answers' = answers
          /\ link' \in {link, "closed"}
    BY <1>16 DEF AnalysisEnds, Answers
  <2>4. answers' \in Seq(Replies)
    <3> DEFINE e == [type |-> "error"]
               f == [type |-> "final", sequence |-> stream.lastSequence]
    <3> HIDE DEF e, f
    <3>1. e \in Replies /\ f \in Replies
      BY <2>1, <2>2 DEF e, f
    <3>2. \/ answers' = Append(answers, e) \/ answers' = Append(answers, f)
          \/ answers' = answers
      BY <2>3 DEF e, f
    <3>3. answers \in Seq(Replies)
      OBVIOUS
    <3>4. ASSUME NEW s \in Seq(Replies), NEW r \in Replies PROVE Append(s, r) \in Seq(Replies)
      OBVIOUS
    <3> QED BY ZenonT(40), <3>1, <3>2, <3>3, <3>4
  <2>5. session' \in [Turns -> SessionStatuses]
    BY <2>3 DEF SessionStatuses
  <2> QED BY <1>16, <2>3, <2>4, <2>5 DEF AnalysisEnds
<1>17. ASSUME NEW p \in Turns, NewTransport(p) PROVE StreamTypeOK'
  <2>1. /\ Server!Fresh \in Streams /\ <<>> \in Seq(Messages) /\ <<>> \in Seq(Nat \ {0})
        /\ <<>> \in Seq(Replies) /\ <<>> \in Seq(Posts) /\ FreshTransport \in Transports
    BY FreshStream, FreshTransportType
  <2>2. FreshSource \in Sources
    BY DEF FreshSource, Sources, NoLoss, Losses
  <2> QED BY <1>17, <2>1, <2>2 DEF NewTransport
<1> QED
  BY <1>1, <1>2, <1>3, <1>4, <1>5, <1>6, <1>7, <1>8, <1>9, <1>10, <1>11, <1>12, <1>13, <1>14,
     <1>15, <1>16, <1>17
  DEF CaptureStep, Page, Remote

-----------------------------------------------------------------------------
(* How each step of the page moves the transport.                           *)

SendsChunks == \E chunks \in Seq(Packed) : Sends(chunks)

\* It failed, or was aborted; what else is posted is heard by nobody.
Fails(verdict) ==
  /\ Alive(t) /\ ~Alive(t') /\ t'.verdict = verdict
  /\ t'.socket = (IF t.socket = "none" THEN "none" ELSE "closed")

LEMMA FailedTransport ==
  ASSUME t \in Transports, Alive(t), NEW verdict \in Verdicts, NEW rest, Ends(verdict, rest)
  PROVE  Fails(verdict)
BY EndedTransport DEF Ends, Fails

LEMMA FrameTaken ==
  ASSUME StreamTypeOK, FrameArrives
  PROVE  /\ UNCHANGED <<turn, answers, link, session, stream, spooled>>
         /\ port # <<>> /\ Head(port).type = "frame"
         /\ \/ /\ ~Alive(t) \/ t.stop # "no"
               /\ port' = Tail(port) /\ UNCHANGED <<source, t, wire>>
            \/ /\ t.stop = "no" /\ Fails("failed") /\ UNCHANGED wire
            \/ /\ Alive(t) /\ Alive(t') /\ t.stop = "no" /\ t'.stop = "no"
               /\ port' = Tail(port) /\ UNCHANGED source
               /\ t'.socket = t.socket /\ t'.stopAt = t.stopAt
               /\ t'.lastTime = Later(t.lastTime, Head(port).time)
               /\ t'.loss = Head(port).loss
               /\ t'.emitted + t'.buffer = t.emitted + t.buffer + 1
               /\ SendsChunks
<1> DEFINE u == Heard(Head(port))
           v == Flushed(u)
<1>1. CASE Alive(t) /\ t.stop = "no" /\ Ends("failed", Tail(port)) /\ UNCHANGED wire
  <2>1. Fails("failed")
    BY <1>1, FailedTransport DEF StreamTypeOK, Verdicts
  <2> QED BY <1>1, <2>1, ArrivedFrame DEF serverVars
<1>2. CASE Alive(t) /\ t.stop = "no" /\ ~(Ends("failed", Tail(port)) /\ UNCHANGED wire)
  <2>1. /\ u \in Transports /\ u.loss = Head(port).loss /\ u.buffer = t.buffer + 1
        /\ u.lastTime = Later(t.lastTime, Head(port).time)
        /\ u.verdict = t.verdict /\ u.socket = t.socket /\ u.stop = t.stop
        /\ u.stopAt = t.stopAt /\ u.emitted = t.emitted
    BY HeardTransport, ArrivedFrame
  <2>2. Alive(u) /\ t \in Transports
    BY <1>2, <2>1 DEF Alive, StreamTypeOK
  <2> HIDE DEF u
  <2>3. port' = Tail(port) /\ UNCHANGED source
    BY <1>2, ArrivedFrame
  <2>4. CASE t' = u /\ UNCHANGED wire
    <3>1. Sends(<<>>)
      BY <2>4 DEF Sends, StreamTypeOK
    <3>2. <<>> \in Seq(Packed)
      OBVIOUS
    <3>3. t'.emitted + t'.buffer = t.emitted + t.buffer + 1
      BY <2>1, <2>2, <2>4 DEF Transports
    <3> QED BY <1>2, <2>1, <2>2, <2>3, <2>4, <3>1, <3>2, <3>3, ArrivedFrame
            DEF SendsChunks, serverVars
  <2>5. CASE Alive(v) /\ Pump(v)
    <3>1. /\ v \in Transports /\ SameCourse(u, v) /\ v.buffer = 0
          /\ v.emitted = u.emitted + u.buffer /\ v.stop = u.stop
      BY <2>1, <2>2, <2>5, FlushedTransport
    <3> HIDE DEF v
    <3>2. /\ t' = Pumped(v) /\ Sends(Burst(v))
      BY <2>5 DEF Pump
    <3>3. /\ SameCourse(v, t') /\ t'.buffer = 0 /\ t'.emitted = v.emitted /\ t'.stop = "no"
          /\ Burst(v) \in Seq(Packed)
      BY <1>2, <2>1, <3>1, <3>2, PumpedTransport
    <3>4. /\ t'.socket = t.socket /\ t'.stopAt = t.stopAt /\ t'.loss = u.loss
          /\ t'.lastTime = u.lastTime /\ Alive(t')
      BY <1>2, <2>1, <2>2, <3>1, <3>3 DEF SameCourse, Alive
    <3>5. t'.emitted + t'.buffer = t.emitted + t.buffer + 1
      <4>1. t.emitted \in Nat /\ t.buffer \in Nat
        BY <2>2 DEF Transports
      <4>2. t'.emitted = t.emitted + (t.buffer + 1) /\ t'.buffer = 0
        BY <2>1, <3>1, <3>3
      <4> QED BY <4>1, <4>2
    <3> QED BY <1>2, <2>1, <2>2, <2>3, <3>2, <3>3, <3>4, <3>5, ArrivedFrame
            DEF SendsChunks, serverVars
  <2> QED BY <1>2, <2>4, <2>5, ArrivedFrame DEF u
<1> QED BY <1>1, <1>2, ArrivedFrame DEF serverVars

\* What an answer, or a new connection, leaves alone of a transport that goes on.
GoesOn ==
  /\ Alive(t) /\ Alive(t') /\ UNCHANGED <<source, port>>
  /\ t'.socket = t.socket /\ t'.stopAt = t.stopAt /\ t'.lastTime = t.lastTime
  /\ t'.loss = t.loss /\ t'.next = t.next /\ t'.emitted = t.emitted /\ t'.buffer = t.buffer
  /\ t'.stop = t.stop \/ (t.stop = "requested" /\ t'.stop = "hashing")
  /\ SendsChunks

LEMMA AnswerTaken ==
  ASSUME StreamTypeOK, AnswerArrives, ~Alive(t) => t.socket \in {"none", "closed"}
  PROVE  /\ UNCHANGED <<turn, link, session, stream, spooled>>
         /\ answers # <<>> /\ answers' = Tail(answers) /\ t.socket = "open"
         /\ \/ Fails("failed") /\ Ends("failed", port) /\ UNCHANGED wire
            \/ /\ Head(answers).type = "final" /\ t.stop = "sent"
               /\ Fails("final") /\ UNCHANGED <<source, port, wire>>
            \/ GoesOn
<1> DEFINE a == Head(answers)
<1>1. /\ a \in Replies /\ t \in Transports /\ Alive(t)
      /\ UNCHANGED <<turn, link, session, stream, spooled>>
      /\ answers # <<>> /\ answers' = Tail(answers) /\ t.socket = "open"
  BY DEF AnswerArrives, StreamTypeOK, serverVars
<1>2. ASSUME NEW u \in Transports, SameCourse(t, u), u.next = t.next, u.emitted = t.emitted,
             u.buffer = t.buffer, u.stop = t.stop, Pump(u), UNCHANGED <<source, port>>
      PROVE  GoesOn
  <2>1. t' = Pumped(u) /\ Sends(Burst(u))
    BY <1>2 DEF Pump
  <2>2. /\ SameCourse(u, t') /\ t'.buffer = u.buffer /\ t'.next = u.next
        /\ t'.emitted = u.emitted /\ Burst(u) \in Seq(Packed)
        /\ t'.stop = u.stop \/ (u.stop = "requested" /\ t'.stop = "hashing")
    BY <1>2, <2>1, PumpedTransport
  <2>3. SendsChunks
    BY <2>1, <2>2 DEF SendsChunks
  <2> QED BY <1>1, <1>2, <2>2, <2>3 DEF GoesOn, SameCourse, Alive
<1>3. CASE a.type = "started" /\ ~t.started
  <2> DEFINE u == [t EXCEPT !.started = TRUE, !.timer = "none"]
  <2>1. /\ u \in Transports /\ SameCourse(t, u) /\ u.next = t.next /\ u.emitted = t.emitted
        /\ u.buffer = t.buffer /\ u.stop = t.stop
    BY <1>1 DEF Transports, SameCourse
  <2>2. Pump(u) /\ UNCHANGED <<source, port>>
    BY <1>3 DEF AnswerArrives
  <2> HIDE DEF u
  <2> QED BY <1>1, <1>2, <2>1, <2>2
<1>4. CASE a.type = "spooled" /\ a.sequence \in HighestAcknowledged(t)..HighestSent(t)
  <2>1. a.sequence \in Nat
    BY <1>1, <1>4 DEF Replies
  <2>2. HighestAcknowledged(t) \in Int /\ HighestSent(t) \in Int
    BY <1>1, HighestAreNumbers
  <2>3. a.sequence >= HighestAcknowledged(t)
    BY <1>4, <2>1, <2>2
  <2>4. Pump(Acknowledged(t, a.sequence)) /\ UNCHANGED <<source, port>>
    BY <1>4 DEF AnswerArrives
  <2> QED BY <1>1, <1>2, <2>1, <2>3, <2>4, AcknowledgedTransport
<1>5. CASE a.type = "final" /\ t.stop = "sent" /\ a.sequence = t.next - 1
  <2>1. t' = Ended(t, "final") /\ UNCHANGED <<source, port, wire>>
    BY <1>5 DEF AnswerArrives
  <2>2. Fails("final")
    BY <1>1, <2>1, EndedTransport DEF Fails, Verdicts
  <2> QED BY <1>1, <1>5, <2>1, <2>2
<1>6. CASE Ends("failed", port) /\ UNCHANGED wire
  BY <1>1, <1>6, FailedTransport DEF Verdicts
<1> QED BY <1>1, <1>3, <1>4, <1>5, <1>6 DEF AnswerArrives

LEMMA StopTaken ==
  ASSUME StreamTypeOK, WorkletStopArrives
  PROVE  /\ UNCHANGED <<turn, source, answers, link, session, stream, spooled>>
         /\ port # <<>> /\ Head(port).type = "stopped" /\ port' = Tail(port)
         /\ \/ ~Alive(t) /\ UNCHANGED <<t, wire>>
            \/ Fails("failed") /\ SendsChunks
            \/ /\ Alive(t) /\ Alive(t') /\ t'.stop \in {"requested", "hashing"}
               /\ t'.socket = t.socket /\ t'.loss = Head(port).loss
               /\ t'.lastTime = Later(t.lastTime, t.stopAt) /\ t'.stopAt = t.stopAt
               /\ t'.emitted = t.emitted + t.buffer /\ t'.buffer = 0
               /\ ~Drifts(t'.stopAt, t'.emitted, t'.loss)
               /\ SendsChunks
<1> DEFINE loss == Head(port).loss
           u == Halted(loss)
           v == Flushed(u)
<1>1. /\ UNCHANGED <<turn, source, answers, link, session, stream, spooled>>
      /\ port # <<>> /\ Head(port).type = "stopped" /\ port' = Tail(port)
  BY DEF WorkletStopArrives, serverVars
<1>2. CASE ~Alive(t)
  BY <1>1, <1>2 DEF WorkletStopArrives
<1>3. CASE Alive(t)
  <2>1. /\ u \in Transports /\ u.stop = "requested" /\ Alive(u)
        /\ u.loss = loss /\ u.buffer = t.buffer /\ u.emitted = t.emitted
        /\ u.socket = t.socket /\ u.stopAt = t.stopAt
        /\ u.lastTime = Later(t.lastTime, t.stopAt)
        /\ v \in Transports /\ Burst(v) \in Seq(Packed) /\ Sends(Burst(v))
        /\ t' = (IF Alive(v) /\ Drifts(v.stopAt, v.emitted, v.loss)
                 THEN Ended(v, "failed") ELSE Pumped(v))
    BY <1>3, StoppedTransport
  <2>2. \/ v = Ended(u, "failed") /\ ~Alive(v)
        \/ /\ SameCourse(u, v) /\ Alive(v) /\ v.buffer = 0
           /\ v.emitted = u.emitted + u.buffer /\ v.stop = u.stop
    BY <2>1, FlushedTransport
  <2>3. SendsChunks
    BY <2>1 DEF SendsChunks
  <2> HIDE DEF u, v, loss
  <2>4. CASE ~Alive(v)
    <3>1. t' = Pumped(v) /\ v = Ended(u, "failed")
      BY <2>1, <2>2, <2>4
    <3>2. t' = v
      BY <2>1, <2>4, <3>1, PumpedTransport DEF Pumps
    <3>3. Fails("failed")
      BY <1>3, <2>1, <2>4, <3>1, <3>2, EndedTransport DEF Fails, Verdicts
    <3> QED BY <1>1, <2>3, <3>3
  <2>5. CASE Alive(v) /\ Drifts(v.stopAt, v.emitted, v.loss)
    <3>1. Fails("failed")
      BY <1>3, <2>1, <2>2, <2>5, EndedTransport DEF Fails, Verdicts, SameCourse
    <3> QED BY <1>1, <2>3, <3>1
  <2>6. CASE Alive(v) /\ ~Drifts(v.stopAt, v.emitted, v.loss)
    <3>1. t' = Pumped(v)
      BY <2>1, <2>6
    <3>2. /\ SameCourse(v, t') /\ t'.buffer = v.buffer /\ t'.emitted = v.emitted
          /\ t'.stop = v.stop \/ t'.stop = "hashing"
      BY <2>1, <3>1, PumpedTransport
    <3>3. /\ t'.socket = t.socket /\ t'.stopAt = t.stopAt /\ t'.loss = loss
          /\ t'.lastTime = u.lastTime /\ Alive(t') /\ v.stopAt = t'.stopAt /\ v.loss = t'.loss
      BY <1>3, <2>1, <2>2, <2>6, <3>2 DEF SameCourse, Alive
    <3> QED BY <1>1, <1>3, <2>1, <2>2, <2>3, <2>6, <3>2, <3>3 DEF loss
  <2> QED BY <2>4, <2>5, <2>6
<1> QED BY <1>2, <1>3

-----------------------------------------------------------------------------
(* What holds of the stream.                                                *)

FramePosts == [type : {"frame"}, time : Nat, loss : Losses]

\* A transport that is alive has every frame that its source rendered: packed, heard,
\* still to be heard, or counted as lost.
IsCounted(posts) ==
  source.clock = t.emitted + t.buffer + Len(posts) + Dropped(source.loss)

IsRendering ==
  /\ source.state \in {"running", "asked"} /\ t.stop = "no"
  /\ port \in Seq(FramePosts) /\ IsCounted(port)

IsFlushing ==
  /\ source.state = "stopped" /\ t.stop = "no"
  /\ \E posts \in Seq(FramePosts) :
       /\ port = Append(posts, [type |-> "stopped", loss |-> source.loss])
       /\ IsCounted(posts)

IsHeard ==
  /\ source.state = "stopped" /\ t.stop # "no" /\ port = <<>> /\ t.buffer = 0
  /\ t.loss = source.loss /\ source.clock = t.emitted + Dropped(source.loss)

Accounts == Alive(t) /\ turn # 0 => IsRendering \/ IsFlushing \/ IsHeard

\* The server has a connection only of a socket that was opened.
Sockets ==
  /\ t.socket \in {"none", "connecting"} => link = "none"
  /\ Alive(t) => t.socket # "closed"
  /\ ~Alive(t) => t.socket \in {"none", "closed"}

\* The stop that is under way is what the transport knows.
StopIsSent ==
  Alive(t) =>
    \A i \in 1..Len(wire) :
      wire[i].type = "stop" => t.stop = "sent" /\ wire[i] = StopMessage(t)

\* What claims to be complete is.
SpoolIsWhole ==
  /\ stream.phase = "idle" => spooled = <<>>
  /\ stream.complete =>
       stream.missingCount = 0 /\ spooled = [i \in 1..stream.lastSequence |-> i]

IsComplete == stream.phase = "stopped" /\ stream.complete

CompleteIsEmitted ==
  IsComplete /\ Alive(t) =>
    t.stop = "sent" /\ stream.frameCount = t.emitted /\ Dropped(t.loss) = 0

\* Only a complete stream is analysed, and only an analysed one has a final.
FinalsAreEarned ==
  /\ turn # 0 /\ session[turn] = "processing" => IsComplete
  /\ \A i \in 1..Len(answers) :
       answers[i].type = "final" =>
         link = "closed" /\ IsComplete /\ session[turn] \in {"result", "reset"} /\ turn # 0
  /\ t.verdict = "final" =>
       /\ link = "closed" /\ IsComplete /\ session[turn] \in {"result", "reset"} /\ turn # 0
       /\ source.state = "stopped" /\ stream.frameCount = source.clock

StreamInv ==
  /\ StreamTypeOK /\ NoTransport /\ Accounts /\ Sockets /\ StopIsSent /\ SpoolIsWhole
  /\ CompleteIsEmitted /\ FinalsAreEarned

LEMMA OldStops ==
  ASSUME wire \in Seq(Messages), SendsChunks
  PROVE  \A i \in 1..Len(wire') :
           wire'[i].type = "stop" => i \in 1..Len(wire) /\ wire'[i] = wire[i]
<1>1. PICK chunks \in Seq(Packed) : Sends(chunks)
  BY DEF SendsChunks
<1> DEFINE sent == [i \in DOMAIN chunks |-> ChunkMessage(chunks[i])]
<1>2. \A c \in Packed : ChunkMessage(c).type = "chunk" /\ ChunkMessage(c) \in Messages
  BY FreshTransportType, MessageTypes DEF ChunkMessage
<1>3. sent \in Seq(Messages) /\ \A i \in 1..Len(sent) : sent[i].type = "chunk"
  <2>1. \A i \in DOMAIN chunks : chunks[i] \in Packed
    OBVIOUS
  <2>2. DOMAIN chunks = 1..Len(chunks) /\ Len(chunks) \in Nat
    OBVIOUS
  <2>3. \A i \in DOMAIN chunks : sent[i].type = "chunk" /\ sent[i] \in Messages
    BY <1>2, <2>1
  <2>4. sent \in Seq(Messages) /\ Len(sent) = Len(chunks)
    BY <2>2, <2>3
  <2> HIDE DEF sent
  <2> QED BY <2>2, <2>3, <2>4
<1> HIDE DEF sent
<1>4. wire' = wire \o sent
  BY <1>1 DEF Sends, sent
<1>5. ASSUME NEW i \in 1..Len(wire'), wire'[i].type = "stop"
      PROVE  i \in 1..Len(wire) /\ wire'[i] = wire[i]
  <2>1. i \in 1..(Len(wire) + Len(sent)) /\ Len(wire) \in Nat /\ Len(sent) \in Nat
    BY <1>3, <1>4
  <2>2. CASE i <= Len(wire)
    BY <1>3, <1>4, <2>1, <2>2
  <2>3. CASE i > Len(wire)
    <3>1. wire'[i] = sent[i - Len(wire)] /\ i - Len(wire) \in 1..Len(sent)
      BY <1>3, <1>4, <2>1, <2>3
    <3> QED BY <1>3, <1>5, <3>1
  <2> QED BY <2>1, <2>2, <2>3
<1> QED BY <1>5

\* A frame that arrives leaves the rest of what is posted.
LEMMA PostsLeft ==
  ASSUME NEW posts \in Seq(FramePosts), NEW s, s.type = "stopped"
  PROVE  /\ Append(posts, s) # <<>>
         /\ Head(Append(posts, s)).type = "frame" =>
              /\ Tail(posts) \in Seq(FramePosts) /\ Len(Tail(posts)) = Len(posts) - 1
              /\ Tail(Append(posts, s)) = Append(Tail(posts), s)
         /\ Head(Append(posts, s)).type = "stopped" =>
              posts = <<>> /\ Tail(Append(posts, s)) = <<>> /\ Head(Append(posts, s)) = s
<1> DEFINE all == Append(posts, s)
<1>1. all # <<>> /\ Len(all) = Len(posts) + 1
  OBVIOUS
<1>2. CASE posts = <<>>
  <2>1. all = <<s>>
    BY <1>2
  <2> QED BY <1>2, <2>1
<1>3. CASE posts # <<>>
  <2>1. Head(all) = posts[1] /\ posts[1] \in FramePosts
    BY <1>3
  <2>2. Head(all).type = "frame"
    BY <2>1 DEF FramePosts
  <2>3. Tail(posts) \in Seq(FramePosts) /\ Len(Tail(posts)) = Len(posts) - 1
    BY <1>3
  <2>4. Tail(all) = Append(Tail(posts), s)
    BY <1>3
  <2> QED BY <1>1, <2>2, <2>3, <2>4
<1> QED BY <1>2, <1>3

LEMMA SumMoves ==
  ASSUME NEW c \in Nat, NEW e \in Nat, NEW b \in Nat, NEW n \in Nat, NEW d \in Nat,
         NEW e1 \in Nat, NEW b1 \in Nat, NEW n1 \in Nat,
         c = e + b + n + d, e1 + b1 = e + b + 1, n1 = n - 1
  PROVE  c = e1 + b1 + n1 + d
OBVIOUS

\* A step that moves no frame: the source may be asked to stop, and the transport may
\* get on with its stop.
Moves ==
  /\ turn' = turn /\ port' = port /\ t'.verdict = t.verdict
  /\ t'.emitted = t.emitted /\ t'.buffer = t.buffer /\ t'.loss = t.loss
  /\ t'.stop = t.stop \/ (t.stop # "no" /\ t'.stop # "no")
  /\ source'.clock = source.clock /\ source'.loss = source.loss
  /\ \/ source'.state = source.state
     \/ t.stop = "no" /\ source.state = "running" /\ source'.state = "asked"

LEMMA MovesKeepAccounts ==
  ASSUME Accounts, Moves PROVE Accounts'
<1> SUFFICES ASSUME Alive(t'), turn' # 0 PROVE IsRendering' \/ IsFlushing' \/ IsHeard'
  BY DEF Accounts
<1>1. Alive(t) /\ turn # 0
  BY DEF Moves, Alive
<1>2. \A posts : IsCounted(posts) => source'.clock = t'.emitted + t'.buffer + Len(posts)
                                                     + Dropped(source'.loss)
  BY DEF Moves, IsCounted
<1>3. CASE IsRendering
  BY <1>2, <1>3 DEF Moves, IsRendering, IsCounted
<1>4. CASE IsFlushing
  <2>1. PICK posts \in Seq(FramePosts) :
          /\ port = Append(posts, [type |-> "stopped", loss |-> source.loss])
          /\ IsCounted(posts)
    BY <1>4 DEF Moves, IsFlushing
  <2>2. /\ port' = Append(posts, [type |-> "stopped", loss |-> source'.loss])
        /\ source'.clock = t'.emitted + t'.buffer + Len(posts) + Dropped(source'.loss)
    BY <1>2, <2>1 DEF Moves
  <2>3. source'.state = "stopped" /\ t'.stop = "no"
    BY <1>4 DEF Moves, IsFlushing
  <2> QED BY <2>2, <2>3 DEF Moves, IsFlushing, IsCounted
<1>5. CASE IsHeard
  BY <1>5 DEF Moves, IsHeard
<1> QED BY <1>1, <1>3, <1>4, <1>5 DEF Accounts

LEMMA AccountsStep ==
  ASSUME StreamTypeOK, Accounts, Sockets, CaptureStep PROVE Accounts'
<1>0. t \in Transports /\ t' \in Transports /\ source \in Sources /\ source' \in Sources
  BY StreamTypes DEF StreamTypeOK
<1>1. CASE UNCHANGED <<turn, source, port, t>>
  BY <1>1 DEF Accounts, Alive, IsRendering, IsFlushing, IsHeard, IsCounted
<1>2. CASE FrameArrives
  <2>1. CASE Alive(t) /\ t.stop = "no" /\ turn # 0 /\ Alive(t') /\ t'.stop = "no"
             /\ port' = Tail(port) /\ UNCHANGED <<source, turn>>
             /\ t'.emitted + t'.buffer = t.emitted + t.buffer + 1
             /\ port # <<>> /\ Head(port).type = "frame"
    <3>1. CASE IsRendering
      <4>1. port \in Seq(FramePosts) /\ IsCounted(port)
        BY <3>1 DEF IsRendering
      <4>2. Tail(port) \in Seq(FramePosts) /\ Len(Tail(port)) = Len(port) - 1 /\ Len(port) \in Nat
        BY <2>1, <4>1
      <4>3. /\ source.clock \in Nat /\ t.emitted \in Nat /\ t.buffer \in Nat
            /\ Dropped(source.loss) \in Nat /\ t'.emitted \in Nat /\ t'.buffer \in Nat
        BY <1>0, EvidenceType DEF Sources, Transports
      <4>4. source.clock = t.emitted + t.buffer + Len(port) + Dropped(source.loss)
        BY <4>1 DEF IsCounted
      <4>6. Len(Tail(port)) \in Nat
        BY <4>2
      <4>5. source.clock = t'.emitted + t'.buffer + Len(Tail(port)) + Dropped(source.loss)
        BY SMTT(30), <2>1, <4>2, <4>3, <4>4, <4>6, SumMoves
      <4> QED BY <2>1, <3>1, <4>2, <4>5 DEF Accounts, IsRendering, IsCounted
    <3>2. CASE IsFlushing
      <4> DEFINE s == [type |-> "stopped", loss |-> source.loss]
      <4>1. PICK posts \in Seq(FramePosts) : port = Append(posts, s) /\ IsCounted(posts)
        BY <3>2 DEF IsFlushing
      <4>2. s.type = "stopped"
        OBVIOUS
      <4> HIDE DEF s
      <4>3. /\ Tail(posts) \in Seq(FramePosts) /\ Len(Tail(posts)) = Len(posts) - 1
            /\ Tail(port) = Append(Tail(posts), s)
        BY <2>1, <4>1, <4>2, PostsLeft
      <4>4. /\ source.clock \in Nat /\ t.emitted \in Nat /\ t.buffer \in Nat
            /\ Dropped(source.loss) \in Nat /\ t'.emitted \in Nat /\ t'.buffer \in Nat
            /\ Len(Tail(posts)) \in Nat /\ Len(posts) \in Nat
        BY <1>0, <4>3, EvidenceType DEF Sources, Transports
      <4>5. source.clock = t.emitted + t.buffer + Len(posts) + Dropped(source.loss)
        BY <4>1 DEF IsCounted
      <4>6. source.clock = t'.emitted + t'.buffer + Len(Tail(posts)) + Dropped(source.loss)
        BY SMTT(30), <2>1, <4>3, <4>4, <4>5, SumMoves
      <4>7. port' = Append(Tail(posts), [type |-> "stopped", loss |-> source'.loss])
        BY <2>1, <4>3 DEF s
      <4> QED BY <2>1, <3>2, <4>3, <4>6, <4>7 DEF Accounts, IsFlushing, IsCounted
    <3> QED BY <2>1, <3>1, <3>2 DEF Accounts, IsHeard
  <2>2. CASE ~Alive(t')
    BY <2>2 DEF Accounts
  <2>3. CASE ~Alive(t) /\ UNCHANGED t
    BY <2>3 DEF Alive, Accounts
  <2>4. CASE Alive(t) /\ t.stop # "no"
    <3>1. turn = 0
      BY <1>2, <2>4, FrameTaken DEF Accounts, IsRendering, IsFlushing, IsHeard
    <3> QED BY <1>2, <3>1, FrameTaken DEF Accounts
  <2>5. CASE turn = 0
    BY <1>2, <2>5, FrameTaken DEF Accounts
  <2> QED BY <1>2, <2>1, <2>2, <2>3, <2>4, <2>5, FrameTaken DEF Fails
<1>3. CASE HashIsReady \/ Connects \/ SocketOpens
  <2>1. UNCHANGED <<turn, port, source>>
    BY <1>3 DEF HashIsReady, Connects, SocketOpens
  <2>2. /\ t'.verdict = t.verdict /\ t'.emitted = t.emitted /\ t'.buffer = t.buffer
        /\ t'.loss = t.loss
        /\ t'.stop = t.stop \/ (t.stop = "hashing" /\ t'.stop = "sent")
    <3>1. CASE HashIsReady
      BY <1>0, <3>1 DEF HashIsReady, Transports
    <3>2. CASE Connects
      BY <1>0, <3>2 DEF Connects, Connecting, Transports
    <3>3. CASE SocketOpens
      BY <1>0, <3>3 DEF SocketOpens, Transports
    <3> QED BY <1>3, <3>1, <3>2, <3>3
  <2>3. turn' = turn /\ port' = port /\ source' = source
    BY <2>1
  <2>4. t'.stop = t.stop \/ (t.stop # "no" /\ t'.stop # "no")
    BY <2>2
  <2>5. Moves
    BY <2>2, <2>3, <2>4 DEF Moves
  <2> QED BY <2>5, MovesKeepAccounts
<1>12. CASE AskWorkletToStop /\ source.state = "running" /\ t.stop = "no"
  <2>1. /\ t'.verdict = t.verdict /\ t'.emitted = t.emitted /\ t'.buffer = t.buffer
        /\ t'.loss = t.loss /\ t'.stop = t.stop /\ turn' = turn /\ port' = port
    BY <1>0, <1>12 DEF AskWorkletToStop, Transports
  <2>2. source'.state = "asked" /\ source'.clock = source.clock /\ source'.loss = source.loss
    BY <1>0, <1>12 DEF AskWorkletToStop, Sources
  <2>3. Moves
    BY <1>12, <2>1, <2>2 DEF Moves
  <2> QED BY <2>3, MovesKeepAccounts
<1>4. CASE AnswerArrives
  <2>1. CASE ~Alive(t')
    BY <2>1 DEF Accounts
  <2>2. CASE GoesOn /\ UNCHANGED turn
    <3>1. Moves
      BY <2>2 DEF GoesOn, Moves, Alive
    <3> QED BY <3>1, MovesKeepAccounts
  <2> QED BY <1>4, <2>1, <2>2, AnswerTaken DEF Fails, Sockets
<1>5. CASE Faults \/ Aborts
  <2>1. PICK verdict \in Verdicts : Ends(verdict, port)
    BY <1>5 DEF Faults, SourceFails, SocketFails, TimerFires, Aborts, Verdicts
  <2> QED BY <1>0, <2>1, FailedTransport DEF Fails, Ends, Accounts
<1>60. ASSUME NEW lost \in BOOLEAN, NEW s \in {source, Rendered(source, lost)}, Alive(t),
              turn # 0, source.state \in {"running", "asked"}
       PROVE  LET posts == IF s = source THEN port ELSE Posted(s) IN
              /\ s \in Sources /\ s.state = source.state /\ t.stop = "no"
              /\ posts \in Seq(FramePosts)
              /\ s.clock = t.emitted + t.buffer + Len(posts) + Dropped(s.loss)
  <2> DEFINE posts == IF s = source THEN port ELSE Posted(s)
             f == [type |-> "frame", time |-> s.clock, loss |-> s.loss]
  <2>1. t.stop = "no" /\ port \in Seq(FramePosts) /\ IsCounted(port)
    BY <1>60 DEF Accounts, IsRendering, IsFlushing, IsHeard
  <2>2. CASE s = source
    BY <1>0, <2>1, <2>2 DEF IsCounted
  <2>3. CASE s # source
    <3>1. /\ s \in Sources /\ s.state = source.state /\ s.clock = source.clock + 1
          /\ posts = Posted(s)
          /\ \/ s.loss = source.loss /\ posts = Append(port, f)
             \/ Dropped(s.loss) = Dropped(source.loss) + 1 /\ posts = port
      BY <1>60, <2>3, RenderedSource
    <3>2. /\ t.emitted \in Nat /\ t.buffer \in Nat /\ source.clock \in Nat
          /\ s.loss \in Losses /\ s.clock \in Nat /\ source.loss \in Losses
      BY <1>0, <3>1 DEF Transports, Sources
    <3>3. Dropped(source.loss) \in Nat /\ Dropped(s.loss) \in Nat
      BY <3>2, EvidenceType
    <3>4. f \in FramePosts
      BY <3>2 DEF FramePosts
    <3> HIDE DEF f, posts
    <3>5. Append(port, f) \in Seq(FramePosts) /\ Len(Append(port, f)) = Len(port) + 1
          /\ Len(port) \in Nat
      BY <2>1, <3>4
    <3>6. source.clock = t.emitted + t.buffer + Len(port) + Dropped(source.loss)
      BY <2>1 DEF IsCounted
    <3>7. CASE s.loss = source.loss /\ posts = Append(port, f)
      <4>1. s.clock = t.emitted + t.buffer + Len(posts) + Dropped(s.loss)
        BY SMTT(30), <3>1, <3>2, <3>3, <3>5, <3>6, <3>7
      <4> QED BY <2>1, <3>1, <3>5, <3>7, <4>1 DEF posts
    <3>8. CASE Dropped(s.loss) = Dropped(source.loss) + 1 /\ posts = port
      <4>1. s.clock = t.emitted + t.buffer + Len(posts) + Dropped(s.loss)
        BY SMTT(30), <3>1, <3>2, <3>3, <3>5, <3>6, <3>8
      <4> QED BY <2>1, <3>1, <3>8, <4>1 DEF posts
    <3> QED BY <3>1, <3>7, <3>8
  <2> QED BY <2>2, <2>3
<1>6. CASE RenderFrame
  <2>1. PICK lost \in BOOLEAN : source' = Rendered(source, lost) /\ port' = Posted(source')
    BY <1>6 DEF RenderFrame
  <2>2. UNCHANGED <<turn, t>> /\ source.state \in {"running", "asked"}
    BY <1>6 DEF RenderFrame
  <2>3. CASE turn # 0 /\ Alive(t)
    <3>1. source' # source
      BY <2>1, RenderedSource
    <3>2. /\ source'.state = source.state /\ t.stop = "no" /\ Posted(source') \in Seq(FramePosts)
          /\ source'.clock = t.emitted + t.buffer + Len(Posted(source')) + Dropped(source'.loss)
      BY <1>60, <2>1, <2>2, <2>3, <3>1
    <3> QED BY <2>1, <2>2, <3>2 DEF Accounts, IsRendering, IsCounted
  <2> QED BY <2>2, <2>3 DEF Alive, Accounts
<1>7. CASE WorkletStops
  <2>1. PICK s \in {source, Rendered(source, FALSE)} :
          /\ source' = [s EXCEPT !.state = "stopped"]
          /\ port' = Append(IF s = source THEN port ELSE Posted(s),
                            [type |-> "stopped", loss |-> s.loss])
    BY <1>7 DEF WorkletStops
  <2>2. UNCHANGED <<turn, t>> /\ source.state = "asked"
    BY <1>7 DEF WorkletStops
  <2>3. CASE turn # 0 /\ Alive(t)
    <3> DEFINE posts == IF s = source THEN port ELSE Posted(s)
    <3>1. /\ s \in Sources /\ t.stop = "no" /\ posts \in Seq(FramePosts)
          /\ s.clock = t.emitted + t.buffer + Len(posts) + Dropped(s.loss)
      BY <1>60, <2>1, <2>2, <2>3
    <3>2. source'.state = "stopped" /\ source'.clock = s.clock /\ source'.loss = s.loss
      BY <2>1, <3>1 DEF Sources
    <3>3. port' = Append(posts, [type |-> "stopped", loss |-> source'.loss])
      BY <2>1, <3>2
    <3> HIDE DEF posts
    <3> QED BY <2>2, <3>1, <3>2, <3>3 DEF Accounts, IsFlushing, IsCounted
  <2> QED BY <2>2, <2>3 DEF Alive, Accounts
<1>8. CASE WorkletStopArrives
  <2>1. CASE Alive(t) /\ turn # 0
    <3> DEFINE s == [type |-> "stopped", loss |-> source.loss]
    <3>0. port # <<>> /\ Head(port).type = "stopped"
      BY <1>8 DEF WorkletStopArrives
    <3>1. IsFlushing
      <4>1. ASSUME port \in Seq(FramePosts) PROVE FALSE
        <5>1. Head(port) \in FramePosts
          BY <3>0, <4>1
        <5> QED BY <3>0, <5>1 DEF FramePosts
      <4> QED BY <2>1, <3>0, <4>1 DEF Accounts, IsRendering, IsHeard
    <3>2. PICK posts \in Seq(FramePosts) : port = Append(posts, s) /\ IsCounted(posts)
      BY <3>1 DEF IsFlushing
    <3>3. s.type = "stopped" /\ s.loss = source.loss
      OBVIOUS
    <3> HIDE DEF s
    <3>4. posts = <<>> /\ Tail(port) = <<>> /\ Head(port) = s
      BY <3>0, <3>2, <3>3, PostsLeft
    <3>5. Len(posts) = 0
      BY <3>4
    <3>6. /\ t.emitted \in Nat /\ t.buffer \in Nat /\ Dropped(source.loss) \in Nat
      BY <1>0, EvidenceType DEF Sources, Transports
    <3>7. source.clock = (t.emitted + t.buffer) + Dropped(source.loss)
      BY <3>2, <3>5, <3>6 DEF IsCounted
    <3>8. CASE Alive(t')
      <4>1. /\ t'.stop \in {"requested", "hashing"} /\ t'.loss = source.loss /\ t'.buffer = 0
            /\ t'.emitted = t.emitted + t.buffer /\ source' = source /\ port' = <<>>
        BY <1>8, <2>1, <3>3, <3>4, <3>8, StopTaken DEF Fails
      <4> QED BY <3>1, <3>7, <4>1 DEF Accounts, IsHeard, IsFlushing
    <3> QED BY <3>8 DEF Accounts
  <2> QED BY <1>8, <2>1, StopTaken DEF Fails, Alive, Accounts
<1>9. ASSUME NEW p \in Turns, NewTransport(p) PROVE Accounts'
  <2>1. /\ source'.state = "running" /\ source'.clock = 0 /\ Dropped(source'.loss) = 0
        /\ port' = <<>> /\ t'.emitted = 0 /\ t'.buffer = 0 /\ t'.stop = "no"
    BY <1>9 DEF NewTransport, FreshSource, FreshTransport, NoLoss, Dropped
  <2>2. <<>> \in Seq(FramePosts) /\ Len(<<>>) = 0
    OBVIOUS
  <2>3. port' \in Seq(FramePosts) /\ Len(port') = 0
    BY <2>1, <2>2
  <2>4. source'.clock = t'.emitted + t'.buffer + Len(port') + Dropped(source'.loss)
    BY <2>1, <2>3
  <2> QED BY <2>1, <2>3, <2>4 DEF Accounts, IsRendering, IsCounted
<1>10. ASSUME NEW p \in Turns, AnalysisEnds(p) PROVE UNCHANGED <<turn, source, port, t>>
  BY <1>10 DEF AnalysisEnds
<1>11. CASE UNCHANGED captureVars \/ ServerStarts \/ ServerSpools \/ ServerStops
            \/ ServerRefuses \/ ServerSeesClose \/ SessionMoves
  BY <1>1, <1>11 DEF captureVars, ServerStarts, ServerSpools, ServerStops, ServerRefuses,
     ServerSeesClose, SessionMoves
<1> QED
  BY <1>1, <1>2, <1>3, <1>4, <1>5, <1>6, <1>7, <1>8, <1>9, <1>10, <1>11, <1>12
  DEF CaptureStep, Page, Remote

LEMMA SocketsStep ==
  ASSUME StreamTypeOK, Sockets, CaptureStep PROVE Sockets'
<1> USE DEF Sockets
<1>1. CASE UNCHANGED <<t, link>>
  BY <1>1 DEF Alive
<1>2. CASE (Fails("failed") \/ Fails("final")) /\ UNCHANGED link
  BY <1>2 DEF Fails
<1>3. CASE UNCHANGED link /\ t'.socket = t.socket /\ (Alive(t') <=> Alive(t))
  BY <1>3
<1>4. CASE FrameArrives
  BY <1>1, <1>2, <1>3, <1>4, FrameTaken
<1>5. CASE AnswerArrives
  BY <1>2, <1>3, <1>5, AnswerTaken DEF GoesOn
<1>6. CASE WorkletStopArrives
  BY <1>1, <1>2, <1>3, <1>6, StopTaken
<1>7. CASE HashIsReady \/ AskWorkletToStop
  <2>1. t'.socket = t.socket /\ t'.verdict = t.verdict /\ link' = link
    BY <1>7 DEF HashIsReady, AskWorkletToStop, serverVars, StreamTypeOK, Transports
  <2> QED BY <1>3, <2>1 DEF Alive
<1>8. CASE t.socket = "none" /\ Connects
  <2>1. link' = link /\ (t' = t \/ (t'.socket = "connecting" /\ t'.verdict = t.verdict /\ Alive(t)))
    BY <1>8 DEF Connects, Connecting, serverVars, StreamTypeOK, Transports
  <2> QED BY <1>8, <2>1 DEF Alive
<1>9. CASE SocketOpens
  BY <1>9 DEF SocketOpens, StreamTypeOK, Transports, Alive
<1>10. CASE Faults \/ Aborts
  <2>1. PICK verdict \in Verdicts : Ends(verdict, port)
    BY <1>10 DEF Faults, SourceFails, SocketFails, TimerFires, Aborts, Verdicts
  <2>2. t \in Transports /\ link' = link
    BY <1>10 DEF StreamTypeOK, Faults, SourceFails, SocketFails, TimerFires, Aborts, serverVars
  <2> QED BY <1>1, <2>1, <2>2, FailedTransport DEF Fails, Ends
<1>11. CASE UNCHANGED captureVars \/ RenderFrame \/ WorkletStops \/ ServerStarts
            \/ ServerSpools \/ ServerStops \/ SessionMoves
  BY <1>1, <1>11 DEF captureVars, serverVars, RenderFrame, WorkletStops, ServerStarts,
     ServerSpools, ServerStops, SessionMoves
<1>12. CASE ServerRefuses \/ ServerSeesClose
  BY <1>12 DEF ServerRefuses, ServerSeesClose, Disconnects, Alive
<1>13. ASSUME NEW p \in Turns, AnalysisEnds(p) PROVE Sockets'
  BY <1>13 DEF AnalysisEnds, Alive
<1>14. ASSUME NEW p \in Turns, NewTransport(p) PROVE Sockets'
  BY <1>14 DEF NewTransport, FreshTransport, Alive
<1> QED
  BY <1>4, <1>5, <1>6, <1>7, <1>8, <1>9, <1>10, <1>11, <1>12, <1>13, <1>14
  DEF CaptureStep, Page, Remote

\* What the server reads is of the type it reads.
LEMMA WhatIsRead ==
  ASSUME StreamTypeOK
  PROVE  /\ Reads("start") => Head(wire) \in StartMessages /\ wire # <<>> /\ wire' = Tail(wire)
         /\ Reads("chunk") => Head(wire) \in ChunkMessages /\ wire # <<>> /\ wire' = Tail(wire)
         /\ Reads("stop")  => Head(wire) \in StopMessages /\ wire # <<>> /\ wire' = Tail(wire)
<1>1. wire # <<>> => Head(wire) \in Messages
  BY DEF StreamTypeOK
<1> QED BY <1>1 DEF Reads, Messages, StartMessages, ChunkMessages, StopMessages

IsNewTransport == \E p \in Turns : NewTransport(p)

\* A transport whose stop is sent changes nothing of what the stop says.
Stays ==
  /\ Alive(t)
  /\ t.stop = "sent" =>
       /\ t'.stop = "sent" /\ t'.lastTime = t.lastTime /\ t'.next = t.next
       /\ t'.emitted = t.emitted /\ t'.loss = t.loss

LEMMA SentStays ==
  ASSUME StreamTypeOK, NoTransport, Accounts, Sockets, CaptureStep, ~IsNewTransport, Alive(t')
  PROVE  Stays
<1>0. t \in Transports
  BY DEF StreamTypeOK
<1>1. CASE t' = t
  BY <1>1 DEF Stays, Alive
<1>2. CASE FrameArrives
  BY <1>1, <1>2, FrameTaken DEF Stays, Fails
<1>3. CASE HashIsReady
  BY <1>0, <1>3 DEF HashIsReady, Stays, Alive, Transports
<1>4. CASE AnswerArrives
  BY <1>4, AnswerTaken DEF Sockets, Stays, Fails, GoesOn
<1>5. CASE Faults \/ Aborts
  <2>1. PICK verdict \in Verdicts : Ends(verdict, port)
    BY <1>5 DEF Faults, SourceFails, SocketFails, TimerFires, Aborts, Verdicts
  <2> QED BY <1>0, <1>1, <2>1, FailedTransport DEF Fails, Ends
<1>6. CASE SocketOpens
  BY <1>0, <1>6 DEF SocketOpens, Stays, Alive, Transports
<1>7. CASE Connects
  BY <1>0, <1>1, <1>7 DEF Connects, Connecting, Stays, Alive, Transports
<1>8. CASE Alive(t) /\ t.stop = "no" /\ AskWorkletToStop
  BY <1>8 DEF Stays
<1>9. CASE WorkletStopArrives
  <2>1. CASE Alive(t) /\ t.stop # "no"
    <3>1. port = <<>>
      BY <2>1 DEF NoTransport, Accounts, IsRendering, IsFlushing, IsHeard
    <3> QED BY <1>9, <3>1, StopTaken
  <2>2. CASE Alive(t) /\ t.stop = "no"
    BY <2>2 DEF Stays
  <2>3. CASE ~Alive(t)
    BY <1>1, <1>9, <2>3, StopTaken DEF Fails
  <2> QED BY <2>1, <2>2, <2>3
<1>10. CASE UNCHANGED captureVars \/ RenderFrame \/ WorkletStops \/ ServerStarts
            \/ ServerSpools \/ ServerStops \/ ServerRefuses \/ ServerSeesClose \/ SessionMoves
  BY <1>1, <1>10 DEF captureVars, RenderFrame, WorkletStops, ServerStarts,
     ServerSpools, ServerStops, ServerRefuses, ServerSeesClose, SessionMoves
<1>11. ASSUME NEW p \in Turns, AnalysisEnds(p) PROVE Stays
  BY <1>1, <1>11 DEF AnalysisEnds
<1> QED
  BY <1>2, <1>3, <1>4, <1>5, <1>6, <1>7, <1>8, <1>9, <1>10, <1>11
  DEF CaptureStep, Page, Remote, IsNewTransport

LEMMA AppendEntries ==
  ASSUME NEW S, NEW s \in Seq(S), NEW x \in S, NEW i \in 1..Len(Append(s, x))
  PROVE  (i \in 1..Len(s) /\ Append(s, x)[i] = s[i]) \/ Append(s, x)[i] = x
<1>1. Len(Append(s, x)) = Len(s) + 1 /\ Len(s) \in Nat
  OBVIOUS
<1>2. CASE i <= Len(s)
  BY <1>1, <1>2
<1>3. CASE i = Len(s) + 1
  BY <1>1, <1>3
<1> QED BY <1>1, <1>2, <1>3

\* A stop on the wire was there before, or has just been sent.
LEMMA StopsOnTheWire ==
  ASSUME StreamTypeOK, Sockets, CaptureStep, ~IsNewTransport
  PROVE  \A i \in 1..Len(wire') : wire'[i].type = "stop" =>
           \/ \E j \in 1..Len(wire) : wire'[i] = wire[j]
           \/ HashIsReady /\ wire'[i] = StopMessage(t)
<1> USE DEF StreamTypeOK
<1> DEFINE Old == \A i \in 1..Len(wire') : wire'[i].type = "stop" =>
                    \E j \in 1..Len(wire) : wire'[i] = wire[j]
<1>1. wire' = wire => Old
  OBVIOUS
<1>2. wire' = <<>> => Old
  OBVIOUS
<1>3. wire # <<>> /\ wire' = Tail(wire) => Old
  <2> SUFFICES ASSUME wire # <<>>, wire' = Tail(wire), NEW i \in 1..Len(wire')
               PROVE  \E j \in 1..Len(wire) : wire'[i] = wire[j]
    OBVIOUS
  <2>1. Len(wire') = Len(wire) - 1 /\ Len(wire) \in Nat /\ wire'[i] = wire[i + 1]
    OBVIOUS
  <2>2. i + 1 \in 1..Len(wire)
    BY <2>1
  <2> QED BY <2>1, <2>2
<1>4. SendsChunks => Old
  BY OldStops
<1> HIDE DEF Old
<1>5. CASE FrameArrives
  BY <1>1, <1>4, <1>5, FrameTaken DEF Old
<1>6. CASE HashIsReady
  <2> DEFINE m == StopMessage(t)
  <2>1. wire \in Seq(Messages) /\ m \in Messages /\ wire' = Append(wire, m)
    BY <1>6, MessageTypes DEF HashIsReady
  <2> HIDE DEF m
  <2>2. ASSUME NEW i \in 1..Len(wire')
        PROVE  (i \in 1..Len(wire) /\ wire'[i] = wire[i]) \/ wire'[i] = m
    BY <2>1, AppendEntries
  <2> QED BY <1>6, <2>2 DEF m
<1>7. CASE AnswerArrives
  BY <1>1, <1>4, <1>7, AnswerTaken DEF Sockets, GoesOn, Old
<1>8. CASE WorkletStopArrives
  BY <1>1, <1>4, <1>8, StopTaken DEF Old
<1>9. CASE SocketOpens
  <2>1. /\ wire' = Append(wire, StartMessage) /\ StartMessage.type = "start"
        /\ StartMessage \in Messages
    BY <1>9, MessageTypes DEF SocketOpens, StartMessage
  <2>2. \A i \in 1..Len(wire') :
          (i \in 1..Len(wire) /\ wire'[i] = wire[i]) \/ wire'[i] = StartMessage
    BY <2>1, AppendEntries
  <2> QED BY <2>1, <2>2
<1>10. CASE ServerStarts \/ ServerSpools \/ ServerStops
  <2>1. wire # <<>> /\ wire' = Tail(wire)
    BY <1>10 DEF ServerStarts, ServerSpools, ServerStops, Reads
  <2> QED BY <1>3, <2>1 DEF Old
<1>11. CASE UNCHANGED wire
  BY <1>1, <1>11 DEF Old
<1>12. CASE ServerRefuses \/ ServerSeesClose
  <2>1. wire' = <<>>
    BY <1>12 DEF ServerRefuses, ServerSeesClose, Disconnects
  <2> QED BY <1>2, <2>1 DEF Old
<1>13. CASE UNCHANGED captureVars \/ Faults \/ Aborts \/ Connects \/ AskWorkletToStop
            \/ RenderFrame \/ WorkletStops \/ SessionMoves
  BY <1>11, <1>13 DEF captureVars, Faults, SourceFails, SocketFails, TimerFires, Aborts, Connects,
     AskWorkletToStop, RenderFrame, WorkletStops, SessionMoves
<1>14. ASSUME NEW p \in Turns, AnalysisEnds(p) PROVE UNCHANGED wire
  BY <1>14 DEF AnalysisEnds
<1> QED
  BY <1>5, <1>6, <1>7, <1>8, <1>9, <1>10, <1>11, <1>12, <1>13, <1>14
  DEF CaptureStep, Page, Remote, IsNewTransport

LEMMA StopIsSentStep ==
  ASSUME StreamTypeOK, NoTransport, Accounts, Sockets, StopIsSent, CaptureStep
  PROVE  StopIsSent'
<1>1. CASE IsNewTransport
  <2>1. wire' = <<>>
    BY <1>1 DEF IsNewTransport, NewTransport
  <2> QED BY <2>1 DEF StopIsSent
<1>2. CASE ~IsNewTransport
  <2> SUFFICES ASSUME Alive(t'), NEW i \in 1..Len(wire'), wire'[i].type = "stop"
               PROVE  t'.stop = "sent" /\ wire'[i] = StopMessage(t')
    BY DEF StopIsSent
  <2>1. Stays
    BY <1>2, SentStays
  <2>2. CASE \E j \in 1..Len(wire) : wire'[i] = wire[j]
    <3>1. t.stop = "sent" /\ wire'[i] = StopMessage(t)
      BY <2>1, <2>2 DEF Stays, StopIsSent
    <3> QED BY <2>1, <3>1 DEF Stays, StopMessage
  <2>3. CASE HashIsReady /\ wire'[i] = StopMessage(t)
    <3>1. /\ t'.stop = "sent" /\ t'.lastTime = t.lastTime /\ t'.next = t.next
          /\ t'.emitted = t.emitted /\ t'.loss = t.loss
      BY <2>3 DEF HashIsReady, StreamTypeOK, Transports
    <3> QED BY <2>3, <3>1 DEF StopMessage
  <2> QED BY <1>2, <2>2, <2>3, StopsOnTheWire
<1> QED BY <1>1, <1>2

\* What changes the server's stream.
LEMMA StreamChanges ==
  ASSUME StreamTypeOK, Sockets, CaptureStep
  PROVE  \/ UNCHANGED <<stream, spooled>>
         \/ ServerStarts \/ ServerSpools \/ ServerStops
         \/ /\ stream' = Server!Fresh /\ spooled' = <<>>
            /\ IsNewTransport \/ ServerRefuses \/ (ServerSeesClose /\ ~SessionIs("processing"))
<1>1. CASE Page
  <2>1. CASE FrameArrives
    BY <2>1, FrameTaken
  <2>2. CASE AnswerArrives
    BY <2>2, AnswerTaken DEF Sockets
  <2>3. CASE HashIsReady
    BY <2>3 DEF HashIsReady, serverVars
  <2> QED BY <1>1, <2>1, <2>2, <2>3 DEF Page
<1>2. CASE WorkletStopArrives
  BY <1>2, StopTaken
<1>3. CASE UNCHANGED captureVars \/ Faults \/ Aborts \/ Connects \/ AskWorkletToStop
           \/ RenderFrame \/ WorkletStops \/ SessionMoves \/ SocketOpens
  BY <1>3 DEF captureVars, serverVars, Faults, SourceFails, SocketFails, TimerFires, Aborts,
     Connects, AskWorkletToStop, RenderFrame, WorkletStops, SessionMoves, SocketOpens
<1>4. CASE ServerRefuses \/ ServerSeesClose
  BY <1>4 DEF ServerRefuses, ServerSeesClose, Disconnects
<1>5. ASSUME NEW p \in Turns, NewTransport(p)
      PROVE  stream' = Server!Fresh /\ spooled' = <<>> /\ IsNewTransport
  BY <1>5 DEF NewTransport, IsNewTransport
<1>6. ASSUME NEW p \in Turns, AnalysisEnds(p) PROVE UNCHANGED <<stream, spooled>>
  BY <1>6 DEF AnalysisEnds
<1> QED BY <1>1, <1>2, <1>3, <1>4, <1>5, <1>6 DEF CaptureStep, Remote

LEMMA SpoolIsWholeStep ==
  ASSUME StreamTypeOK, Sockets, SpoolIsWhole, CaptureStep PROVE SpoolIsWhole'
<1>0. stream \in Streams
  BY DEF StreamTypeOK
<1>1. CASE UNCHANGED <<stream, spooled>>
  BY <1>1 DEF SpoolIsWhole
<1>2. CASE stream' = Server!Fresh /\ spooled' = <<>>
  <2>1. <<>> = [i \in 1..0 |-> i]
    OBVIOUS
  <2> QED BY <1>2, <2>1, FreshStream DEF SpoolIsWhole
<1>3. CASE ServerStarts
  <2>1. /\ stream.phase = "idle" /\ stream'.phase = "open" /\ stream'.missingCount = 0
        /\ stream'.lastSequence = 0 /\ spooled' = spooled
    BY <1>0, <1>3, WhatIsRead, StartedStream DEF ServerStarts
  <2>2. spooled = [i \in 1..0 |-> i]
    BY <2>1 DEF SpoolIsWhole
  <2> QED BY <2>1, <2>2 DEF SpoolIsWhole
<1>4. CASE ServerSpools
  <2> DEFINE m == Head(wire)
  <2>1. m \in ChunkMessages /\ Server!Chunk(m)
    BY <1>4, WhatIsRead DEF ServerSpools
  <2>2. /\ stream'.phase = "open" /\ spooled' = Append(spooled, m.sequence)
        /\ stream'.missingCount = stream.missingCount + (m.sequence - stream.lastSequence - 1)
        /\ stream'.lastSequence = m.sequence
        /\ stream'.complete => stream.complete /\ m.sequence = stream.lastSequence + 1
    BY <1>0, <2>1, SpooledStream
  <2>3. stream.lastSequence \in Nat
    BY <1>0 DEF Streams
  <2>4. ASSUME stream'.complete
        PROVE  stream'.missingCount = 0 /\ spooled' = [i \in 1..stream'.lastSequence |-> i]
    <3> DEFINE n == stream.lastSequence
    <3>1. stream.missingCount = 0 /\ spooled = [i \in 1..n |-> i] /\ m.sequence = n + 1
      BY <2>2, <2>4 DEF SpoolIsWhole
    <3>2. Append(spooled, n + 1) = [i \in 1..(n + 1) |-> i]
      <4> HIDE DEF n
      <4>1. spooled \in Seq(Nat) /\ Len(spooled) = n
        BY <2>3, <3>1 DEF n
      <4> QED BY <2>3, <3>1, <4>1 DEF n
    <3>3. stream'.missingCount = 0
      <4>1. stream'.missingCount = 0 + ((n + 1) - n - 1)
        BY <2>2, <3>1
      <4> HIDE DEF n
      <4>2. n \in Nat
        BY <2>3 DEF n
      <4> QED BY <4>1, <4>2
    <3> QED BY <2>2, <3>1, <3>2, <3>3
  <2> QED BY <2>2, <2>4 DEF SpoolIsWhole
<1>5. CASE ServerStops
  BY <1>0, <1>5, WhatIsRead, StoppedStream DEF ServerStops, SpoolIsWhole
<1> QED BY <1>1, <1>2, <1>3, <1>4, <1>5, StreamChanges

LEMMA NothingIsLost ==
  ASSUME NEW loss \in Losses, Evidence(loss) = Server!NoEvidence PROVE Dropped(loss) = 0
BY DEF Evidence, Server!NoEvidence

LEMMA CompleteIsEmittedStep ==
  ASSUME StreamTypeOK, NoTransport, Accounts, Sockets, StopIsSent, SpoolIsWhole,
         CompleteIsEmitted, CaptureStep
  PROVE  CompleteIsEmitted'
<1>0. stream \in Streams /\ t \in Transports
  BY DEF StreamTypeOK
<1>1. CASE UNCHANGED <<stream, spooled>> /\ ~IsNewTransport
  BY <1>1, SentStays DEF CompleteIsEmitted, IsComplete, Stays
<1>2. CASE stream' = Server!Fresh
  BY <1>2, FreshStream DEF CompleteIsEmitted, IsComplete
<1>3. CASE ServerStarts
  BY <1>0, <1>3, WhatIsRead, StartedStream DEF ServerStarts, CompleteIsEmitted, IsComplete
<1>4. CASE ServerSpools
  BY <1>0, <1>4, WhatIsRead, SpooledStream DEF ServerSpools, CompleteIsEmitted, IsComplete
<1>5. CASE ServerStops
  <2> DEFINE m == Head(wire)
  <2>1. m \in StopMessages /\ Server!Stop(m) /\ wire # <<>> /\ UNCHANGED t
    BY <1>5, WhatIsRead DEF ServerStops
  <2>2. m = wire[1] /\ 1 \in 1..Len(wire) /\ m.type = "stop"
    BY SMTT(30), <2>1 DEF StreamTypeOK, StopMessages
  <2>3. /\ stream'.frameCount = stream.frameCount
        /\ stream'.complete => stream.complete /\ m.loss = Server!NoEvidence
        /\ stream.missingCount = 0 => m.frames = stream.frameCount
    BY <1>0, <2>1, StoppedStream
  <2> SUFFICES ASSUME stream'.complete, Alive(t)
               PROVE  t.stop = "sent" /\ stream'.frameCount = t.emitted /\ Dropped(t.loss) = 0
    BY <2>1 DEF CompleteIsEmitted, IsComplete, Alive
  <2>4. t.stop = "sent" /\ m = StopMessage(t)
    BY <2>2 DEF StopIsSent
  <2>5. m.frames = t.emitted /\ m.loss = Evidence(t.loss)
    BY <2>4 DEF StopMessage
  <2>6. stream.missingCount = 0
    BY <2>3 DEF SpoolIsWhole
  <2>7. Dropped(t.loss) = 0
    BY <1>0, <2>3, <2>5, NothingIsLost DEF Transports
  <2> QED BY <2>3, <2>4, <2>5, <2>6, <2>7
<1>6. CASE IsNewTransport
  BY <1>2, <1>6 DEF IsNewTransport, NewTransport
<1> QED BY <1>1, <1>2, <1>3, <1>4, <1>5, <1>6, StreamChanges

Earned ==
  link = "closed" /\ IsComplete /\ session[turn] \in {"result", "reset"} /\ turn # 0

\* What a session ends with is what it ends with, but for a reset.
LEMMA SessionsEnd ==
  ASSUME StreamTypeOK, Sockets, CaptureStep, NEW p \in Turns,
         session[p] \in {"result", "error", "reset"}
  PROVE  session'[p] = session[p] \/ session'[p] = "reset"
<1>0. session \in [Turns -> SessionStatuses]
  BY DEF StreamTypeOK
<1>1. CASE Page \/ Faults \/ WorkletStopArrives \/ UNCHANGED captureVars \/ Aborts \/ Connects
           \/ AskWorkletToStop \/ SocketOpens \/ RenderFrame \/ WorkletStops
  <2>1. session' = session
    <3>1. CASE Page
      BY <3>1, FrameTaken, AnswerTaken DEF Page, HashIsReady, serverVars, Sockets
    <3>2. CASE WorkletStopArrives
      BY <3>2, StopTaken
    <3> QED BY <1>1, <3>1, <3>2 DEF Faults, SourceFails, SocketFails, TimerFires, captureVars,
            serverVars, Aborts, Connects, AskWorkletToStop, SocketOpens, RenderFrame, WorkletStops
  <2> QED BY <2>1
<1>2. CASE ServerStarts \/ ServerSpools \/ ServerStops \/ ServerRefuses \/ ServerSeesClose
  BY <1>0, <1>2 DEF ServerStarts, ServerSpools, ServerStops, ServerRefuses, ServerSeesClose,
     Disconnects, SessionIs, SessionBecomes
<1>3. CASE SessionMoves
  BY <1>0, <1>3 DEF SessionMoves
<1>4. ASSUME NEW q \in Turns, AnalysisEnds(q) PROVE session'[p] = session[p]
  BY <1>0, <1>4 DEF AnalysisEnds
<1>5. ASSUME NEW q \in Turns, NewTransport(q) PROVE session' = session
  BY <1>5 DEF NewTransport
<1> QED BY <1>1, <1>2, <1>3, <1>4, <1>5 DEF CaptureStep, Remote

LEMMA EarnedStays ==
  ASSUME StreamTypeOK, Sockets, CaptureStep, ~IsNewTransport, Earned PROVE Earned'
<1> USE DEF Earned
<1>1. turn \in Turns
  BY DEF StreamTypeOK
<1>2. session'[turn] \in {"result", "reset"}
  BY <1>1, SessionsEnd
<1>3. UNCHANGED <<turn, link, stream, spooled>>
  <2>1. CASE Page
    BY <2>1, FrameTaken, AnswerTaken DEF Page, HashIsReady, serverVars, Sockets
  <2>2. CASE WorkletStopArrives
    BY <2>2, StopTaken
  <2>3. CASE ServerStarts \/ ServerSpools \/ ServerStops \/ ServerRefuses \/ ServerSeesClose
    BY <2>3 DEF ServerStarts, ServerSpools, ServerStops, ServerRefuses, ServerSeesClose, Reads
  <2>4. ~SocketOpens
    BY DEF Sockets, SocketOpens
  <2>5. CASE Faults \/ UNCHANGED captureVars \/ Aborts \/ Connects \/ AskWorkletToStop
             \/ RenderFrame \/ WorkletStops \/ SessionMoves
    BY <2>5 DEF Faults, SourceFails, SocketFails, TimerFires, captureVars, serverVars, Aborts,
       Connects, AskWorkletToStop, RenderFrame, WorkletStops, SessionMoves
  <2>6. ASSUME NEW q \in Turns, AnalysisEnds(q) PROVE UNCHANGED <<turn, link, stream, spooled>>
    BY <2>6 DEF AnalysisEnds
  <2> QED BY <2>1, <2>2, <2>3, <2>4, <2>5, <2>6 DEF CaptureStep, Remote, IsNewTransport
<1> QED BY <1>2, <1>3 DEF IsComplete

LEMMA AnalysedIsComplete ==
  ASSUME StreamTypeOK, Sockets, CaptureStep, turn # 0 /\ session[turn] = "processing" => IsComplete
  PROVE  turn' # 0 /\ session'[turn'] = "processing" => IsComplete'
<1>0. session \in [Turns -> SessionStatuses] /\ turn \in Turns \union {0} /\ stream \in Streams
  BY DEF StreamTypeOK
<1>1. ASSUME UNCHANGED <<turn, stream>>,
             turn # 0 /\ session'[turn] = "processing" => session[turn] = "processing"
      PROVE  turn' # 0 /\ session'[turn'] = "processing" => IsComplete'
  BY <1>1 DEF IsComplete
<1>2. CASE Page
  BY <1>1, <1>2, FrameTaken, AnswerTaken DEF Page, HashIsReady, serverVars, Sockets
<1>3. CASE WorkletStopArrives
  BY <1>1, <1>3, StopTaken
<1>4. CASE UNCHANGED captureVars \/ Faults \/ Aborts \/ Connects \/ AskWorkletToStop
           \/ RenderFrame \/ WorkletStops \/ SocketOpens
  BY <1>1, <1>4 DEF captureVars, serverVars, Faults, SourceFails, SocketFails, TimerFires, Aborts,
     Connects, AskWorkletToStop, RenderFrame, WorkletStops, SocketOpens
<1>5. CASE SessionMoves
  BY <1>0, <1>1, <1>5 DEF SessionMoves
<1>6. CASE ServerStarts \/ ServerSpools
  BY <1>0, <1>6 DEF ServerStarts, ServerSpools, SessionIs, SessionBecomes
<1>7. CASE ServerStops
  <2>1. stream'.phase = "stopped"
    BY <1>0, <1>7, WhatIsRead, StoppedStream DEF ServerStops
  <2> QED BY <1>0, <1>7, <2>1 DEF ServerStops, SessionIs, SessionBecomes, IsComplete
<1>8. CASE ServerRefuses \/ ServerSeesClose
  BY <1>0, <1>1, <1>8 DEF ServerRefuses, ServerSeesClose, Disconnects, SessionIs, SessionBecomes
<1>9. ASSUME NEW q \in Turns, AnalysisEnds(q)
      PROVE  turn' # 0 /\ session'[turn'] = "processing" => IsComplete'
  BY <1>0, <1>1, <1>9 DEF AnalysisEnds
<1>10. ASSUME NEW q \in Turns, session[q] = "none", NewTransport(q)
       PROVE  turn' # 0 /\ session'[turn'] = "processing" => IsComplete'
  BY <1>10 DEF NewTransport
<1> QED BY <1>2, <1>3, <1>4, <1>5, <1>6, <1>7, <1>8, <1>9, <1>10 DEF CaptureStep, Remote

\* A final among the answers was there before, or is that of the analysis that ends.
LEMMA FinalAnswers ==
  ASSUME StreamTypeOK, Sockets, CaptureStep, NEW i \in 1..Len(answers'),
         answers'[i].type = "final"
  PROVE  \/ \E j \in 1..Len(answers) : answers[j].type = "final"
         \/ /\ AnalysisEnds(turn) /\ session'[turn] = "result" /\ session[turn] = "processing"
            /\ link' = "closed" /\ turn # 0
<1> DEFINE Old == \E j \in 1..Len(answers) : answers[j].type = "final"
<1>0. answers \in Seq(Replies) /\ stream.lastSequence \in Nat
      /\ session \in [Turns -> SessionStatuses]
  BY DEF StreamTypeOK, Streams
<1>1. CASE UNCHANGED answers
  BY <1>1
<1>2. ASSUME answers # <<>>, answers' = Tail(answers) PROVE Old
  <2>1. Len(answers') = Len(answers) - 1 /\ Len(answers) \in Nat /\ answers'[i] = answers[i + 1]
    BY <1>0, <1>2
  <2>2. i + 1 \in 1..Len(answers)
    BY <2>1
  <2> QED BY <2>1, <2>2
<1>3. ASSUME NEW r \in Replies, answers' = Append(answers, r), r.type # "final" PROVE Old
  <2>1. (i \in 1..Len(answers) /\ answers'[i] = answers[i]) \/ answers'[i] = r
    BY <1>0, <1>3, AppendEntries
  <2> QED BY <1>3, <2>1
<1> HIDE DEF Old
<1>4. CASE Page
  BY <1>1, <1>2, <1>4, FrameTaken, AnswerTaken DEF Page, HashIsReady, Sockets, Old
<1>5. CASE WorkletStopArrives
  BY <1>1, <1>5, StopTaken
<1>6. CASE UNCHANGED captureVars \/ Faults \/ Aborts \/ Connects \/ AskWorkletToStop
           \/ RenderFrame \/ WorkletStops \/ SessionMoves \/ SocketOpens \/ ServerStops
  BY <1>1, <1>6 DEF captureVars, Faults, SourceFails, SocketFails, TimerFires, Aborts,
     Connects, AskWorkletToStop, RenderFrame, WorkletStops, SessionMoves, SocketOpens, ServerStops
<1>7. CASE ServerStarts \/ ServerRefuses
  <2>1. \E r \in Replies : answers' = Append(answers, r) /\ r.type # "final"
    <3>1. [type |-> "started"] \in Replies /\ [type |-> "error"] \in Replies
      BY DEF Replies
    <3>2. \E r \in {[type |-> "started"], [type |-> "error"]} : answers' = Append(answers, r)
      BY <1>7 DEF ServerStarts, ServerRefuses, Answers
    <3> QED BY <3>1, <3>2
  <2> QED BY <1>3, <2>1 DEF Old
<1>8. CASE ServerSpools
  <2>1. answers' = Append(answers, [type |-> "spooled", sequence |-> Head(wire).sequence])
    BY <1>8 DEF ServerSpools, Answers
  <2>2. [type |-> "spooled", sequence |-> Head(wire).sequence] \in Replies
    BY <1>8, WhatIsRead DEF ServerSpools, Replies, ChunkMessages
  <2> QED BY <1>3, <2>1, <2>2 DEF Old
<1>9. CASE ServerSeesClose
  BY <1>9 DEF ServerSeesClose
<1>10. ASSUME NEW q \in Turns, AnalysisEnds(q)
       PROVE  Old \/ (/\ AnalysisEnds(turn) /\ session'[turn] = "result"
                      /\ session[turn] = "processing" /\ link' = "closed" /\ turn # 0)
  <2>1. CASE answers' = Append(answers, [type |-> "error"])
    <3>1. [type |-> "error"] \in Replies
      BY DEF Replies
    <3> QED BY <1>3, <2>1, <3>1
  <2>2. CASE UNCHANGED answers
    BY <2>2 DEF Old
  <2>3. CASE link = "open" /\ q = turn /\ session' = [session EXCEPT ![q] = "result"]
    <3>1. session'[turn] = "result" /\ session[turn] = "processing"
      BY <1>0, <1>10, <2>3 DEF AnalysisEnds
    <3>2. link' = "closed"
      BY <1>10, <2>3 DEF AnalysisEnds
    <3> QED BY <1>10, <2>3, <3>1, <3>2
  <2> QED BY <1>10, <2>1, <2>2, <2>3 DEF AnalysisEnds, Answers
<1>11. ASSUME NEW q \in Turns, NewTransport(q) PROVE FALSE
  <2>1. answers' = <<>>
    BY <1>11 DEF NewTransport
  <2> QED BY <2>1
<1> QED
  BY <1>4, <1>5, <1>6, <1>7, <1>8, <1>9, <1>10, <1>11 DEF CaptureStep, Remote, Old

\* A transport that has its final had it before, or is told so.
LEMMA FinalVerdicts ==
  ASSUME StreamTypeOK, Sockets, CaptureStep, ~IsNewTransport, t'.verdict = "final"
  PROVE  \/ t.verdict = "final" /\ (source.state = "stopped" => source' = source)
         \/ /\ answers # <<>> /\ Head(answers).type = "final" /\ t.stop = "sent" /\ Alive(t)
            /\ UNCHANGED <<source, turn, link, session, stream, spooled>>
            /\ answers' = Tail(answers)
<1>0. t \in Transports
  BY DEF StreamTypeOK
<1>1. CASE FrameArrives
  BY <1>1, FrameTaken DEF Fails, Alive
<1>2. CASE AnswerArrives
  BY <1>2, AnswerTaken DEF Sockets, Fails, GoesOn, Alive
<1>3. CASE WorkletStopArrives
  BY <1>3, StopTaken DEF Fails, Alive
<1>4. CASE \/ HashIsReady \/ Connects \/ SocketOpens
           \/ AskWorkletToStop /\ source.state = "running"
  BY <1>0, <1>4 DEF HashIsReady, Connects, Connecting, SocketOpens, AskWorkletToStop, Transports
<1>5. CASE Faults \/ Aborts
  <2>1. PICK verdict \in {"failed", "aborted"} : Ends(verdict, port)
    BY <1>5 DEF Faults, SourceFails, SocketFails, TimerFires, Aborts
  <2> QED BY <1>0, <2>1, FailedTransport DEF Fails, Ends, Verdicts
<1>6. CASE UNCHANGED t /\ (UNCHANGED source \/ RenderFrame \/ WorkletStops)
  BY <1>6 DEF RenderFrame, WorkletStops
<1>7. CASE UNCHANGED captureVars \/ RenderFrame \/ WorkletStops \/ ServerStarts
           \/ ServerSpools \/ ServerStops \/ ServerRefuses \/ ServerSeesClose \/ SessionMoves
  BY <1>6, <1>7 DEF captureVars, RenderFrame, WorkletStops, ServerStarts,
     ServerSpools, ServerStops, ServerRefuses, ServerSeesClose, SessionMoves
<1>8. ASSUME NEW p \in Turns, AnalysisEnds(p) PROVE UNCHANGED <<t, source>>
  BY <1>8 DEF AnalysisEnds
<1> QED
  BY <1>1, <1>2, <1>3, <1>4, <1>5, <1>6, <1>7, <1>8 DEF CaptureStep, Page, Remote, IsNewTransport

LEMMA FinalsAreEarnedStep ==
  ASSUME StreamInv, CaptureStep PROVE FinalsAreEarned'
<1> USE DEF StreamInv
<1>1. turn' # 0 /\ session'[turn'] = "processing" => IsComplete'
  BY AnalysedIsComplete DEF FinalsAreEarned
<1>2. CASE IsNewTransport
  <2>1. answers' = <<>> /\ t'.verdict = "none"
    BY <1>2 DEF IsNewTransport, NewTransport, FreshTransport
  <2> QED BY <1>1, <2>1 DEF FinalsAreEarned
<1>3. CASE ~IsNewTransport
  <2>1. ASSUME NEW i \in 1..Len(answers'), answers'[i].type = "final" PROVE Earned'
    <3>1. CASE \E j \in 1..Len(answers) : answers[j].type = "final"
      <4>1. Earned
        BY <3>1 DEF FinalsAreEarned, Earned
      <4> QED BY <1>3, <4>1, EarnedStays
    <3>2. CASE /\ AnalysisEnds(turn) /\ session'[turn] = "result" /\ session[turn] = "processing"
               /\ link' = "closed" /\ turn # 0
      <4>1. UNCHANGED <<turn, stream>> /\ IsComplete
        BY <3>2 DEF AnalysisEnds, FinalsAreEarned
      <4> QED BY <3>2, <4>1 DEF Earned, IsComplete
    <3> QED BY <2>1, <3>1, <3>2, FinalAnswers
  <2>2. ASSUME t'.verdict = "final"
        PROVE  Earned' /\ source'.state = "stopped" /\ stream'.frameCount = source'.clock
    <3>1. CASE t.verdict = "final" /\ (source.state = "stopped" => source' = source)
      <4>1. Earned /\ source.state = "stopped" /\ stream.frameCount = source.clock
        BY <3>1 DEF FinalsAreEarned, Earned
      <4>2. Earned'
        BY <1>3, <4>1, EarnedStays
      <4>3. stream' = stream
        <5>1. ~ServerStarts /\ ~ServerSpools /\ ~ServerStops /\ ~ServerRefuses /\ ~ServerSeesClose
          BY <4>1 DEF Earned, ServerStarts, ServerSpools, ServerStops, ServerRefuses,
             ServerSeesClose, Reads
        <5> QED BY <1>3, <5>1, StreamChanges
      <4> QED BY <3>1, <4>1, <4>2, <4>3
    <3>2. CASE /\ answers # <<>> /\ Head(answers).type = "final" /\ t.stop = "sent" /\ Alive(t)
               /\ UNCHANGED <<source, turn, link, session, stream, spooled>>
      <4>1. Head(answers) = answers[1] /\ 1 \in 1..Len(answers)
        BY <3>2 DEF StreamTypeOK
      <4>2. link = "closed" /\ IsComplete /\ session[turn] \in {"result", "reset"} /\ turn # 0
        BY <3>2, <4>1 DEF FinalsAreEarned
      <4>3. stream.frameCount = t.emitted /\ Dropped(t.loss) = 0
        BY <3>2, <4>2 DEF CompleteIsEmitted
      <4>4. IsHeard
        BY <3>2, <4>2 DEF Accounts, IsRendering, IsFlushing
      <4>5. source.state = "stopped" /\ source.clock = t.emitted + 0
        BY <4>3, <4>4 DEF IsHeard
      <4>6. t.emitted \in Nat
        BY DEF StreamTypeOK, Transports
      <4>7. stream'.frameCount = source'.clock
        BY <3>2, <4>3, <4>5, <4>6
      <4> QED BY <3>2, <4>2, <4>5, <4>7 DEF Earned, IsComplete
    <3> QED BY <1>3, <2>2, <3>1, <3>2, FinalVerdicts
  <2> QED BY <1>1, <2>1, <2>2 DEF FinalsAreEarned, Earned
<1> QED BY <1>2, <1>3

LEMMA NoTransportStep ==
  ASSUME StreamTypeOK, Sockets, NoTransport, CaptureStep PROVE NoTransport'
<1>1. ASSUME NEW p \in Turns, NewTransport(p) PROVE turn' # 0
  BY <1>1 DEF NewTransport
<1>2. CASE ~IsNewTransport
  <2>1. turn' = turn
    BY <1>2, FrameTaken, AnswerTaken, StopTaken DEF CaptureStep, Page, Remote, Faults,
       IsNewTransport, HashIsReady, SourceFails, SocketFails, TimerFires, captureVars, Aborts,
       Connects, AskWorkletToStop, SocketOpens, RenderFrame, WorkletStops, ServerStarts,
       ServerSpools, ServerStops, ServerRefuses, ServerSeesClose, SessionMoves, AnalysisEnds,
       Sockets
  <2>2. turn = 0 => port = <<>> /\ source.state = "off" /\ t.stop = "no" /\ t.socket = "none"
                    /\ t.timer = "none" /\ Alive(t)
    BY DEF NoTransport, FreshTransport, Alive
  <2>3. turn = 0 => UNCHANGED <<port, source, t>>
    BY <1>2, <2>2 DEF CaptureStep, Page, FrameArrives, HashIsReady, AnswerArrives,
       Faults, SourceFails, SocketFails, TimerFires, Remote, SocketOpens, RenderFrame,
       WorkletStops, ServerStarts, ServerSpools, ServerStops, ServerRefuses, ServerSeesClose,
       WorkletStopArrives, SessionMoves, AnalysisEnds, captureVars, IsNewTransport
  <2> QED BY <2>1, <2>3 DEF NoTransport
<1> QED BY <1>1, <1>2 DEF IsNewTransport, NoTransport

LEMMA StreamStep == StreamInv /\ CaptureStep => StreamInv'
BY StreamTypes, NoTransportStep, AccountsStep, SocketsStep, StopIsSentStep, SpoolIsWholeStep,
   CompleteIsEmittedStep, FinalsAreEarnedStep
DEF StreamInv

-----------------------------------------------------------------------------
(* What a step is to a press: whether it has asked for a session, whether   *)
(* that is registered, and what the user is told of it.                     *)

ClaimIsEarned(q) ==
  \/ /\ cap'[q].claim = "done"
     /\ \/ session[q] = "result"
        \/ mode = "batch" /\ session[q] = "error"
        \/ turn = q /\ t.verdict = "final"
  \/ /\ cap'[q].claim = "sealed"
     /\ session[q] \in {"error", "reset"} \/ session'[q] = "error"

Evolves(q) ==
  /\ Asked(q) => Asked(q)'
  /\ \/ cap'[q].registration = cap[q].registration
     \/ cap[q].registration # "ok" /\ cap'[q].registration # "ok"
     \/ cap'[q].registration = "ok" /\ active = q /\ active' = q /\ bound' = q
  /\ cap'[q].claim \in {cap[q].claim, "none"} \/ ClaimIsEarned(q)

LEMMA UntouchedPress ==
  ASSUME NEW q \in Turns, cap'[q] = cap[q] PROVE Evolves(q)
BY DEF Evolves, Asked

\* A step of one press.
LEMMA TouchedPress ==
  ASSUME PageInv, NEW p \in Turns, NEW c, Becomes(p, c), NEW q \in Turns,
         cap'[p] = c /\ cap[p] \in CaptureStates => Evolves(p)
  PROVE  Evolves(q)
BY UntouchedPress DEF Becomes, PageInv, PageTypeOK

\* A press whose coroutines end, or fail, keeps what it asked for.
Kept(p, c) ==
  /\ c.registration = cap[p].registration /\ c.report = cap[p].report
  /\ c.claim = cap[p].claim

LEMMA KeptPress ==
  ASSUME PageInv, NEW p \in Turns, NEW c, Becomes(p, c), Kept(p, c), NEW q \in Turns
  PROVE  Evolves(q)
BY TouchedPress DEF Kept, Evolves, Asked

LEMMA OverKeeps ==
  ASSUME PageInv, NEW p \in Turns, Over(p, cap[p]) \/ StopThrows(p), NEW q \in Turns
  PROVE  Evolves(q)
<1>1. cap[p] \in CaptureStates
  BY DEF PageInv, PageTypeOK
<1> DEFINE c == IF Over(p, cap[p]) THEN Released(cap[p])
                ELSE [Silenced(cap[p]) EXCEPT !.finish = "checking"]
<1>2. Kept(p, Released(cap[p])) /\ Kept(p, [Silenced(cap[p]) EXCEPT !.finish = "checking"])
  BY <1>1 DEF Kept, Released, Silenced, CaptureStates
<1>3. Becomes(p, Released(cap[p])) \/ Becomes(p, [Silenced(cap[p]) EXCEPT !.finish = "checking"])
  BY DEF Over, StopThrows
<1> QED BY <1>2, <1>3, KeptPress

LEMMA TellsClaims ==
  ASSUME PageInv, NEW p \in Turns, NEW shown, NEW claim, Tells(p, shown, claim), NEW q \in Turns,
         cap'[p].claim = claim => claim = "none" \/ ClaimIsEarned(p)
  PROVE  Evolves(q)
<1> DEFINE c == Released([cap[p] EXCEPT !.claim = claim])
<1>1. cap[p] \in CaptureStates /\ Becomes(p, c)
  BY DEF PageInv, PageTypeOK, Tells, Over
<1>2. c.registration = cap[p].registration /\ c.report = cap[p].report /\ c.claim = claim
  BY <1>1 DEF Released, Silenced, CaptureStates
<1> HIDE DEF c
<1>3. ASSUME cap'[p] = c PROVE Evolves(p)
  BY <1>2, <1>3 DEF Evolves, Asked
<1> QED BY <1>1, <1>3, TouchedPress

LEMMA PressesEvolve ==
  ASSUME PageInv, NoTransport, session \in [Turns -> SessionStatuses], [Next]_vars,
         NEW q \in Turns
  PROVE  Evolves(q)
<1>0. cap \in [Turns -> CaptureStates]
  BY DEF PageInv, PageTypeOK
<1>1. CASE Press
  <2>1. CASE q = press + 1
    <3>1. cap[q].start = "none"
      <4>1. press \in Nat /\ q > press
        BY <2>1 DEF PageInv, PageTypeOK
      <4> QED BY <4>1 DEF PageInv, StartsAlone
    <3>2. OnlyStarts(cap[q])
      BY <3>1 DEF PageInv, StartsAlone
    <3>3. cap'[q] = [Idle EXCEPT !.mic = "asked", !.start = "asking"]
      BY <1>0, <1>1, <2>1 DEF Press, Becomes
    <3>4. cap'[q].registration = "none" /\ cap'[q].claim = "none"
      BY <3>3 DEF Idle
    <3> QED BY <3>2, <3>4 DEF Evolves, Asked, OnlyStarts
  <2>2. CASE q # press + 1
    BY <1>0, <1>1, <2>2, UntouchedPress DEF Press, Becomes
  <2> QED BY <2>1, <2>2
<1>2. CASE PressToStop
  <2>1. active \in Turns
    BY <1>2 DEF PressToStop, PageInv, PageTypeOK, ActiveIsLatest
  <2>2. CASE Over(active, cap[active])
    BY <2>1, <2>2, OverKeeps
  <2>3. CASE Becomes(active, [cap[active] EXCEPT !.finish = "worklet"])
    <3>1. Kept(active, [cap[active] EXCEPT !.finish = "worklet"])
      BY <1>0, <2>1 DEF Kept, CaptureStates
    <3> QED BY <2>1, <2>3, <3>1, KeptPress
  <2>4. CASE Becomes(active, [cap[active] EXCEPT !.recorder = "stopping"])
    <3>1. Kept(active, [cap[active] EXCEPT !.recorder = "stopping"])
      BY <1>0, <2>1 DEF Kept, CaptureStates
    <3> QED BY <2>1, <2>4, <3>1, KeptPress
  <2> QED BY <1>2, <2>2, <2>3, <2>4 DEF PressToStop, PressToStopStream, PressToStopBatch
<1>3. CASE WorkletIsStopped
  <2>1. turn \in Turns
    BY <1>3 DEF WorkletIsStopped, WorkletStopArrives, NoTransport, PageInv, PageTypeOK
  <2>2. CASE UNCHANGED cap
    BY <2>2, UntouchedPress
  <2>3. CASE Becomes(turn, [Silenced(cap[turn]) EXCEPT !.finish = "transport"])
    <3>1. Kept(turn, [Silenced(cap[turn]) EXCEPT !.finish = "transport"])
      BY <1>0, <2>1 DEF Kept, Silenced, CaptureStates
    <3> QED BY <2>1, <2>3, <3>1, KeptPress
  <2>4. CASE StopThrows(turn)
    BY <2>1, <2>4, OverKeeps
  <2> QED BY <1>3, <2>2, <2>3, <2>4 DEF WorkletIsStopped, pageVars
<1>4. CASE Capturing \/ Serving
  <2>1. CASE cap' = cap
    BY <2>1, UntouchedPress
  <2>2. CASE cap' = [cap EXCEPT ![turn] = Failing(@)]
    <3>1. CASE turn \in Turns
      <4>1. Kept(turn, Failing(cap[turn])) /\ Becomes(turn, Failing(cap[turn]))
        BY <1>0, <2>2, <3>1 DEF Kept, Failing, CaptureStates, Becomes
      <4> QED BY <3>1, <4>1, KeptPress
    <3>2. CASE turn \notin Turns
      BY <1>0, <2>2, <3>2, UntouchedPress
    <3> QED BY <3>1, <3>2
  <2> QED BY <1>4, <2>1, <2>2 DEF Capturing, Serving, Notices, pageVars
<1>5. CASE Unmount
  <2>1. cap[q] \in CaptureStates
    BY <1>0
  <2>2. /\ cap'[q].registration = cap[q].registration /\ cap'[q].report = cap[q].report
        /\ cap'[q].claim = cap[q].claim
    <3> DEFINE c == Silenced(cap[q])
               e == [c EXCEPT !.aborted = TRUE, !.recorder = IF @ = "none" THEN @ ELSE "off"]
    <3>1. /\ c.registration = cap[q].registration /\ c.report = cap[q].report
          /\ c.claim = cap[q].claim
          /\ e.registration = cap[q].registration /\ e.report = cap[q].report
          /\ e.claim = cap[q].claim
      BY <2>1 DEF Silenced, CaptureStates
    <3>2. cap'[q] \in {c, e, cap[q]}
      BY <1>5 DEF Unmount
    <3> HIDE DEF c, e
    <3> QED BY <3>1, <3>2
  <2> QED BY <2>2 DEF Evolves, Asked
<1>6. ASSUME NEW p \in Turns, NEW mic, StartFails(p, mic) PROVE Evolves(q)
  <2>1. Kept(p, [cap[p] EXCEPT !.start = "ended", !.mic = mic])
    BY <1>0 DEF Kept, CaptureStates
  <2> QED BY <1>6, <2>1, KeptPress DEF StartFails
<1>7. ASSUME NEW p \in Turns, Starting(p) PROVE Evolves(q)
  <2>1. ASSUME NEW mic, Becomes(p, [cap[p] EXCEPT !.mic = mic]) PROVE Evolves(q)
    <3>1. Kept(p, [cap[p] EXCEPT !.mic = mic])
      BY <1>0 DEF Kept, CaptureStates
    <3> QED BY <2>1, <3>1, KeptPress
  <2>2. CASE Becomes(p, [cap[p] EXCEPT !.mic = "live", !.start = "starting"])
    <3>1. Kept(p, [cap[p] EXCEPT !.mic = "live", !.start = "starting"])
      BY <1>0 DEF Kept, CaptureStates
    <3> QED BY <2>2, <3>1, KeptPress
  <2> DEFINE c == [cap[p] EXCEPT !.mic = "live", !.start = "ended",
                                 !.recorder = "on", !.registration = "creating"]
             e == [cap[p] EXCEPT !.start = "ended", !.registration = "creating"]
  <2>3. /\ c.registration = "creating" /\ c.report = cap[p].report /\ c.claim = cap[p].claim
        /\ e.registration = "creating" /\ e.report = cap[p].report /\ e.claim = cap[p].claim
    BY <1>0 DEF CaptureStates
  <2> HIDE DEF c, e
  <2>4. ASSUME NEW f \in {c, e}, Becomes(p, f), cap[p].registration = "none" PROVE Evolves(q)
    <3>1. ASSUME cap'[p] = f PROVE Evolves(p)
      BY <2>3, <2>4, <3>1 DEF Evolves, Asked
    <3> QED BY <2>4, <3>1, TouchedPress
  <2>5. cap[p].start \in {"asking", "starting"} => cap[p].registration = "none"
    BY DEF PageInv, StartsAlone, OnlyStarts
  <2>6. CASE MicrophoneRefused(p) \/ MicrophoneTimesOut(p) \/ CaptureFailsToStart(p)
    BY <1>6, <2>1, <2>6 DEF MicrophoneRefused, MicrophoneTimesOut, CaptureFailsToStart
  <2>7. CASE MicrophoneGranted(p)
    BY <1>6, <2>1, <2>2, <2>4, <2>5, <2>7 DEF MicrophoneGranted, c
  <2>8. CASE CaptureStarts(p)
    BY <1>6, <2>4, <2>5, <2>8 DEF CaptureStarts, e
  <2> QED BY <1>7, <2>6, <2>7, <2>8 DEF Starting
<1>8. ASSUME NEW p \in Turns, Registering(p) PROVE Evolves(q)
  <2>1. CASE SessionIsCreated(p) \/ StartIsTold(p)
    BY <2>1, UntouchedPress DEF SessionIsCreated, StartIsTold, pageVars
  <2>2. ASSUME NEW r \in {"starting", "failed", "ok"},
               cap[p].registration \in {"creating", "starting"},
               Becomes(p, [cap[p] EXCEPT !.registration = r]),
               r = "ok" => active = p /\ active' = p /\ bound' = p
        PROVE  Evolves(q)
    <3> DEFINE c == [cap[p] EXCEPT !.registration = r]
    <3>1. c.registration = r /\ c.report = cap[p].report /\ c.claim = cap[p].claim
      BY <1>0 DEF CaptureStates
    <3> HIDE DEF c
    <3>2. ASSUME cap'[p] = c PROVE Evolves(p)
      BY <2>2, <3>1, <3>2 DEF Evolves, Asked
    <3> QED BY <2>2, <3>2, TouchedPress DEF c
  <2>3. CASE RegistrationAnswers(p)
    BY <2>2, <2>3 DEF RegistrationAnswers, IsActive
  <2>4. CASE StartIsAnswered(p)
    BY <2>2, <2>4 DEF StartIsAnswered, IsActive
  <2>5. CASE RegistrationFails(p)
    <3> DEFINE c == [cap[p] EXCEPT !.registration = "failed"]
               e == Failing(c)
    <3>1. /\ c.registration = "failed" /\ c.report = cap[p].report /\ c.claim = cap[p].claim
          /\ e.registration = "failed" /\ e.report = cap[p].report /\ e.claim = cap[p].claim
      BY <1>0 DEF CaptureStates, Failing
    <3>2. Becomes(p, c) \/ Becomes(p, e)
      BY <2>5 DEF RegistrationFails
    <3>3. cap[p].registration \in {"creating", "starting"}
      BY <2>5 DEF RegistrationFails
    <3> HIDE DEF c, e
    <3>4. ASSUME NEW f \in {c, e}, cap'[p] = f PROVE Evolves(p)
      BY <3>1, <3>3, <3>4 DEF Evolves, Asked
    <3> QED BY <3>2, <3>4, TouchedPress
  <2> QED BY <1>8, <2>1, <2>3, <2>4, <2>5 DEF Registering
<1>9. ASSUME NEW p \in Turns, Finishing(p) PROVE Evolves(q)
  <2>1. CASE StopTimesOut(p)
    BY <2>1, OverKeeps DEF StopTimesOut
  <2>2. CASE TransportSettles(p)
    <3>1. CASE StopThrows(p)
      BY <3>1, OverKeeps
    <3>2. CASE t.verdict = "final" /\ IsActive(p) /\ Tells(p, "idle", "done")
      <4>1. mode = "pcm"
        BY <2>2 DEF TransportSettles, PageInv, FinishesAreActive, StreamFinish
      <4>2. turn = p
        BY <3>2, <4>1 DEF IsActive, PageInv, ActiveIsLatest
      <4>3. cap'[p].claim = "done" => ClaimIsEarned(p)
        BY <3>2, <4>2 DEF ClaimIsEarned
      <4> QED BY <3>2, <4>3, TellsClaims
    <3> QED BY <2>2, <3>1, <3>2 DEF TransportSettles
  <2>3. ASSUME NEW shown, Tells(p, shown, "none") PROVE Evolves(q)
    BY <2>3, TellsClaims
  <2>4. CASE CheckAnswers(p)
    <3>1. CASE Tells(p, "idle", "done") /\ session[p] = "result"
      <4>1. cap'[p].claim = "done" => ClaimIsEarned(p)
        BY <3>1 DEF ClaimIsEarned
      <4> QED BY <3>1, <4>1, TellsClaims
    <3>2. CASE Tells(p, "error", "sealed") /\ session[p] \in {"error", "reset"}
      <4>1. cap'[p].claim = "sealed" => ClaimIsEarned(p)
        BY <3>2 DEF ClaimIsEarned
      <4> QED BY <3>2, <4>1, TellsClaims
    <3>3. CASE Becomes(p, [cap[p] EXCEPT !.finish = "posting"])
      <4>1. Kept(p, [cap[p] EXCEPT !.finish = "posting"])
        BY <1>0 DEF Kept, CaptureStates
      <4> QED BY <3>3, <4>1, KeptPress
    <3> QED BY <2>3, <2>4, <3>1, <3>2, <3>3 DEF CheckAnswers
  <2>5. CASE CheckFails(p)
    BY <2>3, <2>5, OverKeeps DEF CheckFails
  <2>6. CASE ErrorIsPosted(p)
    <3>1. CASE Becomes(p, [cap[p] EXCEPT !.report = "done"]) /\ cap[p].report = "posting"
      <4> DEFINE c == [cap[p] EXCEPT !.report = "done"]
      <4>1. c.registration = cap[p].registration /\ c.report = "done" /\ c.claim = cap[p].claim
        BY <1>0 DEF CaptureStates
      <4> HIDE DEF c
      <4>2. ASSUME cap'[p] = c PROVE Evolves(p)
        BY <3>1, <4>1, <4>2 DEF Evolves, Asked
      <4> QED BY <3>1, <4>2, TouchedPress DEF c
    <3>2. CASE Over(p, cap[p])
      BY <3>2, OverKeeps
    <3>3. ASSUME NEW claim \in {"sealed", "none"}, Tells(p, "error", claim) PROVE Evolves(q)
      <4>1. cap'[p].claim = "sealed" => ClaimIsEarned(p)
        BY <2>6 DEF ErrorIsPosted, ClaimIsEarned
      <4> QED BY <3>3, <4>1, TellsClaims
    <3> QED BY <2>6, <3>1, <3>2, <3>3 DEF ErrorIsPosted
  <2> QED BY <1>9, <2>1, <2>2, <2>4, <2>5, <2>6 DEF Finishing
<1>10. ASSUME NEW p \in Turns, FinishingBatch(p) PROVE Evolves(q)
  <2>1. CASE StopIsTold(p) \/ AudioIsUploaded(p)
    BY <2>1, UntouchedPress DEF StopIsTold, AudioIsUploaded, pageVars
  <2>2. CASE RecorderStops(p)
    <3>1. Kept(p, [Silenced(cap[p]) EXCEPT !.recorder = "off", !.finish = "syncing"])
      BY <1>0 DEF Kept, Silenced, CaptureStates
    <3> QED BY <2>2, <3>1, KeptPress DEF RecorderStops
  <2>3. ASSUME NEW next, Becomes(p, [cap[p] EXCEPT !.finish = next]) PROVE Evolves(q)
    <3>1. Kept(p, [cap[p] EXCEPT !.finish = next])
      BY <1>0 DEF Kept, CaptureStates
    <3> QED BY <2>3, <3>1, KeptPress
  <2>4. CASE BatchIsSynced(p) \/ StopIsAnswered(p)
    BY <2>3, <2>4 DEF BatchIsSynced, StopIsAnswered
  <2>5. CASE UploadIsAnswered(p)
    <3>1. mode = "batch"
      BY <2>5 DEF UploadIsAnswered, PageInv, FinishesAreActive, BatchFinish
    <3>2. cap'[p].claim = "done" => ClaimIsEarned(p)
      BY <2>5, <3>1 DEF UploadIsAnswered, ClaimIsEarned
    <3> QED BY <2>5, <3>2, TellsClaims DEF UploadIsAnswered
  <2>6. CASE BatchFails(p)
    <3>1. CASE Tells(p, "error", "none")
      BY <3>1, TellsClaims
    <3> QED BY <2>6, <3>1, OverKeeps DEF BatchFails
  <2> QED BY <1>10, <2>1, <2>2, <2>4, <2>5, <2>6 DEF FinishingBatch
<1>11. ASSUME NEW p \in Turns, Reporting(p) PROVE Evolves(q)
  <2>1. ASSUME NEW c, Becomes(p, c), c.registration = cap[p].registration,
               c.claim = cap[p].claim, c.report # "none"
        PROVE  Evolves(q)
    <3>1. ASSUME cap'[p] = c PROVE Evolves(p)
      BY <2>1, <3>1 DEF Evolves, Asked
    <3> QED BY <2>1, <3>1, TouchedPress
  <2> DEFINE a == [Silenced(cap[p]) EXCEPT !.failing = "done", !.report = "creating"]
             b == [cap[p] EXCEPT !.report = "posting"]
             e == [cap[p] EXCEPT !.report = "done"]
  <2>2. /\ a.registration = cap[p].registration /\ a.claim = cap[p].claim /\ a.report # "none"
        /\ b.registration = cap[p].registration /\ b.claim = cap[p].claim /\ b.report # "none"
        /\ e.registration = cap[p].registration /\ e.claim = cap[p].claim /\ e.report # "none"
    BY <1>0 DEF Silenced, CaptureStates
  <2>3. Becomes(p, a) \/ Becomes(p, b) \/ Becomes(p, e)
    BY <1>11 DEF Reporting, FailureIsShown, ReportRegisters, ReportIsGivenUp
  <2> HIDE DEF a, b, e
  <2> QED BY <2>1, <2>2, <2>3
<1>12. ASSUME NEW p \in Turns, Outside(p) \/ DeadlinePasses(p) PROVE Evolves(q)
  BY <1>12, UntouchedPress DEF Outside, DeadlinePasses, pageVars
<1>13. CASE Typing \/ UNCHANGED vars
  BY <1>13, UntouchedPress DEF Typing, vars, pageVars
<1> QED
  BY <1>1, <1>2, <1>3, <1>4, <1>5, <1>7, <1>8, <1>9, <1>10, <1>11, <1>12, <1>13 DEF Next

\* Which capture is active, and whose session is shown, after a step.
ShownMoves ==
  /\ mode' = mode
  /\ \/ active' \in {active, NoPress}
     \/ active' \in Turns /\ cap'[active'].registration # "ok"
  /\ bound' = bound \/ bound' = active \/ active' = NoPress

LEMMA ShownStep ==
  ASSUME PageInv, [Next]_vars PROVE ShownMoves
<1> USE DEF ShownMoves
<1>0. cap \in [Turns -> CaptureStates]
  BY DEF PageInv, PageTypeOK
<1>1. ASSUME UNCHANGED <<mode, active, bound>> PROVE ShownMoves
  BY <1>1
<1>2. ASSUME NEW p \in Turns, NEW c, Over(p, c) PROVE ShownMoves
  BY <1>2 DEF Over, Steady, Without
<1>3. ASSUME NEW p \in Turns, StopThrows(p) PROVE ShownMoves
  BY <1>2, <1>3 DEF StopThrows, Steady
<1>4. CASE Press \/ Capturing \/ Serving \/ Unmount \/ UNCHANGED vars
  BY <1>4 DEF Press, Capturing, Notices, Serving, Unmount, vars, pageVars, Steady
<1>5. CASE PressToStop
  <2>1. active \in Turns
    BY <1>5 DEF PressToStop, PageInv, PageTypeOK, ActiveIsLatest
  <2> QED BY <1>2, <1>5, <2>1 DEF PressToStop, PressToStopStream, PressToStopBatch, Steady
<1>6. CASE WorkletIsStopped
  <2>1. turn \in Turns \/ cap[turn].finish # "worklet" \/ turn = 0
    BY DEF PageInv, PageTypeOK
  <2>2. CASE StopThrows(turn)
    BY <2>2 DEF StopThrows, Over, Steady, Without
  <2> QED BY <1>6, <2>2 DEF WorkletIsStopped, pageVars, Steady
<1>7. CASE Typing
  <2>1. active = NoPress \/ lease \in Turns
    BY DEF PageInv, PageTypeOK, ActiveIsLatest
  <2> QED BY <1>7, <2>1 DEF Typing, TypedTurn, Steady
<1>8. ASSUME NEW p \in Turns, NEW mic, StartFails(p, mic) PROVE ShownMoves
  BY <1>8 DEF StartFails, Steady, Without
<1>9. ASSUME NEW p \in Turns, Starting(p) PROVE ShownMoves
  <2>1. CASE MicrophoneRefused(p) \/ MicrophoneTimesOut(p) \/ CaptureFailsToStart(p)
    BY <1>1, <1>8, <2>1 DEF MicrophoneRefused, MicrophoneTimesOut, CaptureFailsToStart
  <2> DEFINE c == [cap[p] EXCEPT !.mic = "live", !.start = "ended",
                                 !.recorder = "on", !.registration = "creating"]
             e == [cap[p] EXCEPT !.start = "ended", !.registration = "creating"]
  <2>2. c.registration = "creating" /\ e.registration = "creating"
    BY <1>0 DEF CaptureStates
  <2>3. ASSUME NEW f \in {c, e}, Becomes(p, f), active' = p, mode' = mode, bound' = bound
        PROVE  ShownMoves
    <3> HIDE DEF c, e
    <3>1. cap'[p] = f
      BY <1>0, <2>3 DEF Becomes
    <3> QED BY <2>2, <2>3, <3>1
  <2>4. CASE MicrophoneGranted(p)
    <3>1. CASE active' = p
      BY <1>1, <1>8, <2>3, <2>4 DEF MicrophoneGranted, Steady
    <3> QED BY <1>1, <1>8, <2>3, <2>4, <3>1 DEF MicrophoneGranted, Steady
  <2>5. CASE CaptureStarts(p)
    BY <1>8, <2>3, <2>5 DEF CaptureStarts, Steady
  <2> QED BY <1>9, <2>1, <2>4, <2>5 DEF Starting
<1>10. ASSUME NEW p \in Turns, Registering(p) PROVE ShownMoves
  BY <1>10 DEF Registering, SessionIsCreated, RegistrationAnswers, RegistrationFails, StartIsTold,
     StartIsAnswered, IsActive, Steady, pageVars
<1>11. ASSUME NEW p \in Turns, Finishing(p) PROVE ShownMoves
  BY <1>2, <1>3, <1>11 DEF Finishing, StopTimesOut, TransportSettles, CheckAnswers, CheckFails,
     ErrorIsPosted, Tells, Steady
<1>12. ASSUME NEW p \in Turns, FinishingBatch(p) PROVE ShownMoves
  BY <1>2, <1>12 DEF FinishingBatch, RecorderStops, BatchIsSynced, StopIsTold, StopIsAnswered,
     AudioIsUploaded, UploadIsAnswered, BatchFails, Tells, Steady, pageVars
<1>13. ASSUME NEW p \in Turns, Reporting(p) PROVE ShownMoves
  BY <1>13 DEF Reporting, FailureIsShown, ReportRegisters, ReportBinds, ReportIsGivenUp, Steady,
     Without
<1>14. ASSUME NEW p \in Turns, Outside(p) \/ DeadlinePasses(p) PROVE ShownMoves
  BY <1>14 DEF Outside, DeadlinePasses, pageVars
<1> QED
  BY <1>4, <1>5, <1>6, <1>7, <1>9, <1>10, <1>11, <1>12, <1>13, <1>14 DEF Next

\* The user is shown the session of the capture that is active.
LEMMA RecordingIsBoundStep ==
  ASSUME PageInv, NoTransport, session \in [Turns -> SessionStatuses], RecordingIsBound,
         [Next]_vars
  PROVE  RecordingIsBound'
<1> SUFFICES ASSUME active' # NoPress, cap'[active'].registration = "ok" PROVE bound' = active'
  BY DEF RecordingIsBound
<1>1. active' = active /\ active \in Turns
  BY ShownStep DEF ShownMoves, PageInv, PageTypeOK
<1>2. bound' = bound \/ bound' = active
  BY <1>1, ShownStep DEF ShownMoves
<1>3. Evolves(active)
  BY <1>1, PressesEvolve
<1> QED BY <1>1, <1>2, <1>3 DEF Evolves, RecordingIsBound

\* What the user was told stays true.
ClaimsHold ==
  \A p \in Turns :
    /\ cap[p].claim = "done" =>
         session[p] \in {"result", "reset"} \union (IF mode = "batch" THEN {"error"} ELSE {})
    /\ cap[p].claim = "sealed" => session[p] \in {"error", "reset"}

LEMMA ClaimsStep ==
  ASSUME PageInv, StreamInv, CaptureStep, ClaimsHold, [Next]_vars
  PROVE  ClaimsHold'
<1> SUFFICES ASSUME NEW p \in Turns
             PROVE  /\ cap'[p].claim = "done" =>
                         session'[p] \in {"result", "reset"}
                                     \union (IF mode = "batch" THEN {"error"} ELSE {})
                    /\ cap'[p].claim = "sealed" => session'[p] \in {"error", "reset"}
  BY ShownStep DEF ClaimsHold, ShownMoves
<1>0. session \in [Turns -> SessionStatuses] /\ StreamTypeOK /\ Sockets /\ NoTransport
  BY DEF StreamInv, StreamTypeOK
<1>1. session[p] \in {"result", "error", "reset"} =>
        session'[p] = session[p] \/ session'[p] = "reset"
  BY <1>0, SessionsEnd
<1>2. Evolves(p)
  BY <1>0, PressesEvolve
<1>3. CASE cap'[p].claim \in {cap[p].claim, "none"}
  BY <1>1, <1>3 DEF ClaimsHold
<1>4. CASE ClaimIsEarned(p)
  <2>1. turn = p /\ t.verdict = "final" => session[p] \in {"result", "reset"}
    BY DEF StreamInv, FinalsAreEarned
  <2> QED BY <1>1, <1>4, <2>1 DEF ClaimIsEarned
<1> QED BY <1>2, <1>3, <1>4 DEF Evolves

-----------------------------------------------------------------------------
(* Nobody asks the server for anything before the page has.                 *)

LEMMA UnaskedStep ==
  ASSUME PageInv, StreamInv, CaptureStep, Unasked, [Next]_vars
  PROVE  Unasked'
<1>0. session \in [Turns -> SessionStatuses] /\ StreamTypeOK /\ Sockets /\ NoTransport
  BY DEF StreamInv, StreamTypeOK
<1> SUFFICES ASSUME NEW q \in Turns, session'[q] # "none" PROVE Asked(q)'
  BY DEF Unasked
<1>1. Asked(q) => Asked(q)'
  BY <1>0, PressesEvolve DEF Evolves
<1>2. session[q] # "none" => Asked(q)
  BY DEF Unasked
<1>3. SessionIsCreated(q) \/ session[q] # "none"
  <2> SUFFICES ASSUME session[q] = "none", ~SessionIsCreated(q) PROVE session'[q] = "none"
    OBVIOUS
  <2>1. CASE session' = session
    BY <2>1
  <2>2. CASE WorkletIsStopped \/ Capturing
    BY <1>0, <2>1, <2>2, FrameTaken, AnswerTaken, StopTaken DEF WorkletIsStopped, Capturing, Page,
       Faults, HashIsReady, SourceFails, SocketFails, TimerFires, serverVars, Sockets
  <2>3. CASE Serving
    BY <1>0, <2>1, <2>3 DEF Serving, Remote, SocketOpens, RenderFrame, WorkletStops, ServerStarts,
       ServerSpools, ServerStops, ServerRefuses, ServerSeesClose, Disconnects, SessionIs,
       SessionBecomes, serverVars
  <2>4. CASE Press \/ PressToStop \/ Typing \/ Unmount \/ UNCHANGED vars
    BY <2>1, <2>4 DEF Press, PressToStop, PressToStopStream, PressToStopBatch, Typing, Unmount,
       AskWorkletToStop, captureVars, serverVars, vars
  <2>5. ASSUME NEW p \in Turns, Starting(p) PROVE session' = session
    BY <2>5 DEF Starting, MicrophoneRefused, MicrophoneTimesOut, MicrophoneGranted,
       CaptureFailsToStart, CaptureStarts, StartFails, NewTransport, captureVars, serverVars
  <2>6. ASSUME NEW p \in Turns, Registering(p) PROVE session'[q] = "none"
    BY <1>0, <2>6 DEF Registering, SessionIsCreated, RegistrationAnswers, RegistrationFails,
       StartIsTold, StartIsAnswered, captureVars, serverVars
  <2>7. ASSUME NEW p \in Turns, Finishing(p) PROVE session'[q] = "none"
    BY <1>0, <2>7 DEF Finishing, StopTimesOut, TransportSettles, CheckAnswers, CheckFails,
       ErrorIsPosted, TakesError, captureVars, serverVars
  <2>8. ASSUME NEW p \in Turns, FinishingBatch(p) PROVE session'[q] = "none"
    BY <1>0, <2>8 DEF FinishingBatch, RecorderStops, BatchIsSynced, StopIsTold, StopIsAnswered,
       AudioIsUploaded, UploadIsAnswered, BatchFails, captureVars, serverVars
  <2>9. ASSUME NEW p \in Turns, Reporting(p) PROVE session' = session
    BY <2>9 DEF Reporting, FailureIsShown, ReportRegisters, ReportIsGivenUp, captureVars, serverVars
  <2>10. ASSUME NEW p \in Turns, Outside(p) \/ DeadlinePasses(p) PROVE session'[q] = "none"
    BY <1>0, <2>10 DEF Outside, AnalysisEnds, OperatorResets, DeadlinePasses
  <2> QED BY <2>1, <2>2, <2>3, <2>4, <2>5, <2>6, <2>7, <2>8, <2>9, <2>10 DEF Next
<1>4. SessionIsCreated(q) => Asked(q)
  BY DEF SessionIsCreated
<1> QED BY <1>1, <1>2, <1>3, <1>4

LEMMA QuietSocket ==
  ASSUME t \in Transports, t.socket = "none", NEW verdict \in Verdicts, NEW rest, Ends(verdict, rest)
  PROVE  t'.socket = "none"
BY EndedTransport DEF Ends

LEMMA UnconnectedStep ==
  ASSUME PageInv, StreamInv, CaptureStep, Unconnected, [Next]_vars
  PROVE  Unconnected'
<1>0. /\ session \in [Turns -> SessionStatuses] /\ StreamTypeOK /\ Sockets /\ NoTransport
      /\ t \in Transports /\ cap \in [Turns -> CaptureStates] /\ turn \in Turns \union {0}
  BY DEF StreamInv, StreamTypeOK, PageInv, PageTypeOK
<1>1. CASE IsNewTransport
  BY <1>1 DEF IsNewTransport, NewTransport, FreshTransport, Unconnected
<1>2. CASE ~IsNewTransport
  <2> SUFFICES ASSUME turn' # 0, cap'[turn'].registration # "ok" PROVE t'.socket = "none"
    BY DEF Unconnected
  <2>1. turn' = turn
    BY <1>0, <1>2, FrameTaken, AnswerTaken, StopTaken DEF CaptureStep, Page, Remote, Faults,
       IsNewTransport, HashIsReady, SourceFails, SocketFails, TimerFires, captureVars, Aborts,
       Connects, AskWorkletToStop, SocketOpens, RenderFrame, WorkletStops, ServerStarts,
       ServerSpools, ServerStops, ServerRefuses, ServerSeesClose, SessionMoves, AnalysisEnds,
       Sockets
  <2>2. turn \in Turns
    BY <1>0, <2>1
  <2>3. cap[turn].registration # "ok"
    BY <1>0, <2>1, <2>2, PressesEvolve DEF Evolves
  <2>4. t.socket = "none"
    BY <2>1, <2>3 DEF Unconnected
  <2>5. ASSUME t' = t PROVE t'.socket = "none"
    BY <2>4, <2>5
  <2>6. ASSUME NEW verdict \in {"failed", "aborted"}, NEW rest, Ends(verdict, rest)
        PROVE  t'.socket = "none"
    BY <1>0, <2>4, <2>6, QuietSocket DEF Verdicts
  <2>7. CASE WorkletIsStopped
    BY <1>0, <2>4, <2>5, <2>7, StopTaken DEF WorkletIsStopped, Fails
  <2>8. CASE Capturing
    <3>1. CASE FrameArrives
      BY <1>0, <2>4, <2>5, <3>1, FrameTaken DEF Fails
    <3>2. ~AnswerArrives
      BY <2>4 DEF AnswerArrives
    <3>3. CASE HashIsReady
      BY <1>0, <2>4, <3>3 DEF HashIsReady, Transports
    <3>4. CASE Faults
      BY <2>6, <3>4 DEF Faults, SourceFails, SocketFails, TimerFires
    <3> QED BY <2>8, <3>1, <3>2, <3>3, <3>4 DEF Capturing, Page
  <2>9. CASE Serving
    BY <2>4, <2>5, <2>9 DEF Serving, Remote, SocketOpens, RenderFrame, WorkletStops, ServerStarts,
       ServerSpools, ServerStops, ServerRefuses, ServerSeesClose
  <2>10. CASE Press \/ Typing \/ UNCHANGED vars
    BY <2>5, <2>10 DEF Press, Typing, captureVars, vars
  <2>11. CASE PressToStop
    <3>1. CASE AskWorkletToStop
      BY <1>0, <2>4, <3>1 DEF AskWorkletToStop, Transports
    <3> QED BY <2>5, <2>11, <3>1 DEF PressToStop, PressToStopStream, PressToStopBatch, captureVars
  <2>12. CASE Unmount
    BY <2>5, <2>6, <2>12 DEF Unmount
  <2>13. ASSUME NEW p \in Turns, Starting(p) PROVE t'.socket = "none"
    BY <1>2, <2>5, <2>13 DEF Starting, MicrophoneRefused, MicrophoneTimesOut, MicrophoneGranted,
       CaptureFailsToStart, CaptureStarts, StartFails, IsNewTransport, captureVars
  <2>14. ASSUME NEW p \in Turns, Registering(p) PROVE t'.socket = "none"
    <3>1. CASE RegistrationAnswers(p)
      <4>1. CASE IsActive(p) /\ mode # "batch"
        <5>1. turn = p
          BY <4>1 DEF IsActive, PageInv, PageTypeOK, ActiveIsLatest
        <5>2. cap'[p].registration = "ok"
          BY <1>0, <3>1, <4>1 DEF RegistrationAnswers, Becomes, CaptureStates
        <5> QED BY <2>1, <5>1, <5>2
      <4>2. CASE ~(IsActive(p) /\ mode # "batch")
        BY <2>5, <3>1, <4>2 DEF RegistrationAnswers, captureVars
      <4> QED BY <4>1, <4>2
    <3>2. CASE RegistrationFails(p)
      BY <2>5, <2>6, <3>2 DEF RegistrationFails
    <3> QED BY <2>5, <2>14, <3>1, <3>2 DEF Registering, SessionIsCreated, StartIsTold,
            StartIsAnswered, captureVars
  <2>15. ASSUME NEW p \in Turns, Finishing(p) PROVE t'.socket = "none"
    BY <2>5, <2>6, <2>15 DEF Finishing, StopTimesOut, TransportSettles, CheckAnswers, CheckFails,
       ErrorIsPosted, captureVars
  <2>16. ASSUME NEW p \in Turns, FinishingBatch(p) PROVE t'.socket = "none"
    BY <2>5, <2>16 DEF FinishingBatch, RecorderStops, BatchIsSynced, StopIsTold, StopIsAnswered,
       AudioIsUploaded, UploadIsAnswered, BatchFails, captureVars
  <2>17. ASSUME NEW p \in Turns, Reporting(p) PROVE t'.socket = "none"
    BY <2>5, <2>17 DEF Reporting, FailureIsShown, ReportRegisters, ReportIsGivenUp, captureVars
  <2>18. ASSUME NEW p \in Turns, Outside(p) \/ DeadlinePasses(p) PROVE t'.socket = "none"
    BY <2>5, <2>18 DEF Outside, AnalysisEnds, OperatorResets, DeadlinePasses
  <2> QED BY <2>7, <2>8, <2>9, <2>10, <2>11, <2>12, <2>13, <2>14, <2>15, <2>16, <2>17, <2>18 DEF Next
<1> QED BY <1>1, <1>2

-----------------------------------------------------------------------------
(* While the page records, its transport runs.                              *)

Runs == Alive(t) /\ t.stop = "no" /\ source.state = "running"

\* A press keeps what has begun of its end.
Lasts(p, c) ==
  /\ c.finish = "none" => cap[p].finish = "none"
  /\ c.failing = "none" => cap[p].failing = "none"

\* A step of one press, unless it ends or fails.
LEMMA RecordsOn ==
  ASSUME PageInv, Records, Runs => Runs', mode' = mode, active' \in {active, NoPress},
         NEW p \in Turns, NEW c, Becomes(p, c),
         active' = p => c.finish # "none" \/ c.failing # "none" \/ Lasts(p, c)
  PROVE  Records'
<1> SUFFICES ASSUME active' # NoPress, mode = "pcm",
                    cap'[active].finish = "none", cap'[active].failing = "none", active' = active
             PROVE  Runs'
  BY DEF Records, Runs
<1>1. cap \in [Turns -> CaptureStates] /\ active \in Turns
  BY DEF PageInv, PageTypeOK
<1>2. cap[active].finish = "none" /\ cap[active].failing = "none"
  BY <1>1 DEF Becomes, Lasts
<1> QED BY <1>2 DEF Records, Runs

\* A finish that ends gives up the capture.
LEMMA RecordsUntilOver ==
  ASSUME PageInv, Records, NEW p \in Turns, NEW c, Over(p, c),
         active # p => UNCHANGED <<t, source>>
  PROVE  Records'
<1>1. Becomes(p, Released(c)) /\ active' = Without(active, p) /\ mode' = mode
  BY DEF Over, Steady
<1>2. active' \in {active, NoPress} /\ active' # p
  BY <1>1 DEF Without
<1>3. CASE active = p
  BY <1>1, <1>3 DEF Without, Records
<1>4. CASE active # p
  <2>1. Runs => Runs'
    BY <1>4 DEF Runs, Alive
  <2> QED BY <1>1, <1>2, <2>1, RecordsOn
<1> QED BY <1>3, <1>4

LEMMA RecordsUntilStopped ==
  ASSUME PageInv, Records, NEW p \in Turns, StopThrows(p), active # p => UNCHANGED <<t, source>>
  PROVE  Records'
<1>1. CASE Over(p, cap[p])
  BY <1>1, RecordsUntilOver
<1>2. CASE ~Over(p, cap[p])
  <2> DEFINE c == [Silenced(cap[p]) EXCEPT !.finish = "checking"]
  <2>1. Becomes(p, c) /\ active' = active /\ mode' = mode
    BY <1>2 DEF StopThrows, Steady
  <2>2. c.finish # "none"
    <3>1. Silenced(cap[p]) \in CaptureStates
      BY SilencedCapture DEF PageInv, PageTypeOK
    <3> QED BY <3>1 DEF CaptureStates
  <2> HIDE DEF c
  <2>3. CASE active = p
    <3>1. cap'[p].finish # "none"
      BY <2>1, <2>2 DEF Becomes, PageInv, PageTypeOK
    <3> QED BY <2>1, <2>3, <3>1 DEF Records
  <2>4. CASE active # p
    <3>1. Runs => Runs'
      BY <2>4 DEF Runs, Alive
    <3> QED BY <2>1, <2>2, <3>1, RecordsOn
  <2> QED BY <2>3, <2>4
<1> QED BY <1>1, <1>2

LEMMA RecordsStep ==
  ASSUME PageInv, StreamInv, Records, [Next]_vars
  PROVE  Records'
<1>0. /\ StreamTypeOK /\ Sockets /\ NoTransport /\ Accounts
      /\ t \in Transports /\ source \in Sources /\ cap \in [Turns -> CaptureStates]
      /\ active \in Turns \union {NoPress}
  BY DEF StreamInv, StreamTypeOK, PageInv, PageTypeOK
<1>1. active # NoPress /\ mode = "pcm" => turn = active /\ turn \in Turns /\ ~leaving
  BY <1>0 DEF PageInv, ActiveIsLatest
<1>2. ASSUME UNCHANGED <<mode, active, cap>>, Runs => Runs' PROVE Records'
  BY <1>2 DEF Records, Runs
<1>3. ASSUME UNCHANGED <<t, source>> PROVE Runs => Runs'
  BY <1>3 DEF Runs, Alive
<1>4. ASSUME active' = NoPress \/ (mode = "batch" /\ mode' = mode) PROVE Records'
  BY <1>4 DEF Records
<1>5. CASE Press \/ Unmount \/ Typing \/ UNCHANGED vars
  BY <1>2, <1>3, <1>4, <1>5 DEF Press, Unmount, Typing, captureVars, vars, pageVars, Steady
<1>6. CASE PressToStop
  <2>1. CASE mode = "pcm" /\ cap[active].failing = "none"
    <3>1. Becomes(active, [cap[active] EXCEPT !.finish = "worklet"]) /\ active' = active
      BY <1>6, <2>1 DEF PressToStop, PressToStopStream
    <3>2. active \in Turns
      BY <1>6 DEF PressToStop, PageInv, PageTypeOK, ActiveIsLatest
    <3>3. cap'[active].finish = "worklet"
      BY <1>0, <3>1, <3>2 DEF Becomes, CaptureStates
    <3> QED BY <3>1, <3>3 DEF Records
  <2>2. CASE mode = "pcm" /\ cap[active].failing # "none"
    BY <1>4, <1>6, <2>2 DEF PressToStop, PressToStopStream, Over, Without
  <2>3. CASE mode # "pcm"
    BY <1>6, <2>3 DEF PressToStop, PressToStopBatch, Steady, Records
  <2> QED BY <2>1, <2>2, <2>3
<1>7. CASE WorkletIsStopped
  <2>1. turn \in Turns
    BY <1>0, <1>7 DEF WorkletIsStopped, WorkletStopArrives, NoTransport, StreamTypeOK
  <2>2. active # NoPress /\ mode = "pcm" => turn = active
    BY <1>1
  <2>3. CASE cap[turn].finish # "worklet"
    <3>1. ~Runs
      <4> SUFFICES ASSUME Runs PROVE FALSE
        OBVIOUS
      <4>1. port \in Seq(FramePosts)
        BY <1>0, <2>1 DEF Runs, Accounts, IsRendering, IsFlushing, IsHeard
      <4>2. port # <<>> /\ Head(port).type = "stopped"
        BY <1>7 DEF WorkletIsStopped, WorkletStopArrives
      <4>3. Head(port) \in FramePosts
        BY <4>1, <4>2
      <4> QED BY <4>2, <4>3 DEF FramePosts
    <3> QED BY <1>2, <1>7, <2>3, <3>1 DEF WorkletIsStopped, pageVars
  <2>4. CASE cap[turn].finish = "worklet" /\ Alive(t)
    <3> DEFINE c == [Silenced(cap[turn]) EXCEPT !.finish = "transport"]
    <3>1. Becomes(turn, c) /\ active' = active /\ mode' = mode
      BY <1>7, <2>4 DEF WorkletIsStopped, Steady
    <3>2. c.finish = "transport"
      <4>1. Silenced(cap[turn]) \in CaptureStates
        BY <1>0, <2>1, SilencedCapture
      <4> QED BY <4>1 DEF CaptureStates
    <3> HIDE DEF c
    <3>3. cap'[turn].finish = "transport"
      BY <1>0, <2>1, <3>1, <3>2 DEF Becomes
    <3> QED BY <2>2, <3>1, <3>3 DEF Records
  <2>5. CASE cap[turn].finish = "worklet" /\ ~Alive(t)
    <3>1. StopThrows(turn) /\ UNCHANGED <<t, source>>
      BY <1>7, <2>5 DEF WorkletIsStopped, WorkletStopArrives
    <3> QED BY <2>1, <3>1, RecordsUntilStopped
  <2> QED BY <2>3, <2>4, <2>5
<1>8. CASE Capturing
  <2> SUFFICES ASSUME active' # NoPress, mode' = "pcm",
                      cap'[active'].finish = "none", cap'[active'].failing = "none"
               PROVE  Runs'
    BY DEF Records, Runs
  <2>1. active' = active /\ mode' = mode /\ turn = active /\ turn \in Turns /\ ~leaving
    BY <1>1, <1>8 DEF Capturing, Notices, Steady
  <2>2. cap[active].finish = "none" /\ cap[active].failing = "none"
        /\ ~(Raised /\ Concerns(turn))
    BY <1>0, <1>8, <2>1 DEF Capturing, Notices, Failing, CaptureStates
  <2>3. Runs
    BY <2>1, <2>2 DEF Records, Runs
  <2>4. t'.verdict # "failed"
    BY <2>1, <2>2, <2>3 DEF Raised, Concerns, Runs
  <2>5. ~Faults
    <3>1. ASSUME NEW rest, Ends("failed", rest) PROVE FALSE
      BY <1>0, <2>3, <2>4, <3>1, FailedTransport DEF Verdicts, Fails, Runs
    <3> QED BY <3>1 DEF Faults, SourceFails, SocketFails, TimerFires
  <2>6. CASE FrameArrives
    BY <1>0, <2>3, <2>4, <2>6, FrameTaken DEF Fails, Runs
  <2>7. CASE AnswerArrives
    BY <1>0, <2>3, <2>4, <2>7, AnswerTaken DEF Fails, Runs, GoesOn, Sockets
  <2>8. ~HashIsReady
    BY <2>3 DEF HashIsReady, Runs
  <2> QED BY <1>8, <2>5, <2>6, <2>7, <2>8 DEF Capturing, Page
<1>9. CASE Serving
  <2> SUFFICES ASSUME Runs PROVE Runs'
    BY <1>2, <1>9 DEF Serving, pageVars
  <2>1. CASE SocketOpens
    BY <1>0, <2>1 DEF SocketOpens, Runs, Alive, Transports
  <2>2. CASE RenderFrame
    BY <1>0, <2>2 DEF RenderFrame, Rendered, Runs, Alive, Sources
  <2>3. ~WorkletStops
    BY DEF WorkletStops, Runs
  <2> QED BY <1>3, <1>9, <2>1, <2>2, <2>3 DEF Serving, Remote, ServerStarts, ServerSpools,
          ServerStops, ServerRefuses, ServerSeesClose
<1>10. ASSUME NEW p \in Turns, NEW mic, StartFails(p, mic) PROVE Records'
  <2> DEFINE c == [cap[p] EXCEPT !.start = "ended", !.mic = mic]
  <2>1. Becomes(p, c) /\ mode' = mode /\ active' \in {active, NoPress} /\ UNCHANGED <<t, source>>
    BY <1>10 DEF StartFails, Steady, Without, captureVars
  <2>2. Lasts(p, c)
    BY <1>0 DEF Lasts, CaptureStates
  <2> QED BY <1>3, <2>1, <2>2, RecordsOn
<1>11. ASSUME NEW p \in Turns, Starting(p) PROVE Records'
  <2>1. ASSUME NEW mic, Becomes(p, [cap[p] EXCEPT !.mic = mic]),
               UNCHANGED <<mode, active, t, source>>
        PROVE  Records'
    <3>1. Lasts(p, [cap[p] EXCEPT !.mic = mic])
      BY <1>0 DEF Lasts, CaptureStates
    <3> QED BY <1>3, <2>1, <3>1, RecordsOn
  <2>2. CASE MicrophoneRefused(p) \/ MicrophoneTimesOut(p) \/ CaptureFailsToStart(p)
    BY <1>10, <2>1, <2>2 DEF MicrophoneRefused, MicrophoneTimesOut, CaptureFailsToStart, captureVars
  <2>3. CASE MicrophoneGranted(p)
    <3>1. CASE mode = "pcm" /\ cap[p].start = "asking" /\ press = p /\ ~StartFails(p, "off")
      <4> DEFINE c == [cap[p] EXCEPT !.mic = "live", !.start = "starting"]
      <4>1. Becomes(p, c) /\ UNCHANGED <<mode, active, t, source>>
        BY <2>3, <3>1 DEF MicrophoneGranted, Steady, captureVars
      <4>2. Lasts(p, c)
        BY <1>0 DEF Lasts, CaptureStates
      <4> QED BY <1>3, <4>1, <4>2, RecordsOn
    <3>2. CASE ~(mode = "pcm" /\ cap[p].start = "asking" /\ press = p /\ ~StartFails(p, "off"))
      BY <1>4, <1>10, <2>1, <2>3, <3>2 DEF MicrophoneGranted, Steady, captureVars
    <3> QED BY <3>1, <3>2
  <2>4. CASE CaptureStarts(p) /\ IsCurrent(p)
    BY <2>4 DEF CaptureStarts, NewTransport, FreshTransport, FreshSource, Records, Alive
  <2>5. CASE CaptureStarts(p) /\ ~IsCurrent(p)
    BY <1>10, <2>5 DEF CaptureStarts
  <2> QED BY <1>11, <2>2, <2>3, <2>4, <2>5 DEF Starting
<1>12. ASSUME NEW p \in Turns, Registering(p) PROVE Records'
  <2>1. ASSUME NEW r, Becomes(p, [cap[p] EXCEPT !.registration = r]),
               UNCHANGED <<mode, active>>, Runs => Runs'
        PROVE  Records'
    <3>1. Lasts(p, [cap[p] EXCEPT !.registration = r])
      BY <1>0 DEF Lasts, CaptureStates
    <3> QED BY <2>1, <3>1, RecordsOn
  <2>2. CASE SessionIsCreated(p) \/ StartIsTold(p)
    BY <1>2, <1>3, <2>2 DEF SessionIsCreated, StartIsTold, pageVars
  <2>3. CASE StartIsAnswered(p)
    BY <1>3, <2>1, <2>3 DEF StartIsAnswered, Steady, captureVars
  <2>4. CASE RegistrationAnswers(p)
    <3>1. CASE t' = Connecting(t) /\ source' = source
      <4>1. Runs => Runs'
        BY <1>0, <3>1 DEF Runs, Connecting, Alive, Transports
      <4> QED BY <2>1, <2>4, <4>1 DEF RegistrationAnswers, Steady
    <3>2. CASE ~(t' = Connecting(t) /\ source' = source)
      BY <1>3, <2>1, <2>4, <3>2 DEF RegistrationAnswers, Steady, captureVars
    <3> QED BY <3>1, <3>2
  <2>5. CASE RegistrationFails(p)
    <3>1. CASE mode = "pcm" /\ Concerns(p) /\ ~cap[p].aborted
      <4> DEFINE c == [cap[p] EXCEPT !.registration = "failed"]
      <4>1. Becomes(p, Failing(c)) /\ active' = active /\ active = p
        BY <2>5, <3>1 DEF RegistrationFails, Concerns
      <4>2. c \in CaptureStates
        BY <1>0 DEF CaptureStates
      <4> HIDE DEF c
      <4>3. Failing(c).failing = "closing"
        BY <4>2 DEF Failing, CaptureStates
      <4>4. cap'[p].failing = "closing"
        BY <1>0, <4>1, <4>3 DEF Becomes
      <4> QED BY <4>1, <4>4 DEF Records
    <3>2. CASE ~(mode = "pcm" /\ Concerns(p) /\ ~cap[p].aborted)
      BY <1>3, <2>1, <2>5, <3>2 DEF RegistrationFails, Steady
    <3> QED BY <3>1, <3>2
  <2> QED BY <1>12, <2>2, <2>3, <2>4, <2>5 DEF Registering
<1>13. ASSUME NEW p \in Turns, NEW shown, NEW claim, Tells(p, shown, claim), UNCHANGED captureVars
       PROVE  Records'
  BY <1>13, RecordsUntilOver DEF Tells, captureVars
<1>14. ASSUME NEW p \in Turns, NEW next, Becomes(p, [cap[p] EXCEPT !.finish = next]),
              next # "none", UNCHANGED <<mode, active, t, source>>
       PROVE  Records'
  <2>1. [cap[p] EXCEPT !.finish = next].finish = next
    BY <1>0 DEF CaptureStates
  <2> QED BY <1>3, <1>14, <2>1, RecordsOn
<1>15. ASSUME NEW p \in Turns, Finishing(p) PROVE Records'
  <2>1. CASE StopTimesOut(p)
    <3>1. StopThrows(p) /\ (turn # p => UNCHANGED <<t, source>>)
      BY <2>1 DEF StopTimesOut
    <3>2. CASE turn # p \/ active = p
      BY <3>1, <3>2, RecordsUntilStopped
    <3>3. CASE turn = p /\ active # p
      <4>1. active = NoPress \/ mode # "pcm"
        BY <1>1, <3>3
      <4>2. mode' = mode /\ (active = NoPress => active' = NoPress)
        BY <3>1 DEF StopThrows, Over, Steady, Without
      <4> QED BY <4>1, <4>2 DEF Records
    <3> QED BY <3>2, <3>3
  <2>2. CASE TransportSettles(p)
    BY <1>13, <2>2, RecordsUntilStopped DEF TransportSettles, captureVars
  <2>3. CASE CheckAnswers(p)
    BY <1>13, <1>14, <2>3 DEF CheckAnswers, Steady, captureVars
  <2>4. CASE CheckFails(p)
    BY <1>13, <2>4, RecordsUntilOver DEF CheckFails, captureVars
  <2>5. CASE ErrorIsPosted(p)
    <3>1. UNCHANGED <<t, source>>
      BY <2>5 DEF ErrorIsPosted
    <3>2. CASE cap[p].finish # "posting"
      <4> DEFINE c == [cap[p] EXCEPT !.report = "done"]
      <4>1. Becomes(p, c) /\ UNCHANGED <<mode, active>>
        BY <2>5, <3>2 DEF ErrorIsPosted, Steady
      <4>2. Lasts(p, c)
        BY <1>0 DEF Lasts, CaptureStates
      <4> QED BY <1>3, <3>1, <4>1, <4>2, RecordsOn
    <3>3. CASE cap[p].finish = "posting"
      <4>1. PICK c : Over(p, c)
        BY <2>5, <3>3 DEF ErrorIsPosted, Tells
      <4> QED BY <3>1, <4>1, RecordsUntilOver
    <3> QED BY <3>2, <3>3
  <2> QED BY <1>15, <2>1, <2>2, <2>3, <2>4, <2>5 DEF Finishing
<1>16. ASSUME NEW p \in Turns, FinishingBatch(p) PROVE Records'
  <2>1. CASE RecorderStops(p) \/ BatchIsSynced(p) \/ StopIsAnswered(p)
    <3>1. mode = "batch" /\ mode' = mode
      BY <2>1 DEF RecorderStops, BatchIsSynced, StopIsAnswered, PageInv, FinishesAreActive,
         BatchFinish, Steady
    <3> QED BY <1>4, <3>1
  <2>2. CASE StopIsTold(p) \/ AudioIsUploaded(p)
    BY <1>2, <1>3, <2>2 DEF StopIsTold, AudioIsUploaded, pageVars
  <2>3. CASE UploadIsAnswered(p) \/ BatchFails(p)
    BY <1>13, <2>3, RecordsUntilOver DEF UploadIsAnswered, BatchFails, captureVars
  <2> QED BY <1>16, <2>1, <2>2, <2>3 DEF FinishingBatch
<1>17. ASSUME NEW p \in Turns, Reporting(p) PROVE Records'
  <2>1. CASE FailureIsShown(p)
    <3> DEFINE c == [Silenced(cap[p]) EXCEPT !.failing = "done", !.report = "creating"]
    <3>1. /\ Becomes(p, c) /\ active' \in {active, NoPress} /\ mode' = mode
          /\ UNCHANGED <<t, source>>
      BY <2>1 DEF FailureIsShown, Without, Steady, captureVars
    <3>2. c.failing = "done"
      <4>1. Silenced(cap[p]) \in CaptureStates
        BY <1>0, SilencedCapture
      <4> QED BY <4>1 DEF CaptureStates
    <3> HIDE DEF c
    <3> QED BY <1>3, <3>1, <3>2, RecordsOn
  <2>2. ASSUME NEW r, Becomes(p, [cap[p] EXCEPT !.report = r]), UNCHANGED <<mode, active, t, source>>
        PROVE  Records'
    <3>1. Lasts(p, [cap[p] EXCEPT !.report = r])
      BY <1>0 DEF Lasts, CaptureStates
    <3> QED BY <1>3, <2>2, <3>1, RecordsOn
  <2>3. CASE ReportRegisters(p) \/ ReportIsGivenUp(p)
    BY <2>2, <2>3 DEF ReportRegisters, ReportIsGivenUp, Steady, captureVars
  <2> QED BY <1>17, <2>1, <2>3 DEF Reporting
<1>18. ASSUME NEW p \in Turns, Outside(p) \/ DeadlinePasses(p) PROVE Records'
  BY <1>2, <1>3, <1>18 DEF Outside, AnalysisEnds, OperatorResets, DeadlinePasses, pageVars
<1> QED
  BY <1>5, <1>6, <1>7, <1>8, <1>9, <1>11, <1>12, <1>15, <1>16, <1>17, <1>18 DEF Next

-----------------------------------------------------------------------------
(* The joint invariant: the page's, the stream's, and what each knows of    *)
(* the other.                                                               *)

RecorderInv ==
  /\ PageInv /\ StreamInv /\ PageMeetsStream
  /\ RecordingIsBound /\ ClaimsHold

LEMMA RecorderInitSound == Init => RecorderInv
<1> SUFFICES ASSUME Init PROVE RecorderInv
  OBVIOUS
<1> USE DEF Init, CaptureInit
<1>1. PageInv
  <2>1. Idle \in CaptureStates /\ OnlyStarts(Idle) /\ Idle.start = "none" /\ Idle.mic = "none"
    BY DEF Idle, CaptureStates, OnlyStarts
  <2>2. \A p \in Turns : cap[p] = Idle
    OBVIOUS
  <2>3. PageTypeOK BY <2>1 DEF PageTypeOK
  <2>4. StartsAlone BY <2>1, <2>2 DEF StartsAlone
  <2>5. ActiveIsLatest BY DEF ActiveIsLatest
  <2>6. MicrophonesAreHeld BY <2>1, <2>2 DEF MicrophonesAreHeld
  <2>7. FailuresHold BY <2>1, <2>2 DEF FailuresHold, OnlyStarts
  <2>8. FinishesAreActive BY <2>1, <2>2 DEF FinishesAreActive, OnlyStarts, StreamFinish, BatchFinish
  <2> QED BY <2>3, <2>4, <2>5, <2>6, <2>7, <2>8 DEF PageInv
<1>2. StreamInv
  <2>1. StreamTypeOK
    <3>1. source \in Sources
      BY DEF Sources, FreshSource, NoLoss, Losses
    <3>2. session \in [Turns -> SessionStatuses]
      BY DEF SessionStatuses
    <3> QED BY <3>1, <3>2, FreshTransportType, FreshStream DEF StreamTypeOK
  <2>2. NoTransport BY DEF NoTransport, FreshSource
  <2>3. Accounts BY DEF Accounts
  <2>4. Sockets BY DEF Sockets, FreshTransport, Alive
  <2>5. StopIsSent BY DEF StopIsSent
  <2>6. SpoolIsWhole BY FreshStream DEF SpoolIsWhole
  <2>7. CompleteIsEmitted BY FreshStream DEF CompleteIsEmitted, IsComplete
  <2>8. FinalsAreEarned BY DEF FinalsAreEarned, FreshTransport
  <2> QED BY <2>1, <2>2, <2>3, <2>4, <2>5, <2>6, <2>7, <2>8 DEF StreamInv
<1>3. PageMeetsStream
  BY DEF PageMeetsStream, Records, Unconnected, Unasked
<1>4. RecordingIsBound
  BY DEF RecordingIsBound
<1>5. ClaimsHold
  <2>1. \A p \in Turns : cap[p].claim = "none"
    BY DEF Idle
  <2> QED BY <2>1 DEF ClaimsHold
<1> QED BY <1>1, <1>2, <1>3, <1>4, <1>5 DEF RecorderInv

LEMMA RecorderNextSound == RecorderInv /\ [Next]_vars => RecorderInv'
<1> SUFFICES ASSUME RecorderInv, [Next]_vars PROVE RecorderInv'
  OBVIOUS
<1>1. /\ PageInv /\ StreamInv /\ PageMeetsStream /\ RecordingIsBound /\ ClaimsHold
      /\ NoTransport /\ session \in [Turns -> SessionStatuses]
  BY DEF RecorderInv, StreamInv, StreamTypeOK
<1>2. CaptureStep
  BY <1>1, CaptureSteps
<1>3. PageInv'
  BY <1>1, PageStep
<1>4. StreamInv'
  BY <1>1, <1>2, StreamStep
<1>5. PageMeetsStream'
  BY <1>1, <1>2, RecordsStep, UnconnectedStep, UnaskedStep DEF PageMeetsStream
<1>6. RecordingIsBound'
  BY <1>1, RecordingIsBoundStep
<1>7. ClaimsHold'
  BY <1>1, <1>2, ClaimsStep
<1> QED BY <1>3, <1>4, <1>5, <1>6, <1>7 DEF RecorderInv

LEMMA RecorderInvariance == Spec => []RecorderInv
BY RecorderInitSound, RecorderNextSound, PTL DEF Spec

\* The page, its presses, its transport and what is on either wire stay in the types of
\* useRecorder's refs and of the ordered PCM protocol.
THEOREM RecorderTypeCorrect == Spec => [](PageTypeOK /\ StreamTypeOK)
<1>1. RecorderInv => PageTypeOK /\ StreamTypeOK
  BY DEF RecorderInv, PageInv, StreamInv
<1> QED BY <1>1, RecorderInvariance, PTL

\* Whatever the coroutines of a press, of the presses before it and of the page's end find
\* after their awaits, a microphone that is open is that of the press that has the input,
\* and the button says so.
THEOREM MicrophoneHasAnOwner == Spec => []MicrophoneIsOwned
<1>1. RecorderInv => MicrophoneIsOwned
  <2> SUFFICES ASSUME RecorderInv, NEW p \in Turns, cap[p].mic = "live"
               PROVE  lease = p /\ (status \in {"idle", "error"} => leaving)
    BY DEF MicrophoneIsOwned
  <2>1. ~leaving /\ (cap[p].start = "starting" \/ active = p)
    BY DEF RecorderInv, PageInv, MicrophonesAreHeld
  <2>2. CASE cap[p].start = "starting"
    BY <2>1, <2>2 DEF RecorderInv, PageInv, StartsAlone
  <2>3. CASE active = p
    BY <2>3 DEF RecorderInv, PageInv, ActiveIsLatest
  <2> QED BY <2>1, <2>2, <2>3
<1> QED BY <1>1, RecorderInvariance, PTL

\* Whatever is late, lost or given up: a final that the page accepts stands for the whole
\* recording on the server, and what the user is told of a turn is so there.
THEOREM VerdictStaysTrue == Spec => []VerdictIsTrue
<1>1. RecorderInv => VerdictIsTrue
  <2> SUFFICES ASSUME RecorderInv PROVE VerdictIsTrue
    OBVIOUS
  <2>1. t.verdict = "final" => IsWhole
    BY DEF RecorderInv, StreamInv, FinalsAreEarned, IsComplete, SpoolIsWhole, IsWhole
  <2>2. ClaimsHold
    BY DEF RecorderInv
  <2> QED BY <2>1, <2>2 DEF VerdictIsTrue, ClaimsHold
<1> QED BY <1>1, RecorderInvariance, PTL

\* The session shown while a registered capture is active is that capture's, whatever an
\* earlier press still reports and whatever is typed meanwhile.
THEOREM RecordingStaysBound == Spec => []RecordingIsBound
<1>1. RecorderInv => RecordingIsBound
  BY DEF RecorderInv
<1> QED BY <1>1, RecorderInvariance, PTL

-----------------------------------------------------------------------------
(* Nothing that is sent is refused: what the server has not read yet, and   *)
(* what is still to be sent, goes on where its stream is.                   *)

Carried(chunks) == [i \in DOMAIN chunks |-> ChunkMessage(chunks[i])]

LEMMA CarriedType ==
  ASSUME NEW chunks \in Seq(Packed)
  PROVE  /\ Carried(chunks) \in Seq(Messages) /\ Len(Carried(chunks)) = Len(chunks)
         /\ \A i \in 1..Len(chunks) : Carried(chunks)[i] = ChunkMessage(chunks[i])
<1>1. \A c \in Packed : ChunkMessage(c) \in Messages
  BY FreshTransportType, MessageTypes
<1>2. DOMAIN chunks = 1..Len(chunks) /\ Len(chunks) \in Nat
  OBVIOUS
<1>3. \A i \in 1..Len(chunks) : ChunkMessage(chunks[i]) \in Messages
  BY <1>1
<1> QED BY <1>2, <1>3 DEF Carried

LEMMA SameEntries ==
  ASSUME NEW S, NEW q \in Seq(S), NEW r \in Seq(S), Len(q) = Len(r),
         \A i \in 1..Len(q) : q[i] = r[i]
  PROVE  q = r
OBVIOUS

LEMMA JoinedEntries ==
  ASSUME NEW S, NEW q \in Seq(S), NEW r \in Seq(S)
  PROVE  /\ q \o r \in Seq(S) /\ Len(q \o r) = Len(q) + Len(r)
         /\ \A i \in 1..Len(q) : (q \o r)[i] = q[i]
         /\ \A i \in 1..Len(r) : (q \o r)[Len(q) + i] = r[i]
OBVIOUS

LEMMA CarriedInParts ==
  ASSUME NEW chunks \in Seq(Packed), NEW n \in 0..Len(chunks)
  PROVE  Carried(SubSeq(chunks, 1, n)) \o Carried(SubSeq(chunks, n + 1, Len(chunks)))
           = Carried(chunks)
<1> DEFINE a == SubSeq(chunks, 1, n)
           b == SubSeq(chunks, n + 1, Len(chunks))
           ab == Carried(a) \o Carried(b)
<1>1. /\ a \in Seq(Packed) /\ b \in Seq(Packed) /\ Len(a) = n /\ Len(b) = Len(chunks) - n
      /\ \A i \in 1..n : a[i] = chunks[i]
      /\ \A i \in 1..(Len(chunks) - n) : b[i] = chunks[n + i]
  OBVIOUS
<1> HIDE DEF a, b
<1>2. /\ Carried(a) \in Seq(Messages) /\ Carried(b) \in Seq(Messages)
      /\ Len(Carried(a)) = n /\ Len(Carried(b)) = Len(chunks) - n
  BY <1>1, CarriedType
<1>3. ab \in Seq(Messages) /\ Len(ab) = Len(chunks)
  <2>1. ab \in Seq(Messages) /\ Len(ab) = Len(Carried(a)) + Len(Carried(b))
    BY <1>2, JoinedEntries
  <2> HIDE DEF ab
  <2> QED BY <1>2, <2>1
<1>4. ASSUME NEW i \in 1..Len(chunks) PROVE ab[i] = ChunkMessage(chunks[i])
  <2>1. CASE i <= n
    <3>1. ab[i] = Carried(a)[i]
      BY <1>2, <2>1
    <3> QED BY <1>1, <2>1, <3>1, CarriedType
  <2>2. CASE i > n
    <3>1. ab[i] = Carried(b)[i - n] /\ i - n \in 1..(Len(chunks) - n)
      BY <1>2, <2>2
    <3>2. b[i - n] = chunks[i]
      BY <1>1, <3>1
    <3> QED BY <1>1, <3>1, <3>2, CarriedType
  <2> HIDE DEF ab
  <2>3. i <= n \/ i > n
    OBVIOUS
  <2> QED BY <2>1, <2>2, <2>3
<1> HIDE DEF ab
<1>5. ab = Carried(chunks)
  BY <1>3, <1>4, CarriedType, SameEntries
<1> QED BY <1>5 DEF ab, a, b

LEMMA CarriedAppend ==
  ASSUME NEW chunks \in Seq(Packed), NEW c \in Packed
  PROVE  Carried(Append(chunks, c)) = Append(Carried(chunks), ChunkMessage(c))
<1> DEFINE q == Append(chunks, c)
           r == Append(Carried(chunks), ChunkMessage(c))
<1>1. /\ q \in Seq(Packed) /\ Len(q) = Len(chunks) + 1 /\ q[Len(chunks) + 1] = c
      /\ \A i \in 1..Len(chunks) : q[i] = chunks[i]
  OBVIOUS
<1>2. ChunkMessage(c) \in Messages
  BY FreshTransportType, MessageTypes
<1>3. /\ r \in Seq(Messages) /\ Len(r) = Len(chunks) + 1
      /\ r[Len(chunks) + 1] = ChunkMessage(c)
      /\ \A i \in 1..Len(chunks) : r[i] = ChunkMessage(chunks[i])
  BY <1>2, CarriedType
<1> HIDE DEF q, r
<1>4. Carried(q) \in Seq(Messages) /\ Len(Carried(q)) = Len(r)
  BY <1>1, <1>3, CarriedType
<1>5. \A i \in 1..Len(r) : Carried(q)[i] = r[i]
  <2> TAKE i \in 1..Len(r)
  <2>1. i \in 1..Len(chunks) \/ i = Len(chunks) + 1
    BY <1>3
  <2> QED BY <1>1, <1>3, <2>1, CarriedType
<1>6. Carried(q) = r
  BY <1>3, <1>4, <1>5, SameEntries
<1> QED BY <1>6 DEF q, r

-----------------------------------------------------------------------------
(* What the server has taken, message by message.                           *)

Marks == [frames : Nat, time : Nat, loss : Evidences]

Reached(s) == [frames |-> s.frameCount, time |-> s.lastTime, loss |-> s.loss]

\* The message leads from one mark to the next, within what the reducer allows.
Leads(a, m, b) ==
  /\ m.identity = "turn"
  /\ a.time <= m.time /\ b.time = m.time
  /\ Server!Covers(m.loss, a.loss) /\ b.loss = m.loss
  /\ Server!PcmByteCountIs(m.loss.droppedFrameCount, m.loss.droppedByteCount)
  /\ Server!PcmByteCountIs(m.frames, m.bytes)
  /\ 2 * b.frames <= MaxSafe
  /\ \/ m.type = "chunk" /\ b.frames = a.frames + m.frames
     \/ /\ m.type = "stop" /\ m.frames = a.frames /\ b.frames = a.frames
        /\ Abs(m.time - m.frames - m.loss.droppedFrameCount) <= MaxDrift

IsNumbered(q, last, i) ==
  \/ q[i].type = "chunk" /\ q[i].sequence = last + i
  \/ q[i].type = "stop" /\ i = Len(q) /\ q[i].finalSequence = last + i - 1

Chained(q, last, at) ==
  \A i \in 1..Len(q) : Leads(at[i - 1], q[i], at[i]) /\ IsNumbered(q, last, i)

AllChunks(q) == \A i \in 1..Len(q) : q[i].type = "chunk"

LEMMA ChainGrows ==
  ASSUME NEW q \in Seq(Messages), NEW m \in Messages, NEW last \in Nat,
         NEW at \in [Nat -> Marks], NEW b \in Marks,
         Chained(q, last, at), AllChunks(q), Leads(at[Len(q)], m, b),
         \/ m.type = "chunk" /\ m.sequence = last + Len(q) + 1
         \/ m.type = "stop" /\ m.finalSequence = last + Len(q)
  PROVE  LET more == [at EXCEPT ![Len(q) + 1] = b] IN
         /\ more \in [Nat -> Marks] /\ more[0] = at[0] /\ more[Len(q) + 1] = b
         /\ Chained(Append(q, m), last, more)
<1> DEFINE n == Len(q)
           more == [at EXCEPT ![n + 1] = b]
           r == Append(q, m)
<1>1. n \in Nat /\ Len(r) = n + 1 /\ r[n + 1] = m /\ \A i \in 1..n : r[i] = q[i]
  OBVIOUS
<1>2. more \in [Nat -> Marks] /\ more[n + 1] = b /\ \A i \in Nat : i <= n => more[i] = at[i]
  BY <1>1
<1> HIDE DEF more, r
<1>3. ASSUME NEW i \in 1..(n + 1)
      PROVE  Leads(more[i - 1], r[i], more[i]) /\ IsNumbered(r, last, i)
  <2>1. CASE i \in 1..n
    <3>1. more[i - 1] = at[i - 1] /\ more[i] = at[i] /\ r[i] = q[i]
      BY <1>1, <1>2, <2>1
    <3>2. Leads(at[i - 1], q[i], at[i]) /\ q[i].type = "chunk" /\ q[i].sequence = last + i
      BY <2>1 DEF Chained, AllChunks, IsNumbered
    <3> QED BY <3>1, <3>2 DEF IsNumbered
  <2>2. CASE i = n + 1
    <3>1. more[i - 1] = at[n] /\ more[i] = b /\ r[i] = m /\ i - 1 = n
      BY <1>1, <1>2, <2>2
    <3>2. last + n + 1 = last + i /\ last + n = last + i - 1
      BY <1>1, <2>2
    <3> QED BY <1>1, <2>2, <3>1, <3>2 DEF IsNumbered
  <2> QED BY SMTT(30), <1>1, <2>1, <2>2
<1>4. Chained(r, last, more)
  BY <1>1, <1>3 DEF Chained
<1> QED BY <1>1, <1>2, <1>4 DEF more, r

LEMMA ChainPrefix ==
  ASSUME NEW q, NEW r, NEW last, NEW at, Len(q) \in Nat, Len(r) \in Nat,
         Chained(q, last, at), Len(r) <= Len(q), \A i \in 1..Len(r) : r[i] = q[i]
  PROVE  Chained(r, last, at)
<1> SUFFICES ASSUME NEW i \in 1..Len(r)
             PROVE  Leads(at[i - 1], r[i], at[i]) /\ IsNumbered(r, last, i)
  BY DEF Chained
<1>1. i \in 1..Len(q) /\ r[i] = q[i] /\ (i = Len(q) => i = Len(r))
  OBVIOUS
<1>2. Leads(at[i - 1], q[i], at[i]) /\ IsNumbered(q, last, i)
  BY <1>1 DEF Chained
<1> QED BY <1>1, <1>2 DEF IsNumbered

LEMMA ChainRest ==
  ASSUME NEW q \in Seq(Messages), q # <<>>, NEW last \in Nat, NEW at \in [Nat -> Marks],
         Chained(q, last, at)
  PROVE  LET rest == [i \in Nat |-> at[i + 1]] IN
         /\ rest \in [Nat -> Marks] /\ rest[0] = at[1] /\ rest[Len(q) - 1] = at[Len(q)]
         /\ Tail(q) \in Seq(Messages) /\ Len(Tail(q)) = Len(q) - 1
         /\ q[1].type = "chunk" => Chained(Tail(q), last + 1, rest)
         /\ q[1].type = "stop" => Tail(q) = <<>>
<1> DEFINE n == Len(q)
           rest == [i \in Nat |-> at[i + 1]]
           r == Tail(q)
<1>1. /\ n \in Nat /\ n >= 1 /\ r \in Seq(Messages) /\ Len(r) = n - 1
      /\ \A i \in 1..(n - 1) : r[i] = q[i + 1]
  OBVIOUS
<1>2. rest \in [Nat -> Marks] /\ \A i \in Nat : rest[i] = at[i + 1]
  OBVIOUS
<1> HIDE DEF rest, r
<1>3. ASSUME NEW i \in 1..(n - 1)
      PROVE  Leads(rest[i - 1], r[i], rest[i]) /\ IsNumbered(r, last + 1, i)
  <2>0. i \in Nat /\ i - 1 \in Nat /\ i - 1 + 1 = i
    BY <1>1
  <2>1. rest[i - 1] = at[i] /\ rest[i] = at[i + 1] /\ r[i] = q[i + 1]
    BY <1>1, <1>2, <2>0
  <2>2. Leads(at[i], q[i + 1], at[i + 1]) /\ IsNumbered(q, last, i + 1)
    <3> DEFINE j == i + 1
    <3>1. j \in 1..Len(q) /\ j - 1 = i
      BY <1>1
    <3> HIDE DEF j
    <3>2. Leads(at[j - 1], q[j], at[j]) /\ IsNumbered(q, last, j)
      BY <3>1 DEF Chained
    <3> QED BY <3>1, <3>2 DEF j
  <2>3. /\ last + (i + 1) = last + 1 + i /\ last + (i + 1) - 1 = last + 1 + i - 1
        /\ (i + 1 = n => i = Len(r))
    <3>1. n \in Nat /\ Len(r) = n - 1
      BY <1>1
    <3> HIDE DEF n
    <3>2. /\ last + (i + 1) = last + 1 + i /\ last + (i + 1) - 1 = last + 1 + i - 1
          /\ (i + 1 = n => i = n - 1)
      BY <2>0, <3>1, NextPlace
    <3> QED BY <3>1, <3>2
  <2>4. Leads(rest[i - 1], r[i], rest[i])
    BY <2>1, <2>2
  <2>5. IsNumbered(r, last + 1, i)
    BY <2>1, <2>2, <2>3, SMTT(30) DEF IsNumbered
  <2> QED BY <2>4, <2>5
<1>4. Chained(r, last + 1, rest)
  BY <1>1, <1>3 DEF Chained
<1>5. q[1].type = "stop" => r = <<>>
  <2>0. 1 \in 1..Len(q)
    BY <1>1
  <2>1. IsNumbered(q, last, 1)
    BY <2>0 DEF Chained
  <2>2. q[1].type = "stop" => n = 1
    BY <2>1 DEF IsNumbered
  <2> QED BY <1>1, <2>2
<1>6. rest[0] = at[1] /\ rest[n - 1] = at[n]
  BY <1>1, <1>2
<1> QED BY <1>1, <1>2, <1>4, <1>5, <1>6 DEF rest, r

-----------------------------------------------------------------------------
\* What the server has not taken yet; its start is no mark.
Unread == IF link = "open" /\ stream.phase = "idle" THEN Tail(wire) ELSE wire

\* What it is to take of a transport: that, and the chunks that are still held back.
Owed(u) == Unread \o Carried(u.pending)

\* They lead to where the transport is.
Agrees(u, q, at) ==
  /\ AllChunks(q) /\ stream.lastSequence + Len(q) = u.next - 1
  /\ at[Len(q)].frames = u.emitted /\ at[Len(q)].time <= u.lastTime
  /\ Server!Covers(Evidence(u.loss), at[Len(q)].loss)

Promised(u, q) ==
  \E at \in [Nat -> Marks] :
    /\ at[0] = Reached(stream) /\ Chained(q, stream.lastSequence, at)
    /\ Alive(u) /\ u.stop # "sent" => Agrees(u, q, at)

SentIsChained == link # "closed" => Promised(t, Owed(t))

Begun == link = "open" /\ stream.phase = "idle" => wire # <<>>

LEMMA TailJoined ==
  ASSUME NEW S, NEW q \in Seq(S), NEW r \in Seq(S), q # <<>>
  PROVE  Tail(q \o r) = Tail(q) \o r
<1> DEFINE a == Tail(q \o r)
           b == Tail(q) \o r
<1>1. Len(q) \in Nat /\ Len(q) >= 1 /\ Len(r) \in Nat
  OBVIOUS
<1>2. /\ q \o r \in Seq(S) /\ Len(q \o r) = Len(q) + Len(r) /\ q \o r # <<>>
  <2>1. q \o r \in Seq(S) /\ Len(q \o r) = Len(q) + Len(r)
    BY JoinedEntries
  <2> QED BY <1>1, <2>1
<1>3. /\ Tail(q) \in Seq(S) /\ Len(Tail(q)) = Len(q) - 1
      /\ \A i \in 1..(Len(q) - 1) : Tail(q)[i] = q[i + 1]
  BY <1>1
<1>4. /\ a \in Seq(S) /\ Len(a) = Len(q) + Len(r) - 1
      /\ \A i \in 1..(Len(q) + Len(r) - 1) : a[i] = (q \o r)[i + 1]
  <2> DEFINE j == q \o r
  <2>1. j \in Seq(S) /\ j # <<>> /\ Len(j) = Len(q) + Len(r)
    BY <1>2
  <2> HIDE DEF j
  <2>2. Tail(j) \in Seq(S) /\ Len(Tail(j)) = Len(j) - 1 /\ \A i \in 1..(Len(j) - 1) : Tail(j)[i] = j[i + 1]
    BY <2>1
  <2> QED BY <2>1, <2>2 DEF j
<1>5. b \in Seq(S) /\ Len(b) = Len(q) - 1 + Len(r)
  BY <1>3, JoinedEntries
<1>6. ASSUME NEW i \in 1..(Len(q) + Len(r) - 1) PROVE a[i] = b[i]
  <2>1. a[i] = (q \o r)[i + 1]
    BY <1>4
  <2>2. CASE i <= Len(q) - 1
    <3>1. i \in 1..(Len(q) - 1) /\ i + 1 \in 1..Len(q)
      BY <1>1, <2>2
    <3>2. (q \o r)[i + 1] = q[i + 1] /\ b[i] = Tail(q)[i]
      BY <1>3, <3>1, JoinedEntries
    <3> QED BY <1>3, <2>1, <3>1, <3>2
  <2>3. CASE i > Len(q) - 1
    <3> DEFINE k == i - (Len(q) - 1)
    <3>1. k \in 1..Len(r) /\ i + 1 = Len(q) + k /\ i = Len(q) - 1 + k
      BY <1>1, <2>3
    <3> HIDE DEF k
    <3>2. (q \o r)[Len(q) + k] = r[k]
      BY <3>1, JoinedEntries
    <3>3. b[Len(q) - 1 + k] = r[k]
      BY <1>3, <3>1, JoinedEntries
    <3> QED BY <2>1, <3>1, <3>2, <3>3
  <2> QED BY <1>1, <2>2, <2>3
<1> HIDE DEF a, b
<1>7. a = b
  BY <1>1, <1>4, <1>5, <1>6, SameEntries
<1> QED BY <1>7 DEF a, b

LEMMA JoinedThrice ==
  ASSUME NEW a \in Seq(Messages), NEW b \in Seq(Messages), NEW c \in Seq(Messages)
  PROVE  (a \o b) \o c = a \o (b \o c)
BY SMTT(30)

LEMMA JoinedAppend ==
  ASSUME NEW S, NEW a \in Seq(S), NEW b \in Seq(S), NEW x \in S
  PROVE  a \o Append(b, x) = Append(a \o b, x)
OBVIOUS

LEMMA UnreadType ==
  ASSUME StreamTypeOK, Begun
  PROVE  /\ Unread \in Seq(Messages)
         /\ \A u \in Transports : Owed(u) \in Seq(Messages)
<1>1. wire \in Seq(Messages) /\ (wire # <<>> => Tail(wire) \in Seq(Messages))
  BY DEF StreamTypeOK
<1>2. Unread \in Seq(Messages)
  BY <1>1 DEF Unread, Begun
<1>3. ASSUME NEW u \in Transports PROVE Owed(u) \in Seq(Messages)
  <2>1. Carried(u.pending) \in Seq(Messages)
    BY CarriedType DEF Transports
  <2> QED BY <1>2, <2>1, JoinedEntries DEF Owed
<1> QED BY <1>2, <1>3

LEMMA UnreadGrows ==
  ASSUME StreamTypeOK, Begun, UNCHANGED <<link, stream>>,
         NEW sent \in Seq(Messages), wire' = wire \o sent
  PROVE  Unread' = Unread \o sent
<1>1. wire \in Seq(Messages)
  BY DEF StreamTypeOK
<1> QED BY <1>1, TailJoined DEF Unread, Begun

\* Sending moves chunks from the transport to the wire.
LEMMA PumpKeepsOwed ==
  ASSUME StreamTypeOK, Begun, UNCHANGED <<link, stream>>, NEW u \in Transports, Pump(u)
  PROVE  Owed(t)' = Owed(u)
<1> DEFINE n == Len(Burst(u))
           v == Pumped(u)
<1>1. /\ t' = v /\ wire' = wire \o Carried(Burst(u))
  BY DEF Pump, Sends, Carried
<1>2. /\ n \in 0..Len(u.pending) /\ Burst(u) = SubSeq(u.pending, 1, n) /\ Burst(u) \in Seq(Packed)
      /\ u.pending \in Seq(Packed)
      /\ v.pending = SubSeq(u.pending, n + 1, Len(u.pending))
  <2>1. u.pending \in Seq(Packed)
    BY DEF Transports
  <2>2. /\ n \in 0..Len(u.pending) /\ Burst(u) = SubSeq(u.pending, 1, n)
        /\ Burst(u) \in Seq(Packed)
        /\ ~Pumps(u) => Burst(u) = <<>> /\ v = u
        /\ Pumps(u) => v.pending = SubSeq(u.pending, n + 1, Len(u.pending))
    BY PumpedTransport
  <2>3. SubSeq(u.pending, 0 + 1, Len(u.pending)) = u.pending
    BY <2>1
  <2>4. ~Pumps(u) => n = 0
    BY <2>2
  <2> QED BY <2>1, <2>2, <2>3, <2>4
<1> HIDE DEF v
<1>3. /\ Carried(Burst(u)) \in Seq(Messages) /\ Carried(v.pending) \in Seq(Messages)
      /\ Carried(Burst(u)) \o Carried(v.pending) = Carried(u.pending)
  <2>1. v.pending \in Seq(Packed)
    BY <1>2
  <2> HIDE DEF n
  <2> QED BY <1>2, <2>1, CarriedType, CarriedInParts
<1>4. Unread \in Seq(Messages) /\ Unread' = Unread \o Carried(Burst(u))
  BY <1>1, <1>3, UnreadType, UnreadGrows
<1>5. Owed(t)' = (Unread \o Carried(Burst(u))) \o Carried(v.pending)
  BY <1>1, <1>4 DEF Owed, Carried
<1> DEFINE x == Unread
           b == Carried(Burst(u))
           c == Carried(v.pending)
<1>6. /\ x \in Seq(Messages) /\ b \in Seq(Messages) /\ c \in Seq(Messages)
      /\ Owed(t)' = (x \o b) \o c /\ Owed(u) = x \o (b \o c)
  BY <1>3, <1>4, <1>5 DEF Owed
<1> HIDE DEF x, b, c
<1>7. (x \o b) \o c = x \o (b \o c)
  BY ZenonT(40), <1>6, JoinedThrice
<1> QED BY <1>6, <1>7

\* A transport that gets on with what it has promised to send keeps its promise.
LEMMA PromiseMoves ==
  ASSUME NEW u \in Transports, NEW v \in Transports, NEW q \in Seq(Messages), Promised(u, q),
         Alive(v) /\ v.stop # "sent" =>
           /\ Alive(u) /\ u.stop # "sent" /\ v.next = u.next /\ v.emitted = u.emitted
           /\ u.lastTime <= v.lastTime
           /\ Server!Covers(Evidence(v.loss), Evidence(u.loss))
  PROVE  Promised(v, q)
<1>1. PICK at \in [Nat -> Marks] :
        /\ at[0] = Reached(stream) /\ Chained(q, stream.lastSequence, at)
        /\ Alive(u) /\ u.stop # "sent" => Agrees(u, q, at)
  BY DEF Promised
<1>2. ASSUME Alive(v), v.stop # "sent" PROVE Agrees(v, q, at)
  <2> DEFINE m == at[Len(q)]
  <2>1. m \in Marks /\ Evidence(u.loss) \in Evidences /\ Evidence(v.loss) \in Evidences
        /\ u.lastTime \in Nat /\ v.lastTime \in Nat
    BY EvidenceType DEF Transports
  <2>2. /\ AllChunks(q) /\ stream.lastSequence + Len(q) = u.next - 1
        /\ m.frames = u.emitted /\ m.time <= u.lastTime
        /\ Server!Covers(Evidence(u.loss), m.loss)
    BY <1>1, <1>2 DEF Agrees
  <2> HIDE DEF m
  <2>3. m.time \in Nat /\ m.loss \in Evidences
    BY <2>1 DEF Marks
  <2>4. m.time <= v.lastTime
    BY <1>2, <2>1, <2>2, <2>3
  <2>5. Server!Covers(Evidence(v.loss), m.loss)
    <3> DEFINE x == Evidence(v.loss)
               y == Evidence(u.loss)
               z == m.loss
    <3>1. x \in Evidences /\ y \in Evidences /\ z \in Evidences
          /\ Server!Covers(x, y) /\ Server!Covers(y, z)
      BY <1>2, <2>1, <2>2, <2>3
    <3> HIDE DEF x, y, z
    <3>2. Server!Covers(x, z)
      BY SMTT(30), <3>1 DEF Server!Covers, Evidences
    <3> QED BY <3>2 DEF x, z
  <2> QED BY <1>2, <2>2, <2>4, <2>5 DEF Agrees, m
<1> QED BY <1>1, <1>2 DEF Promised

\* What is packed goes on where the last chunk ended.
LEMMA FlushKeepsPromise ==
  ASSUME StreamTypeOK, Begun, NEW u \in Transports, Alive(u), u.stop # "sent",
         Promised(u, Owed(u)), Alive(Flushed(u)),
         2 * (u.emitted + u.buffer) <= MaxSafe, 2 * Dropped(u.loss) <= MaxSafe
  PROVE  Promised(Flushed(u), Owed(Flushed(u)))
<1> DEFINE v == Flushed(u)
           c == [sequence |-> u.next, frames |-> u.buffer, time |-> u.lastTime,
                 loss |-> u.loss]
           m == ChunkMessage(c)
           q == Owed(u)
           n == Len(q)
           b == [frames |-> v.emitted, time |-> u.lastTime, loss |-> Evidence(u.loss)]
<1>1. /\ v \in Transports /\ SameCourse(u, v) /\ v.emitted = u.emitted + u.buffer
      /\ v.stop = u.stop
      /\ u.buffer = 0 => v = u
      /\ u.buffer # 0 => v.next = u.next + 1 /\ v.pending = Append(u.pending, c)
  BY FlushedTransport, EndedTransport
<1> HIDE DEF v
<1>2. CASE u.buffer = 0
  BY <1>1, <1>2 DEF v
<1>3. CASE u.buffer # 0
  <2>1. /\ u.next \in Nat \ {0} /\ u.buffer \in Nat \ {0} /\ u.lastTime \in Nat
        /\ u.emitted \in Nat /\ u.loss \in Losses /\ u.pending \in Seq(Packed)
        /\ v.emitted \in Nat
    BY <1>1, <1>3 DEF Transports
  <2>2. c \in Packed
    BY <2>1 DEF Packed
  <2>3. q \in Seq(Messages) /\ n \in Nat
    BY UnreadType
  <2>4. /\ m \in Messages /\ m.type = "chunk" /\ m.identity = "turn" /\ m.sequence = u.next
        /\ m.time = u.lastTime /\ m.frames = u.buffer /\ m.bytes = 2 * u.buffer
        /\ m.loss = Evidence(u.loss)
    <3>1. m \in Messages
      BY <2>2, FreshTransportType, MessageTypes
    <3> QED BY <3>1 DEF ChunkMessage
  <2>5. Owed(v) = Append(q, m)
    <3>1. Carried(u.pending) \in Seq(Messages) /\ Unread \in Seq(Messages)
      BY <2>1, CarriedType, UnreadType
    <3>2. Carried(v.pending) = Append(Carried(u.pending), m)
      BY <1>1, <1>3, <2>1, <2>2, CarriedAppend
    <3> HIDE DEF m
    <3> QED BY SMTT(30), <2>4, <3>1, <3>2, JoinedAppend DEF Owed
  <2>6. PICK at \in [Nat -> Marks] :
          /\ at[0] = Reached(stream) /\ Chained(q, stream.lastSequence, at)
          /\ Agrees(u, q, at)
    BY DEF Promised
  <2>7. Evidence(u.loss) \in Evidences /\ Dropped(u.loss) \in Nat
    BY <2>1, EvidenceType
  <2>8. b \in Marks /\ b.frames = v.emitted /\ b.time = u.lastTime /\ b.loss = Evidence(u.loss)
    BY <2>1, <2>7 DEF Marks
  <2> HIDE DEF c, m, q, n, b
  <2>9. /\ AllChunks(q) /\ stream.lastSequence + n = u.next - 1
        /\ at[n].frames = u.emitted /\ at[n].time <= u.lastTime
        /\ Server!Covers(Evidence(u.loss), at[n].loss)
    BY <2>6 DEF Agrees, n
  <2>10. Leads(at[n], m, b)
    <3>1. Server!PcmByteCountIs(m.loss.droppedFrameCount, m.loss.droppedByteCount)
      BY <2>4, <2>7 DEF Evidence, Server!PcmByteCountIs, Server!IsSafe
    <3>2. 2 * u.buffer <= 2 * (u.emitted + u.buffer)
      BY <2>1
    <3>3. Server!PcmByteCountIs(m.frames, m.bytes)
      <4>1. 2 * u.buffer <= MaxSafe
        BY <2>1, <3>2
      <4> QED BY <2>4, <4>1 DEF Server!PcmByteCountIs, Server!IsSafe
    <3>4. 2 * b.frames <= MaxSafe
      BY <1>1, <2>8
    <3> QED BY <1>1, <2>4, <2>8, <2>9, <3>1, <3>3, <3>4 DEF Leads
  <2>11. stream.lastSequence \in Nat /\ m.sequence = stream.lastSequence + n + 1
    <3>1. stream.lastSequence \in Nat
      BY DEF StreamTypeOK, Streams
    <3> QED BY <2>1, <2>3, <2>4, <2>9, <3>1 DEF n
  <2> DEFINE more == [at EXCEPT ![n + 1] = b]
  <2>12. /\ more \in [Nat -> Marks] /\ more[0] = at[0] /\ more[n + 1] = b
         /\ Chained(Append(q, m), stream.lastSequence, more)
    BY <2>3, <2>4, <2>6, <2>8, <2>9, <2>10, <2>11, ChainGrows DEF n, q
  <2> HIDE DEF more
  <2>13. Agrees(v, Append(q, m), more)
    <3>1. Len(Append(q, m)) = n + 1 /\ AllChunks(Append(q, m))
      <4>1. /\ q \in Seq(Messages) /\ n = Len(q)
        BY <2>3 DEF q, n
      <4>2. Len(Append(q, m)) = n + 1 /\ Append(q, m)[n + 1] = m
            /\ \A i \in 1..n : Append(q, m)[i] = q[i]
        BY <4>1
      <4>3. \A i \in 1..(n + 1) : i \in 1..n \/ i = n + 1
        BY <2>3 DEF n
      <4> QED BY <2>4, <2>9, <4>1, <4>2, <4>3 DEF AllChunks
    <3>2. stream.lastSequence + (n + 1) = v.next - 1
      <4>1. v.next = u.next + 1
        BY <1>1, <1>3
      <4>2. n \in Nat
        BY <2>3 DEF n
      <4>3. /\ stream.lastSequence + n = u.next - 1 /\ stream.lastSequence \in Nat
            /\ u.next \in Nat
        BY <2>1, <2>9, <2>11
      <4> QED BY <4>1, <4>2, <4>3
    <3>3. v.lastTime = u.lastTime /\ v.loss = u.loss
      BY <1>1 DEF SameCourse
    <3>4. Server!Covers(Evidence(u.loss), Evidence(u.loss))
      BY <2>7 DEF Server!Covers, Evidences
    <3> QED BY SMTT(30), <2>1, <2>8, <2>12, <3>1, <3>2, <3>3, <3>4 DEF Agrees
  <2> QED BY <2>5, <2>6, <2>12, <2>13 DEF Promised, v
<1> QED BY <1>2, <1>3

\* A transport that ends leaves of its promise what it has sent.
LEMMA PromiseEnds ==
  ASSUME NEW u, NEW v, NEW q \in Seq(Messages), NEW r \in Seq(Messages), Promised(u, q),
         ~Alive(v), Len(r) <= Len(q), \A i \in 1..Len(r) : r[i] = q[i]
  PROVE  Promised(v, r)
<1>1. PICK at \in [Nat -> Marks] : at[0] = Reached(stream) /\ Chained(q, stream.lastSequence, at)
  BY DEF Promised
<1>2. Len(q) \in Nat /\ Len(r) \in Nat
  OBVIOUS
<1>3. Chained(r, stream.lastSequence, at)
  BY <1>1, <1>2, ChainPrefix
<1> QED BY <1>1, <1>3 DEF Promised

LEMMA PartsJoined ==
  ASSUME NEW read \in Seq(Messages), NEW chunks \in Seq(Packed), NEW n \in 0..Len(chunks)
  PROVE  LET front == Carried(SubSeq(chunks, 1, n))
             back == Carried(SubSeq(chunks, n + 1, Len(chunks)))
         IN  /\ read \o Carried(chunks) = (read \o front) \o back
             /\ front \in Seq(Messages) /\ back \in Seq(Messages)
<1> DEFINE front == Carried(SubSeq(chunks, 1, n))
           back == Carried(SubSeq(chunks, n + 1, Len(chunks)))
<1>1. /\ SubSeq(chunks, 1, n) \in Seq(Packed)
      /\ SubSeq(chunks, n + 1, Len(chunks)) \in Seq(Packed)
  OBVIOUS
<1>2. /\ front \in Seq(Messages) /\ back \in Seq(Messages)
      /\ Carried(chunks) = front \o back
  BY <1>1, CarriedType, CarriedInParts
<1> HIDE DEF front, back
<1>3. (read \o front) \o back = read \o (front \o back)
  BY <1>2, JoinedThrice
<1> QED BY <1>2, <1>3 DEF front, back

\* It may still have sent the first of its chunks.
LEMMA EndedKeepsPromise ==
  ASSUME StreamTypeOK, Begun, UNCHANGED <<link, stream>>, NEW u \in Transports,
         Promised(u, Owed(u)), ~Alive(t'), t'.pending = <<>>,
         NEW n \in 0..Len(u.pending), wire' = wire \o Carried(SubSeq(u.pending, 1, n))
  PROVE  Promised(t, Owed(t))'
<1> DEFINE front == Carried(SubSeq(u.pending, 1, n))
           back == Carried(SubSeq(u.pending, n + 1, Len(u.pending)))
           read == Unread
           r == read \o front
           q == Owed(u)
<1>1. u.pending \in Seq(Packed) /\ read \in Seq(Messages)
  BY UnreadType DEF Transports
<1>2. /\ front \in Seq(Messages) /\ back \in Seq(Messages)
      /\ q = r \o back
  <2> DEFINE chunks == u.pending
  <2>1. chunks \in Seq(Packed) /\ read \in Seq(Messages) /\ n \in 0..Len(chunks)
    BY <1>1
  <2>2. q = read \o Carried(chunks)
    BY DEF Owed
  <2> HIDE DEF chunks, read, q
  <2>3. /\ read \o Carried(chunks)
           = (read \o Carried(SubSeq(chunks, 1, n))) \o Carried(SubSeq(chunks, n + 1, Len(chunks)))
        /\ Carried(SubSeq(chunks, 1, n)) \in Seq(Messages)
        /\ Carried(SubSeq(chunks, n + 1, Len(chunks))) \in Seq(Messages)
    BY <2>1, PartsJoined
  <2> QED BY <2>2, <2>3 DEF chunks
<1>3. Unread' = r
  BY <1>2, UnreadGrows
<1>4. Owed(t)' = Unread' \o <<>>
  BY DEF Owed, Carried
<1> HIDE DEF read, front, back, q
<1>5. r \in Seq(Messages)
  BY <1>1, <1>2, JoinedEntries
<1> HIDE DEF r
<1>6. Owed(t)' = r
  BY <1>3, <1>4, <1>5
<1>9. q \in Seq(Messages) /\ Len(q) = Len(r) + Len(back)
      /\ \A i \in 1..Len(r) : q[i] = r[i]
  BY <1>2, <1>5, JoinedEntries
<1>10. Len(r) <= Len(q)
  <2>1. Len(r) \in Nat /\ Len(back) \in Nat
    BY <1>2, <1>5
  <2> QED BY <1>9, <2>1
<1>11. Promised(u, q)
  BY DEF q
<1>12. Promised(t', r)
  BY <1>5, <1>9, <1>10, <1>11, PromiseEnds
<1> QED BY <1>6, <1>12 DEF Promised, Agrees

LEMMA CoversItself ==
  ASSUME NEW loss \in Losses PROVE Server!Covers(Evidence(loss), Evidence(loss))
BY EvidenceType DEF Server!Covers, Evidences

LEMMA PumpKeepsPromise ==
  ASSUME StreamTypeOK, Begun, UNCHANGED <<link, stream>>, NEW u \in Transports,
         Promised(u, Owed(u)), Pump(u)
  PROVE  Promised(t, Owed(t))'
<1> DEFINE v == Pumped(u)
           q == Owed(u)
<1>1. /\ v \in Transports /\ SameCourse(u, v) /\ v.next = u.next /\ v.emitted = u.emitted
      /\ v.stop = u.stop \/ (u.stop = "requested" /\ v.stop = "hashing")
  BY PumpedTransport
<1>2. t' = v /\ Owed(t)' = q
  BY PumpKeepsOwed DEF Pump
<1>3. q \in Seq(Messages) /\ Promised(u, q)
  BY UnreadType
<1> HIDE DEF v, q
<1>4. /\ u.lastTime <= v.lastTime /\ Server!Covers(Evidence(v.loss), Evidence(u.loss))
      /\ Alive(v) => Alive(u)
      /\ v.stop # "sent" => u.stop # "sent"
  <2>1. v.lastTime = u.lastTime /\ v.loss = u.loss /\ v.verdict = u.verdict
    BY <1>1 DEF SameCourse
  <2>2. u.lastTime \in Nat /\ u.loss \in Losses
    BY DEF Transports
  <2>3. u.lastTime <= v.lastTime
    BY <2>1, <2>2
  <2> QED BY <1>1, <2>1, <2>2, <2>3, CoversItself DEF Alive
<1>5. Promised(v, q)
  BY <1>1, <1>3, <1>4, PromiseMoves
<1> QED BY <1>2, <1>5 DEF Promised, Agrees

LEMMA EndedInSilence ==
  ASSUME StreamTypeOK, Begun, UNCHANGED <<link, stream, wire>>, Promised(t, Owed(t)),
         ~Alive(t'), t'.pending = <<>>
  PROVE  Promised(t, Owed(t))'
<1>1. t \in Transports /\ t.pending \in Seq(Packed) /\ wire \in Seq(Messages)
  BY DEF StreamTypeOK, Transports
<1>2. SubSeq(t.pending, 1, 0) = <<>> /\ 0 \in 0..Len(t.pending)
  BY <1>1
<1>3. Carried(<<>>) = <<>>
  BY DEF Carried
<1>4. wire' = wire \o <<>>
  BY <1>1
<1>5. wire' = wire \o Carried(SubSeq(t.pending, 1, 0))
  BY <1>2, <1>3, <1>4
<1> QED BY <1>1, <1>2, <1>5, EndedKeepsPromise

LEMMA LastEntry ==
  ASSUME NEW S, NEW q \in Seq(S), Len(q) = 1 PROVE Tail(q) = <<>>
<1>1. q # <<>>
  OBVIOUS
<1> DEFINE r == Tail(q)
<1>2. r \in Seq(S) /\ Len(r) = 0
  BY <1>1
<1> HIDE DEF r
<1>3. r = <<>>
  BY <1>2
<1> QED BY <1>3 DEF r

LEMMA OneOfTwo ==
  ASSUME NEW n \in Nat, NEW m \in Nat, n >= 1, n + m = 1 PROVE n = 1
OBVIOUS

\* What the server reads of an open stream is what leads on from where it is.
LEMMA HeadIsDue ==
  ASSUME StreamTypeOK, link = "open", stream.phase # "idle", wire # <<>>,
         Promised(t, Owed(t))
  PROVE  \E b \in Marks :
           /\ Leads(Reached(stream), Head(wire), b)
           /\ \/ Head(wire).type = "chunk" /\ Head(wire).sequence = stream.lastSequence + 1
              \/ /\ Head(wire).type = "stop" /\ Head(wire).finalSequence = stream.lastSequence
                 /\ Tail(wire) = <<>>
<1> DEFINE q == Owed(t)
           rest == Carried(t.pending)
<1>1. q = wire \o rest
  BY DEF Owed, Unread
<1>2. wire \in Seq(Messages) /\ rest \in Seq(Messages)
  BY CarriedType DEF StreamTypeOK, Transports
<1>3. PICK at \in [Nat -> Marks] : at[0] = Reached(stream) /\ Chained(q, stream.lastSequence, at)
  BY DEF Promised
<1> HIDE DEF q, rest
<1>4. /\ Len(wire) \in Nat /\ Len(wire) >= 1 /\ Len(rest) \in Nat
      /\ Len(q) = Len(wire) + Len(rest) /\ q[1] = wire[1] /\ Head(wire) = wire[1]
  <2>1. Len(wire) \in Nat /\ Len(wire) >= 1 /\ Len(rest) \in Nat /\ Head(wire) = wire[1]
    BY <1>2
  <2>2. 1 \in 1..Len(wire)
    BY <2>1
  <2> QED BY <1>1, <1>2, <2>1, <2>2, JoinedEntries
<1>5. Leads(at[0], q[1], at[1]) /\ IsNumbered(q, stream.lastSequence, 1)
  <2> DEFINE j == 1
  <2>1. j \in 1..Len(q) /\ j - 1 = 0
    BY <1>4
  <2> HIDE DEF j
  <2>2. Leads(at[j - 1], q[j], at[j]) /\ IsNumbered(q, stream.lastSequence, j)
    BY <1>3, <2>1 DEF Chained
  <2> QED BY <2>1, <2>2 DEF j
<1>6. at[1] \in Marks /\ stream.lastSequence \in Nat
  BY DEF StreamTypeOK, Streams
<1>7. Len(q) = 1 => Tail(wire) = <<>>
  <2>1. Len(q) = 1 => Len(wire) = 1
    BY <1>4, OneOfTwo
  <2> QED BY <1>2, <2>1, LastEntry
<1>8. \/ Head(wire).type = "chunk" /\ Head(wire).sequence = stream.lastSequence + 1
      \/ /\ Head(wire).type = "stop" /\ Head(wire).finalSequence = stream.lastSequence
         /\ Tail(wire) = <<>>
  <2>1. stream.lastSequence + 1 - 1 = stream.lastSequence
    BY <1>6
  <2> QED BY <1>4, <1>5, <1>7, <2>1 DEF IsNumbered
<1> QED BY <1>3, <1>4, <1>5, <1>6, <1>8

-----------------------------------------------------------------------------
(* What the promise rests on.                                               *)

\* A connection begins with its start, and nothing follows its stop.
ServerIsReady ==
  /\ stream.phase = "idle" => stream = Server!Fresh
  /\ link # "closed" =>
       /\ stream.startTime = 0 /\ stream.missingCount = 0
       /\ stream.byteCount = 2 * stream.frameCount /\ stream.chunkCount <= stream.frameCount
  /\ link = "none" => wire = <<>> /\ stream.phase = "idle" /\ t.socket # "open"
  /\ link = "open" /\ stream.phase = "idle" => wire # <<>> /\ Head(wire) = StartMessage
  /\ link = "open" /\ stream.phase = "stopped" => wire = <<>> /\ (Alive(t) => t.stop = "sent")

Within(a, b) == a.gaps <= b.gaps /\ a.overflows <= b.overflows

\* Losses are cumulative, from what the transport knows to what the source counts.
Grow(low, posts, high, clock) ==
  /\ Within(low, high)
  /\ \A i \in 1..Len(posts) :
       /\ Within(low, posts[i].loss) /\ Within(posts[i].loss, high)
       /\ posts[i].type = "frame" => posts[i].time <= clock
       /\ \A j \in 1..i : Within(posts[j].loss, posts[i].loss)

PostsGrow ==
  turn # 0 /\ Alive(t) =>
    /\ source.clock <= Frames[turn]
    /\ t.stop = "no" => t.lastTime <= source.clock
    /\ Grow(t.loss, port, source.loss, source.clock)

IsInTime(u) == Abs(u.lastTime - u.emitted - Dropped(u.loss)) <= MaxDrift

\* A transport that stops has nothing more to send, and its clocks agree.
StopsAgree ==
  Alive(t) =>
    /\ t.stop \in {"hashing", "sent"} => t.pending = <<>> /\ t.socket = "open"
    /\ t.stop # "no" => IsInTime(t)

DeadIsEmpty == ~Alive(t) => t.pending = <<>>

SentInv == ServerIsReady /\ SentIsChained /\ PostsGrow /\ StopsAgree /\ DeadIsEmpty

LEMMA WithinThrough ==
  ASSUME NEW a \in Losses, NEW b \in Losses, NEW c \in Losses, Within(a, b), Within(b, c)
  PROVE  Within(a, c)
<1>1. /\ a.gaps \in Nat /\ b.gaps \in Nat /\ c.gaps \in Nat
      /\ a.overflows \in Nat /\ b.overflows \in Nat /\ c.overflows \in Nat
  BY DEF Losses
<1> QED BY <1>1 DEF Within

LEMMA GrowLater ==
  ASSUME NEW low \in Losses, NEW posts \in Seq(Posts), NEW high \in Losses, NEW clock \in Nat,
         NEW more \in Losses, NEW later \in Nat,
         Grow(low, posts, high, clock), Within(high, more), clock <= later
  PROVE  Grow(low, posts, more, later)
<1>2. \A i \in 1..Len(posts) : posts[i] \in Posts /\ posts[i].loss \in Losses
  BY DEF Posts
<1>3. Within(low, more)
  BY WithinThrough DEF Grow
<1>4. ASSUME NEW i \in 1..Len(posts)
      PROVE  /\ Within(posts[i].loss, more)
             /\ posts[i].type = "frame" => posts[i].time <= later
  <2>1. Within(posts[i].loss, more)
    BY <1>2, WithinThrough DEF Grow
  <2>2. ASSUME posts[i].type = "frame" PROVE posts[i].time <= later
    <3>1. posts[i].time \in Nat
      BY <1>2, <2>2 DEF Posts
    <3>2. posts[i].time <= clock
      BY <2>2 DEF Grow
    <3> QED BY <3>1, <3>2
  <2> QED BY <2>1, <2>2
<1> QED BY <1>3, <1>4 DEF Grow

LEMMA GrowPosts ==
  ASSUME NEW low \in Losses, NEW posts \in Seq(Posts), NEW high \in Losses, NEW clock \in Nat,
         Grow(low, posts, high, clock), NEW p \in Posts, p.loss = high,
         p.type = "frame" => p.time <= clock
  PROVE  Grow(low, Append(posts, p), high, clock)
<1> DEFINE n == Len(posts)
           all == Append(posts, p)
<1>1. /\ n \in Nat /\ Len(all) = n + 1 /\ all[n + 1] = p
      /\ \A i \in 1..n : all[i] = posts[i]
  OBVIOUS
<1> HIDE DEF all
<1>2. Within(high, high)
  BY DEF Within, Losses
<1>3. ASSUME NEW i \in 1..(n + 1)
      PROVE  /\ Within(low, all[i].loss) /\ Within(all[i].loss, high)
             /\ all[i].type = "frame" => all[i].time <= clock
             /\ \A j \in 1..i : Within(all[j].loss, all[i].loss)
  <2>1. CASE i \in 1..n
    <3>1. /\ Within(low, posts[i].loss) /\ Within(posts[i].loss, high)
          /\ posts[i].type = "frame" => posts[i].time <= clock
          /\ \A j \in 1..i : Within(posts[j].loss, posts[i].loss)
      BY <2>1 DEF Grow
    <3>2. \A j \in 1..i : all[j] = posts[j]
      BY <1>1, <2>1
    <3> QED BY <1>1, <2>1, <3>1, <3>2
  <2>2. CASE i = n + 1
    <3>1. all[i] = p
      BY <1>1, <2>2
    <3>2. ASSUME NEW j \in 1..i PROVE Within(all[j].loss, high)
      <4>1. j \in 1..n \/ j = n + 1
        BY <1>1, <2>2
      <4>2. CASE j \in 1..n
        BY <1>1, <4>2 DEF Grow
      <4>3. CASE j = n + 1
        BY <1>1, <1>2, <4>3
      <4> QED BY <4>1, <4>2, <4>3
    <3>3. Within(low, high)
      BY DEF Grow
    <3> QED BY <1>2, <3>1, <3>2, <3>3
  <2> QED BY <1>1, <2>1, <2>2
<1>4. Within(low, high)
  BY DEF Grow
<1>5. \A i \in 1..Len(all) :
        /\ Within(low, all[i].loss) /\ Within(all[i].loss, high)
        /\ all[i].type = "frame" => all[i].time <= clock
        /\ \A j \in 1..i : Within(all[j].loss, all[i].loss)
  BY <1>1, <1>3
<1>6. Grow(low, all, high, clock)
  BY <1>4, <1>5 DEF Grow
<1> QED BY <1>6 DEF all

LEMMA GrowRest ==
  ASSUME NEW low \in Losses, NEW posts \in Seq(Posts), NEW high \in Losses, NEW clock \in Nat,
         Grow(low, posts, high, clock), posts # <<>>
  PROVE  /\ Grow(Head(posts).loss, Tail(posts), high, clock)
         /\ Grow(low, Tail(posts), high, clock)
         /\ Within(low, Head(posts).loss) /\ Within(Head(posts).loss, high)
         /\ Head(posts).type = "frame" => Head(posts).time <= clock
<1> DEFINE n == Len(posts)
           rest == Tail(posts)
<1>1. /\ n \in Nat /\ n >= 1 /\ Len(rest) = n - 1 /\ Head(posts) = posts[1]
      /\ \A i \in 1..(n - 1) : rest[i] = posts[i + 1]
  OBVIOUS
<1> HIDE DEF rest
<1>2. /\ Within(low, posts[1].loss) /\ Within(posts[1].loss, high)
      /\ posts[1].type = "frame" => posts[1].time <= clock
  <2>1. 1 \in 1..Len(posts)
    BY <1>1
  <2> QED BY <2>1 DEF Grow
<1>3. ASSUME NEW i \in 1..(n - 1)
      PROVE  /\ Within(low, rest[i].loss) /\ Within(posts[1].loss, rest[i].loss)
             /\ Within(rest[i].loss, high)
             /\ rest[i].type = "frame" => rest[i].time <= clock
             /\ \A j \in 1..i : Within(rest[j].loss, rest[i].loss)
  <2> DEFINE k == i + 1
  <2>1. k \in 1..Len(posts) /\ 1 \in 1..k /\ rest[i] = posts[k] /\ k \in Nat /\ i \in Nat
    BY <1>1
  <2>2. \A j \in 1..i : j + 1 \in 1..k /\ rest[j] = posts[j + 1]
    BY <1>1
  <2> HIDE DEF k
  <2>3. /\ Within(low, posts[k].loss) /\ Within(posts[k].loss, high)
        /\ posts[k].type = "frame" => posts[k].time <= clock
        /\ \A j \in 1..k : Within(posts[j].loss, posts[k].loss)
    BY <2>1 DEF Grow
  <2>4. Within(posts[1].loss, posts[k].loss)
    BY <2>1, <2>3
  <2>5. \A j \in 1..i : Within(rest[j].loss, posts[k].loss)
    BY <2>2, <2>3
  <2> QED BY <2>1, <2>3, <2>4, <2>5
<1>4. Within(low, high)
  BY DEF Grow
<1>5. Grow(posts[1].loss, rest, high, clock) /\ Grow(low, rest, high, clock)
  BY <1>1, <1>2, <1>3, <1>4 DEF Grow
<1> QED BY <1>1, <1>2, <1>5 DEF rest

\* No source renders what could not be counted.
LEMMA FitsTheSource ==
  ASSUME NEW packed \in Nat, NEW lost \in Nat, NEW known \in Nat, NEW clock \in Nat,
         turn \in Turns, clock <= Frames[turn], packed + lost <= clock, known <= lost
  PROVE  2 * packed <= MaxSafe /\ 2 * known <= MaxSafe
<1>1. Frames[turn] \in Nat /\ 2 * Frames[turn] <= MaxSafe /\ MaxSafe \in Nat
  BY SourcesAreFinite
<1>2. packed <= Frames[turn] /\ known <= Frames[turn]
  BY <1>1
<1> DEFINE n == Frames[turn]
<1> HIDE DEF n
<1>3. n \in Nat /\ 2 * n <= MaxSafe /\ packed <= n /\ known <= n
  BY <1>1, <1>2 DEF n
<1> QED BY <1>1, <1>3

LEMMA FewerAreKnown ==
  ASSUME NEW a \in Losses, NEW b \in Losses, Within(a, b)
  PROVE  Dropped(a) \in Nat /\ Dropped(b) \in Nat /\ Dropped(a) <= Dropped(b)
BY DEF Losses, Within, Dropped

LEMMA RoomForAFrame ==
  ASSUME NEW c \in Nat, NEW e \in Nat, NEW b \in Nat, NEW d \in Nat, NEW k \in Nat \ {0},
         c = e + b + k + d
  PROVE  e + (b + 1) + d <= c
OBVIOUS

LEMMA FrameFits ==
  ASSUME StreamTypeOK, NoTransport, Accounts, PostsGrow, Alive(t), t.stop = "no",
         port # <<>>, Head(port).type = "frame"
  PROVE  LET u == Heard(Head(port)) IN
         /\ turn \in Turns
         /\ 2 * (u.emitted + u.buffer) <= MaxSafe /\ 2 * Dropped(u.loss) <= MaxSafe
<1> DEFINE u == Heard(Head(port))
           loss == Head(port).loss
           n == t.emitted + (t.buffer + 1)
<1>1. turn # 0 /\ turn \in Turns
  BY DEF NoTransport, StreamTypeOK
<1>2. /\ loss \in Losses /\ u.loss = loss /\ u.buffer = t.buffer + 1 /\ u.emitted = t.emitted
  BY HeardTransport
<1>3. /\ source.loss \in Losses /\ source.clock \in Nat /\ t.emitted \in Nat /\ t.buffer \in Nat
      /\ t.loss \in Losses /\ port \in Seq(Posts) /\ n \in Nat
  <2>1. /\ source.loss \in Losses /\ source.clock \in Nat /\ t.emitted \in Nat /\ t.buffer \in Nat
        /\ t.loss \in Losses /\ port \in Seq(Posts)
    BY DEF StreamTypeOK, Sources, Transports
  <2> QED BY <2>1
<1>4. source.clock <= Frames[turn] /\ Grow(t.loss, port, source.loss, source.clock)
  BY <1>1 DEF PostsGrow
<1>5. Within(loss, source.loss)
  BY <1>3, <1>4, GrowRest
<1>6. /\ Dropped(loss) \in Nat /\ Dropped(source.loss) \in Nat
      /\ Dropped(loss) <= Dropped(source.loss)
  BY <1>2, <1>3, <1>5, FewerAreKnown
<1>7. \E k \in Nat \ {0} : source.clock = t.emitted + t.buffer + k + Dropped(source.loss)
  <2>1. CASE IsRendering
    <3>1. Len(port) \in Nat \ {0}
      BY <1>3
    <3> QED BY <2>1, <3>1 DEF IsRendering, IsCounted
  <2>2. CASE IsFlushing
    <3> DEFINE s == [type |-> "stopped", loss |-> source.loss]
    <3>1. PICK posts \in Seq(FramePosts) : port = Append(posts, s) /\ IsCounted(posts)
      BY <2>2 DEF IsFlushing
    <3>2. s.type = "stopped"
      OBVIOUS
    <3> HIDE DEF s
    <3>3. Tail(posts) \in Seq(FramePosts) /\ Len(Tail(posts)) = Len(posts) - 1
      BY <3>1, <3>2, PostsLeft
    <3>4. Len(posts) \in Nat \ {0}
      BY <3>3
    <3> QED BY <3>1, <3>4 DEF IsCounted
  <2>3. CASE IsHeard
    BY <2>3 DEF IsHeard
  <2> QED BY <1>1, <2>1, <2>2, <2>3 DEF Accounts
<1> HIDE DEF u, loss
<1>8. n + Dropped(source.loss) <= source.clock
  <2>1. PICK k \in Nat \ {0} : source.clock = t.emitted + t.buffer + k + Dropped(source.loss)
    BY <1>7
  <2> QED BY <1>3, <1>6, <2>1, RoomForAFrame
<1>9. u.emitted + u.buffer = n
  BY <1>2
<1> HIDE DEF n
<1>10. 2 * n <= MaxSafe /\ 2 * Dropped(loss) <= MaxSafe
  BY <1>1, <1>3, <1>4, <1>6, <1>8, FitsTheSource
<1> QED BY <1>1, <1>2, <1>9, <1>10 DEF u

LEMMA ReadyBegun == ServerIsReady => Begun
BY DEF ServerIsReady, Begun

LEMMA FrameKeepsPromise ==
  ASSUME StreamTypeOK, NoTransport, Accounts, PostsGrow, Begun, SentIsChained, FrameArrives
  PROVE  SentIsChained'
<1>0. /\ UNCHANGED <<turn, answers, link, session, stream, spooled>>
      /\ port # <<>> /\ Head(port).type = "frame" /\ t \in Transports
  BY FrameTaken DEF StreamTypeOK
<1> SUFFICES ASSUME link # "closed" PROVE Promised(t, Owed(t))'
  BY <1>0 DEF SentIsChained
<1>2. Promised(t, Owed(t))
  BY DEF SentIsChained
<1>1. CASE UNCHANGED <<t, wire>>
  BY <1>0, <1>1, <1>2 DEF Promised, Owed, Unread, Carried, Agrees, Alive
<1>3. CASE Alive(t) /\ t.stop = "no" /\ Ends("failed", Tail(port)) /\ UNCHANGED wire
  <2>1. t' = Ended(t, "failed")
    BY <1>3 DEF Ends
  <2>2. ~Alive(t') /\ t'.pending = <<>>
    BY <1>0, <2>1, EndedTransport DEF Verdicts, Ended, FreshTransport
  <2> QED BY <1>0, <1>2, <1>3, <2>2, EndedInSilence
<1>4. CASE /\ Alive(t) /\ t.stop = "no"
           /\ \/ t' = Heard(Head(port)) /\ UNCHANGED wire
              \/ Alive(Flushed(Heard(Head(port)))) /\ Pump(Flushed(Heard(Head(port))))
  <2> DEFINE f == Head(port)
             u == Heard(f)
             v == Flushed(u)
  <2>1. /\ f.loss \in Losses /\ f.time \in Nat
        /\ u \in Transports /\ u.loss = f.loss /\ u.lastTime = Later(t.lastTime, f.time)
        /\ u.verdict = t.verdict /\ u.stop = t.stop /\ u.next = t.next
        /\ u.emitted = t.emitted /\ u.pending = t.pending
    BY <1>0, HeardTransport
  <2>2. 2 * (u.emitted + u.buffer) <= MaxSafe /\ 2 * Dropped(u.loss) <= MaxSafe /\ turn # 0
    BY <1>0, <1>4, FrameFits DEF NoTransport
  <2>3. Server!Covers(Evidence(u.loss), Evidence(t.loss))
    <3>1. Within(t.loss, f.loss)
      <4>1. Grow(t.loss, port, source.loss, source.clock)
        BY <1>4, <2>2 DEF PostsGrow
      <4>2. t.loss \in Losses /\ source.loss \in Losses /\ source.clock \in Nat /\ port \in Seq(Posts)
        BY DEF StreamTypeOK, Transports, Sources
      <4> QED BY <1>0, <4>1, <4>2, GrowRest
    <3>2. t.loss \in Losses
      BY <1>0 DEF Transports
    <3> HIDE DEF f, u
    <3>3. Within(t.loss, u.loss) /\ u.loss \in Losses
      BY <2>1, <3>1
    <3> QED BY <3>2, <3>3 DEF Within, Evidence, Dropped, Losses, Server!Covers
  <2>4. t.lastTime <= u.lastTime
    <3>1. t.lastTime \in Nat
      BY <1>0 DEF Transports
    <3> QED BY <2>1, <3>1 DEF Later
  <2>5. Owed(u) = Owed(t) /\ Owed(t) \in Seq(Messages)
    BY <1>0, <2>1, UnreadType DEF Owed
  <2> HIDE DEF f, u
  <2>6. Promised(u, Owed(u)) /\ Alive(u)
    BY <1>0, <1>2, <1>4, <2>1, <2>3, <2>4, <2>5, PromiseMoves DEF Alive
  <2>7. CASE t' = u /\ UNCHANGED wire
    BY <1>0, <2>6, <2>7 DEF Promised, Owed, Unread, Carried, Agrees, Alive
  <2>8. CASE Alive(v) /\ Pump(v)
    <3>1. v \in Transports
      BY <2>1, <2>6, FlushedTransport
    <3>2. Promised(v, Owed(v))
      BY <1>4, <2>1, <2>2, <2>6, <2>8, FlushKeepsPromise
    <3> HIDE DEF v
    <3> QED BY <1>0, <2>8, <3>1, <3>2, PumpKeepsPromise
  <2> QED BY <1>4, <2>7, <2>8 DEF u, f
<1>5. \/ t' = t /\ wire' = wire
      \/ Alive(t) /\ t.stop = "no" /\ Ends("failed", Tail(port)) /\ UNCHANGED wire
      \/ /\ Alive(t) /\ t.stop = "no"
         /\ \/ t' = Heard(Head(port)) /\ UNCHANGED wire
            \/ Alive(Flushed(Heard(Head(port)))) /\ Pump(Flushed(Heard(Head(port))))
  BY ArrivedFrame
<1> QED BY <1>1, <1>3, <1>4, <1>5

LEMMA EndedIsEmpty ==
  ASSUME NEW u \in Transports, NEW verdict \in Verdicts
  PROVE  Ended(u, verdict).pending = <<>> /\ ~Alive(Ended(u, verdict))
BY EndedTransport DEF Ended, FreshTransport

\* What neither the server nor the transport does leaves the promise as it is.
LEMMA PromiseStays ==
  ASSUME SentIsChained, UNCHANGED <<stream, wire, t>>, link' = link \/ link' = "closed"
  PROVE  SentIsChained'
<1> SUFFICES ASSUME link' # "closed" PROVE Promised(t, Owed(t))'
  BY DEF SentIsChained
<1>1. link' = link /\ Promised(t, Owed(t))
  BY DEF SentIsChained
<1> QED BY <1>1 DEF Promised, Owed, Unread, Carried, Agrees, Alive

\* A transport that fails, or is aborted, sends nothing more.
LEMMA EndsKeepPromise ==
  ASSUME StreamTypeOK, Begun, SentIsChained, UNCHANGED <<link, stream, wire>>,
         NEW verdict \in Verdicts, t' = t \/ t' = Ended(t, verdict)
  PROVE  SentIsChained'
<1> SUFFICES ASSUME link # "closed" PROVE Promised(t, Owed(t))'
  BY DEF SentIsChained
<1>1. Promised(t, Owed(t)) /\ t \in Transports
  BY DEF SentIsChained, StreamTypeOK
<1>2. CASE t' = t
  BY <1>1, <1>2 DEF Promised, Owed, Unread, Carried, Agrees, Alive
<1>3. CASE t' = Ended(t, verdict)
  <2>1. ~Alive(t') /\ t'.pending = <<>>
    BY <1>1, <1>3, EndedIsEmpty
  <2> QED BY <1>1, <2>1, EndedInSilence
<1> QED BY <1>2, <1>3

\* A transport that only moves on with what it owes.
LEMMA QuietKeepsPromise ==
  ASSUME StreamTypeOK, Begun, NEW u \in Transports, NEW v \in Transports,
         Promised(u, Owed(u)), v.pending = u.pending, v.next = u.next,
         v.emitted = u.emitted, u.lastTime <= v.lastTime, v.verdict = u.verdict,
         v.stop # "sent" => u.stop # "sent",
         Server!Covers(Evidence(v.loss), Evidence(u.loss))
  PROVE  Promised(v, Owed(v))
<1>1. Owed(v) = Owed(u) /\ Owed(u) \in Seq(Messages)
  BY UnreadType DEF Owed
<1> QED BY <1>1, PromiseMoves DEF Alive

\* An answer ends the transport, or lets it send more.
LEMMA AnswerPumps ==
  ASSUME StreamTypeOK, Sockets, AnswerArrives
  PROVE  /\ t \in Transports /\ Alive(t) /\ t.socket = "open" /\ UNCHANGED <<link, stream>>
         /\ \/ \E verdict \in Verdicts : t' = Ended(t, verdict) /\ UNCHANGED wire
            \/ \E u \in Transports :
                 /\ SameCourse(t, u) /\ u.next = t.next /\ u.emitted = t.emitted
                 /\ u.stop = t.stop /\ u.pending = t.pending /\ Pump(u)
<1> DEFINE a == Head(answers)
           Goes == \E u \in Transports :
                     /\ SameCourse(t, u) /\ u.next = t.next /\ u.emitted = t.emitted
                     /\ u.stop = t.stop /\ u.pending = t.pending /\ Pump(u)
           Stops == \E verdict \in Verdicts : t' = Ended(t, verdict) /\ UNCHANGED wire
<1>1. /\ a \in Replies /\ t \in Transports /\ Alive(t) /\ t.socket = "open"
      /\ UNCHANGED <<link, stream>>
  BY DEF AnswerArrives, StreamTypeOK, serverVars, Sockets
<1>5. CASE a.type = "started" /\ ~t.started
  <2> DEFINE u == [t EXCEPT !.started = TRUE, !.timer = "none"]
  <2>1. /\ u \in Transports /\ SameCourse(t, u) /\ u.next = t.next /\ u.emitted = t.emitted
        /\ u.pending = t.pending /\ u.stop = t.stop
    BY <1>1 DEF Transports, SameCourse
  <2>2. Pump(u)
    BY <1>5 DEF AnswerArrives
  <2> HIDE DEF u
  <2>3. Goes
    BY <2>1, <2>2
  <2> QED BY <1>1, <2>3
<1>6. CASE a.type = "spooled" /\ a.sequence \in HighestAcknowledged(t)..HighestSent(t)
  <2>1. a.sequence \in Nat
    BY <1>1, <1>6 DEF Replies
  <2>2. HighestAcknowledged(t) \in Int /\ HighestSent(t) \in Int
    BY <1>1, HighestAreNumbers
  <2>3. a.sequence >= HighestAcknowledged(t)
    BY <1>6, <2>1, <2>2
  <2>4. Pump(Acknowledged(t, a.sequence))
    BY <1>6 DEF AnswerArrives
  <2> DEFINE u == Acknowledged(t, a.sequence)
  <2>5. /\ u \in Transports /\ SameCourse(t, u) /\ u.next = t.next /\ u.emitted = t.emitted
        /\ u.pending = t.pending /\ u.stop = t.stop /\ Pump(u)
    BY <1>1, <2>1, <2>3, <2>4, AcknowledgedTransport
  <2> HIDE DEF u
  <2>6. Goes
    BY <2>5
  <2> QED BY <1>1, <2>6
<1>7. CASE a.type = "final" /\ t.stop = "sent" /\ a.sequence = t.next - 1
  <2>1. t' = Ended(t, "final") /\ UNCHANGED wire
    BY <1>7 DEF AnswerArrives
  <2>2. Stops
    BY <2>1 DEF Verdicts
  <2> QED BY <1>1, <2>2
<1>8. CASE Ends("failed", port) /\ UNCHANGED wire
  <2>1. t' = Ended(t, "failed")
    BY <1>1, <1>8 DEF Ends
  <2>2. Stops
    BY <1>8, <2>1 DEF Verdicts
  <2> QED BY <1>1, <2>2
<1> QED BY <1>5, <1>6, <1>7, <1>8 DEF AnswerArrives

LEMMA AnswerKeepsPromise ==
  ASSUME StreamTypeOK, Begun, Sockets, SentIsChained, AnswerArrives
  PROVE  SentIsChained'
<1>1. t \in Transports /\ UNCHANGED <<link, stream>>
  BY AnswerPumps
<1> SUFFICES ASSUME link # "closed" PROVE Promised(t, Owed(t))'
  BY <1>1 DEF SentIsChained
<1>2. Promised(t, Owed(t))
  BY DEF SentIsChained
<1>3. ASSUME NEW u \in Transports, SameCourse(t, u), u.next = t.next, u.emitted = t.emitted,
             u.stop = t.stop, u.pending = t.pending, Pump(u)
      PROVE  Promised(t, Owed(t))'
  <2>1. /\ u.lastTime = t.lastTime /\ u.loss = t.loss /\ u.verdict = t.verdict
        /\ t.lastTime \in Nat /\ t.loss \in Losses
    BY <1>1, <1>3 DEF SameCourse, Transports
  <2>2. t.lastTime <= u.lastTime /\ Server!Covers(Evidence(u.loss), Evidence(t.loss))
    BY <2>1, CoversItself
  <2>3. Promised(u, Owed(u))
    BY <1>1, <1>2, <1>3, <2>1, <2>2, QuietKeepsPromise
  <2> QED BY <1>1, <1>3, <2>3, PumpKeepsPromise
<1>4. ASSUME NEW verdict \in Verdicts, t' = Ended(t, verdict), UNCHANGED wire
      PROVE  Promised(t, Owed(t))'
  <2>1. ~Alive(t') /\ t'.pending = <<>>
    BY <1>1, <1>4, EndedIsEmpty
  <2> QED BY <1>1, <1>2, <1>4, <2>1, EndedInSilence
<1> QED BY <1>3, <1>4, AnswerPumps

\* What the transport knows when the worklet has flushed.
LEMMA LastIsHeard ==
  ASSUME StreamTypeOK, NoTransport, Accounts, WorkletStopArrives, Alive(t)
  PROVE  /\ turn # 0 /\ turn \in Turns /\ t.stop = "no" /\ Head(port).loss = source.loss
         /\ source.clock = t.emitted + t.buffer + Dropped(source.loss)
<1>1. port # <<>> /\ Head(port).type = "stopped"
  BY DEF WorkletStopArrives
<1>2. turn # 0 /\ turn \in Turns
  BY <1>1 DEF NoTransport, StreamTypeOK
<1>3. ~IsRendering
  <2> SUFFICES ASSUME port \in Seq(FramePosts) PROVE FALSE
    BY DEF IsRendering
  <2>1. Head(port) \in FramePosts
    BY <1>1
  <2> QED BY <1>1, <2>1 DEF FramePosts
<1>4. ~IsHeard
  BY <1>1 DEF IsHeard
<1>5. IsFlushing
  BY <1>2, <1>3, <1>4 DEF Accounts
<1> DEFINE s == [type |-> "stopped", loss |-> source.loss]
<1>6. PICK posts \in Seq(FramePosts) : port = Append(posts, s) /\ IsCounted(posts)
  BY <1>5 DEF IsFlushing
<1>7. s.type = "stopped" /\ s.loss = source.loss
  OBVIOUS
<1> HIDE DEF s
<1>8. posts = <<>> /\ Head(port) = s
  BY <1>1, <1>6, <1>7, PostsLeft
<1>9. source.clock = t.emitted + t.buffer + Dropped(source.loss)
  <2>1. /\ source.clock = t.emitted + t.buffer + Len(posts) + Dropped(source.loss)
        /\ Len(posts) = 0
    BY <1>6, <1>8 DEF IsCounted
  <2>2. t.emitted \in Nat /\ t.buffer \in Nat /\ Dropped(source.loss) \in Nat
    BY EvidenceType DEF StreamTypeOK, Transports, Sources
  <2> DEFINE d == Dropped(source.loss)
  <2> HIDE DEF d
  <2>3. source.clock = t.emitted + t.buffer + 0 + d /\ d \in Nat
    BY <2>1, <2>2 DEF d
  <2>4. source.clock = t.emitted + t.buffer + d
    BY <2>2, <2>3
  <2> QED BY <2>4 DEF d
<1> QED BY <1>2, <1>5, <1>7, <1>8, <1>9 DEF IsFlushing

\* What it packs then can be counted.
LEMMA HaltFits ==
  ASSUME StreamTypeOK, NoTransport, Accounts, PostsGrow, WorkletStopArrives, Alive(t)
  PROVE  LET u == Halted(Head(port).loss) IN
         2 * (u.emitted + u.buffer) <= MaxSafe /\ 2 * Dropped(u.loss) <= MaxSafe
<1> DEFINE u == Halted(Head(port).loss)
           n == t.emitted + t.buffer
           d == Dropped(source.loss)
<1>1. /\ turn # 0 /\ turn \in Turns /\ Head(port).loss = source.loss /\ source.clock = n + d
  BY LastIsHeard
<1>2. u.emitted = t.emitted /\ u.buffer = t.buffer /\ u.loss = source.loss
  BY <1>1, StoppedTransport
<1>3. n \in Nat /\ d \in Nat /\ source.clock \in Nat
  <2>1. t.emitted \in Nat /\ t.buffer \in Nat /\ source.clock \in Nat /\ d \in Nat
    BY EvidenceType DEF StreamTypeOK, Transports, Sources
  <2> QED BY <2>1
<1>4. source.clock <= Frames[turn]
  BY <1>1 DEF PostsGrow
<1> HIDE DEF u, n, d
<1>5. n + d <= source.clock /\ d <= d
  BY <1>1, <1>3
<1>6. 2 * n <= MaxSafe /\ 2 * d <= MaxSafe
  BY <1>1, <1>3, <1>4, <1>5, FitsTheSource
<1>7. 2 * (u.emitted + u.buffer) = 2 * n /\ Dropped(u.loss) = d
  BY <1>2 DEF n, d
<1> QED BY <1>6, <1>7 DEF u

\* It goes on with what was promised before.
LEMMA HaltedKeepsPromise ==
  ASSUME StreamTypeOK, NoTransport, Accounts, PostsGrow, Begun, WorkletStopArrives, Alive(t),
         Promised(t, Owed(t))
  PROVE  LET u == Halted(Head(port).loss) IN Promised(u, Owed(u))
<1> DEFINE u == Halted(Head(port).loss)
<1>1. /\ turn # 0 /\ t.stop = "no" /\ Head(port).loss = source.loss
  BY LastIsHeard
<1>2. /\ u \in Transports /\ Alive(u) /\ u.loss = source.loss /\ u.next = t.next
      /\ u.emitted = t.emitted /\ u.pending = t.pending
      /\ u.lastTime = Later(t.lastTime, t.stopAt)
  BY <1>1, StoppedTransport
<1>3. /\ t \in Transports /\ t.loss \in Losses /\ source.loss \in Losses
      /\ t.lastTime \in Nat /\ t.stopAt \in Nat
  BY DEF StreamTypeOK, Transports, Sources
<1>4. Within(t.loss, source.loss)
  BY <1>1 DEF PostsGrow, Grow
<1>5. t.lastTime <= u.lastTime
  BY <1>2, <1>3 DEF Later
<1> HIDE DEF u
<1>6. Server!Covers(Evidence(u.loss), Evidence(t.loss))
  BY <1>2, <1>3, <1>4 DEF Within, Evidence, Dropped, Losses, Server!Covers
<1>7. u.verdict = t.verdict
  BY <1>2 DEF Alive
<1>8. Promised(u, Owed(u))
  BY <1>1, <1>2, <1>3, <1>5, <1>6, <1>7, QuietKeepsPromise
<1> QED BY <1>8 DEF u

\* The stop fails at once, or when what it packs is sent, or goes on.
LEMMA StopPumps ==
  ASSUME StreamTypeOK, WorkletStopArrives, Alive(t)
  PROVE  LET u == Halted(Head(port).loss)
             v == Flushed(u)
         IN  \/ /\ t' \in Transports /\ t'.pending = <<>> /\ ~Alive(t')
                /\ wire' = wire \/ (Alive(v) /\ wire' = wire \o Carried(Burst(v)))
             \/ Alive(v) /\ ~Drifts(v.stopAt, v.emitted, v.loss) /\ Pump(v)
<1> DEFINE u == Halted(Head(port).loss)
           v == Flushed(u)
<1>1. /\ u \in Transports /\ Alive(u)
      /\ v \in Transports /\ Burst(v) \in Seq(Packed) /\ Sends(Burst(v))
      /\ t' = (IF Alive(v) /\ Drifts(v.stopAt, v.emitted, v.loss)
               THEN Ended(v, "failed") ELSE Pumped(v))
      /\ t' \in Transports
  BY StoppedTransport
<1>2. ~Alive(v) => v = Ended(u, "failed")
  BY <1>1, FlushedTransport
<1>3. wire' = wire \o Carried(Burst(v))
  BY <1>1 DEF Sends, Carried
<1> HIDE DEF u
<1>4. CASE ~Alive(v)
  <2>1. Burst(v) = <<>> /\ Pumped(v) = v
    BY <1>1, <1>4, PumpedTransport DEF Pumps
  <2>2. t' = v /\ t'.pending = <<>> /\ ~Alive(t')
    BY <1>1, <1>2, <1>4, <2>1, EndedIsEmpty DEF Verdicts
  <2>3. Carried(<<>>) = <<>>
    BY DEF Carried
  <2>4. wire \in Seq(Messages)
    BY DEF StreamTypeOK
  <2>5. wire' = wire
    BY <1>3, <2>1, <2>3, <2>4
  <2> QED BY <1>1, <2>2, <2>5
<1> HIDE DEF v
<1>5. CASE Alive(v) /\ Drifts(v.stopAt, v.emitted, v.loss)
  <2>1. t'.pending = <<>> /\ ~Alive(t')
    BY <1>1, <1>5, EndedIsEmpty DEF Verdicts
  <2> QED BY <1>1, <1>3, <1>5, <2>1 DEF v, u
<1>6. CASE Alive(v) /\ ~Drifts(v.stopAt, v.emitted, v.loss)
  <2>1. Pump(v)
    BY <1>1, <1>6 DEF Pump
  <2> QED BY <1>6, <2>1 DEF v, u
<1> QED BY <1>4, <1>5, <1>6

LEMMA StopKeepsPromise ==
  ASSUME StreamTypeOK, NoTransport, Accounts, PostsGrow, Begun, SentIsChained,
         WorkletStopArrives
  PROVE  SentIsChained'
<1> DEFINE u == Halted(Head(port).loss)
           v == Flushed(u)
<1>0. UNCHANGED <<link, stream>> /\ t \in Transports
  BY DEF WorkletStopArrives, serverVars, StreamTypeOK
<1> SUFFICES ASSUME link # "closed" PROVE Promised(t, Owed(t))'
  BY <1>0 DEF SentIsChained
<1>1. Promised(t, Owed(t))
  BY DEF SentIsChained
<1>2. CASE ~Alive(t)
  BY <1>0, <1>1, <1>2 DEF WorkletStopArrives, Promised, Owed, Unread, Carried, Agrees, Alive
<1>3. CASE Alive(t)
  <2>1. u \in Transports /\ v \in Transports /\ Alive(u) /\ u.stop # "sent"
    BY <1>3, StoppedTransport
  <2>2. Promised(u, Owed(u))
    BY <1>1, <1>3, HaltedKeepsPromise
  <2>3. 2 * (u.emitted + u.buffer) <= MaxSafe /\ 2 * Dropped(u.loss) <= MaxSafe
    BY <1>3, HaltFits
  <2>4. \/ /\ t'.pending = <<>> /\ ~Alive(t')
           /\ wire' = wire \/ (Alive(v) /\ wire' = wire \o Carried(Burst(v)))
        \/ Alive(v) /\ Pump(v)
    BY <1>3, StopPumps
  <2> HIDE DEF u
  <2>5. Alive(v) => Promised(v, Owed(v))
    BY <2>1, <2>2, <2>3, FlushKeepsPromise
  <2> HIDE DEF v
  <2>6. CASE t'.pending = <<>> /\ ~Alive(t') /\ wire' = wire
    BY <1>0, <1>1, <2>6, EndedInSilence
  <2>7. CASE t'.pending = <<>> /\ ~Alive(t') /\ Alive(v) /\ wire' = wire \o Carried(Burst(v))
    <3> DEFINE n == Len(Burst(v))
    <3>1. n \in 0..Len(v.pending) /\ Burst(v) = SubSeq(v.pending, 1, n)
      BY <2>1, PumpedTransport
    <3> HIDE DEF n
    <3>2. wire' = wire \o Carried(SubSeq(v.pending, 1, n))
      BY <2>7, <3>1
    <3> QED BY <1>0, <2>1, <2>5, <2>7, <3>1, <3>2, EndedKeepsPromise
  <2>8. CASE Alive(v) /\ Pump(v)
    BY <1>0, <2>1, <2>5, <2>8, PumpKeepsPromise
  <2> QED BY <2>4, <2>6, <2>7, <2>8
<1> QED BY <1>2, <1>3

\* The stop says where the transport is.
LEMMA StopLeads ==
  ASSUME StreamTypeOK, NoTransport, Accounts, PostsGrow, StopsAgree,
         Alive(t), t.stop = "hashing",
         NEW a \in Marks, a.frames = t.emitted, a.time <= t.lastTime,
         Server!Covers(Evidence(t.loss), a.loss)
  PROVE  Leads(a, StopMessage(t),
               [frames |-> t.emitted, time |-> t.lastTime, loss |-> Evidence(t.loss)])
<1> DEFINE n == t.emitted
           d == Dropped(t.loss)
<1>1. turn # 0 /\ turn \in Turns
  BY DEF NoTransport, FreshTransport, StreamTypeOK
<1>2. t.loss = source.loss /\ source.clock = t.emitted + Dropped(source.loss)
  BY <1>1 DEF Accounts, IsRendering, IsFlushing, IsHeard
<1>3. source.clock = n + d
  BY <1>2
<1>4. n \in Nat /\ d \in Nat /\ source.clock \in Nat /\ t.loss \in Losses
  BY EvidenceType DEF StreamTypeOK, Transports, Sources
<1>5. source.clock <= Frames[turn]
  BY <1>1 DEF PostsGrow
<1>6. IsInTime(t)
  BY DEF StopsAgree
<1> HIDE DEF n, d
<1>7. n + d <= source.clock /\ d <= d
  BY <1>3, <1>4
<1>8. 2 * n <= MaxSafe /\ 2 * d <= MaxSafe
  BY <1>1, <1>4, <1>5, <1>7, FitsTheSource
<1> DEFINE m == StopMessage(t)
<1>9. /\ m.type = "stop" /\ m.identity = "turn" /\ m.time = t.lastTime /\ m.frames = n
      /\ m.bytes = 2 * n /\ m.loss = Evidence(t.loss)
  BY DEF StopMessage, n
<1>10. m.loss.droppedFrameCount = d /\ m.loss.droppedByteCount = 2 * d
  BY <1>9 DEF Evidence, d
<1> HIDE DEF m
<1>11. /\ Server!PcmByteCountIs(m.loss.droppedFrameCount, m.loss.droppedByteCount)
       /\ Server!PcmByteCountIs(m.frames, m.bytes)
  BY <1>8, <1>9, <1>10 DEF Server!PcmByteCountIs, Server!IsSafe
<1>12. Abs(m.time - m.frames - m.loss.droppedFrameCount) <= MaxDrift
  BY <1>6, <1>9, <1>10 DEF IsInTime, n, d
<1>13. Leads(a, m, [frames |-> n, time |-> t.lastTime, loss |-> Evidence(t.loss)])
  BY <1>8, <1>9, <1>11, <1>12 DEF Leads, n
<1> QED BY <1>13 DEF n, m

LEMMA ChainEnds ==
  ASSUME NEW q \in Seq(Messages), NEW m \in Messages, NEW last \in Nat,
         NEW at \in [Nat -> Marks], NEW b \in Marks,
         Chained(q, last, at), AllChunks(q), Leads(at[Len(q)], m, b),
         m.type = "stop", m.finalSequence = last + Len(q)
  PROVE  \E more \in [Nat -> Marks] : more[0] = at[0] /\ Chained(Append(q, m), last, more)
BY ChainGrows

LEMMA HashKeepsPromise ==
  ASSUME StreamTypeOK, NoTransport, Accounts, PostsGrow, StopsAgree, Begun, SentIsChained,
         HashIsReady
  PROVE  SentIsChained'
<1> DEFINE q == Owed(t)
           n == Len(q)
           m == StopMessage(t)
           b == [frames |-> t.emitted, time |-> t.lastTime, loss |-> Evidence(t.loss)]
<1>1. /\ Alive(t) /\ t.stop = "hashing" /\ t \in Transports
      /\ t' = [t EXCEPT !.stop = "sent", !.timer = "none"]
      /\ wire' = Append(wire, m) /\ UNCHANGED <<link, stream>>
  BY DEF HashIsReady, serverVars, StreamTypeOK
<1> SUFFICES ASSUME link # "closed" PROVE Promised(t, Owed(t))'
  BY <1>1 DEF SentIsChained
<1>2. t.pending = <<>> /\ t'.pending = <<>> /\ t'.stop = "sent"
  BY <1>1 DEF StopsAgree, Transports
<1>3. Unread \in Seq(Messages) /\ m \in Messages /\ wire \in Seq(Messages)
  BY <1>1, UnreadType, MessageTypes DEF StreamTypeOK
<1>4. Carried(<<>>) = <<>>
  BY DEF Carried
<1>5. q = Unread
  BY <1>2, <1>3, <1>4 DEF Owed
<1>6. wire' = wire \o <<m>> /\ <<m>> \in Seq(Messages)
  BY <1>1, <1>3
<1> HIDE DEF m
<1>7. Unread' = Unread \o <<m>>
  BY <1>1, <1>6, UnreadGrows
<1>8. Owed(t)' = Append(q, m)
  <2>1. Owed(t)' = Unread' \o <<>>
    BY <1>2, <1>4 DEF Owed, Carried
  <2> DEFINE r == Unread
  <2>2. Owed(t)' = (r \o <<m>>) \o <<>> /\ r \in Seq(Messages) /\ q = r
    BY <1>3, <1>5, <1>7, <2>1
  <2> HIDE DEF r, q
  <2>3. (r \o <<m>>) \o <<>> = Append(r, m)
    BY <1>3, <2>2
  <2> QED BY <2>2, <2>3
<1>9. Promised(t, q) /\ q \in Seq(Messages) /\ n \in Nat
  BY <1>3, <1>5 DEF SentIsChained
<1> HIDE DEF q
<1>10. PICK at \in [Nat -> Marks] :
         /\ at[0] = Reached(stream) /\ Chained(q, stream.lastSequence, at)
         /\ Agrees(t, q, at)
  BY <1>1, <1>9 DEF Promised
<1>11. at[n] \in Marks /\ b \in Marks /\ t.next \in Nat /\ stream.lastSequence \in Nat
  BY <1>1, <1>9, <1>10, EvidenceType DEF Marks, Transports, StreamTypeOK, Streams
<1>12. Leads(at[n], m, b)
  BY <1>1, <1>10, <1>11, StopLeads DEF Agrees, m, n
<1>13. m.type = "stop" /\ m.finalSequence = stream.lastSequence + Len(q) /\ AllChunks(q)
  BY <1>10 DEF Agrees, m, StopMessage
<1> HIDE DEF b
<1>14. PICK more \in [Nat -> Marks] :
         more[0] = at[0] /\ Chained(Append(q, m), stream.lastSequence, more)
  <2> DEFINE last == stream.lastSequence
  <2>1. /\ q \in Seq(Messages) /\ m \in Messages /\ last \in Nat /\ b \in Marks
        /\ at \in [Nat -> Marks] /\ m.type = "stop" /\ m.finalSequence = last + Len(q)
        /\ Chained(q, last, at) /\ AllChunks(q) /\ Leads(at[Len(q)], m, b)
    BY <1>3, <1>9, <1>10, <1>11, <1>12, <1>13
  <2> HIDE DEF last
  <2>2. \E more \in [Nat -> Marks] : more[0] = at[0] /\ Chained(Append(q, m), last, more)
    BY <2>1, ChainEnds
  <2> QED BY <2>2 DEF last
<1>15. more[0] = Reached(stream)' /\ Chained(Owed(t)', stream'.lastSequence, more)
  BY <1>1, <1>8, <1>10, <1>14 DEF Reached
<1> QED BY <1>2, <1>14, <1>15 DEF Promised

LEMMA OpeningKeepsPromise ==
  ASSUME StreamTypeOK, Begun, Sockets, ServerIsReady, SentIsChained, SocketOpens
  PROVE  SentIsChained'
<1>1. /\ t.socket = "connecting" /\ t \in Transports
      /\ t' = [t EXCEPT !.socket = "open", !.timer = "ack"]
      /\ wire' = Append(wire, StartMessage) /\ link' = "open" /\ UNCHANGED stream
  BY DEF SocketOpens, StreamTypeOK
<1>2. link = "none" /\ wire = <<>> /\ stream.phase = "idle"
  BY <1>1 DEF Sockets, ServerIsReady
<1>3. Promised(t, Owed(t)) /\ Unread = <<>>
  BY <1>2 DEF SentIsChained, Unread
<1>4. wire' = <<StartMessage>>
  BY <1>1, <1>2
<1>5. Tail(<<StartMessage>>) = <<>>
  OBVIOUS
<1>6. Unread' = <<>>
  BY <1>1, <1>2, <1>4, <1>5 DEF Unread
<1>7. /\ t'.pending = t.pending /\ t'.verdict = t.verdict /\ t'.stop = t.stop
      /\ t'.next = t.next /\ t'.emitted = t.emitted /\ t'.lastTime = t.lastTime
      /\ t'.loss = t.loss
  BY <1>1 DEF Transports
<1>8. Owed(t)' = Owed(t)
  BY <1>3, <1>6, <1>7 DEF Owed, Carried
<1>9. Promised(t', Owed(t))
  BY <1>3, <1>7 DEF Promised, Agrees, Alive
<1> QED BY <1>1, <1>8, <1>9 DEF SentIsChained, Promised, Agrees

\* The same transport, as far as its promise goes.
LEMMA SameKeepsPromise ==
  ASSUME StreamTypeOK, SentIsChained, UNCHANGED <<link, stream, wire>>,
         t'.pending = t.pending, t'.verdict = t.verdict, t'.stop = t.stop, t'.next = t.next,
         t'.emitted = t.emitted, t'.lastTime = t.lastTime, t'.loss = t.loss
  PROVE  SentIsChained'
<1> SUFFICES ASSUME link # "closed" PROVE Promised(t, Owed(t))'
  BY DEF SentIsChained
<1>1. Promised(t, Owed(t)) /\ Owed(t)' = Owed(t)
  BY DEF SentIsChained, Owed, Unread, Carried
<1> QED BY <1>1 DEF Promised, Agrees, Alive

LEMMA StartKeepsPromise ==
  ASSUME StreamTypeOK, ServerIsReady, SentIsChained, ServerStarts
  PROVE  SentIsChained'
<1>1. /\ link = "open" /\ Head(wire) \in StartMessages /\ wire' = Tail(wire)
      /\ Server!Start(Head(wire)) /\ UNCHANGED <<t, link>> /\ stream \in Streams
  BY WhatIsRead DEF ServerStarts, StreamTypeOK, Reads
<1>2. /\ stream.phase = "idle" /\ stream'.phase = "open" /\ stream'.lastTime = 0
      /\ stream'.lastSequence = 0 /\ stream'.frameCount = 0
      /\ stream'.loss = Server!NoEvidence
  BY <1>1, StartedStream
<1>3. Reached(stream)' = Reached(stream) /\ stream'.lastSequence = stream.lastSequence
  BY <1>2, FreshStream DEF ServerIsReady, Reached
<1>4. Unread' = Unread
  BY <1>1, <1>2 DEF Unread
<1>5. Owed(t)' = Owed(t) /\ Promised(t, Owed(t))
  BY <1>1, <1>4 DEF Owed, Carried, SentIsChained
<1> QED BY <1>1, <1>3, <1>5 DEF SentIsChained, Promised, Agrees, Alive

\* What is read is the first of what is owed.
LEMMA ReadingOwed ==
  ASSUME StreamTypeOK, link = "open", stream.phase = "open", wire # <<>>, wire' = Tail(wire),
         UNCHANGED <<t, link>>, stream'.phase # "idle"
  PROVE  /\ Owed(t) \in Seq(Messages) /\ Owed(t) # <<>> /\ Owed(t)[1] = Head(wire)
         /\ Owed(t)' = Tail(Owed(t))
<1> DEFINE rest == Carried(t.pending)
           q == Owed(t)
<1>1. wire \in Seq(Messages) /\ rest \in Seq(Messages)
  BY CarriedType DEF StreamTypeOK, Transports
<1>2. q = wire \o rest /\ Owed(t)' = Tail(wire) \o rest
  BY DEF Owed, Unread, Carried
<1> HIDE DEF rest, q
<1>3. Tail(wire \o rest) = Tail(wire) \o rest
  BY <1>1, TailJoined
<1>4. /\ q \in Seq(Messages) /\ Len(q) = Len(wire) + Len(rest) /\ q[1] = wire[1]
      /\ Len(wire) \in Nat /\ Len(wire) >= 1 /\ Len(rest) \in Nat /\ Head(wire) = wire[1]
  <2>1. Len(wire) \in Nat /\ Len(wire) >= 1 /\ Len(rest) \in Nat /\ Head(wire) = wire[1]
    BY <1>1
  <2>2. 1 \in 1..Len(wire)
    BY <2>1
  <2> QED BY <1>1, <1>2, <2>1, <2>2, JoinedEntries
<1>5. q # <<>>
  BY <1>4
<1> QED BY <1>2, <1>3, <1>4, <1>5 DEF q

LEMMA ChainGoesOn ==
  ASSUME NEW q \in Seq(Messages), q # <<>>, NEW last \in Nat, NEW at \in [Nat -> Marks],
         Chained(q, last, at), q[1].type = "chunk"
  PROVE  \E rest \in [Nat -> Marks] :
           /\ rest[0] = at[1] /\ rest[Len(q) - 1] = at[Len(q)]
           /\ Len(Tail(q)) = Len(q) - 1 /\ Chained(Tail(q), last + 1, rest)
BY ChainRest

LEMMA SpoolKeepsPromise ==
  ASSUME StreamTypeOK, SentIsChained, ServerSpools
  PROVE  SentIsChained'
<1> DEFINE m == Head(wire)
           q == Owed(t)
           n == Len(q)
           last == stream.lastSequence
<1>1. /\ link = "open" /\ m \in ChunkMessages /\ wire # <<>> /\ wire' = Tail(wire)
      /\ Server!Chunk(m) /\ UNCHANGED <<t, link>> /\ stream \in Streams
  BY WhatIsRead DEF ServerSpools, StreamTypeOK, Reads
<1>2. /\ stream.phase = "open" /\ stream'.phase = "open" /\ stream'.lastTime = m.time
      /\ stream'.lastSequence = m.sequence
      /\ stream'.frameCount = stream.frameCount + m.frames /\ stream'.loss = m.loss
  BY <1>1, SpooledStream
<1>3. q \in Seq(Messages) /\ q # <<>> /\ q[1] = m /\ Owed(t)' = Tail(q)
  BY <1>1, <1>2, ReadingOwed
<1>4. Promised(t, q) /\ m.type = "chunk" /\ last \in Nat /\ m.sequence \in Nat
  BY <1>1 DEF SentIsChained, ChunkMessages, Streams
<1> HIDE DEF q
<1>5. PICK at \in [Nat -> Marks] :
        /\ at[0] = Reached(stream) /\ Chained(q, last, at)
        /\ Alive(t) /\ t.stop # "sent" => Agrees(t, q, at)
  BY <1>4 DEF Promised
<1> HIDE DEF m
<1>6. n \in Nat /\ n >= 1
  BY <1>3
<1>7. Leads(at[0], m, at[1]) /\ m.sequence = last + 1
  <2> DEFINE j == 1
  <2>1. j \in 1..Len(q) /\ j - 1 = 0
    BY <1>6
  <2> HIDE DEF j
  <2>2. Leads(at[j - 1], q[j], at[j]) /\ IsNumbered(q, last, j)
    BY <1>5, <2>1 DEF Chained
  <2> QED BY <1>3, <1>4, <2>1, <2>2 DEF j, IsNumbered
<1>8. at[1] = Reached(stream)'
  <2>1. at[1] \in Marks
    BY <1>5
  <2>2. /\ at[1].frames = stream.frameCount + m.frames /\ at[1].time = m.time
        /\ at[1].loss = m.loss
    BY <1>4, <1>5, <1>7 DEF Leads, Reached
  <2>3. /\ at[1].frames = stream'.frameCount /\ at[1].time = stream'.lastTime
        /\ at[1].loss = stream'.loss
    BY <1>2, <2>2
  <2> QED BY <2>1, <2>3 DEF Marks, Reached
<1> DEFINE r == Tail(q)
<1>9. PICK rest \in [Nat -> Marks] :
        /\ rest[0] = at[1] /\ rest[n - 1] = at[n]
        /\ Len(r) = n - 1 /\ Chained(r, last + 1, rest)
  <2> HIDE DEF last
  <2>1. /\ q \in Seq(Messages) /\ q # <<>> /\ last \in Nat /\ at \in [Nat -> Marks]
        /\ Chained(q, last, at) /\ q[1].type = "chunk"
    BY <1>3, <1>4, <1>5
  <2> QED BY <2>1, ChainGoesOn
<1>10. AllChunks(q) => AllChunks(r)
  <2>1. \A i \in 1..(n - 1) : r[i] = q[i + 1]
    BY <1>3
  <2> HIDE DEF r
  <2> SUFFICES ASSUME AllChunks(q), NEW i \in 1..(n - 1) PROVE r[i].type = "chunk"
    BY <1>9 DEF AllChunks
  <2>2. i + 1 \in 1..n
    BY <1>6
  <2> QED BY <2>1, <2>2 DEF AllChunks
<1>16. Owed(t)' = r
  BY <1>3
<1> HIDE DEF r, n
<1>11. stream'.lastSequence = last + 1
  BY <1>2, <1>7
<1>12. Alive(t) /\ t.stop # "sent" =>
         /\ AllChunks(r) /\ stream'.lastSequence + Len(r) = t.next - 1
         /\ rest[Len(r)].frames = t.emitted /\ rest[Len(r)].time <= t.lastTime
         /\ Server!Covers(Evidence(t.loss), rest[Len(r)].loss)
  <2> SUFFICES ASSUME Alive(t), t.stop # "sent"
               PROVE  /\ AllChunks(r) /\ stream'.lastSequence + Len(r) = t.next - 1
                      /\ rest[Len(r)].frames = t.emitted /\ rest[Len(r)].time <= t.lastTime
                      /\ Server!Covers(Evidence(t.loss), rest[Len(r)].loss)
    OBVIOUS
  <2>1. Agrees(t, q, at) /\ n = Len(q)
    BY <1>5 DEF n
  <2>2. last + n = t.next - 1
    BY <2>1 DEF Agrees
  <2>3. (last + 1) + (n - 1) = t.next - 1
    BY <1>4, <1>6, <2>2
  <2>4. AllChunks(r) /\ stream'.lastSequence + Len(r) = t.next - 1
    BY <1>9, <1>10, <1>11, <2>1, <2>3 DEF Agrees
  <2>5. /\ rest[Len(r)].frames = t.emitted /\ rest[Len(r)].time <= t.lastTime
        /\ Server!Covers(Evidence(t.loss), rest[Len(r)].loss)
    BY <1>9, <2>1 DEF Agrees
  <2> QED BY <2>4, <2>5
<1> HIDE DEF last
<1>13. rest[0] = Reached(stream)' /\ Chained(r, stream'.lastSequence, rest)
  BY <1>8, <1>9, <1>11
<1>14. t' = t
  BY <1>1
<1>15. Promised(t, Owed(t))'
  BY <1>9, <1>12, <1>13, <1>14, <1>16 DEF Promised, Agrees, Alive
<1> QED BY <1>15 DEF SentIsChained

\* Nothing is owed after a stop.
LEMMA StoppingKeepsPromise ==
  ASSUME StreamTypeOK, StopIsSent, SentIsChained, ServerStops
  PROVE  SentIsChained'
<1> DEFINE m == Head(wire)
           q == Owed(t)
           last == stream.lastSequence
<1>1. /\ link = "open" /\ m \in StopMessages /\ wire # <<>> /\ wire' = Tail(wire)
      /\ Server!Stop(m) /\ UNCHANGED <<t, link>> /\ stream \in Streams /\ m.type = "stop"
      /\ wire \in Seq(Messages)
  BY WhatIsRead DEF ServerStops, StreamTypeOK, Reads
<1>2. stream.phase = "open" /\ stream'.phase = "stopped" /\ stream' \in Streams
  BY <1>1, StoppedStream
<1>3. q \in Seq(Messages) /\ q # <<>> /\ q[1] = m /\ Owed(t)' = Tail(q)
  BY <1>1, <1>2, ReadingOwed
<1>4. Promised(t, q) /\ last \in Nat
  BY <1>1 DEF SentIsChained, Streams
<1>5. ~(Alive(t) /\ t.stop # "sent")
  <2>1. 1 \in 1..Len(wire) /\ wire[1] = m
    BY <1>1
  <2> HIDE DEF m
  <2>2. wire[1].type = "stop"
    BY <1>1, <2>1
  <2> QED BY <2>1, <2>2 DEF StopIsSent
<1> HIDE DEF q, m
<1>6. PICK at \in [Nat -> Marks] : Chained(q, last, at)
  BY <1>4 DEF Promised
<1> HIDE DEF last
<1>7. Tail(q) = <<>>
  BY <1>1, <1>3, <1>4, <1>6, ChainRest
<1> DEFINE here == [i \in Nat |-> Reached(stream')]
<1>8. Reached(stream') \in Marks
  BY <1>2 DEF Streams, Marks, Reached
<1>9. here \in [Nat -> Marks] /\ here[0] = Reached(stream')
  BY <1>8
<1>10. Chained(<<>>, stream'.lastSequence, here)
  BY DEF Chained
<1> HIDE DEF here
<1>11. Owed(t)' = <<>> /\ t' = t
  BY <1>1, <1>3, <1>7
<1>12. Promised(t, Owed(t))'
  BY <1>5, <1>9, <1>10, <1>11 DEF Promised, Alive
<1> QED BY <1>12 DEF SentIsChained

\* Before its socket is open a transport owes what it packs, from nothing on.
LEMMA NothingOwed ==
  link = "none" /\ stream = Server!Fresh /\ t = FreshTransport /\ wire = <<>>
    => Promised(t, Owed(t))
<1> SUFFICES ASSUME link = "none", stream = Server!Fresh, t = FreshTransport, wire = <<>>
             PROVE  Promised(t, Owed(t))
  OBVIOUS
<1>1. /\ t.pending = <<>> /\ t.next = 1 /\ t.emitted = 0 /\ t.lastTime = 0 /\ t.loss = NoLoss
      /\ Alive(t) /\ t.stop = "no"
  BY DEF FreshTransport, Alive
<1>2. Carried(<<>>) = <<>> /\ <<>> \o <<>> = <<>>
  BY DEF Carried
<1>3. Owed(t) = <<>>
  BY <1>1, <1>2 DEF Owed, Unread
<1>4. /\ stream \in Streams /\ stream.lastSequence = 0 /\ stream.frameCount = 0
      /\ stream.lastTime = 0 /\ stream.loss = Server!NoEvidence
  BY FreshStream
<1> DEFINE here == [i \in Nat |-> Reached(stream)]
<1>5. Reached(stream) \in Marks
  BY <1>4 DEF Streams, Marks, Reached
<1>6. here \in [Nat -> Marks] /\ here[0] = Reached(stream)
  BY <1>5
<1>7. /\ here[0].frames = 0 /\ here[0].time = 0 /\ here[0].loss = Server!NoEvidence
  BY <1>4, <1>6 DEF Reached
<1> HIDE DEF here
<1>8. Chained(<<>>, stream.lastSequence, here)
  BY DEF Chained
<1>9. Server!Covers(Evidence(NoLoss), Server!NoEvidence)
  <2>1. Evidence(NoLoss) = Server!NoEvidence
    BY DEF Evidence, NoLoss, Dropped, Server!NoEvidence
  <2>2. Server!Covers(Server!NoEvidence, Server!NoEvidence)
    BY DEF Server!Covers, Server!NoEvidence
  <2> QED BY <2>1, <2>2
<1>10. Agrees(t, <<>>, here)
  <2>1. AllChunks(<<>>) /\ Len(<<>>) = 0
    BY DEF AllChunks
  <2>2. 0 + 0 = 1 - 1 /\ 0 <= 0
    OBVIOUS
  <2> QED BY <1>1, <1>4, <1>7, <1>9, <2>1, <2>2 DEF Agrees
<1> QED BY <1>3, <1>6, <1>8, <1>10 DEF Promised

LEMMA NewKeepsPromise ==
  ASSUME NEW p \in Turns, NewTransport(p) PROVE SentIsChained'
<1>1. /\ link' = "none" /\ stream' = Server!Fresh /\ t' = FreshTransport /\ wire' = <<>>
  BY DEF NewTransport
<1>2. Promised(t, Owed(t))'
  <2>1. (link = "none" /\ stream = Server!Fresh /\ t = FreshTransport /\ wire = <<>>)'
    BY <1>1 DEF Server!Fresh, Server!NoEvidence, FreshTransport, NoLoss
  <2>2. (link = "none" /\ stream = Server!Fresh /\ t = FreshTransport /\ wire = <<>>
          => Promised(t, Owed(t)))'
    BY NothingOwed, PTL
  <2> QED BY <2>1, <2>2
<1> QED BY <1>2 DEF SentIsChained

\* Failures and aborts leave the server alone.
LEMMA FaultsEnd ==
  ASSUME StreamTypeOK, Faults \/ Aborts
  PROVE  /\ UNCHANGED <<turn, link, stream, wire>>
         /\ \E verdict \in Verdicts : Ends(verdict, port)
         /\ \E verdict \in Verdicts : (Alive(t) /\ t' = Ended(t, verdict)) \/ t' = t
<1>1. UNCHANGED <<turn, link, stream, wire>>
  BY DEF Faults, SourceFails, SocketFails, TimerFires, Aborts, serverVars
<1>2. PICK verdict \in Verdicts : Ends(verdict, port)
  BY DEF Faults, SourceFails, SocketFails, TimerFires, Aborts, Verdicts
<1> QED BY <1>1, <1>2 DEF Ends

\* What leaves the transport, its connection and what it sent alone.
Elsewhere ==
  \/ UNCHANGED captureVars
  \/ RenderFrame \/ WorkletStops \/ SessionMoves \/ (\E p \in Turns : AnalysisEnds(p))

LEMMA NothingElsewhere ==
  ASSUME Elsewhere
  PROVE  UNCHANGED <<turn, stream, wire, t>> /\ (link' = link \/ link' = "closed")
BY DEF Elsewhere, captureVars, serverVars, RenderFrame, WorkletStops, SessionMoves, AnalysisEnds

LEMMA ConnectingTransport ==
  ASSUME StreamTypeOK, Connects
  PROVE  /\ UNCHANGED <<turn, source, port, link, stream, wire>>
         /\ t'.pending = t.pending /\ t'.verdict = t.verdict /\ t'.stop = t.stop
         /\ t'.next = t.next /\ t'.emitted = t.emitted /\ t'.lastTime = t.lastTime
         /\ t'.loss = t.loss /\ t'.socket \in {t.socket, "connecting"}
<1>1. t \in Transports
  BY DEF StreamTypeOK
<1> QED BY <1>1 DEF Connects, Connecting, serverVars, Transports

LEMMA AskingTransport ==
  ASSUME StreamTypeOK, AskWorkletToStop
  PROVE  /\ UNCHANGED <<turn, port, link, stream, wire>>
         /\ t'.pending = t.pending /\ t'.verdict = t.verdict /\ t'.stop = t.stop
         /\ t'.next = t.next /\ t'.emitted = t.emitted /\ t'.lastTime = t.lastTime
         /\ t'.loss = t.loss /\ t'.socket = t.socket
         /\ source'.clock = source.clock /\ source'.loss = source.loss
<1>1. t \in Transports /\ source \in Sources
  BY DEF StreamTypeOK
<1>2. PICK lag \in {0, 1} : t' = [t EXCEPT !.stopAt = source.clock + lag]
  BY DEF AskWorkletToStop
<1> QED BY <1>1, <1>2 DEF AskWorkletToStop, serverVars, Transports, Sources

LEMMA SentIsChainedStep ==
  ASSUME StreamInv, SentInv, CaptureStep PROVE SentIsChained'
<1> USE DEF StreamInv, SentInv
<1>1. Begun
  BY ReadyBegun
<1>2. CASE Elsewhere
  BY <1>2, NothingElsewhere, PromiseStays
<1>3. CASE FrameArrives
  BY <1>1, <1>3, FrameKeepsPromise
<1>4. CASE HashIsReady
  BY <1>1, <1>4, HashKeepsPromise
<1>5. CASE AnswerArrives
  BY <1>1, <1>5, AnswerKeepsPromise
<1>6. CASE Faults \/ Aborts
  <2>1. PICK verdict \in Verdicts : t' = Ended(t, verdict) \/ t' = t
    BY <1>6, FaultsEnd
  <2>2. UNCHANGED <<link, stream, wire>>
    BY <1>6, FaultsEnd
  <2> QED BY <1>1, <2>1, <2>2, EndsKeepPromise
<1>7. CASE SocketOpens
  BY <1>1, <1>7, OpeningKeepsPromise
<1>8. CASE Connects
  BY <1>8, ConnectingTransport, SameKeepsPromise
<1>9. CASE AskWorkletToStop
  BY <1>9, AskingTransport, SameKeepsPromise
<1>10. CASE WorkletStopArrives
  BY <1>1, <1>10, StopKeepsPromise
<1>11. CASE ServerStarts
  BY <1>11, StartKeepsPromise
<1>12. CASE ServerSpools
  BY <1>12, SpoolKeepsPromise
<1>13. CASE ServerStops
  BY <1>13, StoppingKeepsPromise
<1>14. CASE ServerRefuses \/ ServerSeesClose
  <2>1. link' = "closed"
    BY <1>14 DEF ServerRefuses, ServerSeesClose, Disconnects
  <2> QED BY <2>1 DEF SentIsChained
<1>15. ASSUME NEW p \in Turns, NewTransport(p) PROVE SentIsChained'
  BY <1>15, NewKeepsPromise
<1> QED
  BY <1>2, <1>3, <1>4, <1>5, <1>6, <1>7, <1>8, <1>9, <1>10, <1>11, <1>12, <1>13, <1>14, <1>15
  DEF CaptureStep, Page, Remote, Elsewhere

LEMMA PumpedIsAlive ==
  ASSUME NEW u \in Transports, Alive(u), Pump(u)
  PROVE  Alive(t')
BY PumpedTransport DEF Pump, SameCourse, Alive

LEMMA DeadIsEmptyStep ==
  ASSUME StreamInv, SentInv, CaptureStep PROVE DeadIsEmpty'
<1> USE DEF StreamInv, SentInv
<1>0. t \in Transports
  BY DEF StreamTypeOK
<1>1. t' = t => DeadIsEmpty'
  BY DEF DeadIsEmpty, Alive
<1>2. \A verdict \in Verdicts : t' = Ended(t, verdict) => DeadIsEmpty'
  BY <1>0, EndedIsEmpty DEF DeadIsEmpty
<1>3. Alive(t') => DeadIsEmpty'
  BY DEF DeadIsEmpty, Alive
<1>4. t'.pending = <<>> => DeadIsEmpty'
  BY DEF DeadIsEmpty, Alive
<1>5. t'.pending = t.pending /\ t'.verdict = t.verdict => DeadIsEmpty'
  BY DEF DeadIsEmpty, Alive
<1>6. CASE FrameArrives
  <2>1. CASE Alive(t) /\ Ends("failed", Tail(port))
    BY <1>2, <2>1 DEF Ends, Verdicts
  <2>2. CASE t' = Heard(Head(port)) /\ Alive(t)
    <3>1. t'.verdict = t.verdict
      BY <1>6, <2>2, HeardTransport, ArrivedFrame
    <3> QED BY <1>3, <2>2, <3>1 DEF Alive
  <2>3. CASE Alive(Flushed(Heard(Head(port)))) /\ Pump(Flushed(Heard(Head(port)))) /\ Alive(t)
    <3> DEFINE u == Heard(Head(port))
               v == Flushed(u)
    <3>1. u \in Transports /\ Alive(u)
      BY <1>6, <2>3, HeardTransport, ArrivedFrame DEF Alive
    <3> HIDE DEF u
    <3>2. v \in Transports
      BY <3>1, FlushedTransport
    <3> HIDE DEF v
    <3>3. Alive(v) /\ Pump(v)
      BY <2>3 DEF v, u
    <3> QED BY <1>3, <3>2, <3>3, PumpedIsAlive
  <2> QED BY <1>1, <1>6, <2>1, <2>2, <2>3, ArrivedFrame
<1>7. CASE HashIsReady
  <2>1. t'.pending = t.pending /\ t'.verdict = t.verdict
    BY <1>0, <1>7 DEF HashIsReady, Transports
  <2> QED BY <1>5, <2>1
<1>8. CASE AnswerArrives
  <2>1. CASE \E verdict \in Verdicts : t' = Ended(t, verdict) /\ UNCHANGED wire
    BY <1>2, <2>1
  <2>2. ASSUME NEW u \in Transports, SameCourse(t, u), Pump(u) PROVE DeadIsEmpty'
    <3>1. Alive(u)
      BY <1>8, <2>2, AnswerPumps DEF SameCourse, Alive
    <3> QED BY <1>3, <2>2, <3>1, PumpedIsAlive
  <2> QED BY <1>8, <2>1, <2>2, AnswerPumps
<1>9. CASE Faults \/ Aborts
  BY <1>1, <1>2, <1>9, FaultsEnd
<1>10. CASE SocketOpens
  <2>1. t'.pending = t.pending /\ t'.verdict = t.verdict
    BY <1>0, <1>10 DEF SocketOpens, Transports
  <2> QED BY <1>5, <2>1
<1>11. CASE Connects \/ AskWorkletToStop
  BY <1>5, <1>11, ConnectingTransport, AskingTransport
<1>12. CASE WorkletStopArrives
  <2>1. CASE ~Alive(t)
    BY <1>1, <1>12, <2>1 DEF WorkletStopArrives
  <2>2. CASE Alive(t)
    <3> DEFINE u == Halted(Head(port).loss)
               v == Flushed(u)
    <3>1. v \in Transports
      BY <1>12, <2>2, StoppedTransport
    <3>2. \/ t'.pending = <<>>
          \/ Alive(v) /\ Pump(v)
      BY <1>12, <2>2, StopPumps
    <3> HIDE DEF v
    <3> QED BY <1>3, <1>4, <3>1, <3>2, PumpedIsAlive
  <2> QED BY <2>1, <2>2
<1>13. CASE ServerStarts \/ ServerSpools \/ ServerStops \/ ServerRefuses \/ ServerSeesClose
  BY <1>1, <1>13 DEF ServerStarts, ServerSpools, ServerStops, ServerRefuses, ServerSeesClose
<1>14. ASSUME NEW p \in Turns, NewTransport(p) PROVE DeadIsEmpty'
  BY <1>4, <1>14 DEF NewTransport, FreshTransport
<1>15. CASE Elsewhere
  BY <1>1, <1>15, NothingElsewhere
<1> QED
  BY <1>6, <1>7, <1>8, <1>9, <1>10, <1>11, <1>12, <1>13, <1>14, <1>15
  DEF CaptureStep, Page, Remote, Elsewhere

\* The later of the two clocks is no further off than the one that was asked to stop.
LEMMA LaterIsInTime ==
  ASSUME NEW last \in Nat, NEW at \in Nat, NEW e \in Nat, NEW d \in Nat,
         last <= e + d, Abs(at - e - d) <= MaxDrift
  PROVE  Abs(Later(last, at) - e - d) <= MaxDrift
<1> DEFINE x == Later(last, at)
<1>1. MaxDrift \in Nat
  OBVIOUS
<1>2. x \in Nat /\ x >= at /\ (x = at \/ x <= e + d)
  BY DEF Later
<1> HIDE DEF x
<1>3. CASE x = at
  BY <1>3 DEF x
<1>4. CASE x <= e + d
  <2>1. at - e - d <= x - e - d /\ x - e - d <= 0 /\ at - e - d \in Int /\ x - e - d \in Int
    BY <1>2, <1>4
  <2> DEFINE y == at - e - d
             z == x - e - d
  <2> HIDE DEF y, z
  <2>2. y \in Int /\ z \in Int /\ y <= z /\ z <= 0 /\ Abs(y) <= MaxDrift
    BY <2>1 DEF y, z
  <2>3. Abs(z) <= MaxDrift
    BY <1>1, <2>2 DEF Abs
  <2> QED BY <2>3 DEF z, x
<1> QED BY <1>2, <1>3, <1>4

\* A stop is hashed when nothing is left to be sent.
LEMMA HashedIsDone ==
  ASSUME NEW u \in Transports, u.stop \notin {"hashing", "sent"}, Pump(u)
  PROVE  t'.stop \in {"hashing", "sent"} => t'.pending = <<>> /\ t'.socket = "open"
<1> DEFINE v == Pumped(u)
<1>1. /\ SameCourse(u, v)
      /\ v.stop = u.stop \/ (u.stop = "requested" /\ v.stop = "hashing" /\ Pumps(u))
      /\ Pumps(u) => (v.stop = "hashing" /\ u.stop = "requested" => v.pending = <<>>)
  BY PumpedTransport
<1>2. t' = v
  BY DEF Pump
<1> HIDE DEF v
<1>3. Pumps(u) => v.socket = "open"
  BY <1>1 DEF SameCourse, Pumps
<1> QED BY <1>1, <1>2, <1>3

LEMMA NothingLeft ==
  ASSUME NEW u \in Transports, u.pending = <<>>
  PROVE  Burst(u) = <<>> /\ Pumped(u).pending = <<>>
<1> DEFINE n == Len(Burst(u))
<1>1. /\ n \in 0..Len(u.pending) /\ Burst(u) = SubSeq(u.pending, 1, n)
      /\ ~Pumps(u) => Pumped(u) = u
      /\ Pumps(u) => Pumped(u).pending = SubSeq(u.pending, n + 1, Len(u.pending))
  BY PumpedTransport
<1> HIDE DEF n
<1>2. n = 0
  BY <1>1
<1>3. SubSeq(<<>>, 1, 0) = <<>> /\ SubSeq(<<>>, 0 + 1, Len(<<>>)) = <<>>
  OBVIOUS
<1>4. Burst(u) = <<>>
  BY <1>1, <1>2, <1>3
<1>5. Pumps(u) => Pumped(u).pending = SubSeq(<<>>, 0 + 1, Len(<<>>))
  BY <1>1, <1>2
<1>6. Pumps(u) => Pumped(u).pending = <<>>
  BY <1>3, <1>5
<1> QED BY <1>1, <1>4, <1>6

LEMMA StopIsInTime ==
  ASSUME StreamInv, SentInv, WorkletStopArrives, Alive(t), Alive(t')
  PROVE  IsInTime(t')
<1>0. StreamTypeOK /\ NoTransport /\ Accounts /\ PostsGrow
  BY DEF StreamInv, SentInv
<1>1. /\ turn # 0 /\ t.stop = "no" /\ Head(port).loss = source.loss
      /\ source.clock = t.emitted + t.buffer + Dropped(source.loss)
  BY <1>0, LastIsHeard
<1>2. /\ t'.loss = source.loss /\ t'.lastTime = Later(t.lastTime, t.stopAt)
      /\ t'.stopAt = t.stopAt /\ t'.emitted = t.emitted + t.buffer
      /\ ~Drifts(t'.stopAt, t'.emitted, t'.loss)
  BY <1>0, <1>1, StopTaken DEF Fails
<1>3. /\ t.lastTime \in Nat /\ t.stopAt \in Nat /\ t'.emitted \in Nat
      /\ Dropped(source.loss) \in Nat
  <2>1. t \in Transports /\ source \in Sources
    BY <1>0 DEF StreamTypeOK
  <2>2. /\ t.lastTime \in Nat /\ t.stopAt \in Nat /\ t.emitted \in Nat /\ t.buffer \in Nat
        /\ source.loss \in Losses
    BY <2>1 DEF Transports, Sources
  <2>3. t'.emitted \in Nat
    BY <1>2, <2>2
  <2> QED BY <2>2, <2>3, EvidenceType
<1>4. t.lastTime <= t'.emitted + Dropped(source.loss)
  BY <1>0, <1>1, <1>2 DEF PostsGrow
<1> DEFINE d == Dropped(source.loss)
           e == t'.emitted
<1>5. Abs(t.stopAt - e - d) <= MaxDrift
  <2>1. Abs(t.stopAt - e - d) \in Int
    BY <1>3 DEF Abs
  <2> QED BY <1>2, <2>1 DEF Drifts
<1> HIDE DEF d, e
<1>6. Abs(Later(t.lastTime, t.stopAt) - e - d) <= MaxDrift
  BY <1>3, <1>4, <1>5, LaterIsInTime DEF d, e
<1> QED BY <1>2, <1>6 DEF IsInTime, d, e

LEMMA StopsAgreeStep ==
  ASSUME StreamInv, SentInv, CaptureStep PROVE StopsAgree'
<1> USE DEF StreamInv, SentInv
<1>0. t \in Transports
  BY DEF StreamTypeOK
<1> SUFFICES ASSUME Alive(t')
             PROVE  /\ t'.stop \in {"hashing", "sent"} => t'.pending = <<>> /\ t'.socket = "open"
                    /\ t'.stop # "no" => IsInTime(t')
  BY DEF StopsAgree, IsInTime, Alive
<1>1. CASE t' = t
  BY <1>1 DEF StopsAgree
<1>2. CASE t'.stop = "no"
  BY <1>2
<1>3. CASE FrameArrives
  BY <1>1, <1>2, <1>3, FrameTaken DEF Fails
<1>4. CASE HashIsReady
  <2>1. /\ Alive(t) /\ t.stop = "hashing"
        /\ t'.pending = t.pending /\ t'.socket = t.socket /\ t'.lastTime = t.lastTime
        /\ t'.emitted = t.emitted /\ t'.loss = t.loss
    BY <1>0, <1>4 DEF HashIsReady, Transports
  <2> QED BY <2>1 DEF StopsAgree, IsInTime
<1>5. CASE AnswerArrives
  <2>1. GoesOn /\ Alive(t)
    BY <1>5, AnswerTaken DEF Sockets, Fails, GoesOn
  <2>2. PICK u \in Transports :
          /\ SameCourse(t, u) /\ u.stop = t.stop /\ u.pending = t.pending /\ Pump(u)
    BY <1>0, <1>5, AnswerPumps, EndedTransport
  <2>3. t'.stop # "no" => IsInTime(t')
    BY <2>1 DEF GoesOn, StopsAgree, IsInTime
  <2>4. CASE t.stop \in {"hashing", "sent"}
    <3>1. u.pending = <<>> /\ t.socket = "open"
      BY <2>1, <2>2, <2>4 DEF StopsAgree
    <3>2. t'.pending = <<>>
      BY <2>2, <3>1, NothingLeft DEF Pump
    <3> QED BY <2>1, <2>3, <3>1, <3>2 DEF GoesOn
  <2>5. CASE t.stop \notin {"hashing", "sent"}
    BY <2>2, <2>3, <2>5, HashedIsDone
  <2> QED BY <2>4, <2>5
<1>6. CASE Faults \/ Aborts
  <2>1. PICK verdict \in Verdicts : t' = Ended(t, verdict) \/ t' = t
    BY <1>6, FaultsEnd
  <2> QED BY <1>0, <1>1, <2>1, EndedTransport
<1>7. CASE SocketOpens
  <2>1. /\ t'.pending = t.pending /\ t'.socket = "open" /\ t'.lastTime = t.lastTime
        /\ t'.emitted = t.emitted /\ t'.loss = t.loss /\ t'.stop = t.stop /\ Alive(t)
    BY <1>0, <1>7 DEF SocketOpens, Transports, Alive
  <2> QED BY <2>1 DEF StopsAgree, IsInTime
<1>8. CASE t.socket = "none" /\ Connects
  <2>1. /\ t'.lastTime = t.lastTime /\ t'.stop = t.stop
        /\ t'.emitted = t.emitted /\ t'.loss = t.loss /\ Alive(t)
    BY <1>8, ConnectingTransport DEF Alive
  <2> QED BY <1>8, <2>1 DEF StopsAgree, IsInTime
<1>9. CASE Alive(t) /\ t.stop = "no" /\ AskWorkletToStop
  BY <1>2, <1>9, AskingTransport
<1>10. CASE WorkletStopArrives
  <2>1. CASE ~Alive(t)
    BY <1>1, <1>10, <2>1 DEF WorkletStopArrives
  <2>2. CASE Alive(t)
    <3> DEFINE u == Halted(Head(port).loss)
               v == Flushed(u)
    <3>1. u \in Transports /\ u.stop = "requested" /\ Alive(u) /\ v \in Transports
      BY <1>10, <2>2, StoppedTransport
    <3>2. Alive(v) /\ Pump(v)
      BY <1>10, <2>2, StopPumps
    <3> HIDE DEF u
    <3>3. v.stop = "requested"
      BY <3>1, <3>2, FlushedTransport
    <3> HIDE DEF v
    <3>4. t'.stop \in {"hashing", "sent"} => t'.pending = <<>> /\ t'.socket = "open"
      BY <3>1, <3>2, <3>3, HashedIsDone
    <3>5. IsInTime(t')
      BY <1>10, <2>2, StopIsInTime
    <3> QED BY <3>4, <3>5
  <2> QED BY <2>1, <2>2
<1>11. CASE ServerStarts \/ ServerSpools \/ ServerStops \/ ServerRefuses \/ ServerSeesClose
  BY <1>1, <1>11 DEF ServerStarts, ServerSpools, ServerStops, ServerRefuses, ServerSeesClose
<1>12. ASSUME NEW p \in Turns, NewTransport(p) PROVE t'.stop = "no"
  BY <1>12 DEF NewTransport, FreshTransport
<1>13. CASE Elsewhere
  BY <1>1, <1>13, NothingElsewhere
<1> QED
  BY <1>2, <1>3, <1>4, <1>5, <1>6, <1>7, <1>8, <1>9, <1>10, <1>11, <1>12, <1>13
  DEF CaptureStep, Page, Remote, Elsewhere

LEMMA WithinItself ==
  ASSUME NEW a \in Losses PROVE Within(a, a)
BY DEF Within, Losses

\* The source counts on, and posts what it did not lose.
LEMMA RenderedGrows ==
  ASSUME StreamTypeOK, NEW lost \in BOOLEAN, NEW low \in Losses,
         Grow(low, port, source.loss, source.clock)
  PROVE  LET s == Rendered(source, lost) IN
         /\ Grow(low, Posted(s), s.loss, s.clock) /\ Posted(s) \in Seq(Posts)
         /\ s \in Sources
<1> DEFINE s == Rendered(source, lost)
           p == [type |-> "frame", time |-> s.clock, loss |-> s.loss]
<1>1. /\ s \in Sources /\ s.clock = source.clock + 1
      /\ \/ s.loss = source.loss /\ Posted(s) = Append(port, p)
         \/ /\ Posted(s) = port
            /\ s.loss.gaps >= source.loss.gaps /\ s.loss.overflows >= source.loss.overflows
      /\ Posted(s) \in Seq(Posts)
  BY RenderedSource
<1> HIDE DEF s
<1>2. /\ source.loss \in Losses /\ source.clock \in Nat /\ s.loss \in Losses /\ s.clock \in Nat
      /\ port \in Seq(Posts)
  BY <1>1 DEF StreamTypeOK, Sources
<1>3. Within(source.loss, s.loss)
  <2>1. s.loss = source.loss => Within(source.loss, s.loss)
    BY <1>2, WithinItself
  <2>2. /\ source.loss.gaps \in Nat /\ source.loss.overflows \in Nat
        /\ s.loss.gaps \in Nat /\ s.loss.overflows \in Nat
    BY <1>2 DEF Losses
  <2> QED BY <1>1, <2>1, <2>2 DEF Within
<1>4. source.clock <= s.clock
  BY <1>1, <1>2
<1>5. Grow(low, port, s.loss, s.clock)
  BY <1>2, <1>3, <1>4, GrowLater
<1>6. p \in Posts /\ p.loss = s.loss /\ (p.type = "frame" => p.time <= s.clock)
  BY <1>2 DEF Posts
<1> HIDE DEF p
<1>7. Grow(low, Append(port, p), s.loss, s.clock)
  BY <1>2, <1>5, <1>6, GrowPosts
<1>8. Grow(low, Posted(s), s.loss, s.clock)
  BY <1>1, <1>5, <1>7
<1> QED BY <1>1, <1>8 DEF s

LEMMA StoppingGrows ==
  ASSUME NEW low \in Losses, NEW posts \in Seq(Posts), NEW s \in Sources,
         Grow(low, posts, s.loss, s.clock)
  PROVE  Grow(low, Append(posts, [type |-> "stopped", loss |-> s.loss]), s.loss, s.clock)
<1> DEFINE p == [type |-> "stopped", loss |-> s.loss]
<1>1. s.loss \in Losses /\ s.clock \in Nat
  BY DEF Sources
<1>2. p \in Posts /\ p.loss = s.loss /\ (p.type = "frame" => p.time <= s.clock)
  BY <1>1 DEF Posts
<1> HIDE DEF p
<1>3. Grow(low, Append(posts, p), s.loss, s.clock)
  BY <1>1, <1>2, GrowPosts
<1> QED BY <1>3 DEF p

LEMMA RenderKeepsPosts ==
  ASSUME StreamTypeOK, PostsGrow, RenderFrame PROVE PostsGrow'
<1>1. PICK lost \in BOOLEAN : source' = Rendered(source, lost) /\ port' = Posted(source')
  BY DEF RenderFrame
<1>2. t' = t /\ turn' = turn /\ source.clock < Frames[turn] /\ t.loss \in Losses
  BY DEF RenderFrame, StreamTypeOK, Transports
<1> SUFFICES ASSUME turn # 0, Alive(t)
             PROVE  /\ source'.clock <= Frames[turn]
                    /\ t.stop = "no" => t.lastTime <= source'.clock
                    /\ Grow(t.loss, port', source'.loss, source'.clock)
  BY <1>2 DEF PostsGrow, Alive, Grow, Within
<1>3. Grow(t.loss, port', source'.loss, source'.clock)
  BY <1>1, <1>2, RenderedGrows DEF PostsGrow
<1>4. source'.clock = source.clock + 1
  BY <1>1, RenderedSource
<1>5. source.clock \in Nat /\ t.lastTime \in Nat /\ turn \in Turns
  BY DEF StreamTypeOK, Sources, Transports
<1>6. Frames[turn] \in Nat
  BY <1>5
<1>7. t.stop = "no" => t.lastTime <= source.clock
  BY DEF PostsGrow
<1> QED BY <1>2, <1>3, <1>4, <1>5, <1>6, <1>7

LEMMA FlushKeepsPosts ==
  ASSUME StreamTypeOK, PostsGrow, WorkletStops PROVE PostsGrow'
<1>1. PICK s \in {source, Rendered(source, FALSE)} :
        /\ s.clock <= Frames[turn]
        /\ source' = [s EXCEPT !.state = "stopped"]
        /\ port' = Append(IF s = source THEN port ELSE Posted(s),
                          [type |-> "stopped", loss |-> s.loss])
  BY DEF WorkletStops
<1> DEFINE posts == IF s = source THEN port ELSE Posted(s)
<1>2. /\ t' = t /\ turn' = turn /\ t.loss \in Losses /\ port \in Seq(Posts)
      /\ source \in Sources /\ source.clock \in Nat /\ t.lastTime \in Nat
  BY DEF WorkletStops, StreamTypeOK, Transports, Sources
<1>3. s \in Sources /\ posts \in Seq(Posts) /\ source.clock <= s.clock
  <2>1. s = source \/ (s \in Sources /\ Posted(s) \in Seq(Posts) /\ s.clock = source.clock + 1)
    BY <1>1, RenderedSource
  <2> QED BY <1>2, <2>1
<1>4. source'.clock = s.clock /\ source'.loss = s.loss
  BY <1>1, <1>3 DEF Sources
<1> SUFFICES ASSUME turn # 0, Alive(t)
             PROVE  /\ source'.clock <= Frames[turn]
                    /\ t.stop = "no" => t.lastTime <= source'.clock
                    /\ Grow(t.loss, port', source'.loss, source'.clock)
  BY <1>2 DEF PostsGrow, Alive, Grow, Within
<1>5. Grow(t.loss, posts, s.loss, s.clock)
  <2>1. Grow(t.loss, port, source.loss, source.clock)
    BY DEF PostsGrow
  <2>2. CASE s = source
    BY <2>1, <2>2
  <2>3. CASE s # source
    BY <1>1, <1>2, <2>1, <2>3, RenderedGrows
  <2> QED BY <2>2, <2>3
<1> HIDE DEF posts
<1>6. Grow(t.loss, port', s.loss, s.clock)
  BY <1>1, <1>2, <1>3, <1>5, StoppingGrows DEF posts
<1>7. t.stop = "no" => t.lastTime <= s.clock
  <2>1. t.stop = "no" => t.lastTime <= source.clock
    BY DEF PostsGrow
  <2>2. s.clock \in Nat
    BY <1>3 DEF Sources
  <2> QED BY <1>2, <1>3, <2>1, <2>2
<1> QED BY <1>1, <1>4, <1>6, <1>7

LEMMA HearingKeepsPosts ==
  ASSUME StreamTypeOK, PostsGrow, port # <<>>, port' = Tail(port), UNCHANGED <<turn, source>>,
         Alive(t') => /\ Alive(t)
                      /\ t'.loss = t.loss \/ t'.loss = Head(port).loss
                      /\ t'.stop = "no" =>
                           /\ t.stop = "no"
                           /\ \/ t'.lastTime = t.lastTime
                              \/ /\ Head(port).type = "frame"
                                 /\ t'.lastTime = Later(t.lastTime, Head(port).time)
  PROVE  PostsGrow'
<1> SUFFICES ASSUME turn # 0, Alive(t')
             PROVE  /\ source.clock <= Frames[turn]
                    /\ t'.stop = "no" => t'.lastTime <= source.clock
                    /\ Grow(t'.loss, Tail(port), source.loss, source.clock)
  BY DEF PostsGrow, Alive, Grow, Within
<1>1. /\ t.loss \in Losses /\ source.loss \in Losses /\ source.clock \in Nat
      /\ port \in Seq(Posts)
  BY DEF StreamTypeOK, Transports, Sources
<1>2. /\ source.clock <= Frames[turn] /\ (t.stop = "no" => t.lastTime <= source.clock)
      /\ Grow(t.loss, port, source.loss, source.clock)
  BY DEF PostsGrow
<1>3. /\ Grow(Head(port).loss, Tail(port), source.loss, source.clock)
      /\ Grow(t.loss, Tail(port), source.loss, source.clock)
      /\ Head(port).type = "frame" => Head(port).time <= source.clock
  BY <1>1, <1>2, GrowRest
<1> QED BY <1>2, <1>3 DEF Later

\* The transport goes on, and so may the source's state.
LEMMA QuietKeepsPosts ==
  ASSUME PostsGrow, UNCHANGED <<turn, port>>,
         source'.clock = source.clock, source'.loss = source.loss,
         Alive(t') => /\ Alive(t) /\ t'.loss = t.loss
                      /\ t'.stop = "no" => t.stop = "no" /\ t'.lastTime = t.lastTime
  PROVE  PostsGrow'
<1> SUFFICES ASSUME turn # 0, Alive(t')
             PROVE  /\ source.clock <= Frames[turn]
                    /\ t'.stop = "no" => t'.lastTime <= source.clock
                    /\ Grow(t'.loss, port, source.loss, source.clock)
  BY DEF PostsGrow, Alive, Grow, Within
<1> QED BY DEF PostsGrow

LEMMA NewKeepsPosts ==
  ASSUME NEW p \in Turns, NewTransport(p) PROVE PostsGrow'
<1>1. /\ turn' = p /\ port' = <<>> /\ source'.clock = 0 /\ source'.loss = NoLoss
      /\ t'.loss = NoLoss /\ t'.lastTime = 0
  BY DEF NewTransport, FreshSource, FreshTransport
<1>2. Frames[p] \in Nat
  OBVIOUS
<1>3. Grow(NoLoss, <<>>, NoLoss, 0)
  BY DEF Grow, Within, NoLoss
<1>4. 0 <= Frames[p] /\ 0 <= 0
  BY <1>2
<1>5. /\ source'.clock <= Frames[turn'] /\ t'.lastTime <= source'.clock
      /\ Grow(t'.loss, port', source'.loss, source'.clock)
  BY <1>1, <1>3, <1>4
<1> QED BY <1>5 DEF PostsGrow, Grow, Within

LEMMA PostsGrowStep ==
  ASSUME StreamInv, SentInv, CaptureStep PROVE PostsGrow'
<1> USE DEF StreamInv, SentInv
<1>0. t \in Transports
  BY DEF StreamTypeOK
<1>1. UNCHANGED <<turn, source, port, t>> => PostsGrow'
  BY DEF PostsGrow, Grow, Within, Alive
<1>2. CASE RenderFrame
  BY <1>2, RenderKeepsPosts
<1>3. CASE WorkletStops
  BY <1>3, FlushKeepsPosts
<1>4. CASE FrameArrives
  <2>1. CASE Fails("failed")
    <3>1. turn' = turn /\ ~Alive(t')
      BY <1>4, <2>1, FrameTaken DEF Fails
    <3> QED BY <3>1 DEF PostsGrow, Alive
  <2>2. CASE ~Fails("failed")
    <3>1. port # <<>> /\ port' = Tail(port) /\ UNCHANGED <<turn, source>> /\ Head(port).type = "frame"
      BY <1>4, <2>2, FrameTaken
    <3>2. \/ t' = t
          \/ /\ Alive(t) /\ t.stop = "no" /\ t'.loss = Head(port).loss
             /\ t'.lastTime = Later(t.lastTime, Head(port).time)
      BY <1>4, <2>2, FrameTaken
    <3> QED BY <3>1, <3>2, HearingKeepsPosts
  <2> QED BY <2>1, <2>2
<1>5. CASE HashIsReady
  <2>1. /\ UNCHANGED <<turn, source, port>> /\ Alive(t) /\ t'.stop = "sent" /\ t'.loss = t.loss
    BY <1>0, <1>5 DEF HashIsReady, Transports
  <2> QED BY <2>1, QuietKeepsPosts
<1>6. CASE AnswerArrives
  <2>1. turn' = turn /\ (Alive(t') => GoesOn)
    BY <1>6, AnswerTaken DEF Sockets, Fails
  <2>2. CASE ~Alive(t')
    BY <2>1, <2>2 DEF PostsGrow, Alive
  <2>3. CASE Alive(t')
    BY <2>1, <2>3, QuietKeepsPosts DEF GoesOn
  <2> QED BY <2>2, <2>3
<1>7. CASE Faults \/ Aborts
  <2>1. PICK verdict \in Verdicts : Ends(verdict, port)
    BY <1>7, FaultsEnd
  <2>2. turn' = turn /\ ~Alive(t')
    BY <1>0, <1>7, <2>1, FaultsEnd, EndedTransport DEF Ends
  <2> QED BY <2>2 DEF PostsGrow, Alive
<1>8. CASE SocketOpens
  <2>1. /\ UNCHANGED <<turn, source, port>> /\ t'.stop = t.stop /\ t'.loss = t.loss
        /\ t'.lastTime = t.lastTime /\ (Alive(t') => Alive(t))
    BY <1>0, <1>8 DEF SocketOpens, Transports, Alive
  <2> QED BY <2>1, QuietKeepsPosts
<1>9. CASE Connects
  <2>1. /\ UNCHANGED <<turn, source, port>> /\ t'.stop = t.stop /\ t'.loss = t.loss
        /\ t'.lastTime = t.lastTime /\ (Alive(t') => Alive(t))
    BY <1>9, ConnectingTransport DEF Alive
  <2> QED BY <2>1, QuietKeepsPosts
<1>10. CASE AskWorkletToStop
  <2>1. /\ UNCHANGED <<turn, port>> /\ t'.stop = t.stop /\ t'.loss = t.loss
        /\ t'.lastTime = t.lastTime /\ (Alive(t') => Alive(t))
        /\ source'.clock = source.clock /\ source'.loss = source.loss
    BY <1>10, AskingTransport DEF Alive
  <2> QED BY <2>1, QuietKeepsPosts
<1>11. CASE WorkletStopArrives
  <2>1. /\ port # <<>> /\ port' = Tail(port) /\ UNCHANGED <<turn, source>>
    BY <1>11, StopTaken
  <2>2. \/ t' = t \/ ~Alive(t')
        \/ Alive(t) /\ t'.stop # "no" /\ t'.loss = Head(port).loss
    BY <1>11, StopTaken DEF Fails
  <2> QED BY <2>1, <2>2, HearingKeepsPosts
<1>12. CASE ServerStarts \/ ServerSpools \/ ServerStops \/ ServerRefuses \/ ServerSeesClose
  BY <1>1, <1>12 DEF ServerStarts, ServerSpools, ServerStops, ServerRefuses, ServerSeesClose
<1>13. ASSUME NEW p \in Turns, NewTransport(p) PROVE PostsGrow'
  BY <1>13, NewKeepsPosts
<1>14. CASE UNCHANGED captureVars \/ SessionMoves
  BY <1>1, <1>14 DEF captureVars, SessionMoves
<1>15. ASSUME NEW p \in Turns, AnalysisEnds(p) PROVE PostsGrow'
  BY <1>1, <1>15 DEF AnalysisEnds
<1> QED
  BY <1>2, <1>3, <1>4, <1>5, <1>6, <1>7, <1>8, <1>9, <1>10, <1>11, <1>12, <1>13, <1>14, <1>15
  DEF CaptureStep, Page, Remote

\* A transport sends nothing before its socket is open, nor when it holds nothing back.
LEMMA SendsNothing ==
  ASSUME wire \in Seq(Messages), NEW u \in Transports, Sends(Burst(u)),
         u.socket # "open" \/ u.pending = <<>>
  PROVE  wire' = wire
<1>1. u.socket # "open" => Burst(u) = <<>>
  BY DEF Burst, Pumps
<1>2. Burst(u) = <<>>
  BY <1>1, NothingLeft
<1>3. wire' = wire \o Carried(<<>>) /\ Carried(<<>>) = <<>>
  BY <1>2 DEF Sends, Carried
<1> QED BY <1>3

\* What a transport sends: chunks, after its socket's start, and none after its stop.
Adds ==
  /\ UNCHANGED <<link, stream>> /\ (t.socket # "open" => t'.socket # "open")
  /\ \/ wire' = wire
     \/ /\ t.socket = "open" /\ Alive(t) /\ t.stop # "sent"
        /\ \E sent \in Seq(Messages) : wire' = wire \o sent

LEMMA FrameAdds ==
  ASSUME StreamTypeOK, Sockets, FrameArrives PROVE Adds
<1>1. UNCHANGED <<link, stream>>
  BY FrameTaken
<1>2. t.socket # "open" => t'.socket # "open"
  BY FrameTaken DEF Fails
<1>3. CASE wire' = wire
  BY <1>1, <1>2, <1>3 DEF Adds
<1>4. CASE wire' # wire
  <2> DEFINE u == Heard(Head(port))
             v == Flushed(u)
  <2>1. Alive(t) /\ t.stop = "no" /\ Alive(v) /\ Pump(v)
    BY <1>4, ArrivedFrame
  <2>2. u \in Transports /\ Alive(u) /\ u.socket = t.socket
    BY <2>1, HeardTransport, ArrivedFrame DEF Alive
  <2> HIDE DEF u
  <2>3. v \in Transports /\ v.socket = u.socket
    BY <2>1, <2>2, FlushedTransport DEF SameCourse
  <2> HIDE DEF v
  <2>4. Sends(Burst(v)) /\ Burst(v) \in Seq(Packed) /\ wire \in Seq(Messages)
    BY <2>1, <2>3, PumpedTransport DEF Pump, StreamTypeOK
  <2>5. t.socket = "open"
    BY <1>4, <2>2, <2>3, <2>4, SendsNothing
  <2>6. wire' = wire \o Carried(Burst(v)) /\ Carried(Burst(v)) \in Seq(Messages)
    BY <2>4, CarriedType DEF Sends, Carried
  <2> QED BY <1>1, <1>2, <2>1, <2>5, <2>6 DEF Adds
<1> QED BY <1>3, <1>4

LEMMA StopAdds ==
  ASSUME StreamTypeOK, NoTransport, Accounts, Sockets, WorkletStopArrives PROVE Adds
<1>1. UNCHANGED <<link, stream>>
  BY StopTaken
<1>2. t.socket # "open" => t'.socket # "open"
  BY StopTaken DEF Fails
<1>3. CASE wire' = wire
  BY <1>1, <1>2, <1>3 DEF Adds
<1>4. CASE wire' # wire
  <2> DEFINE u == Halted(Head(port).loss)
             v == Flushed(u)
  <2>1. Alive(t)
    BY <1>4 DEF WorkletStopArrives
  <2>2. t.stop = "no"
    BY <2>1, LastIsHeard
  <2>3. u \in Transports /\ Alive(u) /\ u.socket = t.socket /\ v \in Transports
        /\ Sends(Burst(v)) /\ Burst(v) \in Seq(Packed)
    BY <2>1, StoppedTransport
  <2>4. Alive(v)
    BY <1>4, <2>1, StopPumps
  <2> HIDE DEF u
  <2>5. v.socket = u.socket
    BY <2>3, <2>4, FlushedTransport DEF SameCourse
  <2> HIDE DEF v
  <2>6. wire \in Seq(Messages)
    BY DEF StreamTypeOK
  <2>7. t.socket = "open"
    BY <1>4, <2>3, <2>5, <2>6, SendsNothing
  <2>8. wire' = wire \o Carried(Burst(v)) /\ Carried(Burst(v)) \in Seq(Messages)
    BY <2>3, CarriedType DEF Sends, Carried
  <2> QED BY <1>1, <1>2, <2>1, <2>2, <2>7, <2>8 DEF Adds
<1> QED BY <1>3, <1>4

LEMMA AnswerAdds ==
  ASSUME StreamTypeOK, Sockets, StopsAgree, AnswerArrives PROVE Adds
<1>1. UNCHANGED <<link, stream>> /\ t.socket = "open" /\ Alive(t)
  BY AnswerPumps
<1>2. CASE wire' = wire
  BY <1>1, <1>2 DEF Adds
<1>3. CASE wire' # wire
  <2>1. PICK u \in Transports : u.pending = t.pending /\ Pump(u)
    BY <1>3, AnswerPumps
  <2>2. Sends(Burst(u)) /\ Burst(u) \in Seq(Packed) /\ wire \in Seq(Messages)
    BY <2>1, PumpedTransport DEF Pump, StreamTypeOK
  <2>3. t.stop # "sent"
    BY <1>1, <1>3, <2>1, <2>2, SendsNothing DEF StopsAgree
  <2>4. wire' = wire \o Carried(Burst(u)) /\ Carried(Burst(u)) \in Seq(Messages)
    BY <2>2, CarriedType DEF Sends, Carried
  <2> QED BY <1>1, <2>3, <2>4 DEF Adds
<1> QED BY <1>2, <1>3

LEMMA HashAdds ==
  ASSUME StreamTypeOK, StopsAgree, HashIsReady PROVE Adds
<1>1. Alive(t) /\ t.stop = "hashing" /\ t.socket = "open" /\ t \in Transports
  BY DEF HashIsReady, StopsAgree, StreamTypeOK
<1>2. StopMessage(t) \in Messages /\ wire \in Seq(Messages)
  BY <1>1, MessageTypes DEF StreamTypeOK
<1> DEFINE m == StopMessage(t)
<1>3. wire' = Append(wire, m) /\ UNCHANGED <<link, stream>>
  BY DEF HashIsReady, serverVars
<1> HIDE DEF m
<1>4. wire' = wire \o <<m>> /\ <<m>> \in Seq(Messages)
  BY <1>2, <1>3 DEF m
<1> QED BY <1>1, <1>3, <1>4 DEF Adds

LEMMA FirstStays ==
  ASSUME NEW S, NEW q \in Seq(S), NEW r \in Seq(S), q # <<>>
  PROVE  q \o r # <<>> /\ Head(q \o r) = Head(q)
OBVIOUS

\* The server stays ready for what it is sent.
LEMMA AddsKeepReady ==
  ASSUME StreamTypeOK, ServerIsReady, Adds,
         Alive(t') => Alive(t) /\ (t.stop = "sent" => t'.stop = "sent")
  PROVE  ServerIsReady'
<1> USE DEF ServerIsReady
<1>1. UNCHANGED <<link, stream>> /\ (t.socket # "open" => t'.socket # "open")
  BY DEF Adds
<1>2. CASE wire' = wire
  BY <1>1, <1>2 DEF Server!Fresh, Server!NoEvidence
<1>3. CASE wire' # wire
  <2>1. PICK sent \in Seq(Messages) : wire' = wire \o sent
    BY <1>3 DEF Adds
  <2>2. t.socket = "open" /\ Alive(t) /\ t.stop # "sent"
    BY <1>3 DEF Adds
  <2>3. link # "none" /\ ~(link = "open" /\ stream.phase = "stopped")
    BY <2>2
  <2>4. link = "open" /\ stream.phase = "idle" => wire' # <<>> /\ Head(wire') = StartMessage
    BY <2>1, FirstStays DEF StreamTypeOK
  <2>5. (stream.phase = "idle" => stream = Server!Fresh)'
    BY <1>1 DEF Server!Fresh, Server!NoEvidence
  <2>6. link' # "closed" =>
          /\ stream'.startTime = 0 /\ stream'.missingCount = 0
          /\ stream'.byteCount = 2 * stream'.frameCount
          /\ stream'.chunkCount <= stream'.frameCount
    BY <1>1
  <2>7. link' # "none" /\ ~(link' = "open" /\ stream'.phase = "stopped")
    BY <1>1, <2>3
  <2>8. link' = "open" /\ stream'.phase = "idle" =>
          wire' # <<>> /\ Head(wire') = StartMessage
    BY <1>1, <2>4
  <2> QED BY <2>5, <2>6, <2>7, <2>8 DEF StartMessage
<1> QED BY <1>2, <1>3

LEMMA OpeningKeepsReady ==
  ASSUME StreamTypeOK, Sockets, ServerIsReady, SocketOpens PROVE ServerIsReady'
<1>1. /\ t.socket = "connecting" /\ wire' = Append(wire, StartMessage) /\ link' = "open"
      /\ UNCHANGED stream
  BY DEF SocketOpens
<1>2. link = "none" /\ wire = <<>> /\ stream.phase = "idle"
  BY <1>1 DEF Sockets, ServerIsReady
<1>3. wire' = <<StartMessage>>
  BY <1>1, <1>2
<1>4. wire' # <<>> /\ Head(wire') = StartMessage
  BY <1>3
<1>5. stream = Server!Fresh /\ stream.startTime = 0 /\ stream.missingCount = 0
      /\ stream.byteCount = 2 * stream.frameCount /\ stream.chunkCount <= stream.frameCount
  BY <1>2 DEF ServerIsReady
<1>6. stream' = Server!Fresh' /\ stream'.phase = "idle"
  BY <1>1, <1>2, <1>5 DEF Server!Fresh, Server!NoEvidence
<1> QED BY <1>1, <1>4, <1>5, <1>6 DEF ServerIsReady, StartMessage

LEMMA StartingKeepsReady ==
  ASSUME StreamTypeOK, ServerStarts PROVE ServerIsReady'
<1>1. /\ link = "open" /\ Head(wire) \in StartMessages
      /\ Server!Start(Head(wire)) /\ UNCHANGED <<t, link>> /\ stream \in Streams
  BY WhatIsRead DEF ServerStarts, StreamTypeOK, Reads
<1>2. /\ stream'.phase = "open" /\ stream'.startTime = 0 /\ stream'.missingCount = 0
      /\ stream'.byteCount = 0 /\ stream'.chunkCount = 0 /\ stream'.frameCount = 0
  BY <1>1, StartedStream
<1>3. 0 = 2 * 0 /\ 0 <= 0
  OBVIOUS
<1> QED BY <1>1, <1>2, <1>3 DEF ServerIsReady

\* What the server reads of an open stream.
LEMMA ReadIsDue ==
  ASSUME StreamTypeOK, SentIsChained, link = "open", stream.phase = "open", wire # <<>>
  PROVE  \E b \in Marks :
           /\ Leads(Reached(stream), Head(wire), b)
           /\ \/ Head(wire).type = "chunk" /\ Head(wire).sequence = stream.lastSequence + 1
              \/ /\ Head(wire).type = "stop" /\ Head(wire).finalSequence = stream.lastSequence
                 /\ Tail(wire) = <<>>
BY HeadIsDue DEF SentIsChained

LEMMA CountsGrow ==
  ASSUME NEW bytes \in Nat, NEW total \in Nat, NEW chunks \in Nat, NEW more \in Nat \ {0},
         bytes = 2 * total, chunks <= total
  PROVE  bytes + 2 * more = 2 * (total + more) /\ chunks + 1 <= total + more
OBVIOUS

LEMMA SpoolingKeepsReady ==
  ASSUME StreamTypeOK, SentIsChained, ServerIsReady, ServerSpools PROVE ServerIsReady'
<1> DEFINE m == Head(wire)
<1>1. /\ link = "open" /\ m \in ChunkMessages /\ wire # <<>>
      /\ Server!Chunk(m) /\ UNCHANGED <<t, link>> /\ stream \in Streams
  BY WhatIsRead DEF ServerSpools, StreamTypeOK, Reads
<1>2. /\ stream.phase = "open" /\ stream'.phase = "open" /\ stream'.startTime = stream.startTime
      /\ stream'.chunkCount = stream.chunkCount + 1
      /\ stream'.frameCount = stream.frameCount + m.frames
      /\ stream'.byteCount = stream.byteCount + m.bytes
      /\ stream'.missingCount = stream.missingCount + (m.sequence - stream.lastSequence - 1)
  BY <1>1, SpooledStream
<1>3. PICK b \in Marks :
        /\ Leads(Reached(stream), m, b)
        /\ m.type = "chunk" => m.sequence = stream.lastSequence + 1
  BY <1>1, <1>2, ReadIsDue
<1>4. /\ m.type = "chunk" /\ m.frames \in Nat \ {0} /\ stream.lastSequence \in Nat
      /\ stream.byteCount \in Nat /\ stream.frameCount \in Nat /\ stream.chunkCount \in Nat
  BY <1>1 DEF ChunkMessages, Streams
<1>5. m.bytes = 2 * m.frames
  BY <1>3 DEF Leads, Server!PcmByteCountIs
<1>6. /\ stream.startTime = 0 /\ stream.missingCount = 0
      /\ stream.byteCount = 2 * stream.frameCount /\ stream.chunkCount <= stream.frameCount
  BY <1>1 DEF ServerIsReady
<1> HIDE DEF m
<1>7. stream'.missingCount = 0
  BY <1>2, <1>3, <1>4, <1>6
<1>8. /\ stream'.byteCount = 2 * stream'.frameCount
      /\ stream'.chunkCount <= stream'.frameCount
  BY <1>2, <1>4, <1>5, <1>6, CountsGrow
<1> QED BY <1>1, <1>2, <1>6, <1>7, <1>8 DEF ServerIsReady

LEMMA StoppingKeepsReady ==
  ASSUME StreamTypeOK, StopIsSent, SentIsChained, ServerIsReady, ServerStops
  PROVE  ServerIsReady'
<1> DEFINE m == Head(wire)
<1>1. /\ link = "open" /\ m \in StopMessages /\ wire # <<>> /\ wire' = Tail(wire)
      /\ Server!Stop(m) /\ UNCHANGED <<t, link>> /\ stream \in Streams /\ m.type = "stop"
      /\ wire \in Seq(Messages)
  BY WhatIsRead DEF ServerStops, StreamTypeOK, Reads
<1>2. /\ stream.phase = "open" /\ stream'.phase = "stopped"
      /\ stream'.frameCount = stream.frameCount /\ stream'.missingCount = stream.missingCount
  BY <1>1, StoppedStream
<1>3. /\ stream'.startTime = stream.startTime /\ stream'.chunkCount = stream.chunkCount
      /\ stream'.byteCount = stream.byteCount
  BY <1>1 DEF Server!Stop, Streams
<1>4. Tail(wire) = <<>>
  BY <1>1, <1>2, ReadIsDue
<1>5. Alive(t) => t.stop = "sent"
  <2>1. 1 \in 1..Len(wire) /\ wire[1] = m
    BY <1>1
  <2> HIDE DEF m
  <2>2. wire[1].type = "stop"
    BY <1>1, <2>1
  <2> QED BY <2>1, <2>2 DEF StopIsSent
<1> HIDE DEF m
<1> QED BY <1>1, <1>2, <1>3, <1>4, <1>5 DEF ServerIsReady, Alive

LEMMA FreshIsReady ==
  link = "none" /\ stream = Server!Fresh /\ t = FreshTransport /\ wire = <<>> => ServerIsReady
<1>1. 0 = 2 * 0 /\ 0 <= 0
  OBVIOUS
<1>2. Server!Fresh.startTime = 0
  BY DEF Server!Fresh
<1>3. FreshTransport.socket = "none"
  BY DEF FreshTransport
<1> QED BY <1>1, <1>2, <1>3, FreshStream DEF ServerIsReady

LEMMA ServerIsReadyStep ==
  ASSUME StreamInv, SentInv, CaptureStep PROVE ServerIsReady'
<1> USE DEF StreamInv, SentInv
<1>0. t \in Transports /\ wire \in Seq(Messages)
  BY DEF StreamTypeOK
<1>2. CASE FrameArrives
  BY <1>2, FrameAdds, AddsKeepReady, FrameTaken DEF Fails, Alive
<1>3. CASE HashIsReady
  <2>1. Alive(t) /\ t'.stop = "sent"
    BY <1>0, <1>3 DEF HashIsReady, Transports
  <2> QED BY <1>3, <2>1, HashAdds, AddsKeepReady
<1>4. CASE AnswerArrives
  <2>1. Alive(t') => GoesOn
    BY <1>4, AnswerTaken DEF Sockets, Fails
  <2> QED BY <1>4, <2>1, AnswerAdds, AddsKeepReady DEF GoesOn
<1>5. CASE Faults \/ Aborts
  <2>1. PICK verdict \in Verdicts : (Alive(t) /\ t' = Ended(t, verdict)) \/ t' = t
    BY <1>5, FaultsEnd
  <2>2. /\ t.socket # "open" => t'.socket # "open"
        /\ Alive(t') => t' = t
    BY <1>0, <2>1, EndedTransport
  <2>3. Adds
    BY <1>5, <2>2, FaultsEnd DEF Adds
  <2> QED BY <2>2, <2>3, AddsKeepReady
<1>6. CASE SocketOpens
  BY <1>6, OpeningKeepsReady
<1>7. CASE Connects \/ AskWorkletToStop
  <2>1. /\ UNCHANGED <<link, stream, wire>> /\ t'.stop = t.stop /\ t'.verdict = t.verdict
        /\ t'.socket \in {t.socket, "connecting"}
    BY <1>7, ConnectingTransport, AskingTransport
  <2> QED BY <2>1, AddsKeepReady DEF Adds, Alive
<1>8. CASE WorkletStopArrives
  <2>1. CASE Alive(t)
    <3>1. t.stop = "no"
      BY <1>8, <2>1, LastIsHeard
    <3> QED BY <1>8, <2>1, <3>1, StopAdds, AddsKeepReady
  <2>2. CASE ~Alive(t)
    <3>1. ~Alive(t')
      BY <1>8, <2>2 DEF WorkletStopArrives, Alive
    <3> QED BY <1>8, <3>1, StopAdds, AddsKeepReady
  <2> QED BY <2>1, <2>2
<1>9. CASE ServerStarts
  BY <1>9, StartingKeepsReady
<1>10. CASE ServerSpools
  BY <1>10, SpoolingKeepsReady
<1>11. CASE ServerStops
  BY <1>11, StoppingKeepsReady
<1>12. ASSUME link' = "closed", stream' = stream \/ stream' = Server!Fresh PROVE ServerIsReady'
  BY <1>12 DEF ServerIsReady, Server!Fresh, Server!NoEvidence
<1>13. CASE ServerRefuses \/ ServerSeesClose
  BY <1>12, <1>13 DEF ServerRefuses, ServerSeesClose, Disconnects
<1>14. ASSUME NEW p \in Turns, NewTransport(p) PROVE ServerIsReady'
  <2>1. (link = "none" /\ stream = Server!Fresh /\ t = FreshTransport /\ wire = <<>>)'
    BY <1>14 DEF NewTransport, Server!Fresh, Server!NoEvidence, FreshTransport, NoLoss
  <2>2. (link = "none" /\ stream = Server!Fresh /\ t = FreshTransport /\ wire = <<>>
          => ServerIsReady)'
    BY FreshIsReady, PTL
  <2> QED BY <2>1, <2>2
<1>15. CASE Elsewhere
  <2>1. CASE link' = link
    BY <1>15, <2>1, NothingElsewhere, AddsKeepReady DEF Adds, Alive
  <2>2. CASE link' = "closed"
    BY <1>12, <1>15, <2>2, NothingElsewhere
  <2> QED BY <1>15, <2>1, <2>2, NothingElsewhere
<1> QED
  BY <1>2, <1>3, <1>4, <1>5, <1>6, <1>7, <1>8, <1>9, <1>10, <1>11, <1>13, <1>14, <1>15
  DEF CaptureStep, Page, Remote, Elsewhere

LEMMA SentInitSound == CaptureInit => SentInv
<1> SUFFICES ASSUME CaptureInit PROVE SentInv
  OBVIOUS
<1>1. /\ turn = 0 /\ link = "none" /\ stream = Server!Fresh /\ t = FreshTransport /\ wire = <<>>
      /\ Alive(t) /\ t.stop = "no"
  BY DEF CaptureInit, FreshTransport, Alive
<1>2. ServerIsReady
  BY <1>1, FreshIsReady
<1>3. SentIsChained
  BY <1>1, NothingOwed DEF SentIsChained
<1> QED BY <1>1, <1>2, <1>3 DEF SentInv, PostsGrow, StopsAgree, DeadIsEmpty

LEMMA SentStep == StreamInv /\ SentInv /\ CaptureStep => SentInv'
BY ServerIsReadyStep, SentIsChainedStep, PostsGrowStep, StopsAgreeStep, DeadIsEmptyStep
DEF SentInv

LEMMA ChunkFits ==
  ASSUME NEW bytes \in Nat, NEW total \in Nat, NEW chunks \in Nat, NEW more \in Nat \ {0},
         NEW reached \in Nat, bytes = 2 * total, chunks <= total, reached = total + more,
         2 * reached <= MaxSafe
  PROVE  chunks + 1 <= MaxSafe /\ total + more <= MaxSafe /\ bytes + 2 * more <= MaxSafe
<1>1. MaxSafe \in Nat
  OBVIOUS
<1> QED BY <1>1

LEMMA WhatIsDueIsTaken ==
  ASSUME StreamInv, SentInv PROVE ServerTakesWhatIsSent
<1> USE DEF StreamInv, SentInv
<1> SUFFICES ASSUME link = "open", wire # <<>> PROVE Accepts(Head(wire))
  BY DEF ServerTakesWhatIsSent
<1> DEFINE m == Head(wire)
<1>1. m \in Messages /\ stream \in Streams /\ wire \in Seq(Messages)
  BY DEF StreamTypeOK
<1>2. CASE stream.phase = "idle"
  <2>1. m.type = "start"
    BY <1>2 DEF ServerIsReady, StartMessage
  <2> QED BY <1>2, <2>1 DEF Accepts
<1>3. stream.phase # "stopped"
  BY DEF ServerIsReady
<1>4. CASE stream.phase = "open"
  <2>1. PICK b \in Marks :
          /\ Leads(Reached(stream), m, b)
          /\ \/ m.type = "chunk" /\ m.sequence = stream.lastSequence + 1
             \/ m.type = "stop" /\ m.finalSequence = stream.lastSequence
    BY <1>4, ReadIsDue
  <2>2. /\ stream.startTime = 0 /\ stream.missingCount = 0
        /\ stream.byteCount = 2 * stream.frameCount /\ stream.chunkCount <= stream.frameCount
    BY DEF ServerIsReady
  <2>3. /\ stream.lastTime \in Nat /\ stream.lastSequence \in Nat /\ stream.byteCount \in Nat
        /\ stream.frameCount \in Nat /\ stream.chunkCount \in Nat
        /\ stream.identity = "turn" /\ b.frames \in Nat
    BY <1>1 DEF Streams, Marks
  <2>4. m.type # "start" => m.time \in Nat /\ m.frames \in Nat
    BY <1>1 DEF Messages, StartMessages, ChunkMessages, StopMessages
  <2>5. m.type = "chunk" => m.frames \in Nat \ {0} /\ m.sequence \in Nat
    BY <1>1 DEF Messages, StartMessages, ChunkMessages, StopMessages
  <2>6. m.type = "stop" => m.loss.droppedFrameCount \in Nat
    BY <1>1 DEF Messages, StartMessages, ChunkMessages, StopMessages, Evidences
  <2> HIDE DEF m
  <2>7. /\ m.identity = "turn" /\ stream.lastTime <= m.time
        /\ Server!Covers(m.loss, stream.loss)
        /\ Server!PcmByteCountIs(m.loss.droppedFrameCount, m.loss.droppedByteCount)
        /\ Server!PcmByteCountIs(m.frames, m.bytes)
        /\ 2 * b.frames <= MaxSafe
        /\ m.type = "chunk" => b.frames = stream.frameCount + m.frames
        /\ m.type = "stop" => /\ m.frames = stream.frameCount
                              /\ Abs(m.time - m.frames - m.loss.droppedFrameCount) <= MaxDrift
    BY <2>1 DEF Leads, Reached
  <2>8. m.type \in {"chunk", "stop"}
    BY <2>1
  <2>9. Server!Continues(stream, m)
    BY <1>4, <2>3, <2>4, <2>7, <2>8 DEF Server!Continues
  <2>10. m.bytes = 2 * m.frames
    BY <2>7 DEF Server!PcmByteCountIs
  <2>11. ASSUME m.type = "chunk" PROVE Accepts(m)
    <3>1. m.sequence = stream.lastSequence + 1
      BY <2>1, <2>11
    <3>2. Server!IsNew(m) /\ Server!MissingBefore(m) = 0
      BY SMTT(30), <2>3, <2>5, <3>1 DEF Server!IsNew, Server!MissingBefore
    <3>3. /\ stream.chunkCount + 1 <= MaxSafe /\ stream.frameCount + m.frames <= MaxSafe
          /\ stream.byteCount + 2 * m.frames <= MaxSafe
      BY <2>2, <2>3, <2>5, <2>7, <2>11, ChunkFits
    <3> QED BY <2>7, <2>9, <2>10, <2>11, <3>2, <3>3 DEF Accepts, Server!IsSafe
  <2>12. ASSUME m.type = "stop" PROVE Accepts(m)
    <3>1. m.finalSequence = stream.lastSequence
      BY <2>1, <2>12
    <3>2. Server!TotalsAgree(m)
      BY <2>2, <2>7, <2>10, <2>12 DEF Server!TotalsAgree
    <3>3. m.time - stream.startTime = m.time
      BY <2>2, <2>4, <2>12
    <3>4. Abs(m.time - stream.startTime - m.frames - m.loss.droppedFrameCount) <= MaxDrift
      BY <2>7, <2>12, <3>3
    <3> QED BY <2>7, <2>9, <2>12, <3>1, <3>2, <3>4 DEF Accepts
  <2> QED BY <2>8, <2>11, <2>12 DEF m
<1> QED BY <1>1, <1>2, <1>3, <1>4 DEF Streams

\* However frames, acknowledgements and the stop interleave, whatever the source loses and
\* whenever the page gives up: the reducer accepts each message that the transport sent.
THEOREM ServerRefusesNothing == Spec => []ServerTakesWhatIsSent
<1>1. Init => RecorderInv /\ SentInv
  BY RecorderInitSound, SentInitSound DEF Init
<1>2. RecorderInv /\ SentInv /\ [Next]_vars => (RecorderInv /\ SentInv)'
  <2> SUFFICES ASSUME RecorderInv, SentInv, [Next]_vars PROVE (RecorderInv /\ SentInv)'
    OBVIOUS
  <2>1. /\ PageInv /\ StreamInv /\ PageMeetsStream
        /\ session \in [Turns -> SessionStatuses]
    BY DEF RecorderInv, StreamInv, StreamTypeOK
  <2>2. CaptureStep
    BY <2>1, CaptureSteps
  <2>3. SentInv'
    BY <2>1, <2>2, SentStep
  <2> QED BY <2>3, RecorderNextSound
<1>3. RecorderInv /\ SentInv => ServerTakesWhatIsSent
  BY WhatIsDueIsTaken DEF RecorderInv
<1> QED BY <1>1, <1>2, <1>3, PTL DEF Spec

=============================================================================
