----------------------- MODULE OrderedPcmActor_proofs -----------------------
(***************************************************************************)
(* What holds of the stream's actors for any number of connections, any    *)
(* bound on their messages and any reading of the socket.                  *)
(***************************************************************************)
EXTENDS OrderedPcmActor, TLAPS

-----------------------------------------------------------------------------
(* The inductive invariant.                                                 *)

\* An actor past its start owns the claim, and each await of a task belongs to
\* one phase of the stream.
SoundActor(c, a) ==
  /\ a.started => owner = c
  /\ a.phase # "idle" => a.started
  /\ a.pc \in {"spooling", "startWrite"} => a.phase = "idle" /\ a.started
  /\ a.pc \in {"chunkWrite", "stopWal"} => a.phase = "open"
  /\ a.pc \in {"stopWrite", "finishing", "running", "finalizing"}
       => a.phase = "stopped"
  /\ a.pc \in {"finishing", "running", "finalizing"} => a.coverage = "complete"
  /\ a.pc = "finalizing" => resultOf = c

SoundActors == \A c \in Conns : SoundActor(c, actor[c])

\* A result of a stream is its owner's, and its stream is over.
SoundResult ==
  resultOf # NoOne =>
    /\ owner = resultOf
    /\ actor[resultOf].phase = "stopped"
    /\ actor[resultOf].coverage = "complete"

IInv == TypeOK /\ SoundActors /\ SoundResult /\ FinalizedMeansResult

-----------------------------------------------------------------------------
(* What a step of one actor must satisfy.                                   *)

SessionTyped ==
  status \in Statuses /\ owner \in Conns \union {Rival, NoOne}
  /\ armed \in Nat /\ deadlines \in Nat

WireTyped ==
  /\ queue \in [Conns -> Seq(Tasks)]
  /\ socket \in [Conns -> {"none", "open", "closing", "closed"}]
  /\ answers \in [Conns -> Seq({"spooled", "finalized", "error"})]
  /\ sent \in [Conns -> Nat]
  /\ shutting \in BOOLEAN
  /\ resultOf \in Conns \union {NoOne}

\* Once its run committed the result, a stream stays stopped and complete.
KeepsResult(c, a) == resultOf = c => a.phase = "stopped" /\ a.coverage = "complete"

\* The record connection c's actor moves to.
Moves(c, r) ==
  /\ actor' = [actor EXCEPT ![c] = r]
  /\ SoundActor(c, r)'
  /\ KeepsResult(c, r)'
  /\ ~actor[c].terminal /\ r.terminal /\ status' # status => r.started

Step(c) == \E r \in Actors : Moves(c, r)

\* What a failing actor keeps of its stream.
Claimed(c, a) ==
  /\ a.started => owner = c
  /\ a.phase # "idle" => a.started
  /\ KeepsResult(c, a)

LEMMA RestedIsAnActor ==
  ASSUME NEW a \in Actors
  PROVE  /\ Rested(a) \in Actors
         /\ CleanedUp(a) \in Actors
         /\ Stopping(a) \in Actors
         /\ Rested(CleanedUp(a)) \in Actors
<1>1. \A b \in Actors : Rested(b) \in Actors
  <2> TAKE b \in Actors
  <2>1. PICK gone \in BOOLEAN : gone = (b.gone \/ b.task = "close")
    BY Zenon
  <2>2. [b EXCEPT !.pc = "idle", !.task = "none", !.gone = gone] \in Actors
    BY DEF Actors, Waits
  <2>3. Rested(b) = [b EXCEPT !.pc = "idle", !.task = "none", !.gone = gone]
    BY <2>1, Zenon DEF Rested
  <2> QED BY <2>2, <2>3
<1>2. CleanedUp(a) \in Actors
  BY DEF CleanedUp, Actors
<1>3. Stopping(a) \in Actors
  BY DEF Stopping, Actors, Waits
<1> QED BY <1>1, <1>2, <1>3

LEMMA RestedKeeps ==
  ASSUME NEW a \in Actors, NEW r \in {Rested(a), Stopping(a), Rested(CleanedUp(a))}
  PROVE  /\ r.started = a.started /\ r.phase = a.phase
         /\ r.coverage = a.coverage /\ r.pc \in {"idle", "failing"}
<1>1. CASE r = Rested(a)
  BY <1>1 DEF Rested, Actors
<1>2. CASE r = Stopping(a)
  BY <1>2 DEF Stopping, Actors
<1>3. CASE r = Rested(CleanedUp(a))
  <2>1. /\ CleanedUp(a) \in Actors /\ CleanedUp(a).started = a.started
        /\ CleanedUp(a).phase = a.phase /\ CleanedUp(a).coverage = a.coverage
    BY DEF CleanedUp, Actors
  <2>2. \A b \in Actors : /\ Rested(b).started = b.started
                          /\ Rested(b).phase = b.phase
                          /\ Rested(b).coverage = b.coverage
                          /\ Rested(b).pc = "idle"
    BY DEF Rested, Actors
  <2> QED BY <1>3, <2>1, <2>2
<1> QED BY <1>1, <1>2, <1>3

\* A failing, resting actor is sound whatever it had been doing.
LEMMA RestingStep ==
  ASSUME NEW c \in Conns, NEW a \in Actors, Claimed(c, a)',
         NEW r \in {Rested(a), Stopping(a), Rested(CleanedUp(a))},
         actor' = [actor EXCEPT ![c] = r],
         status' # status => a.started \/ r.terminal = actor[c].terminal
  PROVE  Step(c)
<1>1. r \in Actors
  BY RestedIsAnActor
<1>2. /\ r.started = a.started /\ r.phase = a.phase
      /\ r.coverage = a.coverage /\ r.pc \in {"idle", "failing"}
  BY RestedKeeps
<1>3. SoundActor(c, r)' /\ KeepsResult(c, r)'
  BY <1>2 DEF SoundActor, Claimed, KeepsResult
<1> QED BY <1>1, <1>2, <1>3 DEF Step, Moves

LEMMA FailingStep ==
  ASSUME NEW c \in Conns, NEW a \in Actors, NEW seal \in BOOLEAN,
         Claimed(c, a)', status \in Statuses, armed \in Nat, deadlines \in Nat,
         Failing(c, a, seal)
  PROVE  /\ Step(c)
         /\ status' \in Statuses /\ armed' \in Nat /\ deadlines' \in Nat
<1>1. status' \in Statuses /\ armed' \in Nat /\ deadlines' \in Nat
  BY DEF Failing, Statuses
<1>2. status' # status => a.started
  BY DEF Failing
<1>3. \E r \in {Rested(a), Stopping(a)} : actor' = [actor EXCEPT ![c] = r]
  BY DEF Failing, Becomes
<1> QED BY <1>1, <1>2, <1>3, RestingStep

LEMMA UnexpectedStep ==
  ASSUME NEW c \in Conns, NEW a \in Actors,
         Claimed(c, a)', status \in Statuses, armed \in Nat, deadlines \in Nat,
         Unexpected(c, a)
  PROVE  /\ Step(c)
         /\ status' \in Statuses /\ armed' \in Nat /\ deadlines' \in Nat
<1>1. CASE a.terminal
  <2>1. /\ actor' = [actor EXCEPT ![c] = Rested(CleanedUp(a))]
        /\ UNCHANGED <<status, armed, deadlines>>
    BY <1>1 DEF Unexpected, Becomes
  <2> QED BY <2>1, RestingStep
<1>2. CASE ~a.terminal
  <2>1. (a.phase = "open" \/ a.started) \in BOOLEAN
    BY DEF Actors
  <2>2. Failing(c, a, a.phase = "open" \/ a.started)
    BY <1>2 DEF Unexpected
  <2> QED BY <2>1, <2>2, FailingStep
<1> QED BY <1>1, <1>2

-----------------------------------------------------------------------------
(* The steps of audio.start.                                                *)

LEMMA ActorOf ==
  ASSUME IInv, NEW c \in Conns
  PROVE  /\ actor[c] \in Actors /\ SoundActor(c, actor[c])
         /\ Claimed(c, actor[c]) /\ KeepsResult(c, actor[c])
         /\ SessionTyped /\ WireTyped
<1> USE ConnsAreNotOthers DEF ConnsAreNotOthers
<1>1. actor[c] \in Actors /\ SoundActor(c, actor[c]) /\ SessionTyped /\ WireTyped
  BY DEF IInv, TypeOK, SoundActors, SessionTyped, WireTyped
<1>2. KeepsResult(c, actor[c])
  BY DEF IInv, SoundResult, KeepsResult
<1> QED BY <1>1, <1>2 DEF Claimed, SoundActor

LEMMA TakenKeeps ==
  ASSUME IInv, NEW c \in Conns, NEW kind \in Tasks
  PROVE  /\ Taken(c, kind) \in Actors /\ Claimed(c, Taken(c, kind))
         /\ Taken(c, kind).started = actor[c].started
         /\ Taken(c, kind).phase = actor[c].phase
         /\ Taken(c, kind).coverage = actor[c].coverage
<1>1. /\ Taken(c, kind) \in Actors
      /\ Taken(c, kind).started = actor[c].started
      /\ Taken(c, kind).phase = actor[c].phase
      /\ Taken(c, kind).coverage = actor[c].coverage
  BY ActorOf DEF Taken, Actors
<1> QED BY <1>1, ActorOf DEF Claimed, KeepsResult

\* A failing step of a handler that leaves the claim and the result alone.
LEMMA KeptFailingStep ==
  ASSUME IInv, NEW c \in Conns, NEW a \in Actors, NEW seal \in BOOLEAN,
         Claimed(c, a), UNCHANGED <<owner, resultOf>>,
         Failing(c, a, seal) \/ Unexpected(c, a)
  PROVE  Step(c) /\ SessionTyped'
<1>1. Claimed(c, a)'
  BY DEF Claimed, KeepsResult
<1>2. status \in Statuses /\ armed \in Nat /\ deadlines \in Nat
      /\ owner' \in Conns \union {Rival, NoOne}
  BY ActorOf DEF SessionTyped
<1> QED BY <1>1, <1>2, FailingStep, UnexpectedStep DEF SessionTyped

\* A step to a wait that leaves the claim and the result alone.
LEMMA KeptMove ==
  ASSUME IInv, NEW c \in Conns, NEW r \in Actors,
         actor' = [actor EXCEPT ![c] = r],
         UNCHANGED <<owner, resultOf>>,
         SoundActor(c, r), KeepsResult(c, r),
         status' # status => r.terminal = actor[c].terminal
  PROVE  Step(c)
<1>1. SoundActor(c, r)' /\ KeepsResult(c, r)'
  BY DEF SoundActor, KeepsResult
<1> QED BY <1>1 DEF Step, Moves

LEMMA StartStep ==
  ASSUME IInv, NEW c \in Conns, Start(c)
  PROVE  Step(c) /\ SessionTyped'
<1> USE ConnsAreNotOthers DEF ConnsAreNotOthers
<1> DEFINE a == actor[c]
           t == Taken(c, "start")
<1>1. /\ a \in Actors /\ SoundActor(c, a) /\ Claimed(c, a) /\ KeepsResult(c, a)
      /\ SessionTyped
  BY ActorOf
<1>2. "start" \in Tasks
  BY DEF Tasks, Messages
<1>3. t \in Actors /\ Claimed(c, t) /\ t.phase = a.phase
  BY <1>2, TakenKeeps
<1>4. CASE StartRefused(c)
  <2>1. (t.phase # "idle") \in BOOLEAN
    OBVIOUS
  <2>2. Failing(c, t, t.phase # "idle") /\ UNCHANGED <<owner, resultOf>>
    BY <1>4 DEF StartRefused, Quietly
  <2> QED BY <2>1, <2>2, <1>3, KeptFailingStep
<1>5. CASE StartClaims(c)
  <2>a. PICK s \in Actors : s = [t EXCEPT !.started = TRUE]
    BY <1>3 DEF Actors
  <2>b. PICK r \in Actors : r = Waiting([s EXCEPT !.lease = TRUE], "spooling")
    BY DEF Actors, Waiting, Waits
  <2>1. /\ s.started /\ s.phase = "idle"
        /\ r.started /\ r.phase = "idle" /\ r.pc = "spooling"
    BY <1>3, <1>5, <2>a, <2>b DEF StartClaims, Waiting, Actors, Waits
  <2>2. owner' = c /\ resultOf' = resultOf /\ a.phase = "idle" /\ resultOf # c
    BY <1>1, <1>3, <1>5, <2>1 DEF StartClaims, Quietly, KeepsResult, Actors
  <2>3. Claimed(c, s)' /\ SoundActor(c, r)' /\ KeepsResult(c, r)'
    BY <2>1, <2>2 DEF Claimed, KeepsResult, SoundActor
  <2>4. CASE Failing(c, s, TRUE)
    <3>1. Step(c) /\ status' \in Statuses /\ armed' \in Nat /\ deadlines' \in Nat
      BY <1>1, <2>1, <2>3, <2>4, FailingStep DEF SessionTyped
    <3> QED BY <3>1, <2>2 DEF SessionTyped
  <2>5. CASE Becomes(c, r) /\ UNCHANGED <<status, armed, deadlines>>
    <3>1. Step(c)
      BY <2>1, <2>3, <2>5 DEF Step, Moves, Becomes
    <3> QED BY <3>1, <1>1, <2>2, <2>5 DEF SessionTyped
  <2> QED BY <1>5, <2>a, <2>b, <2>4, <2>5 DEF StartClaims
<1>6. CASE SpoolOpened(c)
  <2> DEFINE s == [a EXCEPT !.spool = TRUE]
             r == Waiting(s, "startWrite")
  <2>1. /\ s \in Actors /\ s.started = a.started /\ s.phase = a.phase
        /\ s.coverage = a.coverage
        /\ r \in Actors /\ r.started = a.started /\ r.phase = a.phase
        /\ r.coverage = a.coverage /\ r.pc = "startWrite"
        /\ r.terminal = a.terminal
    BY <1>1 DEF Waiting, Actors, Waits
  <2>2. UNCHANGED <<owner, resultOf>> /\ a.pc = "spooling"
    BY <1>6 DEF SpoolOpened, InTask, Quietly
  <2>3. Claimed(c, s) /\ SoundActor(c, r) /\ KeepsResult(c, r)
    BY <1>1, <2>1, <2>2 DEF Claimed, KeepsResult, SoundActor
  <2>4. CASE Failing(c, s, TRUE)
    BY <2>1, <2>2, <2>3, <2>4, KeptFailingStep
  <2>5. CASE /\ status' = StatusAfter("recording_started", status)
             /\ Becomes(c, r) /\ UNCHANGED <<armed, deadlines>>
    <3>1. status' \in Statuses
      BY <2>5 DEF StatusAfter, Statuses
    <3>2. Step(c)
      BY <2>1, <2>2, <2>3, <2>5, KeptMove DEF Becomes
    <3> QED BY <3>1, <3>2, <1>1, <2>2, <2>5 DEF SessionTyped
  <2> QED BY <1>6, <2>4, <2>5 DEF SpoolOpened
<1>7. CASE StartWritten(c)
  <2> DEFINE r == [a EXCEPT !.phase = "open", !.timer = "capture", !.pc = "acking"]
  <2>1. /\ r \in Actors /\ r.started = a.started /\ r.phase = "open"
        /\ r.pc = "acking" /\ r.terminal = a.terminal
    BY <1>1 DEF Actors, Waits
  <2>2. /\ UNCHANGED <<owner, resultOf>> /\ a.pc = "startWrite"
        /\ a.started /\ a.phase = "idle" /\ owner = c /\ resultOf # c
    BY <1>1, <1>7 DEF StartWritten, InTask, Quietly, SoundActor, KeepsResult
  <2>3. SoundActor(c, r) /\ KeepsResult(c, r)
    BY <2>1, <2>2 DEF KeepsResult, SoundActor
  <2>4. CASE \E phase \in {"idle", "open"} : Failing(c, [a EXCEPT !.phase = phase], TRUE)
    <3>1. PICK phase \in {"idle", "open"} : Failing(c, [a EXCEPT !.phase = phase], TRUE)
      BY <2>4
    <3> DEFINE s == [a EXCEPT !.phase = phase]
    <3>2. s \in Actors /\ s.started
      BY <1>1, <2>2 DEF Actors
    <3>3. Claimed(c, s)
      BY <3>2, <2>2 DEF Claimed, KeepsResult
    <3> QED BY <3>1, <3>2, <3>3, <2>2, KeptFailingStep
  <2>5. CASE Becomes(c, r) /\ UNCHANGED <<status, armed, deadlines>>
    <3>1. Step(c)
      BY <2>1, <2>2, <2>3, <2>5, KeptMove DEF Becomes
    <3> QED BY <3>1, <1>1, <2>2, <2>5 DEF SessionTyped
  <2> QED BY <1>7, <2>4, <2>5 DEF StartWritten
<1> QED BY <1>4, <1>5, <1>6, <1>7 DEF Start

-----------------------------------------------------------------------------
(* The steps of audio.chunk and audio.stop.                                 *)

LEMMA RefusedStep ==
  ASSUME IInv, NEW c \in Conns, NEW kind \in Tasks,
         \/ MessageRefused(c, kind) \/ MessageTooLate(c, kind)
  PROVE  Step(c) /\ SessionTyped'
<1> DEFINE t == Taken(c, kind)
<1>1. t \in Actors /\ Claimed(c, t)
  BY TakenKeeps
<1>2. UNCHANGED <<owner, resultOf>>
  BY DEF MessageRefused, MessageTooLate, Quietly
<1>3. Failing(c, t, t.phase = "open") \/ Failing(c, t, FALSE)
  BY DEF MessageRefused, MessageTooLate
<1>4. (t.phase = "open") \in BOOLEAN
  OBVIOUS
<1> QED BY <1>1, <1>2, <1>3, <1>4, KeptFailingStep

LEMMA RecordStep ==
  ASSUME IInv, NEW c \in Conns, Record(c)
  PROVE  Step(c) /\ SessionTyped'
<1> USE ConnsAreNotOthers DEF ConnsAreNotOthers
<1> DEFINE a == actor[c]
<1>1. /\ a \in Actors /\ SoundActor(c, a) /\ Claimed(c, a) /\ KeepsResult(c, a)
      /\ SessionTyped
  BY ActorOf
<1>2. \A kind \in {"chunk", "stop"} : kind \in Tasks
  BY DEF Tasks, Messages
<1>3. ASSUME NEW kind \in {"chunk", "stop"},
             MessageRefused(c, kind) \/ MessageTooLate(c, kind)
      PROVE  Step(c) /\ SessionTyped'
  BY <1>2, <1>3, RefusedStep
<1>4. ASSUME NEW kind \in {"chunk", "stop"}, MessageWrites(c, kind)
      PROVE  Step(c) /\ SessionTyped'
  <2> DEFINE t == Taken(c, kind)
             pc == IF kind = "chunk" THEN "chunkWrite" ELSE "stopWal"
             r == Waiting(t, pc)
  <2>1. /\ t \in Actors /\ Claimed(c, t) /\ t.phase = "open" /\ t.started
        /\ t.phase = a.phase
    BY <1>2, <1>4, TakenKeeps DEF MessageWrites, StillRecording
  <2>2. UNCHANGED <<owner, resultOf>> /\ resultOf # c /\ owner = c
    BY <1>1, <1>4, <2>1 DEF MessageWrites, Quietly, KeepsResult, Claimed
  <2>3. /\ r \in Actors /\ r.started /\ r.phase = "open" /\ r.terminal = a.terminal
        /\ r.pc \in {"chunkWrite", "stopWal"}
    <3>1. t.terminal = a.terminal
      BY <1>1 DEF Taken, Actors
    <3>2. pc \in {"chunkWrite", "stopWal"}
      OBVIOUS
    <3> HIDE DEF t, pc
    <3> QED BY <3>1, <3>2, <2>1 DEF Waiting, Actors, Waits
  <2>4. SoundActor(c, r) /\ KeepsResult(c, r)
    BY <2>2, <2>3 DEF SoundActor, KeepsResult
  <2>5. CASE Unexpected(c, t)
    BY <2>1, <2>2, <2>5, KeptFailingStep
  <2>6. CASE Becomes(c, r) /\ UNCHANGED <<status, armed, deadlines>>
    <3>1. Step(c)
      BY <2>2, <2>3, <2>4, <2>6, KeptMove DEF Becomes
    <3> QED BY <3>1, <1>1, <2>2, <2>6 DEF SessionTyped
  <2> QED BY <1>4, <2>5, <2>6 DEF MessageWrites
<1>5. CASE ChunkWritten(c)
  <2>1. UNCHANGED <<owner, resultOf>> /\ a.pc = "chunkWrite"
    BY <1>5 DEF ChunkWritten, InTask, Quietly
  <2>2. a.phase = "open" /\ a.started /\ resultOf # c /\ owner = c
    BY <1>1, <2>1 DEF SoundActor, KeepsResult
  <2>3. CASE Failing(c, a, TRUE)
    BY <1>1, <2>1, <2>3, KeptFailingStep
  <2>4. ASSUME NEW coverage \in {"complete", "gap"},
               Becomes(c, [a EXCEPT !.coverage = coverage, !.pc = "acking"]),
               UNCHANGED <<status, armed, deadlines>>
        PROVE  Step(c) /\ SessionTyped'
    <3> DEFINE r == [a EXCEPT !.coverage = coverage, !.pc = "acking"]
    <3>1. r \in Actors /\ r.started /\ r.phase = "open" /\ r.pc = "acking"
      BY <1>1, <2>2 DEF Actors, Waits
    <3>2. SoundActor(c, r) /\ KeepsResult(c, r)
      BY <2>2, <3>1 DEF SoundActor, KeepsResult
    <3>3. Step(c)
      BY <2>1, <2>4, <3>1, <3>2, KeptMove DEF Becomes
    <3> QED BY <3>3, <1>1, <2>1, <2>4 DEF SessionTyped
  <2> QED BY <1>5, <2>3, <2>4 DEF ChunkWritten
<1>6. CASE Acknowledged(c)
  <2>1. UNCHANGED <<owner, resultOf>>
    BY <1>6 DEF Acknowledged
  <2>2. CASE Unexpected(c, a)
    BY <1>1, <2>1, <2>2, KeptFailingStep
  <2>3. CASE Becomes(c, Rested(a)) /\ UNCHANGED <<status, armed, deadlines>>
    <3>1. Claimed(c, a) /\ UNCHANGED status
      BY <1>1, <2>3
    <3>2. PICK b \in Actors : b = a
      BY <1>1
    <3>3. Claimed(c, b)'
      BY <3>1, <3>2, <2>1 DEF Claimed, KeepsResult
    <3>4. Step(c)
      BY <3>1, <3>2, <3>3, <2>3, RestingStep DEF Becomes
    <3> QED BY <3>4, <1>1, <2>1, <2>3 DEF SessionTyped
  <2> QED BY <1>6, <2>2, <2>3 DEF Acknowledged
<1> QED BY <1>3, <1>4, <1>5, <1>6 DEF Record

LEMMA EnsureDeadlineTyped ==
  ASSUME armed \in Nat, deadlines \in Nat, EnsureDeadline
  PROVE  armed' \in Nat /\ deadlines' \in Nat
BY DEF EnsureDeadline

LEMMA StopStep ==
  ASSUME IInv, NEW c \in Conns, StopLogged(c) \/ StopWritten(c) \/ Finishing(c)
  PROVE  Step(c) /\ SessionTyped'
<1> USE ConnsAreNotOthers DEF ConnsAreNotOthers
<1> DEFINE a == actor[c]
<1>1. /\ a \in Actors /\ SoundActor(c, a) /\ Claimed(c, a) /\ KeepsResult(c, a)
      /\ SessionTyped
  BY ActorOf
<1>2. UNCHANGED <<owner, resultOf>>
  BY DEF StopLogged, StopWritten, Finishing, InTask, Quietly
<1>3. CASE Failing(c, a, TRUE)
  BY <1>1, <1>2, <1>3, KeptFailingStep
<1>4. CASE StopLogged(c) /\ ~Failing(c, a, TRUE)
  <2> DEFINE s == [a EXCEPT !.phase = "stopped", !.timer = "none"]
             r == Waiting(s, "stopWrite")
  <2>1. a.phase = "open" /\ a.started /\ resultOf # c /\ owner = c
    BY <1>1, <1>4 DEF StopLogged, SoundActor, KeepsResult
  <2>2. /\ s \in Actors /\ s.started /\ s.phase = "stopped"
        /\ r \in Actors /\ r.started /\ r.phase = "stopped" /\ r.pc = "stopWrite"
        /\ r.terminal = a.terminal
    BY <1>1, <2>1 DEF Actors, Waits, Waiting
  <2>3. Claimed(c, s) /\ SoundActor(c, r) /\ KeepsResult(c, r)
    BY <2>1, <2>2 DEF Claimed, SoundActor, KeepsResult
  <2>4. CASE Unexpected(c, s)
    BY <1>2, <2>2, <2>3, <2>4, KeptFailingStep
  <2>5. CASE /\ status' = StatusAfter("recording_stopped", status)
             /\ EnsureDeadline /\ Becomes(c, r)
    <3>1. status' \in Statuses
      BY <2>5 DEF StatusAfter, Statuses
    <3>2. Step(c)
      BY <1>2, <2>2, <2>3, <2>5, KeptMove DEF Becomes
    <3>3. armed' \in Nat /\ deadlines' \in Nat
      BY <1>1, <2>5, EnsureDeadlineTyped DEF SessionTyped
    <3> QED BY <3>1, <3>2, <3>3, <1>1, <1>2 DEF SessionTyped
  <2> QED BY <1>4, <2>4, <2>5 DEF StopLogged
<1>5. CASE StopWritten(c) /\ ~Failing(c, a, TRUE)
  <2>1. /\ Analysable(a) /\ EnsureDeadline /\ UNCHANGED status
        /\ Becomes(c, [a EXCEPT !.held = armed', !.pc = "finishing"])
        /\ a.pc = "stopWrite"
    BY <1>5 DEF StopWritten
  <2>2. armed' \in Nat /\ deadlines' \in Nat
    BY <1>1, <2>1, EnsureDeadlineTyped DEF SessionTyped
  <2>3. PICK n \in Nat : n = armed'
    BY <2>2
  <2> DEFINE r == [a EXCEPT !.held = n, !.pc = "finishing"]
  <2>4. /\ r \in Actors /\ r.started = a.started /\ r.phase = a.phase
        /\ r.coverage = a.coverage /\ r.pc = "finishing" /\ r.terminal = a.terminal
    BY <1>1 DEF Actors, Waits
  <2>5. a.phase = "stopped" /\ a.coverage = "complete"
    BY <1>1, <2>1 DEF SoundActor, Analysable
  <2>6. SoundActor(c, r) /\ KeepsResult(c, r)
    BY <1>1, <2>4, <2>5 DEF SoundActor, KeepsResult
  <2>7. Step(c)
    BY <1>2, <2>1, <2>3, <2>4, <2>6, KeptMove DEF Becomes
  <2> QED BY <2>7, <2>1, <2>2, <1>1, <1>2 DEF SessionTyped
<1>6. CASE Finishing(c) /\ ~Failing(c, a, TRUE)
  <2> DEFINE r == Waiting(a, "running")
  <2>1. Becomes(c, r) /\ UNCHANGED <<status, armed, deadlines>> /\ a.pc = "finishing"
    BY <1>6 DEF Finishing
  <2>2. /\ r \in Actors /\ r.started = a.started /\ r.phase = a.phase
        /\ r.coverage = a.coverage /\ r.pc = "running"
    BY <1>1 DEF Actors, Waits, Waiting
  <2>3. SoundActor(c, r) /\ KeepsResult(c, r)
    BY <1>1, <2>1, <2>2 DEF SoundActor, KeepsResult
  <2>4. Step(c)
    BY <1>2, <2>1, <2>2, <2>3, KeptMove DEF Becomes
  <2> QED BY <2>4, <2>1, <1>1, <1>2 DEF SessionTyped
<1> QED BY <1>3, <1>4, <1>5, <1>6

-----------------------------------------------------------------------------
(* The tasks no message asks for, the run and the end of the stream.        *)

\* A resting step that leaves the claim, the result and the status alone.
LEMMA KeptRest ==
  ASSUME NEW c \in Conns, NEW a \in Actors, Claimed(c, a),
         NEW r \in {Rested(a), Stopping(a), Rested(CleanedUp(a))},
         actor' = [actor EXCEPT ![c] = r],
         UNCHANGED <<owner, resultOf, status>>
  PROVE  Step(c)
<1>1. Claimed(c, a)'
  BY DEF Claimed, KeepsResult
<1> QED BY <1>1, RestingStep

LEMMA InterruptStep ==
  ASSUME IInv, NEW c \in Conns, Interrupt(c)
  PROVE  Step(c) /\ SessionTyped'
<1> USE ConnsAreNotOthers DEF ConnsAreNotOthers
<1> DEFINE a == actor[c]
<1>1. /\ a \in Actors /\ SoundActor(c, a) /\ Claimed(c, a) /\ SessionTyped
  BY ActorOf
<1>2. {"junk", "startTimeout", "captureTimeout", "shutdown", "close"} \subseteq Tasks
  BY DEF Tasks, Messages, Timeouts
<1>3. CASE JunkRefused(c)
  BY <1>2, <1>3, RefusedStep DEF JunkRefused
<1>4. CASE StartTimedOut(c) \/ CaptureTimedOut(c) \/ ShutDown(c)
  <2>1. PICK kind \in {"startTimeout", "captureTimeout", "shutdown"} :
          \E seal \in BOOLEAN : Failing(c, Taken(c, kind), seal)
    <3>1. (Taken(c, "shutdown").phase = "open") \in BOOLEAN
      OBVIOUS
    <3> QED BY <1>4, <3>1, Zenon DEF StartTimedOut, CaptureTimedOut, ShutDown
  <2>2. Taken(c, kind) \in Actors /\ Claimed(c, Taken(c, kind))
    BY <1>2, TakenKeeps
  <2>3. UNCHANGED <<owner, resultOf>>
    BY <1>4 DEF StartTimedOut, CaptureTimedOut, ShutDown, Quietly
  <2> QED BY <2>1, <2>2, <2>3, KeptFailingStep
<1>5. CASE Closed(c)
  <2> DEFINE t == Taken(c, "close")
  <2>1. t \in Actors /\ Claimed(c, t)
    BY <1>2, TakenKeeps
  <2>2. UNCHANGED <<owner, resultOf>> /\ (t.phase = "open") \in BOOLEAN
    BY <1>5 DEF Closed, Quietly
  <2>3. CASE Failing(c, t, t.phase = "open")
    BY <2>1, <2>2, <2>3, KeptFailingStep
  <2>4. CASE Becomes(c, Rested(CleanedUp(t))) /\ UNCHANGED <<status, armed, deadlines>>
    <3>1. Step(c)
      BY <2>1, <2>2, <2>4, KeptRest DEF Becomes
    <3> QED BY <3>1, <1>1, <2>2, <2>4 DEF SessionTyped
  <2> QED BY <1>5, <2>3, <2>4 DEF Closed
<1>6. CASE FailureAnswered(c)
  <2>1. /\ UNCHANGED <<sessionVars, resultOf>>
        /\ Becomes(c, Rested(CleanedUp(a)))
    BY <1>6 DEF FailureAnswered
  <2>2. Step(c)
    BY <1>1, <2>1, KeptRest DEF Becomes, sessionVars
  <2> QED BY <2>1, <2>2, <1>1 DEF SessionTyped, sessionVars
<1> QED BY <1>3, <1>4, <1>5, <1>6 DEF Interrupt

LEMMA RunStep ==
  ASSUME IInv, NEW c \in Conns,
         RunSuperseded(c) \/ RunFails(c) \/ RunCompletes(c) \/ Finalized(c)
  PROVE  /\ Step(c) /\ SessionTyped' /\ UNCHANGED owner
         /\ UNCHANGED resultOf \/ (resultOf' = c /\ owner = c)
<1> USE ConnsAreNotOthers DEF ConnsAreNotOthers
<1> DEFINE a == actor[c]
<1>1. /\ a \in Actors /\ SoundActor(c, a) /\ Claimed(c, a) /\ KeepsResult(c, a)
      /\ SessionTyped
  BY ActorOf
<1>2. CASE RunSuperseded(c)
  <2>1. UNCHANGED <<owner, resultOf>> /\ Failing(c, a, FALSE)
    BY <1>2 DEF RunSuperseded, InTask, Quietly
  <2> QED BY <1>1, <2>1, KeptFailingStep
<1>3. CASE RunFails(c)
  <2>1. /\ UNCHANGED <<owner, resultOf, deadlines>> /\ a.pc = "running"
        /\ status' = "error" /\ armed' = 0
        /\ Becomes(c, Stopping(a))
    BY <1>3 DEF RunFails, InTask, Quietly, SealWithError
  <2>2. a.started
    BY <1>1, <2>1 DEF SoundActor
  <2>3. PICK b \in Actors : b = a
    BY <1>1
  <2>4. Claimed(c, b)'
    BY <1>1, <2>1, <2>3 DEF Claimed, KeepsResult
  <2>5. Step(c)
    BY <2>1, <2>2, <2>3, <2>4, RestingStep DEF Becomes
  <2> QED BY <1>1, <2>1, <2>5 DEF SessionTyped, Statuses
<1>4. CASE RunCompletes(c)
  <2>1. /\ UNCHANGED <<owner, deadlines>> /\ a.pc = "running" /\ resultOf' = c
        /\ status' = "result" /\ armed' = 0
        /\ Becomes(c, Waiting(a, "finalizing"))
    BY <1>4 DEF RunCompletes
  <2>2. a.phase = "stopped" /\ a.coverage = "complete" /\ a.started /\ owner = c
    BY <1>1, <2>1 DEF SoundActor
  <2>3. PICK r \in Actors : r = Waiting(a, "finalizing")
    BY <1>1 DEF Waiting, Actors, Waits
  <2>4. /\ r.phase = "stopped" /\ r.coverage = "complete" /\ r.started
        /\ r.pc = "finalizing" /\ r.terminal = a.terminal
    BY <1>1, <2>2, <2>3 DEF Waiting, Actors
  <2>5. SoundActor(c, r)' /\ KeepsResult(c, r)'
    BY <2>1, <2>2, <2>4 DEF SoundActor, KeepsResult
  <2>6. Step(c)
    BY <2>1, <2>3, <2>4, <2>5 DEF Step, Moves, Becomes
  <2> QED BY <1>1, <2>1, <2>2, <2>6 DEF SessionTyped, Statuses
<1>5. CASE Finalized(c)
  <2> DEFINE s == CleanedUp(a)
             e == [s EXCEPT !.terminal = TRUE]
  <2>1. UNCHANGED <<owner, resultOf>>
    BY <1>5 DEF Finalized
  <2>2. /\ s \in Actors /\ s.started = a.started /\ s.phase = a.phase
        /\ s.coverage = a.coverage
    BY ZenonT(40), <1>1 DEF CleanedUp, Actors
  <2>3. /\ e \in Actors /\ e.started = s.started /\ e.phase = s.phase
        /\ e.coverage = s.coverage
    BY <2>2 DEF Actors
  <2>4. Claimed(c, s) /\ Claimed(c, e)
    BY <1>1, <2>2, <2>3 DEF Claimed, KeepsResult
  <2>5. CASE Failing(c, s, TRUE)
    BY <2>1, <2>2, <2>4, <2>5, KeptFailingStep
  <2>6. CASE Becomes(c, Rested(e)) /\ UNCHANGED <<status, armed, deadlines>>
    <3>1. Step(c)
      BY <2>1, <2>3, <2>4, <2>6, KeptRest DEF Becomes
    <3> QED BY <3>1, <1>1, <2>1, <2>6 DEF SessionTyped
  <2> QED BY <1>5, <2>1, <2>5, <2>6 DEF Finalized
<1> QED BY <1>2, <1>3, <1>4, <1>5

-----------------------------------------------------------------------------
(* The sockets and the timers.                                              *)

LEMMA WireStep ==
  ASSUME IInv, NEW c \in Conns, Wire(c)
  PROVE  /\ Step(c) \/ UNCHANGED actor
         /\ UNCHANGED <<sessionVars, resultOf>>
<1> DEFINE a == actor[c]
<1>1. a \in Actors /\ SoundActor(c, a) /\ KeepsResult(c, a)
  BY ActorOf
<1>2. CASE Connect(c) \/ TimerFires(c)
  <2>1. PICK timer \in {"none", "start"} :
          /\ Becomes(c, [a EXCEPT !.timer = timer])
          /\ UNCHANGED <<sessionVars, resultOf>>
    BY <1>2 DEF Connect, TimerFires
  <2> DEFINE r == [a EXCEPT !.timer = timer]
  <2>2. /\ r \in Actors /\ r.started = a.started /\ r.phase = a.phase
        /\ r.coverage = a.coverage /\ r.pc = a.pc /\ r.terminal = a.terminal
    BY <1>1 DEF Actors
  <2>3. SoundActor(c, r) /\ KeepsResult(c, r)
    BY <1>1, <2>2 DEF SoundActor, KeepsResult
  <2> QED BY <2>1, <2>2, <2>3, KeptMove DEF Becomes, sessionVars
<1>3. CASE (\E kind \in Messages : Receive(c, kind)) \/ SocketCloses(c) \/ Terminate(c)
  BY <1>3 DEF Receive, SocketCloses, Terminate
<1> QED BY <1>2, <1>3 DEF Wire

-----------------------------------------------------------------------------
(* Every step, and what it leaves of the others.                            *)

\* The claim is taken once, and only the claim's holder commits a result.
ClaimKept(c) ==
  /\ UNCHANGED owner \/ (owner = NoOne /\ UNCHANGED resultOf)
  /\ UNCHANGED resultOf \/ (resultOf' = c /\ owner = c)

LEMMA OthersStaySound ==
  ASSUME IInv, NEW c \in Conns, Step(c), ClaimKept(c)
  PROVE  SoundActors' /\ SoundResult'
<1> USE ConnsAreNotOthers DEF ConnsAreNotOthers
<1>1. PICK r \in Actors : Moves(c, r)
  BY DEF Step
<1>2. actor \in [Conns -> Actors] /\ resultOf \in Conns \union {NoOne}
  BY DEF IInv, TypeOK
<1>3. actor'[c] = r /\ \A d \in Conns \ {c} : actor'[d] = actor[d]
  BY <1>1, <1>2 DEF Moves
<1>4. SoundActors'
  <2> SUFFICES ASSUME NEW d \in Conns
               PROVE  SoundActor(d, actor[d])'
    BY DEF SoundActors
  <2>1. CASE d = c
    BY <1>1, <1>3, <2>1 DEF Moves, SoundActor
  <2>2. CASE d # c
    <3>1. SoundActor(d, actor[d])
      BY DEF IInv, SoundActors
    <3>2. actor[d].started => owner = d /\ owner' = d
      BY <3>1 DEF SoundActor, ClaimKept
    <3>3. actor[d].pc = "finalizing" => actor[d].started /\ resultOf = d
      BY <3>1 DEF SoundActor
    <3>4. actor[d].pc = "finalizing" => resultOf' = d
      BY <3>2, <3>3, <2>2 DEF ClaimKept
    <3> QED BY <3>1, <3>2, <3>4, <1>3, <2>2 DEF SoundActor
  <2> QED BY <2>1, <2>2
<1>5. SoundResult'
  <2>1. SoundResult
    BY DEF IInv
  <2>2. CASE resultOf' = c
    <3>1. r.phase = "stopped" /\ r.coverage = "complete"
      BY <1>1, <2>2 DEF Moves, KeepsResult
    <3>2. owner' = c
      BY <2>1, <2>2 DEF ClaimKept, SoundResult
    <3> QED BY <1>3, <2>2, <3>1, <3>2 DEF SoundResult
  <2>3. CASE resultOf' # c /\ resultOf' # NoOne
    <3>1. resultOf' = resultOf /\ resultOf \in Conns \ {c} /\ owner' = owner
      BY <1>2, <2>1, <2>3 DEF ClaimKept, SoundResult
    <3> QED BY <1>3, <2>1, <3>1 DEF SoundResult
  <2> QED BY <2>2, <2>3 DEF SoundResult
<1> QED BY <1>4, <1>5

\* Whatever connection c does, it is a step of its actor or leaves it alone.
LEMMA ConnectionStep ==
  ASSUME IInv, NEW c \in Conns, Handle(c) \/ Provider(c) \/ Wire(c)
  PROVE  /\ Step(c) \/ UNCHANGED <<actor, owner, resultOf, status>>
         /\ SessionTyped' /\ ClaimKept(c)
<1>1. CASE StartClaims(c)
  <2>1. Step(c) /\ SessionTyped'
    BY <1>1, StartStep DEF Start
  <2>2. owner = NoOne /\ UNCHANGED resultOf
    BY <1>1 DEF StartClaims, IsClaimable, Quietly
  <2> QED BY <2>1, <2>2 DEF ClaimKept
<1>2. CASE StartRefused(c) \/ SpoolOpened(c) \/ StartWritten(c)
  <2>1. Step(c) /\ SessionTyped'
    BY <1>2, StartStep DEF Start
  <2>2. UNCHANGED <<owner, resultOf>>
    BY <1>2 DEF StartRefused, SpoolOpened, StartWritten, InTask, Quietly
  <2> QED BY <2>1, <2>2 DEF ClaimKept
<1>3. CASE Record(c)
  <2>1. Step(c) /\ SessionTyped'
    BY <1>3, RecordStep
  <2>2. UNCHANGED <<owner, resultOf>>
    BY <1>3 DEF Record, MessageRefused, MessageTooLate, MessageWrites,
                ChunkWritten, Acknowledged, InTask, Quietly
  <2> QED BY <2>1, <2>2 DEF ClaimKept
<1>4. CASE StopLogged(c) \/ StopWritten(c) \/ Finishing(c)
  <2>1. Step(c) /\ SessionTyped'
    BY <1>4, StopStep
  <2>2. UNCHANGED <<owner, resultOf>>
    BY <1>4 DEF StopLogged, StopWritten, Finishing, InTask, Quietly
  <2> QED BY <2>1, <2>2 DEF ClaimKept
<1>5. CASE Interrupt(c)
  <2>1. Step(c) /\ SessionTyped'
    BY <1>5, InterruptStep
  <2>2. UNCHANGED <<owner, resultOf>>
    BY <1>5 DEF Interrupt, JunkRefused, MessageRefused, StartTimedOut,
                CaptureTimedOut, ShutDown, Closed, FailureAnswered, Quietly,
                sessionVars
  <2> QED BY <2>1, <2>2 DEF ClaimKept
<1>6. CASE RunSuperseded(c) \/ RunFails(c) \/ RunCompletes(c) \/ Finalized(c)
  BY <1>6, RunStep DEF ClaimKept
<1>7. CASE Wire(c)
  <2>1. SessionTyped
    BY ActorOf
  <2> QED BY <1>7, <2>1, WireStep DEF ClaimKept, SessionTyped, sessionVars
<1> QED BY <1>1, <1>2, <1>3, <1>4, <1>5, <1>6, <1>7
      DEF Handle, Provider, Start, Stop

\* The others never touch an actor, and only an upload's claim moves the owner.
LEMMA OthersStep ==
  ASSUME IInv, Others
  PROVE  /\ UNCHANGED <<actor, resultOf, answers, socket, sent>>
         /\ SessionTyped'
         /\ UNCHANGED owner \/ owner = NoOne
<1>1. SessionTyped
  BY DEF IInv, TypeOK, SessionTyped
<1>2. CASE RivalClaims
  <2>1. armed' \in Nat /\ deadlines' \in Nat
    BY <1>1, <1>2, EnsureDeadlineTyped DEF RivalClaims, SessionTyped
  <2>2. status' \in Statuses
    BY <1>1, <1>2 DEF RivalClaims, StatusAfter, Statuses, SessionTyped
  <2> QED BY <1>1, <1>2, <2>1, <2>2
        DEF RivalClaims, SessionOnly, wireVars, SessionTyped, IsClaimable
<1>3. CASE OperatorStarts
  <2>1. status' \in Statuses
    BY <1>1, <1>3 DEF OperatorStarts, StatusAfter, Statuses, SessionTyped
  <2> QED BY <1>1, <1>3, <2>1
        DEF OperatorStarts, SessionOnly, wireVars, SessionTyped
<1>4. CASE OperatorStops
  <2>1. armed' \in Nat /\ deadlines' \in Nat
    BY <1>1, <1>4, EnsureDeadlineTyped DEF OperatorStops, SessionTyped
  <2>2. status' \in Statuses
    BY <1>1, <1>4 DEF OperatorStops, StatusAfter, Statuses, SessionTyped
  <2> QED BY <1>1, <1>4, <2>1, <2>2
        DEF OperatorStops, SessionOnly, wireVars, SessionTyped
<1>5. ASSUME NEW type \in EventTypes, OperatorEnds(type)
      PROVE  /\ UNCHANGED <<actor, resultOf, answers, socket, sent, owner>>
             /\ SessionTyped'
  <2>1. status' \in Statuses
    BY <1>1, <1>5 DEF OperatorEnds, StatusAfter, Statuses, SessionTyped
  <2> QED BY <1>1, <1>5, <2>1
        DEF OperatorEnds, SessionOnly, wireVars, SessionTyped
<1>6. CASE DeadlineFires
  <2>1. status' \in Statuses
    BY <1>1, <1>6 DEF DeadlineFires, Statuses, SessionTyped
  <2> QED BY <1>1, <1>6, <2>1
        DEF DeadlineFires, SessionOnly, wireVars, SessionTyped
<1>7. CASE ServerCloses
  BY <1>1, <1>7 DEF ServerCloses, sessionVars, SessionTyped
<1> QED BY <1>2, <1>3, <1>4, <1>5, <1>6, <1>7 DEF Others

-----------------------------------------------------------------------------
(* The queues, the sockets and what the clients are told.                   *)

LEMMA QueueTyped ==
  ASSUME queue \in [Conns -> Seq(Tasks)], NEW c \in Conns, NEW kind \in Tasks,
         Takes(c, kind) \/ Enqueued(c, kind)
  PROVE  queue' \in [Conns -> Seq(Tasks)]
<1>1. queue[c] \in Seq(Tasks)
  OBVIOUS
<1>2. CASE Takes(c, kind)
  <2>1. Tail(queue[c]) \in Seq(Tasks)
    BY <1>1, <1>2 DEF Takes
  <2> QED BY <1>2, <2>1 DEF Takes
<1>3. CASE Enqueued(c, kind)
  <2>1. Append(queue[c], kind) \in Seq(Tasks)
    BY <1>1
  <2> QED BY <1>3, <2>1 DEF Enqueued
<1> QED BY <1>2, <1>3

\* A connection's step takes or adds a task of its own, or leaves the queues alone.
LEMMA QueueStep ==
  ASSUME queue \in [Conns -> Seq(Tasks)], NEW c \in Conns,
         Handle(c) \/ Provider(c) \/ Wire(c)
  PROVE  queue' \in [Conns -> Seq(Tasks)]
<1>1. Messages \union {"startTimeout", "captureTimeout", "close", "shutdown"}
        \subseteq Tasks /\ {"start", "chunk", "stop", "junk"} \subseteq Messages
  BY DEF Tasks, Messages, Timeouts
<1>2. CASE Start(c)
  BY <1>1, <1>2, QueueTyped
     DEF Start, StartRefused, StartClaims, SpoolOpened, StartWritten, InTask
<1>3. CASE Record(c)
  BY <1>1, <1>3, QueueTyped
     DEF Record, MessageRefused, MessageTooLate, MessageWrites, ChunkWritten,
         Acknowledged, InTask
<1>4. CASE Stop(c) \/ RunSuperseded(c) \/ Provider(c)
  BY <1>4 DEF Stop, StopLogged, StopWritten, Finishing, Finalized, RunSuperseded,
              Provider, RunFails, RunCompletes, InTask
<1>5. CASE Interrupt(c)
  BY <1>1, <1>5, QueueTyped
     DEF Interrupt, JunkRefused, MessageRefused, StartTimedOut, CaptureTimedOut,
         ShutDown, Closed, FailureAnswered
<1>6. CASE Wire(c)
  <2>1. UNCHANGED queue \/ \E kind \in Tasks : Enqueued(c, kind)
    BY <1>1, <1>6 DEF Wire, Connect, Receive, TimerFires, SocketCloses, Terminate
  <2> QED BY <2>1, QueueTyped
<1> QED BY <1>2, <1>3, <1>4, <1>5, <1>6 DEF Handle

\* The wire after a step of connection c: at most one answer more, and
\* "finalized" only from an actor at the end of its own run.
LEMMA AnswerStep ==
  ASSUME IInv, NEW c \in Conns, Handle(c) \/ Provider(c) \/ Wire(c)
  PROVE  /\ \/ UNCHANGED answers
            \/ /\ UNCHANGED resultOf
               /\ \E v \in {"spooled", "error", "finalized"} :
                    /\ answers' = [answers EXCEPT ![c] = Append(@, v)]
                    /\ v = "finalized" => actor[c].pc = "finalizing"
         /\ \/ UNCHANGED socket
            \/ \E v \in {"open", "closing", "closed"} :
                 socket' = [socket EXCEPT ![c] = v]
         /\ \/ UNCHANGED sent
            \/ sent' = [sent EXCEPT ![c] = @ + 1]
         /\ UNCHANGED shutting
<1>1. CASE Start(c)
  BY <1>1 DEF Start, StartRefused, StartClaims, SpoolOpened, StartWritten,
              InTask, Quietly, wireVars
<1>2. CASE \E kind \in {"chunk", "stop"} :
             MessageRefused(c, kind) \/ MessageTooLate(c, kind) \/ MessageWrites(c, kind)
  BY <1>2 DEF MessageRefused, MessageTooLate, MessageWrites, Quietly, wireVars
<1>3. CASE Acknowledged(c) \/ FailureAnswered(c) \/ Finalized(c)
  <2>1. UNCHANGED <<resultOf, sent, shutting>>
    BY <1>3 DEF Acknowledged, FailureAnswered, Finalized
  <2>2. UNCHANGED socket \/ socket' = [socket EXCEPT ![c] = "closing"]
    BY <1>3 DEF Acknowledged, FailureAnswered, Finalized
  <2>3. CASE Acknowledged(c)
    <3>1. UNCHANGED answers \/ answers' = [answers EXCEPT ![c] = Append(@, "spooled")]
      BY <2>3 DEF Acknowledged
    <3> QED BY <2>1, <2>2, <3>1
  <2>4. CASE FailureAnswered(c)
    <3>1. UNCHANGED answers \/ answers' = [answers EXCEPT ![c] = Append(@, "error")]
      BY <2>4 DEF FailureAnswered
    <3> QED BY <2>1, <2>2, <3>1
  <2>5. CASE Finalized(c)
    <3>1. UNCHANGED answers \/ answers' = [answers EXCEPT ![c] = Append(@, "finalized")]
      BY <2>5 DEF Finalized
    <3>2. actor[c].pc = "finalizing"
      <4>1. actor[c] \in Actors
        BY ActorOf
      <4> QED BY <2>5, <4>1 DEF Finalized, CleanedUp, Actors
    <3> QED BY <2>1, <2>2, <3>1, <3>2
  <2> QED BY <1>3, <2>3, <2>4, <2>5
<1>4. CASE ChunkWritten(c) \/ StopLogged(c) \/ StopWritten(c) \/ Finishing(c)
             \/ RunSuperseded(c) \/ Provider(c)
  BY <1>4 DEF ChunkWritten, StopLogged, StopWritten, Finishing, RunSuperseded,
              Provider, RunFails, RunCompletes, InTask, Quietly, wireVars
<1>5. CASE JunkRefused(c) \/ StartTimedOut(c) \/ CaptureTimedOut(c)
             \/ ShutDown(c) \/ Closed(c)
  BY <1>5 DEF JunkRefused, MessageRefused, StartTimedOut, CaptureTimedOut,
              ShutDown, Closed, Quietly, wireVars
<1>6. CASE Wire(c)
  <2>1. CASE Connect(c) \/ SocketCloses(c) \/ Terminate(c)
    BY <2>1 DEF Connect, SocketCloses, Terminate
  <2>2. CASE TimerFires(c) \/ \E kind \in Messages : Receive(c, kind)
    BY <2>2 DEF TimerFires, Receive, wireVars
  <2> QED BY <1>6, <2>1, <2>2 DEF Wire
<1> QED BY <1>1, <1>2, <1>3, <1>4, <1>5, <1>6 DEF Handle, Record, Stop, Interrupt

LEMMA WireKept ==
  ASSUME IInv, NEW c \in Conns, Handle(c) \/ Provider(c) \/ Wire(c),
         resultOf' \in Conns \union {NoOne}
  PROVE  WireTyped'
<1> USE BoundsAreNatural DEF BoundsAreNatural
<1>1. WireTyped
  BY ActorOf
<1>2. queue' \in [Conns -> Seq(Tasks)]
  BY <1>1, QueueStep DEF WireTyped
<1>3. answers' \in [Conns -> Seq({"spooled", "finalized", "error"})]
  <2>1. ASSUME NEW v \in {"spooled", "error", "finalized"},
               answers' = [answers EXCEPT ![c] = Append(@, v)]
        PROVE  answers' \in [Conns -> Seq({"spooled", "finalized", "error"})]
    <3>1. Append(answers[c], v) \in Seq({"spooled", "finalized", "error"})
      BY <1>1 DEF WireTyped
    <3> QED BY <3>1, <2>1, <1>1 DEF WireTyped
  <2> QED BY <1>1, <2>1, AnswerStep DEF WireTyped
<1>4. socket' \in [Conns -> {"none", "open", "closing", "closed"}]
  BY <1>1, AnswerStep DEF WireTyped
<1>5. sent' \in [Conns -> Nat]
  <2>1. ASSUME sent' = [sent EXCEPT ![c] = @ + 1]
        PROVE  sent' \in [Conns -> Nat]
    <3>1. sent[c] + 1 \in Nat
      BY <1>1 DEF WireTyped
    <3> QED BY <3>1, <2>1, <1>1 DEF WireTyped
  <2> QED BY <1>1, <2>1, AnswerStep DEF WireTyped
<1>6. shutting' \in BOOLEAN
  BY <1>1, AnswerStep DEF WireTyped
<1> QED BY <1>2, <1>3, <1>4, <1>5, <1>6 DEF WireTyped

\* A new "finalized" follows the result of the same connection, and a new result
\* comes only while no other stream has one.
LEMMA FinalKept ==
  ASSUME IInv, NEW c \in Conns, Handle(c) \/ Provider(c) \/ Wire(c)
  PROVE  FinalizedMeansResult'
<1> USE ConnsAreNotOthers DEF ConnsAreNotOthers
<1>1. /\ answers \in [Conns -> Seq({"spooled", "finalized", "error"})]
      /\ SoundActor(c, actor[c]) /\ ClaimKept(c)
      /\ FinalizedMeansResult /\ SoundResult
  BY ActorOf, ConnectionStep DEF WireTyped, IInv
<1> SUFFICES ASSUME NEW d \in Conns, NEW i \in DOMAIN answers'[d],
                    answers'[d][i] = "finalized"
             PROVE  resultOf' = d
  BY DEF FinalizedMeansResult
<1>2. CASE UNCHANGED answers
  <2>1. resultOf = d
    BY <1>1, <1>2 DEF FinalizedMeansResult
  <2>2. owner = d
    BY <1>1, <2>1 DEF SoundResult
  <2> QED BY <1>1, <2>1, <2>2 DEF ClaimKept
<1>3. ASSUME NEW v \in {"spooled", "error", "finalized"},
             answers' = [answers EXCEPT ![c] = Append(@, v)],
             v = "finalized" => actor[c].pc = "finalizing",
             UNCHANGED resultOf
      PROVE  resultOf' = d
  <2>1. CASE d # c
    BY <1>1, <1>3, <2>1 DEF FinalizedMeansResult
  <2>2. CASE d = c
    <3>1. answers'[c] = Append(answers[c], v)
      BY <1>1, <1>3
    <3>2. answers[c] \in Seq({"spooled", "finalized", "error"})
      BY <1>1
    <3>3. CASE i \in DOMAIN answers[c]
      <4>1. answers[c][i] = "finalized"
        BY <3>1, <3>2, <3>3, <2>2
      <4> QED BY <1>1, <1>3, <2>2, <3>3, <4>1 DEF FinalizedMeansResult
    <3>4. CASE i \notin DOMAIN answers[c]
      <4>1. v = "finalized"
        BY <3>1, <3>2, <3>4, <2>2
      <4> QED BY <1>1, <1>3, <2>2, <4>1 DEF SoundActor
    <3> QED BY <3>3, <3>4
  <2> QED BY <2>1, <2>2
<1> QED BY <1>2, <1>3, AnswerStep

-----------------------------------------------------------------------------
(* The invariant is inductive.                                              *)

LEMMA InitSound == Init => IInv
<1> SUFFICES ASSUME Init PROVE IInv
  OBVIOUS
<1> USE ConnsAreNotOthers, BoundsAreNatural
    DEF ConnsAreNotOthers, BoundsAreNatural, Init
<1>1. NewActor \in Actors
  BY DEF NewActor, Actors, Waits
<1>2. TypeOK
  <2>1. status \in Statuses
    BY DEF Statuses
  <2>2. <<>> \in Seq(Tasks) /\ <<>> \in Seq({"spooled", "finalized", "error"})
    OBVIOUS
  <2>3. 0 \in Nat
    OBVIOUS
  <2>4. actor \in [Conns -> Actors]
    BY <1>1
  <2>5. /\ queue \in [Conns -> Seq(Tasks)]
        /\ answers \in [Conns -> Seq({"spooled", "finalized", "error"})]
    BY <2>2
  <2>6. sent \in [Conns -> Nat]
    BY <2>3
  <2>7. socket \in [Conns -> {"none", "open", "closing", "closed"}]
    OBVIOUS
  <2> QED BY <2>1, <2>4, <2>5, <2>6, <2>7 DEF TypeOK
<1>3. SoundActors
  BY DEF SoundActors, SoundActor, NewActor
<1>4. SoundResult
  BY DEF SoundResult
<1>5. FinalizedMeansResult
  BY DEF FinalizedMeansResult
<1> QED BY <1>2, <1>3, <1>4, <1>5 DEF IInv

LEMMA NextSound == IInv /\ [Next]_vars => IInv'
<1> SUFFICES ASSUME IInv, [Next]_vars PROVE IInv'
  OBVIOUS
<1> USE ConnsAreNotOthers DEF ConnsAreNotOthers
<1>1. ASSUME NEW c \in Conns, Handle(c) \/ Provider(c) \/ Wire(c)
      PROVE  IInv'
  <2>1. /\ Step(c) \/ UNCHANGED <<actor, owner, resultOf, status>>
        /\ SessionTyped' /\ ClaimKept(c)
    BY <1>1, ConnectionStep
  <2>2. actor' \in [Conns -> Actors]
    BY <2>1 DEF Step, Moves, IInv, TypeOK
  <2>3. resultOf' \in Conns \union {NoOne}
    BY <2>1 DEF ClaimKept, IInv, TypeOK
  <2>4. WireTyped'
    BY <1>1, <2>3, WireKept
  <2>5. TypeOK'
    BY <2>1, <2>2, <2>4 DEF TypeOK, SessionTyped, WireTyped
  <2>6. SoundActors' /\ SoundResult'
    <3>1. CASE Step(c)
      BY <2>1, <3>1, OthersStaySound
    <3>2. CASE UNCHANGED <<actor, owner, resultOf, status>>
      BY <3>2 DEF IInv, SoundActors, SoundActor, SoundResult
    <3> QED BY <2>1, <3>1, <3>2
  <2>7. FinalizedMeansResult'
    BY <1>1, FinalKept
  <2> QED BY <2>5, <2>6, <2>7 DEF IInv
<1>2. CASE Others
  <2>1. /\ UNCHANGED <<actor, resultOf, answers, socket, sent>>
        /\ SessionTyped' /\ (UNCHANGED owner \/ owner = NoOne)
    BY <1>2, OthersStep
  <2>2. queue' \in [Conns -> Seq(Tasks)] /\ shutting' \in BOOLEAN
    <3>1. CASE ServerCloses
      <4>1. "shutdown" \in Tasks /\ \A c \in Conns : queue[c] \in Seq(Tasks)
        BY DEF Tasks, IInv, TypeOK
      <4>2. \A c \in Conns : Append(queue[c], "shutdown") \in Seq(Tasks)
        BY <4>1
      <4> QED BY <3>1, <4>1, <4>2 DEF ServerCloses
    <3>2. CASE UNCHANGED <<queue, shutting>>
      BY <3>2 DEF IInv, TypeOK
    <3>3. ServerCloses \/ UNCHANGED <<queue, shutting>>
      BY <1>2 DEF Others, RivalClaims, OperatorStarts, OperatorStops, OperatorEnds,
                  DeadlineFires, SessionOnly, wireVars
    <3> QED BY <3>1, <3>2, <3>3
  <2>3. TypeOK'
    BY <2>1, <2>2 DEF IInv, TypeOK, SessionTyped
  <2>4. SoundActors' /\ SoundResult'
    BY <2>1 DEF IInv, SoundActors, SoundActor, SoundResult
  <2>5. FinalizedMeansResult'
    BY <2>1 DEF IInv, FinalizedMeansResult
  <2> QED BY <2>3, <2>4, <2>5 DEF IInv
<1>3. CASE UNCHANGED vars
  BY <1>3 DEF vars, sessionVars, wireVars, IInv, TypeOK, SoundActors, SoundActor,
              SoundResult, FinalizedMeansResult
<1> QED BY <1>1, <1>2, <1>3 DEF Next

LEMMA Invariance == Spec => []IInv
<1>1. Init => IInv
  BY InitSound
<1>2. IInv /\ [Next]_vars => IInv'
  BY NextSound
<1> QED BY <1>1, <1>2, PTL DEF Spec

-----------------------------------------------------------------------------
(* What follows for the stream.                                             *)

\* Type correctness of the actors, their queues, timers and answers, for any
\* number of connections (orderedPcmWebSocket.ts, the fields of the connection).
THEOREM TypeCorrect == Spec => []TypeOK
<1>1. IInv => TypeOK
  BY DEF IInv
<1> QED BY <1>1, Invariance, PTL

\* A client is told audio.finalized only by the connection whose own run
\* committed the session's result: the claim, the run and the last
\* acknowledgement name one connection, whoever resets or seals in between.
THEOREM FinalIsCommitted == Spec => []FinalizedMeansResult
<1>1. IInv => FinalizedMeansResult
  BY DEF IInv
<1> QED BY <1>1, Invariance, PTL

\* A result never comes from a stream with a gap or without audio.
THEOREM CompleteStreamsOnly == Spec => []OnlyCompleteStreamsAreAnalysed
<1>1. IInv => OnlyCompleteStreamsAreAnalysed
  BY ConnsAreNotOthers
     DEF IInv, SoundResult, OnlyCompleteStreamsAreAnalysed, ConnsAreNotOthers
<1> QED BY <1>1, Invariance, PTL

\* A failing connection changes the attempt's status only if it holds the claim.
THEOREM OwnerSeals == Spec => OnlyTheOwnerSeals
<1>1. IInv /\ [Next]_vars =>
        [\A c \in Conns :
           /\ ~actor[c].terminal /\ actor'[c].terminal
           /\ status' # status
           => owner' = c]_vars
  <2> SUFFICES ASSUME IInv, Next, NEW d \in Conns,
                      ~actor[d].terminal, actor'[d].terminal, status' # status
               PROVE  owner' = d
    OBVIOUS
  <2>1. ~Others
    BY OthersStep
  <2>2. PICK c \in Conns : Handle(c) \/ Provider(c) \/ Wire(c)
    BY <2>1 DEF Next
  <2>3. Step(c)
    BY <2>2, ConnectionStep
  <2>4. PICK r \in Actors : Moves(c, r)
    BY <2>3 DEF Step
  <2>5. actor \in [Conns -> Actors]
    BY DEF IInv, TypeOK
  <2>6. d = c /\ actor'[d] = r
    BY <2>4, <2>5 DEF Moves
  <2> QED BY <2>4, <2>6 DEF Moves, SoundActor
<1> QED BY <1>1, Invariance, PTL DEF Spec, OnlyTheOwnerSeals

-----------------------------------------------------------------------------
(* The verdict.                                                             *)

\* While a socket is not yet closing, its client has been told nothing but what
\* is spooled: a verdict and the close of its socket are one step.
VerdictCloses ==
  \A c \in Conns : socket[c] \in {"none", "open"} =>
    \A i \in DOMAIN answers[c] : answers[c][i] = "spooled"

VerdictInv == TypeOK /\ VerdictCloses /\ NothingAfterTheVerdict

\* An answer goes to an open socket only, which a verdict closes; and no socket
\* opens twice.
LEMMA AnswersGoToOpenSockets ==
  ASSUME IInv, NEW c \in Conns, Handle(c) \/ Provider(c) \/ Wire(c)
  PROVE  \/ /\ UNCHANGED answers
            /\ \/ UNCHANGED socket
               \/ \E v \in {"open", "closing", "closed"} :
                    /\ socket' = [socket EXCEPT ![c] = v]
                    /\ v = "open" => socket[c] = "none"
         \/ /\ socket[c] = "open"
            /\ \/ /\ answers' = [answers EXCEPT ![c] = Append(@, "spooled")]
                  /\ UNCHANGED socket
               \/ \E v \in {"error", "finalized"} :
                    /\ answers' = [answers EXCEPT ![c] = Append(@, v)]
                    /\ socket' = [socket EXCEPT ![c] = "closing"]
<1>1. CASE Acknowledged(c)
  BY <1>1 DEF Acknowledged
<1>2. CASE FailureAnswered(c)
  <2>1. CASE socket[c] = "open" /\ actor[c].task # "close"
    BY <1>2, <2>1 DEF FailureAnswered
  <2>2. CASE socket[c] = "open" /\ actor[c].task = "close"
    BY <1>2, <2>2 DEF FailureAnswered
  <2>3. CASE socket[c] # "open"
    BY <1>2, <2>3 DEF FailureAnswered
  <2> QED BY <2>1, <2>2, <2>3
<1>3. CASE Finalized(c)
  <2>1. CASE socket[c] = "open"
    BY <1>3, <2>1 DEF Finalized
  <2>2. CASE socket[c] # "open"
    BY <1>3, <2>2 DEF Finalized
  <2> QED BY <2>1, <2>2
<1>4. CASE Wire(c)
  <2>1. CASE Connect(c)
    BY <2>1 DEF Connect
  <2>2. CASE SocketCloses(c) \/ Terminate(c)
    BY <2>2 DEF SocketCloses, Terminate
  <2>3. CASE TimerFires(c) \/ \E kind \in Messages : Receive(c, kind)
    BY <2>3 DEF TimerFires, Receive, wireVars
  <2> QED BY <1>4, <2>1, <2>2, <2>3 DEF Wire
<1>5. CASE Start(c)
  BY <1>5 DEF Start, StartRefused, StartClaims, SpoolOpened, StartWritten,
              InTask, Quietly, wireVars
<1>6. CASE \E kind \in {"chunk", "stop"} :
             MessageRefused(c, kind) \/ MessageTooLate(c, kind) \/ MessageWrites(c, kind)
  BY <1>6 DEF MessageRefused, MessageTooLate, MessageWrites, Quietly, wireVars
<1>7. CASE ChunkWritten(c) \/ StopLogged(c) \/ StopWritten(c) \/ Finishing(c)
             \/ RunSuperseded(c) \/ Provider(c)
  BY <1>7 DEF ChunkWritten, StopLogged, StopWritten, Finishing, RunSuperseded,
              Provider, RunFails, RunCompletes, InTask, Quietly, wireVars
<1>8. CASE JunkRefused(c) \/ StartTimedOut(c) \/ CaptureTimedOut(c)
             \/ ShutDown(c) \/ Closed(c)
  BY <1>8 DEF JunkRefused, MessageRefused, StartTimedOut, CaptureTimedOut,
              ShutDown, Closed, Quietly, wireVars
<1> QED BY <1>1, <1>2, <1>3, <1>4, <1>5, <1>6, <1>7, <1>8
      DEF Handle, Record, Stop, Interrupt

LEMMA VerdictKept == IInv /\ VerdictInv /\ [Next]_vars => VerdictInv'
<1> SUFFICES ASSUME IInv, VerdictInv, [Next]_vars PROVE VerdictInv'
  OBVIOUS
<1>1. TypeOK' /\ TypeOK
  BY NextSound DEF IInv
<1>2. ASSUME NEW c \in Conns, Handle(c) \/ Provider(c) \/ Wire(c)
      PROVE  (VerdictCloses /\ NothingAfterTheVerdict)'
  <2>1. CASE UNCHANGED answers /\ UNCHANGED socket
    BY <2>1 DEF VerdictInv, VerdictCloses, NothingAfterTheVerdict
  <2>2. ASSUME UNCHANGED answers, NEW v \in {"open", "closing", "closed"},
               socket' = [socket EXCEPT ![c] = v], v = "open" => socket[c] = "none"
        PROVE  (VerdictCloses /\ NothingAfterTheVerdict)'
    BY <1>1, <2>2 DEF TypeOK, VerdictInv, VerdictCloses, NothingAfterTheVerdict
  <2>3. ASSUME socket[c] = "open", NEW v \in {"spooled", "error", "finalized"},
               answers' = [answers EXCEPT ![c] = Append(@, v)],
               \/ v = "spooled" /\ UNCHANGED socket
               \/ socket' = [socket EXCEPT ![c] = "closing"]
        PROVE  (VerdictCloses /\ NothingAfterTheVerdict)'
    <3>1. /\ answers[c] \in Seq({"spooled", "finalized", "error"})
          /\ \A i \in DOMAIN answers[c] : answers[c][i] = "spooled"
      BY <1>1, <2>3 DEF TypeOK, VerdictInv, VerdictCloses
    <3>2. /\ answers'[c] = Append(answers[c], v)
          /\ \A d \in Conns \ {c} : answers'[d] = answers[d] /\ socket'[d] = socket[d]
      BY <1>1, <2>3 DEF TypeOK
    <3>3. /\ Len(answers'[c]) = Len(answers[c]) + 1
          /\ \A i \in 1..Len(answers[c]) : answers'[c][i] = "spooled"
      BY <3>1, <3>2
    <3>4. \A i \in 1..(Len(answers'[c]) - 1) : answers'[c][i] = "spooled"
      BY <3>1, <3>3
    <3>5. socket'[c] \in {"none", "open"} =>
            \A i \in DOMAIN answers'[c] : answers'[c][i] = "spooled"
      <4>1. CASE v = "spooled"
        BY <3>1, <3>2, <4>1
      <4>2. CASE socket'[c] = "closing"
        BY <4>2
      <4> QED BY <1>1, <2>3, <4>1, <4>2 DEF TypeOK
    <3>6. ASSUME NEW d \in Conns
          PROVE  /\ \A i \in 1..(Len(answers'[d]) - 1) : answers'[d][i] = "spooled"
                 /\ socket'[d] \in {"none", "open"} =>
                      \A i \in DOMAIN answers'[d] : answers'[d][i] = "spooled"
      <4>1. CASE d = c
        BY <3>4, <3>5, <4>1
      <4>2. CASE d # c
        BY <3>2, <4>2 DEF VerdictInv, VerdictCloses, NothingAfterTheVerdict
      <4> QED BY <4>1, <4>2
    <3> QED BY <3>6 DEF VerdictCloses, NothingAfterTheVerdict
  <2> QED BY <1>2, <2>1, <2>2, <2>3, AnswersGoToOpenSockets
<1>3. CASE Others \/ UNCHANGED vars
  <2>1. answers' = answers /\ socket' = socket
    BY <1>3, OthersStep DEF vars, wireVars
  <2> QED BY <1>1, <2>1 DEF VerdictInv, VerdictCloses, NothingAfterTheVerdict
<1> QED BY <1>1, <1>2, <1>3 DEF Next, VerdictInv

\* However many messages were queued behind the one that failed, a client is told
\* how its stream ended once, and nothing afterwards.
THEOREM VerdictIsLast == Spec => []NothingAfterTheVerdict
<1>1. Init => VerdictInv
  <2> SUFFICES ASSUME Init PROVE VerdictInv
    OBVIOUS
  <2>1. TypeOK
    BY InitSound DEF IInv
  <2>2. \A c \in Conns : answers[c] = <<>>
    BY DEF Init
  <2> QED BY <2>1, <2>2 DEF VerdictInv, VerdictCloses, NothingAfterTheVerdict
<1>2. VerdictInv => NothingAfterTheVerdict
  BY DEF VerdictInv
<1> QED BY <1>1, <1>2, VerdictKept, Invariance, PTL DEF Spec
=============================================================================
