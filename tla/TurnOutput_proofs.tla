-------------------------- MODULE TurnOutput_proofs ---------------------------
(***************************************************************************)
(* First, the output scheduler by itself: it speaks one output at a time,  *)
(* reads idle only when it is silent, and implements the abstract speaker  *)
(* slot, for any number of keys, tasks and waiters.                        *)
(*                                                                         *)
(* Then the sessions that share the speaker: they drive the scheduler as   *)
(* it is meant to be driven, so that what was proved of it holds among     *)
(* them; and their logs never show two results being spoken.               *)
(*                                                                         *)
(* Last, the programs that are heard: speaking a result is a step of its   *)
(* turn or none at all, and one program at a time is what one slot means.  *)
(***************************************************************************)
EXTENDS LocalSpeech, TLAPS


\* The slot is free or held by the chain's tail, and its holder is unsettled.
SlotIsTail ==
  /\ active \in {None, scheduled}
  /\ active # None => phase[active] \in {"waiting", "running"}

\* Exactly the tasks up to the tail were scheduled.
NewIsUnscheduled == \A t \in Tasks : phase[t] = "new" <=> t > scheduled

\* Nobody can abort a task before it takes the slot.
NewIsClean == \A t \in Tasks : phase[t] = "new" => ~aborted[t]

\* The chain runs in order: whoever runs or ran has only settled predecessors.
ChainOrder ==
  \A s, t \in Tasks :
    s < t /\ phase[t] \in {"running", "settled"} => phase[s] = "settled"

\* The inductive invariant: mutual exclusion is not inductive by itself, since
\* it does not say why a predecessor's predecessor has settled too.
IInv ==
  /\ TypeOK
  /\ SlotIsTail
  /\ NewIsUnscheduled
  /\ NewIsClean
  /\ ChainOrder
  /\ IdleIsSilent
  /\ LatestWins
  /\ ClosedIsMuted

LEMMA InitIInv == Init => IInv
<1> SUFFICES ASSUME Init PROVE IInv
  OBVIOUS
<1> USE DEF Init, Tasks, None
<1>1. TypeOK
  <2>1. scheduled \in 0..MaxTasks /\ active \in 0..MaxTasks
    BY MaxTasksIsNat DEF MaxTasksIsNat
  <2>2. keyOf \in [Tasks -> Keys \union {NoKey}]
    BY MaxTasksIsNat DEF MaxTasksIsNat
  <2>3. phase \in [Tasks -> {"new", "waiting", "running", "settled"}]
    BY MaxTasksIsNat DEF MaxTasksIsNat
  <2>4. aborted \in [Tasks -> BOOLEAN] /\ closed \in BOOLEAN
    BY MaxTasksIsNat DEF MaxTasksIsNat
  <2>5. waiting \subseteq Waiters /\ resolved \subseteq Waiters
    BY MaxTasksIsNat DEF MaxTasksIsNat
  <2>6. QED
    BY <2>1, <2>2, <2>3, <2>4, <2>5 DEF TypeOK
<1>2. SlotIsTail /\ NewIsUnscheduled /\ ChainOrder
  BY DEF SlotIsTail, NewIsUnscheduled, ChainOrder
<1>3. NewIsClean /\ IdleIsSilent /\ LatestWins /\ ClosedIsMuted
  BY DEF NewIsClean, IdleIsSilent, LatestWins, ClosedIsMuted
<1>4. QED
  BY <1>1, <1>2, <1>3 DEF IInv

\* Scheduling keeps the invariant: the newcomer is the new tail.
LEMMA ScheduleIInv ==
  ASSUME IInv, NEW key \in Keys, Schedule(key)
  PROVE  IInv'
<1> DEFINE n == scheduled + 1
<1> USE MaxTasksIsNat DEF MaxTasksIsNat, IInv, Tasks, None
<1>1. n \in Tasks /\ phase[n] = "new" /\ n # active
  <2>1. n \in Tasks
    BY DEF Schedule, TypeOK
  <2>2. QED
    BY <2>1 DEF TypeOK, NewIsUnscheduled, SlotIsTail
<1>2. TypeOK'
  <2>1. (scheduled \in 0..MaxTasks /\ active \in 0..MaxTasks)'
    BY <1>1 DEF Schedule, TypeOK, ReplaceActive, Abort
  <2>2. (keyOf \in [Tasks -> Keys \union {NoKey}])'
    BY <1>1 DEF Schedule, TypeOK, ReplaceActive, Abort
  <2>3. (phase \in [Tasks -> {"new", "waiting", "running", "settled"}])'
    BY <1>1 DEF Schedule, TypeOK, ReplaceActive, Abort
  <2>4. (aborted \in [Tasks -> BOOLEAN] /\ closed \in BOOLEAN)'
    BY <1>1 DEF Schedule, TypeOK, ReplaceActive, Abort
  <2>5. (waiting \subseteq Waiters /\ resolved \subseteq Waiters)'
    BY <1>1 DEF Schedule, TypeOK, ReplaceActive, Abort
  <2>6. QED
    BY <2>1, <2>2, <2>3, <2>4, <2>5 DEF TypeOK
<1>3. SlotIsTail'
  BY <1>1 DEF Schedule, TypeOK, SlotIsTail
<1>4. NewIsUnscheduled'
  BY <1>1 DEF Schedule, TypeOK, NewIsUnscheduled
<1>5. ChainOrder'
  BY <1>1 DEF Schedule, TypeOK, ChainOrder, NewIsUnscheduled
<1>6. IdleIsSilent'
  BY <1>1 DEF Schedule, TypeOK, IdleIsSilent
<1>7. LatestWins'
  BY <1>1 DEF Schedule, TypeOK, LatestWins, ReplaceActive, Abort
<1>8. ClosedIsMuted'
  BY DEF Schedule, ClosedIsMuted
<1>9. NewIsClean'
  BY <1>1 DEF Schedule, TypeOK, NewIsClean, NewIsUnscheduled, SlotIsTail,
     ReplaceActive, Abort
<1>10. QED
  BY <1>2, <1>3, <1>4, <1>5, <1>6, <1>7, <1>8, <1>9

\* A task begins only behind a settled chain.
LEMMA BeginIInv ==
  ASSUME IInv, NEW t \in Tasks, Begin(t)
  PROVE  IInv'
<1> USE MaxTasksIsNat DEF MaxTasksIsNat, IInv, Tasks, None
<1>1. \A s \in Tasks : s < t => phase[s] = "settled"
  <2> SUFFICES ASSUME NEW s \in Tasks, s < t PROVE phase[s] = "settled"
    OBVIOUS
  <2>1. phase[t - 1] = "settled" /\ t - 1 \in Tasks
    BY DEF Begin, PredecessorSettled
  <2>2. CASE s = t - 1
    BY <2>1, <2>2
  <2>3. CASE s < t - 1
    BY <2>1, <2>3 DEF ChainOrder
  <2>4. QED
    BY <2>2, <2>3
<1>2. TypeOK'
  BY DEF Begin, TypeOK
<1>3. SlotIsTail' /\ NewIsUnscheduled'
  BY DEF Begin, TypeOK, SlotIsTail, NewIsUnscheduled
<1>4. ChainOrder'
  BY <1>1 DEF Begin, TypeOK, ChainOrder
<1>5. NewIsClean' /\ IdleIsSilent' /\ LatestWins' /\ ClosedIsMuted'
  BY DEF Begin, TypeOK, NewIsClean, IdleIsSilent, LatestWins, ClosedIsMuted
<1>6. QED
  BY <1>2, <1>3, <1>4, <1>5

\* A task that settles, having run or not, frees the slot only if it is the
\* tail, and then the whole chain has settled.
LEMMA SettleIInv ==
  ASSUME IInv, NEW t \in Tasks, Skip(t) \/ Settle(t)
  PROVE  IInv'
<1> USE MaxTasksIsNat DEF MaxTasksIsNat, IInv, Tasks, None
<1>0. /\ phase' = [phase EXCEPT ![t] = "settled"]
      /\ phase[t] \in {"waiting", "running"}
      /\ Finish(t)
      /\ UNCHANGED <<scheduled, keyOf, aborted, closed>>
  BY DEF Skip, Settle
<1>1. \A s \in Tasks : s < t => phase[s] = "settled"
  <2> SUFFICES ASSUME NEW s \in Tasks, s < t PROVE phase[s] = "settled"
    OBVIOUS
  <2>1. CASE phase[t] = "running"
    BY <2>1 DEF ChainOrder
  <2>2. CASE Skip(t)
    <3>1. phase[t - 1] = "settled" /\ t - 1 \in Tasks
      BY <2>2 DEF Skip, PredecessorSettled
    <3>2. QED
      BY <3>1 DEF ChainOrder
  <2>3. QED
    BY <2>1, <2>2 DEF Settle
<1>2. TypeOK'
  BY <1>0 DEF Finish, TypeOK
<1>3. SlotIsTail' /\ NewIsUnscheduled' /\ NewIsClean'
  BY <1>0 DEF Finish, TypeOK, SlotIsTail, NewIsUnscheduled, NewIsClean
<1>4. ChainOrder'
  BY <1>0, <1>1 DEF TypeOK, ChainOrder
<1>5. IdleIsSilent'
  <2>1. CASE active = t
    <3>1. t = scheduled
      BY <2>1 DEF SlotIsTail
    <3>2. QED
      BY <1>0, <1>1, <3>1 DEF TypeOK, IdleIsSilent, NewIsUnscheduled
  <2>2. CASE active # t
    BY <1>0, <2>2 DEF Finish, TypeOK, IdleIsSilent
  <2>3. QED
    BY <2>1, <2>2
<1>6. LatestWins' /\ ClosedIsMuted'
  <2>1. CASE active = t
    BY <1>0, <1>1, <2>1 DEF TypeOK, LatestWins, ClosedIsMuted, SlotIsTail,
       NewIsUnscheduled
  <2>2. CASE active # t
    BY <1>0, <2>2 DEF Finish, TypeOK, LatestWins, ClosedIsMuted
  <2>3. QED
    BY <2>1, <2>2
<1>7. QED
  BY <1>2, <1>3, <1>4, <1>5, <1>6

\* Cancelling, closing and waiting only abort signals and move waiters.
LEMMA ControlIInv ==
  ASSUME IInv,
         \/ \E key \in Keys : Cancel(key)
         \/ CancelActive
         \/ Close
         \/ \E w \in Waiters : WaitForIdle(w)
  PROVE  IInv'
<1> USE MaxTasksIsNat DEF MaxTasksIsNat, IInv, Tasks, None
<1>1. /\ UNCHANGED <<scheduled, keyOf, phase, active>>
      /\ aborted' \in [Tasks -> BOOLEAN]
      /\ \A t \in Tasks : aborted[t] => aborted'[t]
  BY DEF Cancel, CancelActive, Close, WaitForIdle, ReplaceActive, Abort, TypeOK
<1>2. TypeOK'
  BY <1>1 DEF Cancel, CancelActive, Close, WaitForIdle, TypeOK
<1>3. SlotIsTail' /\ NewIsUnscheduled' /\ ChainOrder' /\ IdleIsSilent'
      /\ LatestWins'
  BY <1>1 DEF SlotIsTail, NewIsUnscheduled, ChainOrder, IdleIsSilent,
     LatestWins, TypeOK
<1>4. ClosedIsMuted'
  <2>1. CASE Close
    BY <1>1, <2>1 DEF Close, ReplaceActive, Abort, ClosedIsMuted, LatestWins,
       IdleIsSilent, SlotIsTail, TypeOK
  <2>2. CASE ~Close
    BY <1>1, <2>2 DEF Cancel, CancelActive, WaitForIdle, ClosedIsMuted
  <2>3. QED
    BY <2>1, <2>2
<1>5. NewIsClean'
  BY <1>1 DEF Cancel, CancelActive, Close, WaitForIdle, ReplaceActive, Abort,
     NewIsClean, SlotIsTail, TypeOK
<1>6. QED
  BY <1>2, <1>3, <1>4, <1>5

LEMMA NextIInv == IInv /\ [Next]_vars => IInv'
<1> SUFFICES ASSUME IInv, [Next]_vars PROVE IInv'
  OBVIOUS
<1>1. ASSUME NEW key \in Keys, Schedule(key) PROVE IInv'
  BY <1>1, ScheduleIInv
<1>2. ASSUME NEW t \in Tasks, Begin(t) PROVE IInv'
  BY <1>2, BeginIInv
<1>3. ASSUME NEW t \in Tasks, Skip(t) \/ Settle(t) PROVE IInv'
  BY <1>3, SettleIInv
<1>4. CASE \/ \E key \in Keys : Cancel(key)
           \/ CancelActive
           \/ Close
           \/ \E w \in Waiters : WaitForIdle(w)
  BY <1>4, ControlIInv
<1>5. CASE UNCHANGED vars
  BY <1>5 DEF vars, IInv, TypeOK, SlotIsTail, NewIsUnscheduled, NewIsClean,
     ChainOrder, IdleIsSilent, LatestWins, ClosedIsMuted
<1>6. QED
  BY <1>1, <1>2, <1>3, <1>4, <1>5 DEF Next, Run

\* Every reachable state of the scheduler satisfies the inductive invariant.
THEOREM Invariance == Spec => []IInv
  BY InitIInv, NextIInv, PTL DEF Spec

\* Two players never overlap, for any number of tasks.
THEOREM MutualExclusion == Spec => []OneSpeaker
<1>1. IInv => OneSpeaker
  BY MaxTasksIsNat DEF IInv, ChainOrder, OneSpeaker, Tasks
<1>2. QED
  BY <1>1, Invariance, PTL

\* A free slot means nothing is speaking and nothing is queued.
THEOREM IdleMeansSilent == Spec => []IdleIsSilent
<1>1. IInv => IdleIsSilent
  BY DEF IInv
<1>2. QED
  BY <1>1, Invariance, PTL

-----------------------------------------------------------------------------
(* Refinement of the speaker slot.                                         *)

\* A singleton is the one it names, and an empty set is silence.
LEMMA TheOneOf ==
  /\ TheOne({}) = None
  /\ \A t : TheOne({t}) = t
  BY DEF TheOne

\* Only the slot's holder may still start, and whoever speaks is alone.
LEMMA SlotFacts ==
  ASSUME IInv
  PROVE  /\ Eligible \subseteq {active}
         /\ \A t \in Tasks : phase[t] = "running" => Speaking = {t}
         /\ \A t \in Tasks : phase[t] = "waiting" /\ PredecessorSettled(t)
                               => Speaking = {}
<1> USE MaxTasksIsNat DEF MaxTasksIsNat, IInv, Tasks, None
<1>1. Eligible \subseteq {active}
  BY DEF Eligible, LatestWins
<1>2. \A t \in Tasks : phase[t] = "running" => Speaking = {t}
  BY DEF Speaking, ChainOrder
<1>3. ASSUME NEW t \in Tasks, phase[t] = "waiting", PredecessorSettled(t)
      PROVE  Speaking = {}
  <2> SUFFICES ASSUME NEW s \in Tasks, phase[s] = "running" PROVE FALSE
    BY DEF Speaking
  <2>1. CASE t < s
    BY <1>3, <2>1 DEF ChainOrder
  <2>2. CASE s < t
    <3>1. t - 1 \in Tasks /\ phase[t - 1] = "settled"
      BY <1>3, <2>2 DEF PredecessorSettled
    <3>2. QED
      BY <2>2, <3>1 DEF ChainOrder
  <2>3. QED
    BY <1>3, <2>1, <2>2
<1>4. QED
  BY <1>1, <1>2, <1>3

\* Every step of the scheduler is a step of the slot, or leaves it alone.
LEMMA StepRefines ==
  ASSUME IInv, IInv', [Next]_vars
  PROVE  [Slot!Next]_<<TheOne(Speaking), TheOne(Eligible)>>
<1> USE SlotFacts, TheOneOf
<1> USE DEF Slot!Next, Slot!Request, Slot!Withdraw, Slot!Start, Slot!Stop
<1>1. ASSUME NEW key \in Keys, Schedule(key)
      PROVE  \E t \in Tasks : Slot!Request(t)
  <2> DEFINE n == scheduled + 1
  <2>1. n \in Tasks /\ phase[n] = "new"
    BY <1>1, MaxTasksIsNat DEF MaxTasksIsNat, Schedule, IInv, TypeOK,
       NewIsUnscheduled, Tasks
  <2>2. phase' = [phase EXCEPT ![n] = "waiting"] /\ active' = n
    BY <1>1 DEF Schedule
  <2>3. Speaking' = Speaking
    BY <2>1, <2>2 DEF Speaking, IInv, TypeOK
  <2>4. Eligible' = {n}
    <3>1. Eligible' \subseteq {n}
      BY <2>2, SlotFacts DEF IInv, Eligible, LatestWins
    <3>2. ~aborted'[n]
      <4>1. ~aborted[n]
        BY <2>1 DEF IInv, NewIsClean
      <4>2. QED
        BY <1>1, <2>1, <4>1 DEF Schedule, ReplaceActive, Abort, IInv, TypeOK,
           SlotIsTail
    <3>3. QED
      BY <2>1, <2>2, <3>1, <3>2 DEF Eligible, IInv, TypeOK
  <2>5. QED
    BY <2>1, <2>3, <2>4
<1>2. ASSUME NEW t \in Tasks, Begin(t)
      PROVE  Slot!Start
  <2>1. phase' = [phase EXCEPT ![t] = "running"] /\ UNCHANGED aborted
    BY <1>2 DEF Begin
  <2>2. Speaking = {} /\ Eligible = {t} /\ t # None
    BY <1>2, SlotFacts DEF Begin, Eligible, Tasks, None
  <2>3. Speaking' = {t}
    BY <2>1, <2>2 DEF Speaking, IInv, TypeOK
  <2>4. Eligible' = {}
    BY <2>1, <2>2 DEF Eligible, IInv, TypeOK
  <2>5. QED
    BY <2>2, <2>3, <2>4
<1>3. ASSUME NEW t \in Tasks, Skip(t)
      PROVE  UNCHANGED <<TheOne(Speaking), TheOne(Eligible)>>
  <2>1. Speaking' = Speaking /\ Eligible' = Eligible
    BY <1>3 DEF Skip, Speaking, Eligible, IInv, TypeOK
  <2>2. QED
    BY <2>1
<1>4. ASSUME NEW t \in Tasks, Settle(t)
      PROVE  Slot!Stop
  <2>1. phase[t] = "running" /\ phase' = [phase EXCEPT ![t] = "settled"]
        /\ UNCHANGED aborted
    BY <1>4 DEF Settle
  <2>2. Speaking = {t} /\ t # None
    BY <2>1, SlotFacts DEF Tasks, None
  <2>3. Speaking' = {}
    BY <2>1, <2>2 DEF Speaking, IInv, TypeOK
  <2>4. Eligible' = Eligible
    BY <2>1 DEF Eligible, IInv, TypeOK
  <2>5. QED
    BY <2>2, <2>3, <2>4
<1>5. CASE \/ \E key \in Keys : Cancel(key)
           \/ CancelActive
           \/ Close
           \/ \E w \in Waiters : WaitForIdle(w)
  <2>1. UNCHANGED phase
    BY <1>5 DEF Cancel, CancelActive, Close, WaitForIdle
  <2>2. Speaking' = Speaking
    BY <2>1 DEF Speaking
  <2>3. Eligible' \subseteq Eligible
    BY <1>5, <2>1 DEF Cancel, CancelActive, Close, WaitForIdle, ReplaceActive,
       Abort, Eligible, IInv, TypeOK
  <2>4. CASE Eligible' = Eligible
    BY <2>2, <2>4
  <2>5. CASE Eligible' # Eligible
    <3>1. Eligible = {active} /\ active # None /\ Eligible' = {}
      BY <2>3, <2>5, SlotFacts DEF Eligible, Tasks, None
    <3>2. QED
      BY <2>2, <3>1
  <2>6. QED
    BY <2>4, <2>5
<1>6. CASE UNCHANGED vars
  <2>1. Speaking' = Speaking /\ Eligible' = Eligible
    BY <1>6 DEF vars, Speaking, Eligible
  <2>2. QED
    BY <2>1
<1>7. QED
  BY <1>1, <1>2, <1>3, <1>4, <1>5, <1>6 DEF Next, Run

\* The promise chain with its tokens and abort signals implements the slot.
THEOREM Refinement == Spec => ImplementsSlot
<1>1. Init => Slot!Init
  <2> SUFFICES ASSUME Init PROVE Slot!Init
    OBVIOUS
  <2>1. Speaking = {} /\ Eligible = {}
    BY DEF Init, Speaking, Eligible
  <2>2. QED
    BY <2>1, TheOneOf DEF Slot!Init
<1>2. QED
  BY <1>1, Invariance, StepRefines, PTL DEF Spec, ImplementsSlot, Slot!Spec

-----------------------------------------------------------------------------
(* The sessions that share the speaker.                                    *)


\* Only a task whose turn has come gets past its pause.
StagesFollowPhases ==
  \A t \in Tasks : stage[t] # "pacing" => phase[t] \in {"running", "settled"}

\* Only a turn that had a result was ever spoken.
SpeechFollowsResult ==
  \A k \in Keys : tts[k] = "started" => turn[k] \in {"result", "silence", "sealed"}

Speaks(t) == phase[t] = "running" /\ stage[t] = "playing"

\* A result that its log shows being spoken is being spoken by a task.
SpeechHasATask ==
  \A k \in Keys :
    turn[k] = "result" /\ tts[k] = "started" =>
      \E t \in Tasks : keyOf[t] = k /\ Speaks(t)

\* The scheduler's invariant, and what relates its tasks to the turns.
TurnInv ==
  /\ IInv
  /\ TurnTypeOK
  /\ StagesFollowPhases
  /\ SpeechFollowsResult
  /\ SpeechHasATask
  /\ SealedTurnIsMuted

-----------------------------------------------------------------------------
\* Asking for silence is what the scheduler's cancelActive() does.
LEMMA SilencingIsCancelActive ==
  ASSUME IInv, ReplaceActive,
         UNCHANGED <<scheduled, keyOf, phase, active, closed, waiting, resolved>>
  PROVE  CancelActive \/ UNCHANGED vars
<1>1. CASE active = None
  BY <1>1 DEF ReplaceActive, vars
<1>2. CASE active # None
  <2>1. Abort(active)
    BY <1>2 DEF ReplaceActive
  <2>2. aborted \in [Tasks -> BOOLEAN]
    BY DEF IInv, TypeOK
  <2>3. CASE aborted[active]
    <3>1. aborted' = aborted
      BY <2>1, <2>2, <2>3 DEF Abort
    <3> QED BY <3>1 DEF vars
  <2>4. CASE ~aborted[active]
    BY <1>2, <2>1, <2>4 DEF CancelActive
  <2> QED BY <2>3, <2>4
<1> QED BY <1>1, <1>2

\* A session that ends cancels its own output as the scheduler's cancel() does.
LEMMA EndingIsCancel ==
  ASSUME IInv, NEW k \in Keys, CancelOwnOutput(k),
         UNCHANGED <<scheduled, keyOf, phase, active, closed, waiting, resolved>>
  PROVE  Cancel(k) \/ UNCHANGED vars
<1>1. CASE ~KeyMatches(k)
  BY <1>1 DEF CancelOwnOutput, vars
<1>2. CASE KeyMatches(k)
  <2>1. Abort(active)
    BY <1>2 DEF CancelOwnOutput
  <2>2. aborted \in [Tasks -> BOOLEAN]
    BY DEF IInv, TypeOK
  <2>3. CASE aborted[active]
    <3>1. aborted' = aborted
      BY <2>1, <2>2, <2>3 DEF Abort
    <3> QED BY <3>1 DEF vars
  <2>4. CASE ~aborted[active]
    BY <1>2, <2>1, <2>4 DEF Cancel
  <2> QED BY <2>3, <2>4
<1> QED BY <1>1, <1>2

\* Every step of the sessions is a step of the scheduler, or leaves it alone.
LEMMA TurnsDriveTheScheduler ==
  ASSUME IInv, [TurnNext]_allVars
  PROVE  [Next]_vars
<1>1. ASSUME NEW k \in Keys, Turn(k) PROVE [Next]_vars
  <2>1. CASE CreateSession(k) \/ StartByButton(k)
    <3>1. ReplaceActive /\ SlotUnchangedBut
      BY <2>1 DEF CreateSession, StartByButton
    <3> QED BY <3>1, SilencingIsCancelActive DEF SlotUnchangedBut, Next
  <2>2. CASE StartByStream(k) \/ CommitResult(k) \/ Silence(k)
    BY <2>2 DEF StartByStream, CommitResult, Silence
  <2>3. CASE Terminate(k)
    <3>1. CancelOwnOutput(k) /\ SlotUnchangedBut
      BY <2>3 DEF Terminate
    <3> QED BY <3>1, EndingIsCancel DEF SlotUnchangedBut, Next
  <2> QED BY <1>1, <2>1, <2>2, <2>3 DEF Turn
<1>2. ASSUME NEW k \in Keys, ResultWritten(k) PROVE [Next]_vars
  BY <1>2 DEF ResultWritten, Next
<1>3. ASSUME NEW t \in Tasks, Output(t) PROVE [Next]_vars
  <2>1. CASE RunOutput(t)
    BY <2>1 DEF RunOutput, Next
  <2>2. CASE SpeechSettles(t)
    BY <2>2 DEF SpeechSettles, Next
  <2>3. CASE SpeechStarts(t) \/ SpeechRefused(t) \/ SpeechEnds(t)
    BY <2>3 DEF SpeechStarts, SpeechRefused, SpeechEnds
  <2> QED BY <1>3, <2>1, <2>2, <2>3 DEF Output
<1>4. CASE Shutdown
  BY <1>4 DEF Shutdown, Next
<1>5. ASSUME NEW w \in Waiters, AwaitSilence(w) PROVE [Next]_vars
  BY <1>5 DEF AwaitSilence, Next
<1>6. CASE UNCHANGED allVars
  BY <1>6 DEF allVars
<1> QED BY <1>1, <1>2, <1>3, <1>4, <1>5, <1>6 DEF TurnNext

-----------------------------------------------------------------------------
(* What a step of the scheduler does to a task that is speaking.           *)

\* A task that runs keeps its key, and stays told to stop.
LEMMA RunningTasksKeep ==
  ASSUME IInv, [Next]_vars, NEW t \in Tasks, phase[t] = "running"
  PROVE  keyOf'[t] = keyOf[t] /\ (aborted[t] => aborted'[t])
<1>0. /\ aborted \in [Tasks -> BOOLEAN] /\ keyOf \in [Tasks -> Keys \union {NoKey}]
      /\ scheduled \in Nat
  BY DEF IInv, TypeOK
<1>1. ASSUME NEW key \in Keys, Schedule(key) PROVE keyOf'[t] = keyOf[t]
  <2>1. t # scheduled + 1
    BY <1>0, <1>1 DEF IInv, NewIsUnscheduled, Tasks, Schedule
  <2>2. keyOf' = [keyOf EXCEPT ![scheduled + 1] = key]
    BY <1>1 DEF Schedule
  <2> QED BY <1>0, <2>1, <2>2
<1>2. keyOf'[t] = keyOf[t]
  <2>1. (\E key \in Keys : Schedule(key)) \/ keyOf' = keyOf
    BY DEF Next, Cancel, Run, Begin, Skip, Settle, CancelActive, Close, WaitForIdle, vars
  <2> QED BY <1>1, <2>1
<1>3. aborted[t] => aborted'[t]
  <2>1. aborted' = aborted \/ Abort(active)
    BY DEF Next, Schedule, Cancel, Run, Begin, Skip, Settle, CancelActive, Close,
           WaitForIdle, ReplaceActive, vars
  <2> QED BY <1>0, <2>1 DEF Abort
<1> QED BY <1>2, <1>3

\* What is not running did not run before, or settled just now.
LEMMA PhasesAdvance ==
  ASSUME IInv, [Next]_vars, NEW t \in Tasks
  PROVE  phase[t] \in {"running", "settled"} => phase'[t] \in {"running", "settled"}
<1>1. phase \in [Tasks -> {"new", "waiting", "running", "settled"}] /\ scheduled \in Nat
  BY DEF IInv, TypeOK
<1>2. ASSUME NEW key \in Keys, Schedule(key)
      PROVE  phase[t] \in {"running", "settled"} => phase'[t] \in {"running", "settled"}
  <2>1. phase[t] \in {"running", "settled"} => t # scheduled + 1
    BY <1>1 DEF IInv, NewIsUnscheduled, Tasks
  <2>2. phase' = [phase EXCEPT ![scheduled + 1] = "waiting"]
    BY <1>2 DEF Schedule
  <2> QED BY <1>1, <2>1, <2>2
<1>3. \/ \E key \in Keys : Schedule(key)
      \/ phase' = phase
      \/ \E s \in Tasks : phase' = [phase EXCEPT ![s] = "running"]
      \/ \E s \in Tasks : phase' = [phase EXCEPT ![s] = "settled"]
  BY DEF Next, Cancel, Run, Begin, Skip, Settle, CancelActive, Close, WaitForIdle, vars
<1> QED BY <1>1, <1>2, <1>3

\* A task that settled does not run again.
LEMMA SettledStays ==
  ASSUME IInv, [Next]_vars, NEW t \in Tasks, phase[t] = "settled"
  PROVE  phase'[t] = "settled"
<1>1. phase \in [Tasks -> {"new", "waiting", "running", "settled"}] /\ scheduled \in Nat
  BY DEF IInv, TypeOK
<1>2. t # scheduled + 1
  BY <1>1 DEF IInv, NewIsUnscheduled, Tasks
<1>3. \/ phase' = phase
      \/ phase' = [phase EXCEPT ![scheduled + 1] = "waiting"]
      \/ \E s \in Tasks : phase[s] = "waiting" /\ phase' = [phase EXCEPT ![s] = "running"]
      \/ \E s \in Tasks : phase' = [phase EXCEPT ![s] = "settled"]
  BY DEF Next, Schedule, Cancel, Run, Begin, Skip, Settle, CancelActive, Close,
     WaitForIdle, vars
<1> QED BY <1>1, <1>2, <1>3

-----------------------------------------------------------------------------
\* Every variable of the sessions keeps its type.
LEMMA TurnTypes ==
  ASSUME TurnInv, [TurnNext]_allVars, IInv'
  PROVE  TurnTypeOK'
<1>1. TypeOK'
  BY DEF IInv
<1>2. TurnTypeOK
  BY DEF TurnInv
<1>3. \A t \in Tasks : phase[t] = "running" => keyOf[t] \in Keys \union {NoKey}
  BY DEF TurnInv, IInv, TypeOK
<1>4. turn' \in [Keys -> Turns]
  BY <1>2 DEF TurnTypeOK, Turns, TurnNext, Turn, CreateSession, StartByButton,
     StartByStream, CommitResult, Silence, Terminate, Becomes, ResultWritten, Output,
     RunOutput, SpeechStarts, SpeechRefused, SpeechEnds, SpeechSettles, Shutdown,
     AwaitSilence, turnVars, allVars
<1>5. unwritten' \subseteq Keys
  BY <1>2 DEF TurnTypeOK, TurnNext, Turn, CreateSession, StartByButton,
     StartByStream, CommitResult, Silence, Terminate, ResultWritten, Output,
     RunOutput, SpeechStarts, SpeechRefused, SpeechEnds, SpeechSettles, Shutdown,
     AwaitSilence, turnVars, allVars
<1>6. stage' \in [Tasks -> {"pacing", "playing", "closing"}]
  BY <1>2 DEF TurnTypeOK, TurnNext, Turn, CreateSession, StartByButton,
     StartByStream, CommitResult, Silence, Terminate, ResultWritten, Output,
     RunOutput, SpeechStarts, SpeechRefused, SpeechEnds, SpeechSettles, Shutdown,
     AwaitSilence, turnVars, allVars
<1>7. tts' \in [Keys -> {"none", "started", "finished"}]
  BY <1>2 DEF TurnTypeOK, TurnNext, Turn, CreateSession, StartByButton,
     StartByStream, CommitResult, Silence, Terminate, ResultWritten, Output,
     RunOutput, SpeechStarts, SpeechRefused, SpeechEnds, SpeechSettles, Shutdown,
     AwaitSilence, turnVars, allVars
<1> QED BY <1>1, <1>4, <1>5, <1>6, <1>7 DEF TurnTypeOK

\* A task gets past its pause only by running, and never comes back to it.
LEMMA StagesKept ==
  ASSUME TurnInv, [TurnNext]_allVars
  PROVE  StagesFollowPhases'
<1>1. IInv /\ [Next]_vars /\ StagesFollowPhases
  BY TurnsDriveTheScheduler DEF TurnInv
<1>2. stage \in [Tasks -> {"pacing", "playing", "closing"}]
  BY DEF TurnInv, TurnTypeOK
<1>3. ASSUME NEW t \in Tasks, stage'[t] # "pacing"
      PROVE  phase[t] \in {"running", "settled"}
  <2>1. CASE stage' = stage
    BY <1>1, <1>3, <2>1 DEF StagesFollowPhases
  <2>2. CASE stage' # stage
    <3>1. PICK s \in Tasks : SpeechStarts(s) \/ SpeechRefused(s) \/ SpeechEnds(s)
      BY <2>2 DEF TurnNext, Turn, CreateSession, StartByButton, StartByStream,
         CommitResult, Silence, Terminate, ResultWritten, Output, RunOutput,
         SpeechSettles, Shutdown, AwaitSilence, turnVars, allVars
    <3>2. phase[s] = "running"
      BY <3>1 DEF SpeechStarts, SpeechRefused, SpeechEnds
    <3>3. t # s => stage'[t] = stage[t]
      BY <1>2, <3>1 DEF SpeechStarts, SpeechRefused, SpeechEnds
    <3> QED BY <1>1, <1>3, <3>2, <3>3 DEF StagesFollowPhases
  <2> QED BY <2>1, <2>2
<1> QED BY <1>1, <1>3, PhasesAdvance DEF StagesFollowPhases

\* Speech is logged only for a turn at its result, and no turn goes back there.
LEMMA SpeechOrderKept ==
  ASSUME TurnInv, [TurnNext]_allVars
  PROVE  SpeechFollowsResult'
<1>1. /\ turn \in [Keys -> Turns] /\ tts \in [Keys -> {"none", "started", "finished"}]
      /\ SpeechFollowsResult
  BY DEF TurnInv, TurnTypeOK
<1>2. ASSUME NEW k \in Keys, NEW status \in Turns,
             turn[k] \in {"none", "created", "recording"} \/ status \in {"silence", "sealed"},
             Becomes(k, status), tts' = tts
      PROVE  SpeechFollowsResult'
  BY <1>1, <1>2 DEF SpeechFollowsResult, Becomes
<1>3. ASSUME NEW k \in Keys, Turn(k) PROVE SpeechFollowsResult'
  <2>1. PICK status \in Turns :
          /\ Becomes(k, status) /\ tts' = tts
          /\ turn[k] \in {"none", "created", "recording"} \/ status \in {"silence", "sealed"}
    BY <1>3 DEF Turn, CreateSession, StartByButton, StartByStream, CommitResult,
       Silence, Terminate, Turns
  <2> QED BY <1>2, <2>1
<1>4. ASSUME NEW t \in Tasks, SpeechStarts(t) PROVE SpeechFollowsResult'
  <2>1. turn[keyOf[t]] = "result" /\ tts' = [tts EXCEPT ![keyOf[t]] = "started"]
        /\ turn' = turn
    BY <1>4 DEF SpeechStarts, MayFollowResult
  <2> QED BY <1>1, <2>1 DEF SpeechFollowsResult
<1>5. ASSUME NEW t \in Tasks, SpeechEnds(t) PROVE SpeechFollowsResult'
  BY <1>1, <1>5 DEF SpeechEnds, SpeechFollowsResult
<1>6. CASE UNCHANGED <<turn, tts>>
  BY <1>1, <1>6 DEF SpeechFollowsResult
<1> QED
  BY <1>3, <1>4, <1>5, <1>6 DEF TurnNext, ResultWritten, Output, RunOutput,
     SpeechRefused, SpeechSettles, Shutdown, AwaitSilence, turnVars, allVars

\* A task that speaks goes on speaking until it says that it is over.
LEMMA SpeakersGoOn ==
  ASSUME TurnInv, [TurnNext]_allVars, NEW t \in Tasks, Speaks(t)
  PROVE  Speaks(t)' \/ SpeechEnds(t)
<1>1. IInv /\ [Next]_vars
  BY TurnsDriveTheScheduler DEF TurnInv
<1>2. /\ stage \in [Tasks -> {"pacing", "playing", "closing"}]
      /\ phase \in [Tasks -> {"new", "waiting", "running", "settled"}]
      /\ scheduled \in Nat
  BY <1>1 DEF TurnInv, TurnTypeOK, IInv, TypeOK
<1>3. phase[t] = "running" /\ stage[t] = "playing"
  BY DEF Speaks
<1>4. t # scheduled + 1
  BY <1>1, <1>2, <1>3 DEF IInv, NewIsUnscheduled, Tasks
<1>5. CASE UNCHANGED <<phase, stage>>
  BY <1>3, <1>5 DEF Speaks
<1>6. ASSUME NEW k \in Keys, ResultWritten(k) PROVE Speaks(t)'
  <2>1. stage' = stage /\ (phase' = phase \/ phase' = [phase EXCEPT ![scheduled + 1] = "waiting"])
    BY <1>6 DEF ResultWritten, Schedule, vars
  <2> QED BY <1>2, <1>3, <1>4, <2>1 DEF Speaks
<1>7. ASSUME NEW s \in Tasks, Output(s) PROVE Speaks(t)' \/ SpeechEnds(t)
  <2>1. CASE RunOutput(s)
    <3>1. phase[s] = "waiting" /\ stage' = stage
      BY <2>1 DEF RunOutput, Run, Begin, Skip, turnVars
    <3>2. phase' = [phase EXCEPT ![s] = "running"] \/ phase' = [phase EXCEPT ![s] = "settled"]
      BY <2>1 DEF RunOutput, Run, Begin, Skip
    <3> QED BY <1>2, <1>3, <3>1, <3>2 DEF Speaks
  <2>2. CASE SpeechStarts(s) \/ SpeechRefused(s)
    <3>1. stage[s] = "pacing" /\ phase' = phase
      BY <2>2 DEF SpeechStarts, SpeechRefused, vars
    <3>2. stage' = [stage EXCEPT ![s] = "playing"] \/ stage' = [stage EXCEPT ![s] = "closing"]
      BY <2>2 DEF SpeechStarts, SpeechRefused
    <3> QED BY <1>2, <1>3, <3>1, <3>2 DEF Speaks
  <2>3. CASE SpeechSettles(s)
    <3>1. /\ stage[s] = "closing" /\ stage' = stage
          /\ phase' = [phase EXCEPT ![s] = "settled"]
      BY <2>3 DEF SpeechSettles, Settle, turnVars
    <3> QED BY <1>2, <1>3, <3>1 DEF Speaks
  <2>4. CASE SpeechEnds(s)
    <3>1. stage' = [stage EXCEPT ![s] = "closing"] /\ phase' = phase
      BY <2>4 DEF SpeechEnds, vars
    <3> QED BY <1>2, <1>3, <2>4, <3>1 DEF Speaks
  <2> QED BY <1>7, <2>1, <2>2, <2>3, <2>4 DEF Output
<1>8. ASSUME NEW k \in Keys, Turn(k) PROVE UNCHANGED <<phase, stage>>
  BY <1>8 DEF Turn, CreateSession, StartByButton, StartByStream, CommitResult, Silence,
     Terminate, SlotUnchangedBut, vars
<1>9. CASE Shutdown \/ (\E w \in Waiters : AwaitSilence(w)) \/ UNCHANGED allVars
  <2>1. UNCHANGED <<phase, stage>>
    BY <1>9 DEF Shutdown, Close, AwaitSilence, WaitForIdle, turnVars, vars, allVars
  <2> QED BY <1>5, <2>1
<1> QED BY <1>5, <1>6, <1>7, <1>8, <1>9 DEF TurnNext

\* The log of a result shows speech only while its task speaks.
LEMMA SpeechTasksKept ==
  ASSUME TurnInv, [TurnNext]_allVars
  PROVE  SpeechHasATask'
<1>0. /\ turn \in [Keys -> Turns] /\ tts \in [Keys -> {"none", "started", "finished"}]
      /\ stage \in [Tasks -> {"pacing", "playing", "closing"}]
      /\ SpeechHasATask /\ SpeechFollowsResult /\ IInv /\ [Next]_vars
  BY TurnsDriveTheScheduler DEF TurnInv, TurnTypeOK
<1> SUFFICES ASSUME NEW k \in Keys, turn'[k] = "result", tts'[k] = "started"
             PROVE  \E t \in Tasks : keyOf'[t] = k /\ Speaks(t)'
  BY DEF SpeechHasATask
<1>1. CASE turn[k] = "result" /\ tts[k] = "started"
  <2>1. PICK t \in Tasks : keyOf[t] = k /\ Speaks(t)
    BY <1>0, <1>1 DEF SpeechHasATask
  <2>2. keyOf'[t] = k
    BY <1>0, <2>1, RunningTasksKeep DEF Speaks
  <2>3. ~SpeechEnds(t)
    <3>1. SUFFICES ASSUME SpeechEnds(t) PROVE FALSE
      OBVIOUS
    <3>2. tts' = [tts EXCEPT ![k] = "finished"]
      BY <1>1, <2>1, <3>1 DEF SpeechEnds, MayFollowResult
    <3> QED BY <1>0, <3>2
  <2> QED BY <2>1, <2>2, <2>3, SpeakersGoOn
<1>2. CASE tts[k] # "started"
  <2>1. PICK t \in Tasks : SpeechStarts(t) /\ keyOf[t] = k
    <3>1. tts' # tts
      BY <1>2
    <3>2. PICK t \in Tasks : SpeechStarts(t) \/ SpeechEnds(t)
      BY <3>1 DEF TurnNext, Turn, CreateSession, StartByButton, StartByStream,
         CommitResult, Silence, Terminate, ResultWritten, Output, RunOutput,
         SpeechRefused, SpeechSettles, Shutdown, AwaitSilence, turnVars, allVars
    <3>3. ~SpeechEnds(t)
      BY <1>0, <1>2 DEF SpeechEnds
    <3>4. tts' = [tts EXCEPT ![keyOf[t]] = "started"]
      BY <3>2, <3>3 DEF SpeechStarts
    <3>5. keyOf[t] = k
      BY <1>0, <1>2, <3>4
    <3> QED BY <3>2, <3>3, <3>5
  <2>2. /\ phase'[t] = "running" /\ keyOf' = keyOf
        /\ stage' = [stage EXCEPT ![t] = "playing"]
    BY <2>1 DEF SpeechStarts, vars
  <2> QED BY <1>0, <2>1, <2>2 DEF Speaks
<1>3. CASE tts[k] = "started" /\ turn[k] # "result"
  <2>1. turn[k] \in {"silence", "sealed"}
    BY <1>0, <1>3 DEF SpeechFollowsResult
  <2>2. turn' = turn \/ \E j \in Keys : Turn(j)
    BY DEF TurnNext, ResultWritten, Output, RunOutput, SpeechStarts, SpeechEnds,
       SpeechRefused, SpeechSettles, Shutdown, AwaitSilence, turnVars, allVars
  <2>3. ASSUME NEW j \in Keys, Turn(j) PROVE turn'[k] # "result"
    <3>1. \/ /\ turn[j] \in {"created", "recording"} /\ Becomes(j, "result")
          \/ \E status \in Turns : status # "result" /\ Becomes(j, status)
      BY <2>3 DEF Turn, CreateSession, StartByButton, StartByStream, CommitResult,
         Silence, Terminate, Turns
    <3> QED BY <1>0, <2>1, <3>1 DEF Becomes
  <2> QED BY <1>3, <2>2, <2>3
<1> QED BY <1>1, <1>2, <1>3

\* Ending a session reaches its player, which holds the slot or was told before.
LEMMA SealedTurnsKept ==
  ASSUME TurnInv, [TurnNext]_allVars
  PROVE  SealedTurnIsMuted'
<1>0. /\ turn \in [Keys -> Turns] /\ aborted \in [Tasks -> BOOLEAN]
      /\ stage \in [Tasks -> {"pacing", "playing", "closing"}]
      /\ IInv /\ [Next]_vars /\ SealedTurnIsMuted
  BY TurnsDriveTheScheduler DEF TurnInv, TurnTypeOK, IInv, TypeOK
<1> SUFFICES ASSUME NEW t \in Tasks, Speaks(t)', turn'[keyOf'[t]] = "sealed"
             PROVE  aborted'[t]
  BY DEF SealedTurnIsMuted, Speaks
<1>1. CASE ~Speaks(t)
  <2>1. SpeechStarts(t)
    <3>1. StagesFollowPhases
      BY DEF TurnInv
    <3>2. stage[t] # "playing" \/ phase[t] = "settled"
      BY <1>1, <3>1 DEF Speaks, StagesFollowPhases
    <3>3. phase[t] # "settled"
      BY <1>0, SettledStays DEF Speaks
    <3>4. stage[t] # "playing" /\ stage'[t] = "playing"
      BY <3>2, <3>3 DEF Speaks
    <3>5. PICK s \in Tasks : SpeechStarts(s) \/ SpeechRefused(s) \/ SpeechEnds(s)
      BY <3>4 DEF TurnNext, Turn, CreateSession, StartByButton, StartByStream,
         CommitResult, Silence, Terminate, ResultWritten, Output, RunOutput,
         SpeechSettles, Shutdown, AwaitSilence, turnVars, allVars
    <3> QED BY <1>0, <3>4, <3>5 DEF SpeechStarts, SpeechRefused, SpeechEnds
  <2>2. turn[keyOf[t]] = "result" /\ turn' = turn /\ keyOf' = keyOf
    BY <2>1 DEF SpeechStarts, MayFollowResult, vars
  <2> QED BY <2>2
<1>2. CASE Speaks(t)
  <2>1. keyOf'[t] = keyOf[t] /\ (aborted[t] => aborted'[t])
    BY <1>0, <1>2, RunningTasksKeep DEF Speaks
  <2>2. CASE turn[keyOf[t]] = "sealed"
    BY <1>0, <1>2, <2>1, <2>2 DEF SealedTurnIsMuted, Speaks
  <2>3. CASE turn[keyOf[t]] # "sealed"
    <3>1. turn' # turn
      BY <2>1, <2>3
    <3>2. PICK k \in Keys : Turn(k)
      BY <3>1 DEF TurnNext, ResultWritten, Output, RunOutput, SpeechStarts, SpeechEnds,
         SpeechRefused, SpeechSettles, Shutdown, AwaitSilence, turnVars, allVars
    <3>3. PICK status \in Turns : Becomes(k, status) /\ (status = "sealed" => Terminate(k))
      BY <3>2 DEF Turn, CreateSession, StartByButton, StartByStream, CommitResult,
         Silence, Terminate, Turns
    <3>4. k = keyOf[t] /\ status = "sealed"
      BY <1>0, <2>1, <2>3, <3>3 DEF Becomes
    <3>5. CancelOwnOutput(k)
      BY <3>3, <3>4 DEF Terminate
    <3>6. CASE t = active
      <4>1. active # None
        BY <3>6 DEF Tasks, None
      <4>2. Abort(t)
        BY <3>4, <3>5, <3>6, <4>1 DEF CancelOwnOutput, KeyMatches
      <4> QED BY <1>0, <4>2 DEF Abort
    <3>7. CASE t # active
      BY <1>0, <1>2, <2>1, <3>7 DEF IInv, LatestWins, Speaks
    <3> QED BY <3>6, <3>7
  <2> QED BY <2>2, <2>3
<1> QED BY <1>1, <1>2
-----------------------------------------------------------------------------
\* Sessions and scheduler start in their invariant,
LEMMA InitTurnInv == TurnInit => TurnInv
<1> SUFFICES ASSUME TurnInit PROVE TurnInv
  OBVIOUS
<1>1. IInv
  BY InitIInv DEF TurnInit
<1>2. TurnTypeOK
  BY <1>1 DEF TurnInit, TurnTypeOK, IInv, Turns
<1>3. StagesFollowPhases /\ SpeechFollowsResult /\ SpeechHasATask
  BY DEF TurnInit, StagesFollowPhases, SpeechFollowsResult, SpeechHasATask
<1>4. SealedTurnIsMuted
  BY DEF TurnInit, SealedTurnIsMuted
<1> QED BY <1>1, <1>2, <1>3, <1>4 DEF TurnInv

\* and each of their steps keeps it.
LEMMA NextTurnInv == TurnInv /\ [TurnNext]_allVars => TurnInv'
<1> SUFFICES ASSUME TurnInv, [TurnNext]_allVars PROVE TurnInv'
  OBVIOUS
<1>1. IInv'
  BY TurnsDriveTheScheduler, NextIInv DEF TurnInv
<1> QED
  BY <1>1, TurnTypes, StagesKept, SpeechOrderKept, SpeechTasksKept, SealedTurnsKept
     DEF TurnInv

\* Sessions and scheduler together keep their invariant.
THEOREM TurnInvariance == TurnSpec => []TurnInv
BY InitTurnInv, NextTurnInv, PTL DEF TurnSpec

\* Two results that are logged as being spoken would be two running tasks.
LEMMA OneTurnFollows == TurnInv => OneSpokenTurn
<1> SUFFICES ASSUME TurnInv, NEW j \in Keys, NEW k \in Keys,
                    turn[j] = "result", tts[j] = "started",
                    turn[k] = "result", tts[k] = "started"
             PROVE  j = k
  BY DEF OneSpokenTurn
<1>1. PICK s \in Tasks : keyOf[s] = j /\ phase[s] = "running"
  BY DEF TurnInv, SpeechHasATask, Speaks
<1>2. PICK t \in Tasks : keyOf[t] = k /\ phase[t] = "running"
  BY DEF TurnInv, SpeechHasATask, Speaks
<1>3. s = t
  <2>1. ChainOrder
    BY DEF TurnInv, IInv
  <2>2. ~(s < t) /\ ~(t < s)
    BY <1>1, <1>2, <2>1 DEF ChainOrder
  <2> QED BY <2>2, MaxTasksIsNat DEF Tasks, MaxTasksIsNat
<1> QED BY <1>1, <1>2, <1>3

\* Whatever results, resets and replacements overlap, at most one result is
\* logged as being spoken, for any number of sessions and outputs.
THEOREM OneTurnIsSpoken == TurnSpec => []OneSpokenTurn
BY OneTurnFollows, TurnInvariance, PTL

\* The player of a session that was reset or failed has been told to stop.
THEOREM SealIsHeard == TurnSpec => []SealedTurnIsMuted
<1>1. TurnInv => SealedTurnIsMuted
  BY DEF TurnInv
<1> QED BY <1>1, TurnInvariance, PTL

\* Before the first turn nothing speaks.
LEMMA TurnsStartSilent == TurnInit => Slot!Init
<1> SUFFICES ASSUME TurnInit PROVE Slot!Init
  OBVIOUS
<1>1. Speaking = {} /\ Eligible = {}
  BY DEF TurnInit, Init, Speaking, Eligible
<1> QED BY <1>1, TheOneOf DEF Slot!Init

\* Among the sessions too, the promise chain is one abstract speaker slot.
THEOREM TurnsRefineTheSlot == TurnSpec => ImplementsSlot
<1>1. TurnInv /\ [TurnNext]_allVars => IInv /\ IInv' /\ [Next]_vars
  BY TurnsDriveTheScheduler, NextIInv DEF TurnInv
<1> QED
  BY <1>1, TurnsStartSilent, TurnInvariance, StepRefines, PTL
     DEF TurnSpec, ImplementsSlot, Slot!Spec

-----------------------------------------------------------------------------
(* The programs that are heard.                                            *)

\* Speaking a result is a step of its turn, or none that the turns can see.
LEMMA SpeechStepsAreTurns == [SpeechNext]_speechVars => [TurnNext]_allVars
<1>1. TurnStep => TurnNext
  BY DEF TurnStep, OutputStep, TurnNext, Output
<1>2. ASSUME NEW t \in Tasks, Speak(t) PROVE UNCHANGED allVars
  BY <1>2 DEF Speak, PlaysClip, MakesSpeech, NothingToPlay, VoiceAwaited, PlayerAwaited,
     VoiceRemoved
<1>3. ASSUME NEW t \in Tasks, SpeechReturns(t) PROVE TurnNext
  BY <1>3 DEF SpeechReturns, TurnNext, Output
<1>4. ASSUME NEW r \in Programs, ProgramEvent(r) PROVE UNCHANGED allVars
  BY <1>4 DEF ProgramEvent
<1> QED BY <1>1, <1>2, <1>3, <1>4 DEF SpeechNext, speechVars

\* A task between its two log events is one that runs.
PlayersRun == \A t \in Tasks : stage[t] = "playing" => phase[t] = "running"

\* speakLocalResult is under way only between them.
SpeechIsTimely ==
  \A t \in Tasks : speech[t] \in {"making", "playing", "cleaning"} => stage[t] = "playing"

StageOf(r) == IF r[1] = "voice" THEN "making" ELSE "playing"

\* A program whose promise is pending is the one its task waits for, and it has been
\* told when the task was; only a voice that was given up runs on unawaited.
ProgramsAreAwaited ==
  \A r \in Programs :
    /\ Program!Pending(r) => speech[r[2]] = StageOf(r)
    /\ Program!Alive(r) => Program!Pending(r) \/ GivenUp(r)
    /\ Program!Pending(r) /\ aborted[r[2]] => run[r].told # "nothing"

\* The turns' invariant, and what relates the programs to the tasks.
VoiceInv ==
  /\ TurnInv
  /\ SpeechTypeOK
  /\ PlayersRun
  /\ SpeechIsTimely
  /\ ProgramsAreAwaited

\* One program per running task, and one running task: one voice.
LEMMA OneVoiceFollows == VoiceInv => OneVoice
<1> SUFFICES ASSUME VoiceInv PROVE OneVoice
  OBVIOUS
<1>1. ASSUME NEW r \in Programs, Heard(r)
      PROVE  /\ r[2] \in Tasks /\ r = <<r[1], r[2]>> /\ r[1] \in {"voice", "player"}
             /\ Program!Pending(r)
             /\ speech[r[2]] = StageOf(r)
             /\ Speaks(r[2])
  <2>1. r[2] \in Tasks /\ r = <<r[1], r[2]>> /\ r[1] \in {"voice", "player"}
    BY DEF Programs
  <2>2. Program!Pending(r) /\ speech[r[2]] = StageOf(r)
    BY <1>1 DEF Heard, VoiceInv, ProgramsAreAwaited
  <2>3. stage[r[2]] = "playing"
    BY <2>1, <2>2 DEF VoiceInv, SpeechIsTimely, StageOf
  <2> QED BY <2>1, <2>2, <2>3 DEF VoiceInv, PlayersRun, Speaks
<1>2. ASSUME NEW q \in Programs, NEW r \in Programs, Heard(q), Heard(r) PROVE q = r
  <2>1. Speaks(q[2]) /\ Speaks(r[2]) /\ q[2] \in Tasks /\ r[2] \in Tasks
    BY <1>1, <1>2
  <2>2. q[2] = r[2]
    <3>1. ChainOrder
      BY DEF VoiceInv, TurnInv, IInv
    <3>2. ~(q[2] < r[2]) /\ ~(r[2] < q[2])
      BY <2>1, <3>1 DEF ChainOrder, Speaks
    <3> QED BY <2>1, <3>2, MaxTasksIsNat DEF Tasks, MaxTasksIsNat
  <2>3. StageOf(q) = StageOf(r)
    BY <1>1, <1>2, <2>2
  <2>4. q[1] = r[1]
    BY <1>1, <1>2, <2>3 DEF StageOf
  <2> QED BY <1>1, <1>2, <2>2, <2>4
<1>3. active = None => \A r \in Programs : ~Heard(r)
  BY <1>1 DEF VoiceInv, TurnInv, IInv, IdleIsSilent, Speaks
<1>4. ASSUME NEW r \in Programs, Heard(r), Unwanted(r[2]) PROVE run[r].told # "nothing"
  <2>1. aborted[r[2]]
    BY <1>1, <1>4 DEF Unwanted, VoiceInv, TurnInv, IInv, LatestWins, ClosedIsMuted,
       SealedTurnIsMuted, Speaks
  <2> QED BY <1>1, <1>4, <2>1 DEF VoiceInv, ProgramsAreAwaited
<1> QED BY <1>2, <1>3, <1>4 DEF OneVoice

-----------------------------------------------------------------------------
(* That invariant is kept.                                                  *)

\* A task starts to play when it runs, and settles after it said that it is over.
LEMMA PlayersRunKept ==
  ASSUME TurnInv, PlayersRun, [TurnNext]_allVars
  PROVE  PlayersRun'
<1>0. stage \in [Tasks -> {"pacing", "playing", "closing"}]
  BY DEF TurnInv, TurnTypeOK
<1> SUFFICES ASSUME NEW t \in Tasks, stage'[t] = "playing" PROVE phase'[t] = "running"
  BY DEF PlayersRun
<1>1. CASE stage[t] = "playing"
  <2>1. Speaks(t)
    BY <1>1 DEF PlayersRun, Speaks
  <2>2. ~SpeechEnds(t)
    BY <1>0 DEF SpeechEnds
  <2> QED BY <2>1, <2>2, SpeakersGoOn DEF Speaks
<1>2. CASE stage[t] # "playing"
  <2>1. PICK s \in Tasks : SpeechStarts(s) \/ SpeechRefused(s) \/ SpeechEnds(s)
    BY <1>2 DEF TurnNext, Turn, CreateSession, StartByButton, StartByStream,
       CommitResult, Silence, Terminate, ResultWritten, Output, RunOutput,
       SpeechSettles, Shutdown, AwaitSilence, turnVars, allVars
  <2>2. s = t /\ SpeechStarts(s)
    BY <1>0, <1>2, <2>1 DEF SpeechStarts, SpeechRefused, SpeechEnds
  <2> QED BY <2>2 DEF SpeechStarts, vars
<1> QED BY <1>1, <1>2

\* Only the task itself says that it is over.
LEMMA TurnStepKeepsPlaying ==
  ASSUME TurnInv, TurnStep, NEW t \in Tasks, stage[t] = "playing"
  PROVE  stage'[t] = "playing"
<1>0. stage \in [Tasks -> {"pacing", "playing", "closing"}]
  BY DEF TurnInv, TurnTypeOK
<1>1. stage' = stage \/ \E s \in Tasks : SpeechStarts(s) \/ SpeechRefused(s)
  BY DEF TurnStep, OutputStep, Turn, CreateSession, StartByButton, StartByStream,
     CommitResult, Silence, Terminate, ResultWritten, RunOutput, SpeechSettles,
     Shutdown, AwaitSilence, turnVars
<1> QED BY <1>0, <1>1 DEF SpeechStarts, SpeechRefused

\* What telling a program to stop makes of its record.
LEMMA TerminatedRuns ==
  ASSUME NEW p \in Program!RunRecords, NEW why \in {"timeout", "abort"}
  PROVE  /\ Program!Terminated(p, why) \in Program!RunRecords
         /\ Program!Terminated(p, why).told # "nothing"
         /\ p.told = "kill" => Program!Terminated(p, why).told = "kill"
         /\ Program!Terminated(p, why).promise = p.promise
         /\ Program!Terminated(p, why).child = p.child
BY DEF Program!RunRecords, Program!Terminated

\* A program that is started, or is not because its signal has aborted.
LEMMA CalledRuns ==
  ASSUME NEW signal \in BOOLEAN, NEW p \in Program!Called(signal)
  PROVE  /\ p \in Program!RunRecords
         /\ p.promise = "pending" => ~signal
         /\ p.child = "running" => p.promise = "pending"
BY DEF Program!Called, Program!NotCalled, Program!RunRecords

\* A run that its caller is done with.
LEMMA ForgottenRuns ==
  ASSUME NEW p \in Program!RunRecords, p.promise # "pending"
  PROVE  /\ Program!Forgotten(p) \in Program!RunRecords
         /\ Program!Forgotten(p).promise # "pending"
         /\ Program!Forgotten(p).child = "running" => Program!Forgotten(p) = p
BY DEF Program!Forgotten, Program!NotCalled, Program!RunRecords

\* What a program and its timers do by themselves.
LEMMA RunEvents ==
  ASSUME SpeechTypeOK, NEW r \in Programs, Program!RunEvent(r)
  PROVE  /\ run' \in [Programs -> Program!RunRecords]
         /\ \A q \in Programs : q # r => run'[q] = run[q]
         /\ run'[r].promise = "pending" => run[r].promise = "pending"
         /\ run[r].told # "nothing" => run'[r].told # "nothing"
         /\ run'[r].child = "running" =>
              /\ run[r].child = "running"
              /\ run[r].told = "kill" => run'[r].told = "kill"
              /\ \/ run'[r].promise = run[r].promise
                 \/ r[1] = "voice" /\ run'[r].promise = "rejected" /\ run'[r].told = "kill"
<1>0. run[r] \in Program!RunRecords /\ run \in [Programs -> Program!RunRecords]
  BY DEF SpeechTypeOK
<1>1. CASE Program!TimeIsUp(r)
  <2>1. run' = [run EXCEPT ![r] = Program!Terminated(run[r], "timeout")]
    BY <1>1 DEF Program!TimeIsUp, Program!Becomes
  <2> QED BY <1>0, <2>1, TerminatedRuns
<1>2. CASE Program!ForceKill(r)
  <2>1. run' = [run EXCEPT ![r] = [run[r] EXCEPT !.told = "kill"]]
    BY <1>2 DEF Program!ForceKill, Program!Becomes
  <2> QED BY <1>0, <2>1 DEF Program!RunRecords
<1>3. CASE Program!Exits(r)
  <2>1. PICK how \in {"exited", "broken"} : run' = [run EXCEPT ![r] = [run[r] EXCEPT !.child = how]]
    BY <1>3 DEF Program!Exits, Program!Becomes
  <2> QED BY <1>0, <2>1 DEF Program!RunRecords
<1>4. CASE Program!CloseEvent(r)
  <2>1. PICK promise \in {"resolved", "rejected"} :
          run' = [run EXCEPT ![r] = [run[r] EXCEPT !.child = "gone", !.promise = promise]]
    BY <1>4 DEF Program!CloseEvent, Program!Becomes
  <2> QED BY <1>0, <2>1 DEF Program!RunRecords
<1>5. CASE Program!InputBreaks(r)
  <2>1. /\ r[1] = "voice"
        /\ run' = [run EXCEPT ![r] = [run[r] EXCEPT !.told = "kill", !.promise = "rejected"]]
    BY <1>5 DEF Program!InputBreaks, Program!Becomes
  <2> QED BY <1>0, <2>1 DEF Program!RunRecords
<1> QED BY <1>1, <1>2, <1>3, <1>4, <1>5 DEF Program!RunEvent

\* What the invariant says beyond the turns.
ProgramInv == SpeechTypeOK /\ SpeechIsTimely /\ ProgramsAreAwaited

\* The turns change no program but by aborting it, and it hears of that.
LEMMA TurnStepKeepsPrograms ==
  ASSUME VoiceInv, TurnStep
  PROVE  ProgramInv'
<1>0. /\ SpeechTypeOK /\ SpeechIsTimely /\ ProgramsAreAwaited /\ TurnInv
      /\ speech' = speech /\ provider' = provider /\ AbortsReachPrograms
  BY DEF VoiceInv, TurnStep
<1>1. ASSUME NEW r \in Programs
      PROVE  /\ run'[r] \in Program!RunRecords
             /\ run'[r].promise = run[r].promise /\ run'[r].child = run[r].child
             /\ run[r].told # "nothing" => run'[r].told # "nothing"
             /\ run[r].told = "kill" => run'[r].told = "kill"
             /\ Program!Pending(r) /\ aborted'[r[2]] => run'[r].told # "nothing"
  <2>0. run[r] \in Program!RunRecords
    BY <1>0 DEF SpeechTypeOK
  <2>1. CASE aborted'[r[2]] /\ ~aborted[r[2]]
    <3>1. run'[r] = Program!Aborted(run[r])
      BY <1>0, <2>1 DEF AbortsReachPrograms
    <3>2. CASE Program!Pending(r)
      <4>1. run'[r] = Program!Terminated(run[r], "abort")
        BY <3>1, <3>2 DEF Program!Aborted, Program!Pending
      <4> QED BY <2>0, <4>1, TerminatedRuns
    <3>3. CASE ~Program!Pending(r)
      <4>1. run'[r] = run[r]
        BY <3>1, <3>3 DEF Program!Aborted, Program!Pending
      <4> QED BY <2>0, <3>3, <4>1
    <3> QED BY <3>2, <3>3
  <2>2. CASE ~(aborted'[r[2]] /\ ~aborted[r[2]])
    <3>1. run'[r] = run[r]
      BY <1>0, <2>2 DEF AbortsReachPrograms
    <3> QED BY <1>0, <2>0, <2>2, <3>1 DEF ProgramsAreAwaited
  <2> QED BY <2>1, <2>2
<1>2. SpeechTypeOK'
  BY <1>0, <1>1 DEF SpeechTypeOK, AbortsReachPrograms
<1>3. SpeechIsTimely'
  BY <1>0, TurnStepKeepsPlaying DEF VoiceInv, SpeechIsTimely
<1>4. ASSUME NEW r \in Programs
      PROVE  /\ Program!Pending(r)' => speech'[r[2]] = StageOf(r)
             /\ Program!Alive(r)' => Program!Pending(r)' \/ GivenUp(r)'
             /\ Program!Pending(r)' /\ aborted'[r[2]] => run'[r].told # "nothing"
  BY <1>0, <1>1 DEF ProgramsAreAwaited, Program!Pending, Program!Alive, GivenUp,
     Program!Settled
<1>5. ProgramsAreAwaited'
  BY <1>4 DEF ProgramsAreAwaited, StageOf
<1> QED BY <1>2, <1>3, <1>5 DEF ProgramInv

\* A program that acts by itself stays the one that is waited for.
LEMMA ProgramEventKeepsPrograms ==
  ASSUME VoiceInv, NEW r \in Programs, ProgramEvent(r)
  PROVE  ProgramInv'
<1>0. /\ SpeechTypeOK /\ SpeechIsTimely /\ ProgramsAreAwaited
      /\ speech' = speech /\ provider' = provider /\ stage' = stage /\ aborted' = aborted
      /\ Program!RunEvent(r)
  BY DEF VoiceInv, ProgramEvent, allVars, vars, turnVars
<1>1. SpeechTypeOK'
  BY <1>0, RunEvents DEF SpeechTypeOK
<1>2. SpeechIsTimely'
  BY <1>0 DEF SpeechIsTimely
<1>3. ASSUME NEW q \in Programs
      PROVE  /\ Program!Pending(q)' => speech'[q[2]] = StageOf(q)
             /\ Program!Alive(q)' => Program!Pending(q)' \/ GivenUp(q)'
             /\ Program!Pending(q)' /\ aborted'[q[2]] => run'[q].told # "nothing"
  <2>1. CASE q # r
    <3>1. run'[q] = run[q]
      BY <1>0, <2>1, RunEvents
    <3> QED BY <1>0, <3>1 DEF ProgramsAreAwaited, Program!Pending, Program!Alive, GivenUp,
              Program!Settled
  <2>2. CASE q = r
    <3>1. Program!Pending(q)' => speech'[q[2]] = StageOf(q)
      BY <1>0, <2>2, RunEvents DEF ProgramsAreAwaited, Program!Pending
    <3>2. Program!Pending(q)' /\ aborted'[q[2]] => run'[q].told # "nothing"
      BY <1>0, <2>2, RunEvents DEF ProgramsAreAwaited, Program!Pending
    <3>3. Program!Alive(q)' => Program!Pending(q)' \/ GivenUp(q)'
      BY <1>0, <2>2, RunEvents DEF ProgramsAreAwaited, Program!Pending, Program!Alive,
         GivenUp, Program!Settled
    <3> QED BY <3>1, <3>2, <3>3
  <2> QED BY <2>1, <2>2
<1>4. ProgramsAreAwaited'
  BY <1>3 DEF ProgramsAreAwaited, StageOf
<1> QED BY <1>1, <1>2, <1>4 DEF ProgramInv

\* A program's part of the invariant, when its task is at that stage.
AwaitedAt(q, at) ==
  /\ Program!Pending(q) => at = StageOf(q)
  /\ Program!Alive(q) => Program!Pending(q) \/ GivenUp(q)
  /\ Program!Pending(q) /\ aborted[q[2]] => run[q].told # "nothing"

\* A task that goes on with its speech concerns its own programs only.
LEMMA OneTaskSpeaks ==
  ASSUME VoiceInv, NEW t \in Tasks, NEW to \in SpeechStages,
         speech' = [speech EXCEPT ![t] = to], provider' = provider, UNCHANGED allVars,
         to \in {"making", "playing", "cleaning"} => stage[t] = "playing",
         run' \in [Programs -> Program!RunRecords],
         \A q \in Programs : q[2] # t => run'[q] = run[q],
         \A q \in Programs : q[2] = t => AwaitedAt(q, to)'
  PROVE  ProgramInv'
<1>0. /\ SpeechTypeOK /\ SpeechIsTimely /\ ProgramsAreAwaited
      /\ stage' = stage /\ aborted' = aborted
  BY DEF VoiceInv, allVars, vars, turnVars
<1>1. SpeechTypeOK'
  BY <1>0 DEF SpeechTypeOK
<1>2. SpeechIsTimely'
  BY <1>0 DEF SpeechIsTimely, SpeechTypeOK
<1>3. ASSUME NEW q \in Programs
      PROVE  /\ Program!Pending(q)' => speech'[q[2]] = StageOf(q)
             /\ Program!Alive(q)' => Program!Pending(q)' \/ GivenUp(q)'
             /\ Program!Pending(q)' /\ aborted'[q[2]] => run'[q].told # "nothing"
  <2>1. CASE q[2] # t
    <3>1. run'[q] = run[q] /\ speech'[q[2]] = speech[q[2]]
      BY <1>0, <2>1 DEF SpeechTypeOK, Programs
    <3> QED BY <1>0, <3>1 DEF ProgramsAreAwaited, Program!Pending, Program!Alive, GivenUp,
              Program!Settled
  <2>2. CASE q[2] = t
    <3>1. AwaitedAt(q, to)'
      BY <2>2
    <3>2. speech'[q[2]] = to
      BY <1>0, <2>2 DEF SpeechTypeOK
    <3> QED BY <3>1, <3>2 DEF AwaitedAt, StageOf
  <2> QED BY <2>1, <2>2
<1>4. ProgramsAreAwaited'
  BY <1>3 DEF ProgramsAreAwaited, StageOf
<1> QED BY <1>1, <1>2, <1>4 DEF ProgramInv

\* A task has two programs.
LEMMA ProgramsOfTask ==
  ASSUME NEW t \in Tasks
  PROVE  /\ Voice(t) \in Programs /\ Player(t) \in Programs /\ Voice(t) # Player(t)
         /\ Voice(t)[2] = t /\ Player(t)[2] = t
         /\ StageOf(Voice(t)) = "making" /\ StageOf(Player(t)) = "playing"
         /\ \A q \in Programs : q[2] = t => q = Voice(t) \/ q = Player(t)
BY DEF Voice, Player, Programs, StageOf

\* A program that is not pending keeps its part of the invariant wherever its task goes.
LEMMA IdleIsAwaited ==
  ASSUME VoiceInv, NEW q \in Programs, ~Program!Pending(q), NEW at, run'[q] = run[q]
  PROVE  AwaitedAt(q, at)'
<1>1. Program!Alive(q) => GivenUp(q)
  BY DEF VoiceInv, ProgramsAreAwaited
<1> QED BY <1>1 DEF AwaitedAt, Program!Pending, Program!Alive, GivenUp, Program!Settled

\* So does one that its caller is done with.
LEMMA ForgottenIsAwaited ==
  ASSUME VoiceInv, NEW q \in Programs, ~Program!Pending(q), NEW at,
         run'[q] = Program!Forgotten(run[q])
  PROVE  AwaitedAt(q, at)'
<1>1. Program!Alive(q) => GivenUp(q)
  BY DEF VoiceInv, ProgramsAreAwaited
<1>2. run[q] \in Program!RunRecords /\ run[q].promise # "pending"
  BY DEF VoiceInv, SpeechTypeOK, Program!Pending
<1>3. /\ run'[q].promise # "pending"
      /\ run'[q].child = "running" => run'[q] = run[q]
  BY <1>2, ForgottenRuns
<1> QED BY <1>1, <1>3 DEF AwaitedAt, Program!Pending, Program!Alive, GivenUp, Program!Settled

\* And one that is called by its task, whose signal it is given.
LEMMA CalledIsAwaited ==
  ASSUME VoiceInv, NEW q \in Programs, NEW p \in Program!Called(aborted[q[2]]),
         run'[q] = p, aborted' = aborted
  PROVE  AwaitedAt(q, StageOf(q))' /\ p \in Program!RunRecords
<1>1. aborted[q[2]] \in BOOLEAN
  BY DEF VoiceInv, TurnInv, IInv, TypeOK, Programs
<1>2. /\ p \in Program!RunRecords
      /\ p.promise = "pending" => ~aborted[q[2]]
      /\ p.child = "running" => p.promise = "pending"
  BY <1>1, CalledRuns
<1> QED BY <1>2 DEF AwaitedAt, Program!Pending, Program!Alive, StageOf

\* speakLocalResult keeps it, step by step.
LEMMA SpeakKeepsPrograms ==
  ASSUME VoiceInv, NEW t \in Tasks, Speak(t)
  PROVE  ProgramInv'
<1> DEFINE V == Voice(t)
           P == Player(t)
<1>0. /\ run \in [Programs -> Program!RunRecords] /\ speech \in [Tasks -> SpeechStages]
      /\ speech[t] \in {"making", "playing", "cleaning"} => stage[t] = "playing"
      /\ Program!Pending(V) => speech[t] = "making"
      /\ Program!Pending(P) => speech[t] = "playing"
  BY ProgramsOfTask DEF VoiceInv, SpeechTypeOK, SpeechIsTimely, ProgramsAreAwaited
<1>1. /\ V \in Programs /\ P \in Programs /\ V # P /\ V[2] = t /\ P[2] = t
      /\ StageOf(V) = "making" /\ StageOf(P) = "playing"
      /\ \A q \in Programs : q[2] = t => q = V \/ q = P
  BY ProgramsOfTask
<1>2. UNCHANGED allVars
  BY DEF Speak, PlaysClip, MakesSpeech, NothingToPlay, VoiceAwaited, PlayerAwaited,
     VoiceRemoved
<1>3. aborted' = aborted
  BY <1>2 DEF allVars, vars
<1> HIDE DEF V, P
\* It is enough to look at the two programs of the task.
<1>4. ASSUME NEW to \in SpeechStages, speech' = [speech EXCEPT ![t] = to],
             provider' = provider,
             to \in {"making", "playing", "cleaning"} => stage[t] = "playing",
             NEW v \in Program!RunRecords, NEW p \in Program!RunRecords,
             run' = [run EXCEPT ![V] = v, ![P] = p],
             AwaitedAt(V, to)', AwaitedAt(P, to)'
      PROVE  ProgramInv'
  <2>1. run' \in [Programs -> Program!RunRecords]
    BY <1>0, <1>1, <1>4
  <2>2. \A q \in Programs : q[2] # t => run'[q] = run[q]
    BY <1>0, <1>1, <1>4
  <2>3. \A q \in Programs : q[2] = t => AwaitedAt(q, to)'
    BY <1>1, <1>4
  <2> QED BY <1>2, <1>4, <2>1, <2>2, <2>3, OneTaskSpeaks
<1>5. run[V] \in Program!RunRecords /\ run[P] \in Program!RunRecords
  BY <1>0, <1>1
<1>6. CASE PlaysClip(t)
  <2>1. speech[t] = "none" /\ stage[t] = "playing" /\ provider' = provider
        /\ speech' = [speech EXCEPT ![t] = "playing"]
    BY <1>6 DEF PlaysClip, Uncalled, Plays, SpeechGoes
  <2>2. PICK p \in Program!Called(aborted[t]) : run' = [run EXCEPT ![P] = p]
    BY <1>6 DEF PlaysClip, Plays, P
  <2>3. run'[V] = run[V] /\ run'[P] = p
    BY <1>0, <1>1, <2>2
  <2>4. AwaitedAt(P, "playing")' /\ p \in Program!RunRecords
    BY <1>1, <1>3, <2>3, CalledIsAwaited
  <2>5. AwaitedAt(V, "playing")'
    BY <1>0, <1>1, <2>1, <2>3, IdleIsAwaited
  <2>6. run' = [run EXCEPT ![V] = run[V], ![P] = p]
    BY <1>0, <1>1, <2>2
  <2> QED BY <1>4, <1>5, <2>1, <2>4, <2>5, <2>6 DEF SpeechStages
<1>7. CASE MakesSpeech(t)
  <2>1. speech[t] = "none" /\ stage[t] = "playing" /\ provider' = provider
        /\ speech' = [speech EXCEPT ![t] = "making"]
    BY <1>7 DEF MakesSpeech, Uncalled, SpeechGoes
  <2>2. PICK v \in Program!Called(aborted[t]) : run' = [run EXCEPT ![V] = v]
    BY <1>7 DEF MakesSpeech, Program!Becomes, V
  <2>3. run'[P] = run[P] /\ run'[V] = v
    BY <1>0, <1>1, <2>2
  <2>4. AwaitedAt(V, "making")' /\ v \in Program!RunRecords
    BY <1>1, <1>3, <2>3, CalledIsAwaited
  <2>5. AwaitedAt(P, "making")'
    BY <1>0, <1>1, <2>1, <2>3, IdleIsAwaited
  <2>6. run' = [run EXCEPT ![V] = v, ![P] = run[P]]
    BY <1>0, <1>1, <2>2
  <2> QED BY <1>4, <1>5, <2>1, <2>4, <2>5, <2>6 DEF SpeechStages
<1>8. CASE NothingToPlay(t) \/ VoiceRemoved(t)
  <2>1. speech[t] \in {"none", "cleaning"} /\ provider' = provider /\ run' = run
        /\ speech' = [speech EXCEPT ![t] = "over"]
    BY <1>8 DEF NothingToPlay, VoiceRemoved, Uncalled, SpeechGoes
  <2>2. AwaitedAt(V, "over")' /\ AwaitedAt(P, "over")'
    BY <1>0, <1>1, <2>1, IdleIsAwaited
  <2>3. run' = [run EXCEPT ![V] = run[V], ![P] = run[P]]
    BY <1>0, <1>1, <2>1
  <2> QED BY <1>4, <1>5, <2>1, <2>2, <2>3 DEF SpeechStages
<1>9. CASE VoiceAwaited(t)
  <2> DEFINE runs == [run EXCEPT ![V] = Program!Forgotten(run[V])]
  <2>1. /\ speech[t] = "making" /\ provider' = provider /\ ~Program!Pending(V)
        /\ \/ /\ speech' = [speech EXCEPT ![t] = "playing"]
              /\ \E p \in Program!Called(aborted[t]) : run' = [runs EXCEPT ![P] = p]
           \/ speech' = [speech EXCEPT ![t] = "cleaning"] /\ run' = runs
    BY <1>9 DEF VoiceAwaited, Plays, SpeechGoes, Program!Settled, Program!Pending, V, P
  <2>2. Program!Forgotten(run[V]) \in Program!RunRecords
    BY <1>5, <2>1, ForgottenRuns DEF Program!Pending
  <2>3. CASE /\ speech' = [speech EXCEPT ![t] = "playing"]
             /\ \E p \in Program!Called(aborted[t]) : run' = [runs EXCEPT ![P] = p]
    <3>1. PICK p \in Program!Called(aborted[t]) : run' = [runs EXCEPT ![P] = p]
      BY <2>3
    <3>2. run'[V] = Program!Forgotten(run[V]) /\ run'[P] = p
      BY <1>0, <1>1, <3>1
    <3>3. AwaitedAt(P, "playing")' /\ p \in Program!RunRecords
      BY <1>1, <1>3, <3>2, CalledIsAwaited
    <3>4. AwaitedAt(V, "playing")'
      BY <1>1, <2>1, <3>2, ForgottenIsAwaited
    <3>5. run' = [run EXCEPT ![V] = Program!Forgotten(run[V]), ![P] = p]
      BY <3>1
    <3> QED BY <1>0, <1>4, <2>1, <2>2, <2>3, <3>3, <3>4, <3>5 DEF SpeechStages
  <2>4. CASE speech' = [speech EXCEPT ![t] = "cleaning"] /\ run' = runs
    <3>1. run'[V] = Program!Forgotten(run[V]) /\ run'[P] = run[P]
      BY <1>0, <1>1, <2>4
    <3>2. AwaitedAt(P, "cleaning")'
      BY <1>0, <1>1, <2>1, <3>1, IdleIsAwaited
    <3>3. AwaitedAt(V, "cleaning")'
      BY <1>1, <2>1, <3>1, ForgottenIsAwaited
    <3>4. run' = [run EXCEPT ![V] = Program!Forgotten(run[V]), ![P] = run[P]]
      BY <1>0, <1>1, <2>4
    <3> QED BY <1>0, <1>4, <1>5, <2>1, <2>2, <2>4, <3>2, <3>3, <3>4 DEF SpeechStages
  <2> QED BY <2>1, <2>3, <2>4
<1>10. CASE PlayerAwaited(t)
  <2>1. PICK to \in {"cleaning", "over"} : speech' = [speech EXCEPT ![t] = to]
    BY <1>10 DEF PlayerAwaited, SpeechGoes
  <2>2. /\ speech[t] = "playing" /\ provider' = provider /\ ~Program!Pending(P)
        /\ run' = [run EXCEPT ![P] = Program!Forgotten(run[P])]
    BY <1>10 DEF PlayerAwaited, SpeechGoes, Program!Settled, Program!Pending,
       Program!Forgets, Program!Becomes, P
  <2>3. Program!Forgotten(run[P]) \in Program!RunRecords
    BY <1>5, <2>2, ForgottenRuns DEF Program!Pending
  <2>4. run'[P] = Program!Forgotten(run[P]) /\ run'[V] = run[V]
    BY <1>0, <1>1, <2>2
  <2>5. AwaitedAt(V, to)'
    BY <1>0, <1>1, <2>2, <2>4, IdleIsAwaited
  <2>6. AwaitedAt(P, to)'
    BY <1>1, <2>2, <2>4, ForgottenIsAwaited
  <2>7. run' = [run EXCEPT ![V] = run[V], ![P] = Program!Forgotten(run[P])]
    BY <1>0, <1>1, <2>2
  <2>8. to \in SpeechStages /\ stage[t] = "playing"
    BY <1>0, <2>2 DEF SpeechStages
  <2> QED BY <1>4, <1>5, <2>1, <2>2, <2>3, <2>5, <2>6, <2>7, <2>8
<1> QED BY <1>6, <1>7, <1>8, <1>9, <1>10 DEF Speak

\* The task says that it is over when its speech is.
LEMMA ReturnKeepsPrograms ==
  ASSUME VoiceInv, NEW t \in Tasks, SpeechReturns(t)
  PROVE  ProgramInv'
<1>1. /\ SpeechTypeOK /\ SpeechIsTimely /\ ProgramsAreAwaited
      /\ stage \in [Tasks -> {"pacing", "playing", "closing"}]
      /\ speech' = speech /\ provider' = provider /\ run' = run /\ aborted' = aborted
      /\ speech[t] = "over" /\ stage' = [stage EXCEPT ![t] = "closing"]
  BY DEF VoiceInv, TurnInv, TurnTypeOK, SpeechReturns, SpeechEnds, ownVars, vars
<1>2. SpeechTypeOK'
  BY <1>1 DEF SpeechTypeOK
<1>3. SpeechIsTimely'
  BY <1>1 DEF SpeechIsTimely
<1>4. ProgramsAreAwaited'
  BY <1>1 DEF ProgramsAreAwaited, Program!Pending, Program!Alive, GivenUp, Program!Settled,
     StageOf
<1> QED BY <1>2, <1>3, <1>4 DEF ProgramInv

-----------------------------------------------------------------------------
\* What speaks a result implements what a turn is said to do, so that all of the
\* above holds of it.
THEOREM SpeechImplementsTurns == SpeechSpec => TurnInit /\ [][TurnNext]_allVars
<1>1. SpeechInit => TurnInit
  BY DEF SpeechInit
<1> QED BY <1>1, SpeechStepsAreTurns, PTL DEF SpeechSpec

\* Turns, tasks and programs together keep their invariant.
THEOREM VoiceInvariance == SpeechSpec => []VoiceInv
<1>1. SpeechInit => VoiceInv
  <2> SUFFICES ASSUME SpeechInit PROVE VoiceInv
    OBVIOUS
  <2>1. TurnInv
    BY InitTurnInv DEF SpeechInit
  <2>2. SpeechTypeOK
    BY DEF SpeechInit, SpeechTypeOK, SpeechStages, Program!Init, Program!NotCalled,
       Program!RunRecords
  <2>3. PlayersRun /\ SpeechIsTimely
    BY DEF SpeechInit, TurnInit, PlayersRun, SpeechIsTimely
  <2>4. ProgramsAreAwaited
    BY DEF SpeechInit, ProgramsAreAwaited, Program!Init, Program!NotCalled,
       Program!Pending, Program!Alive
  <2> QED BY <2>1, <2>2, <2>3, <2>4 DEF VoiceInv
<1>2. VoiceInv /\ [SpeechNext]_speechVars => VoiceInv'
  <2> SUFFICES ASSUME VoiceInv, [SpeechNext]_speechVars PROVE VoiceInv'
    OBVIOUS
  <2>1. TurnInv' /\ PlayersRun'
    BY SpeechStepsAreTurns, NextTurnInv, PlayersRunKept DEF VoiceInv
  <2>2. CASE UNCHANGED speechVars
    BY <2>1, <2>2 DEF speechVars, ownVars, allVars, vars, turnVars, VoiceInv, SpeechTypeOK,
       SpeechIsTimely, ProgramsAreAwaited, Program!Pending, Program!Alive, GivenUp,
       Program!Settled, StageOf
  <2>3. CASE SpeechNext
    <3>1. ProgramInv'
      BY <2>3, TurnStepKeepsPrograms, SpeakKeepsPrograms, ReturnKeepsPrograms,
         ProgramEventKeepsPrograms DEF SpeechNext
    <3> QED BY <2>1, <3>1 DEF VoiceInv, ProgramInv
  <2> QED BY <2>2, <2>3
<1> QED BY <1>1, <1>2, PTL DEF SpeechSpec

\* At most one program is heard on the machine, none when the slot reads idle, and
\* what is not wanted any more has been told to stop, for any number of sessions.
THEOREM OneVoiceIsHeard == SpeechSpec => []OneVoice
BY VoiceInvariance, OneVoiceFollows, PTL

\* What was proved of the turns holds when their results are spoken by programs.
THEOREM SpokenTurnsKeep ==
  SpeechSpec => [](OneSpokenTurn /\ SealedTurnIsMuted) /\ ImplementsSlot
<1>1. VoiceInv => OneSpokenTurn /\ SealedTurnIsMuted
  BY OneTurnFollows DEF VoiceInv, TurnInv
<1>2. VoiceInv /\ [SpeechNext]_speechVars => IInv /\ IInv' /\ [Next]_vars
  BY SpeechStepsAreTurns, TurnsDriveTheScheduler, NextIInv DEF VoiceInv, TurnInv
<1>3. SpeechInit => Slot!Init
  BY TurnsStartSilent DEF SpeechInit
<1> QED
  BY <1>1, <1>2, <1>3, VoiceInvariance, StepRefines, PTL
     DEF SpeechSpec, ImplementsSlot, Slot!Spec
=============================================================================
