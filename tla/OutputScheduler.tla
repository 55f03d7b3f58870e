--------------------------- MODULE OutputScheduler ---------------------------
(***************************************************************************)
(* The server's single local output slot.  Tasks are numbered in the order *)
(* in which they were scheduled, so task t's predecessor (the tail of the  *)
(* promise chain when t was scheduled) is task t - 1 and the token the     *)
(* code compares is the number itself.                                     *)
(***************************************************************************)
EXTENDS Naturals

CONSTANTS
  Keys,      \* "session:attempt" keys an output belongs to
  NoKey,     \* the key of a task that was not scheduled yet
  MaxTasks,  \* bound: tasks ever scheduled
  Waiters    \* callers of waitForIdle

ASSUME MaxTasksIsNat == MaxTasks \in Nat

Tasks == 1..MaxTasks
None  == 0

VARIABLES
  scheduled,  \* tasks scheduled so far; the last one is the chain's tail
  keyOf,      \* each scheduled task's key
  phase,      \* "new", "waiting" for the predecessor, "running", "settled"
  aborted,    \* each task's abort signal
  active,     \* activeOutput's token, None when the slot is free
  closed,     \* close() was called
  waiting,    \* idle waiters not yet resolved
  resolved    \* idle waiters resolved

vars == <<scheduled, keyOf, phase, aborted, active, closed, waiting, resolved>>

Init ==
  /\ scheduled = 0
  /\ keyOf   = [t \in Tasks |-> NoKey]
  /\ phase   = [t \in Tasks |-> "new"]
  /\ aborted = [t \in Tasks |-> FALSE]
  /\ active  = None
  /\ closed  = FALSE
  /\ waiting = {} /\ resolved = {}

-----------------------------------------------------------------------------
Abort(t) == aborted' = [aborted EXCEPT ![t] = TRUE]

\* The newcomer aborts whatever it replaces.
ReplaceActive == IF active = None THEN UNCHANGED aborted ELSE Abort(active)

\* schedule(key, task): take the slot, chain behind the tail.
Schedule(key) ==
  /\ ~closed
  /\ scheduled < MaxTasks
  /\ keyOf' = [keyOf EXCEPT ![scheduled + 1] = key]
  /\ scheduled' = scheduled + 1
  /\ active' = scheduled + 1
  /\ phase'  = [phase EXCEPT ![scheduled + 1] = "waiting"]
  /\ ReplaceActive
  /\ UNCHANGED <<closed, waiting, resolved>>

PredecessorSettled(t) == t > 1 => phase[t - 1] = "settled"

Begin_EvenAborted(t) ==
  /\ phase[t] = "waiting"
  /\ PredecessorSettled(t)
  /\ phase' = [phase EXCEPT ![t] = "running"]
  /\ UNCHANGED <<scheduled, keyOf, aborted, active, closed, waiting, resolved>>

Begin(t) ==
  /\ phase[t] = "waiting"
  /\ PredecessorSettled(t)
  /\ ~aborted[t]
  /\ phase' = [phase EXCEPT ![t] = "running"]
  /\ UNCHANGED <<scheduled, keyOf, aborted, active, closed, waiting, resolved>>

\* finish(output): only the task that still holds the slot frees it.
Finish(t) ==
  IF active = t
  THEN /\ active' = None
       /\ resolved' = resolved \union waiting
       /\ waiting' = {}
  ELSE UNCHANGED <<active, waiting, resolved>>

\* A cancelled task whose turn comes settles without having run.
Skip(t) ==
  /\ phase[t] = "waiting"
  /\ PredecessorSettled(t)
  /\ aborted[t]
  /\ phase' = [phase EXCEPT ![t] = "settled"]
  /\ Finish(t)
  /\ UNCHANGED <<scheduled, keyOf, aborted, closed>>

\* The running task returns or throws, aborted or not.
Settle(t) ==
  /\ phase[t] = "running"
  /\ phase' = [phase EXCEPT ![t] = "settled"]
  /\ Finish(t)
  /\ UNCHANGED <<scheduled, keyOf, aborted, closed>>

\* cancelActive(): whoever holds the slot is told to stop.
CancelActive ==
  /\ active # None
  /\ ~aborted[active]
  /\ Abort(active)
  /\ UNCHANGED <<scheduled, keyOf, phase, active, closed, waiting, resolved>>

KeyMatches(key) == active # None /\ keyOf[active] = key

\* cancel(key): only if the slot is held on behalf of that key.
Cancel(key) ==
  /\ KeyMatches(key)
  /\ ~aborted[active]
  /\ Abort(active)
  /\ UNCHANGED <<scheduled, keyOf, phase, active, closed, waiting, resolved>>

Close ==
  /\ ~closed
  /\ closed' = TRUE
  /\ ReplaceActive
  /\ UNCHANGED <<scheduled, keyOf, phase, active, waiting, resolved>>

WaitForIdle_Unnoticed(w) ==
  /\ w \notin waiting \union resolved
  /\ IF scheduled = 0
     THEN resolved' = resolved \union {w} /\ UNCHANGED waiting
     ELSE waiting' = waiting \union {w} /\ UNCHANGED resolved
  /\ UNCHANGED <<scheduled, keyOf, phase, aborted, active, closed>>

\* waitForIdle(): resolved at once, or with the task that frees the slot.
WaitForIdle(w) ==
  /\ w \notin waiting \union resolved
  /\ IF active = None
     THEN resolved' = resolved \union {w} /\ UNCHANGED waiting
     ELSE waiting' = waiting \union {w} /\ UNCHANGED resolved
  /\ UNCHANGED <<scheduled, keyOf, phase, aborted, active, closed>>

-----------------------------------------------------------------------------
Run(t) == Begin(t) \/ Skip(t)

Next ==
  \/ \E key \in Keys : Schedule(key) \/ Cancel(key)
  \/ \E t \in Tasks : Run(t) \/ Settle(t)
  \/ CancelActive
  \/ Close
  \/ \E w \in Waiters : WaitForIdle(w)

\* The promise chain always moves on; a player ends once it is told to stop,
\* because a local clip or speech process is killed by its abort signal.
Fairness ==
  /\ \A t \in Tasks : WF_vars(Run(t))
  /\ \A t \in Tasks : WF_vars(aborted[t] /\ Settle(t))

Spec == Init /\ [][Next]_vars /\ Fairness

-----------------------------------------------------------------------------
\* Every variable keeps its type; the slot never names a task that was not asked for.
TypeOK ==
  /\ scheduled \in 0..MaxTasks
  /\ keyOf \in [Tasks -> Keys \union {NoKey}]
  /\ phase \in [Tasks -> {"new", "waiting", "running", "settled"}]
  /\ aborted \in [Tasks -> BOOLEAN]
  /\ active \in 0..MaxTasks
  /\ closed \in BOOLEAN
  /\ waiting \subseteq Waiters /\ resolved \subseteq Waiters

\* Two players never overlap, however often outputs replace one another.
OneSpeaker ==
  \A s, t \in Tasks : phase[s] = "running" /\ phase[t] = "running" => s = t

\* "Idle" is what shutdown waits for: the slot reads free only when nothing is
\* speaking and nothing is queued to speak.
IdleIsSilent == active = None => \A t \in Tasks : phase[t] \in {"new", "settled"}

\* Whatever no longer holds the slot has been told to stop.
LatestWins ==
  \A t \in Tasks : phase[t] \in {"waiting", "running"} /\ t # active => aborted[t]

\* Once closed, nothing new is heard: only what was playing may wind down, and
\* it has been told to stop.
ClosedIsMuted ==
  closed => \A t \in Tasks : phase[t] \in {"waiting", "running"} => aborted[t]

\* Everyone who waits for silence after the scheduler was closed gets it.
ClosedWaitersResolve == \A w \in Waiters : closed /\ w \in waiting ~> w \in resolved

Speaking == {t \in Tasks : phase[t] = "running"}
Eligible == {t \in Tasks : phase[t] = "waiting" /\ ~aborted[t]}
TheOne(S) == IF S = {} THEN None ELSE CHOOSE t \in S : TRUE

Slot == INSTANCE SpeakerSlot
          WITH Outputs <- Tasks, Nothing <- None,
               speaker <- TheOne(Speaking), upNext <- TheOne(Eligible)

\* The promise chain implements the single speaker slot.
ImplementsSlot == Slot!Spec
=============================================================================
