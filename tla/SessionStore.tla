---------------------------- MODULE SessionStore -----------------------------
(***************************************************************************)
(* The server's memory of sessions: how a session is created, how long it  *)
(* is kept, and for how long its identity stays taken once it is gone.     *)
(*                                                                         *)
(* The store is synchronous, but creating a session is not: the route asks *)
(* the store, awaits the receipt file of that identity, and asks again.    *)
(* A restart loses the memory and keeps the files.                         *)
(***************************************************************************)
EXTENDS Integers, FiniteSets

CONSTANTS
  Ids,               \* session identities
  Creators,          \* POST /sessions requests
  MaxSessions,       \* sessions kept in memory
  MaxTombstones,     \* retired identities kept in memory
  IdleTtl,           \* how long an untouched open session is kept
  TerminalRetention, \* how long an untouched ended session is kept
  RetryHorizon,      \* how long a retired identity stays taken
  MaxTime,           \* bound on the clock
  NoId               \* the target of a request that names no identity

ASSUME LimitsArePositive ==
  /\ MaxSessions \in Nat \ {0} /\ MaxTombstones \in Nat \ {0}
  /\ IdleTtl \in Nat \ {0} /\ TerminalRetention \in Nat \ {0}
  /\ RetryHorizon \in Nat /\ RetryHorizon >= 2
  /\ MaxTime \in Nat

ASSUME IdsAreFinite == IsFiniteSet(Ids) /\ NoId \notin Ids

VARIABLES
  now,       \* the store's clock
  memory,    \* the store's maps, see Memory
  left,      \* when the identity last left the memory of this process
  receipt,   \* the attempt in the identity's receipt file, 0 when none
  attempts,  \* attempts created so far, in every process
  pc,        \* where each creation stands
  target     \* the identity it asks for

requestVars == <<pc, target>>
vars == <<now, memory, left, receipt, attempts, requestVars>>

\* The attempt an identity names (0: none), which attempts have ended, when
\* each was last touched, whose input is claimed, and until when a retired
\* identity stays taken (0: it is not).
Memory ==
  [attempt : [Ids -> Nat], ended : SUBSET Ids, touched : [Ids -> Nat],
   claimed : SUBSET Ids, tombstone : [Ids -> Nat]]

EmptyMemory ==
  [attempt |-> [id \in Ids |-> 0], ended |-> {}, touched |-> [id \in Ids |-> 0],
   claimed |-> {}, tombstone |-> [id \in Ids |-> 0]]

-----------------------------------------------------------------------------
(* The store's operations, as functions of its memory m.                   *)

Held(m)       == {id \in Ids : m.attempt[id] # 0}
Tombstones(m) == {id \in Ids : m.tombstone[id] # 0}

TombstonesPruned(m) ==
  [m EXCEPT !.tombstone = [id \in Ids |-> IF now >= @[id] THEN 0 ELSE @[id]]]

Room(m) == MaxTombstones - Cardinality(Tombstones(m))

Dropped(m, S) ==
  [m EXCEPT !.attempt = [id \in Ids |-> IF id \in S THEN 0 ELSE @[id]],
            !.ended   = @ \ S,
            !.touched = [id \in Ids |-> IF id \in S THEN 0 ELSE @[id]],
            !.claimed = @ \ S]

Retire_Forgets(m, S) == Dropped(m, S)

\* tryRetireSession for each identity of S: the session is dropped and the
\* ledger remembers its identity.
Retire(m, S) ==
  [Dropped(m, S) EXCEPT
     !.tombstone = [id \in Ids |-> IF id \in S THEN now + RetryHorizon ELSE @[id]]]

Ttl(m, id) == IF id \in m.ended THEN TerminalRetention ELSE IdleTtl

Expired(m) == {id \in Held(m) : now - m.touched[id] >= Ttl(m, id)}

\* The expired sessions the ledger has room for, first created first.
Retirable(m) ==
  {id \in Expired(m) :
     Cardinality({j \in Expired(m) : m.attempt[j] < m.attempt[id]}) < Room(m)}

\* Every call of the store starts by dropping what has expired.
Pruned(m) == LET p == TombstonesPruned(m) IN Retire(p, Retirable(p))

IsFull(m) == Cardinality(Held(m)) >= MaxSessions

Oldest_OfAny(m, id) ==
  /\ id \in Held(m)
  /\ \A j \in Held(m) : m.attempt[id] <= m.attempt[j]

\* The ended session touched longest ago, the first created among equals.
Oldest(m, id) ==
  /\ id \in Held(m) \intersect m.ended
  /\ \A j \in Held(m) \intersect m.ended :
       \/ m.touched[id] < m.touched[j]
       \/ m.touched[id] = m.touched[j] /\ m.attempt[id] <= m.attempt[j]

\* What has to go to make room for one more session.
Evicted(m) == IF IsFull(m) THEN {id \in Ids : Oldest(m, id)} ELSE {}

CreateOutcome(m, id) ==
  CASE Expired(m) # {} -> "unavailable"
    [] Expired(m) = {} /\ id \in Held(m)       -> "broken"
    [] Expired(m) = {} /\ id \in Tombstones(m) -> "retired"
    [] OTHER ->
         IF IsFull(m) /\ (Evicted(m) = {} \/ Room(m) <= 0)
         THEN "unavailable" ELSE "created"

\* The new record, whose creation event is committed in the same step.
Created(m, id) ==
  [Retire(m, Evicted(m)) EXCEPT !.attempt[id] = attempts + 1,
                                !.touched[id] = now]

-----------------------------------------------------------------------------
\* The store's memory becomes m, and history notes what left it.
Becomes(m) ==
  /\ memory' = m
  /\ left' = [id \in Ids |-> IF id \in Held(memory) \ Held(m)
                             THEN now ELSE left[id]]

Answer(c, outcome) == pc' = [pc EXCEPT ![c] = outcome]

CreateSession(c, id) ==
  LET m == Pruned(memory)
      outcome == CreateOutcome(m, id)
  IN  /\ Answer(c, outcome)
      /\ IF outcome = "created"
         THEN Becomes(Created(m, id)) /\ attempts' = attempts + 1
         ELSE Becomes(m) /\ UNCHANGED attempts

Init ==
  /\ now = 1
  /\ memory   = EmptyMemory
  /\ left     = [id \in Ids |-> 0]
  /\ receipt  = [id \in Ids |-> 0]
  /\ attempts = 0
  /\ pc       = [c \in Creators |-> "idle"]
  /\ target   = [c \in Creators |-> NoId]

\* POST /sessions with an identity: a session that exists is replayed.
Post(c, id) ==
  /\ pc[c] = "idle"
  /\ target' = [target EXCEPT ![c] = id]
  /\ Becomes(Pruned(memory))
  /\ Answer(c, IF id \in Held(memory') THEN "replayed" ELSE "lookup")
  /\ UNCHANGED <<now, receipt, attempts>>

\* POST /sessions without one: the store draws an identity never used before.
PostAnonymous(c) ==
  /\ pc[c] = "idle"
  /\ \E id \in Ids :
       /\ id \notin Held(memory) /\ left[id] = 0 /\ receipt[id] = 0
       /\ \A d \in Creators : target[d] # id
       /\ CreateSession(c, id)
       /\ target' = [target EXCEPT ![c] = id]
  /\ UNCHANGED <<now, receipt>>

ReadReceipt_Ignored(c) ==
  /\ pc[c] = "lookup"
  /\ Answer(c, "absent")
  /\ UNCHANGED <<now, memory, left, receipt, attempts, target>>

\* The identity's receipt file is read: it is there, it is not, or it cannot
\* be read, which refuses the creation.
ReadReceipt(c) ==
  /\ pc[c] = "lookup"
  /\ \/ Answer(c, IF receipt[target[c]] # 0 THEN "found" ELSE "absent")
     \/ Answer(c, "unavailable")
  /\ UNCHANGED <<now, memory, left, receipt, attempts, target>>

FoundReceipt(c) ==
  /\ pc[c] = "found"
  /\ Answer(c, "retired")
  /\ UNCHANGED <<now, memory, left, receipt, attempts, target>>

\* The read resolved without a receipt: ask the store again, then create.
FoundNone_Blindly(c) ==
  /\ pc[c] \in {"absent", "late"}
  /\ CreateSession(c, target[c])
  /\ UNCHANGED <<now, receipt, target>>

FoundNone(c) ==
  /\ pc[c] \in {"absent", "late"}
  /\ IF target[c] \in Held(Pruned(memory))
     THEN /\ Becomes(Pruned(memory))
          /\ Answer(c, "replayed")
          /\ UNCHANGED attempts
     ELSE CreateSession(c, target[c])
  /\ UNCHANGED <<now, receipt, target>>

-----------------------------------------------------------------------------
(* The life of a session in memory.                                        *)

\* An event or an analysis patch touches the session; a result, a silence, a
\* reset or an error ends it.
AddEvent(id) ==
  /\ id \in Held(memory)
  /\ \E ends \in BOOLEAN :
       memory' = [memory EXCEPT !.touched[id] = now,
                                !.ended = IF ends THEN @ \union {id} ELSE @]
  /\ UNCHANGED <<now, left, receipt, attempts, requestVars>>

ClaimInput(id) ==
  /\ id \in Held(memory) \ (memory.ended \union memory.claimed)
  /\ memory' = [memory EXCEPT !.claimed = @ \union {id}]
  /\ UNCHANGED <<now, left, receipt, attempts, requestVars>>

\* Any other route looks a session up.
GetSession ==
  /\ Becomes(Pruned(memory))
  /\ UNCHANGED <<now, receipt, attempts, requestVars>>

\* A queued receipt write of a held session succeeds; one that fails, or that
\* a restart overtakes, never does.
WriteReceipt(id) ==
  /\ id \in Held(memory)
  /\ receipt' = [receipt EXCEPT ![id] = memory.attempt[id]]
  /\ UNCHANGED <<now, memory, left, attempts, requestVars>>

\* Retention by age or by count removes a receipt.
PruneReceipt(id) ==
  /\ receipt[id] # 0
  /\ receipt' = [receipt EXCEPT ![id] = 0]
  /\ UNCHANGED <<now, memory, left, attempts, requestVars>>

\* One unit is the shortest time to live.  A receipt that was read is answered
\* within one unit, though a time to live may end meanwhile.
Tick ==
  /\ now < MaxTime
  /\ \A c \in Creators : pc[c] # "late"
  /\ now' = now + 1
  /\ pc'  = [c \in Creators |-> IF pc[c] = "absent" THEN "late" ELSE pc[c]]
  /\ UNCHANGED <<memory, left, receipt, attempts, target>>

Restart ==
  /\ memory' = EmptyMemory
  /\ left'   = [id \in Ids |-> 0]
  /\ pc' = [c \in Creators |->
              IF pc[c] \in {"lookup", "found", "absent", "late"}
              THEN "lost" ELSE pc[c]]
  /\ UNCHANGED <<now, receipt, attempts, target>>

-----------------------------------------------------------------------------
Create(c) ==
  \/ \E id \in Ids : Post(c, id)
  \/ PostAnonymous(c) \/ ReadReceipt(c) \/ FoundReceipt(c) \/ FoundNone(c)

Session(id) == AddEvent(id) \/ ClaimInput(id) \/ WriteReceipt(id) \/ PruneReceipt(id)

Next ==
  \/ \E c \in Creators : Create(c)
  \/ \E id \in Ids : Session(id)
  \/ GetSession \/ Tick \/ Restart

Spec == Init /\ [][Next]_vars

-----------------------------------------------------------------------------
(* Properties.                                                             *)

\* Every variable keeps its type.
TypeOK ==
  /\ now \in Nat /\ attempts \in Nat
  /\ memory \in Memory
  /\ left \in [Ids -> Nat] /\ receipt \in [Ids -> Nat]
  /\ pc \in [Creators -> {"idle", "lookup", "found", "absent", "late", "created",
                          "replayed", "retired", "unavailable", "broken", "lost"}]
  /\ target \in [Creators -> Ids \union {NoId}]

\* What the store says of a session is said of one it holds: an identity that
\* is retired and later taken again starts without a claim or an ending, and
\* is never both held and retired.
RecordsBelongToHeld ==
  /\ memory.ended \union memory.claimed \subseteq Held(memory)
  /\ Held(memory) \intersect Tombstones(memory) = {}

\* Creations that race through the receipt lookup end with the one session or
\* a typed refusal; none runs into the store's own duplicate check.
CreationsAgree == \A c \in Creators : pc[c] # "broken"

\* Within one process an identity never names a second attempt before its retry
\* horizon has passed, although the session was expired or evicted meanwhile
\* and its ledger may be full.
IdentityIsNotReused ==
  [][\A id \in Ids :
       memory'.attempt[id] \notin {0, memory.attempt[id]}
       => /\ memory.attempt[id] = 0
          /\ left[id] = 0 \/ now >= left[id] + RetryHorizon]_vars

\* Capacity never costs an attempt its life: a session leaves the memory of a
\* running process only when it has ended or has been idle for its whole
\* time to live.
LiveSessionsStay ==
  [][left' # left /\ left' # [id \in Ids |-> 0] =>
       \A id \in Held(memory) \ Held(memory') :
         id \in memory.ended \/ now - memory.touched[id] >= IdleTtl]_vars

\* An identity whose receipt is on disk is not given to another attempt, not
\* even after a restart: a receipt is never overwritten by another attempt's.
ReceiptKeepsItsAttempt ==
  [][\A id \in Ids : receipt[id] # 0 /\ receipt'[id] # 0
       => receipt'[id] = receipt[id]]_vars
=============================================================================
