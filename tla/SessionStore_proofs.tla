------------------------- MODULE SessionStore_proofs -------------------------
(***************************************************************************)
(* For any number of sessions, requests and restarts: an identity never    *)
(* names a second attempt within its retry horizon, racing creations       *)
(* agree, and a receipt is never overwritten by another attempt's.         *)
(*                                                                         *)
(* Expiry, eviction and refusal all do the same kind of thing to the       *)
(* memory: some sessions go, each leaving a tombstone, and tombstones that *)
(* are due go too.  "Forgets" names that, every operation is shown to be   *)
(* one, and each part of the invariant is shown to survive it once.        *)
(*                                                                         *)
(* The second half is about the receipt files themselves, whose writer     *)
(* shares no state with the store.                                         *)
(***************************************************************************)
EXTENDS SessionStore, ReceiptWriter, FiniteSetTheorems, TLAPS

USE LimitsArePositive DEF LimitsArePositive

\* p is m after the sessions of S were retired and due tombstones dropped.
ForgetsAll(m, p, S) ==
  /\ p \in Memory
  /\ S \subseteq Held(m)
  /\ p.ended = m.ended \ S /\ p.claimed = m.claimed \ S
  /\ \A id \in Ids :
       /\ id \in S => p.attempt[id] = 0 /\ p.tombstone[id] = now + RetryHorizon
       /\ id \notin S =>
            /\ p.attempt[id] = m.attempt[id]
            /\ p.tombstone[id] = IF now >= m.tombstone[id] THEN 0 ELSE m.tombstone[id]

Forgets(m, p) == \E S \in SUBSET Ids : ForgetsAll(m, p, S)

-----------------------------------------------------------------------------
(* The inductive invariant.                                                *)

\* The ledger remembers exactly the identities that left less than a horizon ago.
LedgerInv ==
  /\ now \in Nat \ {0}
  /\ \A id \in Ids :
       /\ left[id] <= now
       /\ memory.tombstone[id] # 0
            => left[id] # 0 /\ memory.tombstone[id] = left[id] + RetryHorizon
       /\ left[id] # 0 /\ now < left[id] + RetryHorizon
            => memory.tombstone[id] = left[id] + RetryHorizon

\* A receipt in the file of a held session is that session's.
ReceiptInv ==
  \A id \in Held(memory) : receipt[id] \in {0, memory.attempt[id]}

\* A receipt that is there belongs to a session that is still held, or that
\* left within the last b units of the clock.
Explained(id, b) ==
  receipt[id] # 0 =>
    \/ id \in Held(memory)
    \/ left[id] # 0 /\ now <= left[id] + b

\* What a creation that read no receipt may still assume about it.
ReadsSoundly(c) ==
  /\ pc[c] \in {"lookup", "found", "absent", "late"} => target[c] \in Ids
  /\ pc[c] = "absent" => Explained(target[c], 0)
  /\ pc[c] = "late"   => Explained(target[c], 1)

ReadInv == \A c \in Creators : ReadsSoundly(c)

IInv ==
  /\ TypeOK /\ RecordsBelongToHeld /\ CreationsAgree
  /\ LedgerInv /\ ReceiptInv /\ ReadInv

-----------------------------------------------------------------------------
(* The memory operations.                                                  *)

LEMMA RetireIsTyped ==
  ASSUME NEW m \in Memory, NEW S \in SUBSET Ids, now \in Nat
  PROVE  /\ Retire(m, S) \in Memory
         /\ Retire(m, S).ended = m.ended \ S
         /\ Retire(m, S).claimed = m.claimed \ S
         /\ \A id \in Ids :
              /\ Retire(m, S).attempt[id] = IF id \in S THEN 0 ELSE m.attempt[id]
              /\ Retire(m, S).touched[id] = IF id \in S THEN 0 ELSE m.touched[id]
              /\ Retire(m, S).tombstone[id] =
                   IF id \in S THEN now + RetryHorizon ELSE m.tombstone[id]
<1> DEFINE d == Dropped(m, S)
<1>1. /\ d \in Memory /\ d.ended = m.ended \ S /\ d.claimed = m.claimed \ S
      /\ d.tombstone = m.tombstone
      /\ \A id \in Ids :
           /\ d.attempt[id] = IF id \in S THEN 0 ELSE m.attempt[id]
           /\ d.touched[id] = IF id \in S THEN 0 ELSE m.touched[id]
  BY DEF Dropped, Memory
<1>2. Retire(m, S) = [d EXCEPT !.tombstone =
        [id \in Ids |-> IF id \in S THEN now + RetryHorizon ELSE d.tombstone[id]]]
  BY DEF Retire
<1> HIDE DEF d
<1> DEFINE t == [id \in Ids |-> IF id \in S THEN now + RetryHorizon ELSE d.tombstone[id]]
<1>3. t \in [Ids -> Nat]
  BY <1>1 DEF Memory
<1> HIDE DEF t
<1>4. Retire(m, S) \in Memory /\ Retire(m, S).tombstone = t
      /\ Retire(m, S).ended = d.ended /\ Retire(m, S).claimed = d.claimed
      /\ Retire(m, S).attempt = d.attempt /\ Retire(m, S).touched = d.touched
  BY <1>1, <1>2, <1>3 DEF Memory, t
<1>5. \A id \in Ids : t[id] = IF id \in S THEN now + RetryHorizon ELSE m.tombstone[id]
  BY <1>1 DEF t
<1> QED BY <1>1, <1>4, <1>5

LEMMA PrunedForgets ==
  ASSUME NEW m \in Memory, now \in Nat
  PROVE  /\ Pruned(m) \in Memory
         /\ Forgets(m, Pruned(m))
<1> DEFINE p == TombstonesPruned(m)
<1>1. p \in Memory /\ p.attempt = m.attempt /\ p.ended = m.ended /\ p.claimed = m.claimed
      /\ \A id \in Ids : p.tombstone[id] =
           IF now >= m.tombstone[id] THEN 0 ELSE m.tombstone[id]
  BY SMT DEF TombstonesPruned, Memory
<1>2. Retirable(p) \in SUBSET Ids /\ Retirable(p) \subseteq Held(m)
  BY <1>1 DEF Retirable, Expired, Held
<1>3. Pruned(m) = Retire(p, Retirable(p))
  BY DEF Pruned
<1> HIDE DEF p
<1>4. ForgetsAll(m, Pruned(m), Retirable(p))
  BY <1>1, <1>2, <1>3, RetireIsTyped DEF ForgetsAll
<1> QED BY <1>2, <1>4 DEF Forgets, ForgetsAll

\* Eviction after expiry is one forgetting.
LEMMA EvictedForgets ==
  ASSUME NEW m \in Memory, now \in Nat,
         NEW p, Forgets(m, p), NEW E \in SUBSET Ids, E \subseteq Held(p)
  PROVE  Forgets(m, Retire(p, E))
<1>1. PICK S \in SUBSET Ids : ForgetsAll(m, p, S)
  BY DEF Forgets
<1>2. p \in Memory
  BY <1>1 DEF ForgetsAll
<1>3. ForgetsAll(m, Retire(p, E), S \union E)
  <2>1. S \union E \subseteq Held(m)
    BY <1>1, <1>2 DEF ForgetsAll, Held
  <2>2. \A id \in Ids : m.tombstone[id] \in Nat
    BY DEF Memory
  <2> QED BY <1>1, <1>2, <2>1, <2>2, RetireIsTyped DEF ForgetsAll
<1> QED BY <1>3 DEF Forgets

-----------------------------------------------------------------------------
(* A step that forgets, and may create one session in its place.           *)

LEMMA ForgettingStep ==
  ASSUME IInv, now' = now, receipt' = receipt,
         NEW r, NEW S \in SUBSET Ids, ForgetsAll(memory, r, S),
         left' = [id \in Ids |-> IF id \in S THEN now ELSE left[id]],
         memory' \in Memory,
         memory'.tombstone = r.tombstone,
         memory'.ended = r.ended, memory'.claimed = r.claimed,
         \A id \in Held(r) : memory'.attempt[id] = r.attempt[id],
         \A id \in Held(memory') \ Held(r) : r.tombstone[id] = 0 /\ receipt[id] = 0
  PROVE  /\ left' \in [Ids -> Nat] /\ RecordsBelongToHeld' /\ LedgerInv' /\ ReceiptInv'
         /\ \A id \in Ids, b \in {0, 1} : Explained(id, b) => Explained(id, b)'
<1>1. /\ memory \in Memory /\ r \in Memory /\ now \in Nat \ {0}
      /\ left \in [Ids -> Nat] /\ receipt \in [Ids -> Nat]
  BY DEF IInv, TypeOK, LedgerInv, ForgetsAll
<1>2. left' \in [Ids -> Nat]
  BY <1>1
<1>3. Held(r) = Held(memory) \ S /\ S \subseteq Held(memory)
  BY <1>1 DEF ForgetsAll, Held
<1>4. Held(r) \subseteq Held(memory')
  BY <1>1 DEF Held
<1>5. RecordsBelongToHeld'
  <2>1. memory'.ended \union memory'.claimed \subseteq Held(r)
    BY <1>1, <1>3 DEF IInv, RecordsBelongToHeld, ForgetsAll
  <2>2. Held(r) \intersect Tombstones(r) = {}
    BY <1>1, <1>3 DEF IInv, RecordsBelongToHeld, ForgetsAll, Held, Tombstones, Memory
  <2>3. Tombstones(memory') = Tombstones(r)
    BY DEF Tombstones
  <2>4. (Held(memory') \ Held(r)) \intersect Tombstones(r) = {}
    BY DEF Tombstones
  <2> QED BY <1>4, <2>1, <2>2, <2>3, <2>4 DEF RecordsBelongToHeld
<1>6. LedgerInv'
  <2> SUFFICES ASSUME NEW id \in Ids
               PROVE  /\ left'[id] <= now
                      /\ r.tombstone[id] # 0
                           => left'[id] # 0 /\ r.tombstone[id] = left'[id] + RetryHorizon
                      /\ left'[id] # 0 /\ now < left'[id] + RetryHorizon
                           => r.tombstone[id] = left'[id] + RetryHorizon
    BY <1>1 DEF LedgerInv
  <2>1. CASE id \in S
    BY <1>1, <2>1 DEF ForgetsAll
  <2>2. CASE id \notin S
    <3>1. left'[id] = left[id]
      BY <2>2, <1>1
    <3>2. r.tombstone[id] = IF now >= memory.tombstone[id] THEN 0 ELSE memory.tombstone[id]
      BY <2>2 DEF ForgetsAll
    <3>3. memory.tombstone[id] \in Nat /\ left[id] \in Nat
      BY <1>1 DEF Memory
    <3> QED BY <1>1, <3>1, <3>2, <3>3 DEF IInv, LedgerInv
  <2> QED BY <2>1, <2>2
<1>7. ReceiptInv'
  <2> SUFFICES ASSUME NEW id \in Held(memory')
               PROVE  receipt[id] \in {0, memory'.attempt[id]}
    BY DEF ReceiptInv
  <2>1. CASE id \in Held(r)
    BY <2>1, <1>1, <1>3 DEF IInv, ReceiptInv, ForgetsAll, Held
  <2> QED BY <2>1
<1>8. \A id \in Ids, b \in {0, 1} : Explained(id, b) => Explained(id, b)'
  <2> SUFFICES ASSUME NEW id \in Ids, NEW b \in {0, 1}, Explained(id, b), receipt[id] # 0
               PROVE  \/ id \in Held(memory')
                      \/ left'[id] # 0 /\ now <= left'[id] + b
    BY DEF Explained
  <2>1. CASE id \in S
    BY <2>1, <1>1
  <2>2. CASE id \in Held(memory) \ S
    BY <2>2, <1>3, <1>4
  <2>3. CASE id \notin Held(memory)
    BY <2>3, <1>1, <1>3 DEF Explained
  <2> QED BY <2>1, <2>2, <2>3
<1> QED BY <1>2, <1>5, <1>6, <1>7, <1>8

\* What every step that goes through the store's memory keeps.
Kept ==
  /\ memory' \in Memory /\ left' \in [Ids -> Nat]
  /\ RecordsBelongToHeld' /\ LedgerInv' /\ ReceiptInv'
  /\ \A id \in Ids, b \in {0, 1} : Explained(id, b) => Explained(id, b)'

LEMMA PruneStep ==
  ASSUME IInv, now' = now, receipt' = receipt, Becomes(Pruned(memory))
  PROVE  Kept
<1>1. memory \in Memory /\ now \in Nat
  BY DEF IInv, TypeOK
<1>2. Pruned(memory) \in Memory /\ Forgets(memory, Pruned(memory))
  BY <1>1, PrunedForgets
<1> DEFINE r == Pruned(memory)
<1>3. memory' = r
  BY DEF Becomes
<1>4. left' = [id \in Ids |-> IF id \in Held(memory) \ Held(r) THEN now ELSE left[id]]
  BY DEF Becomes
<1> HIDE DEF r
<1>5. PICK S \in SUBSET Ids : ForgetsAll(memory, r, S)
  BY <1>2 DEF Forgets, r
<1>6. Held(memory) \ Held(r) = S
  BY <1>1, <1>5 DEF ForgetsAll, Held
<1>7. r \in Memory
  BY <1>2 DEF r
<1> QED BY <1>3, <1>4, <1>5, <1>6, <1>7, ForgettingStep DEF Kept

\* Only what the ledger does not remember may be created, and its receipt is
\* not there unless its session is still remembered.
LEMMA RecentIsRemembered ==
  ASSUME IInv, NEW id \in Ids, NEW b \in {0, 1}, Explained(id, b),
         id \notin Held(Pruned(memory)), receipt[id] # 0
  PROVE  id \in Tombstones(Pruned(memory))
<1>1. memory \in Memory /\ now \in Nat \ {0} /\ left \in [Ids -> Nat]
  BY DEF IInv, TypeOK, LedgerInv
<1> DEFINE r == Pruned(memory)
<1>2. PICK S \in SUBSET Ids : ForgetsAll(memory, r, S)
  BY <1>1, PrunedForgets DEF Forgets
<1> HIDE DEF r
<1>3. CASE id \in S
  BY <1>1, <1>2, <1>3 DEF ForgetsAll, Tombstones, r
<1>4. CASE id \notin S
  <2>1. id \notin Held(memory)
    BY <1>2, <1>4 DEF ForgetsAll, Held, r
  <2>2. left[id] # 0 /\ now <= left[id] + b
    BY <2>1 DEF Explained
  <2>3. memory.tombstone[id] = left[id] + RetryHorizon /\ now < left[id] + RetryHorizon
    BY <1>1, <2>2 DEF IInv, LedgerInv
  <2>4. r.tombstone[id] = memory.tombstone[id]
    BY <1>1, <1>2, <1>4, <2>3 DEF ForgetsAll
  <2> QED BY <1>1, <2>2, <2>3, <2>4 DEF Tombstones, r
<1> QED BY <1>3, <1>4

LEMMA EvictedAreHeld ==
  ASSUME NEW m
  PROVE  Evicted(m) \in SUBSET Ids /\ Evicted(m) \subseteq Held(m)
BY DEF Evicted, Oldest, Held

LEMMA CreateOutcomes ==
  ASSUME NEW m, NEW id \in Ids, id \notin Held(m)
  PROVE  /\ CreateOutcome(m, id) \in {"unavailable", "retired", "created"}
         /\ CreateOutcome(m, id) = "created" => id \notin Tombstones(m)
<1>1. CASE Expired(m) # {}
  BY <1>1 DEF CreateOutcome
<1>2. CASE Expired(m) = {} /\ id \in Tombstones(m)
  BY <1>2 DEF CreateOutcome
<1>3. CASE Expired(m) = {} /\ id \notin Tombstones(m)
  BY <1>3 DEF CreateOutcome
<1> QED BY <1>1, <1>2, <1>3

LEMMA CreateStep ==
  ASSUME IInv, now' = now, receipt' = receipt,
         NEW c \in Creators, NEW id \in Ids, id \notin Held(Pruned(memory)),
         receipt[id] = 0 \/ id \in Tombstones(Pruned(memory)),
         CreateSession(c, id)
  PROVE  /\ Kept /\ attempts' \in Nat
         /\ \E o \in {"unavailable", "retired", "created"} : pc' = [pc EXCEPT ![c] = o]
<1> DEFINE p == Pruned(memory)
           outcome == CreateOutcome(p, id)
           r == Retire(p, Evicted(p))
<1>1. memory \in Memory /\ now \in Nat \ {0} /\ attempts \in Nat
  BY DEF IInv, TypeOK, LedgerInv
<1>2. p \in Memory /\ Forgets(memory, p)
  BY <1>1, PrunedForgets
<1>3. outcome \in {"unavailable", "retired", "created"}
      /\ (outcome = "created" => id \notin Tombstones(p))
  BY CreateOutcomes
<1>4. pc' = [pc EXCEPT ![c] = outcome]
  BY DEF CreateSession, Answer
<1>5. CASE outcome # "created"
  <2>1. Becomes(p) /\ attempts' = attempts
    BY <1>5 DEF CreateSession
  <2>2. Kept
    BY <2>1, PruneStep
  <2> QED BY <1>1, <1>3, <1>4, <2>1, <2>2
<1>6. CASE outcome = "created"
  <2>1. Becomes(Created(p, id)) /\ attempts' = attempts + 1
    BY <1>6 DEF CreateSession
  <2>2. Created(p, id) = [r EXCEPT !.attempt[id] = attempts + 1, !.touched[id] = now]
    BY DEF Created
  <2>3. Evicted(p) \in SUBSET Ids /\ Evicted(p) \subseteq Held(p)
    BY EvictedAreHeld
  <2>4. Forgets(memory, r)
    BY <1>1, <1>2, <2>3, EvictedForgets
  <2>5. r \in Memory
    BY <1>1, <1>2, <2>3, RetireIsTyped
  <2>6. id \notin Evicted(p) /\ p.tombstone[id] = 0 /\ p.attempt[id] = 0
    BY <1>3, <1>6, <2>3 DEF Held, Tombstones
  <2>7. r.tombstone[id] = 0 /\ r.attempt[id] = 0
    BY <1>1, <1>2, <2>3, <2>6, RetireIsTyped
  <2>8. receipt[id] = 0
    BY <1>3, <1>6
  <2>9. memory' = [r EXCEPT !.attempt[id] = attempts + 1, !.touched[id] = now]
        /\ left' = [i \in Ids |-> IF i \in Held(memory) \ Held(memory') THEN now ELSE left[i]]
    BY <2>1, <2>2 DEF Becomes
  <2> HIDE DEF p, r, outcome
  <2>10. PICK S \in SUBSET Ids : ForgetsAll(memory, r, S)
    BY <2>4 DEF Forgets
  <2>11. /\ memory' \in Memory /\ memory'.tombstone = r.tombstone
         /\ memory'.ended = r.ended /\ memory'.claimed = r.claimed
         /\ memory'.attempt = [r.attempt EXCEPT ![id] = attempts + 1]
    <3>1. [r.attempt EXCEPT ![id] = attempts + 1] \in [Ids -> Nat]
          /\ [r.touched EXCEPT ![id] = now] \in [Ids -> Nat]
      BY <1>1, <2>5 DEF Memory
    <3> QED BY <2>5, <2>9, <3>1 DEF Memory
  <2>12. Held(memory') = Held(r) \union {id} /\ id \notin Held(r)
    BY <1>1, <2>5, <2>7, <2>11 DEF Held, Memory
  <2>13. \A i \in Held(r) : memory'.attempt[i] = r.attempt[i]
    BY <2>5, <2>11, <2>12 DEF Held, Memory
  <2>14. Held(memory) \ Held(memory') = S
    <3>1. Held(r) = Held(memory) \ S /\ S \subseteq Held(memory)
      BY <1>1, <2>10 DEF ForgetsAll, Held
    <3>2. id \notin S
      BY <1>1, <2>7, <2>10 DEF ForgetsAll
    <3> QED BY <2>12, <3>1, <3>2
  <2>15. \A i \in Held(memory') \ Held(r) : r.tombstone[i] = 0 /\ receipt[i] = 0
    BY <2>7, <2>8, <2>12
  <2>16. Kept
    BY <2>9, <2>10, <2>11, <2>13, <2>14, <2>15, ForgettingStep DEF Kept
  <2>17. attempts' \in Nat
    BY <1>1, <2>1
  <2>18. \E o \in {"unavailable", "retired", "created"} : pc' = [pc EXCEPT ![c] = o]
    BY <1>3, <1>4
  <2> QED BY <2>16, <2>17, <2>18
<1> QED BY <1>5, <1>6

-----------------------------------------------------------------------------
(* Every step keeps the invariant.                                         *)

\* What the requests may look like after a step that answers creation c.
LEMMA AnsweredReads ==
  ASSUME IInv, Kept, now' = now, NEW c \in Creators,
         target' = target \/ \E id \in Ids : target' = [target EXCEPT ![c] = id],
         NEW o, pc' = [pc EXCEPT ![c] = o],
         o \in {"lookup"} => target'[c] \in Ids,
         o \in {"lookup", "created", "replayed", "retired", "unavailable"}
  PROVE  /\ CreationsAgree' /\ ReadInv'
         /\ pc' \in [Creators -> {"idle", "lookup", "found", "absent", "late", "created",
                          "replayed", "retired", "unavailable", "broken", "lost"}]
         /\ target' \in [Creators -> Ids \union {NoId}]
<1>1. /\ pc \in [Creators -> {"idle", "lookup", "found", "absent", "late", "created",
                          "replayed", "retired", "unavailable", "broken", "lost"}]
      /\ target \in [Creators -> Ids \union {NoId}]
  BY DEF IInv, TypeOK
<1>2. CreationsAgree'
  BY <1>1 DEF IInv, CreationsAgree
<1>3. ReadInv'
  <2> SUFFICES ASSUME NEW d \in Creators PROVE ReadsSoundly(d)'
    BY DEF ReadInv
  <2>1. CASE d = c
    BY <1>1, <2>1 DEF ReadsSoundly
  <2>2. CASE d # c
    <3>1. pc'[d] = pc[d] /\ target'[d] = target[d]
      BY <1>1, <2>2
    <3>2. ReadsSoundly(d)
      BY DEF IInv, ReadInv
    <3>3. \A id \in Ids, b \in {0, 1} : Explained(id, b) => Explained(id, b)'
      BY DEF Kept
    <3> QED BY <3>1, <3>2, <3>3 DEF ReadsSoundly, Explained
  <2> QED BY <2>1, <2>2
<1> QED BY <1>1, <1>2, <1>3

\* A creation's steps through the store.
LEMMA StoreCallKeepsIInv ==
  ASSUME IInv, NEW c \in Creators,
         PostAnonymous(c) \/ FoundNone(c) \/ \E id \in Ids : Post(c, id)
  PROVE  IInv'
<1>1. now' = now /\ receipt' = receipt /\ TypeOK
  BY DEF PostAnonymous, FoundNone, Post, IInv
<1>2. CASE PostAnonymous(c)
  <2>1. PICK id \in Ids : /\ id \notin Held(memory) /\ receipt[id] = 0
                          /\ CreateSession(c, id)
                          /\ target' = [target EXCEPT ![c] = id]
    BY <1>2 DEF PostAnonymous
  <2>2. id \notin Held(Pruned(memory))
    <3>1. memory \in Memory /\ now \in Nat
      BY <1>1 DEF TypeOK
    <3> QED BY <2>1, <3>1, PrunedForgets DEF Forgets, ForgetsAll, Held
  <2>3. /\ Kept /\ attempts' \in Nat
        /\ \E o \in {"unavailable", "retired", "created"} : pc' = [pc EXCEPT ![c] = o]
    BY <1>1, <2>1, <2>2, CreateStep
  <2>4. /\ CreationsAgree' /\ ReadInv'
        /\ pc' \in [Creators -> {"idle", "lookup", "found", "absent", "late", "created",
                          "replayed", "retired", "unavailable", "broken", "lost"}]
        /\ target' \in [Creators -> Ids \union {NoId}]
    BY <1>1, <2>1, <2>3, AnsweredReads
  <2> QED BY <1>1, <2>3, <2>4 DEF Kept, IInv, TypeOK
<1>3. CASE FoundNone(c)
  <2>1. /\ pc[c] \in {"absent", "late"} /\ target' = target /\ target[c] \in Ids
    BY <1>3 DEF FoundNone, IInv, ReadInv, ReadsSoundly
  <2>2. CASE target[c] \in Held(Pruned(memory))
    <3>1. Becomes(Pruned(memory)) /\ pc' = [pc EXCEPT ![c] = "replayed"] /\ attempts' = attempts
      BY <1>3, <2>2 DEF FoundNone, Answer
    <3>2. Kept
      BY <1>1, <3>1, PruneStep
    <3>3. /\ CreationsAgree' /\ ReadInv'
          /\ pc' \in [Creators -> {"idle", "lookup", "found", "absent", "late", "created",
                          "replayed", "retired", "unavailable", "broken", "lost"}]
          /\ target' \in [Creators -> Ids \union {NoId}]
      BY <1>1, <2>1, <3>1, <3>2, AnsweredReads
    <3> QED BY <1>1, <3>1, <3>2, <3>3 DEF Kept, IInv, TypeOK
  <2>3. CASE target[c] \notin Held(Pruned(memory))
    <3>1. CreateSession(c, target[c])
      BY <1>3, <2>3 DEF FoundNone
    <3>2. \E b \in {0, 1} : Explained(target[c], b)
      BY <2>1 DEF IInv, ReadInv, ReadsSoundly
    <3>3. receipt[target[c]] = 0 \/ target[c] \in Tombstones(Pruned(memory))
      BY <2>1, <2>3, <3>2, RecentIsRemembered
    <3>4. /\ Kept /\ attempts' \in Nat
          /\ \E o \in {"unavailable", "retired", "created"} : pc' = [pc EXCEPT ![c] = o]
      BY <1>1, <2>1, <2>3, <3>1, <3>3, CreateStep
    <3>5. /\ CreationsAgree' /\ ReadInv'
          /\ pc' \in [Creators -> {"idle", "lookup", "found", "absent", "late", "created",
                          "replayed", "retired", "unavailable", "broken", "lost"}]
          /\ target' \in [Creators -> Ids \union {NoId}]
      BY <1>1, <2>1, <3>4, AnsweredReads
    <3> QED BY <1>1, <3>4, <3>5 DEF Kept, IInv, TypeOK
  <2> QED BY <2>2, <2>3
<1>4. ASSUME NEW id \in Ids, Post(c, id) PROVE IInv'
  <2>1. Kept
    BY <1>1, <1>4, PruneStep DEF Post
  <2>2. PICK o \in {"replayed", "lookup"} : pc' = [pc EXCEPT ![c] = o]
    BY <1>4 DEF Post, Answer
  <2>3. target' = [target EXCEPT ![c] = id] /\ attempts' = attempts
    BY <1>4 DEF Post
  <2>4. target'[c] \in Ids
    BY <1>1, <2>3 DEF TypeOK
  <2>5. /\ CreationsAgree' /\ ReadInv'
        /\ pc' \in [Creators -> {"idle", "lookup", "found", "absent", "late", "created",
                          "replayed", "retired", "unavailable", "broken", "lost"}]
        /\ target' \in [Creators -> Ids \union {NoId}]
    BY <1>1, <2>1, <2>2, <2>3, <2>4, AnsweredReads
  <2> QED BY <1>1, <2>1, <2>3, <2>5 DEF Kept, IInv, TypeOK
<1> QED BY <1>2, <1>3, <1>4

\* A creation's steps that only read.
LEMMA ReadKeepsIInv ==
  ASSUME IInv, NEW c \in Creators, ReadReceipt(c) \/ FoundReceipt(c)
  PROVE  IInv'
<1>1. /\ UNCHANGED <<now, memory, left, receipt, attempts, target>>
      /\ pc[c] \in {"lookup", "found"}
      /\ \E o \in {"found", "absent", "unavailable", "retired"} :
           /\ pc' = [pc EXCEPT ![c] = o]
           /\ o = "absent" => receipt[target[c]] = 0
  BY DEF ReadReceipt, FoundReceipt, Answer
<1>2. PICK o \in {"found", "absent", "unavailable", "retired"} :
           /\ pc' = [pc EXCEPT ![c] = o]
           /\ o = "absent" => receipt[target[c]] = 0
  BY <1>1
<1>3. TypeOK'
  BY <1>1, <1>2 DEF IInv, TypeOK
<1>4. /\ RecordsBelongToHeld' /\ LedgerInv' /\ ReceiptInv'
      /\ \A id \in Ids, b \in {0, 1} : Explained(id, b) => Explained(id, b)'
  BY <1>1 DEF IInv, RecordsBelongToHeld, LedgerInv, ReceiptInv, Explained, Held, Tombstones
<1>5. CreationsAgree'
  BY <1>2, <1>3 DEF IInv, CreationsAgree, TypeOK
<1>6. ReadInv'
  <2> SUFFICES ASSUME NEW d \in Creators PROVE ReadsSoundly(d)'
    BY DEF ReadInv
  <2>1. ReadsSoundly(d) /\ TypeOK
    BY DEF IInv, ReadInv
  <2>2. CASE d = c
    BY <1>1, <1>2, <2>1, <2>2 DEF ReadsSoundly, TypeOK, Explained
  <2>3. CASE d # c
    BY <1>1, <1>2, <1>4, <2>1, <2>3 DEF ReadsSoundly, TypeOK, Explained
  <2> QED BY <2>2, <2>3
<1> QED BY <1>3, <1>4, <1>5, <1>6 DEF IInv

\* Steps that leave the creations alone keep what those may assume.
LEMMA ReadersUndisturbed ==
  ASSUME IInv, UNCHANGED requestVars,
         \A id \in Ids, b \in {0, 1} : Explained(id, b) => Explained(id, b)'
  PROVE  CreationsAgree' /\ ReadInv'
<1>1. CreationsAgree'
  BY DEF IInv, CreationsAgree, requestVars
<1>2. ASSUME NEW d \in Creators PROVE ReadsSoundly(d)'
  BY DEF IInv, ReadInv, ReadsSoundly, Explained, requestVars
<1> QED BY <1>1, <1>2 DEF ReadInv

\* The life of a session, and the files.
LEMMA SessionKeepsIInv ==
  ASSUME IInv, GetSession \/ \E id \in Ids : Session(id)
  PROVE  IInv'
<1>1. TypeOK /\ memory \in Memory /\ UNCHANGED requestVars /\ now' = now /\ now \in Nat \ {0}
  BY DEF IInv, TypeOK, LedgerInv, GetSession, Session, AddEvent, ClaimInput,
         WriteReceipt, PruneReceipt
<1>2. CASE GetSession
  <2>1. Kept /\ attempts' = attempts /\ receipt' = receipt
    BY <1>1, <1>2, PruneStep DEF GetSession
  <2>2. CreationsAgree' /\ ReadInv'
    BY <1>1, <2>1, ReadersUndisturbed DEF Kept
  <2> QED BY <1>1, <2>1, <2>2 DEF Kept, IInv, TypeOK, requestVars
<1>3. ASSUME NEW id \in Ids, AddEvent(id) \/ ClaimInput(id) PROVE IInv'
  <2>1. /\ memory' \in Memory /\ memory'.attempt = memory.attempt
        /\ memory'.tombstone = memory.tombstone
        /\ memory'.ended \subseteq memory.ended \union {id}
        /\ memory'.claimed \subseteq memory.claimed \union {id}
        /\ id \in Held(memory)
    <3>1. CASE AddEvent(id)
      <4>1. [memory.touched EXCEPT ![id] = now] \in [Ids -> Nat]
        BY <1>1 DEF Memory
      <4>2. PICK ends \in BOOLEAN :
              memory' = [memory EXCEPT
                 !.touched[id] = now,
                 !.ended = IF ends THEN @ \union {id} ELSE @]
        BY <3>1 DEF AddEvent
      <4>3. CASE ends
        <5>1. memory' = [memory EXCEPT !.touched[id] = now, !.ended = @ \union {id}]
          BY <4>2, <4>3, Zenon
        <5> QED BY <1>1, <3>1, <4>1, <5>1 DEF AddEvent, Memory
      <4>4. CASE ~ends
        <5>1. memory' = [memory EXCEPT !.touched[id] = now, !.ended = @]
          BY <4>2, <4>4, Zenon
        <5> QED BY <1>1, <3>1, <4>1, <5>1 DEF AddEvent, Memory
      <4> QED BY <4>2, <4>3, <4>4
    <3>2. CASE ClaimInput(id)
      BY <1>1, <3>2 DEF ClaimInput, Memory
    <3> QED BY <1>3, <3>1, <3>2
  <2>2. UNCHANGED <<left, receipt, attempts>>
    BY <1>3 DEF AddEvent, ClaimInput
  <2>3. Held(memory') = Held(memory) /\ Tombstones(memory') = Tombstones(memory)
    BY <2>1 DEF Held, Tombstones
  <2>4. RecordsBelongToHeld'
    BY <2>1, <2>3 DEF IInv, RecordsBelongToHeld
  <2>5. LedgerInv' /\ ReceiptInv'
    BY <1>1, <2>1, <2>2, <2>3 DEF IInv, LedgerInv, ReceiptInv
  <2>6. \A i \in Ids, b \in {0, 1} : Explained(i, b) => Explained(i, b)'
    BY <1>1, <2>2, <2>3 DEF Explained
  <2>7. CreationsAgree' /\ ReadInv'
    BY <1>1, <2>6, ReadersUndisturbed
  <2> QED BY <1>1, <2>1, <2>2, <2>4, <2>5, <2>7 DEF IInv, TypeOK, requestVars
<1>4. ASSUME NEW id \in Ids, WriteReceipt(id) \/ PruneReceipt(id) PROVE IInv'
  <2>1. /\ UNCHANGED <<memory, left, attempts>>
        /\ \/ id \in Held(memory) /\ receipt' = [receipt EXCEPT ![id] = memory.attempt[id]]
           \/ receipt' = [receipt EXCEPT ![id] = 0]
    BY <1>4 DEF WriteReceipt, PruneReceipt
  <2>2. receipt' \in [Ids -> Nat]
    BY <1>1, <2>1 DEF TypeOK, Memory
  <2>3. RecordsBelongToHeld' /\ LedgerInv'
    BY <1>1, <2>1 DEF IInv, RecordsBelongToHeld, LedgerInv, Held, Tombstones
  <2>4. ReceiptInv'
    BY <1>1, <2>1 DEF IInv, ReceiptInv, TypeOK, Held
  <2>5. \A i \in Ids, b \in {0, 1} : Explained(i, b) => Explained(i, b)'
    BY <1>1, <2>1 DEF Explained, TypeOK, Held
  <2>6. CreationsAgree' /\ ReadInv'
    BY <1>1, <2>5, ReadersUndisturbed
  <2> QED BY <1>1, <2>1, <2>2, <2>3, <2>4, <2>6 DEF IInv, TypeOK, requestVars
<1> QED BY <1>2, <1>3, <1>4 DEF Session

LEMMA TickKeepsIInv == IInv /\ Tick => IInv'
<1> SUFFICES ASSUME IInv, Tick PROVE IInv'
  OBVIOUS
<1>1. /\ TypeOK /\ now \in Nat \ {0} /\ now' = now + 1
      /\ UNCHANGED <<memory, left, receipt, attempts, target>>
      /\ \A c \in Creators : pc[c] # "late"
      /\ pc' = [c \in Creators |-> IF pc[c] = "absent" THEN "late" ELSE pc[c]]
  BY DEF IInv, LedgerInv, Tick
<1>2. TypeOK' /\ CreationsAgree'
  BY <1>1 DEF TypeOK, IInv, CreationsAgree
<1>3. RecordsBelongToHeld' /\ ReceiptInv'
  BY <1>1 DEF IInv, RecordsBelongToHeld, ReceiptInv, Held, Tombstones
<1>4. LedgerInv'
  BY <1>1 DEF IInv, LedgerInv, TypeOK
<1>5. ASSUME NEW c \in Creators PROVE ReadsSoundly(c)'
  <2>1. ReadsSoundly(c)
    BY DEF IInv, ReadInv
  <2>2. pc[c] = "absent" => left[target[c]] \in Nat
    BY <1>1, <2>1 DEF ReadsSoundly, TypeOK
  <2>3. pc'[c] = (IF pc[c] = "absent" THEN "late" ELSE pc[c]) /\ pc[c] # "late"
    BY <1>1
  <2>4. pc[c] = "absent" => Explained(target[c], 1)'
    BY <1>1, <2>1, <2>2 DEF ReadsSoundly, Explained, Held
  <2> QED BY <1>1, <2>1, <2>3, <2>4 DEF ReadsSoundly, Explained
<1> QED BY <1>2, <1>3, <1>4, <1>5 DEF IInv, ReadInv

\* A restart forgets the ledger, and with it every creation that relied on it.
LEMMA RestartKeepsIInv == IInv /\ Restart => IInv'
<1> SUFFICES ASSUME IInv, Restart PROVE IInv'
  OBVIOUS
<1>1. /\ TypeOK /\ now \in Nat \ {0}
      /\ memory' = EmptyMemory /\ left' = [id \in Ids |-> 0]
      /\ UNCHANGED <<now, receipt, attempts, target>>
      /\ pc' = [c \in Creators |->
              IF pc[c] \in {"lookup", "found", "absent", "late"}
              THEN "lost" ELSE pc[c]]
  BY DEF IInv, LedgerInv, Restart
<1>2. EmptyMemory \in Memory /\ Held(EmptyMemory) = {} /\ Tombstones(EmptyMemory) = {}
  BY DEF EmptyMemory, Memory, Held, Tombstones
<1>3. TypeOK' /\ CreationsAgree'
  BY <1>1, <1>2 DEF TypeOK, IInv, CreationsAgree
<1>4. RecordsBelongToHeld' /\ ReceiptInv'
  BY <1>1, <1>2 DEF RecordsBelongToHeld, ReceiptInv, EmptyMemory
<1>5. LedgerInv'
  BY <1>1, <1>2 DEF LedgerInv, EmptyMemory
<1>6. ReadInv'
  BY <1>1 DEF ReadInv, ReadsSoundly, TypeOK
<1> QED BY <1>3, <1>4, <1>5, <1>6 DEF IInv

LEMMA Inductive == Spec => []IInv
<1>1. Init => IInv
  <2> SUFFICES ASSUME Init PROVE IInv
    OBVIOUS
  <2>1. EmptyMemory \in Memory /\ Held(EmptyMemory) = {} /\ Tombstones(EmptyMemory) = {}
    BY DEF EmptyMemory, Memory, Held, Tombstones
  <2>2. TypeOK /\ CreationsAgree
    BY <2>1 DEF Init, TypeOK, CreationsAgree
  <2>3. RecordsBelongToHeld /\ ReceiptInv
    BY <2>1 DEF Init, RecordsBelongToHeld, ReceiptInv, EmptyMemory
  <2>4. LedgerInv /\ ReadInv
    BY <2>1 DEF Init, LedgerInv, EmptyMemory, ReadInv, ReadsSoundly
  <2> QED BY <2>2, <2>3, <2>4 DEF IInv
<1>2. IInv /\ [Next]_vars => IInv'
  <2> SUFFICES ASSUME IInv, [Next]_vars PROVE IInv'
    OBVIOUS
  <2>1. CASE \E c \in Creators : Create(c)
    BY <2>1, StoreCallKeepsIInv, ReadKeepsIInv DEF Create
  <2>2. CASE GetSession \/ \E id \in Ids : Session(id)
    BY <2>2, SessionKeepsIInv
  <2>3. CASE Tick \/ Restart
    BY <2>3, TickKeepsIInv, RestartKeepsIInv
  <2>4. CASE UNCHANGED vars
    BY <2>4 DEF vars, requestVars, IInv, TypeOK, RecordsBelongToHeld, CreationsAgree,
                LedgerInv, ReceiptInv, ReadInv, ReadsSoundly, Explained, Held, Tombstones
  <2> QED BY <2>1, <2>2, <2>3, <2>4 DEF Next
<1> QED BY <1>1, <1>2, PTL DEF Spec

-----------------------------------------------------------------------------
(* The theorems.                                                           *)

\* Every variable of the store keeps its type.
THEOREM TypeCorrect == Spec => []TypeOK
BY Inductive, PTL DEF IInv

\* An identity is never both held and retired, and one that is taken again
\* inherits neither a claim nor an ending.
THEOREM RecordsAreHeld == Spec => []RecordsBelongToHeld
BY Inductive, PTL DEF IInv

\* However many creations race through the receipt lookup, none runs into the
\* store's duplicate check.
THEOREM RacingCreationsAgree == Spec => []CreationsAgree
BY Inductive, PTL DEF IInv

\* What the store no longer remembers after pruning left a horizon ago.
LEMMA ForgottenIsOld ==
  ASSUME IInv, NEW id \in Ids,
         id \notin Held(Pruned(memory)), id \notin Tombstones(Pruned(memory))
  PROVE  memory.attempt[id] = 0 /\ (left[id] = 0 \/ now >= left[id] + RetryHorizon)
<1>1. memory \in Memory /\ now \in Nat \ {0} /\ left \in [Ids -> Nat]
  BY DEF IInv, TypeOK, LedgerInv
<1> DEFINE r == Pruned(memory)
<1>2. PICK S \in SUBSET Ids : ForgetsAll(memory, r, S)
  BY <1>1, PrunedForgets DEF Forgets
<1> HIDE DEF r
<1>3. r.tombstone[id] = 0 /\ r.attempt[id] = 0
  BY DEF Held, Tombstones, r
<1>4. id \notin S
  BY <1>1, <1>2, <1>3 DEF ForgetsAll
<1>5. memory.attempt[id] = 0
  BY <1>2, <1>3, <1>4 DEF ForgetsAll
<1>6. left[id] = 0 \/ now >= left[id] + RetryHorizon
  <2> SUFFICES ASSUME left[id] # 0, now < left[id] + RetryHorizon PROVE FALSE
    BY <1>1
  <2>1. memory.tombstone[id] = left[id] + RetryHorizon
    BY DEF IInv, LedgerInv
  <2>2. r.tombstone[id] = memory.tombstone[id]
    BY <1>1, <1>2, <1>4, <2>1 DEF ForgetsAll
  <2> QED BY <1>1, <1>3, <2>1, <2>2
<1> QED BY <1>5, <1>6

\* Only a creation gives an identity a new attempt.
LEMMA OnlyCreationNames ==
  ASSUME IInv, NEW c \in Creators, NEW id \in Ids, id \notin Held(Pruned(memory)),
         CreateSession(c, id), NEW j \in Ids,
         memory'.attempt[j] \notin {0, memory.attempt[j]}
  PROVE  j = id /\ id \notin Tombstones(Pruned(memory))
<1> DEFINE p == Pruned(memory)
           r == Retire(p, Evicted(p))
<1>1. memory \in Memory /\ now \in Nat /\ attempts \in Nat
  BY DEF IInv, TypeOK
<1>2. p \in Memory /\ Forgets(memory, p)
  BY <1>1, PrunedForgets
<1>3. p.attempt[j] \in {0, memory.attempt[j]}
  BY <1>2 DEF Forgets, ForgetsAll
<1>4. CreateOutcome(p, id) = "created"
  BY <1>3 DEF CreateSession, Becomes
<1>5. id \notin Tombstones(p)
  BY <1>4, CreateOutcomes
<1>6. r \in Memory /\ r.attempt[j] \in {0, memory.attempt[j]}
  BY <1>1, <1>2, <1>3, EvictedAreHeld, RetireIsTyped
<1>7. memory' = [r EXCEPT !.attempt[id] = attempts + 1, !.touched[id] = now]
  BY <1>4 DEF CreateSession, Becomes, Created
<1> HIDE DEF p, r
<1>8. memory'.attempt = [r.attempt EXCEPT ![id] = attempts + 1]
  BY <1>6, <1>7 DEF Memory
<1>9. j = id
  BY <1>6, <1>8 DEF Memory
<1> QED BY <1>5, <1>9 DEF p

LEMMA NamingStep ==
  ASSUME IInv, [Next]_vars, NEW id \in Ids,
         memory'.attempt[id] \notin {0, memory.attempt[id]}
  PROVE  memory.attempt[id] = 0 /\ (left[id] = 0 \/ now >= left[id] + RetryHorizon)
<1>1. memory \in Memory /\ now \in Nat
  BY DEF IInv, TypeOK
<1>2. ~Becomes(Pruned(memory))
  <2>1. Pruned(memory).attempt[id] \in {0, memory.attempt[id]}
    BY <1>1, PrunedForgets DEF Forgets, ForgetsAll
  <2> QED BY <2>1 DEF Becomes
<1>3. ASSUME NEW c \in Creators, NEW t \in Ids, t \notin Held(Pruned(memory)),
             CreateSession(c, t)
      PROVE  memory.attempt[id] = 0 /\ (left[id] = 0 \/ now >= left[id] + RetryHorizon)
  BY <1>3, OnlyCreationNames, ForgottenIsOld
<1>4. CASE \E c \in Creators : Create(c)
  <2>1. PICK c \in Creators : Create(c)
    BY <1>4
  <2>2. CASE FoundNone(c)
    <3>1. target[c] \in Ids
      BY <2>2 DEF FoundNone, IInv, ReadInv, ReadsSoundly
    <3> QED BY <1>2, <1>3, <2>2, <3>1 DEF FoundNone
  <2>3. CASE PostAnonymous(c)
    <3>1. \A t \in Ids : t \notin Held(memory) => t \notin Held(Pruned(memory))
      BY <1>1, PrunedForgets DEF Forgets, ForgetsAll, Held
    <3> QED BY <1>3, <2>3, <3>1 DEF PostAnonymous
  <2>4. CASE ReadReceipt(c) \/ FoundReceipt(c)
    BY <2>4 DEF ReadReceipt, FoundReceipt
  <2> QED BY <1>2, <2>1, <2>2, <2>3, <2>4 DEF Create, Post
<1>5. ASSUME NEW i \in Ids, Session(i) PROVE memory'.attempt = memory.attempt
  <2>1. CASE AddEvent(i)
    BY <1>1, <2>1 DEF AddEvent, Memory
  <2>2. CASE ClaimInput(i)
    BY <1>1, <2>2 DEF ClaimInput, Memory
  <2>3. CASE WriteReceipt(i) \/ PruneReceipt(i)
    BY <2>3 DEF WriteReceipt, PruneReceipt
  <2> QED BY <1>5, <2>1, <2>2, <2>3 DEF Session
<1>6. CASE GetSession
  BY <1>2, <1>6 DEF GetSession
<1>7. CASE Tick \/ UNCHANGED vars
  BY <1>7 DEF Tick, vars
<1>8. CASE Restart
  BY <1>8 DEF Restart, EmptyMemory
<1> QED BY <1>4, <1>5, <1>6, <1>7, <1>8 DEF Next

\* For any limits and any number of requests, an identity never names a second
\* attempt of the same process within its retry horizon: the ledger remembers
\* what expiry and eviction forget.
THEOREM NoIdentityReuse == Spec => IdentityIsNotReused
<1>1. IInv /\ [Next]_vars => [\A id \in Ids :
       memory'.attempt[id] \notin {0, memory.attempt[id]}
       => /\ memory.attempt[id] = 0
          /\ left[id] = 0 \/ now >= left[id] + RetryHorizon]_vars
  BY NamingStep
<1> QED BY <1>1, Inductive, PTL DEF Spec, IdentityIsNotReused

\* Restarts included, a receipt is never overwritten by another attempt's.
THEOREM ReceiptsKeepTheirAttempt == Spec => ReceiptKeepsItsAttempt
<1>1. IInv /\ [Next]_vars => [\A id \in Ids : receipt[id] # 0 /\ receipt'[id] # 0
       => receipt'[id] = receipt[id]]_vars
  <2> SUFFICES ASSUME IInv, [Next]_vars, NEW id \in Ids,
                      receipt[id] # 0, receipt'[id] # 0, receipt' # receipt
               PROVE  receipt'[id] = receipt[id]
    OBVIOUS
  <2>1. receipt \in [Ids -> Nat]
    BY DEF IInv, TypeOK
  <2>2. PICK i \in Ids : WriteReceipt(i) \/ PruneReceipt(i)
    BY DEF Next, Create, Post, PostAnonymous, ReadReceipt, FoundReceipt, FoundNone,
           Session, AddEvent, ClaimInput, GetSession, Tick, Restart, vars
  <2>3. CASE WriteReceipt(i)
    BY <2>1, <2>3 DEF WriteReceipt, IInv, ReceiptInv
  <2>4. CASE PruneReceipt(i)
    BY <2>1, <2>4 DEF PruneReceipt
  <2> QED BY <2>2, <2>3, <2>4
<1> QED BY <1>1, Inductive, PTL DEF Spec, ReceiptKeepsItsAttempt

-----------------------------------------------------------------------------
(* Capacity and lives.                                                     *)

\* A session the store may let go: it has ended, or was idle for its whole time.
MayLeave(id) == id \in memory.ended \/ now - memory.touched[id] >= IdleTtl

\* Pruning drops only what has ended or idled, and only eviction follows it.
LEMMA PrunedDropsTheExpired ==
  ASSUME memory \in Memory, now \in Nat
  PROVE  /\ \A id \in Held(memory) \ Held(Pruned(memory)) : MayLeave(id)
         /\ Pruned(memory).ended \subseteq memory.ended
<1> DEFINE p == TombstonesPruned(memory)
<1>1. p \in Memory /\ p.attempt = memory.attempt /\ p.ended = memory.ended
      /\ p.touched = memory.touched
  BY SMT DEF TombstonesPruned, Memory
<1>2. Pruned(memory) = Retire(p, Retirable(p))
  BY DEF Pruned
<1> HIDE DEF p
<1>3. Retirable(p) \in SUBSET Ids
  BY DEF Retirable, Expired, Held
<1>4. \A id \in Retirable(p) : MayLeave(id)
  BY <1>1 DEF Retirable, Expired, Ttl, MayLeave
<1>5. Held(memory) \ Held(Pruned(memory)) \subseteq Retirable(p)
  BY <1>1, <1>2, <1>3, RetireIsTyped DEF Held
<1>6. Pruned(memory).ended \subseteq memory.ended
  BY <1>1, <1>2, <1>3, RetireIsTyped
<1> QED BY <1>4, <1>5, <1>6

\* Room for one more is made among the ended sessions alone.
LEMMA CreationDropsTheEnded ==
  ASSUME IInv, NEW c \in Creators, NEW id \in Ids, CreateSession(c, id)
  PROVE  \A j \in Held(memory) \ Held(memory') : MayLeave(j)
<1> DEFINE p == Pruned(memory)
           r == Retire(p, Evicted(p))
<1>1. memory \in Memory /\ now \in Nat /\ attempts \in Nat
  BY DEF IInv, TypeOK
<1>2. p \in Memory
  BY <1>1, PrunedForgets
<1>3. /\ \A j \in Held(memory) \ Held(p) : MayLeave(j)
      /\ p.ended \subseteq memory.ended
  BY <1>1, PrunedDropsTheExpired
<1>4. CASE CreateOutcome(p, id) # "created"
  BY <1>3, <1>4 DEF CreateSession, Becomes
<1>5. CASE CreateOutcome(p, id) = "created"
  <2>1. memory' = [r EXCEPT !.attempt[id] = attempts + 1, !.touched[id] = now]
    BY <1>5 DEF CreateSession, Becomes, Created
  <2>2. Evicted(p) \in SUBSET Ids /\ Evicted(p) \subseteq p.ended
    BY DEF Evicted, Oldest, Held
  <2>3. r \in Memory /\ \A j \in Ids : r.attempt[j] = IF j \in Evicted(p) THEN 0 ELSE p.attempt[j]
    BY <1>1, <1>2, <2>2, RetireIsTyped
  <2> HIDE DEF p, r
  <2>4. memory'.attempt = [r.attempt EXCEPT ![id] = attempts + 1]
    BY <2>1, <2>3 DEF Memory
  <2>5. \A j \in Ids : r.attempt[j] # 0 => memory'.attempt[j] # 0
    BY <1>1, <2>3, <2>4 DEF Memory
  <2>6. \A j \in Held(p) \ Held(memory') : j \in Evicted(p)
    BY <2>3, <2>5 DEF Held
  <2>7. \A j \in Held(p) \ Held(memory') : MayLeave(j)
    BY <1>3, <2>2, <2>6 DEF MayLeave
  <2> QED BY <1>3, <2>7
<1> QED BY <1>4, <1>5

\* For any limits: however full the store, a session that has neither ended nor
\* idled is never dropped to make room, only a restart takes it.
THEOREM LiveSessionsAreKept == Spec => LiveSessionsStay
<1>1. IInv /\ [Next]_vars => [left' # left /\ left' # [id \in Ids |-> 0] =>
       \A id \in Held(memory) \ Held(memory') :
         id \in memory.ended \/ now - memory.touched[id] >= IdleTtl]_vars
  <2> SUFFICES ASSUME IInv, [Next]_vars, left' # left, left' # [id \in Ids |-> 0]
               PROVE  \A id \in Held(memory) \ Held(memory') : MayLeave(id)
    BY DEF MayLeave
  <2>1. memory \in Memory /\ now \in Nat
    BY DEF IInv, TypeOK
  <2>2. CASE memory' = Pruned(memory)
    BY <2>1, <2>2, PrunedDropsTheExpired
  <2>3. CASE \E c \in Creators : Create(c)
    <3>1. PICK c \in Creators : Create(c)
      BY <2>3
    <3>2. CASE \E id \in Ids : Post(c, id)
      BY <2>2, <3>2 DEF Post, Becomes
    <3>3. CASE PostAnonymous(c)
      BY <3>3, CreationDropsTheEnded DEF PostAnonymous
    <3>4. CASE FoundNone(c)
      <4>1. target[c] \in Ids
        BY <3>4 DEF FoundNone, IInv, ReadInv, ReadsSoundly
      <4> QED BY <2>2, <3>4, <4>1, CreationDropsTheEnded DEF FoundNone, Becomes
    <3>5. CASE ReadReceipt(c) \/ FoundReceipt(c)
      BY <3>5 DEF ReadReceipt, FoundReceipt
    <3> QED BY <3>1, <3>2, <3>3, <3>4, <3>5 DEF Create
  <2>4. CASE GetSession
    BY <2>2, <2>4 DEF GetSession, Becomes
  <2>5. ~\E id \in Ids : Session(id)
    BY DEF Session, AddEvent, ClaimInput, WriteReceipt, PruneReceipt
  <2>6. ~Tick /\ ~Restart /\ ~UNCHANGED vars
    BY DEF Tick, Restart, vars
  <2> QED BY <2>3, <2>4, <2>5, <2>6 DEF Next
<1> QED BY <1>1, Inductive, PTL DEF Spec, LiveSessionsStay
-----------------------------------------------------------------------------
(* The receipt files: they implement the abstract directory, and a          *)
(* retention pass keeps the limits, for any number of sessions, events and  *)
(* crashes.  A session's snapshots stand in its queue in the order they     *)
(* were taken, behind the one being written, which is newer than the file   *)
(* until it is renamed.                                                     *)

HIDE LimitsArePositive DEF LimitsArePositive

QueueRises ==
  \A s \in Sessions : \A i, j \in 1..Len(queue[s]) :
    i < j => queue[s][i] < queue[s][j]

QueueIsAhead ==
  \A s \in Sessions : \A i \in 1..Len(queue[s]) :
    /\ queue[s][i] <= log[s]
    /\ queue[s][i] > write[s].snapshot
    /\ queue[s][i] > file[s]

WriteIsNewer ==
  \A s \in Sessions :
    /\ write[s].snapshot <= log[s]
    /\ write[s].pc \in {"fill", "rename"} => write[s].snapshot > file[s]

\* A session of this process is the only one its receipt can be of.
LogCoversReceipt ==
  \A s \in Sessions : log[s] # 0 => file[s] <= log[s]

WriterInv ==
  /\ WriterTypeOK
  /\ QueueRises
  /\ QueueIsAhead
  /\ WriteIsNewer
  /\ LogCoversReceipt

-----------------------------------------------------------------------------
\* Appending to and taking from a queue keep it a sequence.
LEMMA QueueSteps ==
  ASSUME NEW S, NEW q \in Seq(S), NEW x \in S
  PROVE  /\ Append(q, x) \in Seq(S)
         /\ q # <<>> => Head(q) \in S /\ Tail(q) \in Seq(S)
BY SMT

\* Of the directory's entries, only those of the sessions' writes are new.
LEMMA TempsAreTyped ==
  ASSUME WriterTypeOK
  PROVE  /\ Temps \subseteq TempFiles
         /\ Names(Temps) \in SUBSET (Sessions \X Nat)
<1>1. ASSUME NEW s \in Sessions PROVE Temp(s) \subseteq TempFiles
  <2>1. write[s] \in Writes
    BY DEF WriterTypeOK
  <2>2. write[s].snapshot \in Nat /\ clock \in Nat
    BY <2>1 DEF WriterTypeOK, Writes
  <2>3. QED
    BY <2>2 DEF Temp, TempFiles
<1>2. Temps \subseteq TempFiles
  BY <1>1 DEF Temps, WriterTypeOK
<1>3. \A f \in TempFiles : <<f.of, f.snapshot>> \in Sessions \X Nat
  BY DEF TempFiles
<1>4. QED
  BY <1>2, <1>3 DEF Names

\* Every step keeps the types.
LEMMA TypeStep ==
  ASSUME WriterTypeOK, [WriterNext]_writerVars
  PROVE  WriterTypeOK'
<1> USE RetentionIsPositive DEF RetentionIsPositive
<1>0. NoWrite \in Writes /\ NoPass \in Passes
  BY DEF NoWrite, Writes, NoPass, Passes
<1>1. ASSUME NEW s \in Sessions, Emit(s) PROVE WriterTypeOK'
  <2>1. log' \in [Sessions -> Nat] /\ log'[s] \in Nat
    BY <1>1 DEF Emit, WriterTypeOK
  <2>2. queue' \in [Sessions -> Seq(Nat)]
    <3>1. CASE queue' = [queue EXCEPT ![s] = Append(@, Snapshot(s))]
      <4>1. queue[s] \in Seq(Nat) /\ Snapshot(s) \in Nat
        BY <2>1 DEF WriterTypeOK, Snapshot
      <4>2. Append(queue[s], Snapshot(s)) \in Seq(Nat)
        BY <4>1, QueueSteps
      <4>3. QED
        BY <3>1, <4>2 DEF WriterTypeOK
    <3>2. CASE UNCHANGED queue
      BY <3>2 DEF WriterTypeOK
    <3>3. QED
      BY <1>1, <3>1, <3>2 DEF Emit
  <2>3. QED
    BY <1>1, <2>1, <2>2 DEF Emit, WriterTypeOK, fileVars
<1>2. ASSUME NEW s \in Sessions, Write(s) PROVE WriterTypeOK'
  <2>0. write[s] \in Writes
    BY DEF WriterTypeOK
  <2>1. CASE Prepare(s)
    <3>1. queue[s] \in Seq(Nat) /\ queue[s] # <<>>
      BY <2>1 DEF Prepare, WriterTypeOK
    <3>2. Head(queue[s]) \in Nat /\ Tail(queue[s]) \in Seq(Nat)
      BY <3>1
    <3>3. queue' \in [Sessions -> Seq(Nat)]
      BY <2>1, <3>2 DEF Prepare, WriterTypeOK
    <3>4. write' \in [Sessions -> Writes]
      <4>1. [NoWrite EXCEPT !.snapshot = Head(queue[s]), !.pc = "fill",
                            !.temp = "partial"] \in Writes
        BY <3>2 DEF NoWrite, Writes
      <4>2. QED
        BY <2>1, <4>1 DEF Prepare, Goes, WriterTypeOK
    <3>5. QED
      BY <2>1, <3>3, <3>4 DEF Prepare, WriterTypeOK, fileVars
  <2>2. CASE Fill(s)
    <3>1. /\ [write[s] EXCEPT !.pc = "rename", !.temp = "whole"] \in Writes
          /\ [write[s] EXCEPT !.pc = "clean", !.failed = TRUE] \in Writes
      BY <2>0 DEF Writes
    <3>2. write' \in [Sessions -> Writes]
      BY <2>2, <3>1 DEF Fill, Goes, WriterTypeOK
    <3>3. QED
      BY <2>2, <3>2 DEF Fill, WriterTypeOK, fileVars
  <2>3. CASE Rename(s)
    <3>1. /\ [write[s] EXCEPT !.pc = "seal", !.temp = "none"] \in Writes
          /\ [write[s] EXCEPT !.pc = "clean", !.failed = TRUE] \in Writes
          /\ write[s].snapshot \in Nat
      BY <2>0 DEF Writes
    <3>2. write' \in [Sessions -> Writes]
      BY <2>3, <3>1 DEF Rename, Goes, WriterTypeOK
    <3>3. file' \in [Sessions -> Nat] /\ written' \in [Sessions -> Nat]
      BY <2>3, <3>1 DEF Rename, Renamed, WriterTypeOK
    <3>4. pass' \in Passes
      <4>1. [pass EXCEPT !.fresh = @ \union {s}] \in Passes
        BY DEF WriterTypeOK, Passes
      <4>2. QED
        BY <2>3, <4>1 DEF Rename, Renamed, WriterTypeOK
    <3>5. QED
      BY <2>3, <3>2, <3>3, <3>4 DEF Rename, WriterTypeOK
  <2>4. CASE Seal(s)
    <3>1. \A failed \in BOOLEAN :
            [write[s] EXCEPT !.pc = "clean", !.failed = failed] \in Writes
      BY <2>0 DEF Writes
    <3>2. write' \in [Sessions -> Writes]
      BY <2>4, <3>1 DEF Seal, Goes, WriterTypeOK
    <3>3. QED
      BY <2>4, <3>2 DEF Seal, WriterTypeOK, fileVars
  <2>5. CASE Clean(s)
    <3>1. [write[s] EXCEPT !.pc = "retention", !.temp = "none"] \in Writes
      BY <2>0 DEF Writes
    <3>2. write' \in [Sessions -> Writes]
      BY <2>5, <3>1, <1>0 DEF Clean, Goes, WriterTypeOK
    <3>3. waiting' \in Seq(Sessions)
      <4>1. Append(waiting, s) \in Seq(Sessions)
        BY QueueSteps DEF WriterTypeOK
      <4>2. QED
        BY <2>5, <4>1 DEF Clean, WriterTypeOK
    <3>4. litter' \subseteq TempFiles
      <4>1. Temp(s) \subseteq TempFiles
        BY TempsAreTyped DEF Temps
      <4>2. QED
        BY <2>5, <4>1 DEF Clean, WriterTypeOK
    <3>5. QED
      BY <2>5, <3>2, <3>3, <3>4 DEF Clean, WriterTypeOK
  <2>6. QED
    BY <1>2, <2>1, <2>2, <2>3, <2>4, <2>5 DEF Write
<1>3. CASE PassBegins
  <2>1. Head(waiting) \in Sessions /\ waiting' \in Seq(Sessions)
    BY <1>3, QueueSteps DEF PassBegins, WriterTypeOK
  <2>2. Names(Temps) \in SUBSET (Sessions \X Nat) /\ clock \in Nat
    BY TempsAreTyped DEF WriterTypeOK
  <2>3. pass' \in Passes
    BY <1>3, <2>1, <2>2 DEF PassBegins, NoPass, Passes
  <2>4. QED
    BY <1>3, <2>1, <2>3 DEF PassBegins, WriterTypeOK, fileVars
<1>4. CASE PassDates
  <2>1. PICK D \in SUBSET Receipts :
          pass' = [pass EXCEPT !.pc = "remove", !.names = {}, !.doomed = Overdue \union D,
                               !.stale = {f \in Temps : Age(f.at) >= TempAge}]
    BY <1>4 DEF PassDates
  <2>2. Overdue \union D \subseteq Sessions
    BY DEF Overdue, Receipts
  <2>3. {f \in Temps : Age(f.at) >= TempAge} \subseteq TempFiles
    BY TempsAreTyped
  <2>4. pass \in Passes
    BY DEF WriterTypeOK
  <2>5. pass' \in Passes
    BY <2>1, <2>2, <2>3, <2>4 DEF Passes
  <2>6. QED
    BY <1>4, <2>5 DEF PassDates, WriterTypeOK, fileVars
<1>5. CASE PassRemoves
  <2>1. pass \in Passes
    BY DEF WriterTypeOK
  <2>2. pass' \in Passes
    BY <1>5, <2>1 DEF PassRemoves, Passes
  <2>3. litter' \subseteq TempFiles
    BY <1>5 DEF PassRemoves, WriterTypeOK
  <2>4. file' \in [Sessions -> Nat] /\ written' \in [Sessions -> Nat]
    <3>1. /\ file' = file \/ \E s \in Sessions : file' = [file EXCEPT ![s] = 0]
          /\ written' = written \/ \E s \in Sessions : written' = [written EXCEPT ![s] = 0]
      BY <1>5, <2>1 DEF PassRemoves, Passes
    <3>2. file \in [Sessions -> Nat] /\ written \in [Sessions -> Nat]
      BY DEF WriterTypeOK
    <3>3. QED
      BY <3>1, <3>2
  <2>5. QED
    BY <1>5, <2>2, <2>3, <2>4 DEF PassRemoves, WriterTypeOK
<1>6. CASE PassEnds
  <2>1. write' \in [Sessions -> Writes] /\ pass' \in Passes
    BY <1>6, <1>0 DEF PassEnds, Goes, WriterTypeOK
  <2>2. QED
    BY <1>6, <2>1 DEF PassEnds, WriterTypeOK, fileVars
<1>7. CASE TimePasses
  BY <1>7 DEF TimePasses, WriterTypeOK, fileVars, taskVars
<1>8. CASE Crash
  <2>1. /\ log' \in [Sessions -> Nat] /\ queue' \in [Sessions -> Seq(Nat)]
        /\ write' \in [Sessions -> Writes] /\ waiting' \in Seq(Sessions)
        /\ pass' \in Passes
    BY <1>8, <1>0 DEF Crash
  <2>2. litter' \subseteq TempFiles
    BY <1>8, TempsAreTyped DEF Crash
  <2>3. QED
    BY <1>8, <2>1, <2>2 DEF Crash, WriterTypeOK
<1>9. CASE UNCHANGED writerVars
  BY <1>9 DEF writerVars, WriterTypeOK, fileVars, taskVars
<1>10. QED
  BY <1>1, <1>2, <1>3, <1>4, <1>5, <1>6, <1>7, <1>8, <1>9 DEF WriterNext, Pass

-----------------------------------------------------------------------------
(* One session's part of the invariant, and the steps that disturb it.     *)

InOrder(q, w, l, r) ==
  /\ \A i, j \in 1..Len(q) : i < j => q[i] < q[j]
  /\ \A i \in 1..Len(q) : q[i] <= l /\ q[i] > w.snapshot /\ q[i] > r
  /\ w.snapshot <= l
  /\ w.pc \in {"fill", "rename"} => w.snapshot > r
  /\ l # 0 => r <= l

LEMMA OrderIsInvariant ==
  /\ WriterTypeOK /\ (\A s \in Sessions : InOrder(queue[s], write[s], log[s], file[s])) <=> WriterInv
  /\ (WriterTypeOK /\ (\A s \in Sessions : InOrder(queue[s], write[s], log[s], file[s])))' <=> WriterInv'
BY DEF WriterInv, InOrder, QueueRises, QueueIsAhead, WriteIsNewer, LogCoversReceipt

\* A new snapshot goes behind all earlier ones.
LEMMA AppendKeepsOrder ==
  ASSUME NEW q \in Seq(Nat), NEW w \in Writes, NEW l \in Nat, NEW r \in Nat,
         InOrder(q, w, l, r), l = 0 => r = 0
  PROVE  InOrder(Append(q, l + 1), w, l + 1, r) /\ InOrder(q, w, l + 1, r)
<1>0. w.snapshot \in Nat
  BY DEF Writes
<1>1. /\ \A i \in 1..Len(q) : q[i] \in Nat /\ q[i] <= l /\ q[i] > w.snapshot /\ q[i] > r
      /\ \A i, j \in 1..Len(q) : i < j => q[i] < q[j]
      /\ w.snapshot <= l /\ r <= l
  BY DEF InOrder
<1>2. InOrder(q, w, l + 1, r)
  BY <1>0, <1>1 DEF InOrder
<1>3. /\ Len(Append(q, l + 1)) = Len(q) + 1 /\ Len(q) \in Nat
      /\ \A i \in 1..Len(q) : Append(q, l + 1)[i] = q[i]
      /\ Append(q, l + 1)[Len(q) + 1] = l + 1
  OBVIOUS
<1>4. \A i \in 1..(Len(q) + 1) : i \in 1..Len(q) \/ i = Len(q) + 1
  BY <1>3
<1>5. \A i \in 1..Len(Append(q, l + 1)) :
        /\ Append(q, l + 1)[i] <= l + 1
        /\ Append(q, l + 1)[i] > w.snapshot /\ Append(q, l + 1)[i] > r
  BY <1>0, <1>1, <1>3, <1>4
<1>6. \A i, j \in 1..Len(Append(q, l + 1)) :
        i < j => Append(q, l + 1)[i] < Append(q, l + 1)[j]
  <2> TAKE i, j \in 1..Len(Append(q, l + 1))
  <2>1. SUFFICES ASSUME i < j PROVE Append(q, l + 1)[i] < Append(q, l + 1)[j]
    OBVIOUS
  <2>2. i \in 1..Len(q)
    BY <1>3, <2>1
  <2>3. CASE j \in 1..Len(q)
    BY <1>1, <1>3, <2>1, <2>2, <2>3
  <2>4. CASE j = Len(q) + 1
    BY <1>1, <1>3, <2>2, <2>4
  <2>5. QED
    BY <1>3, <1>4, <2>3, <2>4
<1>7. InOrder(Append(q, l + 1), w, l + 1, r)
  BY <1>2, <1>5, <1>6 DEF InOrder
<1>8. QED
  BY <1>2, <1>7

\* The head of the queue becomes the write, or its write never begins.
LEMMA TakeKeepsOrder ==
  ASSUME NEW q \in Seq(Nat), NEW w \in Writes, NEW l \in Nat, NEW r \in Nat,
         InOrder(q, w, l, r), q # <<>>, NEW v \in Writes, v.snapshot = Head(q)
  PROVE  InOrder(Tail(q), v, l, r) /\ InOrder(Tail(q), w, l, r)
<1>0. w.snapshot \in Nat
  BY DEF Writes
<1>1. /\ Len(q) \in Nat \ {0} /\ Head(q) = q[1] /\ Len(Tail(q)) = Len(q) - 1
      /\ \A i \in 1..Len(Tail(q)) : Tail(q)[i] = q[i + 1] /\ i + 1 \in 1..Len(q)
      /\ 1 \in 1..Len(q)
  OBVIOUS
<1>2. /\ \A i \in 1..Len(q) : q[i] \in Nat /\ q[i] <= l /\ q[i] > w.snapshot /\ q[i] > r
      /\ \A i, j \in 1..Len(q) : i < j => q[i] < q[j]
      /\ w.pc \in {"fill", "rename"} => w.snapshot > r
      /\ l # 0 => r <= l
  BY DEF InOrder
<1>3. \A i, j \in 1..Len(Tail(q)) : i < j => Tail(q)[i] < Tail(q)[j]
  BY <1>1, <1>2
<1>4. \A i \in 1..Len(Tail(q)) :
        /\ Tail(q)[i] <= l /\ Tail(q)[i] > q[1]
        /\ Tail(q)[i] > w.snapshot /\ Tail(q)[i] > r
  <2> TAKE i \in 1..Len(Tail(q))
  <2>1. i \in Nat /\ 1 < i + 1 /\ i + 1 \in 1..Len(q) /\ Tail(q)[i] = q[i + 1]
    BY <1>1
  <2>2. q[1] < q[i + 1]
    BY <1>1, <1>2, <2>1
  <2>3. QED
    BY <1>1, <1>2, <2>1, <2>2
<1>5. q[1] <= l /\ q[1] > r /\ v.snapshot = q[1]
  BY <1>1, <1>2
<1>6. w.snapshot <= l
  BY DEF InOrder
<1>7. QED
  BY <1>2, <1>3, <1>4, <1>5, <1>6 DEF InOrder
Ordered(s) == InOrder(queue[s], write[s], log[s], file[s])

\* A write that goes on with its snapshot, or ends, keeps the order; so does the
\* rename that puts the snapshot into the file.
LEMMA RestKeepsOrder ==
  ASSUME NEW q \in Seq(Nat), NEW w \in Writes, NEW l \in Nat, NEW r \in Nat,
         InOrder(q, w, l, r)
  PROVE  /\ \A v \in Writes :
              /\ v.snapshot \in {w.snapshot, 0}
              /\ v.pc \in {"fill", "rename"} => w.pc \in {"fill", "rename"} /\ v.snapshot = w.snapshot
              => InOrder(q, v, l, r)
         /\ \A v \in Writes : v.snapshot = w.snapshot /\ v.pc \notin {"fill", "rename"}
                              => InOrder(q, v, l, w.snapshot)
<1>1. w.snapshot \in Nat /\ Len(q) \in Nat /\ \A i \in 1..Len(q) : q[i] \in Nat
  BY DEF Writes
<1>2. QED
  BY <1>1 DEF InOrder

LEMMA OrderStep ==
  ASSUME WriterTypeOK, WriterTypeOK', \A s \in Sessions : Ordered(s), [WriterNext]_writerVars
  PROVE  \A s \in Sessions : Ordered(s)'
<1> USE DEF Ordered
<1>0. \A s \in Sessions :
        /\ queue[s] \in Seq(Nat) /\ write[s] \in Writes /\ log[s] \in Nat /\ file[s] \in Nat
        /\ queue'[s] \in Seq(Nat) /\ write'[s] \in Writes /\ log'[s] \in Nat
        /\ file'[s] \in Nat
  BY DEF WriterTypeOK
<1>t. /\ DOMAIN queue = Sessions /\ DOMAIN write = Sessions /\ DOMAIN log = Sessions
      /\ DOMAIN file = Sessions
  BY DEF WriterTypeOK
<1>w. NoWrite \in Writes /\ NoWrite.snapshot = 0 /\ NoWrite.pc = "idle"
  BY DEF NoWrite, Writes
<1>1. ASSUME NEW s \in Sessions, Emit(s) PROVE \A u \in Sessions : Ordered(u)'
  <2>1. /\ log[s] = 0 => file[s] = 0
        /\ log'[s] = log[s] + 1 /\ UNCHANGED <<write, file>>
        /\ queue'[s] \in {Append(queue[s], log[s] + 1), queue[s]}
        /\ \A u \in Sessions \ {s} : log'[u] = log[u] /\ queue'[u] = queue[u]
    BY <1>1, <1>0, <1>t DEF Emit, Snapshot, fileVars
  <2>2. Ordered(s)'
    BY ZenonT(40), <1>0, <2>1, AppendKeepsOrder
  <2>3. QED
    BY <2>1, <2>2
<1>2. ASSUME NEW s \in Sessions, Prepare(s) PROVE \A u \in Sessions : Ordered(u)'
  <2>1. /\ queue[s] # <<>> /\ queue'[s] = Tail(queue[s]) /\ UNCHANGED <<log, file>>
        /\ \/ write'[s] = [NoWrite EXCEPT !.snapshot = Head(queue[s]), !.pc = "fill",
                                          !.temp = "partial"]
           \/ write'[s] = write[s]
        /\ \A u \in Sessions \ {s} : write'[u] = write[u] /\ queue'[u] = queue[u]
    BY <1>2, <1>0, <1>t DEF Prepare, Goes, fileVars
  <2>2. Head(queue[s]) \in Nat
    BY <1>0, <2>1
  <2>3. PICK v \in Writes :
          v = [NoWrite EXCEPT !.snapshot = Head(queue[s]), !.pc = "fill", !.temp = "partial"]
    BY <2>2 DEF NoWrite, Writes
  <2>4. v.snapshot = Head(queue[s])
    BY <2>3 DEF NoWrite
  <2>5. /\ InOrder(Tail(queue[s]), v, log[s], file[s])
        /\ InOrder(Tail(queue[s]), write[s], log[s], file[s])
    BY <1>0, <2>1, <2>4, TakeKeepsOrder
  <2>6. Ordered(s)'
    BY <2>1, <2>3, <2>5
  <2>7. QED
    BY <2>1, <2>6
<1>3. ASSUME NEW s \in Sessions, Rename(s) PROVE \A u \in Sessions : Ordered(u)'
  <2>1. /\ UNCHANGED <<queue, log>>
        /\ \A u \in Sessions \ {s} : write'[u] = write[u] /\ file'[u] = file[u]
        /\ write'[s].snapshot = write[s].snapshot
        /\ write'[s].pc \notin {"fill", "rename"}
        /\ file'[s] \in {file[s], write[s].snapshot}
    <3>1. /\ UNCHANGED <<queue, log>>
          /\ file' = [file EXCEPT ![s] = write[s].snapshot] \/ UNCHANGED file
      BY <1>3 DEF Rename, Renamed
    <3>2. \/ write' = [write EXCEPT ![s] = [write[s] EXCEPT !.pc = "seal", !.temp = "none"]]
          \/ write' = [write EXCEPT ![s] = [write[s] EXCEPT !.pc = "clean", !.failed = TRUE]]
      BY <1>3 DEF Rename, Goes
    <3>3. /\ write'[s].snapshot = write[s].snapshot
          /\ write'[s].pc \notin {"fill", "rename"}
      <4>1. \/ write'[s] = [write[s] EXCEPT !.pc = "seal", !.temp = "none"]
            \/ write'[s] = [write[s] EXCEPT !.pc = "clean", !.failed = TRUE]
        BY <3>2, <1>t
      <4>2. write[s] \in Writes
        BY <1>0
      <4>3. QED
        BY <4>1, <4>2 DEF Writes
    <3>4. \A u \in Sessions \ {s} : write'[u] = write[u] /\ file'[u] = file[u]
      BY <3>1, <3>2, <1>t
    <3>5. file'[s] \in {file[s], write[s].snapshot}
      BY <3>1, <1>t
    <3>6. QED
      BY <3>1, <3>3, <3>4, <3>5
  <2>2. Ordered(s)'
    BY <1>0, <2>1, RestKeepsOrder
  <2>3. QED
    BY <2>1, <2>2
<1>4. ASSUME NEW s \in Sessions, Fill(s) \/ Seal(s) \/ Clean(s)
      PROVE  \A u \in Sessions : Ordered(u)'
  <2>1. /\ UNCHANGED <<queue, log, file>>
        /\ \A u \in Sessions \ {s} : write'[u] = write[u]
    BY <1>4, <1>0, <1>t DEF Fill, Seal, Clean, Goes, fileVars
  <2>2. /\ write'[s].snapshot \in {write[s].snapshot, 0}
        /\ write'[s].pc \in {"fill", "rename"} =>
             write[s].pc \in {"fill", "rename"} /\ write'[s].snapshot = write[s].snapshot
    <3>1. CASE Fill(s)
      BY ZenonT(40), <3>1, <1>0, <1>t DEF Fill, Goes, Awaits, Writes
    <3>2. CASE Seal(s)
      BY <3>2, <1>0, <1>t DEF Seal, Goes, Writes
    <3>3. CASE Clean(s)
      <4>1. \/ write' = [write EXCEPT ![s] = [write[s] EXCEPT !.pc = "retention", !.temp = "none"]]
            \/ write' = [write EXCEPT ![s] = NoWrite]
        BY <3>3 DEF Clean, Goes
      <4>2. \/ write'[s] = [write[s] EXCEPT !.pc = "retention", !.temp = "none"]
            \/ write'[s] = NoWrite
        BY <4>1, <1>t
      <4>3. write[s] \in Writes
        BY <1>0
      <4>4. QED
        BY <4>2, <4>3, <1>w DEF Writes
    <3>4. QED
      BY <1>4, <3>1, <3>2, <3>3
  <2>3. Ordered(s)'
    BY <1>0, <2>1, <2>2, RestKeepsOrder
  <2>4. QED
    BY <2>1, <2>3
<1>5. CASE PassBegins \/ PassDates \/ TimePasses \/ UNCHANGED writerVars
  BY <1>5 DEF PassBegins, PassDates, TimePasses, writerVars, fileVars, taskVars
<1>6. CASE PassRemoves
  <2>1. UNCHANGED <<queue, log, write>>
    BY <1>6 DEF PassRemoves
  <2>2. ASSUME NEW u \in Sessions PROVE file'[u] \in {file[u], 0}
    BY <1>6, <1>t DEF PassRemoves
  <2>3. ASSUME NEW u \in Sessions PROVE InOrder(queue[u], write[u], log[u], 0)
    <3>1. write[u].snapshot \in Nat /\ \A i \in 1..Len(queue[u]) : queue[u][i] \in Nat
      BY <1>0 DEF Writes
    <3>2. QED
      BY <1>0, <3>1 DEF InOrder
  <2>4. QED
    BY <2>1, <2>2, <2>3
<1>7. CASE PassEnds
  <2>1. UNCHANGED <<queue, log, file>>
    BY <1>7 DEF PassEnds, fileVars
  <2>2. ASSUME NEW u \in Sessions PROVE write'[u] \in {write[u], NoWrite}
    BY <1>7, <1>t DEF PassEnds, Goes
  <2>3. ASSUME NEW u \in Sessions PROVE InOrder(queue[u], NoWrite, log[u], file[u])
    BY <1>0, <1>w, RestKeepsOrder
  <2>4. QED
    BY <2>1, <2>2, <2>3
<1>8. CASE Crash
  <2>1. ASSUME NEW u \in Sessions
        PROVE  queue'[u] = <<>> /\ write'[u] = NoWrite /\ log'[u] = 0 /\ file'[u] = file[u]
    BY <1>8 DEF Crash
  <2>2. QED
    BY <1>0, <1>w, <2>1 DEF InOrder
<1>9. QED
  BY <1>1, <1>2, <1>3, <1>4, <1>5, <1>6, <1>7, <1>8 DEF WriterNext, Write, Pass

\* Every variable of the receipt writer keeps its type, for any number of
\* sessions, events and crashes.
THEOREM WriterTypeCorrect == WriterSpec => []WriterTypeOK
<1>1. WriterInit => WriterTypeOK
  BY RetentionIsPositive DEF WriterInit, WriterTypeOK, NoWrite, NoPass, Writes, Passes, RetentionIsPositive
<1>2. QED
  BY <1>1, TypeStep, PTL DEF WriterSpec

LEMMA WriterInvariance == WriterSpec => []WriterInv
<1>1. WriterInit => WriterInv
  <2>1. ASSUME WriterInit PROVE WriterTypeOK
    BY <2>1, RetentionIsPositive DEF WriterInit, WriterTypeOK, NoWrite, NoPass, Writes, Passes, RetentionIsPositive
  <2>2. ASSUME WriterInit PROVE \A s \in Sessions : Ordered(s)
    BY <2>2 DEF WriterInit, Ordered, InOrder, NoWrite
  <2>3. QED
    BY <2>1, <2>2, OrderIsInvariant DEF Ordered
<1>2. WriterInv /\ [WriterNext]_writerVars => WriterInv'
  BY TypeStep, OrderStep, OrderIsInvariant DEF Ordered
<1>3. QED
  BY <1>1, <1>2, PTL DEF WriterSpec

-----------------------------------------------------------------------------
\* Each step is one of the abstract directory, or leaves the files alone.
LEMMA StepRefines ==
  ASSUME WriterInv, WriterInv', [WriterNext]_writerVars
  PROVE  [Directory!Next]_file
<1>t. file \in [Sessions -> Nat] /\ write \in [Sessions -> Writes]
  BY DEF WriterInv, WriterTypeOK
<1>1. ASSUME NEW s \in Sessions, Rename(s) PROVE [Directory!Next]_file
  <2>1. CASE UNCHANGED file
    BY <2>1
  <2>2. CASE Renamed(s)
    <3>1. write[s].pc = "rename" /\ write[s].snapshot \in Nat
      BY <1>1, <1>t DEF Rename, Awaits, Writes
    <3>2. write[s].snapshot > file[s]
      BY <3>1 DEF WriterInv, WriteIsNewer
    <3>3. file' = [file EXCEPT ![s] = write[s].snapshot]
      BY <2>2 DEF Renamed
    <3>4. file'[s] = write[s].snapshot
      BY <3>3, <1>t
    <3>5. Directory!Put(s)
      BY <3>2, <3>3, <3>4 DEF Directory!Put
    <3>6. QED
      BY <3>5 DEF Directory!Next
  <2>3. QED
    BY <1>1, <2>1, <2>2 DEF Rename
<1>2. ASSUME NEW s \in Sessions, Prepare(s) \/ Fill(s) \/ Seal(s) \/ Clean(s) \/ Emit(s)
      PROVE  UNCHANGED file
  BY <1>2 DEF Prepare, Fill, Seal, Clean, Emit, fileVars
<1>3. CASE PassRemoves
  <2>1. CASE UNCHANGED file
    BY <2>1
  <2>2. ASSUME NEW s \in Sessions, file' = [file EXCEPT ![s] = 0]
        PROVE  [Directory!Next]_file
    <3>1. CASE file[s] = 0
      BY <3>1, <2>2, <1>t
    <3>2. CASE file[s] # 0
      BY <3>2, <2>2 DEF Directory!Next, Directory!Drop
    <3>3. QED
      BY <3>1, <3>2
  <2>3. pass.doomed \subseteq Sessions
    BY DEF WriterInv, WriterTypeOK, Passes
  <2>4. QED
    BY <1>3, <2>1, <2>2, <2>3 DEF PassRemoves
<1>4. CASE PassBegins \/ PassDates \/ PassEnds \/ TimePasses \/ Crash \/ UNCHANGED writerVars
  BY <1>4 DEF PassBegins, PassDates, PassEnds, TimePasses, Crash, writerVars, fileVars
<1>5. QED
  BY <1>1, <1>2, <1>3, <1>4 DEF WriterNext, Write, Pass

\* The queues, the temporary files and the passes together implement a directory
\* in which a receipt only ever moves on to a later whole snapshot or goes.
THEOREM Refinement == WriterSpec => ImplementsDirectory
<1>1. WriterInit => Directory!Init
  BY DEF WriterInit, Directory!Init
<1>2. QED
  BY <1>1, WriterInvariance, StepRefines, PTL DEF WriterSpec, ImplementsDirectory, Directory!Spec
-----------------------------------------------------------------------------
(* The limits of the directory.                                            *)

\* What a pass has dated and will not remove is within the limits from the start.
Spared == Receipts \ (pass.fresh \union pass.doomed)

SparedAreFew == pass.pc = "remove" => Cardinality(Spared) <= MaxFiles

SparedAreYoung ==
  pass.pc = "remove" =>
    /\ \A s \in Spared \ {pass.for} : Age(written[s]) < Retention
    /\ \A f \in litter \ pass.stale : Age(f.at) < TempAge

PassInv ==
  /\ SparedAreFew
  /\ SparedAreYoung
  /\ pass.pc = "date" => pass.fresh = {}
  /\ pass.since <= clock

LEMMA ReceiptsAreFinite ==
  IsFiniteSet(Receipts) /\ \A S \in SUBSET Receipts :
    /\ IsFiniteSet(S) /\ Cardinality(S) \in Nat
    /\ \A T \in SUBSET S : Cardinality(T) <= Cardinality(S)
                           /\ Cardinality(S \ T) = Cardinality(S) - Cardinality(T)
<1>1. IsFiniteSet(Receipts)
  BY SessionsAreFinite, FS_Subset DEF Receipts, SessionsAreFinite
<1>2. ASSUME NEW S \in SUBSET Receipts PROVE IsFiniteSet(S) /\ Cardinality(S) \in Nat
  BY <1>1, FS_Subset, FS_CardinalityType
<1>3. ASSUME NEW S \in SUBSET Receipts, NEW T \in SUBSET S
      PROVE  /\ Cardinality(T) <= Cardinality(S)
             /\ Cardinality(S \ T) = Cardinality(S) - Cardinality(T)
  <2>1. IsFiniteSet(S) /\ IsFiniteSet(T) /\ S \intersect T = T
    BY <1>2, FS_Subset
  <2>2. Cardinality(T) <= Cardinality(S)
    BY <2>1, FS_Subset
  <2>3. Cardinality(S \ T) = Cardinality(S) - Cardinality(S \intersect T)
    BY <2>1, FS_Difference
  <2>4. QED
    BY <2>1, <2>2, <2>3
<1>4. QED
  BY <1>1, <1>2, <1>3

\* The pass decides so that what it spares is within the limits.
LEMMA DatesSpareFew ==
  ASSUME WriterInv, PassInv, PassDates
  PROVE  PassInv'
<1> USE RetentionIsPositive DEF RetentionIsPositive
<1>1. PICK D \in SUBSET Receipts :
        /\ IsExcess(D, Receipts \ Overdue)
        /\ pass' = [pass EXCEPT !.pc = "remove", !.names = {}, !.doomed = Overdue \union D,
                                !.stale = {f \in Temps : Age(f.at) >= TempAge}]
  BY DEF PassDates
<1>2. /\ pass.pc = "date" /\ pass.fresh = {} /\ pass.since \in Nat /\ clock \in Nat
      /\ pass.since <= clock /\ pass \in Passes /\ written \in [Sessions -> Nat]
      /\ litter \subseteq TempFiles
  BY DEF PassDates, PassInv, WriterInv, WriterTypeOK, Passes
<1>3. /\ pass'.pc = "remove" /\ pass'.doomed = Overdue \union D /\ pass'.fresh = {}
      /\ pass'.since = pass.since /\ pass'.for = pass.for
      /\ pass'.stale = {f \in Temps : Age(f.at) >= TempAge}
  BY <1>1, <1>2 DEF Passes
<1>4. UNCHANGED <<clock, file, written, litter>> /\ Receipts' = Receipts
  BY DEF PassDates, fileVars, Receipts
<1>5. Spared' = (Receipts \ Overdue) \ D
  BY <1>3, <1>4 DEF Spared
<1>6. Cardinality(Spared') <= MaxFiles
  <2>1. /\ Receipts \ Overdue \in SUBSET Receipts /\ D \in SUBSET (Receipts \ Overdue)
        /\ Cardinality(D) = IF Cardinality(Receipts \ Overdue) > MaxFiles
                            THEN Cardinality(Receipts \ Overdue) - MaxFiles ELSE 0
    BY <1>1 DEF IsExcess
  <2>2. /\ Cardinality(Receipts \ Overdue) \in Nat
        /\ Cardinality((Receipts \ Overdue) \ D)
             = Cardinality(Receipts \ Overdue) - Cardinality(D)
    BY <2>1, ReceiptsAreFinite
  <2>3. QED
    BY <1>5, <2>1, <2>2
<1>7. ASSUME NEW s \in Spared' \ {pass.for} PROVE pass.since - written[s] < Retention
  <2>1. s \in Receipts /\ s \notin Overdue /\ s # pass.for /\ written[s] \in Nat
    BY <1>2, <1>5, <1>7 DEF Receipts
  <2>2. ~ (pass.since - written[s] >= Retention)
    BY <2>1 DEF Overdue, Age
  <2>3. QED
    BY <1>2, <2>1, <2>2
<1>8. ASSUME NEW f \in litter, f \notin pass'.stale PROVE pass.since - f.at < TempAge
  <2>1. f \in Temps /\ f.at \in Nat
    BY <1>2 DEF Temps, TempFiles
  <2>2. ~ (pass.since - f.at >= TempAge)
    BY <1>3, <1>8, <2>1 DEF Age
  <2>3. QED
    BY <1>2, <2>1, <2>2
<1>9. SparedAreFew' /\ SparedAreYoung'
  BY <1>3, <1>4, <1>6, <1>7, <1>8 DEF SparedAreFew, SparedAreYoung, Age
<1>10. QED
  BY <1>2, <1>3, <1>4, <1>9 DEF PassInv

\* A step that spares no more receipts, dates none anew and leaves no abandoned
\* temporary file keeps the limits.
LEMMA SparingLess ==
  ASSUME WriterInv, PassInv, pass'.pc = pass.pc, pass'.since = pass.since,
         pass'.for = pass.for, pass.pc = "date" => pass'.fresh = {},
         Spared' \subseteq Spared, \A s \in Spared' : written'[s] = written[s],
         \A f \in litter' \ pass'.stale :
           f \in litter \ pass.stale \/ Age(f.at) < TempAge,
         clock \in Nat, clock' \in Nat, clock <= clock'
  PROVE  PassInv'
<1>1. Spared \in SUBSET Receipts /\ Spared' \in SUBSET Spared
  BY DEF Spared
<1>2. /\ Cardinality(Spared') <= Cardinality(Spared)
      /\ Cardinality(Spared') \in Nat /\ Cardinality(Spared) \in Nat
  BY <1>1, ReceiptsAreFinite
<1>3. SparedAreFew'
  BY <1>2, RetentionIsPositive DEF SparedAreFew, PassInv, RetentionIsPositive
<1>4. SparedAreYoung'
  BY DEF SparedAreYoung, PassInv, Age
<1>5. pass.since \in Nat
  BY DEF WriterInv, WriterTypeOK, Passes
<1>6. QED
  BY <1>3, <1>4, <1>5 DEF PassInv

LEMMA PassStep ==
  ASSUME WriterInv, WriterInv', PassInv, [WriterNext]_writerVars
  PROVE  PassInv'
<1> USE RetentionIsPositive DEF RetentionIsPositive
<1>t. /\ pass \in Passes /\ clock \in Nat /\ clock' \in Nat /\ pass.since \in Nat
      /\ file \in [Sessions -> Nat] /\ written \in [Sessions -> Nat]
      /\ write \in [Sessions -> Writes] /\ pass.since <= clock
  BY DEF WriterInv, WriterTypeOK, Passes, PassInv
<1>1. ASSUME UNCHANGED <<clock, pass, file, written, litter>> PROVE PassInv'
  BY <1>1 DEF PassInv, SparedAreFew, SparedAreYoung, Spared, Receipts, Age
<1>2. ASSUME NEW s \in Sessions, Emit(s) \/ Prepare(s) \/ Fill(s) \/ Seal(s) PROVE PassInv'
  BY <1>1, <1>2 DEF Emit, Prepare, Fill, Seal, fileVars
<1>3. ASSUME NEW s \in Sessions, Rename(s) PROVE PassInv'
  <2>1. CASE UNCHANGED <<file, written, pass>>
    BY <1>1, <1>3, <2>1 DEF Rename
  <2>2. CASE Renamed(s)
    <3>1. UNCHANGED <<clock, litter>>
      BY <1>3 DEF Rename
    <3>2. /\ pass'.pc = pass.pc /\ pass'.since = pass.since /\ pass'.for = pass.for
          /\ pass'.stale = pass.stale /\ pass'.doomed = pass.doomed
          /\ pass.pc # "remove" => pass'.fresh = pass.fresh
          /\ pass.pc = "remove" => pass'.fresh = pass.fresh \union {s}
      BY <2>2, <1>t DEF Renamed, Passes
    <3>3. /\ \A u \in Sessions \ {s} : file'[u] = file[u] /\ written'[u] = written[u]
      BY <2>2, <1>t DEF Renamed
    <3>4. CASE pass.pc = "remove"
      <4>1. Spared' \subseteq Spared /\ s \notin Spared'
        BY <3>2, <3>3, <3>4 DEF Spared, Receipts
      <4>2. \A u \in Spared' : written'[u] = written[u]
        BY <3>3, <4>1 DEF Spared, Receipts
      <4>3. QED
        BY <1>t, <3>1, <3>2, <3>4, <4>1, <4>2, SparingLess
    <3>5. CASE pass.pc # "remove"
      BY <1>t, <3>1, <3>2, <3>5 DEF PassInv, SparedAreFew, SparedAreYoung
    <3>6. QED
      BY <3>4, <3>5
  <2>3. QED
    BY <1>3, <2>1, <2>2 DEF Rename
<1>4. ASSUME NEW s \in Sessions, Clean(s) PROVE PassInv'
  <2>1. UNCHANGED <<clock, pass, file, written>>
    BY <1>4 DEF Clean
  <2>2. litter' = litter \/ litter' = litter \union Temp(s)
    BY <1>4 DEF Clean
  <2>3. \A f \in Temp(s) : f.at = clock
    BY DEF Temp
  <2>4. \A f \in litter' \ pass'.stale : f \in litter \ pass.stale \/ Age(f.at) < TempAge
    BY <1>t, <2>1, <2>2, <2>3 DEF Age
  <2>5. Spared' = Spared
    BY <2>1 DEF Spared, Receipts
  <2>6. pass.pc = "date" => pass'.fresh = {}
    BY <2>1 DEF PassInv
  <2>7. QED
    BY <1>t, <2>1, <2>4, <2>5, <2>6, SparingLess
<1>5. CASE PassBegins
  <2>1. /\ UNCHANGED <<clock, file, written, litter>>
        /\ pass'.pc = "date" /\ pass'.fresh = {} /\ pass'.since = clock
    BY <1>5 DEF PassBegins, fileVars, NoPass
  <2>2. QED
    BY <1>t, <2>1 DEF PassInv, SparedAreFew, SparedAreYoung
<1>6. CASE PassDates
  BY <1>6, DatesSpareFew
<1>7. CASE PassRemoves
  <2>1. /\ pass.pc = "remove" /\ UNCHANGED clock
        /\ pass'.pc = pass.pc /\ pass'.since = pass.since /\ pass'.for = pass.for
    BY <1>7, <1>t DEF PassRemoves, Passes
  <2>2. CASE \E f \in pass.stale :
               /\ litter' = litter \ {f}
               /\ pass' = [pass EXCEPT !.stale = @ \ {f}]
               /\ UNCHANGED <<file, written>>
    <3>1. PICK f \in pass.stale :
            /\ litter' = litter \ {f}
            /\ pass' = [pass EXCEPT !.stale = @ \ {f}]
            /\ UNCHANGED <<file, written>>
      BY <2>2
    <3>2. /\ pass'.stale = pass.stale \ {f} /\ pass'.doomed = pass.doomed
          /\ pass'.fresh = pass.fresh
      BY <3>1, <1>t DEF Passes
    <3>3. Spared' = Spared
      BY <3>1, <3>2 DEF Spared, Receipts
    <3>4. \A g \in litter' \ pass'.stale : g \in litter \ pass.stale
      BY <3>1, <3>2
    <3>5. QED
      BY <1>t, <2>1, <3>1, <3>3, <3>4, SparingLess
  <2>3. CASE \E s \in pass.doomed :
               /\ file' = [file EXCEPT ![s] = 0]
               /\ written' = [written EXCEPT ![s] = 0]
               /\ pass' = [pass EXCEPT !.doomed = @ \ {s}]
               /\ UNCHANGED litter
    <3>1. PICK s \in pass.doomed :
            /\ file' = [file EXCEPT ![s] = 0]
            /\ written' = [written EXCEPT ![s] = 0]
            /\ pass' = [pass EXCEPT !.doomed = @ \ {s}]
            /\ UNCHANGED litter
      BY <2>3
    <3>2. /\ pass'.stale = pass.stale /\ pass'.doomed = pass.doomed \ {s}
          /\ pass'.fresh = pass.fresh /\ s \in Sessions
      BY <3>1, <1>t DEF Passes
    <3>3. /\ file'[s] = 0
          /\ \A u \in Sessions \ {s} : file'[u] = file[u] /\ written'[u] = written[u]
      BY <3>1, <3>2, <1>t
    <3>4. Spared' \subseteq Spared /\ s \notin Spared'
      BY <3>2, <3>3 DEF Spared, Receipts
    <3>5. \A u \in Spared' : written'[u] = written[u]
      BY <3>3, <3>4 DEF Spared, Receipts
    <3>6. \A g \in litter' \ pass'.stale : g \in litter \ pass.stale
      BY <3>1, <3>2
    <3>7. QED
      BY <1>t, <2>1, <3>4, <3>5, <3>6, SparingLess
  <2>4. QED
    BY <1>7, <2>2, <2>3 DEF PassRemoves
<1>8. CASE PassEnds \/ Crash
  <2>1. pass' = NoPass /\ UNCHANGED clock
    BY <1>8 DEF PassEnds, Crash
  <2>2. QED
    BY <1>t, <2>1 DEF PassInv, SparedAreFew, SparedAreYoung, NoPass
<1>9. CASE TimePasses
  <2>1. UNCHANGED <<pass, file, written, litter>> /\ clock' = clock + 1
    BY <1>9 DEF TimePasses, fileVars, taskVars
  <2>2. QED
    BY <1>t, <2>1 DEF PassInv, SparedAreFew, SparedAreYoung, Spared, Receipts, Age
<1>10. CASE UNCHANGED writerVars
  BY <1>1, <1>10 DEF writerVars, fileVars, taskVars
<1>11. QED
  BY <1>2, <1>3, <1>4, <1>5, <1>6, <1>7, <1>8, <1>9, <1>10 DEF WriterNext, Write, Pass

\* A retention pass that has removed all it meant to leaves no more receipts, no
\* older ones and no more abandoned files than the limits allow, but for what was
\* renewed since it looked, for any number of sessions and any limits.
THEOREM RetentionIsKept == WriterSpec => []RetentionHolds
<1>1. WriterInit => PassInv
  BY DEF WriterInit, PassInv, SparedAreFew, SparedAreYoung, NoPass
<1>2. WriterInv /\ PassInv => RetentionHolds
  <2>1. ASSUME pass.doomed = {} PROVE Spared = Receipts \ pass.fresh
    BY <2>1 DEF Spared
  <2>2. QED
    BY <2>1 DEF PassInv, SparedAreFew, SparedAreYoung, RetentionHolds
<1>3. QED
  BY <1>1, <1>2, PassStep, WriterInvariance, PTL DEF WriterSpec
=============================================================================
