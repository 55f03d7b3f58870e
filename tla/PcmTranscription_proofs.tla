------------------------ MODULE PcmTranscription_proofs ------------------------
(***************************************************************************)
(* What holds of the ordered PCM reducer for messages with any numbers,    *)
(* and of the recogniser that is fed from it for any limits and whatever   *)
(* its adapter does.                                                       *)
(***************************************************************************)
EXTENDS PcmTranscription, TLAPS

-----------------------------------------------------------------------------
(* The inductive invariant.                                                 *)

\* The counters agree with each other while the stream is still open.
Accounted(s) ==
  /\ s.startTime <= s.lastTime
  /\ s.byteCount = 2 * s.frameCount
  /\ PcmByteCountIs(s.loss.droppedFrameCount, s.loss.droppedByteCount)
  /\ s.lastSequence = s.chunkCount + s.missingCount
  /\ s.gapCount <= s.missingCount
  /\ s.missingCount > 0 => s.gapCount > 0
  /\ s.complete <=> s.missingCount = 0 /\ HasNoLoss(s.loss)

\* Without a gap, the spool is the chunks so far.
SpoolAgrees ==
  /\ Len(spooled) = stream.chunkCount
  /\ stream.missingCount = 0 => \A i \in 1..Len(spooled) : spooled[i] = i
  /\ stream.phase = "idle" => spooled = <<>>

EmittedAgrees(s) ==
  s.phase = "stopped" =>
    /\ PcmByteCountIs(s.emittedFrames, s.emittedBytes)
    /\ IF s.missingCount > 0
       THEN s.emittedFrames > s.frameCount /\ s.emittedBytes > s.byteCount
       ELSE s.emittedFrames = s.frameCount /\ s.emittedBytes = s.byteCount

IInv == TypeOK /\ Accounted(stream) /\ SpoolAgrees /\ EmittedAgrees(stream)

-----------------------------------------------------------------------------
\* Loss is never taken back: a message without loss follows only such a stream.
LEMMA NoLossBefore ==
  ASSUME NEW next \in Evidence, NEW current \in Evidence \union {NoEvidence},
         Covers(next, current), HasNoLoss(next)
  PROVE  HasNoLoss(current)
<1> USE BoundsAreNatural DEF BoundsAreNatural
<1>1. CASE current = NoEvidence
  BY <1>1 DEF HasNoLoss
<1>2. CASE current \in Evidence
  <2>1. /\ current.captureGapCount \in Nat /\ current.captureGapCount <= 0
        /\ current.droppedFrameCount \in Nat /\ current.droppedFrameCount <= 0
        /\ current.droppedByteCount \in Nat /\ current.droppedByteCount <= 0
        /\ current.overflowCount \in Nat /\ current.overflowCount <= 0
    BY <1>2 DEF Evidence, Covers, HasNoLoss, NoEvidence
  <2>2. /\ current.captureGapCount = 0 /\ current.droppedFrameCount = 0
        /\ current.droppedByteCount = 0 /\ current.overflowCount = 0
    BY <2>1
  <2> QED BY <1>2, <2>2 DEF Evidence, HasNoLoss, NoEvidence
<1> QED BY <1>1, <1>2

LEMMA FreshIsSound == Fresh \in Streams /\ Accounted(Fresh) /\ Fresh.missingCount = 0
<1> USE BoundsAreNatural, SomeIdentity DEF BoundsAreNatural, SomeIdentity
<1>1. (CHOOSE i \in Identities : TRUE) \in Identities
  OBVIOUS
<1>2. Fresh \in Streams
  BY <1>1 DEF Fresh, Streams, Counts
<1>3. Accounted(Fresh) /\ Fresh.missingCount = 0
  BY DEF Fresh, Accounted, PcmByteCountIs, IsSafe, HasNoLoss, NoEvidence
<1> QED BY <1>2, <1>3

LEMMA InitSound == Init => IInv
<1> SUFFICES ASSUME Init PROVE IInv
  OBVIOUS
<1>1. TypeOK /\ Accounted(stream)
  BY FreshIsSound DEF Init, TypeOK
<1>2. SpoolAgrees /\ EmittedAgrees(stream)
  BY DEF Init, Fresh, SpoolAgrees, EmittedAgrees
<1> QED BY <1>1, <1>2 DEF IInv

LEMMA StartSound ==
  ASSUME IInv, NEW m \in Starts, Start(m)
  PROVE  IInv'
<1> USE BoundsAreNatural DEF BoundsAreNatural
<1> DEFINE s == [Fresh EXCEPT !.phase = "open", !.identity = m.identity,
                              !.startTime = m.time, !.lastTime = m.time]
<1>1. Fresh \in Streams /\ Accounted(Fresh) /\ Fresh.missingCount = 0
  BY FreshIsSound
<1>2. m.identity \in Identities /\ m.time \in Counts
  BY DEF Starts, Counts
<1>3. s \in Streams /\ s.phase = "open" /\ s.missingCount = 0 /\ s.chunkCount = 0
  BY <1>1, <1>2 DEF Streams, Fresh
<1>4. Accounted(s)
  BY <1>1, <1>2 DEF Accounted, Streams, Counts
<1>5. stream' = s /\ spooled' = <<>>
  BY DEF Start, IInv, SpoolAgrees
<1> QED BY <1>3, <1>4, <1>5 DEF IInv, TypeOK, SpoolAgrees, EmittedAgrees

LEMMA ChunkSound ==
  ASSUME IInv, NEW m \in Chunks, Chunk(m)
  PROVE  IInv'
<1> USE BoundsAreNatural DEF BoundsAreNatural
<1>1. /\ m.time \in Counts /\ m.sequence \in 1..MaxSafe /\ m.sequence \in Sequences
      /\ m.frames \in 1..MaxSafe /\ m.bytes \in 1..MaxSafe /\ m.loss \in Evidence
  BY DEF Chunks, Counts
<1>2. stream \in Streams /\ spooled \in Seq(Sequences) /\ Accounted(stream)
  BY DEF IInv, TypeOK
<1>3. /\ stream.phase = "open" /\ m.time >= stream.lastTime
      /\ Covers(m.loss, stream.loss)
      /\ PcmByteCountIs(m.loss.droppedFrameCount, m.loss.droppedByteCount)
      /\ m.sequence > stream.lastSequence /\ m.bytes = 2 * m.frames
      /\ stream.chunkCount + 1 <= MaxSafe
      /\ stream.frameCount + m.frames <= MaxSafe
      /\ stream.byteCount + m.bytes <= MaxSafe
      /\ stream.missingCount + MissingBefore(m) <= MaxSafe
      /\ spooled' = Append(spooled, m.sequence)
  BY DEF Chunk, Continues, IsNew, PcmByteCountIs, IsSafe
<1>0. /\ stream.lastSequence \in Nat /\ m.sequence \in Nat
      /\ m.sequence > stream.lastSequence
  BY <1>1, <1>2, <1>3 DEF Streams, Counts
<1>a. PICK missing \in Nat : /\ missing = m.sequence - stream.lastSequence - 1
                             /\ missing = MissingBefore(m)
  BY <1>0 DEF MissingBefore
<1>b. PICK gaps \in {0, 1} : gaps = IF missing > 0 THEN 1 ELSE 0
  OBVIOUS
<1>4. PICK complete \in BOOLEAN :
        complete = (stream.complete /\ missing = 0 /\ HasNoLoss(m.loss))
  BY Zenon
<1>5. PICK s : s = [stream EXCEPT
           !.lastTime     = m.time,
           !.lastSequence = m.sequence,
           !.chunkCount   = @ + 1,
           !.frameCount   = @ + m.frames,
           !.byteCount    = @ + m.bytes,
           !.gapCount     = @ + gaps,
           !.missingCount = @ + missing,
           !.loss         = m.loss,
           !.complete     = complete]
  OBVIOUS
<1>6. stream' = s
  BY <1>a, <1>b, <1>4, <1>5, Zenon DEF Chunk
<1>7. /\ gaps <= missing
      /\ missing > 0 => gaps = 1
      /\ missing = m.sequence - stream.lastSequence - 1
      /\ stream.missingCount + missing <= MaxSafe
  BY <1>a, <1>b, <1>3
<1>8. /\ stream.chunkCount \in Nat /\ stream.frameCount \in Nat
      /\ stream.byteCount \in Nat /\ stream.gapCount \in Nat
      /\ stream.missingCount \in Nat /\ stream.lastSequence \in Nat
      /\ stream.gapCount <= stream.missingCount
  BY <1>2 DEF Streams, Counts, Accounted
<1>9. /\ s.startTime = stream.startTime /\ s.lastTime = m.time
      /\ s.lastSequence = m.sequence /\ s.chunkCount = stream.chunkCount + 1
      /\ s.frameCount = stream.frameCount + m.frames
      /\ s.byteCount = stream.byteCount + m.bytes
      /\ s.gapCount = stream.gapCount + gaps
      /\ s.missingCount = stream.missingCount + missing
  BY <1>2, <1>3, <1>5 DEF Streams
<1>9b. s.loss = m.loss /\ s.complete = complete /\ s.phase = "open"
  BY <1>2, <1>3, <1>5 DEF Streams
<1>10. s \in Streams
  <2>1. /\ stream.chunkCount + 1 \in Counts /\ stream.frameCount + m.frames \in Counts
        /\ stream.byteCount + m.bytes \in Counts
        /\ stream.missingCount + missing \in Counts
        /\ stream.gapCount + gaps \in Counts
        /\ m.sequence \in Counts
    <3>1. stream.chunkCount + 1 \in 0..MaxSafe
      BY <1>3, <1>8
    <3>a. m.frames \in Nat /\ m.bytes \in Nat
      BY <1>1
    <3>b. stream.frameCount \in Nat /\ stream.byteCount \in Nat
      BY <1>8
    <3>c. stream.frameCount + m.frames <= MaxSafe /\ stream.byteCount + m.bytes <= MaxSafe
      BY <1>3
    <3>2. stream.frameCount + m.frames \in 0..MaxSafe
      BY <3>a, <3>b, <3>c
    <3>3. stream.byteCount + m.bytes \in 0..MaxSafe
      BY <3>a, <3>b, <3>c
    <3>4. stream.missingCount + missing \in 0..MaxSafe
      BY <1>7, <1>8
    <3>5. stream.gapCount + gaps \in 0..MaxSafe
      BY <1>7, <1>8
    <3>6. m.sequence \in 0..MaxSafe
      BY <1>1
    <3> QED BY <3>1, <3>2, <3>3, <3>4, <3>5, <3>6 DEF Counts
  <2> QED BY <1>1, <1>2, <1>5, <2>1 DEF Streams
<1>11. Accounted(s)
  <2>1. s.startTime <= s.lastTime
    <3>1. stream.startTime \in Nat /\ stream.lastTime \in Nat /\ m.time \in Nat
      BY <1>1, <1>2 DEF Streams, Counts
    <3>2. stream.startTime <= stream.lastTime /\ m.time >= stream.lastTime
      BY <1>2, <1>3 DEF Accounted
    <3>3. stream.startTime <= m.time
      BY <3>1, <3>2
    <3> QED BY <3>3, <1>9
  <2>2. s.byteCount = 2 * s.frameCount
    BY SMTT(30), <1>1, <1>2, <1>3, <1>8, <1>9 DEF Accounted
  <2>3. s.lastSequence = s.chunkCount + s.missingCount
    <3>1. /\ stream.lastSequence = stream.chunkCount + stream.missingCount
          /\ stream.chunkCount \in Nat /\ stream.missingCount \in Nat
      BY <1>2, <1>8 DEF Accounted
    <3>2. m.sequence \in Nat /\ missing = m.sequence - stream.lastSequence - 1
      BY <1>0, <1>7
    <3>3. m.sequence = stream.chunkCount + 1 + (stream.missingCount + missing)
      BY <3>1, <3>2
    <3> QED BY <3>3, <1>9
  <2>4. s.gapCount <= s.missingCount /\ (s.missingCount > 0 => s.gapCount > 0)
    BY <1>2, <1>7, <1>8, <1>9 DEF Accounted
  <2>5. s.complete <=> s.missingCount = 0 /\ HasNoLoss(s.loss)
    <3>1. s.missingCount = 0 <=> stream.missingCount = 0 /\ missing = 0
      <4>1. stream.missingCount \in Nat /\ s.missingCount = stream.missingCount + missing
        BY <1>8, <1>9
      <4> QED BY <4>1
    <3>2. HasNoLoss(m.loss) => HasNoLoss(stream.loss)
      BY <1>1, <1>2, <1>3, NoLossBefore DEF Streams
    <3>3. stream.complete <=> stream.missingCount = 0 /\ HasNoLoss(stream.loss)
      BY <1>2 DEF Accounted
    <3> QED BY <1>4, <1>9b, <3>1, <3>2, <3>3, Zenon
  <2> QED BY <1>3, <1>9b, <2>1, <2>2, <2>3, <2>4, <2>5 DEF Accounted
<1>12. Len(spooled') = s.chunkCount
  BY <1>1, <1>2, <1>3, <1>9 DEF IInv, SpoolAgrees
<1>13. ASSUME s.missingCount = 0, NEW i \in 1..Len(spooled')
       PROVE  spooled'[i] = i
  <2>1. stream.missingCount = 0 /\ m.sequence = stream.chunkCount + 1
    <3>1. /\ stream.lastSequence = stream.chunkCount + stream.missingCount
          /\ stream.chunkCount \in Nat /\ stream.missingCount \in Nat
      BY <1>2, <1>8 DEF Accounted
    <3>2. stream.missingCount + missing = 0
      BY <1>9, <1>13
    <3>3. stream.missingCount = 0 /\ missing = 0
      BY <3>1, <3>2
    <3>4. m.sequence \in Nat /\ missing = m.sequence - stream.lastSequence - 1
      BY <1>0, <1>7
    <3> QED BY <3>1, <3>3, <3>4
  <2>2. Len(spooled) = stream.chunkCount
    BY DEF IInv, SpoolAgrees
  <2>3. CASE i \in 1..Len(spooled)
    <3>1. spooled[i] = i
      BY <2>1, <2>3 DEF IInv, SpoolAgrees
    <3> QED BY <1>2, <1>3, <2>3, <3>1
  <2>4. CASE i = Len(spooled) + 1
    BY <1>2, <1>3, <2>1, <2>2, <2>4
  <2> QED BY <1>2, <1>3, <1>13, <2>3, <2>4
<1>14. spooled' \in Seq(Sequences)
  BY <1>1, <1>2, <1>3
<1> QED BY <1>6, <1>9b, <1>10, <1>11, <1>12, <1>13, <1>14
      DEF IInv, TypeOK, SpoolAgrees, EmittedAgrees

LEMMA StopSound ==
  ASSUME IInv, NEW m \in Stops, Stop(m)
  PROVE  IInv'
<1> USE BoundsAreNatural DEF BoundsAreNatural
<1>1. /\ m.time \in Counts /\ m.frames \in Counts /\ m.bytes \in Counts
      /\ m.loss \in Evidence
  BY DEF Stops, Counts
<1>2. stream \in Streams /\ Accounted(stream) /\ SpoolAgrees
      /\ spooled \in Seq(Sequences)
  BY DEF IInv, TypeOK
<1>3. /\ m.time >= stream.lastTime /\ Covers(m.loss, stream.loss)
      /\ PcmByteCountIs(m.loss.droppedFrameCount, m.loss.droppedByteCount)
      /\ PcmByteCountIs(m.frames, m.bytes) /\ TotalsAgree(m)
      /\ UNCHANGED spooled
  BY DEF Stop, Continues
<1>4. PICK complete \in BOOLEAN : complete = (stream.complete /\ HasNoLoss(m.loss))
  BY Zenon
<1>5. PICK s : s = [stream EXCEPT
       !.phase = "stopped", !.lastTime = m.time, !.loss = m.loss,
       !.emittedFrames = m.frames, !.emittedBytes = m.bytes,
       !.complete = complete]
  OBVIOUS
<1>6. stream' = s
  BY <1>4, <1>5, Zenon DEF Stop
<1>7. s \in Streams
  BY <1>1, <1>2, <1>5 DEF Streams
<1>8. /\ s.startTime = stream.startTime /\ s.lastTime = m.time
      /\ s.lastSequence = stream.lastSequence /\ s.chunkCount = stream.chunkCount
      /\ s.frameCount = stream.frameCount /\ s.byteCount = stream.byteCount
      /\ s.gapCount = stream.gapCount /\ s.missingCount = stream.missingCount
      /\ s.loss = m.loss /\ s.complete = complete /\ s.phase = "stopped"
      /\ s.emittedFrames = m.frames /\ s.emittedBytes = m.bytes
  BY <1>2, <1>5 DEF Streams
<1>9. Accounted(s)
  <2>1. s.startTime <= s.lastTime
    BY <1>1, <1>2, <1>3, <1>8 DEF Accounted, Streams, Counts
  <2>2. s.complete <=> s.missingCount = 0 /\ HasNoLoss(s.loss)
    <3>1. HasNoLoss(m.loss) => HasNoLoss(stream.loss)
      BY <1>1, <1>2, <1>3, NoLossBefore DEF Streams
    <3>2. stream.complete <=> stream.missingCount = 0 /\ HasNoLoss(stream.loss)
      BY <1>2 DEF Accounted
    <3> QED BY <1>4, <1>8, <3>1, <3>2, Zenon
  <2> QED BY <1>2, <1>3, <1>8, <2>1, <2>2 DEF Accounted
<1>10. EmittedAgrees(s)
  BY <1>3, <1>8 DEF EmittedAgrees, TotalsAgree
<1> QED BY <1>2, <1>3, <1>6, <1>7, <1>8, <1>9, <1>10 DEF IInv, TypeOK, SpoolAgrees

LEMMA NextSound == IInv /\ [Next]_vars => IInv'
<1> SUFFICES ASSUME IInv, [Next]_vars PROVE IInv'
  OBVIOUS
<1>1. CASE UNCHANGED vars
  BY <1>1 DEF vars, IInv, TypeOK, SpoolAgrees
<1> QED BY <1>1, StartSound, ChunkSound, StopSound DEF Next

LEMMA Invariance == Spec => []IInv
BY InitSound, NextSound, PTL DEF Spec

-----------------------------------------------------------------------------
(* What follows for the receipt.                                            *)

\* No counter of a stream leaves the safe integers, whatever numbers its
\* messages carry (the safeAdd checks of applyOrderedPcmIngressMessage).
THEOREM TypeCorrect == Spec => []TypeOK
<1>1. IInv => TypeOK
  BY DEF IInv
<1> QED BY <1>1, Invariance, PTL

\* A stream that was accepted to its stop always has a valid receipt:
\* orderedPcmIngressReceiptFromState never throws for it.
THEOREM ReceiptsCohere == Spec => []ReceiptCoheres
<1>1. IInv => ReceiptCoheres
  <2> SUFFICES ASSUME IInv, stream.phase = "stopped" PROVE ReceiptIsValid(stream)
    BY DEF ReceiptCoheres
  <2> USE BoundsAreNatural DEF BoundsAreNatural
  <2>1. stream \in Streams /\ Accounted(stream) /\ EmittedAgrees(stream)
    BY DEF IInv, TypeOK
  <2>2. /\ stream.frameCount \in Nat /\ stream.byteCount \in 0..MaxSafe
        /\ stream.emittedFrames \in Nat /\ stream.emittedBytes \in Nat
        /\ stream.missingCount \in Nat /\ stream.gapCount \in Nat
    BY <2>1 DEF Streams, Counts
  <2>3. PcmByteCountIs(stream.frameCount, stream.byteCount)
    BY <2>1, <2>2 DEF Accounted, PcmByteCountIs, IsSafe
  <2>4. /\ stream.emittedFrames >= stream.frameCount
        /\ stream.emittedBytes >= stream.byteCount
        /\ stream.missingCount = 0 <=> stream.emittedFrames = stream.frameCount
        /\ stream.missingCount = 0 <=> stream.emittedBytes = stream.byteCount
    BY <2>1, <2>2 DEF EmittedAgrees
  <2>5. stream.complete <=>
          stream.missingCount = 0 /\ stream.gapCount = 0 /\ HasNoLoss(stream.loss)
    BY <2>1, <2>2 DEF Accounted
  <2> QED BY <2>1, <2>3, <2>4, <2>5 DEF ReceiptIsValid, Accounted, EmittedAgrees
<1> QED BY <1>1, Invariance, PTL

\* A receipt that says complete stands for a spool with every chunk of the
\* recording, once and in order.
THEOREM CompleteIsWhole == Spec => []CompleteMeansWhole
<1>1. IInv => CompleteMeansWhole
  <2> SUFFICES ASSUME IInv, stream.phase = "stopped", stream.complete
               PROVE  /\ spooled = [i \in 1..stream.lastSequence |-> i]
                      /\ stream.emittedFrames = stream.frameCount
                      /\ HasNoLoss(stream.loss)
    BY DEF CompleteMeansWhole
  <2> USE BoundsAreNatural DEF BoundsAreNatural
  <2>1. stream \in Streams /\ spooled \in Seq(Sequences) /\ Accounted(stream)
    BY DEF IInv, TypeOK
  <2>2. stream.missingCount = 0 /\ HasNoLoss(stream.loss)
    BY <2>1 DEF Accounted
  <2>3. stream.lastSequence = Len(spooled)
    BY <2>1, <2>2 DEF Accounted, IInv, SpoolAgrees, Streams, Counts
  <2>4. spooled = [i \in 1..stream.lastSequence |-> i]
    BY <2>1, <2>2, <2>3 DEF IInv, SpoolAgrees
  <2>5. stream.emittedFrames = stream.frameCount
    BY <2>2 DEF IInv, EmittedAgrees
  <2> QED BY <2>2, <2>4, <2>5
<1> QED BY <1>1, Invariance, PTL

-----------------------------------------------------------------------------
(* The recogniser's attempt.                                                *)

Lost == phase \in {"cancelled", "timed_out", "failed"}

\* The attempt was pushed what the spool holds.
Fed ==
  listening =>
    /\ pushed = Len(spooled) /\ stream.lastSequence = pushed
    /\ \A i \in 1..Len(spooled) : spooled[i] = i

\* How many chunks the adapter has been given and has let go of.
Released == IF handing THEN Len(taken) - 1 ELSE Len(taken)

\* What was taken and what is queued are the chunks pushed, in order; the oldest in
\* the queue is the one the adapter has, if it has one.
Chain ==
  /\ handing => queue # <<>> /\ taken # <<>>
  /\ Released + Len(queue) = pushed
  /\ \A i \in 1..Len(queue) : queue[i] = Released + i
  /\ \A i \in 1..Len(taken) : taken[i] = i

Chained == ~Lost => Chain

\* Once finish() is called the stream takes no more, and is complete.
FinishFollowsStop ==
  /\ finishing # "no" => listening /\ stream.phase = "stopped" /\ stream.complete
  /\ finishing \in {"adapter", "answered", "resolved"} /\ ~Lost => queue = <<>>
  /\ finishing = "resolved" <=> phase = "completed"
  /\ finals = <<>> \/ (finals = <<pushed>> /\ finishing # "no")
  /\ finishing = "resolved" => finals # <<>>

SttInv ==
  Stt!TypeOK /\ listening \in BOOLEAN /\ Fed /\ Chained /\ FinishFollowsStop

\* Steps of the attempt in which no chunk moves and no final is accepted.
Bystands ==
  /\ UNCHANGED <<vars, listening, pushed, queue, handing, taken, finals>>
  /\ Lost => Lost'
  /\ phase' = "completed" <=> phase = "completed"
  /\ \/ finishing' = finishing
     \/ /\ finishing \notin {"resolved", "no"}
        /\ \/ finishing' = "rejected"
           \/ finishing = "adapter" /\ finishing' = "answered"
           \/ finishing = "draining" /\ finishing' = "adapter" /\ queue = <<>>

LEMMA BystandersKeepAttempt ==
  ASSUME SttInv, Bystands, Stt!TypeOK'
  PROVE  SttInv'
<1>1. Fed'
  BY DEF SttInv, Bystands, Fed, vars
<1>2. Chained'
  BY DEF SttInv, Bystands, Chained, Chain, Released
<1>3. FinishFollowsStop'
  BY DEF SttInv, Bystands, FinishFollowsStop, vars
<1> QED BY <1>1, <1>2, <1>3 DEF SttInv, Bystands

\* A chunk that is accepted while the recogniser listens is pushed.
LEMMA PushKeepsChain ==
  ASSUME IInv, SttInv, NEW m \in Chunks, Chunk(m), listening, Stt!Push(m.sequence),
         UNCHANGED listening
  PROVE  SttInv'
<1> USE BoundsAreNatural DEF BoundsAreNatural
<1> DEFINE n == m.sequence
<1>1. /\ n \in Nat /\ n \in Sequences /\ spooled \in Seq(Sequences)
      /\ stream \in Streams /\ stream.phase = "open"
  BY DEF Chunks, IInv, TypeOK, Chunk, Continues
<1>2. /\ queue \in Seq(Nat) /\ taken \in Seq(Nat) /\ pushed \in Nat
      /\ handing \in BOOLEAN
  BY DEF SttInv, Stt!TypeOK
<1>3. /\ n = pushed + 1 /\ pushed' = n /\ queue' = Append(queue, n)
      /\ UNCHANGED <<handing, taken, phase, finishing, finals>>
      /\ ~Lost /\ phase # "completed"
  BY DEF Stt!Push, Stt!TakesChunks, Stt!GoesOn, Stt!Ended, Stt!eventVars, Lost
<1>4. /\ spooled' = Append(spooled, n) /\ stream'.lastSequence = n
  <2>1. stream'.lastSequence = n
    BY <1>1 DEF Chunk, Streams
  <2> QED BY <2>1 DEF Chunk
<1>5. Fed'
  <2>1. pushed = Len(spooled) /\ \A i \in 1..Len(spooled) : spooled[i] = i
    BY DEF SttInv, Fed
  <2>2. Len(spooled') = n /\ \A i \in 1..Len(spooled') : spooled'[i] = i
    BY <1>1, <1>3, <1>4, <2>1
  <2> QED BY <1>3, <1>4, <2>2 DEF Fed
<1>6. Chained'
  <2>1. Chain
    BY <1>3 DEF SttInv, Chained
  <2>2. Released' = Released /\ Released \in Int
    BY <1>2, <1>3 DEF Released
  <2>3. Len(queue') = Len(queue) + 1 /\ Len(queue) \in Nat
    BY <1>1, <1>2, <1>3
  <2>4. Released' + Len(queue') = pushed'
    BY <1>2, <1>3, <2>1, <2>2, <2>3 DEF Chain
  <2>5. ASSUME NEW i \in 1..Len(queue')
        PROVE  queue'[i] = Released' + i
    <3>1. CASE i \in 1..Len(queue)
      BY <1>1, <1>2, <1>3, <2>1, <2>2, <3>1 DEF Chain
    <3>2. CASE i = Len(queue) + 1
      <4>1. queue'[i] = n
        BY <1>1, <1>2, <1>3, <3>2
      <4>2. Released + i = pushed + 1
        <5>1. Released + Len(queue) = pushed
          BY <2>1 DEF Chain
        <5> QED BY <1>2, <2>2, <2>3, <3>2, <5>1
      <4> QED BY <1>3, <2>2, <4>1, <4>2
    <3> QED BY <2>3, <2>5, <3>1, <3>2
  <2>6. handing' => queue' # <<>> /\ taken' # <<>>
    <3>1. queue' # <<>>
      BY <1>1, <1>2, <1>3
    <3> QED BY <1>3, <2>1, <3>1 DEF Chain
  <2>7. \A i \in 1..Len(taken') : taken'[i] = i
    BY <1>3, <2>1 DEF Chain
  <2>8. Chain'
    BY <2>4, <2>5, <2>6, <2>7 DEF Chain
  <2> QED BY <2>8 DEF Chained
<1>7. FinishFollowsStop'
  <2>1. finishing = "no" /\ finals = <<>>
    BY <1>1 DEF SttInv, FinishFollowsStop
  <2> QED BY <1>3, <2>1 DEF FinishFollowsStop
<1>8. Stt!TypeOK'
  <2>1. Append(queue, n) \in Seq(Nat)
    BY <1>1, <1>2
  <2>2. UNCHANGED <<due, adapter, closing, partials>>
    BY DEF Stt!Push, Stt!eventVars
  <2> QED BY <1>1, <1>3, <2>1, <2>2 DEF SttInv, Stt!TypeOK
<1> QED BY <1>5, <1>6, <1>7, <1>8 DEF SttInv

\* A message to a stream whose recogniser is not configured, a start and a stop
\* leave the attempt alone.
LEMMA MessageKeepsAttempt ==
  ASSUME IInv, SttInv, Message
  PROVE  SttInv'
<1> USE BoundsAreNatural DEF BoundsAreNatural
<1>1. listening' = listening
  BY DEF Message, StreamStarts, ChunkAccepted, StreamStops, connection
<1>2. stream \in Streams /\ stream.phase # "stopped" /\ finishing = "no"
      /\ finals = <<>>
  BY DEF IInv, TypeOK, Message, SttInv, FinishFollowsStop
<1>3. ASSUME UNCHANGED attemptVars, ~listening
      PROVE  SttInv'
  BY <1>1, <1>2, <1>3
     DEF SttInv, attemptVars, Fed, Chained, Chain, Released, Lost, FinishFollowsStop,
         Stt!TypeOK
<1>4. ASSUME NEW m \in Starts, StreamStarts(m) PROVE SttInv'
  <2>1. stream'.lastSequence = 0 /\ spooled' = <<>> /\ spooled = <<>>
    <3>1. stream.phase = "idle" /\ spooled' = spooled
      BY <1>4 DEF StreamStarts, Start
    <3>2. stream'.lastSequence = 0
      BY <1>4 DEF StreamStarts, Start, Fresh
    <3> QED BY <3>1, <3>2 DEF IInv, SpoolAgrees
  <2>2. Fed'
    BY <1>1, <1>4, <2>1 DEF SttInv, Fed, StreamStarts, attemptVars
  <2> QED BY <1>1, <1>2, <1>4, <2>2
          DEF SttInv, StreamStarts, attemptVars, Chained, Chain, Released, Lost,
              FinishFollowsStop, Stt!TypeOK
<1>5. ASSUME NEW m \in Chunks, ChunkAccepted(m) PROVE SttInv'
  <2>1. CASE listening
    BY <1>1, <1>5, <2>1, PushKeepsChain DEF ChunkAccepted
  <2>2. CASE ~listening
    BY <1>3, <1>5, <2>2 DEF ChunkAccepted
  <2> QED BY <2>1, <2>2
<1>6. ASSUME NEW m \in Stops, StreamStops(m) PROVE SttInv'
  <2>1. stream'.lastSequence = stream.lastSequence /\ spooled' = spooled
    BY <1>2, <1>6 DEF StreamStops, Stop, Streams
  <2>2. Fed'
    BY <1>1, <1>6, <2>1 DEF SttInv, Fed, StreamStops, attemptVars
  <2> QED BY <1>1, <1>2, <1>6, <2>2
          DEF SttInv, StreamStops, attemptVars, Chained, Chain, Released, Lost,
              FinishFollowsStop, Stt!TypeOK
<1> QED BY <1>4, <1>5, <1>6 DEF Message

\* The oldest chunk is handed over, and let go of.
LEMMA HandOverKeepsChain ==
  ASSUME SttInv, Stt!HandOver, UNCHANGED <<vars, listening>>
  PROVE  SttInv'
<1>1. /\ queue \in Seq(Nat) /\ taken \in Seq(Nat) /\ pushed \in Nat
  BY DEF SttInv, Stt!TypeOK
<1>2. /\ queue # <<>> /\ ~handing /\ handing' = TRUE
      /\ taken' = Append(taken, Head(queue))
      /\ UNCHANGED <<phase, pushed, queue, finishing, finals>>
      /\ ~Lost
  BY DEF Stt!HandOver, Stt!GoesOn, Stt!Ended, Stt!eventVars, Lost
<1>3. Chain
  BY <1>2 DEF SttInv, Chained
<1>4. Head(queue) = Len(taken) + 1 /\ Head(queue) \in Nat
  BY <1>1, <1>2, <1>3 DEF Chain, Released
<1>5. /\ taken' \in Seq(Nat) /\ Len(taken') = Len(taken) + 1 /\ taken' # <<>>
      /\ \A i \in 1..Len(taken') : taken'[i] = i
  BY <1>1, <1>2, <1>3, <1>4 DEF Chain
<1>6. Released' = Released
  BY <1>1, <1>2, <1>5 DEF Released
<1>7. Chain'
  BY <1>2, <1>3, <1>5, <1>6 DEF Chain
<1>8. Stt!TypeOK'
  BY <1>2, <1>5 DEF SttInv, Stt!TypeOK, Stt!HandOver, Stt!eventVars
<1> QED BY <1>2, <1>7, <1>8 DEF SttInv, Chained, Fed, FinishFollowsStop, Lost, vars

LEMMA ReleaseKeepsChain ==
  ASSUME SttInv, handing, Stt!Released, UNCHANGED <<vars, listening, finals, finishing>>,
         ~Lost => queue # <<>> /\ phase # "completed",
         phase' = phase \/ (~Lost /\ phase # "completed" /\ Lost'),
         Stt!TypeOK'
  PROVE  SttInv'
<1>1. /\ queue \in Seq(Nat) /\ taken \in Seq(Nat) /\ pushed \in Nat
  BY DEF SttInv, Stt!TypeOK
<1>2. /\ queue' = Tail(queue) /\ handing' = FALSE /\ UNCHANGED <<pushed, taken>>
  BY DEF Stt!Released
<1>3. Chained'
  <2> SUFFICES ASSUME ~Lost' PROVE Chain'
    BY DEF Chained
  <2>1. ~Lost
    BY DEF Lost
  <2>2. Chain /\ queue # <<>>
    BY <2>1 DEF SttInv, Chained
  <2>3. Released \in Int /\ Released' = Released + 1
    BY <1>1, <1>2 DEF Released
  <2>4. /\ Len(queue) \in Nat /\ Len(queue) # 0 /\ Len(queue') = Len(queue) - 1
        /\ \A i \in 1..Len(queue') : queue'[i] = queue[i + 1]
    BY <1>1, <1>2, <2>2
  <2>5. Released' + Len(queue') = pushed'
    <3>1. Released + Len(queue) = pushed
      BY <2>2 DEF Chain
    <3>2. (Released + 1) + (Len(queue) - 1) = pushed
      BY <1>1, <2>3, <2>4, <3>1
    <3> QED BY <1>2, <2>3, <2>4, <3>2
  <2>6. \A i \in 1..Len(queue') : queue'[i] = Released' + i
    <3> TAKE i \in 1..Len(queue')
    <3>1. i \in Nat /\ i + 1 \in 1..Len(queue)
      BY <2>4
    <3>2. queue[i + 1] = Released + (i + 1)
      BY <2>2, <3>1 DEF Chain
    <3> QED BY <2>3, <2>4, <3>1, <3>2
  <2> QED BY <1>2, <2>2, <2>5, <2>6 DEF Chain
<1>4. FinishFollowsStop'
  <2>1. ~Lost' => finishing \notin {"adapter", "answered", "resolved"}
    BY DEF SttInv, FinishFollowsStop, Lost
  <2>2. finishing' = "resolved" <=> phase' = "completed"
    BY DEF SttInv, FinishFollowsStop, Lost
  <2> QED BY <1>2, <2>1, <2>2 DEF SttInv, FinishFollowsStop, vars
<1> QED BY <1>2, <1>3, <1>4 DEF SttInv, Fed, vars

LEMMA AttemptTyped ==
  ASSUME SttInv, Stt!Adapter \/ Stt!Continuation \/ Stt!DeadlinePasses
                   \/ Stt!Expire \/ Stt!Cancel \/ Stt!PushFails \/ Stt!FinishFails
  PROVE  Stt!TypeOK'
<1>1. Stt!TypeOK
  BY DEF SttInv
<1>2. CASE Stt!AdapterOpens \/ Stt!AdapterRefuses \/ Stt!OpenAdapter
  BY <1>1, <1>2 DEF Stt!TypeOK, Stt!AdapterOpens, Stt!AdapterRefuses, Stt!OpenAdapter,
                    Stt!Ends, Stt!feedVars, Stt!eventVars
<1>3. CASE Stt!AdapterTakes \/ Stt!AdapterRejects \/ Stt!DeliveryAborted
  <2>1. queue \in Seq(Nat)
    BY <1>1 DEF Stt!TypeOK
  <2>2. queue # <<>>
    BY <1>3 DEF Stt!AdapterTakes, Stt!AdapterRejects, Stt!DeliveryAborted, Stt!GoesOn,
                Stt!Ended, SttInv, Chained, Chain, Lost
  <2>3. Tail(queue) \in Seq(Nat)
    BY <2>1, <2>2
  <2>4. queue' \in Seq(Nat) /\ handing' \in BOOLEAN /\ UNCHANGED <<pushed, taken>>
    BY <1>3, <2>3 DEF Stt!AdapterTakes, Stt!AdapterRejects, Stt!DeliveryAborted,
                      Stt!Released
  <2>5. /\ UNCHANGED <<due, adapter, finishing, finals, partials>>
        /\ \/ UNCHANGED <<phase, closing>>
           \/ phase' = "failed" /\ closing' \in {"called", "waiting"}
    BY <1>3 DEF Stt!AdapterTakes, Stt!AdapterRejects, Stt!DeliveryAborted, Stt!Ends,
                Stt!eventVars
  <2> QED BY <1>1, <2>4, <2>5 DEF Stt!TypeOK
<1>4. CASE Stt!HandOver
  <2>1. Append(taken, Head(queue)) \in Seq(Nat)
    BY <1>1, <1>4 DEF Stt!TypeOK, Stt!HandOver
  <2> QED BY <1>1, <1>4, <2>1 DEF Stt!TypeOK, Stt!HandOver, Stt!eventVars
<1>5. CASE Stt!Final(pushed)
  <2>1. Append(finals, pushed) \in Seq(Nat)
    BY <1>1 DEF Stt!TypeOK
  <2> QED BY <1>1, <1>5, <2>1 DEF Stt!TypeOK, Stt!Final, Stt!feedVars
<1>6. CASE Stt!Partial \/ Stt!BadEvent
  BY <1>1, <1>6 DEF Stt!TypeOK, Stt!Partial, Stt!BadEvent, Stt!Ends,
                    Stt!feedVars, Stt!eventVars
<1>7. CASE Stt!AdapterFinishes \/ Stt!AdapterFinishFails \/ Stt!FinishDrained
  BY <1>1, <1>7 DEF Stt!TypeOK, Stt!AdapterFinishes, Stt!AdapterFinishFails,
                    Stt!FinishDrained, Stt!Ends, Stt!feedVars, Stt!eventVars
<1>8. CASE Stt!FinishCommits \/ Stt!FinishWithoutFinal \/ Stt!FinishRejected
  BY <1>1, <1>8 DEF Stt!TypeOK, Stt!FinishCommits, Stt!FinishWithoutFinal,
                    Stt!FinishRejected, Stt!Ends, Stt!feedVars, Stt!eventVars
<1>9. CASE Stt!DeadlinePasses \/ Stt!Expire \/ Stt!Cancel
  BY <1>1, <1>9 DEF Stt!TypeOK, Stt!DeadlinePasses, Stt!Expire, Stt!Cancel, Stt!Ends,
                    Stt!feedVars, Stt!eventVars
<1>10. CASE Stt!PushFails \/ Stt!FinishFails
  BY <1>1, <1>10 DEF Stt!TypeOK, Stt!PushFails, Stt!FinishFails, Stt!Ends,
                     Stt!feedVars, Stt!eventVars
<1> QED BY <1>2, <1>3, <1>4, <1>5, <1>6, <1>7, <1>8, <1>9, <1>10
      DEF Stt!Adapter, Stt!Continuation

\* Whatever the attempt or its adapter does.
LEMMA AttemptKeepsItself ==
  ASSUME SttInv, UNCHANGED <<vars, listening>>,
         Stt!Adapter \/ Stt!Continuation \/ Stt!DeadlinePasses
           \/ Stt!Expire \/ Stt!Cancel \/ Stt!PushFails
  PROVE  SttInv'
<1>1. Stt!TypeOK' /\ Stt!TypeOK
  BY AttemptTyped DEF SttInv
<1>2. CASE Stt!AdapterOpens \/ Stt!AdapterRefuses \/ Stt!OpenAdapter
  <2>1. Bystands
    BY <1>2 DEF Bystands, Lost, Stt!AdapterOpens, Stt!AdapterRefuses, Stt!OpenAdapter,
                Stt!Ends, Stt!Ended, Stt!feedVars, Stt!eventVars
  <2> QED BY <1>1, <2>1, BystandersKeepAttempt
<1>3. CASE Stt!Partial \/ Stt!BadEvent \/ Stt!DeadlinePasses \/ Stt!Expire \/ Stt!Cancel
             \/ Stt!PushFails
  <2>1. Bystands
    BY <1>3 DEF Bystands, Lost, Stt!Partial, Stt!BadEvent, Stt!DeadlinePasses,
                Stt!Expire, Stt!Cancel, Stt!PushFails, Stt!TakesChunks, Stt!Emits,
                Stt!GoesOn, Stt!Ends, Stt!Ended, Stt!feedVars, Stt!eventVars
  <2> QED BY <1>1, <2>1, BystandersKeepAttempt
<1>4. CASE Stt!AdapterFinishes \/ Stt!AdapterFinishFails \/ Stt!FinishDrained
  <2>1. Bystands
    BY <1>4 DEF Bystands, Lost, Stt!AdapterFinishes, Stt!AdapterFinishFails,
                Stt!FinishDrained, Stt!GoesOn, Stt!Ends, Stt!Ended, Stt!feedVars,
                Stt!eventVars
  <2> QED BY <1>1, <2>1, BystandersKeepAttempt
<1>5. CASE Stt!FinishWithoutFinal \/ Stt!FinishRejected
  <2>1. Bystands
    BY <1>5 DEF Bystands, Lost, Stt!FinishWithoutFinal, Stt!FinishRejected, Stt!GoesOn,
                Stt!Ends, Stt!Ended, Stt!feedVars, Stt!eventVars
  <2> QED BY <1>1, <2>1, BystandersKeepAttempt
<1>6. CASE Stt!FinishCommits
  <2>1. /\ finishing = "answered" /\ phase' = "completed" /\ finishing' = "resolved"
        /\ finals # <<>> /\ ~Lost
        /\ UNCHANGED <<pushed, queue, handing, taken, finals>>
    BY <1>6 DEF Stt!FinishCommits, Stt!GoesOn, Stt!Ended, Stt!feedVars, Stt!eventVars,
                Lost
  <2> QED BY <1>1, <2>1 DEF SttInv, Fed, Chained, Chain, Released, Lost,
                            FinishFollowsStop, vars
<1>7. CASE Stt!Final(pushed)
  <2>1. /\ finals = <<>> /\ finals' = Append(finals, pushed)
        /\ finishing \in {"adapter", "answered"}
        /\ UNCHANGED <<pushed, queue, handing, taken, phase, finishing>>
    BY <1>7 DEF Stt!Final, Stt!FinalIsDue, Stt!feedVars
  <2>2. finals' = <<pushed>>
    BY <2>1
  <2> QED BY <1>1, <2>1, <2>2 DEF SttInv, Fed, Chained, Chain, Released, Lost,
                                  FinishFollowsStop, vars
<1>8. CASE Stt!HandOver
  BY <1>8, HandOverKeepsChain
<1>9. CASE Stt!AdapterTakes \/ Stt!AdapterRejects
  <2>1. /\ handing /\ Stt!Released /\ ~Lost /\ phase # "completed"
        /\ finals' = finals /\ finishing' = finishing
        /\ phase' = phase \/ phase' = "failed"
    BY <1>9 DEF Stt!AdapterTakes, Stt!AdapterRejects, Stt!GoesOn, Stt!Ended, Stt!Ends,
                Stt!eventVars, Lost
  <2>2. queue # <<>>
    BY <2>1 DEF SttInv, Chained, Chain
  <2> QED BY <1>1, <2>1, <2>2, ReleaseKeepsChain DEF Lost
<1>10. CASE Stt!DeliveryAborted
  <2>1. /\ queue # <<>> /\ Stt!Ended
        /\ UNCHANGED <<pushed, taken, phase, finishing, finals>>
    BY <1>10 DEF Stt!DeliveryAborted, Stt!Released, Stt!eventVars
  <2>2. Lost
    BY <2>1 DEF SttInv, FinishFollowsStop, Stt!Ended, Lost
  <2> QED BY <1>1, <2>1, <2>2 DEF SttInv, Fed, Chained, Lost, FinishFollowsStop, vars
<1> QED BY <1>2, <1>3, <1>4, <1>5, <1>6, <1>7, <1>8, <1>9, <1>10
      DEF Stt!Adapter, Stt!Continuation

\* The connection finishes the attempt of a complete stream.
LEMMA FinishKeepsAttempt ==
  ASSUME SttInv, FinishStream \/ FinishRefused
  PROVE  SttInv'
<1>1. Stt!TypeOK
  BY DEF SttInv
<1>2. CASE FinishStream
  <2>1. /\ listening /\ stream.phase = "stopped" /\ stream.complete
        /\ UNCHANGED <<vars, listening, pushed, queue, handing, taken, finals>>
        /\ phase \in {"opening", "streaming"} /\ phase' = "finishing"
        /\ finishing' = "draining"
        /\ UNCHANGED <<due, adapter, closing, partials>>
    BY <1>2 DEF FinishStream, connection, Stt!Finish, Stt!TakesChunks, Stt!feedVars,
                Stt!eventVars
  <2> QED BY <1>1, <2>1 DEF SttInv, Fed, Chained, Chain, Released, Lost,
                            FinishFollowsStop, vars, Stt!TypeOK
<1>3. CASE FinishRefused
  <2>1. /\ listening /\ stream.phase = "stopped" /\ stream.complete
        /\ UNCHANGED <<vars, listening, pushed, queue, handing, taken, finals>>
        /\ Lost' /\ finishing' = "rejected" /\ Stt!FinishFails
    BY <1>3 DEF FinishRefused, Stt!FinishFails, Stt!Ends, Stt!feedVars,
                Stt!eventVars, Lost
  <2>2. Stt!TypeOK'
    BY <2>1, AttemptTyped
  <2> QED BY <2>1, <2>2 DEF SttInv, Fed, Chained, Lost, FinishFollowsStop, vars
<1> QED BY <1>2, <1>3

LEMMA StepKeepsAttempt == IInv /\ SttInv /\ [TranscriptionNext]_allVars => SttInv'
<1> SUFFICES ASSUME IInv, SttInv, [TranscriptionNext]_allVars PROVE SttInv'
  OBVIOUS
<1>1. CASE Message
  BY <1>1, MessageKeepsAttempt
<1>2. CASE FinishStream \/ FinishRefused
  BY <1>2, FinishKeepsAttempt
<1>3. CASE ChunkRefused
  BY <1>3, AttemptKeepsItself DEF ChunkRefused
<1>4. CASE UNCHANGED <<attemptVars, vars, listening>>
  BY <1>4 DEF attemptVars, vars, SttInv, Fed, Chained, Chain, Released, Lost,
              FinishFollowsStop, Stt!TypeOK
<1>5. CASE ConnectionFails
  <2>1. UNCHANGED <<vars, listening>>
    BY <1>5 DEF ConnectionFails
  <2>2. UNCHANGED attemptVars \/ Stt!Cancel
    BY <1>5 DEF ConnectionFails
  <2> QED BY <1>4, <2>1, <2>2, AttemptKeepsItself
<1>6. CASE \/ Attempts(Stt!Adapter) \/ Attempts(Stt!Continuation)
           \/ Attempts(Stt!DeadlinePasses) \/ Attempts(Stt!Expire)
  BY <1>6, AttemptKeepsItself DEF Attempts, connection
<1>7. CASE UNCHANGED allVars
  BY <1>4, <1>7 DEF allVars, connection
<1> QED BY <1>1, <1>2, <1>3, <1>5, <1>6, <1>7 DEF TranscriptionNext

\* The recogniser's steps are none of the reducer's.
LEMMA StepOfTheStream == [TranscriptionNext]_allVars => [Next]_vars
BY DEF TranscriptionNext, Message, StreamStarts, ChunkAccepted, StreamStops, Next,
       ChunkRefused, FinishStream, FinishRefused, ConnectionFails, Attempts, allVars

\* A final that may enter the analysis covers the recording in the spool, and the
\* adapter had taken that recording, whole and in order: for any limits of the
\* queue, any numbers in the messages and any adapter.
THEOREM TranscriptIsOfTheSpool == TranscriptionSpec => []TranscriptCoversTheSpool
<1>1. TranscriptionInit => IInv /\ SttInv
  <2> SUFFICES ASSUME TranscriptionInit PROVE IInv /\ SttInv
    OBVIOUS
  <2>1. IInv
    BY InitSound DEF TranscriptionInit
  <2>2. /\ phase = "opening" /\ due = FALSE /\ pushed = 0 /\ queue = <<>>
        /\ handing = FALSE /\ taken = <<>> /\ adapter = "none" /\ closing = "no"
        /\ finishing = "no" /\ finals = <<>> /\ partials = 0
    BY DEF TranscriptionInit, Stt!Init
  <2>3. /\ listening \in BOOLEAN /\ stream.lastSequence = 0 /\ spooled = <<>>
    BY DEF TranscriptionInit, Init, Fresh
  <2>4. Stt!TypeOK
    <3>1. queue \in Seq(Nat) /\ taken \in Seq(Nat) /\ finals \in Seq(Nat)
      BY <2>2
    <3> QED BY <2>2, <3>1 DEF Stt!TypeOK
  <2>5. Fed /\ Chained
    BY <2>2, <2>3 DEF Fed, Chained, Chain, Released
  <2>6. FinishFollowsStop
    BY <2>2 DEF FinishFollowsStop
  <2> QED BY <2>1, <2>3, <2>4, <2>5, <2>6 DEF SttInv
<1>2. IInv /\ [TranscriptionNext]_allVars => IInv'
  BY StepOfTheStream, NextSound
<1>3. IInv /\ SttInv => TranscriptCoversTheSpool
  <2> SUFFICES ASSUME IInv, SttInv, finishing = "resolved"
               PROVE  /\ stream.phase = "stopped" /\ stream.complete
                      /\ finals = <<stream.lastSequence>>
                      /\ taken = spooled
    BY DEF TranscriptCoversTheSpool
  <2>1. /\ listening /\ stream.phase = "stopped" /\ stream.complete
        /\ ~Lost /\ queue = <<>> /\ finals = <<pushed>>
    BY DEF SttInv, FinishFollowsStop, Lost
  <2>2. pushed = stream.lastSequence /\ Len(spooled) = pushed
        /\ \A i \in 1..Len(spooled) : spooled[i] = i
    BY <2>1 DEF SttInv, Fed
  <2>3. /\ ~handing /\ Released + 0 = pushed /\ Len(queue) = 0
        /\ \A i \in 1..Len(taken) : taken[i] = i
    BY <2>1 DEF SttInv, Chained, Chain
  <2>4. taken \in Seq(Nat) /\ spooled \in Seq(Sequences)
    BY DEF SttInv, Stt!TypeOK, IInv, TypeOK
  <2>5. Len(taken) = Len(spooled)
    BY <2>2, <2>3, <2>4 DEF Released
  <2> QED BY <2>1, <2>2, <2>3, <2>4, <2>5
<1> QED BY <1>1, <1>2, <1>3, StepKeepsAttempt, PTL DEF TranscriptionSpec
=============================================================================
