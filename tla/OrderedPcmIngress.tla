-------------------------- MODULE OrderedPcmIngress --------------------------
(***************************************************************************)
(* The reducer every ordered PCM stream is accepted by: one start, chunks  *)
(* in increasing sequence, one stop, and from those a receipt.  The        *)
(* messages are whatever a client, a network that loses or repeats them,   *)
(* or another stream may send; a rejected one leaves the state alone.      *)
(*                                                                         *)
(* A message that its schema refuses is left out: it never gets this far.  *)
(***************************************************************************)
EXTENDS Integers, Sequences

CONSTANTS
  Identities,      \* session, attempt, source and profile hash of a stream
  MaxSafe,         \* Number.MAX_SAFE_INTEGER
  \* Bounds: the numbers that messages may carry.
  Times, Sequences, ChunkFrames, ChunkBytes, Totals, LossCounts, LossBytes

ASSUME BoundsAreNatural ==
  /\ MaxSafe \in Nat
  /\ Times \union Totals \union LossCounts \union LossBytes \subseteq 0..MaxSafe
  /\ Sequences \union ChunkFrames \union ChunkBytes \subseteq 1..MaxSafe

ASSUME SomeIdentity == Identities # {}

VARIABLES
  stream,    \* the reducer's state
  spooled    \* the sequence numbers of the accepted chunks, as they are spooled

vars == <<stream, spooled>>

-----------------------------------------------------------------------------
(* What the messages say.                                                   *)

\* Cumulative evidence of the source's own losses.
Evidence ==
  [captureGapCount : LossCounts, droppedFrameCount : LossCounts,
   droppedByteCount : LossBytes, overflowCount : LossCounts]

Starts == [identity : Identities, time : Times]

Chunks ==
  [identity : Identities, time : Times, sequence : Sequences,
   frames : ChunkFrames, bytes : ChunkBytes, loss : Evidence]

Stops ==
  [identity : Identities, time : Times, finalSequence : Sequences \union {0},
   frames : Totals, bytes : Totals, loss : Evidence]

NoEvidence ==
  [captureGapCount |-> 0, droppedFrameCount |-> 0,
   droppedByteCount |-> 0, overflowCount |-> 0]

IsSafe(n) == n <= MaxSafe

\* Mono, two bytes a frame: the only profile the schema admits.
PcmByteCountIs(frames, bytes) == IsSafe(2 * frames) /\ bytes = 2 * frames

HasNoLoss(loss) == loss = NoEvidence

\* The evidence is cumulative: it never decreases.
Covers_DropsOnly(next, current) ==
  /\ next.droppedFrameCount >= current.droppedFrameCount
  /\ next.droppedByteCount  >= current.droppedByteCount

Covers(next, current) ==
  /\ next.captureGapCount   >= current.captureGapCount
  /\ next.droppedFrameCount >= current.droppedFrameCount
  /\ next.droppedByteCount  >= current.droppedByteCount
  /\ next.overflowCount     >= current.overflowCount

\* Chunks and stops belong to the stream, come no earlier than what it knows,
\* and carry evidence that agrees with it and with itself.
Continues(s, m) ==
  /\ s.phase = "open"
  /\ m.identity = s.identity
  /\ m.time >= s.lastTime
  /\ Covers(m.loss, s.loss)
  /\ PcmByteCountIs(m.loss.droppedFrameCount, m.loss.droppedByteCount)

-----------------------------------------------------------------------------
(* The stream.                                                              *)

\* The fields of an open stream; before the start they are not there, and
\* before the stop those of the stop.
Fresh ==
  [phase |-> "idle", identity |-> CHOOSE i \in Identities : TRUE,
   startTime |-> 0, lastTime |-> 0, lastSequence |-> 0,
   chunkCount |-> 0, frameCount |-> 0, byteCount |-> 0,
   gapCount |-> 0, missingCount |-> 0, loss |-> NoEvidence, complete |-> TRUE,
   emittedFrames |-> 0, emittedBytes |-> 0]

Init == stream = Fresh /\ spooled = <<>>

Start(m) ==
  /\ stream.phase = "idle"
  /\ stream' = [Fresh EXCEPT !.phase = "open", !.identity = m.identity,
                             !.startTime = m.time, !.lastTime = m.time]
  /\ UNCHANGED spooled

\* Later than the last one: neither a duplicate nor out of order.
IsNew(m) == m.sequence > stream.lastSequence

MissingBefore(m) == m.sequence - stream.lastSequence - 1

\* There are no more gaps than missing chunks, so their count is safe with it.
Chunk(m) ==
  LET missing == MissingBefore(m)
  IN  /\ Continues(stream, m)
      /\ IsNew(m)
      /\ PcmByteCountIs(m.frames, m.bytes)
      /\ IsSafe(stream.chunkCount + 1) /\ IsSafe(stream.frameCount + m.frames)
      /\ IsSafe(stream.byteCount + m.bytes) /\ IsSafe(stream.missingCount + missing)
      /\ stream' = [stream EXCEPT
           !.lastTime     = m.time,
           !.lastSequence = m.sequence,
           !.chunkCount   = @ + 1,
           !.frameCount   = @ + m.frames,
           !.byteCount    = @ + m.bytes,
           !.gapCount     = @ + (IF missing > 0 THEN 1 ELSE 0),
           !.missingCount = @ + missing,
           !.loss         = m.loss,
           !.complete     = @ /\ missing = 0 /\ HasNoLoss(m.loss)]
      /\ spooled' = Append(spooled, m.sequence)

\* What the source says it emitted is what arrived, or more behind a gap.
TotalsAgree(m) ==
  IF stream.missingCount > 0
  THEN m.frames > stream.frameCount /\ m.bytes > stream.byteCount
  ELSE m.frames = stream.frameCount /\ m.bytes = stream.byteCount

Stop_TrustsChunks(m) ==
  /\ Continues(stream, m)
  /\ m.finalSequence = stream.lastSequence
  /\ PcmByteCountIs(m.frames, m.bytes)
  /\ TotalsAgree(m)
  /\ stream' = [stream EXCEPT
       !.phase = "stopped", !.lastTime = m.time, !.loss = m.loss,
       !.emittedFrames = m.frames, !.emittedBytes = m.bytes]
  /\ UNCHANGED spooled

Stop(m) ==
  /\ Continues(stream, m)
  /\ m.finalSequence = stream.lastSequence
  /\ PcmByteCountIs(m.frames, m.bytes)
  /\ TotalsAgree(m)
  /\ stream' = [stream EXCEPT
       !.phase = "stopped", !.lastTime = m.time, !.loss = m.loss,
       !.emittedFrames = m.frames, !.emittedBytes = m.bytes,
       !.complete = @ /\ HasNoLoss(m.loss)]
  /\ UNCHANGED spooled

\* What the schema asks of the receipt that is made from a stopped stream.
ReceiptIsValid(s) ==
  /\ s.startTime <= s.lastTime
  /\ PcmByteCountIs(s.frameCount, s.byteCount)
  /\ PcmByteCountIs(s.emittedFrames, s.emittedBytes)
  /\ PcmByteCountIs(s.loss.droppedFrameCount, s.loss.droppedByteCount)
  /\ s.lastSequence = s.chunkCount + s.missingCount
  /\ s.gapCount <= s.missingCount
  /\ s.emittedFrames >= s.frameCount /\ s.emittedBytes >= s.byteCount
  /\ s.missingCount = 0 <=> s.emittedFrames = s.frameCount
  /\ s.missingCount = 0 <=> s.emittedBytes = s.byteCount
  /\ s.complete <=> s.missingCount = 0 /\ s.gapCount = 0 /\ HasNoLoss(s.loss)

Next ==
  \/ \E m \in Starts : Start(m)
  \/ \E m \in Chunks : Chunk(m)
  \/ \E m \in Stops  : Stop(m)

Spec == Init /\ [][Next]_vars

-----------------------------------------------------------------------------
(* Properties.                                                              *)

Counts == 0..MaxSafe

Streams ==
  [phase : {"idle", "open", "stopped"}, identity : Identities,
   startTime : Counts, lastTime : Counts, lastSequence : Counts,
   chunkCount : Counts, frameCount : Counts, byteCount : Counts,
   gapCount : Counts, missingCount : Counts, loss : Evidence \union {NoEvidence},
   complete : BOOLEAN,
   emittedFrames : Counts, emittedBytes : Counts]

\* Every variable keeps its type: no counter leaves the safe integers.
TypeOK == stream \in Streams /\ spooled \in Seq(Sequences)

\* An accepted stop never yields a receipt that the receipt's own schema
\* rejects: the attempt would fail after all its audio had arrived.
ReceiptCoheres == stream.phase = "stopped" => ReceiptIsValid(stream)

\* The spool of a stream that claims to be complete is the whole recording:
\* every chunk once and in order, nothing dropped by the source.
CompleteMeansWhole ==
  stream.phase = "stopped" /\ stream.complete =>
    /\ spooled = [i \in 1..stream.lastSequence |-> i]
    /\ stream.emittedFrames = stream.frameCount
    /\ HasNoLoss(stream.loss)
=============================================================================
