-------------------------- MODULE PcmTranscription ---------------------------
(***************************************************************************)
(* What becomes of the chunks that a connection accepts: the reducer       *)
(* accounts for them, they are spooled and, where an incremental           *)
(* recogniser is configured, pushed to its attempt, which has to finish    *)
(* before the spool is analysed.  The connection may fail at any time, and *)
(* takes the attempt with it.                                              *)
(***************************************************************************)
EXTENDS OrderedPcmIngress

CONSTANTS MaxQueuedChunks, MaxPartials

VARIABLES
  listening,  \* an incremental recogniser is configured
  failed,     \* the connection has failed
  phase, due, pushed, queue, handing, taken, adapter, closing, finishing,
  finals, partials   \* the recogniser's attempt

Stt == INSTANCE StreamingStt

attemptVars ==
  <<phase, due, pushed, queue, handing, taken, adapter, closing, finishing,
    finals, partials>>
connection == <<listening, failed>>
allVars    == <<vars, connection, attemptVars>>

Started == stream.phase # "idle"

TranscriptionInit ==
  /\ Init
  /\ listening \in BOOLEAN /\ failed = FALSE
  /\ Stt!Init

-----------------------------------------------------------------------------
(* The connection's messages.                                               *)

\* The recogniser's attempt is opened with the stream.
StreamStarts(m) ==
  /\ Start(m)
  /\ UNCHANGED <<connection, attemptVars>>

\* An accepted chunk is spooled and then pushed.
ChunkAccepted(m) ==
  /\ Chunk(m)
  /\ IF listening THEN Stt!Push(m.sequence) ELSE UNCHANGED attemptVars
  /\ UNCHANGED connection

\* The attempt does not take it: the connection fails, and so did the attempt.
ChunkRefused ==
  /\ listening /\ ~failed /\ stream.phase = "open"
  /\ Stt!PushFails
  /\ failed' = TRUE
  /\ UNCHANGED <<vars, listening>>

StreamStops(m) ==
  /\ Stop(m)
  /\ UNCHANGED <<connection, attemptVars>>

HasAudio == stream.byteCount > 0

\* Only a complete stream with audio in it is finished, once its stop is logged.
FinishStream ==
  /\ listening /\ ~failed /\ stream.phase = "stopped"
  /\ stream.complete /\ HasAudio
  /\ Stt!Finish(stream.lastSequence)
  /\ UNCHANGED <<vars, connection>>

FinishRefused ==
  /\ listening /\ ~failed /\ stream.phase = "stopped"
  /\ stream.complete /\ HasAudio
  /\ Stt!FinishFails
  /\ failed' = TRUE
  /\ UNCHANGED <<vars, listening>>

\* A refused message, an incomplete stream, an attempt that has ended, a timeout or
\* a disconnect.
ConnectionFails ==
  /\ Started /\ ~failed
  /\ failed' = TRUE
  /\ IF Stt!Ended THEN UNCHANGED attemptVars ELSE Stt!Cancel
  /\ UNCHANGED <<vars, listening>>

-----------------------------------------------------------------------------
\* A step of the attempt itself.
Attempts(step) == Started /\ listening /\ step /\ UNCHANGED <<vars, connection>>

\* A connection that failed listens no more; a stopped stream takes no message.
Message ==
  /\ ~failed /\ stream.phase # "stopped"
  /\ \/ \E m \in Starts : StreamStarts(m)
     \/ Started /\ \E m \in Chunks : ChunkAccepted(m)
     \/ Started /\ \E m \in Stops  : StreamStops(m)

TranscriptionNext ==
  \/ Message
  \/ ChunkRefused \/ FinishStream \/ FinishRefused \/ ConnectionFails
  \/ Attempts(Stt!Adapter) \/ Attempts(Stt!Continuation)
  \/ Attempts(Stt!DeadlinePasses) \/ Attempts(Stt!Expire)

\* Promises go on, time passes and the timer fires.  No message, and nothing that
\* the adapter does, is owed.
TranscriptionFairness ==
  /\ WF_allVars(Attempts(Stt!Continuation))
  /\ WF_allVars(Attempts(Stt!DeadlinePasses)) /\ WF_allVars(Attempts(Stt!Expire))

TranscriptionSpec ==
  TranscriptionInit /\ [][TranscriptionNext]_allVars /\ TranscriptionFairness

-----------------------------------------------------------------------------
\* The final that may enter the analysis is for exactly the recording that the
\* spool holds and the receipt calls complete: the adapter was given every chunk
\* of it, once and in order, before it was asked.
TranscriptCoversTheSpool ==
  finishing = "resolved" =>
    /\ stream.phase = "stopped" /\ stream.complete
    /\ finals = <<stream.lastSequence>>
    /\ taken = spooled

\* Every session that an adapter opens, however late, is finished or cancelled; and
\* finish() settles and lets go of the audio, though the adapter never answers.
TranscriptionEnds ==
  /\ adapter = "open" ~> phase = "completed" \/ closing = "called"
  /\ finishing # "no" ~> finishing \in {"resolved", "rejected"} /\ queue = <<>>
=============================================================================
