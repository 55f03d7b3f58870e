----------------------------- MODULE TurnOutput ------------------------------
(***************************************************************************)
(* Several sessions share the server's one speaker.  This module composes  *)
(* the turns of those sessions (who is recording, who has a result, whose  *)
(* result is still being written to its receipt) with the output scheduler *)
(* and with the task that speaks a result and logs that it did.            *)
(***************************************************************************)
EXTENDS OutputScheduler

VARIABLES
  turn,      \* each session's attempt
  unwritten, \* sessions whose committed result still awaits its receipt
  stage,     \* how far each output task got: "pacing", "playing", "closing"
  tts        \* each session's spoken output in its log

turnVars == <<turn, unwritten, stage, tts>>
allVars  == <<vars, turnVars>>

Turns == {"none", "created", "recording", "result", "silence", "sealed"}

TurnInit ==
  /\ Init
  /\ turn      = [k \in Keys |-> "none"]
  /\ unwritten = {}
  /\ stage     = [t \in Tasks |-> "pacing"]
  /\ tts       = [k \in Keys |-> "none"]

Becomes(k, status) == turn' = [turn EXCEPT ![k] = status]

SlotUnchangedBut == UNCHANGED <<scheduled, keyOf, phase, active, closed,
                                waiting, resolved>>

-----------------------------------------------------------------------------
(* Turns.  Only two of the four ways a turn advances ask for silence.      *)

CreateSession(k) ==
  /\ turn[k] = "none"
  /\ Becomes(k, "created")
  /\ ReplaceActive
  /\ SlotUnchangedBut /\ UNCHANGED <<unwritten, stage, tts>>

\* A recording started by the input route.
StartByButton(k) ==
  /\ turn[k] = "created"
  /\ Becomes(k, "recording")
  /\ ReplaceActive
  /\ SlotUnchangedBut /\ UNCHANGED <<unwritten, stage, tts>>

\* A recording started by an ordered PCM stream or by the operator route.
StartByStream(k) ==
  /\ turn[k] = "created"
  /\ Becomes(k, "recording")
  /\ UNCHANGED <<vars, unwritten, stage, tts>>

\* The result is committed; its receipt is awaited before it is spoken.
CommitResult(k) ==
  /\ turn[k] \in {"created", "recording"}
  /\ Becomes(k, "result")
  /\ unwritten' = unwritten \union {k}
  /\ UNCHANGED <<vars, stage, tts>>

Silence(k) ==
  /\ turn[k] = "result"
  /\ Becomes(k, "silence")
  /\ UNCHANGED <<vars, unwritten, stage, tts>>

CancelOwnOutput_Never(k) == UNCHANGED aborted

\* cancelAttemptAfterTerminal, on a reset or an error: whatever this session is saying is told to stop.
CancelOwnOutput(k) ==
  IF KeyMatches(k) THEN Abort(active) ELSE UNCHANGED aborted

Terminate(k) ==
  /\ turn[k] \in {"created", "recording", "result", "silence"}
  /\ Becomes(k, "sealed")
  /\ CancelOwnOutput(k)
  /\ SlotUnchangedBut /\ UNCHANGED <<unwritten, stage, tts>>

-----------------------------------------------------------------------------
(* The output task of a result.                                            *)

\* The result's receipt settled.  Whether the session was reset meanwhile is
\* not asked before its output takes the slot.
ResultWritten(k) ==
  /\ k \in unwritten
  /\ unwritten' = unwritten \ {k}
  /\ IF closed THEN UNCHANGED vars ELSE Schedule(k)
  /\ UNCHANGED <<turn, stage, tts>>

MayFollowResult(k) == turn[k] = "result"

SpeechStarts_BeforeItsTurn(t) ==
  /\ phase[t] \in {"waiting", "running"} /\ stage[t] = "pacing"
  /\ ~aborted[t]
  /\ MayFollowResult(keyOf[t])
  /\ tts'   = [tts EXCEPT ![keyOf[t]] = "started"]
  /\ stage' = [stage EXCEPT ![t] = "playing"]
  /\ UNCHANGED <<vars, turn, unwritten>>

\* The pause before speech ends and the start of the speech is committed.
SpeechStarts(t) ==
  /\ phase[t] = "running" /\ stage[t] = "pacing"
  /\ ~aborted[t]
  /\ MayFollowResult(keyOf[t])
  /\ tts'   = [tts EXCEPT ![keyOf[t]] = "started"]
  /\ stage' = [stage EXCEPT ![t] = "playing"]
  /\ UNCHANGED <<vars, turn, unwritten>>

\* The task was cancelled, or its session is no longer at its result.
SpeechRefused(t) ==
  /\ phase[t] = "running" /\ stage[t] = "pacing"
  /\ aborted[t] \/ ~MayFollowResult(keyOf[t])
  /\ stage' = [stage EXCEPT ![t] = "closing"]
  /\ UNCHANGED <<vars, turn, unwritten, tts>>

SpeechEnds_UnlessClosed(t) ==
  /\ phase[t] = "running" /\ stage[t] = "playing"
  /\ tts' = IF MayFollowResult(keyOf[t]) /\ ~closed
            THEN [tts EXCEPT ![keyOf[t]] = "finished"] ELSE tts
  /\ stage' = [stage EXCEPT ![t] = "closing"]
  /\ UNCHANGED <<vars, turn, unwritten>>

\* The player returned, failed or was killed: the task closes the spoken output
\* if the result still stands, and settles once that event is written.
SpeechEnds(t) ==
  /\ phase[t] = "running" /\ stage[t] = "playing"
  /\ tts' = IF MayFollowResult(keyOf[t])
            THEN [tts EXCEPT ![keyOf[t]] = "finished"] ELSE tts
  /\ stage' = [stage EXCEPT ![t] = "closing"]
  /\ UNCHANGED <<vars, turn, unwritten>>

SpeechSettles(t) == stage[t] = "closing" /\ Settle(t) /\ UNCHANGED turnVars

RunOutput(t) == Run(t) /\ UNCHANGED turnVars

Shutdown == Close /\ UNCHANGED turnVars

\* Shutdown waits for the speaker to fall silent.
AwaitSilence(w) == closed /\ WaitForIdle(w) /\ UNCHANGED turnVars

-----------------------------------------------------------------------------
Turn(k) ==
  \/ CreateSession(k) \/ StartByButton(k) \/ StartByStream(k)
  \/ CommitResult(k) \/ Silence(k) \/ Terminate(k)

Output(t) ==
  \/ RunOutput(t) \/ SpeechStarts(t) \/ SpeechRefused(t)
  \/ SpeechEnds(t) \/ SpeechSettles(t)

TurnNext ==
  \/ \E k \in Keys : Turn(k) \/ ResultWritten(k)
  \/ \E t \in Tasks : Output(t)
  \/ Shutdown
  \/ \E w \in Waiters : AwaitSilence(w)

\* Receipts settle, timers fire, players end and the promise chain moves on.
TurnFairness ==
  /\ \A k \in Keys : WF_allVars(ResultWritten(k))
  /\ \A t \in Tasks : WF_allVars(Output(t))

TurnSpec == TurnInit /\ [][TurnNext]_allVars /\ TurnFairness

-----------------------------------------------------------------------------
TurnTypeOK ==
  /\ TypeOK
  /\ turn \in [Keys -> Turns]
  /\ unwritten \subseteq Keys
  /\ stage \in [Tasks -> {"pacing", "playing", "closing"}]
  /\ tts \in [Keys -> {"none", "started", "finished"}]

\* Whatever results, resets and replacements overlap, the logs of all sessions
\* together show at most one result being spoken.
OneSpokenTurn ==
  \A j, k \in Keys :
    /\ turn[j] = "result" /\ tts[j] = "started"
    /\ turn[k] = "result" /\ tts[k] = "started"
    => j = k

\* A reset or failed session that had begun to speak has been told to stop.
SealedTurnIsMuted ==
  \A t \in Tasks :
    phase[t] = "running" /\ stage[t] = "playing"
      /\ turn[keyOf[t]] = "sealed"
    => aborted[t]

\* A result that starts to be spoken is logged as finished, played to its end or
\* cut short, unless its session moved on; and who waits for silence after the
\* scheduler was closed gets it.
SpokenTurnsEnd ==
  /\ \A k \in Keys :
       tts[k] = "started" ~> (tts[k] = "finished" \/ turn[k] # "result")
  /\ ClosedWaitersResolve
=============================================================================
