---------------------------- MODULE LocalSpeech -----------------------------
(***************************************************************************)
(* speakLocalResult: what an output task of TurnOutput does while its      *)
(* speech is "playing".  A clip is played by a program; else a text is     *)
(* first made into a file by a voice program, and that is played.  Both    *)
(* programs are those of ProcessRun: told to stop by the task's signal or  *)
(* by a timeout, which they may ignore for a while.                        *)
(*                                                                         *)
(* The players are what is heard, so this is where the one speaker slot of *)
(* the promise chain becomes one program on the machine.                   *)
(***************************************************************************)
EXTENDS TurnOutput

VARIABLES
  provider,  \* the configured one: "clip" or "piper"
  speech,    \* how far speakLocalResult is for each task
  run        \* the programs

ownVars == <<provider, speech, run>>
speechVars == <<allVars, ownVars>>

Voice(t)  == <<"voice", t>>
Player(t) == <<"player", t>>

Programs == {"voice", "player"} \X Tasks

Program == INSTANCE ProcessRun WITH
  Runs  <- Programs,
  Timed <- Programs,
  Fed   <- {"voice"} \X Tasks

\* "cleaning": the voice's directory is to go.
SpeechStages == {"none", "making", "playing", "cleaning", "over"}

SpeechInit ==
  /\ TurnInit
  /\ provider \in {"clip", "piper"}
  /\ speech = [t \in Tasks |-> "none"]
  /\ Program!Init

-----------------------------------------------------------------------------
(* speakLocalResult.                                                        *)

SpeechGoes(t, next) == speech' = [speech EXCEPT ![t] = next] /\ UNCHANGED provider

\* The file is played, by a program or by none if the signal has aborted.
Plays(t, runs) ==
  /\ SpeechGoes(t, "playing")
  /\ \E p \in Program!Called(aborted[t]) : run' = [runs EXCEPT ![Player(t)] = p]

Uncalled(t) == stage[t] = "playing" /\ speech[t] = "none"

\* The clip that belongs to the result is there, and playback is on.
PlaysClip(t) ==
  /\ Uncalled(t) /\ provider = "clip"
  /\ Plays(t, run)
  /\ UNCHANGED allVars

\* A voice is configured: it is given the text, and has a directory for its file.
MakesSpeech(t) ==
  /\ Uncalled(t) /\ provider = "piper"
  /\ SpeechGoes(t, "making")
  /\ \E p \in Program!Called(aborted[t]) : Program!Becomes(Voice(t), p)
  /\ UNCHANGED allVars

\* No provider, no clip, no voice, or playback is off: that is all the receipt says.
NothingToPlay(t) ==
  /\ Uncalled(t)
  /\ SpeechGoes(t, "over")
  /\ UNCHANGED <<allVars, run>>

\* The voice has written its file, which is played if playback is on.  A voice that
\* failed, was late or was cancelled has nothing to play.
VoiceAwaited(t) ==
  /\ speech[t] = "making" /\ Program!Settled(Voice(t))
  /\ LET runs == [run EXCEPT ![Voice(t)] = Program!Forgotten(@)] IN
     \/ run[Voice(t)].promise = "resolved" /\ Plays(t, runs)
     \/ SpeechGoes(t, "cleaning") /\ run' = runs
  /\ UNCHANGED allVars

\* A player that failed is only reported.
PlayerAwaited(t) ==
  /\ speech[t] = "playing" /\ Program!Settled(Player(t))
  /\ SpeechGoes(t, IF provider = "piper" THEN "cleaning" ELSE "over")
  /\ Program!Forgets(Player(t))
  /\ UNCHANGED allVars

VoiceRemoved(t) ==
  /\ speech[t] = "cleaning"
  /\ SpeechGoes(t, "over")
  /\ UNCHANGED <<allVars, run>>

Speak(t) ==
  \/ PlaysClip(t) \/ MakesSpeech(t) \/ NothingToPlay(t)
  \/ VoiceAwaited(t) \/ PlayerAwaited(t) \/ VoiceRemoved(t)

-----------------------------------------------------------------------------
(* The tasks, the turns and the programs.                                   *)

\* A signal that aborts reaches the programs that were started with it.
AbortsReachPrograms ==
  run' = [r \in Programs |->
            IF aborted'[r[2]] /\ ~aborted[r[2]] THEN Program!Aborted(run[r]) ELSE run[r]]

SpeechReturns(t) ==
  /\ speech[t] = "over" /\ SpeechEnds(t)
  /\ UNCHANGED ownVars

OutputStep(t) ==
  \/ RunOutput(t) \/ SpeechStarts(t) \/ SpeechRefused(t) \/ SpeechSettles(t)

TurnStep ==
  /\ \/ \E k \in Keys : Turn(k) \/ ResultWritten(k)
     \/ \E t \in Tasks : OutputStep(t)
     \/ Shutdown
     \/ \E w \in Waiters : AwaitSilence(w)
  /\ AbortsReachPrograms
  /\ UNCHANGED <<provider, speech>>

ProgramEvent(r) == Program!RunEvent(r) /\ UNCHANGED <<allVars, provider, speech>>

SpeechNext ==
  \/ TurnStep
  \/ \E t \in Tasks : Speak(t) \/ SpeechReturns(t)
  \/ \E r \in Programs : ProgramEvent(r)

\* What is owed: receipts are written, promises and timers go on, files are looked
\* up and removed, and a program that is killed exits.  No player owes its end.
Owed ==
  \/ \E k \in Keys : ResultWritten(k) /\ AbortsReachPrograms /\ UNCHANGED <<provider, speech>>
  \/ \E t \in Tasks : \/ OutputStep(t) /\ AbortsReachPrograms /\ UNCHANGED <<provider, speech>>
                      \/ Speak(t) \/ SpeechReturns(t)
  \/ \E r \in Programs : ProgramEvent(r) /\ Program!OwedEvent(r)

\* The event loop does not rest while anything is owed.  Every task takes finitely
\* many steps, so none of them can keep another waiting for ever.
SpeechFairness == WF_speechVars(Owed)

SpeechSpec == SpeechInit /\ [][SpeechNext]_speechVars /\ SpeechFairness

-----------------------------------------------------------------------------
(* Properties.                                                              *)

\* The types of this module's own variables.
SpeechTypeOK ==
  /\ provider \in {"clip", "piper"}
  /\ speech \in [Tasks -> SpeechStages]
  /\ run \in [Programs -> Program!RunRecords]

\* A voice that did not take its text was killed, and is not waited for.
GivenUp(r) == r[1] = "voice" /\ Program!Settled(r) /\ run[r].told = "kill"

Heard(r) == Program!Alive(r) /\ ~GivenUp(r)

\* The output of t is not to be heard any more: it was replaced, the server shuts
\* down, or its session was reset or has failed.
Unwanted(t) == active # t \/ closed \/ turn[keyOf[t]] = "sealed"

\* However results, new turns, resets, timeouts and deaf programs overlap: there is
\* at most one program speaking on the machine, none when the slot reads idle, which
\* is what shutdown waits for, and one whose output is not wanted any more has been
\* told to stop.
OneVoice ==
  /\ \A q, r \in Programs : Heard(q) /\ Heard(r) => q = r
  /\ active = None => \A r \in Programs : ~Heard(r)
  /\ \A r \in Programs : Heard(r) /\ Unwanted(r[2]) => run[r].told # "nothing"
=============================================================================
