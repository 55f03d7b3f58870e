---------------------------- MODULE StreamingStt ----------------------------
(***************************************************************************)
(* One attempt of an incremental recogniser: chunks are pushed while the   *)
(* adapter may still be opening, handed to it one after another, and then  *)
(* finished for one final transcript.  The adapter is injected, and is     *)
(* trusted with nothing: it may be slow, never answer, refuse, or emit any *)
(* event at any time, also after the attempt has ended.                    *)
(*                                                                         *)
(* Every continuation first asks whether the attempt has ended, and most   *)
(* then read the clock.  A continuation that finds the deadline over does what *)
(* its timer does (Expire); the other actions are those that find it is    *)
(* not.                                                                    *)
(***************************************************************************)
EXTENDS Naturals, Sequences

CONSTANTS
  MaxQueuedChunks,  \* chunks that may wait for the adapter
  MaxPartials       \* partial hypotheses an attempt may emit

VARIABLES
  phase,      \* phaseValue
  due,        \* the clock is past the attempt's deadline
  pushed,     \* the last chunk's sequence number
  queue,      \* chunks pushed and not yet released, oldest first
  handing,    \* the adapter was given the oldest of them
  taken,      \* every chunk the adapter was given, in that order
  adapter,    \* its session: "none", "opening", "open" or "refused"
  closing,    \* cancelling it: "no", "waiting" for it to open, or "called"
  finishing,  \* how far finish() is
  finals,     \* the finals that were accepted
  partials    \* how many partial hypotheses were

feedVars  == <<pushed, queue, handing, taken>>
eventVars == <<finals, partials>>
vars == <<phase, due, feedVars, adapter, closing, finishing, eventVars>>

Init ==
  /\ phase = "opening" /\ due = FALSE
  /\ pushed = 0 /\ queue = <<>> /\ handing = FALSE /\ taken = <<>>
  /\ adapter = "none" /\ closing = "no" /\ finishing = "no"
  /\ finals = <<>> /\ partials = 0

Ended == phase \in {"completed", "cancelled", "timed_out", "failed"}

GoesOn == ~Ended /\ ~due

\* The attempt ends without a final: its adapter is cancelled, once it is open.
Ends(how) ==
  /\ phase'   = how
  /\ closing' = IF adapter = "open" THEN "called" ELSE "waiting"

-----------------------------------------------------------------------------
(* The adapter's session.                                                   *)

OpenAdapter ==
  /\ adapter = "none"
  /\ adapter' = IF Ended THEN "refused" ELSE "opening"
  /\ UNCHANGED <<phase, due, feedVars, closing, finishing, eventVars>>

AdapterOpens_Unwanted ==
  /\ adapter = "opening"
  /\ adapter' = "open"
  /\ phase' = IF phase = "opening" THEN "streaming" ELSE phase
  /\ UNCHANGED <<closing, due, feedVars, finishing, eventVars>>

\* A session that opens after the attempt has ended is cancelled at once; one that
\* opens after the deadline ends the attempt, unless finish() was called.
AdapterOpens ==
  /\ adapter = "opening"
  /\ adapter' = "open"
  /\ phase' = CASE phase = "opening" /\ due -> "timed_out"
                [] phase = "opening" /\ ~due -> "streaming"
                [] OTHER -> phase
  /\ closing' = IF Ended \/ (phase = "opening" /\ due) THEN "called" ELSE closing
  /\ UNCHANGED <<due, feedVars, finishing, eventVars>>

AdapterRefuses ==
  /\ adapter = "opening"
  /\ adapter' = "refused"
  /\ IF Ended THEN UNCHANGED <<phase, closing>> ELSE Ends("failed")
  /\ UNCHANGED <<due, feedVars, finishing, eventVars>>

-----------------------------------------------------------------------------
(* Chunks.                                                                  *)

TakesChunks == GoesOn /\ phase \in {"opening", "streaming"}

HasRoom == Len(queue) < MaxQueuedChunks

Push(n) ==
  /\ TakesChunks
  /\ n = pushed + 1
  /\ HasRoom
  /\ pushed' = n
  /\ queue'  = Append(queue, n)
  /\ UNCHANGED <<phase, due, handing, taken, adapter, closing, finishing, eventVars>>

\* A chunk behind a gap, one too many, or one whose bytes or clock are wrong.
PushFails ==
  /\ TakesChunks
  /\ Ends("failed")
  /\ UNCHANGED <<due, feedVars, adapter, finishing, eventVars>>

\* Deliveries are chained, and each waits for the session.
HandOver ==
  /\ GoesOn /\ adapter = "open"
  /\ queue # <<>> /\ ~handing
  /\ handing' = TRUE
  /\ taken' = Append(taken, Head(queue))
  /\ UNCHANGED <<phase, due, pushed, queue, adapter, closing, finishing, eventVars>>

Released == queue' = Tail(queue) /\ handing' = FALSE /\ UNCHANGED <<pushed, taken>>

AdapterTakes ==
  /\ handing /\ GoesOn
  /\ Released
  /\ UNCHANGED <<phase, due, adapter, closing, finishing, eventVars>>

AdapterRejects ==
  /\ handing /\ ~Ended
  /\ Released
  /\ Ends("failed")
  /\ UNCHANGED <<due, adapter, finishing, eventVars>>

\* Once the attempt has ended, every delivery rejects in turn.
DeliveryAborted ==
  /\ Ended /\ queue # <<>>
  /\ Released
  /\ UNCHANGED <<phase, due, adapter, closing, finishing, eventVars>>

-----------------------------------------------------------------------------
(* The final.                                                               *)

Finish(n) ==
  /\ TakesChunks
  /\ n = pushed
  /\ phase' = "finishing"
  /\ finishing' = "draining"
  /\ UNCHANGED <<due, feedVars, adapter, closing, eventVars>>

\* The finish does not cover what was pushed, or comes later than the tighter
\* deadline it brings along.
FinishFails ==
  /\ TakesChunks
  /\ \E how \in {"failed", "timed_out"} : Ends(how)
  /\ finishing' = "rejected"
  /\ UNCHANGED <<due, feedVars, adapter, eventVars>>

FinishDrained_Early ==
  /\ finishing = "draining" /\ GoesOn
  /\ adapter = "open"
  /\ finishing' = "adapter"
  /\ UNCHANGED <<phase, due, feedVars, adapter, closing, eventVars>>

\* The adapter is asked for its final once it has taken every chunk.
FinishDrained ==
  /\ finishing = "draining" /\ GoesOn
  /\ queue = <<>> /\ adapter = "open"
  /\ finishing' = "adapter"
  /\ UNCHANGED <<phase, due, feedVars, adapter, closing, eventVars>>

AdapterFinishes ==
  /\ finishing = "adapter" /\ ~Ended
  /\ finishing' = "answered"
  /\ UNCHANGED <<phase, due, feedVars, adapter, closing, eventVars>>

AdapterFinishFails ==
  /\ finishing = "adapter" /\ ~Ended
  /\ Ends("failed")
  /\ finishing' = "rejected"
  /\ UNCHANGED <<due, feedVars, adapter, eventVars>>

FinishCommits ==
  /\ finishing = "answered" /\ GoesOn
  /\ finals # <<>>
  /\ phase' = "completed"
  /\ finishing' = "resolved"
  /\ UNCHANGED <<due, feedVars, adapter, closing, eventVars>>

FinishWithoutFinal ==
  /\ finishing = "answered" /\ GoesOn
  /\ finals = <<>>
  /\ Ends("failed")
  /\ finishing' = "rejected"
  /\ UNCHANGED <<due, feedVars, adapter, eventVars>>

\* finish() waits for the deliveries even if the attempt has ended.
FinishRejected ==
  /\ Ended
  /\ \/ finishing = "draining" /\ queue = <<>>
     \/ finishing \in {"adapter", "answered"}
  /\ finishing' = "rejected"
  /\ UNCHANGED <<phase, due, feedVars, adapter, closing, eventVars>>

-----------------------------------------------------------------------------
(* What the adapter emits.                                                  *)

Emits == adapter \in {"opening", "open"} /\ GoesOn

Partial ==
  /\ Emits /\ finals = <<>> /\ partials < MaxPartials
  /\ partials' = partials + 1
  /\ UNCHANGED <<phase, due, feedVars, adapter, closing, finishing, finals>>

\* A final is due once, and only after the drain.
FinalIsDue == finals = <<>> /\ finishing \in {"adapter", "answered"}

Final(n) ==
  /\ Emits /\ FinalIsDue
  /\ n = pushed
  /\ finals' = Append(finals, n)
  /\ UNCHANGED <<phase, due, feedVars, adapter, closing, finishing, partials>>

\* A second or an early final, one that covers something else, a partial after the
\* final, one too many or out of order, or anything that is no event.
BadEvent ==
  /\ Emits
  /\ Ends("failed")
  /\ UNCHANGED <<due, feedVars, adapter, finishing, eventVars>>

-----------------------------------------------------------------------------
(* The deadline, and whoever gives up on the attempt.                       *)

DeadlinePasses ==
  /\ ~due
  /\ due' = TRUE
  /\ UNCHANGED <<phase, feedVars, adapter, closing, finishing, eventVars>>

Expire_UntilFinish ==
  /\ due /\ ~Ended /\ phase # "finishing"
  /\ Ends("timed_out")
  /\ UNCHANGED <<due, feedVars, adapter, finishing, eventVars>>

Expire ==
  /\ due /\ ~Ended
  /\ Ends("timed_out")
  /\ UNCHANGED <<due, feedVars, adapter, finishing, eventVars>>

Cancel ==
  /\ ~Ended
  /\ Ends("cancelled")
  /\ UNCHANGED <<due, feedVars, adapter, finishing, eventVars>>

-----------------------------------------------------------------------------
Adapter ==
  \/ AdapterOpens \/ AdapterRefuses \/ AdapterTakes \/ AdapterRejects
  \/ AdapterFinishes \/ AdapterFinishFails
  \/ Partial \/ Final(pushed) \/ BadEvent

Continuation ==
  \/ OpenAdapter \/ HandOver \/ DeliveryAborted
  \/ FinishDrained \/ FinishCommits \/ FinishWithoutFinal \/ FinishRejected

-----------------------------------------------------------------------------
\* Every variable keeps its type.
TypeOK ==
  /\ phase \in {"opening", "streaming", "finishing",
                "completed", "cancelled", "timed_out", "failed"}
  /\ due \in BOOLEAN /\ handing \in BOOLEAN
  /\ pushed \in Nat /\ partials \in Nat
  /\ queue \in Seq(Nat) /\ taken \in Seq(Nat) /\ finals \in Seq(Nat)
  /\ adapter \in {"none", "opening", "open", "refused"}
  /\ closing \in {"no", "waiting", "called"}
  /\ finishing \in {"no", "draining", "adapter", "answered", "resolved", "rejected"}
=============================================================================
