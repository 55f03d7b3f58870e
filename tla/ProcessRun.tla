------------------------------ MODULE ProcessRun ------------------------------
(***************************************************************************)
(* runProcess: programs the server runs for its callers, each behind one   *)
(* promise.  A program is told to stop when its time is up or its caller's *)
(* signal aborts; it may ignore that, and is killed a moment later.        *)
(*                                                                         *)
(* A program that has exited is noticed later: "exited" is a child that    *)
(* succeeded and whose 'close' event has not been handled, "broken" one    *)
(* that failed, or that could not be started.  A run is forgotten when its *)
(* caller has the outcome.  A program that is fed is killed, and given up  *)
(* at once, when it does not take its input.                               *)
(***************************************************************************)
CONSTANTS
  Runs,    \* the programs
  Timed,   \* those with a timeout
  Fed      \* those that are given something to read

VARIABLE run

NotCalled ==
  [child |-> "none", told |-> "nothing", error |-> "none", promise |-> "none"]

RunRecords ==
  [child   : {"none", "running", "exited", "broken", "gone"},
   told    : {"nothing", "term", "kill"},
   error   : {"none", "timeout", "abort"},
   promise : {"none", "pending", "resolved", "rejected"}]

Init == run = [r \in Runs |-> NotCalled]

\* The value of the promise is known, and its listeners and timers are gone.
Settled(r) == run[r].promise \in {"resolved", "rejected"}
Pending(r) == run[r].promise = "pending"
Alive(r)   == run[r].child = "running"

-----------------------------------------------------------------------------
(* What becomes of one run, as values: its caller takes these steps too.     *)

\* A call with an aborted signal starts nothing; else the program starts, or
\* turns out not to exist.
Called(aborted) ==
  IF aborted
  THEN {[NotCalled EXCEPT !.promise = "rejected"]}
  ELSE {[NotCalled EXCEPT !.promise = "pending", !.child = c] :
          c \in {"running", "broken"}}

Terminated_ForgetsToKill(p, why) ==
  [p EXCEPT !.error = IF @ = "none" THEN why ELSE @]

\* The first reason is the one that is reported; the program is told once.
Terminated(p, why) ==
  [p EXCEPT !.error = IF @ = "none" THEN why ELSE @,
            !.told  = IF @ = "nothing" THEN "term" ELSE @]

Aborted_RejectsAtOnce(p) ==
  IF p.promise = "pending"
  THEN [Terminated(p, "abort") EXCEPT !.promise = "rejected"] ELSE p

\* The signal's listener is there until the promise has settled.
Aborted(p) == IF p.promise = "pending" THEN Terminated(p, "abort") ELSE p

-----------------------------------------------------------------------------
Becomes(r, p) == run' = [run EXCEPT ![r] = p]

\* The timer may fire after the program has exited and before that is noticed.
TimeIsUp(r) ==
  /\ r \in Timed /\ Pending(r) /\ run[r].error # "timeout"
  /\ Becomes(r, Terminated(run[r], "timeout"))

ForceKill(r) ==
  /\ Pending(r) /\ run[r].told = "term"
  /\ Becomes(r, [run[r] EXCEPT !.told = "kill"])

\* On its own, or because it was told, which makes its exit code meaningless.
Exits(r) ==
  /\ Alive(r)
  /\ \E how \in (IF run[r].error = "none" THEN {"exited", "broken"} ELSE {"broken"}) :
       Becomes(r, [run[r] EXCEPT !.child = how])

\* 'close', or 'error' for a program that never ran.
CloseEvent(r) ==
  /\ Pending(r) /\ run[r].child \in {"exited", "broken"}
  /\ Becomes(r, [run[r] EXCEPT
       !.child = "gone",
       !.promise = IF run[r].child = "exited" /\ run[r].error = "none"
                   THEN "resolved" ELSE "rejected"])

\* Writing the input fails: the program is killed, and its end not waited for.
InputBreaks(r) ==
  /\ r \in Fed /\ Pending(r)
  /\ Becomes(r, [run[r] EXCEPT !.told = "kill", !.promise = "rejected"])

\* The caller has the outcome; a program that still runs goes on.
Forgotten(p) == IF p.child = "running" THEN p ELSE NotCalled

Forgets(r) == Becomes(r, Forgotten(run[r]))

\* What the program and the timers do by themselves.
RunEvent(r) ==
  TimeIsUp(r) \/ ForceKill(r) \/ Exits(r) \/ CloseEvent(r) \/ InputBreaks(r)

\* A program owes nobody its end, unless it is killed: then it goes.
OwedEvent(r) ==
  \/ TimeIsUp(r) \/ ForceKill(r) \/ CloseEvent(r)
  \/ run[r].told = "kill" /\ Exits(r)
=============================================================================
