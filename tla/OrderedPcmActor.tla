--------------------------- MODULE OrderedPcmActor ---------------------------
(***************************************************************************)
(* The WebSocket side of ordered PCM input: the connections of one session *)
(* attempt, each with an actor that handles messages, timers, the close    *)
(* and the shutdown one at a time on a promise chain.  A task spans        *)
(* several awaits; a step of this module is the code between two of them.  *)
(*                                                                         *)
(* The stream's bytes are the subject of OrderedPcmIngress: here the       *)
(* reducer may refuse any message, and a chunk may leave a gap.  The       *)
(* claimed run is the subject of AttemptRuntime: here it is superseded,    *)
(* fails or completes.  HTTP uploads that reach the attempt and then lose  *)
(* its claim are left to AttemptRuntime too.                               *)
(***************************************************************************)
EXTENDS SessionEvents, FiniteSets

CONSTANTS
  Conns,        \* WebSocket connections to the session's stream
  Rival,        \* an HTTP upload that may claim the attempt first
  NoOne,        \* the claim holder before any claim
  MaxMessages,  \* bound: wire messages each connection delivers
  Pipelined,    \* messages one read of each socket may deliver before a pause
  SlowStart     \* connections whose start timer may run out during audio.start

ASSUME ConnsAreNotOthers ==
  Rival \notin Conns /\ NoOne \notin Conns /\ Rival # NoOne

ASSUME BoundsAreNatural ==
  /\ MaxMessages \in [Conns -> Nat] /\ Pipelined \in [Conns -> Nat \ {0}]
  /\ SlowStart \subseteq Conns

VARIABLES
  status, owner,     \* the session's status and input claim
  armed, deadlines,  \* its armed deadline (0: none), deadlines armed so far
  actor,             \* each connection's actor
  queue,             \* the tasks behind the one an actor handles
  socket, answers,   \* each connection, and what its client was sent
  sent,              \* wire messages delivered so far
  shutting,          \* the server is closing
  resultOf           \* the connection whose run committed the result

sessionVars == <<status, owner, armed, deadlines>>
wireVars    == <<socket, answers, sent, shutting>>
vars == <<sessionVars, actor, queue, wireVars, resultOf>>

Messages == {"start", "chunk", "stop", "junk"}
Timeouts == {"startTimeout", "captureTimeout"}
Tasks    == Messages \union Timeouts \union {"close", "shutdown"}

Waits == {"idle", "spooling", "startWrite", "acking", "chunkWrite", "stopWal",
          "stopWrite", "finishing", "running", "finalizing", "failing"}

NewActor ==
  [task |-> "none", pc |-> "idle", phase |-> "idle", coverage |-> "empty",
   started |-> FALSE, terminal |-> FALSE, cleaned |-> FALSE, timer |-> "none",
   lease |-> FALSE, spool |-> FALSE, held |-> 0, gone |-> FALSE]

Init ==
  /\ status = "created" /\ owner = NoOne
  /\ armed = 0 /\ deadlines = 0
  /\ actor   = [c \in Conns |-> NewActor]
  /\ queue   = [c \in Conns |-> <<>>]
  /\ socket  = [c \in Conns |-> "none"]
  /\ answers = [c \in Conns |-> <<>>]
  /\ sent    = [c \in Conns |-> 0]
  /\ shutting = FALSE
  /\ resultOf = NoOne

-----------------------------------------------------------------------------
(* The session, as the actor uses it.                                      *)

\* A session.error cancels the deadline in the step that commits it.
SealWithError ==
  /\ status' = "error"
  /\ armed' = 0
  /\ UNCHANGED <<owner, deadlines>>

\* A server that is closing arms no deadline: it hands out one that has ended.
EnsureDeadline ==
  IF armed = 0 /\ ~shutting
  THEN armed' = deadlines + 1 /\ deadlines' = deadlines + 1
  ELSE UNCHANGED <<armed, deadlines>>

StillRecording(a) == a.started /\ status = "recording"

IsClaimable == status = "created" /\ owner = NoOne

\* The run's own deadline is still armed, and no shutdown has aborted its work.
MayCommit(a) ==
  ~shutting /\ a.held = armed /\ status \notin {"reset", "error"}

-----------------------------------------------------------------------------
(* The task chain.                                                          *)

Pending(c, kinds) ==
  \/ actor[c].task \in kinds
  \/ \E i \in DOMAIN queue[c] : queue[c][i] \in kinds

\* A queued task starts before the event loop turns: only then do messages,
\* timers and the socket get their say.
Settled(c) == actor[c].pc = "idle" => queue[c] = <<>>

Enqueued(c, kind) == queue' = [queue EXCEPT ![c] = Append(@, kind)]

Takes(c, kind) ==
  /\ actor[c].pc = "idle"
  /\ queue[c] # <<>>
  /\ Head(queue[c]) = kind
  /\ queue' = [queue EXCEPT ![c] = Tail(@)]

Taken(c, kind) == [actor[c] EXCEPT !.task = kind]

Becomes(c, a) == actor' = [actor EXCEPT ![c] = a]

Waiting(a, pc) == [a EXCEPT !.pc = pc]

\* The task is over; the close task also takes the actor off the server's list.
Rested(a) ==
  [a EXCEPT !.pc = "idle", !.task = "none",
            !.gone = @ \/ a.task = "close"]

CleanedUp_KeepsLease(a) ==
  IF a.cleaned THEN a
  ELSE [a EXCEPT !.cleaned = TRUE, !.timer = "none", !.spool = FALSE]

\* Cleanup is memoised: only the first call closes the spool and gives the
\* lease back.
CleanedUp(a) ==
  IF a.cleaned THEN a
  ELSE [a EXCEPT !.cleaned = TRUE, !.timer = "none", !.spool = FALSE,
                 !.lease = FALSE]

Stopping(a) == [a EXCEPT !.terminal = TRUE, !.timer = "none", !.pc = "failing"]

\* The first failure is the actor's last: it stops the timer and, if asked to
\* and the stream was started here, seals an attempt that has not ended.
Failing(c, a, seal) ==
  IF a.terminal
  THEN Becomes(c, Rested(a)) /\ UNCHANGED <<status, armed, deadlines>>
  ELSE /\ Becomes(c, Stopping(a))
       /\ IF seal /\ a.started /\ status \notin TerminalStatuses
          THEN status' = "error" /\ armed' = 0 /\ UNCHANGED deadlines
          ELSE UNCHANGED <<status, armed, deadlines>>

\* A rejected promise on the chain.
Unexpected(c, a) ==
  IF a.terminal
  THEN Becomes(c, Rested(CleanedUp(a))) /\ UNCHANGED <<status, armed, deadlines>>
  ELSE Failing(c, a, a.phase = "open" \/ a.started)

Quietly == UNCHANGED <<wireVars, resultOf>>
InTask  == Quietly /\ UNCHANGED queue

FailureAnswered_SocketStaysOpen(c) ==
  LET a == actor[c]
  IN  /\ a.pc = "failing"
      /\ answers' = IF socket[c] = "open" /\ a.task # "close"
                    THEN [answers EXCEPT ![c] = Append(@, "error")]
                    ELSE answers
      /\ Becomes(c, Rested(CleanedUp(a)))
      /\ UNCHANGED <<sessionVars, queue, socket, sent, shutting, resultOf>>

\* The error's receipt settles, the client is told, the spool is cleaned up and
\* the socket is closed.
FailureAnswered(c) ==
  LET a == actor[c]
  IN  /\ a.pc = "failing"
      /\ IF socket[c] = "open"
         THEN /\ answers' = IF a.task = "close" THEN answers
                            ELSE [answers EXCEPT ![c] = Append(@, "error")]
              /\ socket'  = [socket EXCEPT ![c] = "closing"]
         ELSE UNCHANGED <<answers, socket>>
      /\ Becomes(c, Rested(CleanedUp(a)))
      /\ UNCHANGED <<sessionVars, queue, sent, shutting, resultOf>>

-----------------------------------------------------------------------------
(* audio.start                                                              *)

\* A second start, a wrong profile, or an attempt that cannot be claimed.
StartRefused(c) ==
  LET a == Taken(c, "start")
  IN  /\ Takes(c, "start")
      /\ Failing(c, a, a.phase # "idle")
      /\ Quietly /\ UNCHANGED owner

StartClaims_Unanswered(c) ==
  LET a == [Taken(c, "start") EXCEPT !.started = TRUE]
  IN  /\ Takes(c, "start")
      /\ a.phase = "idle"
      /\ status = "created"
      /\ owner' = IF owner = NoOne THEN c ELSE owner
      /\ \/ /\ Becomes(c, Waiting([a EXCEPT !.lease = TRUE], "spooling"))
            /\ UNCHANGED <<status, armed, deadlines>>
         \/ Failing(c, a, TRUE)
      /\ Quietly

\* The claim, and the ingress lease that bounds the spool, are one step.
StartClaims(c) ==
  LET a == [Taken(c, "start") EXCEPT !.started = TRUE]
  IN  /\ Takes(c, "start")
      /\ a.phase = "idle"
      /\ IsClaimable
      /\ owner' = c
      /\ \/ /\ Becomes(c, Waiting([a EXCEPT !.lease = TRUE], "spooling"))
            /\ UNCHANGED <<status, armed, deadlines>>
         \/ Failing(c, a, TRUE)
      /\ Quietly

\* The spool is open and its first record written, or one of them failed, or
\* the recording has been started by someone else meanwhile.
SpoolOpened(c) ==
  LET a == [actor[c] EXCEPT !.spool = TRUE]
  IN  /\ a.pc = "spooling"
      /\ \/ /\ CanApply(status, "recording_started")
            /\ status' = StatusAfter("recording_started", status)
            /\ Becomes(c, Waiting(a, "startWrite"))
            /\ UNCHANGED <<armed, deadlines>>
         \/ Failing(c, a, TRUE)
      /\ InTask /\ UNCHANGED owner

\* The event's receipt is written and the stream is open; the receipt, or the
\* streaming recogniser, may fail instead.
StartWritten(c) ==
  LET a == actor[c]
  IN  /\ a.pc = "startWrite"
      /\ \/ /\ Becomes(c, [a EXCEPT !.phase = "open", !.timer = "capture",
                                    !.pc = "acking"])
            /\ UNCHANGED <<status, armed, deadlines>>
         \/ \E phase \in {"idle", "open"} :
              Failing(c, [a EXCEPT !.phase = phase], TRUE)
      /\ InTask /\ UNCHANGED owner

Acknowledged(c) ==
  LET a == actor[c]
  IN  /\ a.pc = "acking"
      /\ IF socket[c] = "open"
         THEN /\ answers' = [answers EXCEPT ![c] = Append(@, "spooled")]
              /\ Becomes(c, Rested(a))
              /\ UNCHANGED <<status, armed, deadlines>>
         ELSE Unexpected(c, a) /\ UNCHANGED answers
      /\ UNCHANGED <<owner, queue, socket, sent, shutting, resultOf>>

-----------------------------------------------------------------------------
(* audio.chunk and audio.stop                                               *)

\* Refused by the reducer, or over one of the limits.
MessageRefused(c, kind) ==
  LET a == Taken(c, kind)
  IN  /\ Takes(c, kind)
      /\ Failing(c, a, a.phase = "open")
      /\ Quietly /\ UNCHANGED owner

\* The attempt moved on: the stream gives up but leaves the attempt alone.
MessageTooLate(c, kind) ==
  LET a == Taken(c, kind)
  IN  /\ Takes(c, kind)
      /\ a.phase = "open"
      /\ ~StillRecording(a)
      /\ Failing(c, a, FALSE)
      /\ Quietly /\ UNCHANGED owner

\* A chunk is written to the spool, a stop to the spool's log; without a spool
\* the handler throws.
MessageWrites(c, kind) ==
  LET a == Taken(c, kind)
  IN  /\ Takes(c, kind)
      /\ a.phase = "open"
      /\ StillRecording(a)
      /\ IF a.spool /\ a.lease
         THEN /\ Becomes(c, Waiting(a, IF kind = "chunk" THEN "chunkWrite"
                                                         ELSE "stopWal"))
              /\ UNCHANGED <<status, armed, deadlines>>
         ELSE Unexpected(c, a)
      /\ Quietly /\ UNCHANGED owner

\* The chunk is in the spool, complete or behind a gap; or the write, the log's
\* budget or the streaming recogniser failed.
ChunkWritten(c) ==
  LET a == actor[c]
  IN  /\ a.pc = "chunkWrite"
      /\ \/ /\ \E coverage \in {"complete", "gap"} :
                 /\ a.coverage = "gap" => coverage = "gap"
                 /\ Becomes(c, [a EXCEPT !.coverage = coverage, !.pc = "acking"])
            /\ UNCHANGED <<status, armed, deadlines>>
         \/ Failing(c, a, TRUE)
      /\ InTask /\ UNCHANGED owner

\* The stop is logged: the recording stops and the deadline starts, unless the
\* attempt has left recording since it was checked.
StopLogged(c) ==
  LET a       == actor[c]
      stopped == [a EXCEPT !.phase = "stopped", !.timer = "none"]
  IN  /\ a.pc = "stopWal"
      /\ \/ /\ CanApply(status, "recording_stopped")
            /\ status' = StatusAfter("recording_stopped", status)
            /\ EnsureDeadline
            /\ Becomes(c, Waiting(stopped, "stopWrite"))
         \/ ~CanApply(status, "recording_stopped") /\ Unexpected(c, stopped)
         \/ Failing(c, a, TRUE)
      /\ InTask /\ UNCHANGED owner

Analysable_Always(a) == TRUE
Analysable(a) == a.coverage = "complete"

\* The stop's receipt is written, or not.  Only a complete stream with some
\* audio is analysed, under the deadline armed at its stop, or a new one if that has gone.
StopWritten(c) ==
  LET a == actor[c]
  IN  /\ a.pc = "stopWrite"
      /\ \/ /\ Analysable(a)
            /\ EnsureDeadline
            /\ Becomes(c, [a EXCEPT !.held = armed', !.pc = "finishing"])
            /\ UNCHANGED status
         \/ Failing(c, a, TRUE)
      /\ InTask /\ UNCHANGED owner

-----------------------------------------------------------------------------
(* Finalization: the streaming final and the WAVE copy, the claimed run, and *)
(* the last acknowledgement.                                                 *)

Finishing(c) ==
  LET a == actor[c]
  IN  /\ a.pc = "finishing"
      /\ \/ Becomes(c, Waiting(a, "running")) /\ UNCHANGED <<status, armed, deadlines>>
         \/ Failing(c, a, TRUE)
      /\ InTask /\ UNCHANGED owner

RunSuperseded_Unnoticed(c) ==
  LET a == actor[c]
  IN  /\ a.pc = "running"
      /\ ~MayCommit(a)
      /\ Becomes(c, Waiting(a, "finalizing"))
      /\ InTask /\ UNCHANGED sessionVars

RunSuperseded(c) ==
  LET a == actor[c]
  IN  /\ a.pc = "running"
      /\ ~MayCommit(a)
      /\ Failing(c, a, FALSE)
      /\ InTask /\ UNCHANGED owner

\* The run commits its own typed error; the actor only tells the client.
RunFails(c) ==
  LET a == actor[c]
  IN  /\ a.pc = "running"
      /\ MayCommit(a)
      /\ SealWithError
      /\ Becomes(c, Stopping(a))
      /\ InTask

RunCompletes(c) ==
  LET a == actor[c]
  IN  /\ a.pc = "running"
      /\ MayCommit(a)
      /\ status' = "result"
      /\ armed' = 0
      /\ resultOf' = c
      /\ Becomes(c, Waiting(a, "finalizing"))
      /\ UNCHANGED <<owner, deadlines, queue, wireVars>>

\* The spool is released before the client learns that its stream is final.
Finalized(c) ==
  LET a == CleanedUp(actor[c])
  IN  /\ a.pc = "finalizing"
      /\ IF socket[c] = "open"
         THEN /\ answers' = [answers EXCEPT ![c] = Append(@, "finalized")]
              /\ socket'  = [socket EXCEPT ![c] = "closing"]
              /\ Becomes(c, Rested([a EXCEPT !.terminal = TRUE]))
              /\ UNCHANGED <<status, armed, deadlines>>
         ELSE Failing(c, a, TRUE) /\ UNCHANGED <<answers, socket>>
      /\ UNCHANGED <<owner, queue, sent, shutting, resultOf>>

-----------------------------------------------------------------------------
(* The tasks no message asks for.                                           *)

\* A text frame, an envelope that does not decode, or another session's.
JunkRefused(c) == MessageRefused(c, "junk")

StartTimedOut(c) ==
  /\ Takes(c, "startTimeout")
  /\ Failing(c, Taken(c, "startTimeout"), FALSE)
  /\ Quietly /\ UNCHANGED owner

CaptureTimedOut(c) ==
  /\ Takes(c, "captureTimeout")
  /\ Failing(c, Taken(c, "captureTimeout"), TRUE)
  /\ Quietly /\ UNCHANGED owner

ShutDown(c) ==
  LET a == Taken(c, "shutdown")
  IN  /\ Takes(c, "shutdown")
      /\ Failing(c, a, a.phase = "open")
      /\ Quietly /\ UNCHANGED owner

Closed(c) ==
  LET a == Taken(c, "close")
  IN  /\ Takes(c, "close")
      /\ IF ~a.terminal /\ a.phase # "stopped"
         THEN Failing(c, a, a.phase = "open")
         ELSE /\ Becomes(c, Rested(CleanedUp(a)))
              /\ UNCHANGED <<status, armed, deadlines>>
      /\ Quietly /\ UNCHANGED owner

-----------------------------------------------------------------------------
(* The sockets, the timers and the server's shutdown.                       *)

Connect(c) ==
  /\ socket[c] = "none"
  /\ ~shutting
  /\ socket' = [socket EXCEPT ![c] = "open"]
  /\ Becomes(c, [actor[c] EXCEPT !.timer = "start"])
  /\ UNCHANGED <<sessionVars, queue, answers, sent, shutting, resultOf>>

\* Reading pauses with the first message of a read and resumes after its task.
Receive(c, kind) ==
  /\ socket[c] = "open"
  /\ ~actor[c].terminal
  /\ sent[c] < MaxMessages[c]
  /\ \/ Settled(c) /\ ~Pending(c, Messages)
     \/ actor[c].task \notin Messages
        /\ Cardinality({i \in DOMAIN queue[c] : queue[c][i] \in Messages})
             \in 1..(Pipelined[c] - 1)
  /\ sent' = [sent EXCEPT ![c] = @ + 1]
  /\ Enqueued(c, kind)
  /\ UNCHANGED <<sessionVars, actor, socket, answers, shutting, resultOf>>

TimerFires(c) ==
  LET a == actor[c]
  IN  /\ a.timer # "none"
      /\ Settled(c)
      /\ a.timer = "start" => c \in SlowStart \/ ~Pending(c, {"start"})
      /\ Enqueued(c, IF a.timer = "start" THEN "startTimeout" ELSE "captureTimeout")
      /\ Becomes(c, [a EXCEPT !.timer = "none"])
      /\ UNCHANGED <<sessionVars, wireVars, resultOf>>

\* The peer leaves, or answers the server's close.
SocketCloses(c) ==
  /\ socket[c] \in {"open", "closing"}
  /\ Settled(c)
  /\ socket' = [socket EXCEPT ![c] = "closed"]
  /\ Enqueued(c, "close")
  /\ UNCHANGED <<sessionVars, actor, answers, sent, shutting, resultOf>>

\* One callback: the deadlines are cleared and the runs' work is aborted, which
\* seals nothing, and then every open actor is asked to shut down.
ServerCloses ==
  /\ ~shutting
  /\ \A c \in Conns : Settled(c)
  /\ shutting' = TRUE
  /\ armed' = 0
  /\ queue' = [c \in Conns |->
                 IF socket[c] = "none" \/ actor[c].gone \/ actor[c].terminal
                 THEN queue[c] ELSE Append(queue[c], "shutdown")]
  /\ UNCHANGED <<status, owner, deadlines, actor, socket, answers, sent, resultOf>>

\* Once its chain has settled, a shut down actor terminates its socket.
Terminate(c) ==
  /\ shutting
  /\ socket[c] \in {"open", "closing"}
  /\ actor[c].pc = "idle" /\ queue[c] = <<>>
  /\ socket' = [socket EXCEPT ![c] = "closed"]
  /\ Enqueued(c, "close")
  /\ UNCHANGED <<sessionVars, actor, answers, sent, shutting, resultOf>>

-----------------------------------------------------------------------------
(* Everyone else who can touch the attempt.  The device route refuses a      *)
(* claimed attempt; the operator route does not ask.                         *)

SessionOnly == UNCHANGED <<actor, queue, wireVars, resultOf>>

\* An upload's read ends with its deadline, and so with the server's.
RivalClaims ==
  /\ IsClaimable
  /\ ~shutting
  /\ owner' = Rival
  /\ status' = StatusAfter("audio_uploaded", status)
  /\ EnsureDeadline
  /\ SessionOnly

OperatorStarts ==
  /\ CanAcceptExternal(status, "recording_started")
  /\ status' = StatusAfter("recording_started", status)
  /\ SessionOnly /\ UNCHANGED <<owner, armed, deadlines>>

OperatorStops_Unbounded ==
  /\ CanAcceptExternal(status, "recording_stopped")
  /\ status' = StatusAfter("recording_stopped", status)
  /\ SessionOnly /\ UNCHANGED <<owner, armed, deadlines>>

OperatorStops ==
  /\ CanAcceptExternal(status, "recording_stopped")
  /\ status' = StatusAfter("recording_stopped", status)
  /\ EnsureDeadline
  /\ SessionOnly /\ UNCHANGED owner

OperatorEnds(type) ==
  /\ type \in {"session_reset", "session_error"}
  /\ CanAcceptExternal(status, type)
  /\ status' = StatusAfter(type, status)
  /\ armed' = 0
  /\ SessionOnly /\ UNCHANGED <<owner, deadlines>>

DeadlineFires ==
  /\ armed # 0
  /\ armed' = 0
  /\ status' = IF status \in TerminalStatuses THEN status ELSE "error"
  /\ SessionOnly /\ UNCHANGED <<owner, deadlines>>

-----------------------------------------------------------------------------
Start(c)  == StartRefused(c) \/ StartClaims(c) \/ SpoolOpened(c) \/ StartWritten(c)

Record(c) ==
  \/ \E kind \in {"chunk", "stop"} :
       MessageRefused(c, kind) \/ MessageTooLate(c, kind) \/ MessageWrites(c, kind)
  \/ ChunkWritten(c) \/ Acknowledged(c)

Stop(c)   == StopLogged(c) \/ StopWritten(c) \/ Finishing(c) \/ Finalized(c)

Interrupt(c) ==
  \/ JunkRefused(c) \/ StartTimedOut(c) \/ CaptureTimedOut(c)
  \/ ShutDown(c) \/ Closed(c) \/ FailureAnswered(c)

Handle(c) ==
  Start(c) \/ Record(c) \/ Stop(c) \/ Interrupt(c) \/ RunSuperseded(c)

Provider(c) == RunFails(c) \/ RunCompletes(c)

Wire(c) ==
  \/ Connect(c)
  \/ \E kind \in Messages : Receive(c, kind)
  \/ TimerFires(c) \/ SocketCloses(c) \/ Terminate(c)

Others ==
  \/ RivalClaims \/ OperatorStarts \/ OperatorStops
  \/ \E type \in EventTypes : OperatorEnds(type)
  \/ DeadlineFires \/ ServerCloses

Next == Others \/ \E c \in Conns : Handle(c) \/ Provider(c) \/ Wire(c)

\* Awaited file writes and sends settle, timers fire, and a socket the server
\* closes or terminates does close.  No client owes a message or a close, and
\* no provider an answer.
Fairness ==
  /\ WF_vars(DeadlineFires)
  /\ \A c \in Conns :
       /\ WF_vars(Handle(c)) /\ WF_vars(TimerFires(c)) /\ WF_vars(Terminate(c))
       /\ WF_vars(socket[c] = "closing" /\ SocketCloses(c))

Spec == Init /\ [][Next]_vars /\ Fairness

-----------------------------------------------------------------------------
(* Properties.                                                              *)

Actors ==
  [task : Tasks \union {"none"}, pc : Waits,
   phase : {"idle", "open", "stopped"}, coverage : {"empty", "complete", "gap"},
   started : BOOLEAN, terminal : BOOLEAN, cleaned : BOOLEAN,
   timer : {"none", "start", "capture"},
   lease : BOOLEAN, spool : BOOLEAN, held : Nat, gone : BOOLEAN]

\* Every variable keeps its type.
TypeOK ==
  /\ status \in Statuses
  /\ owner \in Conns \union {Rival, NoOne}
  /\ armed \in Nat /\ deadlines \in Nat
  /\ actor \in [Conns -> Actors]
  /\ queue \in [Conns -> Seq(Tasks)]
  /\ socket \in [Conns -> {"none", "open", "closing", "closed"}]
  /\ answers \in [Conns -> Seq({"spooled", "finalized", "error"})]
  /\ sent \in [Conns -> Nat]
  /\ shutting \in BOOLEAN
  /\ resultOf \in Conns \union {NoOne}

\* A client is told once how its stream ended, and nothing after that, even when
\* messages were already queued behind the failing one.
NothingAfterTheVerdict ==
  \A c \in Conns : \A i \in 1..(Len(answers[c]) - 1) : answers[c][i] = "spooled"

\* A stream is called final only when its own run committed the result, even
\* though resets and deadlines race with that run until its last await.
FinalizedMeansResult ==
  \A c \in Conns :
    (\E i \in DOMAIN answers[c] : answers[c][i] = "finalized") => resultOf = c

\* A stream that lost or dropped audio is never analysed.
OnlyCompleteStreamsAreAnalysed ==
  resultOf \in Conns => actor[resultOf].coverage = "complete"

\* A connection's failure ends the attempt only if that connection owns it:
\* a rejected competitor never seals the winner's recording.
OnlyTheOwnerSeals ==
  [][\A c \in Conns :
       /\ ~actor[c].terminal /\ actor'[c].terminal
       /\ status' # status
       => owner' = c]_vars

\* A claimed stream ends its attempt, whatever the client, the provider and the
\* operator do, unless the server itself is closed.
StreamAttemptEnds ==
  \A c \in Conns : owner = c ~> status \in TerminalStatuses \/ shutting

\* Connections that send one message at a time and are answered in time.
Patient == {c \in Conns : Pipelined[c] = 1 /\ c \notin SlowStart}

\* A recording that was over, or is logged as over, when the server closes: its
\* deadline is cleared, its run may not commit and nobody seals it.
LeftAtShutdown == shutting /\ status = "processing"

\* The same of a stream whose start is answered before its timer runs out, while
\* a hastier connection competes with it; and if the server is closed in the
\* middle of the recording, its actor still seals the attempt.
TimelyStreamEnds ==
  \A c \in Patient : owner = c ~> status \in TerminalStatuses \/ LeftAtShutdown

HoldsNothing(a) == ~a.lease /\ ~a.spool /\ a.timer = "none"

\* Every patient connection that closes, or that the server shuts down, leaves the
\* server's list, and has then given back its lease, its spool and its timer.
ConnectionsLeave ==
  \A c \in Patient :
    socket[c] = "closed" \/ (shutting /\ socket[c] = "open") ~>
      actor[c].gone /\ HoldsNothing(actor[c])
=============================================================================
