----------------------------- MODULE PcmCapture ------------------------------
(***************************************************************************)
(* The browser's end of an ordered PCM stream.  A worklet posts frames to  *)
(* the page, which packs them into chunks, keeps a few of them in flight,  *)
(* and stops the stream once every chunk is acknowledged.  Nothing is sent *)
(* twice: whatever goes wrong ends the recording.                          *)
(*                                                                         *)
(* The server's end is the reducer of OrderedPcmIngress with just enough   *)
(* of its connection and of the session to answer, fail and be reset at    *)
(* any time; OrderedPcmActor has it in detail.                             *)
(*                                                                         *)
(* The page has one transport at a time, that of `turn`.  A frame is what  *)
(* the worklet posts (20 ms); clocks count in frames.                      *)
(***************************************************************************)
EXTENDS Integers, Sequences
LOCAL INSTANCE SequencesExt

CONSTANTS
  Turns,           \* the sessions that are asked for, one for each recording
  FramesPerChunk, MaxInflight, Credits,
  MaxHeld,         \* frames that may await their acknowledgement
  MaxTurn,         \* frames of one recording
  MaxDrift,        \* frames by which the page's clock and the source's may differ
  MaxSafe,         \* Number.MAX_SAFE_INTEGER
  Frames           \* bound: how many frames the source of each renders

ASSUME LimitsArePositive ==
  /\ Turns \subseteq Nat \ {0}
  /\ {FramesPerChunk, MaxInflight, Credits, MaxHeld, MaxTurn} \subseteq Nat \ {0}
  /\ {MaxDrift, MaxSafe} \subseteq Nat /\ Frames \in [Turns -> Nat]

\* No source renders as many frames as would make their bytes an unsafe number.
ASSUME SourcesAreFinite == \A s \in Turns : 2 * Frames[s] <= MaxSafe

VARIABLES
  turn,      \* whose transport it is; 0 before the first
  source,    \* the worklet: its state, clock and losses
  port,      \* what it posted to the page
  t,         \* the transport
  wire, answers,    \* messages in either direction
  link,      \* the server's end of the socket: "none", "open" or "closed"
  session,   \* the status of each session; "none" before its creation
  stream, spooled   \* the reducer's state and the spool

Server == INSTANCE OrderedPcmIngress WITH
  Identities <- {"turn"},
  Times <- {0}, Sequences <- {1}, ChunkFrames <- {1}, ChunkBytes <- {2},
  Totals <- {0}, LossCounts <- {0}, LossBytes <- {0}

serverVars  == <<link, session, stream, spooled>>
captureVars == <<turn, source, port, t, wire, answers, serverVars>>

NoLoss == [gaps |-> 0, overflows |-> 0]

FreshSource == [state |-> "running", clock |-> 0, loss |-> NoLoss]

FreshTransport ==
  [socket |-> "none", timer |-> "none", started |-> FALSE, stop |-> "no",
   stopAt |-> 0, verdict |-> "none", buffer |-> 0, lastTime |-> 0, loss |-> NoLoss,
   pending |-> <<>>, inflight |-> <<>>, next |-> 1, emitted |-> 0]

CaptureInit ==
  /\ turn = 0
  /\ source = [FreshSource EXCEPT !.state = "off"] /\ port = <<>>
  /\ t = FreshTransport /\ wire = <<>> /\ answers = <<>>
  /\ link = "none" /\ session = [s \in Turns |-> "none"]
  /\ stream = Server!Fresh /\ spooled = <<>>

Dropped(loss) == loss.gaps + loss.overflows

Later(a, b) == IF a < b THEN b ELSE a
Fewer(a, b) == IF a < b THEN a ELSE b
Abs(n)      == IF n < 0 THEN -n ELSE n

-----------------------------------------------------------------------------
(* The messages.                                                            *)

Evidence(loss) ==
  [captureGapCount |-> loss.gaps, droppedFrameCount |-> Dropped(loss),
   droppedByteCount |-> 2 * Dropped(loss), overflowCount |-> loss.overflows]

StartMessage == [type |-> "start", identity |-> "turn", time |-> 0]

ChunkMessage(c) ==
  [type |-> "chunk", identity |-> "turn", time |-> c.time, sequence |-> c.sequence,
   frames |-> c.frames, bytes |-> 2 * c.frames, loss |-> Evidence(c.loss)]

StopMessage(u) ==
  [type |-> "stop", identity |-> "turn", time |-> u.lastTime,
   finalSequence |-> u.next - 1, frames |-> u.emitted, bytes |-> 2 * u.emitted,
   loss |-> Evidence(u.loss)]

-----------------------------------------------------------------------------
(* The transport.                                                           *)

Alive(u) == u.verdict = "none"

\* The timers and the socket are closed, and nothing else of the transport is read
\* again.
Ended(u, verdict) ==
  [FreshTransport EXCEPT !.verdict = verdict,
                         !.socket = IF u.socket = "none" THEN @ ELSE "closed"]

\* fail() and abort().  With the first a source that still runs is disconnected, and
\* what it has posted is ignored; `rest` is what else is still to be read.
Ends(verdict, rest) ==
  /\ t' = IF Alive(t) THEN Ended(t, verdict) ELSE t
  /\ IF source.state = "running"
     THEN source' = [FreshSource EXCEPT !.state = "off"] /\ port' = <<>>
     ELSE UNCHANGED source /\ port' = rest

HighestSent(u)         == u.next - 1 - Len(u.pending)
HighestAcknowledged(u) == HighestSent(u) - Len(u.inflight)

Held(u) == FoldSeq(LAMBDA c, n : n + c.frames, 0, u.inflight \o u.pending)

\* Queues what was packed, unless it is too much: no frame is dropped in silence.
Flushed(u) ==
  IF u.buffer = 0 THEN u
  ELSE IF u.emitted + u.buffer > MaxTurn \/ Held(u) + u.buffer > MaxHeld
  THEN Ended(u, "failed")
  ELSE [u EXCEPT !.pending = Append(@, [sequence |-> u.next, frames |-> u.buffer,
                                         time |-> u.lastTime, loss |-> u.loss]),
                 !.next = @ + 1, !.emitted = @ + u.buffer, !.buffer = 0]

Pumps(u) == Alive(u) /\ u.started /\ u.socket = "open"

Burst(u) ==
  IF Pumps(u)
  THEN SubSeq(u.pending, 1, Fewer(Len(u.pending), MaxInflight - Len(u.inflight)))
  ELSE <<>>

\* Once everything is acknowledged, the recording is hashed.
Pumped(u) ==
  LET n == Len(Burst(u))
      v == [u EXCEPT !.inflight = @ \o Burst(u),
                     !.pending  = SubSeq(@, n + 1, Len(@))]
  IN  IF ~Pumps(u) THEN u
      ELSE [v EXCEPT
             !.timer = IF v.inflight # <<>> THEN "ack" ELSE @,
             !.stop  = IF @ = "requested" /\ v.pending = <<>> /\ v.inflight = <<>>
                       THEN "hashing" ELSE @]

Sends(chunks) == wire' = wire \o [i \in DOMAIN chunks |-> ChunkMessage(chunks[i])]

Pump(u) == t' = Pumped(u) /\ Sends(Burst(u))

-----------------------------------------------------------------------------
(* The source.                                                              *)

\* A frame without a credit is dropped, and so is one the browser left out; both
\* are counted.
Rendered(s, lost) ==
  LET drops == ~lost /\ Len(port) >= Credits
  IN  [s EXCEPT !.clock = @ + 1,
                !.loss = [gaps |-> @.gaps + (IF lost THEN 1 ELSE 0),
                          overflows |-> @.overflows + (IF drops THEN 1 ELSE 0)]]

\* What is posted for it: nothing, if it was lost.
Posted(s) ==
  IF s.loss = source.loss
  THEN Append(port, [type |-> "frame", time |-> s.clock, loss |-> s.loss])
  ELSE port

RenderFrame ==
  /\ source.state \in {"running", "asked"} /\ Alive(t)
  /\ source.clock < Frames[turn]
  /\ \E lost \in BOOLEAN :
       /\ source' = Rendered(source, lost)
       /\ port' = Posted(source')
  /\ UNCHANGED <<turn, t, wire, answers, serverVars>>

\* The frame that is not full yet is flushed.
WorkletStops ==
  /\ source.state = "asked"
  /\ \E s \in {source, Rendered(source, FALSE)} :
       /\ s.clock <= Frames[turn]
       /\ source' = [s EXCEPT !.state = "stopped"]
       /\ port' = Append(IF s = source THEN port ELSE Posted(s),
                         [type |-> "stopped", loss |-> s.loss])
  /\ UNCHANGED <<turn, t, wire, answers, serverVars>>

FrameArrives ==
  /\ port # <<>> /\ Head(port).type = "frame"
  /\ LET u == [t EXCEPT !.loss = Head(port).loss, !.buffer = @ + 1,
                        !.lastTime = Later(@, Head(port).time)]
         v == IF u.buffer = FramesPerChunk THEN Flushed(u) ELSE u
     IN  IF ~Alive(t) \/ t.stop # "no"
         THEN port' = Tail(port) /\ UNCHANGED <<source, t, wire>>
         ELSE IF Alive(v)
         THEN /\ port' = Tail(port) /\ UNCHANGED source
              /\ IF v = u THEN t' = u /\ UNCHANGED wire ELSE Pump(v)
         ELSE Ends("failed", Tail(port)) /\ UNCHANGED wire
  /\ UNCHANGED <<turn, answers, serverVars>>

\* What the worklet breaks, an interrupted audio context, a track that ends.
SourceFails ==
  /\ source.state = "running" /\ Alive(t)
  /\ Ends("failed", port)
  /\ UNCHANGED <<turn, wire, answers, serverVars>>

-----------------------------------------------------------------------------
(* stop().                                                                  *)

\* The worklet is asked to flush; its clock may lag behind the page's.
AskWorkletToStop ==
  /\ source' = [source EXCEPT !.state = "asked"]
  /\ \E lag \in {0, 1} : t' = [t EXCEPT !.stopAt = source.clock + lag]
  /\ UNCHANGED <<turn, port, wire, answers, serverVars>>

Drifts(time, frames, loss) == Abs(time - frames - Dropped(loss)) > MaxDrift

StopsAt_PageClock(u) == [u EXCEPT !.stop = "requested", !.lastTime = u.stopAt]

StopsAt(u) == [u EXCEPT !.stop = "requested", !.lastTime = Later(@, u.stopAt)]

StopTransport(u) ==
  LET v == Flushed(StopsAt(u))
  IN  /\ t' = IF Alive(v) /\ Drifts(v.stopAt, v.emitted, v.loss)
              THEN Ended(v, "failed") ELSE Pumped(v)
      /\ Sends(Burst(v))

\* The worklet has flushed; its graph and the microphone are closed, and the
\* transport stops, unless it has failed meanwhile.
WorkletStopArrives ==
  /\ port # <<>> /\ Head(port).type = "stopped"
  /\ port' = Tail(port)
  /\ IF Alive(t) THEN StopTransport([t EXCEPT !.loss = Head(port).loss])
     ELSE UNCHANGED <<t, wire>>
  /\ UNCHANGED <<turn, source, answers, serverVars>>

HashIsReady ==
  /\ Alive(t) /\ t.stop = "hashing"
  /\ t' = [t EXCEPT !.stop = "sent", !.timer = "none"]
  /\ wire' = Append(wire, StopMessage(t))
  /\ UNCHANGED <<turn, source, port, answers, serverVars>>

-----------------------------------------------------------------------------
(* The socket.                                                              *)

\* A transport that has a registration connects.
Connecting(u) ==
  IF Alive(u) THEN [u EXCEPT !.socket = "connecting", !.timer = "connect"] ELSE u

SocketOpens ==
  /\ t.socket = "connecting"
  /\ t' = [t EXCEPT !.socket = "open", !.timer = "ack"]
  /\ wire' = Append(wire, StartMessage)
  /\ link' = "open"
  /\ UNCHANGED <<turn, source, port, answers, session, stream, spooled>>

\* The network fails, or the server closes.
SocketFails ==
  /\ t.socket \in {"connecting", "open"}
  /\ Ends("failed", port)
  /\ UNCHANGED <<turn, wire, answers, serverVars>>

\* No connection, or no acknowledgement, in time.
TimerFires ==
  /\ t.timer # "none"
  /\ Ends("failed", port)
  /\ UNCHANGED <<turn, wire, answers, serverVars>>

\* What is in flight is numbered without gaps.
Acknowledged(u, sequence) ==
  [u EXCEPT !.inflight = SubSeq(@, sequence - HighestAcknowledged(u) + 1, Len(@)),
            !.timer = IF sequence > HighestAcknowledged(u) THEN "none" ELSE @]

AnswerArrives ==
  /\ t.socket = "open" /\ answers # <<>>
  /\ answers' = Tail(answers)
  /\ LET a == Head(answers)
         goesOn(u) == Pump(u) /\ UNCHANGED <<source, port>>
     IN  CASE a.type = "started" /\ ~t.started ->
                goesOn([t EXCEPT !.started = TRUE, !.timer = "none"])
           [] a.type = "spooled" /\ a.sequence \in HighestAcknowledged(t)..HighestSent(t) ->
                goesOn(Acknowledged(t, a.sequence))
           [] a.type = "final" /\ t.stop = "sent" /\ a.sequence = t.next - 1 ->
                t' = Ended(t, "final") /\ UNCHANGED <<source, port, wire>>
           [] OTHER -> Ends("failed", port) /\ UNCHANGED wire
  /\ UNCHANGED <<turn, serverVars>>

-----------------------------------------------------------------------------
(* The server, as this client meets it.                                     *)

SessionIs(status) == turn # 0 /\ session[turn] = status

SessionBecomes(status) == session' = [session EXCEPT ![turn] = status]

\* Every guard of the reducer and of the connection.
Accepts(m) ==
  CASE m.type = "start" -> stream.phase = "idle"
    [] m.type = "chunk" ->
         /\ Server!Continues(stream, m)
         /\ Server!IsNew(m) /\ Server!MissingBefore(m) = 0
         /\ Server!PcmByteCountIs(m.frames, m.bytes)
         /\ Server!IsSafe(stream.chunkCount + 1)
         /\ Server!IsSafe(stream.frameCount + m.frames)
         /\ Server!IsSafe(stream.byteCount + m.bytes)
    [] m.type = "stop" ->
         /\ Server!Continues(stream, m)
         /\ m.finalSequence = stream.lastSequence
         /\ Server!PcmByteCountIs(m.frames, m.bytes) /\ Server!TotalsAgree(m)
         /\ Abs(m.time - stream.startTime - m.frames - m.loss.droppedFrameCount)
              <= MaxDrift

Reads(type) ==
  /\ link = "open" /\ wire # <<>>
  /\ Head(wire).type = type /\ wire' = Tail(wire)

Answers(a) == answers' = Append(answers, a)

ServerStarts ==
  /\ Reads("start") /\ Server!Start(Head(wire))
  /\ SessionIs("created") /\ SessionBecomes("recording")
  /\ Answers([type |-> "started"])
  /\ UNCHANGED <<turn, source, port, t, link>>

ServerSpools ==
  /\ Reads("chunk") /\ Server!Chunk(Head(wire))
  /\ Answers([type |-> "spooled", sequence |-> Head(wire).sequence])
  /\ SessionIs("recording")
  /\ UNCHANGED <<turn, source, port, t, link, session>>

\* The connection's end, before its audio is analysed: a recording fails with it, and
\* what was spooled is removed.
Disconnects ==
  /\ link' = "closed" /\ wire' = <<>>
  /\ stream' = Server!Fresh /\ spooled' = <<>>
  /\ IF SessionIs("recording") THEN SessionBecomes("error") ELSE UNCHANGED session

\* Only a complete stream with audio in it is analysed; any other is refused next.
ServerStops ==
  /\ Reads("stop") /\ Server!Stop(Head(wire))
  /\ SessionIs("recording")
  /\ IF stream'.complete /\ stream'.byteCount > 0
     THEN SessionBecomes("processing") ELSE UNCHANGED session
  /\ UNCHANGED <<turn, source, port, t, answers, link>>

\* A message it does not take, a limit, a timeout, or a session that has ended.
ServerRefuses ==
  /\ link = "open" /\ ~SessionIs("processing")
  /\ Disconnects /\ Answers([type |-> "error"])
  /\ UNCHANGED <<turn, source, port, t>>

\* The socket's end reaches the server after any number of its messages.  An analysis
\* goes on without it.
ServerSeesClose ==
  /\ link = "open" /\ t.socket = "closed"
  /\ IF SessionIs("processing")
     THEN link' = "closed" /\ wire' = <<>> /\ UNCHANGED <<session, stream, spooled>>
     ELSE Disconnects
  /\ answers' = <<>>
  /\ UNCHANGED <<turn, source, port, t>>

AnalysisEnds(s) ==
  /\ session[s] = "processing"
  /\ \E status \in {"result", "error"} :
       /\ session' = [session EXCEPT ![s] = status]
       /\ IF link = "open" /\ s = turn
          THEN /\ link' = "closed"
               /\ Answers(IF status = "result"
                          THEN [type |-> "final", sequence |-> stream.lastSequence]
                          ELSE [type |-> "error"])
          ELSE UNCHANGED <<link, answers>>
  /\ UNCHANGED <<turn, source, port, t, wire, stream, spooled>>

\* The operator resets a session at any time.
OperatorResets(s) ==
  /\ session[s] \notin {"none", "reset"}
  /\ session' = [session EXCEPT ![s] = "reset"]
  /\ UNCHANGED <<turn, source, port, t, wire, answers, link, stream, spooled>>

-----------------------------------------------------------------------------
(* A new transport; the server has seen the last one's end.                 *)

NewTransport(s) ==
  /\ link # "open"
  /\ turn' = s /\ source' = FreshSource /\ port' = <<>>
  /\ t' = FreshTransport /\ wire' = <<>> /\ answers' = <<>>
  /\ link' = "none" /\ stream' = Server!Fresh /\ spooled' = <<>>
  /\ UNCHANGED session

Page   == FrameArrives \/ HashIsReady \/ AnswerArrives
Faults == SourceFails \/ SocketFails \/ TimerFires
Remote ==
  \/ SocketOpens \/ RenderFrame \/ WorkletStops
  \/ ServerStarts \/ ServerSpools \/ ServerStops
  \/ ServerRefuses \/ ServerSeesClose

-----------------------------------------------------------------------------
\* The reducer refuses nothing that this client sends: sequence, times, losses and
\* totals agree however frames, acknowledgements and the stop interleave.
ServerTakesWhatIsSent ==
  link = "open" /\ wire # <<>> => Accepts(Head(wire))

\* The server has the whole of the recording: every frame that its source rendered
\* until it stopped, and no loss.
IsWhole ==
  /\ stream.phase = "stopped" /\ stream.complete
  /\ stream.frameCount = source.clock
  /\ spooled = [i \in 1..stream.lastSequence |-> i]
=============================================================================
