---------------------------- MODULE SessionEvents ----------------------------
(***************************************************************************)
(* The transition contract of one session attempt.  The web reducer, the   *)
(* server's session store and its HTTP and WebSocket handlers all decide   *)
(* with these operators which event may follow which status.               *)
(***************************************************************************)
EXTENDS Naturals, Sequences

Statuses ==
  {"created", "recording", "processing", "reading",
   "result", "silence", "reset", "error"}

\* The statuses after which the store may retire a session early, and in which
\* a deadline has nothing left to seal.
TerminalStatuses == {"result", "silence", "reset", "error"}

\* In which status each ordinary event is accepted (SESSION_EVENT_PHASES).
AcceptedIn ==
  [ session_created           |-> {"created"},
    recording_started         |-> {"created"},
    recording_stopped         |-> {"recording"},
    audio_uploaded            |-> {"created", "recording", "processing"},
    audio_normalized          |-> {"processing"},
    audio_transcribed         |-> {"created", "processing"},
    audio_features            |-> {"processing"},
    reading_started           |-> {"processing"},
    channel_resolved          |-> {"reading"},
    session_result            |-> {"reading"},
    tts_started               |-> {"result"},
    tts_finished              |-> {"result"},
    session_silence           |-> {"result"} ]

OrdinaryEvents == DOMAIN AcceptedIn

EventTypes == OrdinaryEvents \union {"session_reset", "session_error"}

-----------------------------------------------------------------------------
\* A plausible slip: an errored attempt is treated like any other open one.
CanApply_ErrorStaysOpen(status, type) ==
  \/ /\ status # "reset"
     /\ type \in {"session_reset", "session_error"}
  \/ /\ type \in OrdinaryEvents
     /\ status \in AcceptedIn[type]

\* Reset absorbs everything, error admits only a reset, and every other status
\* can be reset or failed at any time.
CanApply(status, type) ==
  \/ type = "session_reset" /\ status # "reset"
  \/ type = "session_error" /\ status \notin {"reset", "error"}
  \/ /\ type \in OrdinaryEvents
     /\ status \in AcceptedIn[type]

\* What a browser, a device or the operator may submit from outside.
CanAcceptExternal(status, type) ==
  /\ type \in {"recording_started", "recording_stopped", "session_silence",
               "session_reset", "session_error"}
  /\ CanApply(status, type)

\* A plausible slip: starting the reading is left out of the mapping.
StatusAfter_NoReading(type, status) ==
  CASE type = "recording_started"                        -> "recording"
    [] type \in {"recording_stopped", "audio_uploaded",
                 "audio_transcribed", "audio_features"}  -> "processing"
    [] type = "session_result"                           -> "result"
    [] type = "session_silence"                          -> "silence"
    [] type = "session_reset"                            -> "reset"
    [] type = "session_error"                            -> "error"
    [] OTHER                                             -> status

\* statusForEvent: the status an event leaves the session in.
StatusAfter(type, status) ==
  CASE type = "recording_started"                        -> "recording"
    [] type \in {"recording_stopped", "audio_uploaded",
                 "audio_transcribed", "audio_features"}  -> "processing"
    [] type \in {"reading_started", "channel_resolved"}  -> "reading"
    [] type = "session_result"                           -> "result"
    [] type = "session_silence"                          -> "silence"
    [] type = "session_reset"                            -> "reset"
    [] type = "session_error"                            -> "error"
    [] OTHER                                             -> status

\* Some event of the attempt's log has this type.
Logged(log, type) == \E i \in DOMAIN log : log[i].type = type

\* The store's last check before it appends an event: one creation, one final
\* result, one spoken output that starts before it finishes.
EventMayFollow(status, log, type) ==
  /\ type \in {"session_result", "session_created", "tts_started"}
        => ~Logged(log, type)
  /\ type \in {"tts_started", "tts_finished"} => ~Logged(log, "tts_finished")
  /\ type = "tts_finished" => Logged(log, "tts_started")
  /\ CanApply(status, type)
=============================================================================
