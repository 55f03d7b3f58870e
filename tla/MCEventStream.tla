---------------------------- MODULE MCEventStream ----------------------------
(* Two attempts of one identity, followed by one browser.                     *)
EXTENDS EventStream

Followed ==
  {"session_created", "recording_started", "recording_stopped", "audio_uploaded",
   "audio_transcribed", "session_error", "session_reset"}
=============================================================================
