---------------------------- MODULE MCAudioPipeline ----------------------------
(* Two jobs and a readiness probe share one worker. *)
EXTENDS AudioPipeline
=============================================================================
