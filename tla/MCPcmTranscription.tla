------------------------- MODULE MCPcmTranscription --------------------------
(* One stream and messages of another, counts up to the largest safe number,  *)
(* with and without an incremental recogniser.                                *)
EXTENDS PcmTranscription
=============================================================================
