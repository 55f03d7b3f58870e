--------------------------- MODULE MCAudioAdmission ---------------------------
(* Two uploads and a stream compete for room that holds fewer.              *)
EXTENDS AudioAdmission
=============================================================================
