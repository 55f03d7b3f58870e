----------------------------- MODULE MCRecorder ------------------------------
(***************************************************************************)
(* Two presses: a recording of up to three frames, in chunks of two, and a *)
(* second press whose source stays silent.                                 *)
(***************************************************************************)
EXTENDS Recorder

TwoTurns == 1..2
ThreeFramesThenNone == <<3, 0>>
=============================================================================
