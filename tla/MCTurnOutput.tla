---------------------------- MODULE MCTurnOutput ----------------------------
(* Model-checking instance of LocalSpeech: two sessions and the programs they speak through. *)
EXTENDS LocalSpeech
=============================================================================
