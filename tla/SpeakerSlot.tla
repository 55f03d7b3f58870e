----------------------------- MODULE SpeakerSlot -----------------------------
(***************************************************************************)
(* What the output scheduler promises its callers: one speaker, and only   *)
(* the latest request may become the next thing it says.                   *)
(***************************************************************************)
CONSTANTS
  Outputs,  \* everything that may ever ask to be spoken
  Nothing   \* no output

VARIABLES
  speaker,  \* the output being spoken
  upNext    \* the one request still entitled to start

Init == speaker = Nothing /\ upNext = Nothing

\* A newer request takes the place of the one that was waiting.
Request(o) == upNext' = o /\ UNCHANGED speaker

\* The waiting request is withdrawn.
Withdraw == upNext # Nothing /\ upNext' = Nothing /\ UNCHANGED speaker

Start ==
  /\ speaker = Nothing
  /\ upNext # Nothing
  /\ speaker' = upNext
  /\ upNext'  = Nothing

Stop == speaker # Nothing /\ speaker' = Nothing /\ UNCHANGED upNext

Next == (\E o \in Outputs : Request(o)) \/ Withdraw \/ Start \/ Stop

Spec == Init /\ [][Next]_<<speaker, upNext>>
=============================================================================
