-------------------------- MODULE ReceiptDirectory ---------------------------
(***************************************************************************)
(* What the rest of the server may expect of the receipt files: each       *)
(* session has one whole snapshot or none; a snapshot is only ever         *)
(* replaced by a later one, and only retention takes it away.              *)
(***************************************************************************)
EXTENDS Naturals

CONSTANT Sessions

\* The sequence number of the snapshot in each session's file, 0 without one.
VARIABLE kept

Init == kept = [s \in Sessions |-> 0]

Put(s) ==
  /\ kept'[s] > kept[s]
  /\ kept' = [kept EXCEPT ![s] = kept'[s]]

Drop(s) ==
  /\ kept[s] # 0
  /\ kept' = [kept EXCEPT ![s] = 0]

Next == \E s \in Sessions : Put(s) \/ Drop(s)

Spec == Init /\ [][Next]_kept
=============================================================================
