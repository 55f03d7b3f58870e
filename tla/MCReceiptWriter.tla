-------------------------- MODULE MCReceiptWriter ---------------------------
(* Model-checking instances of ReceiptWriter. *)
EXTENDS ReceiptWriter
=============================================================================
