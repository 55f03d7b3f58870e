-------------------------- MODULE MCOrderedPcmActor --------------------------
(* Model-checking instances of OrderedPcmActor. *)
EXTENDS OrderedPcmActor, TLC

CONSTANTS c1, c2

\* The first connection takes its time and sends the longer stream, the second
\* sends its two messages at once.
TwoMessages == (c1 :> 3) @@ (c2 :> 2)
TwoPipelines == (c1 :> 1) @@ (c2 :> 2)
OneMessage == c1 :> 1
OnePipeline == c1 :> 1
=============================================================================
