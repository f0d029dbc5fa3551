------------------------------ MODULE MCBatcher ------------------------------
(* Instances of Batcher for TLC. *)
EXTENDS Batcher, TLC

CONSTANTS b1, b2, s1

\* Two blocking calls and a stream.  s1 may draw two tokens, b1 two, b2 one.
MCLimit == [r \in Requests |-> IF r = b2 THEN 1 ELSE 2]
=============================================================================
