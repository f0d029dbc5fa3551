--------------------------- MODULE MCWorkerProcess ---------------------------
(* Instances of WorkerProcess for TLC. *)
EXTENDS WorkerProcess

CONSTANTS b1, s1

\* Each may draw two tokens.
MCLimit == [r \in Requests |-> 2]
=============================================================================
