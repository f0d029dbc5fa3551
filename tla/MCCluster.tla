------------------------------ MODULE MCCluster ------------------------------
(* Instances of Cluster for TLC. *)
EXTENDS Cluster

CONSTANTS r1, r2

First == INSTANCE ServiceQueue WITH
    waiting <- waiting[1], serving <- working[1], answer <- answer[1]
Second == INSTANCE ServiceQueue WITH
    waiting <- waiting[2], serving <- working[2], answer <- answer[2]

\* Each worker keeps ServiceQueue's promise to the calls the gateway makes.
BothServe == First!Spec /\ Second!Spec
=============================================================================
