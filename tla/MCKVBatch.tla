------------------------------ MODULE MCKVBatch ------------------------------
(* Instances of KVBatch for TLC. *)
EXTENDS KVBatch

CONSTANTS s1, s2, s3

Short == 2

Budgets == [s \in Ids |-> IF s = s1 THEN Short ELSE MaxContext]
=============================================================================
