--------------------------- MODULE SoloGeneration ---------------------------
(***************************************************************************)
(* What batching promises its users: a sequence generates, inside a batch  *)
(* of changing company, what it would generate alone.  There is no batch   *)
(* here.  Tokens of a sequence are numbered from the first of its prompt;  *)
(* the token that follows the first n is <<s, n + 1>>, whatever else runs. *)
(***************************************************************************)
EXTENDS Naturals, Sequences

CONSTANTS
    Ids,            \* sequences
    Budget,         \* per sequence, params.max_tokens
    MaxContext      \* tokens of prompt and output that fit the model

VARIABLES
    prompt,     \* length of the prompt; 0 before the sequence is prefilled
    out,        \* tokens generated
    finish      \* finish_reason

vars == <<prompt, out, finish>>

Init ==
    /\ prompt = [s \in Ids |-> 0]
    /\ out = [s \in Ids |-> << >>]
    /\ finish = [s \in Ids |-> "none"]

\* The unfinished sequences of S get their next token.  The step that gives a
\* sequence its last one finishes it: an EOS, the budget, or the context.
Extend(S) ==
    LET open == {s \in S : finish[s] = "none"}
    IN  /\ out' = [s \in Ids |->
            IF s \in open
            THEN Append(out[s], <<s, prompt'[s] + Len(out[s]) + 1>>)
            ELSE out[s]]
        /\ \E eos \in SUBSET open :
            finish' = [s \in Ids |->
                IF s \in eos THEN "stop"
                ELSE IF /\ s \in open
                        /\ \/ Len(out'[s]) >= Budget[s]
                           \/ prompt'[s] + Len(out'[s]) >= MaxContext
                     THEN "length" ELSE finish[s]]

\* Sequences start: each reads a prompt that leaves room for a token.
Start(S) ==
    /\ \A s \in S : prompt[s] = 0
    /\ prompt' \in [Ids -> 0 .. MaxContext - 1]
    /\ \A s \in Ids : IF s \in S THEN prompt'[s] > 0
                                 ELSE prompt'[s] = prompt[s]
    /\ Extend(S)

\* Those that have started go on.
Continue(S) ==
    /\ \A s \in S : prompt[s] > 0
    /\ UNCHANGED prompt
    /\ Extend(S)

\* Nobody wants the sequence any more, though it may just have finished.
Abandon(s) ==
    /\ finish' = [finish EXCEPT ![s] = "abandoned"]
    /\ UNCHANGED <<prompt, out>>

Next ==
    \/ \E S \in SUBSET Ids : Start(S) \/ Continue(S)
    \/ \E s \in Ids : Abandon(s)

Spec == Init /\ [][Next]_vars
=============================================================================
