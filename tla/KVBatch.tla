------------------------------- MODULE KVBatch -------------------------------
(***************************************************************************)
(* The engine's batch, worker/server/model.py: prefill, decode_step,       *)
(* evict_finished and admit over a BatchState, with the tensor surgery of  *)
(* worker/server/kvcache.py they are built from.                           *)
(*                                                                         *)
(* A batch is four parallel lists of rows: the sequences, the KV cache,    *)
(* the attention mask and the tokens to consume next.  A row of the cache  *)
(* is a list of columns, a column the key and value of one token at one    *)
(* position; heads, layers and numbers are left out.  What the model makes *)
(* of a row depends on what the row attends to: on the columns its mask    *)
(* lets through and nothing else, and on no other row.  Attention does not *)
(* see the order of columns, only the positions in them.                   *)
(*                                                                         *)
(* The scheduler (module Batcher) calls admit() or decode_step(), then     *)
(* evict_finished(), and so on; generate_batch() does the same.  While     *)
(* the engine works, the event loop may abandon a sequence at any time.    *)
(***************************************************************************)
EXTENDS Integers, Sequences, FiniteSets

CONSTANTS
    Ids,            \* sequences
    Budget,         \* per sequence, params.max_tokens
    PromptLengths,  \* lengths of prompts as the tokenizer returns them
    MaxContext,     \* self.max_context
    MaxBatchSize    \* rows the scheduler lets into a batch

ASSUME EngineAssumption ==
    /\ IsFiniteSet(Ids)
    /\ Budget \in [Ids -> Nat \ {0}]
    /\ PromptLengths \subseteq Nat \ {0}
    /\ MaxContext \in Nat \ {0, 1}
    /\ MaxBatchSize \in Nat \ {0}

VARIABLES
    pc,         \* "ready" for a call, "emitted" after one, or "scanned":
                \*   evict_finished has read keep
    seqs,       \* state.seqs
    cache,      \* state.cache
    mask,       \* state.mask
    next,       \* state.next_tokens
    keep,       \* evict_finished: rows to keep
    prompt,     \* len(seq.prompt_ids), 0 before its prefill
    out,        \* seq.output_ids
    finish      \* seq.finish_reason

batchVars == <<seqs, cache, mask, next>>
seqVars   == <<prompt, out, finish>>

vars == <<pc, batchVars, keep, seqVars>>

\* Token n of sequence s, counted from the first of its prompt.
Token(s, n) == <<s, n>>

\* What the model samples for a row that attends to anything but a sequence.
Garbage == <<"garbage", 0>>

\* The token in a padding column, prefilled by the pad token or zeroed.
PadToken == <<"pad", 0>>

Tokens == (Ids \X Nat) \cup {Garbage, PadToken}

Column(t, p) == [token |-> t, pos |-> p]

Reasons == {"none", "stop", "length", "abandoned"}

Elements(s) == {s[i] : i \in 1 .. Len(s)}

Maximum(S) == CHOOSE n \in S : \A m \in S : m <= n

\* The number of columns of a list of rows, 0 if there is no row.
Width(rows) == IF rows = << >> THEN 0 ELSE Len(rows[1])

-----------------------------------------------------------------------------
(* The model: transformers, as model.py calls it *)

\* Columns of a row that the mask lets through.
Attended(m) == {j \in 1 .. Len(m) : m[j] = 1}

\* The first n tokens of sequence s, each at its own position.
Prefix(s, n) == {Column(Token(s, k), k - 1) : k \in 1 .. n}

\* A row attends to the first n tokens of s: to each once, and to no other.
\* The last column, the one logits are read from, is the latest of them.
Sees(row, m, s, n) ==
    /\ Cardinality(Attended(m)) = n
    /\ {row[j] : j \in Attended(m)} = Prefix(s, n)
    /\ row[Len(row)] = Column(Token(s, n), n - 1)

\* The token sampled from the row's last logits continues what it attends to.
Sample(row, m) ==
    LET n == Cardinality(Attended(m))
    IN  IF \E s \in Ids : Sees(row, m, s, n)
        THEN Token(CHOOSE s \in Ids : Sees(row, m, s, n), n + 1)
        ELSE Garbage

-----------------------------------------------------------------------------
(* kvcache.py and the helpers of model.py *)

\* Mutant: a prompt may fill the context.
EncodeFull(n) == IF n <= MaxContext THEN n ELSE MaxContext

\* encode keeps the last max_context - 1 tokens of a prompt of n.
Encode(n) == IF n < MaxContext THEN n ELSE MaxContext - 1

\* Mutant: padding columns get position -1.
PositionUnclamped(m, j) == Cardinality({i \in Attended(m) : i <= j}) - 1

\* Mutant: the position is the column's index.
PositionByColumn(m, j) == j - 1

\* positions_from_mask: how many attended columns precede column j.
Position(m, j) ==
    LET n == Cardinality({i \in Attended(m) : i <= j})
    IN  IF n = 0 THEN 0 ELSE n - 1

\* left_pad and _pad_mask_left: n more columns in front of each row.
LeftPad(rows, n, fill) ==
    IF n <= 0 THEN rows
    ELSE [i \in 1 .. Len(rows) |-> [j \in 1 .. n |-> fill] \o rows[i]]

\* concat_batch and the mask's torch.cat: pad the narrower list, then stack.
Stack(a, b, fill) ==
    LeftPad(a, Width(b) - Width(a), fill) \o LeftPad(b, Width(a) - Width(b), fill)

\* select_rows and index_select: the rows with the given indices.
Select(rows, idx) == [k \in 1 .. Len(idx) |-> rows[idx[k]]]

\* Mutant: one column too few is reclaimed.
LeadShort(m) ==
    Cardinality({j \in 1 .. Width(m) :
        \A i \in 1 .. Len(m) : \A k \in 1 .. j + 1 : m[i][k] = 0})

\* _compact: how many leading columns are padding in every row of the mask.
Lead(m) ==
    Cardinality({j \in 1 .. Width(m) :
        \A i \in 1 .. Len(m) : \A k \in 1 .. j : m[i][k] = 0})

\* _compact: drop the first n columns.
Drop(rows, n) ==
    [i \in 1 .. Len(rows) |-> SubSeq(rows[i], n + 1, Len(rows[i]))]

\* A list of the members of S in increasing order; there is exactly one.
Ascending(q, S) ==
    /\ Elements(q) = S
    /\ \A i, j \in 1 .. Len(q) : i < j => q[i] < q[j]

-----------------------------------------------------------------------------
(* The engine *)

\* _emit: the tokens sampled for the rows of ss become the next ones, and each
\* unfinished sequence appends its own and may stop.  pl is the prompt lengths.
Emit(ss, tokens, pl) ==
    LET rowOf(s) == CHOOSE i \in 1 .. Len(ss) : ss[i] = s
        open == {s \in Elements(ss) : finish[s] = "none"}
    IN  /\ out' = [s \in Ids |->
            IF s \in open THEN Append(out[s], tokens[rowOf(s)]) ELSE out[s]]
        /\ \E eos \in SUBSET open :
            finish' = [s \in Ids |->
                IF s \in eos THEN "stop"
                ELSE IF /\ s \in open
                        /\ \/ Len(out'[s]) >= Budget[s]
                           \/ pl[s] + Len(out'[s]) >= MaxContext
                     THEN "length" ELSE finish[s]]

Init ==
    /\ pc = "ready" /\ keep = << >>
    /\ seqs = << >> /\ cache = << >> /\ mask = << >> /\ next = << >>
    /\ prompt = [s \in Ids |-> 0]
    /\ out = [s \in Ids |-> << >>]
    /\ finish = [s \in Ids |-> "none"]

\* prefill of the sequences ss, whose prompts have the lengths pl: the mask and
\* the cache of the batch it returns.
PrefillMask(ss, pl) ==
    LET width == Maximum({pl[s] : s \in Elements(ss)})
    IN  [i \in 1 .. Len(ss) |->
            [j \in 1 .. width |-> IF j > width - pl[ss[i]] THEN 1 ELSE 0]]

PrefillCache(ss, pl) ==
    LET m == PrefillMask(ss, pl)
    IN  [i \in 1 .. Len(ss) |-> [j \in 1 .. Len(m[i]) |->
            Column(IF m[i][j] = 1 THEN Token(ss[i], j - (Len(m[i]) - pl[ss[i]]))
                                  ELSE PadToken,
                   Position(m[i], j))]]

\* admit: prefill the newcomers and splice them into the batch.
Admit(newcomers) ==
    /\ pc = "ready"
    /\ newcomers # << >> /\ Len(seqs) + Len(newcomers) <= MaxBatchSize
    /\ \A i, j \in 1 .. Len(newcomers) :
            /\ prompt[newcomers[i]] = 0
            /\ newcomers[i] = newcomers[j] => i = j
    /\ \E raw \in [Elements(newcomers) -> PromptLengths] :
        prompt' = [s \in Ids |->
            IF s \in DOMAIN raw THEN Encode(raw[s]) ELSE prompt[s]]
    /\ LET m == PrefillMask(newcomers, prompt')
           c == PrefillCache(newcomers, prompt')
           tokens == [i \in 1 .. Len(newcomers) |-> Sample(c[i], m[i])]
       IN  /\ Emit(newcomers, tokens, prompt')
           /\ seqs' = seqs \o newcomers
           /\ cache' = Stack(cache, c, Column(PadToken, 0))
           /\ mask' = Stack(mask, m, 0)
           /\ next' = next \o tokens
    /\ pc' = "emitted"
    /\ UNCHANGED keep

\* decode_step: each row consumes its token, the finished ones too.
Decode ==
    /\ pc = "ready" /\ seqs # << >>
    /\ mask' = [i \in 1 .. Len(seqs) |-> Append(mask[i], 1)]
    /\ cache' = [i \in 1 .. Len(seqs) |->
            Append(cache[i], Column(next[i], Position(mask'[i], Len(mask'[i]))))]
    /\ next' = [i \in 1 .. Len(seqs) |-> Sample(cache'[i], mask'[i])]
    /\ Emit(seqs, next', prompt)
    /\ pc' = "emitted"
    /\ UNCHANGED <<seqs, keep, prompt>>

\* evict_finished, first pass: the rows read as unfinished.
ScanKeep ==
    /\ pc = "emitted"
    /\ LET open == {i \in 1 .. Len(seqs) : finish[seqs[i]] = "none"}
       IN  \E q \in [1 .. Cardinality(open) -> open] :
                Ascending(q, open) /\ keep' = q
    /\ pc' = "scanned"
    /\ UNCHANGED <<batchVars, seqVars>>

\* Mutant: the tokens to consume next are cut short and not selected.
EvictNextUnselected ==
    /\ pc = "scanned"
    /\ IF \A i \in 1 .. Len(seqs) : finish[seqs[i]] = "none"
       THEN UNCHANGED batchVars
       ELSE LET m == Select(mask, keep)
            IN  /\ seqs' = Select(seqs, keep)
                /\ cache' = Drop(Select(cache, keep), Lead(m))
                /\ mask' = Drop(m, Lead(m))
                /\ next' = SubSeq(next, 1, Len(keep))
    /\ keep' = << >>
    /\ pc' = "ready"
    /\ UNCHANGED seqVars

\* evict_finished, second pass and the rest.  The second reading of the
\* finish reasons decides whether there is anything to hand back; what stays
\* was decided by the first.
Evict ==
    /\ pc = "scanned"
    /\ IF \A i \in 1 .. Len(seqs) : finish[seqs[i]] = "none"
       THEN UNCHANGED batchVars
       ELSE LET m == Select(mask, keep)
                lead == Lead(m)
            IN  /\ seqs' = Select(seqs, keep)
                /\ cache' = Drop(Select(cache, keep), lead)
                /\ mask' = Drop(m, lead)
                /\ next' = Select(next, keep)
    /\ keep' = << >>
    /\ pc' = "ready"
    /\ UNCHANGED seqVars

\* _abandon (batcher.py), between any two steps of the engine.  It reads whether
\* the row is finished and then sets the reason; a call that finishes the row
\* in between, and hands it back only in the next, loses its own reason.
Abandon(s) ==
    /\ finish[s] = "none" \/ (pc = "emitted" /\ s \in Elements(seqs))
    /\ finish' = [finish EXCEPT ![s] = "abandoned"]
    /\ UNCHANGED <<pc, batchVars, keep, prompt, out>>

\* A call raised: the scheduler forgets the batch, whatever was left of it.
Fault ==
    /\ seqs # << >>
    /\ pc' = "ready" /\ keep' = << >>
    /\ seqs' = << >> /\ cache' = << >> /\ mask' = << >> /\ next' = << >>
    /\ UNCHANGED seqVars

Next ==
    \/ \E n \in 1 .. MaxBatchSize : \E q \in [1 .. n -> Ids] : Admit(q)
    \/ Decode
    \/ ScanKeep
    \/ Evict
    \/ \E s \in Ids : Abandon(s)
    \/ Fault

Spec == Init /\ [][Next]_vars

-----------------------------------------------------------------------------
(* generate_without_cache *)

\* What the model draws after the given tokens of one sequence when it is run
\* over the last max_context of them, from position 0, without a cache.
Uncached(tokens) ==
    LET width == IF Len(tokens) < MaxContext THEN Len(tokens) ELSE MaxContext
    IN  Sample([j \in 1 .. width |->
                    Column(tokens[Len(tokens) - width + j], j - 1)],
               [j \in 1 .. width |-> 1])

-----------------------------------------------------------------------------
(* Properties *)

\* Every variable has its type.
TypeOK ==
    /\ pc \in {"ready", "emitted", "scanned"}
    /\ seqs \in Seq(Ids)
    /\ cache \in Seq(Seq([token : Tokens, pos : Nat]))
    /\ mask \in Seq(Seq({0, 1}))
    /\ next \in Seq(Tokens)
    /\ keep \in Seq(1 .. Len(seqs))
    /\ prompt \in [Ids -> Nat]
    /\ out \in [Ids -> Seq(Tokens)]
    /\ finish \in [Ids -> Reasons]

\* model.py:65-66: row i belongs to seqs[i].  It attends to every token of that
\* sequence but the last, each at its own position, whatever was evicted from
\* or spliced into the batch, and the last is the one it consumes next.
RowFaithful ==
    \A i \in 1 .. Len(seqs) :
        LET s == seqs[i]
            n == Cardinality(Attended(mask[i]))
        IN  /\ Sees(cache[i], mask[i], s, n)
            /\ next[i] = Token(s, n + 1)
            /\ finish[s] = "none" => n + 1 = prompt[s] + Len(out[s])

\* No column is padding in every row: eviction reclaims what only the evicted
\* rows needed, and the cache stays as wide as its longest sequence.
NoCommonPadding ==
    seqs # << >> => \E i \in 1 .. Len(seqs) : mask[i][1] = 1

\* No token is fed to the model at a position outside its context, though a
\* row that was abandoned between the two readings is decoded once more.
WithinContext ==
    /\ \A i \in 1 .. Len(cache) : \A j \in 1 .. Len(cache[i]) :
            cache[i][j].pos < MaxContext
    /\ \A s \in Ids : prompt[s] + Len(out[s]) <= MaxContext

\* test_engine.py:35, the cached path against the uncached baseline: running
\* the model again over all the tokens before it gives the same token, however
\* the sequence was padded, spliced and compacted while it was in the batch.
CachedAsUncached ==
    \A s \in Ids : \A k \in 1 .. Len(out[s]) :
        out[s][k] = Uncached([j \in 1 .. prompt[s] + k - 1 |->
            IF j <= prompt[s] THEN Token(s, j) ELSE out[s][j - prompt[s]]])

\* What a sequence generates in a batch is what it would generate alone.
Solo == INSTANCE SoloGeneration

SoloSpec == Solo!Spec
=============================================================================
