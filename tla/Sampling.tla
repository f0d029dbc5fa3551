------------------------------ MODULE Sampling ------------------------------
(***************************************************************************)
(* From the sampling fields of a request to the token its row draws:       *)
(* validation and defaults in the HTTP front end, the gateway and the gRPC *)
(* service, what the gateway's and the message's types can carry,          *)
(* SamplingParams.clamp, and sample_batch, which draws for all rows of a   *)
(* step, one vectorised call for each distinct set of parameters           *)
(* (worker/server/sampling.py).                                            *)
(*                                                                         *)
(* temperature and top_p are in twelfths, Python's floats; a float32 holds *)
(* only quarters.  A logit is a small number, and the base of softmax is   *)
(* 2, so that probabilities are ratios of integers.                        *)
(***************************************************************************)
EXTENDS Integers, Sequences, FiniteSets

CONSTANTS
    NumRows,        \* rows of the batch
    NumTokens,      \* size of the vocabulary
    Bodies,         \* requests: the fields a client set, with their values
    LogitVectors,   \* what the model may return for a row
    MaxNewTokens,   \* settings.max_new_tokens
    MaxInt32,       \* greatest number of an int32
    NoParams

Rows  == 1 .. NumRows
Vocab == 1 .. NumTokens

Fields == {"max_tokens", "temperature", "top_k", "top_p"}

ASSUME SamplingAssumption ==
    /\ NumRows \in Nat \ {0} /\ NumTokens \in Nat \ {0}
    /\ MaxNewTokens \in Nat \ {0}
    /\ MaxInt32 \in Nat /\ MaxInt32 >= 50
    /\ \A b \in Bodies : DOMAIN b \subseteq Fields /\ \A f \in DOMAIN b : b[f] \in Int
    /\ LogitVectors \subseteq [Vocab -> Nat]

Doors == {"http", "gateway", "grpc"}

\* 1.0, the greatest top_p; the greatest temperature is twice as much.
One == 12

\* What SamplingParams.clamp leaves a request.
Params == [max_tokens : 1 .. MaxNewTokens, temperature : 0 .. 2 * One,
           top_k : Nat, top_p : 1 .. One]

\* The part of them that rows of one call share.
Keys == [temperature : 0 .. 2 * One, top_k : Nat, top_p : 1 .. One]

ASSUME NoParamsAssumption == NoParams \notin Params

VARIABLES
    body,       \* the body each row's request came with
    params,     \* seq.params, clamped
    logits,     \* of each row
    groups,     \* sample_batch: the groups not sampled yet, in order, each
                \* with its key and the rows that have it
    kept,       \* per row, the tokens the draw could choose from
    out         \* per row, the token drawn; 0 before

vars == <<body, params, logits, groups, kept, out>>

-----------------------------------------------------------------------------
(* Requests *)

Get(b, field, default) == IF field \in DOMAIN b THEN b[field] ELSE default

\* "x or default" of Python: zero counts as absent.
Or(x, default) == IF x = 0 THEN default ELSE x

Low(x, y)  == IF x <= y THEN x ELSE y
High(x, y) == IF x >= y THEN x ELSE y

\* The nearest number that a float32 holds; the least ones become zero.
Float32(x) == 3 * ((x + 1) \div 3)

Int32 == -(MaxInt32 + 1) .. MaxInt32

\* CompletionRequest of api.py: what pydantic lets through.
Valid(b) ==
    /\ Get(b, "max_tokens", 50) >= 1
    /\ Get(b, "temperature", 0) \in 0 .. 2 * One
    /\ Get(b, "top_k", 0) >= 0
    /\ Get(b, "top_p", One) \in 1 .. One

\* completionRequest of the gateway, which answers 400 to a body that it cannot
\* decode, and GenerateRequest: the whole numbers are of type int32.
Fits(b) == Get(b, "max_tokens", 0) \in Int32 /\ Get(b, "top_k", 0) \in Int32

Accepts(b, door) == IF door = "http" THEN Valid(b) ELSE Fits(b)

\* What the fields hold after either type: the fractions are of type float32.
Carried(b) ==
    [f \in DOMAIN b |-> IF f \in {"temperature", "top_p"} THEN Float32(b[f])
                                                          ELSE b[f]]

FromHttp(b) ==
    [max_tokens |-> Get(b, "max_tokens", 50),
     temperature |-> Get(b, "temperature", 0),
     top_k |-> Get(b, "top_k", 0),
     top_p |-> Get(b, "top_p", One)]

\* Mutant: an unset max_tokens is passed on as protobuf's zero.
FromMessageUnset(m) ==
    [max_tokens |-> Get(m, "max_tokens", 0),
     temperature |-> Get(m, "temperature", 0),
     top_k |-> Get(m, "top_k", 0),
     top_p |-> Or(Get(m, "top_p", 0), One)]

\* _params of worker.py: in proto3 a field that is not set is zero.
FromMessage(m) ==
    [max_tokens |-> Or(Get(m, "max_tokens", 0), 50),
     temperature |-> Get(m, "temperature", 0),
     top_k |-> Get(m, "top_k", 0),
     top_p |-> Or(Get(m, "top_p", 0), One)]

FromGrpc(b) == FromMessage(Carried(b))

\* handleCompletions of the gateway: decode, default, pass on by gRPC.
FromGateway(b) ==
    LET req   == Carried(b)
        asked == Get(req, "max_tokens", 0)
    IN  FromMessage([max_tokens |-> IF asked <= 0 THEN 50 ELSE asked,
                     temperature |-> Get(req, "temperature", 0),
                     top_k |-> Get(req, "top_k", 0),
                     top_p |-> Get(req, "top_p", 0)])

\* Mutant: top_p has no lower bound.
ClampLoose(p) ==
    [max_tokens |-> High(1, Low(p.max_tokens, MaxNewTokens)),
     temperature |-> High(0, Low(p.temperature, 2 * One)),
     top_k |-> High(0, p.top_k),
     top_p |-> Or(Low(p.top_p, One), One)]

Clamp(p) ==
    [max_tokens |-> High(1, Low(p.max_tokens, MaxNewTokens)),
     temperature |-> High(0, Low(p.temperature, 2 * One)),
     top_k |-> High(0, p.top_k),
     top_p |-> Or(Low(High(p.top_p, 0), One), One)]

Admitted(b, door) ==
    Clamp(CASE door = "http" -> FromHttp(b)
            [] door = "gateway" -> FromGateway(b)
            [] door = "grpc" -> FromGrpc(b))

-----------------------------------------------------------------------------
(* sample *)

TwoTo[n \in Nat] == IF n = 0 THEN 1 ELSE 2 * TwoTo[n - 1]

\* exp(logit / temperature), up to the base.
Heated(l, temperature) == [t \in Vocab |-> TwoTo[(2 * One * l[t]) \div temperature]]

\* The weight of the tokens in S, added up token by token.
Mass(w, S) ==
    LET upto[n \in Nat] ==
            IF n = 0 THEN 0 ELSE upto[n - 1] + (IF n \in S THEN w[n] ELSE 0)
    IN  upto[NumTokens]

\* Tokens below the k-th greatest value lose their weight; its equals stay.
TopK(w, k) ==
    IF k = 0 THEN w
    ELSE LET kth == CHOOSE x \in {w[t] : t \in Vocab} :
                LET above == Cardinality({t \in Vocab : w[t] > x})
                    least == Cardinality({t \in Vocab : w[t] >= x})
                IN  above < Low(k, NumTokens) /\ Low(k, NumTokens) <= least
         IN  [t \in Vocab |-> IF w[t] < kth THEN 0 ELSE w[t]]

\* The ways sort(descending=True) may order the tokens, equals being free.
Orders(w) ==
    {o \in [Vocab -> Vocab] :
        /\ \A i, j \in Vocab : i < j => o[i] # o[j] /\ w[o[i]] >= w[o[j]]}

\* Mutant: the mask is shifted by a token, though it was made from the mass
\* before each, so that one token too many is kept.
TopPLong(w, p, o) ==
    IF p = One THEN {t \in Vocab : w[t] > 0}
    ELSE {o[i] : i \in {n \in Vocab :
            One * Mass(w, {o[m] : m \in 1 .. n - 2}) <= p * Mass(w, Vocab)}}

\* A token stays unless the mass before it in the order exceeds top_p.
TopP(w, p, o) ==
    IF p = One THEN {t \in Vocab : w[t] > 0}
    ELSE {o[i] : i \in {n \in Vocab :
            One * Mass(w, {o[m] : m \in 1 .. n - 1}) <= p * Mass(w, Vocab)}}

\* The sets of tokens one call of sample may draw a row's token from.
Supports(l, p) ==
    IF p.temperature = 0
    THEN {{t} : t \in {u \in Vocab : \A v \in Vocab : l[v] <= l[u]}}
    ELSE LET w == TopK(Heated(l, p.temperature), p.top_k)
         IN  {TopP(w, p.top_p, o) : o \in Orders(w)}

-----------------------------------------------------------------------------
(* sample_batch *)

\* The key of a row's group, which is also what the group is sampled with.
Key(p) == [temperature |-> p.temperature, top_k |-> p.top_k,
           top_p |-> p.top_p]

\* groups.setdefault(key, []).append(r): a new key makes a group.
Grouped(old, key, r) ==
    IF \E i \in 1 .. Len(old) : old[i].key = key
    THEN [i \in 1 .. Len(old) |->
            IF old[i].key = key THEN [key |-> key, rows |-> Append(old[i].rows, r)]
                                ELSE old[i]]
    ELSE Append(old, [key |-> key, rows |-> <<r>>])

\* Mutant: the i-th value of a call goes to row i of the batch.
ScatteredFirst(values, old, rows) ==
    [r \in Rows |-> IF r \in 1 .. Len(rows) THEN values[r] ELSE old[r]]

\* out[idx] = ...: the i-th value of a call goes to the i-th of its rows.
Scattered(values, old, rows) ==
    [r \in Rows |-> IF \E i \in 1 .. Len(rows) : rows[i] = r
                    THEN values[CHOOSE i \in 1 .. Len(rows) : rows[i] = r]
                    ELSE old[r]]

Init ==
    /\ body = [r \in Rows |-> << >>]
    /\ params = [r \in Rows |-> NoParams]
    /\ logits \in [Rows -> LogitVectors]
    /\ groups = << >>
    /\ kept = [r \in Rows |-> {}]
    /\ out = [r \in Rows |-> 0]

Ready == \A r \in Rows : params[r] # NoParams

\* make_sequence: the next row's request arrives through one of the doors.
MakeSequence(r) ==
    /\ params[r] = NoParams /\ \A q \in 1 .. r - 1 : params[q] # NoParams
    /\ \E b \in Bodies, door \in Doors :
          /\ Accepts(b, door)
          /\ body' = [body EXCEPT ![r] = b]
          /\ params' = [params EXCEPT ![r] = Admitted(b, door)]
    /\ groups' = Grouped(groups, Key(params'[r]), r)
    /\ UNCHANGED <<logits, kept, out>>

\* One vectorised call of sample: the rows of the first group left.
SampleGroup ==
    /\ Ready /\ groups # << >>
    /\ LET rows == Head(groups).rows
           key  == Head(groups).key
       IN  \E choice \in [1 .. Len(rows) -> SUBSET Vocab] :
              /\ \A i \in 1 .. Len(rows) : choice[i] \in Supports(logits[rows[i]], key)
              /\ kept' = Scattered(choice, kept, rows)
              /\ \E draw \in [1 .. Len(rows) -> Vocab] :
                    /\ \A i \in 1 .. Len(rows) : draw[i] \in choice[i]
                    /\ out' = Scattered(draw, out, rows)
    /\ groups' = Tail(groups)
    /\ UNCHANGED <<body, params, logits>>

Next == SampleGroup \/ \E r \in Rows : MakeSequence(r)

Spec == Init /\ [][Next]_vars

-----------------------------------------------------------------------------
(* Properties *)

\* Every variable has its type: whatever a client asks for, through whichever
\* door, the engine is handed parameters in range.
TypeOK ==
    /\ body \in [Rows -> Bodies \cup {<< >>}]
    /\ params \in [Rows -> Params \cup {NoParams}]
    /\ logits \in [Rows -> LogitVectors]
    /\ groups \in Seq([key : Keys, rows : Seq(Rows)])
    /\ kept \in [Rows -> SUBSET Vocab]
    /\ out \in [Rows -> Vocab \cup {0}]

\* The settings of one request as two doors hand them to the engine, up to the
\* precision of a float32.  A top_p too small for one is the exception: behind
\* the gateway and gRPC it is zero, which means no top_p at all.
Alike(p, q, asked) ==
    /\ p.max_tokens = q.max_tokens /\ p.top_k = q.top_k
    /\ Float32(p.temperature) = Float32(q.temperature)
    /\ \/ Float32(p.top_p) = Float32(q.top_p)
       \/ Float32(asked) = 0 /\ {p.top_p, q.top_p} = {asked, One}

\* A request that the HTTP front end would accept means the same through every
\* door that accepts it, defaults for what it left out included.  (The int32
\* fields of main.go:70-72 refuse numbers that the front end takes.)
SameThroughEveryDoor ==
    \A r \in Rows : params[r] # NoParams /\ Valid(body[r]) =>
        \A door \in Doors : Accepts(body[r], door) =>
            Alike(params[r], Admitted(body[r], door), Get(body[r], "top_p", One))

\* test_engine.py:222: a row is sampled with its own settings, though it may
\* share a call with others.  Its token was one it could draw, the most likely
\* if it is greedy, and fewer than its top_k tokens are likelier; and when the
\* last group is sampled, no row is without a token.
OwnSettings ==
    \A r \in Rows :
        LET likelier == {t \in Vocab : logits[r][t] > logits[r][out[r]]}
        IN  /\ Ready /\ groups = << >> => out[r] # 0
            /\ out[r] # 0 =>
                  /\ out[r] \in kept[r]
                  /\ params[r].temperature = 0 => likelier = {}
                  /\ params[r].top_k > 0 =>
                        Cardinality(likelier) < params[r].top_k

\* sampling.py:47, "everything up to and including the token that crosses
\* top_p": of what top_k left, the tokens kept have that mass, the likeliest
\* token is one of them, and without the least likely they would not pass it,
\* so that the nucleus is neither too small nor too large.
NucleusExact ==
    \A r \in Rows : out[r] # 0 /\ params[r].temperature > 0 =>
        LET w    == Heated(logits[r], params[r].temperature)
            pool == {t \in Vocab : params[r].top_k = 0 \/
                        Cardinality({u \in Vocab : w[u] > w[t]}) < params[r].top_k}
            goal == params[r].top_p * Mass(w, pool)
        IN  /\ kept[r] # {} /\ kept[r] \subseteq pool
            /\ \A t \in pool \ kept[r], u \in kept[r] : w[t] <= w[u]
            /\ One * Mass(w, kept[r]) >= goal
            /\ params[r].top_p < One =>
                  \E t \in kept[r] :
                     /\ \A u \in kept[r] : w[t] <= w[u]
                     /\ One * Mass(w, kept[r] \ {t}) <= goal
=============================================================================
