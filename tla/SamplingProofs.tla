--------------------------- MODULE SamplingProofs ---------------------------
(***************************************************************************)
(* What holds of Sampling for every set of requests, every vocabulary and  *)
(* every number of rows.                                                   *)
(***************************************************************************)
EXTENDS Sampling, FiniteSetTheorems, SequenceTheorems, TLAPS

LEMMA Asked ==
    ASSUME NEW b \in Bodies, NEW f \in Fields, NEW d \in Int
    PROVE  Get(b, f, d) \in Int
BY SamplingAssumption DEF Get

\* Whatever a request asks for, clamp brings it into range.
LEMMA ClampInRange ==
    ASSUME NEW p, p.max_tokens \in Int, p.temperature \in Int,
           p.top_k \in Int, p.top_p \in Int
    PROVE  Clamp(p) \in Params
<1>1. High(1, Low(p.max_tokens, MaxNewTokens)) \in 1 .. MaxNewTokens
  BY SamplingAssumption DEF High, Low
<1>2. High(0, Low(p.temperature, 2 * One)) \in 0 .. 2 * One
  BY DEF High, Low, One
<1>3. High(0, p.top_k) \in Nat
  BY DEF High
<1>4. Or(Low(High(p.top_p, 0), One), One) \in 1 .. One
  BY DEF High, Low, Or, One
<1> QED
  BY <1>1, <1>2, <1>3, <1>4 DEF Clamp, Params

\* What a float32 holds it holds exactly, and a number in range stays there.
LEMMA Narrowed ==
    /\ \A x \in Int : Float32(x) \in Int /\ Float32(Float32(x)) = Float32(x)
    /\ \A x \in 0 .. 2 * One : Float32(x) \in 0 .. 2 * One
    /\ \A x \in 1 .. One : Float32(x) \in 0 .. One /\ (Float32(x) = 0 => x = 1)
    /\ Float32(0) = 0 /\ Float32(One) = One
<1>1. \A x \in Int : Float32(x) \in Int /\ Float32(Float32(x)) = Float32(x)
  BY DEF Float32
<1>2. \A x \in 0 .. 24 : Float32(x) \in 0 .. 24
  BY DEF Float32
<1>3. \A x \in 1 .. 12 : Float32(x) \in 0 .. 12 /\ (Float32(x) = 0 => x = 1)
  BY DEF Float32
<1> QED
  BY <1>1, <1>2, <1>3 DEF Float32, One

LEMMA AskedCarried ==
    ASSUME NEW b \in Bodies
    PROVE  /\ \A d \in Int : Get(Carried(b), "max_tokens", d) = Get(b, "max_tokens", d)
           /\ \A d \in Int : Get(Carried(b), "top_k", d) = Get(b, "top_k", d)
           /\ \A d \in Int : Get(Carried(b), "temperature", d) =
                    IF "temperature" \in DOMAIN b THEN Float32(b["temperature"]) ELSE d
           /\ \A d \in Int : Get(Carried(b), "top_p", d) =
                    IF "top_p" \in DOMAIN b THEN Float32(b["top_p"]) ELSE d
           /\ \A f \in Fields : \A d \in Int : Get(Carried(b), f, d) \in Int
<1>1. /\ DOMAIN Carried(b) = DOMAIN b
      /\ \A f \in DOMAIN b : Carried(b)[f] = IF f \in {"temperature", "top_p"}
                                             THEN Float32(b[f]) ELSE b[f]
  BY DEF Carried
<1>2. \A f \in DOMAIN b : Float32(b[f]) \in Int /\ b[f] \in Int
  BY Narrowed, SamplingAssumption
<1> QED
  BY <1>1, <1>2 DEF Get

LEMMA AdmittedInRange ==
    ASSUME NEW b \in Bodies, NEW door \in Doors
    PROVE  Admitted(b, door) \in Params
<1>0. /\ \A d \in Int : Get(b, "max_tokens", d) \in Int
      /\ \A d \in Int : Get(b, "temperature", d) \in Int
      /\ \A d \in Int : Get(b, "top_k", d) \in Int
      /\ \A d \in Int : Get(b, "top_p", d) \in Int
  BY Asked DEF Fields
<1>1. Clamp(FromHttp(b)) \in Params
  BY <1>0, ClampInRange DEF FromHttp, One
<1>2. ASSUME NEW m, \A f \in Fields : \A d \in Int : Get(m, f, d) \in Int
      PROVE  Clamp(FromMessage(m)) \in Params
  <2>1. /\ Get(m, "max_tokens", 0) \in Int /\ Get(m, "temperature", 0) \in Int
        /\ Get(m, "top_k", 0) \in Int /\ Get(m, "top_p", 0) \in Int
    BY <1>2 DEF Fields
  <2> QED
    BY <2>1, ClampInRange DEF FromMessage, Or, One
<1>3. Clamp(FromGrpc(b)) \in Params
  BY <1>2, AskedCarried DEF FromGrpc
<1>4. Clamp(FromGateway(b)) \in Params
  <2>1. PICK m : m = [max_tokens |-> IF Get(Carried(b), "max_tokens", 0) <= 0 THEN 50
                                     ELSE Get(Carried(b), "max_tokens", 0),
                      temperature |-> Get(Carried(b), "temperature", 0),
                      top_k |-> Get(Carried(b), "top_k", 0),
                      top_p |-> Get(Carried(b), "top_p", 0)]
    OBVIOUS
  <2>2. \A f \in Fields : m[f] \in Int
    BY <2>1, AskedCarried DEF Fields
  <2>3. \A f \in Fields : \A d \in Int : Get(m, f, d) \in Int
    BY <2>1, <2>2 DEF Get, Fields
  <2>4. FromGateway(b) = FromMessage(m)
    BY <2>1 DEF FromGateway
  <2> QED
    BY <1>2, <2>3, <2>4
<1> QED
  BY <1>1, <1>3, <1>4 DEF Admitted, Doors

\* A request that the HTTP front end would accept, as each door hands it on.
LEMMA Meaning ==
    ASSUME NEW b \in Bodies, Valid(b), NEW d \in Doors
    PROVE  LET m == Get(b, "max_tokens", 50)
               h == Get(b, "temperature", 0)
               p == Get(b, "top_p", One)
           IN  /\ m \in Nat /\ h \in 0 .. 2 * One /\ p \in 1 .. One
               /\ Admitted(b, d).max_tokens = Low(m, MaxNewTokens)
               /\ Admitted(b, d).top_k = Get(b, "top_k", 0)
               /\ Admitted(b, d).temperature \in {h, Float32(h)}
               /\ d = "http" => Admitted(b, d).top_p = p
               /\ d # "http" => Admitted(b, d).top_p = Or(Float32(p), One)
<1> DEFINE m == Get(b, "max_tokens", 50)
           h == Get(b, "temperature", 0)
           p == Get(b, "top_p", One)
           k == Get(b, "top_k", 0)
<1>0. /\ m \in Int /\ m >= 1 /\ h \in 0 .. 2 * One /\ p \in 1 .. One /\ k \in Nat
      /\ MaxNewTokens \in Nat /\ MaxNewTokens >= 1
      /\ Float32(h) \in 0 .. 2 * One /\ Float32(p) \in 0 .. One
  <2>1. m \in Int /\ k \in Int
    BY Asked DEF Fields
  <2>2. /\ m >= 1 /\ h \in 0 .. 2 * One /\ p \in 1 .. One /\ k >= 0
    BY DEF Valid
  <2>3. Float32(h) \in 0 .. 2 * One /\ Float32(p) \in 0 .. One
    <3> HIDE DEF m, h, p, k
    <3> QED
      BY <2>2, Narrowed, Zenon
  <2>4. MaxNewTokens \in Nat /\ MaxNewTokens >= 1
    BY SamplingAssumption
  <2> HIDE DEF m, h, p, k
  <2> QED
    BY <2>1, <2>2, <2>3, <2>4
<1>1. FromHttp(b) = [max_tokens |-> m, temperature |-> h, top_k |-> k, top_p |-> p]
  BY DEF FromHttp
<1>2. /\ Get(Carried(b), "temperature", 0) = Float32(h)
      /\ Or(Get(Carried(b), "top_p", 0), One) = Or(Float32(p), One)
      /\ Get(Carried(b), "top_k", 0) = k
      /\ Or(Get(Carried(b), "max_tokens", 0), 50) = m
      /\ (IF Get(Carried(b), "max_tokens", 0) <= 0 THEN 50
           ELSE Get(Carried(b), "max_tokens", 0)) = m
  <2>1. Get(Carried(b), "temperature", 0) = Float32(h)
    BY AskedCarried, Narrowed DEF Get
  <2>2. Or(Get(Carried(b), "top_p", 0), One) = Or(Float32(p), One)
    BY AskedCarried, Narrowed DEF Get, Or, One
  <2>3. Get(Carried(b), "top_k", 0) = k /\ Get(Carried(b), "max_tokens", 0) = Get(b, "max_tokens", 0)
    BY AskedCarried
  <2>4. m = IF "max_tokens" \in DOMAIN b THEN Get(b, "max_tokens", 0) ELSE 50
    BY DEF Get
  <2>5. "max_tokens" \notin DOMAIN b => Get(b, "max_tokens", 0) = 0
    BY DEF Get
  <2> HIDE DEF m
  <2> QED
    BY <1>0, <2>1, <2>2, <2>3, <2>4, <2>5 DEF Or
<1> HIDE DEF m, h, p, k
<1>3. FromGrpc(b) = [max_tokens |-> m, temperature |-> Float32(h), top_k |-> k,
                     top_p |-> Or(Float32(p), One)]
  BY <1>2 DEF FromGrpc, FromMessage
<1>4. FromGateway(b) = [max_tokens |-> m, temperature |-> Float32(h), top_k |-> k,
                        top_p |-> Or(Float32(p), One)]
  <2>1. FromGateway(b) = FromMessage(
            [max_tokens |-> m, temperature |-> Float32(h), top_k |-> k,
             top_p |-> Get(Carried(b), "top_p", 0)])
    BY <1>2 DEF FromGateway
  <2>2. Or(m, 50) = m
    BY <1>0 DEF Or
  <2> QED
    BY <1>2, <2>1, <2>2 DEF FromMessage, Get
<1>5. Or(Float32(p), One) \in 1 .. One
  BY <1>0 DEF Or, One
<1>6. ASSUME NEW g \in 0 .. 2 * One, NEW q \in 1 .. One
      PROVE  LET c == Clamp([max_tokens |-> m, temperature |-> g, top_k |-> k, top_p |-> q])
             IN  /\ c.max_tokens = Low(m, MaxNewTokens) /\ c.temperature = g
                 /\ c.top_k = k /\ c.top_p = q
  BY <1>0 DEF Clamp, High, Low, Or, One
<1>7. CASE d = "http"
  BY <1>0, <1>1, <1>6, <1>7 DEF Admitted, m, h, p, k
<1>8. CASE d # "http"
  <2>1. Admitted(b, d) = Clamp([max_tokens |-> m, temperature |-> Float32(h), top_k |-> k,
                                top_p |-> Or(Float32(p), One)])
    BY <1>3, <1>4, <1>8 DEF Admitted, Doors
  <2> QED
    BY <1>0, <1>5, <1>6, <1>8, <2>1 DEF m, h, p, k
<1> QED
  BY <1>7, <1>8

\* Up to the precision of a float32 the three doors agree on it.
LEMMA DoorsAgree ==
    ASSUME NEW b \in Bodies, Valid(b), NEW d \in Doors, NEW e \in Doors
    PROVE  Alike(Admitted(b, d), Admitted(b, e), Get(b, "top_p", One))
<1> DEFINE h == Get(b, "temperature", 0)
           p == Get(b, "top_p", One)
           x == Admitted(b, d)
           y == Admitted(b, e)
<1>1. /\ h \in 0 .. 2 * One /\ p \in 1 .. One
      /\ x.max_tokens = y.max_tokens /\ x.top_k = y.top_k
      /\ x.temperature \in {h, Float32(h)} /\ y.temperature \in {h, Float32(h)}
      /\ x.top_p = p \/ x.top_p = Or(Float32(p), One)
      /\ y.top_p = p \/ y.top_p = Or(Float32(p), One)
  BY Meaning, Zenon
<1> HIDE DEF h, p, x, y
<1>2. Float32(Float32(h)) = Float32(h) /\ Float32(Float32(p)) = Float32(p)
  BY <1>1, Narrowed DEF One
<1>3. Float32(x.temperature) = Float32(y.temperature)
  BY <1>1, <1>2
<1>4. CASE Float32(p) = 0
  <2>1. x.top_p \in {p, One} /\ y.top_p \in {p, One}
    BY <1>1, <1>4 DEF Or
  <2> QED
    BY <1>1, <1>3, <1>4, <2>1 DEF Alike, p, x, y
<1>5. CASE Float32(p) # 0
  <2>1. Float32(x.top_p) = Float32(y.top_p)
    BY <1>1, <1>2, <1>5 DEF Or
  <2> QED
    BY <1>1, <1>3, <2>1 DEF Alike, p, x, y
<1> QED
  BY <1>4, <1>5

\* Every token kept is one of the vocabulary.
LEMMA SupportsInVocab ==
    ASSUME NEW l, NEW p, NEW S \in Supports(l, p) PROVE S \in SUBSET Vocab
<1>1. \A w : \A o \in Orders(w) : TopP(w, p.top_p, o) \in SUBSET Vocab
  BY DEF TopP, Orders
<1>2. CASE p.temperature = 0
  BY <1>2 DEF Supports
<1>3. CASE p.temperature # 0
  <2>1. PICK w : \E o \in Orders(w) : S = TopP(w, p.top_p, o)
    BY <1>3 DEF Supports
  <2> QED
    BY <1>1, <2>1
<1> QED
  BY <1>2, <1>3

\* The rows of the group that is sampled next.
InHead(r) == \E i \in 1 .. Len(Head(groups).rows) : Head(groups).rows[i] = r

\* What one vectorised call of sample does to the rows.
LEMMA GroupEffect ==
    ASSUME SampleGroup
    PROVE  \E choice, draw :
              /\ \A r \in Rows : InHead(r) =>
                    /\ choice[r] \in Supports(logits[r], Head(groups).key)
                    /\ draw[r] \in choice[r]
              /\ kept' = [r \in Rows |-> IF InHead(r) THEN choice[r] ELSE kept[r]]
              /\ out' = [r \in Rows |-> IF InHead(r) THEN draw[r] ELSE out[r]]
<1>0. PICK rows, key : rows = Head(groups).rows /\ key = Head(groups).key
  OBVIOUS
<1>1. PICK values \in [1 .. Len(rows) -> SUBSET Vocab] :
        /\ \A i \in 1 .. Len(rows) : values[i] \in Supports(logits[rows[i]], key)
        /\ kept' = Scattered(values, kept, rows)
        /\ \E drawn \in [1 .. Len(rows) -> Vocab] :
              /\ \A i \in 1 .. Len(rows) : drawn[i] \in values[i]
              /\ out' = Scattered(drawn, out, rows)
  BY <1>0, Zenon DEF SampleGroup
<1>2. PICK drawn \in [1 .. Len(rows) -> Vocab] :
        /\ \A i \in 1 .. Len(rows) : drawn[i] \in values[i]
        /\ out' = Scattered(drawn, out, rows)
  BY <1>1
<1> DEFINE at(r) == CHOOSE i \in 1 .. Len(rows) : rows[i] = r
<1>3. \A r \in Rows : InHead(r) <=> \E i \in 1 .. Len(rows) : rows[i] = r
  BY <1>0 DEF InHead
<1>4. \A r \in Rows : InHead(r) => at(r) \in 1 .. Len(rows) /\ rows[at(r)] = r
  BY <1>3
<1>5. PICK choice : choice = [r \in Rows |-> values[at(r)]]
  OBVIOUS
<1>6. PICK draw : draw = [r \in Rows |-> drawn[at(r)]]
  OBVIOUS
<1>7. /\ kept' = [r \in Rows |-> IF InHead(r) THEN choice[r] ELSE kept[r]]
      /\ out' = [r \in Rows |-> IF InHead(r) THEN draw[r] ELSE out[r]]
  BY <1>1, <1>2, <1>3, <1>5, <1>6 DEF Scattered
<1> HIDE DEF at
<1>8. \A r \in Rows : InHead(r) =>
        choice[r] \in Supports(logits[r], Head(groups).key) /\ draw[r] \in choice[r]
  BY <1>0, <1>1, <1>2, <1>4, <1>5, <1>6
<1> QED
  BY <1>7, <1>8

Groups == [key : Keys, rows : Seq(Rows)]

\* No row loses its place, r has one, and whoever is in a group was there
\* before or is r in the group of its key.
Joined(old, key, r, new) ==
    /\ \A i \in 1 .. Len(old) : \E j \in 1 .. Len(new) :
         \A n \in 1 .. Len(old[i].rows) :
            \E q \in 1 .. Len(new[j].rows) : new[j].rows[q] = old[i].rows[n]
    /\ \E j \in 1 .. Len(new) : \E n \in 1 .. Len(new[j].rows) : new[j].rows[n] = r
    /\ \A j \in 1 .. Len(new) : \A n \in 1 .. Len(new[j].rows) :
         \/ new[j].rows[n] = r /\ new[j].key = key
         \/ /\ j \in 1 .. Len(old) /\ n \in 1 .. Len(old[j].rows)
            /\ new[j].rows[n] = old[j].rows[n] /\ new[j].key = old[j].key

\* The groups after the row r has been put into that of its key.
LEMMA GroupedEffect ==
    ASSUME NEW old \in Seq(Groups), NEW key \in Keys, NEW r \in Rows
    PROVE  /\ Grouped(old, key, r) \in Seq(Groups)
           /\ Joined(old, key, r, Grouped(old, key, r))
<1>1. PICK new : new = Grouped(old, key, r)
  OBVIOUS
<1>0. \A i \in 1 .. Len(old) : old[i] \in Groups
  BY ElementOfSeq
<1>2. \A i \in 1 .. Len(old) : /\ old[i].key \in Keys /\ old[i].rows \in Seq(Rows)
                              /\ old[i] = [key |-> old[i].key, rows |-> old[i].rows]
  BY <1>0 DEF Groups
<1>3. CASE \E i \in 1 .. Len(old) : old[i].key = key
  <2>1. new = [i \in 1 .. Len(old) |->
                IF old[i].key = key THEN [key |-> key, rows |-> Append(old[i].rows, r)]
                                    ELSE old[i]]
    BY <1>1, <1>3 DEF Grouped
  <2>0. ASSUME NEW q \in Seq(Rows)
        PROVE  /\ Append(q, r) \in Seq(Rows) /\ Len(Append(q, r)) = Len(q) + 1
               /\ Len(q) \in Nat /\ Append(q, r)[Len(q) + 1] = r
               /\ \A n \in 1 .. Len(q) : Append(q, r)[n] = q[n]
    BY AppendProperties
  <2>2. \A i \in 1 .. Len(old) :
          /\ Append(old[i].rows, r) \in Seq(Rows)
          /\ Len(Append(old[i].rows, r)) = Len(old[i].rows) + 1
          /\ Len(old[i].rows) \in Nat
          /\ \A n \in 1 .. Len(old[i].rows) : Append(old[i].rows, r)[n] = old[i].rows[n]
          /\ Append(old[i].rows, r)[Len(old[i].rows) + 1] = r
    BY <1>2, <2>0
  <2>3. Len(old) \in Nat /\ new \in Seq(Groups) /\ Len(new) = Len(old)
    <3>1. ASSUME NEW i \in 1 .. Len(old) PROVE new[i] \in Groups
      <4>1. [key |-> key, rows |-> Append(old[i].rows, r)] \in Groups
        BY <2>2 DEF Groups
      <4> QED
        BY <1>0, <2>1, <4>1
    <3>2. new \in [1 .. Len(old) -> Groups] /\ Len(old) \in Nat
      BY <2>1, <3>1
    <3> QED
      BY <3>2, SeqDef, LenProperties
  <2>4. \A i \in 1 .. Len(old) :
          /\ new[i].key = old[i].key
          /\ old[i].key = key =>
                /\ Len(new[i].rows) = Len(old[i].rows) + 1
                /\ \A n \in 1 .. Len(old[i].rows) : new[i].rows[n] = old[i].rows[n]
                /\ new[i].rows[Len(old[i].rows) + 1] = r
          /\ old[i].key # key => new[i].rows = old[i].rows
    BY <2>1, <2>2
  <2>5. \A i \in 1 .. Len(old) : \A n \in 1 .. Len(old[i].rows) :
            n \in 1 .. Len(new[i].rows) /\ new[i].rows[n] = old[i].rows[n]
    BY <2>2, <2>4
  <2>6. \E j \in 1 .. Len(old) : \E n \in 1 .. Len(new[j].rows) : new[j].rows[n] = r
    <3>1. PICK j \in 1 .. Len(old) : old[j].key = key
      BY <1>3
    <3>2. Len(old[j].rows) + 1 \in 1 .. Len(new[j].rows)
      BY <2>2, <2>4, <3>1
    <3> QED
      BY <2>4, <3>1, <3>2
  <2>7. ASSUME NEW j \in 1 .. Len(old), NEW n \in 1 .. Len(new[j].rows)
        PROVE  \/ new[j].rows[n] = r /\ new[j].key = key
               \/ /\ n \in 1 .. Len(old[j].rows)
                  /\ new[j].rows[n] = old[j].rows[n] /\ new[j].key = old[j].key
    <3>1. CASE old[j].key # key
      BY <2>4, <3>1
    <3>2. CASE old[j].key = key
      <4>1. n \in 1 .. Len(old[j].rows) \/ n = Len(old[j].rows) + 1
        BY <2>2, <2>4, <3>2
      <4> QED
        BY <2>4, <3>2, <4>1
    <3> QED
      BY <3>1, <3>2
  <2> QED
    BY <1>1, <2>3, <2>5, <2>6, <2>7 DEF Joined
<1>4. CASE ~(\E i \in 1 .. Len(old) : old[i].key = key)
  <2>1. PICK own : own = [key |-> key, rows |-> <<r>>]
    OBVIOUS
  <2>2. own \in Groups /\ Len(own.rows) = 1 /\ own.rows[1] = r /\ own.key = key
    BY <2>1 DEF Groups
  <2>3. new = Append(old, own)
    BY <1>1, <1>4, <2>1 DEF Grouped
  <2>4. /\ new \in Seq(Groups) /\ Len(new) = Len(old) + 1 /\ Len(old) \in Nat
        /\ \A i \in 1 .. Len(old) : new[i] = old[i]
        /\ new[Len(old) + 1] = own
    BY <2>2, <2>3, AppendProperties
  <2>5. ASSUME NEW j \in 1 .. Len(new), NEW n \in 1 .. Len(new[j].rows)
        PROVE  \/ new[j].rows[n] = r /\ new[j].key = key
               \/ /\ j \in 1 .. Len(old) /\ n \in 1 .. Len(old[j].rows)
                  /\ new[j].rows[n] = old[j].rows[n] /\ new[j].key = old[j].key
    <3>1. CASE j \in 1 .. Len(old)
      BY <2>4, <3>1
    <3>2. CASE j \notin 1 .. Len(old)
      <4>1. new[j] = own
        BY <2>4, <3>2
      <4>2. n = 1
        <5>1. Len(new[j].rows) = 1
          BY <2>2, <4>1
        <5> QED
          BY <5>1
      <4> QED
        BY <2>2, <4>1, <4>2
    <3> QED
      BY <3>1, <3>2
  <2>6. \A i \in 1 .. Len(old) : i \in 1 .. Len(new)
    BY <2>4
  <2>7. \E j \in 1 .. Len(new) : \E n \in 1 .. Len(new[j].rows) : new[j].rows[n] = r
    <3>1. Len(old) + 1 \in 1 .. Len(new) /\ 1 \in 1 .. Len(own.rows)
      BY <2>2, <2>4
    <3> QED
      BY <2>2, <2>4, <3>1
  <2>8. ASSUME NEW i \in 1 .. Len(old)
        PROVE  \E j \in 1 .. Len(new) : \A n \in 1 .. Len(old[i].rows) :
                    \E q \in 1 .. Len(new[j].rows) : new[j].rows[q] = old[i].rows[n]
    BY <2>4, <2>6
  <2> QED
    BY <1>1, <2>4, <2>5, <2>7, <2>8 DEF Joined
<1> QED
  BY <1>3, <1>4

LEMMA SInit == Init => TypeOK
BY DEF Init, TypeOK

LEMMA STypeStep == TypeOK /\ [Next]_vars => TypeOK'
<1> SUFFICES ASSUME TypeOK, [Next]_vars PROVE TypeOK'
  OBVIOUS
<1> USE DEF TypeOK
<1>1. ASSUME NEW r \in Rows, MakeSequence(r) PROVE TypeOK'
  <2>1. PICK b \in Bodies, door \in Doors :
            /\ body' = [body EXCEPT ![r] = b]
            /\ params' = [params EXCEPT ![r] = Admitted(b, door)]
    BY <1>1 DEF MakeSequence
  <2>2. params'[r] \in Params
    BY <2>1, AdmittedInRange
  <2>3. Key(params'[r]) \in Keys
    BY <2>2 DEF Key, Params, Keys
  <2>4. Grouped(groups, Key(params'[r]), r) \in Seq(Groups)
    BY <2>3, GroupedEffect DEF Groups
  <2> QED
    BY <1>1, <2>1, <2>2, <2>4 DEF MakeSequence, Groups
<1>2. CASE SampleGroup
  <2>1. /\ groups' = Tail(groups) /\ groups # << >>
        /\ UNCHANGED <<body, params, logits>>
    BY <1>2 DEF SampleGroup
  <2>2. groups' \in Seq(Groups)
    BY <2>1, HeadTailProperties DEF Groups
  <2>3. PICK choice, draw :
            /\ \A r \in Rows : InHead(r) =>
                  /\ choice[r] \in Supports(logits[r], Head(groups).key)
                  /\ draw[r] \in choice[r]
            /\ kept' = [r \in Rows |-> IF InHead(r) THEN choice[r] ELSE kept[r]]
            /\ out' = [r \in Rows |-> IF InHead(r) THEN draw[r] ELSE out[r]]
    BY <1>2, GroupEffect
  <2>4. \A r \in Rows : InHead(r) => choice[r] \in SUBSET Vocab /\ draw[r] \in Vocab
    BY <2>3, SupportsInVocab
  <2> QED
    BY <2>1, <2>2, <2>3, <2>4 DEF Groups
<1>3. CASE UNCHANGED vars
  BY <1>3 DEF vars
<1> QED
  BY <1>1, <1>2, <1>3 DEF Next

\* Whatever a client asks for, through whichever door, the engine gets
\* parameters in range.
THEOREM ParametersInRange == Spec => []TypeOK
BY SInit, STypeStep, PTL DEF Spec

\* A row's parameters are what one of the doors made of its request.
AsAdmitted ==
    \A r \in Rows : params[r] # NoParams =>
        /\ body[r] \in Bodies
        /\ \E door \in Doors : params[r] = Admitted(body[r], door)

\* A request that the HTTP front end would accept means the same through every
\* door that accepts it, up to the precision of a float32, but for a top_p too
\* small for one, which is no top_p behind the gateway and gRPC.
THEOREM OneMeaning == Spec => []SameThroughEveryDoor
<1>1. Init => AsAdmitted
  BY DEF Init, AsAdmitted
<1>2. TypeOK /\ AsAdmitted /\ [Next]_vars => AsAdmitted'
  <2> SUFFICES ASSUME TypeOK, AsAdmitted, [Next]_vars PROVE AsAdmitted'
    OBVIOUS
  <2>1. ASSUME NEW r \in Rows, MakeSequence(r) PROVE AsAdmitted'
    BY <2>1 DEF MakeSequence, AsAdmitted, TypeOK
  <2>2. CASE SampleGroup \/ UNCHANGED vars
    BY <2>2 DEF SampleGroup, vars, AsAdmitted
  <2> QED
    BY <2>1, <2>2 DEF Next
<1>3. AsAdmitted => SameThroughEveryDoor
  BY DoorsAgree DEF AsAdmitted, SameThroughEveryDoor
<1> QED
  BY <1>1, <1>2, <1>3, ParametersInRange, PTL DEF Spec

-----------------------------------------------------------------------------
(* Grouping loses no row and gives none the settings of another *)

\* Every group holds rows whose requests ask for what its key says.
GroupsFit ==
    \A i \in 1 .. Len(groups) : \A n \in 1 .. Len(groups[i].rows) :
        LET r == groups[i].rows[n]
        IN  r \in Rows /\ params[r] # NoParams /\ Key(params[r]) = groups[i].key

\* The row r is in one of the groups.
Waiting(r) ==
    \E i \in 1 .. Len(groups) : \E n \in 1 .. Len(groups[i].rows) :
        groups[i].rows[n] = r

\* A row whose request has come is waiting in a group or has drawn its token
\* from what its own settings allow.
InItsGroup ==
    \A r \in Rows : params[r] # NoParams =>
        \/ out[r] = 0 /\ Waiting(r)
        \/ out[r] \in kept[r] /\ kept[r] \in Supports(logits[r], Key(params[r]))

Undrawn == \A r \in Rows : params[r] = NoParams => out[r] = 0

LEMMA GroupedStep ==
    ASSUME TypeOK, GroupsFit, InItsGroup, Undrawn, NEW r \in Rows, MakeSequence(r)
    PROVE  GroupsFit' /\ InItsGroup' /\ Undrawn'
<1>1. PICK b \in Bodies, door \in Doors :
        params' = [params EXCEPT ![r] = Admitted(b, door)]
  BY DEF MakeSequence
<1>2. /\ params[r] = NoParams /\ params'[r] # NoParams /\ params'[r] \in Params
      /\ \A q \in Rows : q # r => params'[q] = params[q]
      /\ UNCHANGED <<logits, kept, out>>
  BY <1>1, AdmittedInRange, NoParamsAssumption DEF MakeSequence, TypeOK
<1>3. PICK key \in Keys : key = Key(params'[r])
  BY <1>2 DEF Key, Params, Keys
<1>4. groups \in Seq(Groups) /\ groups' = Grouped(groups, key, r)
  BY <1>3 DEF MakeSequence, TypeOK, Groups
<1>5. /\ \A q \in Rows : Waiting(q) => Waiting(q)'
      /\ Waiting(r)'
      /\ \A j \in 1 .. Len(groups') : \A n \in 1 .. Len(groups'[j].rows) :
            \/ groups'[j].rows[n] = r /\ groups'[j].key = key
            \/ /\ j \in 1 .. Len(groups) /\ n \in 1 .. Len(groups[j].rows)
               /\ groups'[j].rows[n] = groups[j].rows[n]
               /\ groups'[j].key = groups[j].key
  <2>1. /\ \A i \in 1 .. Len(groups) : \E j \in 1 .. Len(groups') :
            \A n \in 1 .. Len(groups[i].rows) :
                \E q \in 1 .. Len(groups'[j].rows) : groups'[j].rows[q] = groups[i].rows[n]
        /\ \E j \in 1 .. Len(groups') : \E n \in 1 .. Len(groups'[j].rows) :
                groups'[j].rows[n] = r
        /\ \A j \in 1 .. Len(groups') : \A n \in 1 .. Len(groups'[j].rows) :
            \/ groups'[j].rows[n] = r /\ groups'[j].key = key
            \/ /\ j \in 1 .. Len(groups) /\ n \in 1 .. Len(groups[j].rows)
               /\ groups'[j].rows[n] = groups[j].rows[n]
               /\ groups'[j].key = groups[j].key
    <3>1. Joined(groups, key, r, groups')
      BY <1>4, GroupedEffect
    <3> QED
      BY <3>1 DEF Joined
  <2>2. ASSUME NEW q \in Rows, Waiting(q) PROVE Waiting(q)'
    <3>1. PICK i \in 1 .. Len(groups) : \E n \in 1 .. Len(groups[i].rows) :
                groups[i].rows[n] = q
      BY <2>2 DEF Waiting
    <3>2. PICK n \in 1 .. Len(groups[i].rows) : groups[i].rows[n] = q
      BY <3>1
    <3>3. \E j \in 1 .. Len(groups') : \E x \in 1 .. Len(groups'[j].rows) :
                groups'[j].rows[x] = q
      BY <2>1, <3>2
    <3> QED
      BY <3>3 DEF Waiting
  <2>3. Waiting(r)'
    BY <2>1 DEF Waiting
  <2> QED
    BY <2>1, <2>2, <2>3
<1>6. GroupsFit'
  <2> SUFFICES ASSUME NEW j \in 1 .. Len(groups'), NEW n \in 1 .. Len(groups'[j].rows)
               PROVE  /\ groups'[j].rows[n] \in Rows
                      /\ params'[groups'[j].rows[n]] # NoParams
                      /\ Key(params'[groups'[j].rows[n]]) = groups'[j].key
    BY DEF GroupsFit, Key
  <2>1. CASE groups'[j].rows[n] = r /\ groups'[j].key = key
    BY <1>2, <1>3, <2>1
  <2>2. CASE /\ j \in 1 .. Len(groups) /\ n \in 1 .. Len(groups[j].rows)
             /\ groups'[j].rows[n] = groups[j].rows[n]
             /\ groups'[j].key = groups[j].key
    <3>1. PICK q : q = groups[j].rows[n]
      OBVIOUS
    <3>2. q \in Rows /\ params[q] # NoParams /\ Key(params[q]) = groups[j].key
      BY <2>2, <3>1 DEF GroupsFit
    <3>3. params'[q] = params[q]
      BY <1>2, <3>2
    <3> QED
      BY <2>2, <3>1, <3>2, <3>3
  <2> QED
    BY <1>5, <2>1, <2>2
<1>7. InItsGroup'
  <2> SUFFICES ASSUME NEW q \in Rows, params'[q] # NoParams
               PROVE  \/ out[q] = 0 /\ Waiting(q)'
                      \/ /\ out[q] \in kept[q]
                         /\ kept[q] \in Supports(logits[q], Key(params'[q]))
    BY <1>2 DEF InItsGroup, Key
  <2>1. CASE q = r
    BY <1>2, <1>5, <2>1 DEF Undrawn
  <2>2. CASE q # r
    BY <1>2, <1>5, <2>2 DEF InItsGroup
  <2> QED
    BY <2>1, <2>2
<1> QED
  BY <1>2, <1>6, <1>7 DEF Undrawn

LEMMA SampledStep ==
    ASSUME TypeOK, GroupsFit, InItsGroup, Undrawn, SampleGroup
    PROVE  GroupsFit' /\ InItsGroup' /\ Undrawn'
<1>1. PICK choice, draw :
        /\ \A r \in Rows : InHead(r) =>
              /\ choice[r] \in Supports(logits[r], Head(groups).key)
              /\ draw[r] \in choice[r]
        /\ kept' = [r \in Rows |-> IF InHead(r) THEN choice[r] ELSE kept[r]]
        /\ out' = [r \in Rows |-> IF InHead(r) THEN draw[r] ELSE out[r]]
  BY GroupEffect
<1>2. /\ groups \in Seq(Groups) /\ groups # << >> /\ groups' = Tail(groups)
      /\ UNCHANGED <<params, logits>> /\ Ready
  BY DEF SampleGroup, TypeOK, Groups
<1>3. /\ Head(groups) = groups[1] /\ Len(groups') = Len(groups) - 1
      /\ Len(groups) \in Nat /\ Len(groups) >= 1
      /\ \A j \in 1 .. Len(groups') : groups'[j] = groups[j + 1]
  BY <1>2, HeadTailProperties, EmptySeq
<1>4. GroupsFit'
  <2>1. \A j \in 1 .. Len(groups') : j + 1 \in 1 .. Len(groups)
    BY <1>3
  <2> QED
    BY <1>2, <1>3, <2>1 DEF GroupsFit, Key
<1>5. \A r \in Rows : Waiting(r) => InHead(r) \/ Waiting(r)'
  <2> SUFFICES ASSUME NEW r \in Rows,
                      NEW i \in 1 .. Len(groups), NEW n \in 1 .. Len(groups[i].rows),
                      groups[i].rows[n] = r
               PROVE  InHead(r) \/ Waiting(r)'
    BY DEF Waiting
  <2>1. CASE i = 1
    BY <1>3, <2>1 DEF InHead
  <2>2. CASE i # 1
    <3>1. i - 1 \in 1 .. Len(groups') /\ (i - 1) + 1 = i
      BY <1>3, <2>2
    <3>2. groups'[i - 1] = groups[i]
      BY <1>3, <3>1
    <3> QED
      BY <3>1, <3>2 DEF Waiting
  <2> QED
    BY <2>1, <2>2
<1>6. ASSUME NEW r \in Rows
      PROVE  \/ out'[r] = 0 /\ Waiting(r)'
             \/ out'[r] \in kept'[r] /\ kept'[r] \in Supports(logits[r], Key(params[r]))
  <2>1. CASE InHead(r)
    <3>1. Key(params[r]) = Head(groups).key
      BY <1>3, <2>1 DEF InHead, GroupsFit
    <3> QED
      BY <1>1, <2>1, <3>1
  <2>2. CASE ~InHead(r)
    <3>1. out'[r] = out[r] /\ kept'[r] = kept[r] /\ params[r] # NoParams
      BY <1>1, <1>2, <2>2 DEF Ready
    <3> QED
      BY <1>5, <2>2, <3>1 DEF InItsGroup
  <2> QED
    BY <2>1, <2>2
<1>7. InItsGroup'
  BY <1>2, <1>6 DEF InItsGroup, Key
<1> QED
  BY <1>2, <1>4, <1>7 DEF Ready, Undrawn

LEMMA InOwnGroup == Spec => [](TypeOK /\ GroupsFit /\ InItsGroup /\ Undrawn)
<1>1. Init => GroupsFit /\ InItsGroup /\ Undrawn
  BY DEF Init, GroupsFit, InItsGroup, Undrawn
<1>2. TypeOK /\ GroupsFit /\ InItsGroup /\ Undrawn /\ [Next]_vars
        => GroupsFit' /\ InItsGroup' /\ Undrawn'
  <2>1. CASE UNCHANGED vars
    BY <2>1 DEF vars, GroupsFit, InItsGroup, Waiting, Key, Undrawn
  <2> QED
    BY <2>1, GroupedStep, SampledStep DEF Next
<1> QED
  BY <1>1, <1>2, ParametersInRange, PTL DEF Spec

\* When the last group has been sampled, every row has a token that its own
\* settings allow; the likeliest one, if the request is greedy.
THEOREM NoRowLeftOut ==
    Spec => [](Ready /\ groups = << >> =>
                 \A r \in Rows :
                    /\ out[r] \in kept[r]
                    /\ kept[r] \in Supports(logits[r], Key(params[r]))
                    /\ params[r].temperature = 0 =>
                          \A t \in Vocab : logits[r][t] <= logits[r][out[r]])
<1> DEFINE Done == Ready /\ groups = << >> =>
                     \A r \in Rows :
                        /\ out[r] \in kept[r]
                        /\ kept[r] \in Supports(logits[r], Key(params[r]))
                        /\ params[r].temperature = 0 =>
                              \A t \in Vocab : logits[r][t] <= logits[r][out[r]]
<1>1. InItsGroup => Done
  <2> SUFFICES ASSUME InItsGroup, Ready, groups = << >>, NEW r \in Rows
               PROVE  /\ out[r] \in kept[r]
                      /\ kept[r] \in Supports(logits[r], Key(params[r]))
                      /\ params[r].temperature = 0 =>
                            \A t \in Vocab : logits[r][t] <= logits[r][out[r]]
    OBVIOUS
  <2>1. out[r] \in kept[r] /\ kept[r] \in Supports(logits[r], Key(params[r]))
    <3>1. Len(groups) = 0
      BY EmptySeq
    <3>2. ~Waiting(r)
      BY <3>1 DEF Waiting
    <3> QED
      BY <3>2 DEF InItsGroup, Ready
  <2>2. ASSUME params[r].temperature = 0
        PROVE  \A t \in Vocab : logits[r][t] <= logits[r][out[r]]
    BY <2>1, <2>2 DEF Supports, Key
  <2> QED
    BY <2>1, <2>2
<1> QED
  BY <1>1, InOwnGroup, PTL

-----------------------------------------------------------------------------
(* Numbers *)

\* A set of numbers that is not empty has a least one.
LEMMA LeastNumber ==
    ASSUME NEW S \in SUBSET Nat, S # {}
    PROVE  \E x \in S : \A y \in S : x <= y
<1> DEFINE R == {p \in Nat \X Nat : p[1] < p[2]}
<1>1. IsWellFoundedOn(R, Nat)
  BY NatLessThanWellFounded DEF OpToRel
<1>2. \A x, y \in Nat : y < x => <<y, x>> \in R
  OBVIOUS
<1> HIDE DEF R
<1>3. PICK x \in S : \A y \in S : ~(<<y, x>> \in R)
  BY <1>1, WFMin
<1>4. \A y \in S : ~(y < x)
  BY <1>2, <1>3
<1>5. \A y \in S : x <= y
  BY <1>4
<1> QED
  BY <1>5

\* A set that has 0 and, with any number, the next one, has all of them.
LEMMA AllNumbers ==
    ASSUME NEW S, 0 \in S, \A n \in Nat : n \in S => n + 1 \in S
    PROVE  \A n \in Nat : n \in S
<1> DEFINE T == Nat \ S
<1>1. SUFFICES ASSUME T # {} PROVE FALSE
  OBVIOUS
<1>2. PICK x \in T : \A y \in T : x <= y
  BY <1>1, LeastNumber
<1>3. x \in Nat /\ x # 0 /\ x - 1 \in Nat /\ ~(x <= x - 1) /\ (x - 1) + 1 = x
  BY <1>2
<1> QED
  BY <1>2, <1>3

\* f is a, and from then on what F makes of its value before.
Chain(a, F, m, f) ==
    /\ f \in [0 .. m -> Nat] /\ f[0] = a
    /\ \A n \in 0 .. m - 1 : f[n + 1] = F[n + 1][f[n]]

LEMMA ChainExists ==
    ASSUME NEW a \in Nat, NEW F,
           \A n \in Nat : \A x \in Nat : F[n][x] \in Nat, NEW m \in Nat
    PROVE  \E f : Chain(a, F, m, f)
<1> DEFINE S == {n \in Nat : \E f : Chain(a, F, n, f)}
<1>1. 0 \in S
  <2>1. Chain(a, F, 0, [n \in 0 .. 0 |-> a])
    BY DEF Chain
  <2> QED
    BY <2>1
<1>2. ASSUME NEW k \in Nat, k \in S PROVE k + 1 \in S
  <2>1. PICK f : Chain(a, F, k, f)
    BY <1>2
  <2> DEFINE g == [n \in 0 .. k + 1 |-> IF n = k + 1 THEN F[k + 1][f[k]] ELSE f[n]]
  <2>2. f[k] \in Nat /\ F[k + 1][f[k]] \in Nat
    BY <2>1 DEF Chain
  <2>3. /\ \A n \in 0 .. k : g[n] = f[n] /\ f[n] \in Nat
        /\ g[k + 1] = F[k + 1][f[k]]
        /\ g \in [0 .. k + 1 -> Nat]
    BY <2>1, <2>2 DEF Chain
  <2> HIDE DEF g
  <2>4. ASSUME NEW n \in 0 .. (k + 1) - 1 PROVE g[n + 1] = F[n + 1][g[n]]
    <3>1. CASE n = k
      BY <2>3, <3>1
    <3>2. CASE n # k
      <4>1. n \in 0 .. k - 1 /\ n \in 0 .. k /\ n + 1 \in 0 .. k
        BY <3>2
      <4> QED
        BY <2>1, <2>3, <4>1 DEF Chain
    <3> QED
      BY <3>1, <3>2
  <2>5. g[0] = a
    BY <2>1, <2>3 DEF Chain
  <2>6. Chain(a, F, k + 1, g)
    BY <2>3, <2>4, <2>5 DEF Chain
  <2> QED
    BY <2>6
<1> HIDE DEF S
<1>3. m \in S
  BY <1>1, <1>2, AllNumbers
<1> QED
  BY <1>3 DEF S

\* Two chains agree as far as both go.
LEMMA ChainsAgree ==
    ASSUME NEW a, NEW F, NEW m \in Nat, NEW k \in Nat, m <= k,
           NEW f, Chain(a, F, m, f), NEW g, Chain(a, F, k, g)
    PROVE  f[m] = g[m]
<1> DEFINE S == {n \in Nat : n <= m => f[n] = g[n]}
<1>1. 0 \in S
  BY DEF Chain
<1>2. ASSUME NEW n \in Nat, n \in S PROVE n + 1 \in S
  <2> SUFFICES ASSUME n + 1 <= m PROVE f[n + 1] = g[n + 1]
    OBVIOUS
  <2>1. n \in 0 .. m - 1 /\ n \in 0 .. k - 1
    OBVIOUS
  <2>2. f[n] = g[n]
    BY <1>2
  <2> QED
    BY <2>1, <2>2 DEF Chain
<1> HIDE DEF S
<1>3. m \in S
  BY <1>1, <1>2, AllNumbers
<1> QED
  BY <1>3 DEF S

\* The function that the chains approach.
Iterated(a, F) == [m \in Nat |-> (CHOOSE f : Chain(a, F, m, f))[m]]

LEMMA Recursion ==
    ASSUME NEW a \in Nat, NEW F, \A n \in Nat : \A x \in Nat : F[n][x] \in Nat
    PROVE  /\ Iterated(a, F) \in [Nat -> Nat]
           /\ Iterated(a, F)[0] = a
           /\ \A n \in Nat : Iterated(a, F)[n + 1] = F[n + 1][Iterated(a, F)[n]]
<1> DEFINE c(m) == CHOOSE f : Chain(a, F, m, f)
           h == [m \in Nat |-> c(m)[m]]
<1>1. ASSUME NEW m \in Nat PROVE Chain(a, F, m, c(m))
  BY ChainExists
<1> HIDE DEF c
<1>2. h \in [Nat -> Nat]
  <2>1. \A m \in Nat : m \in 0 .. m
    OBVIOUS
  <2>2. \A m \in Nat : c(m)[m] \in Nat
    BY <1>1, <2>1 DEF Chain
  <2> QED
    BY <2>2
<1>3. h[0] = a
  BY <1>1 DEF Chain
<1>4. ASSUME NEW n \in Nat PROVE h[n + 1] = F[n + 1][h[n]]
  <2>1. n + 1 \in Nat /\ n \in 0 .. (n + 1) - 1 /\ n <= n + 1
    OBVIOUS
  <2>2. c(n + 1)[n + 1] = F[n + 1][c(n + 1)[n]]
    BY <1>1, <2>1 DEF Chain
  <2>3. c(n)[n] = c(n + 1)[n]
    BY <1>1, <2>1, ChainsAgree
  <2> QED
    BY <2>1, <2>2, <2>3
<1>5. h = Iterated(a, F)
  BY DEF Iterated, c
<1> HIDE DEF h
<1> QED
  BY <1>2, <1>3, <1>4, <1>5

-----------------------------------------------------------------------------
(* Weights *)

LEMMA PowersExist ==
    \E f \in [Nat -> Nat] : f[0] = 1 /\ \A n \in Nat : f[n + 1] = 2 * f[n]
<1>1. PICK F : \A n \in Nat : \A x \in Nat : F[n][x] = 2 * x
  <2>1. \A n \in Nat : \A x \in Nat :
            [k \in Nat |-> [y \in Nat |-> 2 * y]][n][x] = 2 * x
    OBVIOUS
  <2> QED
    BY <2>1
<1>2. 1 \in Nat /\ \A n \in Nat : \A x \in Nat : F[n][x] \in Nat
  BY <1>1
<1>3. PICK f : f = Iterated(1, F)
  OBVIOUS
<1>4. f \in [Nat -> Nat] /\ f[0] = 1 /\ \A n \in Nat : f[n + 1] = F[n + 1][f[n]]
  BY <1>2, <1>3, Recursion
<1>5. \A n \in Nat : n + 1 \in Nat /\ f[n] \in Nat
  BY <1>4
<1>6. \A n \in Nat : f[n + 1] = 2 * f[n]
  BY <1>1, <1>4, <1>5
<1> QED
  BY <1>4, <1>6

LEMMA Doubling ==
    /\ TwoTo \in [Nat -> Nat] /\ TwoTo[0] = 1
    /\ \A n \in Nat : TwoTo[n + 1] = 2 * TwoTo[n]
<1> DEFINE Is(g) == g = [n \in Nat |-> IF n = 0 THEN 1 ELSE 2 * g[n - 1]]
<1>1. PICK f \in [Nat -> Nat] : f[0] = 1 /\ \A n \in Nat : f[n + 1] = 2 * f[n]
  BY PowersExist
<1>2. Is(f)
  <2>1. ASSUME NEW n \in Nat PROVE f[n] = IF n = 0 THEN 1 ELSE 2 * f[n - 1]
    <3>1. CASE n = 0
      BY <1>1, <3>1
    <3>2. CASE n # 0
      <4>1. n - 1 \in Nat /\ (n - 1) + 1 = n
        BY <3>2
      <4> QED
        BY <1>1, <3>2, <4>1
    <3> QED
      BY <3>1, <3>2
  <2>2. f = [n \in Nat |-> f[n]]
    BY <1>1
  <2> QED
    BY <2>1, <2>2
<1>3. Is(TwoTo)
  <2>1. TwoTo = CHOOSE g : Is(g)
    BY DEF TwoTo
  <2> HIDE DEF Is
  <2> QED
    BY <1>2, <2>1
<1>4. TwoTo[0] = 1 /\ \A n \in Nat : TwoTo[n + 1] = 2 * TwoTo[n]
  <2>1. \A n \in Nat : n + 1 \in Nat /\ n + 1 # 0 /\ (n + 1) - 1 = n
    OBVIOUS
  <2> QED
    BY <1>3, <2>1
<1>5. TwoTo = [n \in Nat |-> TwoTo[n]]
  BY <1>3
<1> DEFINE S == {n \in Nat : TwoTo[n] \in Nat}
<1>6. 0 \in S /\ \A n \in Nat : n \in S => n + 1 \in S
  BY <1>4
<1> HIDE DEF S
<1>7. \A n \in Nat : n \in S
  BY <1>6, AllNumbers
<1>8. \A n \in Nat : TwoTo[n] \in Nat
  BY <1>7 DEF S
<1> QED
  BY <1>4, <1>5, <1>8

\* A greater exponent gives a greater weight, and none gives zero.
LEMMA TwoToGrows ==
    ASSUME NEW n \in Nat, NEW m \in Nat
    PROVE  /\ TwoTo[n] \in Nat \ {0}
           /\ n < m => TwoTo[n] < TwoTo[m]
<1> DEFINE S == {k \in Nat : TwoTo[k] > 0}
           D == {k \in Nat : TwoTo[n] < TwoTo[n + (k + 1)]}
<1>0. \A k \in Nat : TwoTo[k] \in Nat
  BY Doubling
<1>1. \A k \in Nat : k \in S
  <2>1. 0 \in S /\ \A k \in Nat : k \in S => k + 1 \in S
    BY <1>0, Doubling
  <2> HIDE DEF S
  <2> QED
    BY <2>1, AllNumbers
<1>2. \A k \in Nat : TwoTo[k] > 0
  BY <1>1
<1> HIDE DEF S
<1>3. 0 \in D
  <2>1. TwoTo[n + 1] = 2 * TwoTo[n] /\ TwoTo[n] > 0 /\ TwoTo[n] \in Nat /\ 0 + 1 = 1
    BY <1>0, <1>2, Doubling
  <2> QED
    BY <2>1
<1>4. ASSUME NEW k \in Nat, k \in D PROVE k + 1 \in D
  <2>1. /\ n + (k + 1) \in Nat /\ n + ((k + 1) + 1) = (n + (k + 1)) + 1
        /\ TwoTo[n] < TwoTo[n + (k + 1)]
    BY <1>4
  <2>2. TwoTo[n + ((k + 1) + 1)] = 2 * TwoTo[n + (k + 1)]
    BY <2>1, Doubling
  <2>3. TwoTo[n] \in Nat /\ TwoTo[n + (k + 1)] \in Nat
    BY <1>0, <2>1
  <2> QED
    BY <2>1, <2>2, <2>3
<1> HIDE DEF D
<1>5. \A k \in Nat : k \in D
  BY <1>3, <1>4, AllNumbers
<1>6. ASSUME n < m PROVE TwoTo[n] < TwoTo[m]
  <2>1. (m - n) - 1 \in Nat /\ n + (((m - n) - 1) + 1) = m
    BY <1>6
  <2> QED
    BY <1>5, <2>1 DEF D
<1> QED
  BY <1>0, <1>2, <1>6

\* Division by a temperature keeps logits apart.
LEMMA Cooled ==
    ASSUME NEW x \in Nat, NEW y \in Nat, NEW h \in 1 .. 2 * One
    PROVE  /\ (2 * One * x) \div h \in Nat
           /\ x < y => (2 * One * x) \div h < (2 * One * y) \div h
<1>1. h \in {1, 2, 3, 4, 5, 6, 7, 8, 9, 10, 11, 12, 13, 14, 15, 16, 17, 18, 19, 20, 21, 22, 23, 24}
  BY DEF One
<1> QED
  BY <1>1 DEF One

LEMMA Weights ==
    ASSUME NEW l \in LogitVectors, NEW h \in 1 .. 2 * One
    PROVE  /\ Heated(l, h) \in [Vocab -> Nat \ {0}]
           /\ \A t, u \in Vocab : l[t] < l[u] => Heated(l, h)[t] < Heated(l, h)[u]
<1>1. \A t \in Vocab : l[t] \in Nat
  BY SamplingAssumption
<1>2. \A t, u \in Vocab : /\ (2 * One * l[t]) \div h \in Nat
                          /\ l[t] < l[u] => (2 * One * l[t]) \div h < (2 * One * l[u]) \div h
  BY <1>1, Cooled
<1>3. \A t, u \in Vocab :
        /\ TwoTo[(2 * One * l[t]) \div h] \in Nat \ {0}
        /\ l[t] < l[u] => TwoTo[(2 * One * l[t]) \div h] < TwoTo[(2 * One * l[u]) \div h]
  BY <1>2, TwoToGrows
<1> QED
  BY <1>3 DEF Heated

-----------------------------------------------------------------------------
(* Mass *)

\* What token n adds to the mass of S.
Share(w, S, n) == IF n \in S THEN w[n] ELSE 0

\* f is the mass of the tokens of S up to each number.
Sums(w, S, f) ==
    /\ f \in [Nat -> Nat] /\ f[0] = 0
    /\ \A n \in Nat : f[n + 1] = f[n] + Share(w, S, n + 1)

LEMMA ShareType ==
    ASSUME NEW w \in [Vocab -> Nat], NEW S \in SUBSET Vocab, NEW n
    PROVE  Share(w, S, n) \in Nat
BY DEF Share

LEMMA SumsExist ==
    ASSUME NEW w \in [Vocab -> Nat], NEW S \in SUBSET Vocab
    PROVE  \E f : Sums(w, S, f)
<1>1. PICK F : \A n \in Nat : \A x \in Nat : F[n][x] = x + Share(w, S, n)
  <2>1. \A n \in Nat : \A x \in Nat :
            [k \in Nat |-> [y \in Nat |-> y + Share(w, S, k)]][n][x] = x + Share(w, S, n)
    OBVIOUS
  <2> QED
    BY <2>1
<1>2. 0 \in Nat /\ \A n \in Nat : \A x \in Nat : F[n][x] \in Nat
  BY <1>1, ShareType
<1>3. PICK f : f = Iterated(0, F)
  OBVIOUS
<1>4. f \in [Nat -> Nat] /\ f[0] = 0 /\ \A n \in Nat : f[n + 1] = F[n + 1][f[n]]
  BY <1>2, <1>3, Recursion
<1>5. \A n \in Nat : n + 1 \in Nat /\ f[n] \in Nat
  BY <1>4
<1>6. \A n \in Nat : f[n + 1] = f[n] + Share(w, S, n + 1)
  BY <1>1, <1>4, <1>5
<1> QED
  BY <1>4, <1>6 DEF Sums

LEMMA MassSums ==
    ASSUME NEW w \in [Vocab -> Nat], NEW S \in SUBSET Vocab
    PROVE  \E f : Sums(w, S, f) /\ Mass(w, S) = f[NumTokens]
<1> DEFINE Is(g) == g = [n \in Nat |->
                            IF n = 0 THEN 0 ELSE g[n - 1] + (IF n \in S THEN w[n] ELSE 0)]
<1>1. PICK f : Sums(w, S, f)
  BY SumsExist
<1>2. Is(f)
  <2>0. f = [n \in Nat |-> f[n]] /\ f[0] = 0
    BY <1>1 DEF Sums
  <2>1. ASSUME NEW n \in Nat
        PROVE  f[n] = IF n = 0 THEN 0 ELSE f[n - 1] + (IF n \in S THEN w[n] ELSE 0)
    <3>1. CASE n = 0
      BY <2>0, <3>1
    <3>2. CASE n # 0
      <4>1. n - 1 \in Nat /\ (n - 1) + 1 = n
        BY <3>2
      <4>2. f[n] = f[n - 1] + Share(w, S, n)
        BY <1>1, <4>1 DEF Sums
      <4> QED
        BY <3>2, <4>2 DEF Share
    <3> QED
      BY <3>1, <3>2
  <2> QED
    BY <2>0, <2>1
<1>3. PICK g : g = CHOOSE h : Is(h)
  OBVIOUS
<1>4. Mass(w, S) = g[NumTokens]
  BY <1>3 DEF Mass
<1>5. Is(g)
  <2> HIDE DEF Is
  <2> QED
    BY <1>2, <1>3
<1>6. /\ g[0] = 0
      /\ \A n \in Nat : g[n + 1] = g[n] + Share(w, S, n + 1)
  <2>1. \A n \in Nat : n + 1 \in Nat /\ n + 1 # 0 /\ (n + 1) - 1 = n
    OBVIOUS
  <2> QED
    BY <1>5, <2>1 DEF Share
<1> HIDE DEF Is
<1> DEFINE N == {n \in Nat : g[n] = f[n]}
<1>7. 0 \in N /\ \A n \in Nat : n \in N => n + 1 \in N
  BY <1>1, <1>6 DEF Sums
<1> HIDE DEF N
<1>8. NumTokens \in N
  BY <1>7, AllNumbers, SamplingAssumption
<1> QED
  BY <1>1, <1>4, <1>8 DEF N

\* Less on every token is less in all.
LEMMA MassBelow ==
    ASSUME NEW w \in [Vocab -> Nat], NEW S \in SUBSET Vocab,
           NEW v \in [Vocab -> Nat], NEW T \in SUBSET Vocab,
           \A t \in Vocab : Share(w, S, t) <= Share(v, T, t)
    PROVE  /\ Mass(w, S) \in Nat /\ Mass(v, T) \in Nat
           /\ Mass(w, S) <= Mass(v, T)
<1>1. PICK f : Sums(w, S, f) /\ Mass(w, S) = f[NumTokens]
  BY MassSums
<1>2. PICK g : Sums(v, T, g) /\ Mass(v, T) = g[NumTokens]
  BY MassSums
<1> DEFINE N == {n \in Nat : n <= NumTokens => f[n] <= g[n]}
<1>3. 0 \in N
  BY <1>1, <1>2 DEF Sums
<1>4. ASSUME NEW n \in Nat, n \in N PROVE n + 1 \in N
  <2> SUFFICES ASSUME n + 1 <= NumTokens PROVE f[n + 1] <= g[n + 1]
    OBVIOUS
  <2>1. n + 1 \in Vocab /\ f[n] <= g[n]
    BY <1>4, SamplingAssumption DEF Vocab
  <2>2. /\ f[n] \in Nat /\ g[n] \in Nat
        /\ f[n + 1] = f[n] + Share(w, S, n + 1)
        /\ g[n + 1] = g[n] + Share(v, T, n + 1)
    BY <1>1, <1>2 DEF Sums
  <2>3. /\ Share(w, S, n + 1) \in Nat /\ Share(v, T, n + 1) \in Nat
        /\ Share(w, S, n + 1) <= Share(v, T, n + 1)
    BY <2>1, ShareType
  <2> QED
    BY <2>1, <2>2, <2>3
<1> HIDE DEF N
<1>5. NumTokens \in N /\ NumTokens \in Nat
  BY <1>3, <1>4, AllNumbers, SamplingAssumption
<1>6. f[NumTokens] <= g[NumTokens]
  BY <1>5 DEF N
<1> QED
  BY <1>1, <1>2, <1>5, <1>6 DEF Sums

LEMMA MassSame ==
    ASSUME NEW w \in [Vocab -> Nat], NEW S \in SUBSET Vocab,
           NEW v \in [Vocab -> Nat], NEW T \in SUBSET Vocab,
           \A t \in Vocab : Share(w, S, t) = Share(v, T, t)
    PROVE  Mass(w, S) = Mass(v, T)
<1>1. \A t \in Vocab : /\ Share(w, S, t) \in Nat /\ Share(v, T, t) \in Nat
                       /\ Share(w, S, t) <= Share(v, T, t)
                       /\ Share(v, T, t) <= Share(w, S, t)
  BY ShareType
<1> QED
  BY <1>1, MassBelow

LEMMA MassGrows ==
    ASSUME NEW w \in [Vocab -> Nat], NEW S \in SUBSET Vocab, NEW T \in SUBSET Vocab,
           S \subseteq T
    PROVE  /\ Mass(w, S) \in Nat /\ Mass(w, T) \in Nat
           /\ Mass(w, S) <= Mass(w, T)
<1>1. \A t \in Vocab : Share(w, S, t) <= Share(w, T, t)
  BY DEF Share
<1> QED
  BY <1>1, MassBelow

LEMMA NoMass ==
    ASSUME NEW w \in [Vocab -> Nat] PROVE Mass(w, {}) = 0
<1>1. PICK f : Sums(w, {}, f) /\ Mass(w, {}) = f[NumTokens]
  BY MassSums
<1> DEFINE N == {n \in Nat : f[n] = 0}
<1>2. 0 \in N /\ \A n \in Nat : n \in N => n + 1 \in N
  BY <1>1 DEF Sums, Share
<1> HIDE DEF N
<1>3. NumTokens \in N
  BY <1>2, AllNumbers, SamplingAssumption
<1> QED
  BY <1>1, <1>3 DEF N

\* A token that has weight gives it to every set that has the token.
LEMMA SomeMass ==
    ASSUME NEW w \in [Vocab -> Nat], NEW S \in SUBSET Vocab, NEW t \in S, w[t] > 0
    PROVE  Mass(w, S) \in Nat /\ Mass(w, S) > 0
<1>1. PICK f : Sums(w, S, f) /\ Mass(w, S) = f[NumTokens]
  BY MassSums
<1>0. /\ t \in Nat /\ t >= 1 /\ t <= NumTokens /\ NumTokens \in Nat
      /\ t \in Vocab /\ w[t] \in Nat
      /\ \A n : Share(w, S, n) \in Nat
      /\ \A n \in Nat : f[n] \in Nat /\ f[n + 1] = f[n] + Share(w, S, n + 1)
  <2>1. t \in Vocab /\ NumTokens \in Nat
    BY SamplingAssumption
  <2>2. t \in Nat /\ t >= 1 /\ t <= NumTokens /\ w[t] \in Nat
    BY <2>1 DEF Vocab
  <2>3. \A n : Share(w, S, n) \in Nat
    BY ShareType
  <2>4. \A n \in Nat : f[n] \in Nat /\ f[n + 1] = f[n] + Share(w, S, n + 1)
    BY <1>1 DEF Sums
  <2> QED
    BY <2>1, <2>2, <2>3, <2>4
<1> DEFINE N == {n \in Nat : n >= t => f[n] > 0}
<1>2. 0 \in N
  BY <1>0
<1>3. ASSUME NEW n \in Nat, n \in N PROVE n + 1 \in N
  <2>1. CASE n + 1 = t
    <3>1. Share(w, S, n + 1) = w[t]
      BY <2>1 DEF Share
    <3>2. f[n + 1] = f[n] + w[t] /\ f[n] \in Nat /\ w[t] \in Nat /\ w[t] > 0
      BY <1>0, <3>1
    <3> QED
      BY <3>2
  <2>2. CASE n + 1 # t
    <3>1. n + 1 >= t => f[n] > 0
      BY <1>0, <1>3, <2>2
    <3>2. f[n + 1] = f[n] + Share(w, S, n + 1) /\ f[n] \in Nat /\ Share(w, S, n + 1) \in Nat
      BY <1>0
    <3> QED
      BY <3>1, <3>2
  <2> QED
    BY <2>1, <2>2
<1> HIDE DEF N
<1>4. NumTokens \in N
  BY <1>0, <1>2, <1>3, AllNumbers
<1> QED
  BY <1>0, <1>1, <1>4 DEF N

-----------------------------------------------------------------------------
(* top_k *)

Above(w, x) == {u \in Vocab : w[u] > x}
AtLeast(w, x) == {u \in Vocab : w[u] >= x}

\* The tokens that fewer than k tokens outweigh, or all of them.
Pool(w, k) == {t \in Vocab : k = 0 \/ Cardinality({u \in Vocab : w[u] > w[t]}) < k}

LEMMA VocabFacts ==
    /\ IsFiniteSet(Vocab) /\ Cardinality(Vocab) = NumTokens
    /\ NumTokens \in Nat /\ NumTokens >= 1 /\ 1 \in Vocab
    /\ \A S \in SUBSET Vocab : /\ IsFiniteSet(S) /\ Cardinality(S) \in Nat
                               /\ Cardinality(S) <= NumTokens
                               /\ Cardinality(S) = 0 => S = {}
<1>1. NumTokens \in Nat /\ NumTokens >= 1
  BY SamplingAssumption
<1>2. IsFiniteSet(Vocab) /\ Cardinality(Vocab) = NumTokens
  <2>1. 1 \in Int /\ NumTokens \in Int /\ ~(1 > NumTokens) /\ NumTokens - 1 + 1 = NumTokens
    BY <1>1
  <2> QED
    BY <2>1, FS_Interval DEF Vocab
<1>3. 1 \in Vocab
  BY <1>1 DEF Vocab
<1> QED
  BY <1>1, <1>2, <1>3, FS_Subset, FS_CardinalityType, FS_EmptySet

LEMMA FewerTokens ==
    ASSUME NEW T \in SUBSET Vocab, NEW S \in SUBSET T
    PROVE  /\ Cardinality(S) \in Nat /\ Cardinality(T) \in Nat
           /\ Cardinality(S) <= Cardinality(T)
           /\ S # T => Cardinality(S) < Cardinality(T)
<1>1. IsFiniteSet(T) /\ Cardinality(S) \in Nat /\ Cardinality(T) \in Nat
  BY VocabFacts
<1>2. Cardinality(S) <= Cardinality(T) /\ (Cardinality(T) = Cardinality(S) => T = S)
  BY <1>1, FS_Subset
<1> QED
  BY <1>1, <1>2

\* In every set of tokens there is a lightest one.
LEMMA Lightest ==
    ASSUME NEW w \in [Vocab -> Nat], NEW T \in SUBSET Vocab, T # {}
    PROVE  \E t \in T : \A u \in T : w[t] <= w[u]
<1>1. PICK W \in SUBSET Nat : W = {w[t] : t \in T}
  OBVIOUS
<1>2. W # {}
  BY <1>1
<1>3. PICK x \in W : \A y \in W : x <= y
  BY <1>2, LeastNumber
<1> QED
  BY <1>1, <1>3

\* There is a k-th greatest weight.
LEMMA KthExists ==
    ASSUME NEW w \in [Vocab -> Nat], NEW k \in 1 .. NumTokens
    PROVE  \E x \in {w[t] : t \in Vocab} :
              /\ Cardinality(Above(w, x)) < k
              /\ k <= Cardinality(AtLeast(w, x))
<1>0. \A x : Above(w, x) \in SUBSET Vocab /\ AtLeast(w, x) \in SUBSET Vocab
  BY DEF Above, AtLeast
<1>1. PICK Enough \in SUBSET Vocab :
        Enough = {t \in Vocab : k <= Cardinality(AtLeast(w, w[t]))}
  OBVIOUS
<1>2. Enough # {}
  <2>1. PICK t \in Vocab : \A u \in Vocab : w[t] <= w[u]
    BY Lightest, VocabFacts
  <2>2. AtLeast(w, w[t]) = Vocab
    BY <2>1 DEF AtLeast
  <2> QED
    BY <1>1, <2>2, VocabFacts
<1>3. PICK Counts \in SUBSET Nat : Counts = {Cardinality(AtLeast(w, w[t])) : t \in Enough}
  <2>1. \A t \in Enough : Cardinality(AtLeast(w, w[t])) \in Nat
    BY <1>0, VocabFacts
  <2> QED
    BY <2>1
<1>4. PICK t \in Enough :
        \A u \in Enough : Cardinality(AtLeast(w, w[t])) <= Cardinality(AtLeast(w, w[u]))
  <2>1. Counts # {}
    BY <1>2, <1>3
  <2>2. PICK x \in Counts : \A y \in Counts : x <= y
    BY <2>1, LeastNumber
  <2> QED
    BY <1>3, <2>2
<1>5. ASSUME k <= Cardinality(Above(w, w[t])) PROVE FALSE
  <2>1. Above(w, w[t]) # {}
    BY <1>5, FS_EmptySet
  <2>2. PICK u \in Above(w, w[t]) : \A v \in Above(w, w[t]) : w[u] <= w[v]
    BY <1>0, <2>1, Lightest
  <2>3. u \in Vocab /\ w[u] > w[t] /\ t \in Vocab /\ \A v \in Vocab : w[v] \in Nat
    BY <2>2 DEF Above
  <2>4. AtLeast(w, w[u]) = Above(w, w[t])
    BY <2>2, <2>3 DEF Above, AtLeast
  <2>5. Above(w, w[t]) \in SUBSET AtLeast(w, w[t]) /\ Above(w, w[t]) # AtLeast(w, w[t])
    BY <2>3 DEF Above, AtLeast
  <2>6. Cardinality(Above(w, w[t])) < Cardinality(AtLeast(w, w[t]))
    BY <1>0, <2>5, FewerTokens
  <2>7. u \in Enough
    BY <1>1, <1>5, <2>3, <2>4
  <2>8. Cardinality(AtLeast(w, w[t])) <= Cardinality(Above(w, w[t]))
    BY <1>4, <2>4, <2>7
  <2>9. /\ Cardinality(Above(w, w[t])) \in Nat /\ Cardinality(AtLeast(w, w[t])) \in Nat
    BY <1>0, VocabFacts
  <2> QED
    BY <2>6, <2>8, <2>9
<1>6. Cardinality(Above(w, w[t])) \in Nat /\ t \in Vocab
  BY <1>0, VocabFacts
<1>7. Cardinality(Above(w, w[t])) < k
  BY <1>5, <1>6
<1> QED
  BY <1>1, <1>6, <1>7

\* What top_k leaves: the pool with its weights, and there is some.
LEMMA TopKLeavesPool ==
    ASSUME NEW w \in [Vocab -> Nat \ {0}], NEW k \in Nat
    PROVE  /\ TopK(w, k) = [t \in Vocab |-> IF t \in Pool(w, k) THEN w[t] ELSE 0]
           /\ Pool(w, k) # {}
<1>1. CASE k = 0
  <2>1. Pool(w, k) = Vocab
    BY <1>1 DEF Pool
  <2>2. w = [t \in Vocab |-> w[t]]
    OBVIOUS
  <2> QED
    BY <1>1, <2>1, <2>2, VocabFacts DEF TopK
<1>2. CASE k # 0
  <2> DEFINE m == Low(k, NumTokens)
  <2>0. m \in 1 .. NumTokens /\ (m = k \/ m = NumTokens) /\ m <= k
    BY <1>2, VocabFacts DEF Low
  <2>1. \A x : Above(w, x) = {t \in Vocab : w[t] > x} /\ AtLeast(w, x) = {t \in Vocab : w[t] >= x}
    BY DEF Above, AtLeast
  <2>2. PICK kth : kth = CHOOSE x \in {w[t] : t \in Vocab} :
            Cardinality(Above(w, x)) < m /\ m <= Cardinality(AtLeast(w, x))
    OBVIOUS
  <2>3. TopK(w, k) = [t \in Vocab |-> IF w[t] < kth THEN 0 ELSE w[t]]
    BY <1>2, <2>2 DEF TopK, Above, AtLeast
  <2> HIDE DEF m
  <2>4. /\ kth \in {w[t] : t \in Vocab}
        /\ Cardinality(Above(w, kth)) < m /\ m <= Cardinality(AtLeast(w, kth))
    <3>1. w \in [Vocab -> Nat]
      OBVIOUS
    <3>2. \E x \in {w[t] : t \in Vocab} :
            Cardinality(Above(w, x)) < m /\ m <= Cardinality(AtLeast(w, x))
      BY <2>0, <3>1, KthExists
    <3> QED
      BY <2>2, <3>2
  <2>5. PICK t0 \in Vocab : kth = w[t0]
    BY <2>4
  <2>6. kth \in Nat /\ \A t \in Vocab : w[t] \in Nat
    BY <2>5
  <2>7. /\ Above(w, kth) \in SUBSET Vocab /\ AtLeast(w, kth) \in SUBSET Vocab
        /\ Cardinality(Above(w, kth)) \in Nat /\ Cardinality(AtLeast(w, kth)) \in Nat
        /\ Cardinality(AtLeast(w, kth)) <= NumTokens
        /\ m \in Nat /\ k \in Nat /\ NumTokens \in Nat
    BY <2>0, VocabFacts DEF Above, AtLeast
  <2>8. ASSUME NEW t \in Vocab PROVE t \in Pool(w, k) <=> ~(w[t] < kth)
    <3>0. /\ Above(w, w[t]) \in SUBSET Vocab /\ Cardinality(Above(w, w[t])) \in Nat
          /\ Above(w, w[t]) = {u \in Vocab : w[u] > w[t]}
      BY VocabFacts DEF Above
    <3>1. t \in Pool(w, k) <=> Cardinality(Above(w, w[t])) < k
      BY <1>2, <3>0 DEF Pool
    <3>2. CASE w[t] < kth
      <4>1. AtLeast(w, kth) \in SUBSET Above(w, w[t])
        BY <2>6, <3>2 DEF Above, AtLeast
      <4>2. Cardinality(AtLeast(w, kth)) <= Cardinality(Above(w, w[t]))
        BY <3>0, <4>1, FewerTokens
      <4>3. CASE m = k
        BY <2>4, <2>7, <3>0, <3>1, <3>2, <4>2, <4>3
      <4>4. CASE m = NumTokens
        <5>1. Cardinality(AtLeast(w, kth)) = Cardinality(Vocab)
          BY <2>4, <2>7, <4>4, VocabFacts
        <5>2. AtLeast(w, kth) = Vocab
          BY <2>7, <5>1, VocabFacts, FS_Subset
        <5> QED
          BY <2>6, <3>2, <5>2 DEF AtLeast
      <4> QED
        BY <2>0, <4>3, <4>4
    <3>3. CASE ~(w[t] < kth)
      <4>1. Above(w, w[t]) \in SUBSET Above(w, kth)
        BY <2>6, <3>3 DEF Above
      <4>2. Cardinality(Above(w, w[t])) <= Cardinality(Above(w, kth))
        BY <2>7, <4>1, FewerTokens
      <4> QED
        BY <2>0, <2>4, <2>7, <3>0, <3>1, <3>3, <4>2
    <3> QED
      BY <3>2, <3>3
  <2>9. t0 \in Pool(w, k)
    BY <2>5, <2>6, <2>8
  <2>10. [t \in Vocab |-> IF w[t] < kth THEN 0 ELSE w[t]] =
            [t \in Vocab |-> IF t \in Pool(w, k) THEN w[t] ELSE 0]
    BY <2>8
  <2> QED
    BY <2>3, <2>9, <2>10
<1> QED
  BY <1>1, <1>2

-----------------------------------------------------------------------------
(* top_p *)

\* An order of the tokens has every token at one place.
LEMMA OrderFacts ==
    ASSUME NEW v \in [Vocab -> Nat], NEW o \in Orders(v)
    PROVE  /\ o \in [Vocab -> Vocab]
           /\ \A i, j \in Vocab : o[i] = o[j] => i = j
           /\ \A t \in Vocab : \E i \in Vocab : o[i] = t
           /\ \A i, j \in Vocab : i <= j => v[o[j]] <= v[o[i]]
<1>1. /\ o \in [Vocab -> Vocab]
      /\ \A i, j \in Vocab : i < j => o[i] # o[j] /\ v[o[i]] >= v[o[j]]
  BY DEF Orders
<1>2. \A i \in Vocab : i \in Nat /\ v[o[i]] \in Nat
  BY <1>1 DEF Vocab
<1>3. \A i, j \in Vocab : o[i] = o[j] => i = j
  <2> SUFFICES ASSUME NEW i \in Vocab, NEW j \in Vocab, i # j PROVE o[i] # o[j]
    OBVIOUS
  <2>1. i < j \/ j < i
    BY <1>2
  <2> QED
    BY <1>1, <2>1
<1>4. o \in Surjection(Vocab, Vocab)
  <2>1. o \in Injection(Vocab, Vocab)
    BY <1>1, <1>3 DEF Injection, IsInjective
  <2> QED
    BY <2>1, FS_Injection, VocabFacts
<1>5. \A t \in Vocab : \E i \in Vocab : o[i] = t
  BY <1>4 DEF Surjection
<1>6. ASSUME NEW i \in Vocab, NEW j \in Vocab, i <= j PROVE v[o[j]] <= v[o[i]]
  <2>1. i < j \/ i = j
    BY <1>2, <1>6
  <2> QED
    BY <1>1, <1>2, <2>1
<1> QED
  BY <1>1, <1>3, <1>5, <1>6

\* The first n tokens of an order.
First(o, n) == {o[i] : i \in 1 .. n}

LEMMA FirstFacts ==
    ASSUME NEW v \in [Vocab -> Nat], NEW o \in Orders(v), NEW n \in 0 .. NumTokens
    PROVE  /\ First(o, n) \in SUBSET Vocab
           /\ \A k \in 0 .. n : First(o, k) \subseteq First(o, n)
           /\ \A i \in Vocab : o[i] \in First(o, n) <=> i <= n
<1>1. \A i \in 1 .. n : i \in Vocab
  BY VocabFacts DEF Vocab
<1>2. \A i \in Vocab : i <= n => i \in 1 .. n
  BY DEF Vocab
<1>3. \A k \in 0 .. n : \A i \in 1 .. k : i \in 1 .. n
  OBVIOUS
<1> QED
  BY <1>1, <1>2, <1>3, OrderFacts DEF First

LEMMA PartsOfOne ==
    ASSUME NEW p \in 1 .. One, NEW x \in Nat
    PROVE  p * x \in Nat /\ p * x <= One * x /\ (p < One /\ x > 0 => p * x < One * x)
<1>1. p \in {1, 2, 3, 4, 5, 6, 7, 8, 9, 10, 11, 12}
  BY DEF One
<1> QED
  BY <1>1 DEF One

\* Below 1, top_p keeps the first tokens of the order, up to the one with
\* which their mass passes it.
LEMMA NucleusIsFirst ==
    ASSUME NEW v \in [Vocab -> Nat], NEW o \in Orders(v), NEW p \in 1 .. One, p < One
    PROVE  \E m \in Vocab :
              /\ TopP(v, p, o) = First(o, m)
              /\ One * Mass(v, First(o, m - 1)) <= p * Mass(v, Vocab)
              /\ m = NumTokens \/ One * Mass(v, First(o, m)) > p * Mass(v, Vocab)
<1> USE DEF One
<1>0. /\ \A n \in Vocab : n \in 0 .. NumTokens /\ n - 1 \in 0 .. NumTokens
                           /\ n \in Nat /\ n >= 1 /\ n <= NumTokens
      /\ NumTokens \in Vocab /\ NumTokens \in Nat
  BY VocabFacts DEF Vocab
<1>1. PICK mass \in [0 .. NumTokens -> Nat] :
        \A n \in 0 .. NumTokens : mass[n] = Mass(v, First(o, n))
  <2>1. \A n \in 0 .. NumTokens : Mass(v, First(o, n)) \in Nat
    BY FirstFacts, MassGrows
  <2>2. [n \in 0 .. NumTokens |-> Mass(v, First(o, n))] \in [0 .. NumTokens -> Nat]
    BY <2>1
  <2> QED
    BY <2>2
<1>2. \A n \in 0 .. NumTokens : \A k \in 0 .. n : mass[k] <= mass[n]
  <2> SUFFICES ASSUME NEW n \in 0 .. NumTokens, NEW k \in 0 .. n PROVE mass[k] <= mass[n]
    OBVIOUS
  <2>1. k \in 0 .. NumTokens
    BY <1>0
  <2>2. /\ First(o, n) \in SUBSET Vocab /\ First(o, k) \in SUBSET Vocab
        /\ First(o, k) \subseteq First(o, n)
    BY <2>1, FirstFacts
  <2> QED
    BY <1>1, <2>1, <2>2, MassGrows
<1>3. PICK goal \in Nat : goal = p * Mass(v, Vocab)
  <2>1. Mass(v, Vocab) \in Nat
    BY MassGrows
  <2> QED
    BY <2>1, PartsOfOne
<1>4. mass[0] = 0
  <2>1. First(o, 0) = {} /\ 0 \in 0 .. NumTokens
    BY <1>0 DEF First
  <2> QED
    BY <1>1, <2>1, NoMass
<1>5. \A n \in Vocab : mass[n - 1] = Mass(v, First(o, n - 1)) /\ mass[n - 1] \in Nat
  BY <1>0, <1>1
<1>6. ASSUME NEW m \in Vocab, One * mass[m - 1] <= goal, m = NumTokens \/ One * mass[m] > goal
      PROVE  TopP(v, p, o) = First(o, m)
  <2>1. TopP(v, p, o) = {o[i] : i \in {n \in Vocab : One * mass[n - 1] <= goal}}
    <3>1. TopP(v, p, o) = {o[i] : i \in {n \in Vocab :
                              One * Mass(v, First(o, n - 1)) <= p * Mass(v, Vocab)}}
      <4>1. p # One
        OBVIOUS
      <4>2. \A n : First(o, n) = {o[i] : i \in 1 .. n}
        BY DEF First
      <4> QED
        BY <4>1, <4>2 DEF TopP
    <3>2. \A n \in Vocab : One * Mass(v, First(o, n - 1)) <= p * Mass(v, Vocab)
                              <=> One * mass[n - 1] <= goal
      BY <1>3, <1>5
    <3> QED
      BY <3>1, <3>2
  <2>2. ASSUME NEW n \in Vocab PROVE One * mass[n - 1] <= goal <=> n \in 1 .. m
    <3>1. CASE n <= m
      <4>1. n - 1 \in 0 .. m - 1 /\ m - 1 \in 0 .. NumTokens /\ n \in 1 .. m
        BY <1>0, <3>1
      <4>2. mass[n - 1] <= mass[m - 1] /\ mass[n - 1] \in Nat /\ mass[m - 1] \in Nat
        BY <1>2, <1>5, <4>1
      <4> QED
        BY <1>6, <4>1, <4>2
    <3>2. CASE ~(n <= m)
      <4>1. /\ m # NumTokens /\ m \in 0 .. n - 1 /\ n - 1 \in 0 .. NumTokens
            /\ m \in 0 .. NumTokens /\ ~(n \in 1 .. m)
        BY <1>0, <3>2
      <4>2. mass[m] <= mass[n - 1] /\ mass[n - 1] \in Nat /\ mass[m] \in Nat
        BY <1>1, <1>2, <4>1
      <4> QED
        BY <1>6, <4>1, <4>2
    <3> QED
      BY <3>1, <3>2
  <2>3. \A n \in 1 .. m : n \in Vocab
    BY <1>0 DEF Vocab
  <2>4. {n \in Vocab : One * mass[n - 1] <= goal} = 1 .. m
    BY <2>2, <2>3
  <2> QED
    BY <2>1, <2>4 DEF First
<1>7. \E m \in Vocab : One * mass[m - 1] <= goal /\ (m = NumTokens \/ One * mass[m] > goal)
  <2>1. PICK Past \in SUBSET Nat : Past = {n \in Vocab : ~(One * mass[n - 1] <= goal)}
    BY <1>0
  <2>2. CASE Past = {}
    BY <1>0, <2>1, <2>2
  <2>3. CASE Past # {}
    <3>1. PICK n \in Past : \A k \in Past : n <= k
      BY <2>3, LeastNumber
    <3>2. n \in Vocab /\ ~(One * mass[n - 1] <= goal) /\ n \in Nat /\ mass[n - 1] \in Nat
      BY <1>0, <1>5, <2>1, <3>1
    <3>3. n # 1
      <4>1. n = 1 => mass[n - 1] = 0
        BY <1>4
      <4> QED
        BY <3>2, <4>1
    <3>4. n - 1 \in Vocab /\ ~(n <= n - 1)
      BY <1>0, <3>2, <3>3 DEF Vocab
    <3>5. One * mass[(n - 1) - 1] <= goal
      BY <2>1, <3>1, <3>4
    <3>6. One * mass[n - 1] > goal
      BY <3>2
    <3> QED
      BY <3>4, <3>5, <3>6
  <2> QED
    BY <2>2, <2>3
<1>8. PICK m \in Vocab : One * mass[m - 1] <= goal /\ (m = NumTokens \/ One * mass[m] > goal)
  BY <1>7
<1>9. mass[m] = Mass(v, First(o, m)) /\ mass[m - 1] = Mass(v, First(o, m - 1))
  BY <1>0, <1>1, <1>5
<1> QED
  BY <1>3, <1>6, <1>8, <1>9

\* What one call of sample keeps of a row, if it is not greedy.
LEMMA Nucleus ==
    ASSUME NEW w \in [Vocab -> Nat \ {0}], NEW k \in Nat, NEW p \in 1 .. One,
           NEW o \in Orders(TopK(w, k)), NEW S, S = TopP(TopK(w, k), p, o)
    PROVE  /\ S # {} /\ S \subseteq Pool(w, k)
           /\ \A t \in Pool(w, k) \ S, u \in S : w[t] <= w[u]
           /\ One * Mass(w, S) >= p * Mass(w, Pool(w, k))
           /\ p < One => \E t \in S : /\ \A u \in S : w[t] <= w[u]
                                      /\ One * Mass(w, S \ {t}) <= p * Mass(w, Pool(w, k))
<1> USE DEF One
<1>1. PICK v \in [Vocab -> Nat] :
        /\ v = TopK(w, k)
        /\ \A t \in Vocab : v[t] = IF t \in Pool(w, k) THEN w[t] ELSE 0
  <2>1. [t \in Vocab |-> IF t \in Pool(w, k) THEN w[t] ELSE 0] \in [Vocab -> Nat]
    OBVIOUS
  <2> QED
    BY <2>1, TopKLeavesPool
<1>2. PICK pool \in SUBSET Vocab : pool = Pool(w, k) /\ pool # {}
  BY TopKLeavesPool DEF Pool
<1>3. w \in [Vocab -> Nat] /\ \A t \in Vocab : w[t] \in Nat /\ w[t] > 0
  OBVIOUS
<1>4. \A T \in SUBSET Vocab : T \subseteq pool => Mass(w, T) = Mass(v, T)
  <2> SUFFICES ASSUME NEW T \in SUBSET Vocab, T \subseteq pool
               PROVE  Mass(w, T) = Mass(v, T)
    OBVIOUS
  <2>1. \A t \in Vocab : Share(w, T, t) = Share(v, T, t)
    BY <1>1, <1>2 DEF Share
  <2> QED
    BY <1>3, <2>1, MassSame
<1>5. Mass(w, pool) = Mass(v, Vocab)
  <2>1. \A t \in Vocab : Share(w, pool, t) = Share(v, Vocab, t)
    BY <1>1, <1>2 DEF Share
  <2> QED
    BY <1>3, <2>1, MassSame
<1>6. Mass(v, Vocab) \in Nat /\ Mass(v, Vocab) > 0
  <2>1. PICK t \in Vocab : t \in pool
    BY <1>2
  <2>2. v[t] > 0
    BY <1>1, <1>2, <1>3, <2>1
  <2> QED
    BY <2>2, SomeMass
<1>7. CASE p = One
  <2>1. S = {t \in Vocab : v[t] > 0}
    BY <1>1, <1>7 DEF TopP
  <2>2. S = pool
    BY <1>1, <1>2, <1>3, <2>1
  <2>3. One * Mass(w, pool) >= p * Mass(w, pool)
    BY <1>5, <1>6, <1>7
  <2> QED
    BY <1>2, <1>7, <2>2, <2>3
<1>8. CASE p < One
  <2>0. /\ \A n \in Vocab : n \in 0 .. NumTokens /\ n - 1 \in 0 .. NumTokens
                            /\ n \in Nat /\ n >= 1 /\ n <= NumTokens
        /\ NumTokens \in Nat
    BY VocabFacts DEF Vocab
  <2>1. PICK m \in Vocab :
            /\ S = First(o, m)
            /\ One * Mass(v, First(o, m - 1)) <= p * Mass(v, Vocab)
            /\ m = NumTokens \/ One * Mass(v, First(o, m)) > p * Mass(v, Vocab)
    BY <1>1, <1>8, NucleusIsFirst
  <2>2. /\ o \in [Vocab -> Vocab] /\ o \in Orders(v)
        /\ \A i, j \in Vocab : o[i] = o[j] => i = j
        /\ \A t \in Vocab : \E i \in Vocab : o[i] = t
        /\ \A i, j \in Vocab : i <= j => v[o[j]] <= v[o[i]]
    BY <1>1, OrderFacts
  <2>3. /\ S \in SUBSET Vocab /\ First(o, m - 1) \in SUBSET Vocab
        /\ \A i \in Vocab : o[i] \in S <=> i <= m
        /\ \A i \in Vocab : o[i] \in First(o, m - 1) <=> i <= m - 1
    BY <2>0, <2>1, <2>2, FirstFacts
  <2>4. o[m] \in S
    BY <2>0, <2>3
  <2>5. v[o[m]] > 0
    <3> SUFFICES ASSUME ~(v[o[m]] > 0) PROVE FALSE
      OBVIOUS
    <3>1. \A i \in Vocab : ~(i <= m - 1) => m <= i
      BY <2>0
    <3>2. \A i \in Vocab : ~(i <= m - 1) => v[o[i]] = 0
      <4>1. \A i \in Vocab : v[o[i]] \in Nat
        BY <2>2
      <4> QED
        BY <2>2, <3>1, <4>1
    <3>3. \A t \in Vocab : t \notin First(o, m - 1) => v[t] = 0
      BY <2>2, <2>3, <3>2
    <3>4. \A t \in Vocab : Share(v, First(o, m - 1), t) = Share(v, Vocab, t)
      BY <3>3 DEF Share
    <3>5. Mass(v, First(o, m - 1)) = Mass(v, Vocab)
      BY <2>3, <3>4, MassSame
    <3>6. One * Mass(v, Vocab) <= p * Mass(v, Vocab)
      BY <2>1, <3>5
    <3>7. p * Mass(v, Vocab) < One * Mass(v, Vocab) /\ p * Mass(v, Vocab) \in Nat
      BY <1>6, <1>8, PartsOfOne
    <3> QED
      BY <1>6, <3>6, <3>7
  <2>6. S \subseteq pool
    <3> SUFFICES ASSUME NEW t \in S PROVE t \in pool
      OBVIOUS
    <3>1. PICK i \in Vocab : o[i] = t
      BY <2>2, <2>3
    <3>2. v[o[m]] <= v[t] /\ v[t] \in Nat /\ v[o[m]] \in Nat
      BY <2>2, <2>3, <3>1
    <3>3. v[t] # 0
      BY <2>5, <3>2
    <3> QED
      BY <1>1, <1>2, <2>3, <3>3
  <2>7. ASSUME NEW t \in pool \ S, NEW u \in S PROVE w[t] <= w[u]
    <3>1. PICK j \in Vocab : o[j] = t
      BY <1>2, <2>2
    <3>2. PICK i \in Vocab : o[i] = u
      BY <2>2, <2>3
    <3>3. i <= j
      BY <2>0, <2>3, <2>7, <3>1, <3>2
    <3>4. v[t] <= v[u]
      BY <2>2, <3>1, <3>2, <3>3
    <3> QED
      BY <1>1, <1>2, <2>6, <3>4
  <2>8. One * Mass(w, S) >= p * Mass(w, pool)
    <3>1. Mass(w, S) = Mass(v, S) /\ Mass(v, S) \in Nat /\ p * Mass(v, Vocab) \in Nat
      BY <1>4, <1>6, <2>3, <2>6, MassGrows, PartsOfOne
    <3>2. CASE m = NumTokens
      <4>1. S = Vocab
        <5>1. \A i \in Vocab : o[i] \in S
          BY <2>0, <2>3, <3>2
        <5>2. \A t \in Vocab : t \in S
          BY <2>2, <5>1
        <5> QED
          BY <2>3, <5>2
      <4> QED
        BY <1>5, <1>6, <3>1, <4>1, PartsOfOne
    <3>3. CASE m # NumTokens
      <4>1. One * Mass(v, S) > p * Mass(v, Vocab)
        BY <2>1, <3>3
      <4>2. One * Mass(v, S) >= p * Mass(v, Vocab)
        BY <3>1, <4>1
      <4> QED
        BY <1>5, <3>1, <4>2
    <3> QED
      BY <3>2, <3>3
  <2>9. One * Mass(w, S \ {o[m]}) <= p * Mass(w, pool)
    <3>1. S \ {o[m]} = First(o, m - 1)
      <4>1. \A i \in Vocab : i <= m /\ i # m <=> i <= m - 1
        BY <2>0
      <4>2. \A i \in Vocab : o[i] \in S \ {o[m]} <=> o[i] \in First(o, m - 1)
        BY <2>2, <2>3, <4>1
      <4> QED
        BY <2>2, <2>3, <4>2
    <3>2. Mass(w, S \ {o[m]}) = Mass(v, First(o, m - 1))
      BY <1>4, <2>3, <2>6, <3>1
    <3> QED
      BY <1>5, <2>1, <3>2
  <2>10. ASSUME NEW u \in S PROVE w[o[m]] <= w[u]
    <3>1. PICK i \in Vocab : o[i] = u
      BY <2>2, <2>3
    <3>2. v[o[m]] <= v[u]
      BY <2>2, <2>3, <3>1
    <3> QED
      BY <1>1, <1>2, <2>4, <2>6, <3>2
  <2> QED
    BY <1>2, <2>4, <2>6, <2>7, <2>8, <2>9, <2>10
<1>9. p = One \/ p < One
  OBVIOUS
<1> QED
  BY <1>7, <1>8, <1>9

-----------------------------------------------------------------------------
(* Every row is drawn as its request says *)

\* A row that has a token has drawn it from what its own settings keep.
LEMMA DrawnFromOwn ==
    ASSUME TypeOK, GroupsFit, InItsGroup, Undrawn, NEW r \in Rows, out[r] # 0
    PROVE  /\ params[r] \in Params /\ logits[r] \in LogitVectors
           /\ out[r] \in kept[r] /\ out[r] \in Vocab
           /\ kept[r] \in Supports(logits[r], Key(params[r]))
<1>1. params[r] # NoParams
  BY DEF Undrawn
<1>2. out[r] \in kept[r] /\ kept[r] \in Supports(logits[r], Key(params[r]))
  BY <1>1 DEF InItsGroup
<1> QED
  BY <1>1, <1>2 DEF TypeOK

LEMMA DrawnFromNucleus ==
    ASSUME TypeOK, GroupsFit, InItsGroup, Undrawn, NEW r \in Rows, out[r] # 0,
           params[r].temperature > 0,
           NEW w, w = Heated(logits[r], params[r].temperature),
           NEW k, k = params[r].top_k, NEW p, p = params[r].top_p
    PROVE  /\ w \in [Vocab -> Nat \ {0}] /\ k \in Nat /\ p \in 1 .. One
           /\ \A t, u \in Vocab : logits[r][t] < logits[r][u] => w[t] < w[u]
           /\ \E o \in Orders(TopK(w, k)) : kept[r] = TopP(TopK(w, k), p, o)
<1>1. /\ params[r] \in Params /\ logits[r] \in LogitVectors
      /\ kept[r] \in Supports(logits[r], Key(params[r]))
  BY DrawnFromOwn
<1>2. k \in Nat /\ p \in 1 .. One /\ params[r].temperature \in 1 .. 2 * One
  BY <1>1 DEF Params
<1>3. /\ w \in [Vocab -> Nat \ {0}]
      /\ \A t, u \in Vocab : logits[r][t] < logits[r][u] => w[t] < w[u]
  BY <1>1, <1>2, Weights
<1>4. /\ Key(params[r]).temperature = params[r].temperature
      /\ Key(params[r]).top_k = k /\ Key(params[r]).top_p = p
      /\ params[r].temperature # 0
  BY <1>2 DEF Key
<1>5. \E o \in Orders(TopK(w, k)) : kept[r] = TopP(TopK(w, k), p, o)
  BY <1>1, <1>4 DEF Supports
<1> QED
  BY <1>2, <1>3, <1>5

\* A row is sampled with its own settings, whichever rows share its call: its
\* token is one that they allow, fewer than top_k tokens are likelier, none if
\* the request is greedy, and at the end every row has one.
THEOREM SampledAsAsked == Spec => []OwnSettings
<1>1. TypeOK /\ GroupsFit /\ InItsGroup /\ Undrawn => OwnSettings
  <2> SUFFICES ASSUME TypeOK, GroupsFit, InItsGroup, Undrawn, NEW r \in Rows
               PROVE  LET likelier == {t \in Vocab : logits[r][t] > logits[r][out[r]]}
                      IN  /\ Ready /\ groups = << >> => out[r] # 0
                          /\ out[r] # 0 =>
                                /\ out[r] \in kept[r]
                                /\ params[r].temperature = 0 => likelier = {}
                                /\ params[r].top_k > 0 =>
                                      Cardinality(likelier) < params[r].top_k
    BY DEF OwnSettings
  <2>1. ASSUME Ready, groups = << >> PROVE out[r] # 0
    <3>1. kept[r] \in SUBSET Vocab /\ 0 \notin Vocab
      BY DEF TypeOK, Vocab
    <3>2. out[r] \in kept[r]
      <4>1. Len(groups) = 0 /\ params[r] # NoParams
        BY <2>1 DEF Ready
      <4> QED
        BY <4>1 DEF InItsGroup, Waiting
    <3> QED
      BY <3>1, <3>2
  <2>2. ASSUME out[r] # 0, params[r].temperature = 0
        PROVE  {t \in Vocab : logits[r][t] > logits[r][out[r]]} = {}
    <3>1. /\ kept[r] \in Supports(logits[r], Key(params[r]))
          /\ Key(params[r]).temperature = 0 /\ out[r] \in kept[r]
          /\ out[r] \in Vocab /\ logits[r] \in [Vocab -> Nat]
      BY <2>2, DrawnFromOwn, SamplingAssumption DEF Key
    <3>2. \A t \in Vocab : logits[r][t] <= logits[r][out[r]]
      BY <3>1 DEF Supports
    <3>3. \A t \in Vocab : logits[r][t] \in Nat
      BY <3>1
    <3>4. \A t \in Vocab : ~(logits[r][t] > logits[r][out[r]])
      BY <3>1, <3>2, <3>3
    <3> QED
      BY <3>4
  <2>3. ASSUME out[r] # 0, params[r].top_k > 0
        PROVE  Cardinality({t \in Vocab : logits[r][t] > logits[r][out[r]]})
                    < params[r].top_k
    <3>0. /\ params[r].temperature \in 0 .. 2 * One /\ out[r] \in kept[r] /\ out[r] \in Vocab
          /\ logits[r] \in [Vocab -> Nat] /\ params[r].top_k \in Nat
      BY <2>3, DrawnFromOwn, SamplingAssumption DEF Params
    <3>1. CASE params[r].temperature = 0
      <4>1. Cardinality({}) = 0
        BY FS_EmptySet
      <4> QED
        BY <2>2, <2>3, <3>1, <4>1
    <3>2. CASE params[r].temperature # 0
      <4>0. params[r].temperature > 0
        BY <3>0, <3>2
      <4>1. PICK w, k, p : /\ w = Heated(logits[r], params[r].temperature)
                           /\ k = params[r].top_k /\ p = params[r].top_p
        OBVIOUS
      <4>2. /\ w \in [Vocab -> Nat \ {0}] /\ k \in Nat /\ p \in 1 .. One
            /\ \A t, u \in Vocab : logits[r][t] < logits[r][u] => w[t] < w[u]
            /\ \E o \in Orders(TopK(w, k)) : kept[r] = TopP(TopK(w, k), p, o)
        BY <2>3, <4>0, <4>1, DrawnFromNucleus
      <4>3. out[r] \in Pool(w, k)
        BY <3>0, <4>2, Nucleus
      <4>4. Cardinality({u \in Vocab : w[u] > w[out[r]]}) < k
        <5>1. k # 0
          BY <2>3, <3>0, <4>1
        <5> QED
          BY <4>3, <5>1 DEF Pool
      <4>5. \A t \in Vocab : logits[r][t] > logits[r][out[r]] => w[t] > w[out[r]]
        <5>1. \A t \in Vocab : logits[r][t] \in Nat /\ w[t] \in Nat
          BY <3>0, <4>2
        <5> QED
          BY <3>0, <4>2, <5>1
      <4>6. PICK A \in SUBSET Vocab : A = {u \in Vocab : w[u] > w[out[r]]}
        OBVIOUS
      <4>7. PICK B \in SUBSET A : B = {t \in Vocab : logits[r][t] > logits[r][out[r]]}
        BY <4>5, <4>6
      <4>8. /\ Cardinality(B) <= Cardinality(A)
            /\ Cardinality(B) \in Nat /\ Cardinality(A) \in Nat
        BY FewerTokens
      <4> QED
        BY <4>1, <4>2, <4>4, <4>6, <4>7, <4>8
    <3> QED
      BY <3>1, <3>2
  <2> QED
    BY <2>1, <2>2, <2>3, DrawnFromOwn
<1> QED
  BY <1>1, InOwnGroup, PTL

\* The nucleus of a row is neither too small nor too large: of what top_k
\* leaves it has the mass that top_p asks for, no token outside is likelier
\* than one inside, and without its least likely token it would not pass top_p.
THEOREM NucleusIsExact == Spec => []NucleusExact
<1>1. TypeOK /\ GroupsFit /\ InItsGroup /\ Undrawn => NucleusExact
  <2> SUFFICES ASSUME TypeOK, GroupsFit, InItsGroup, Undrawn,
                      NEW r \in Rows, out[r] # 0, params[r].temperature > 0
               PROVE  LET w    == Heated(logits[r], params[r].temperature)
                          pool == {t \in Vocab : params[r].top_k = 0 \/
                                    Cardinality({u \in Vocab : w[u] > w[t]})
                                        < params[r].top_k}
                          goal == params[r].top_p * Mass(w, pool)
                      IN  /\ kept[r] # {} /\ kept[r] \subseteq pool
                          /\ \A t \in pool \ kept[r], u \in kept[r] : w[t] <= w[u]
                          /\ One * Mass(w, kept[r]) >= goal
                          /\ params[r].top_p < One =>
                                \E t \in kept[r] :
                                   /\ \A u \in kept[r] : w[t] <= w[u]
                                   /\ One * Mass(w, kept[r] \ {t}) <= goal
    BY DEF NucleusExact
  <2>1. PICK w, k, p : /\ w = Heated(logits[r], params[r].temperature)
                       /\ k = params[r].top_k /\ p = params[r].top_p
    OBVIOUS
  <2>2. /\ w \in [Vocab -> Nat \ {0}] /\ k \in Nat /\ p \in 1 .. One
        /\ \E o \in Orders(TopK(w, k)) : kept[r] = TopP(TopK(w, k), p, o)
    BY <2>1, DrawnFromNucleus
  <2>3. PICK S : S = kept[r]
    OBVIOUS
  <2>4. /\ S # {} /\ S \subseteq Pool(w, k)
        /\ \A t \in Pool(w, k) \ S, u \in S : w[t] <= w[u]
        /\ One * Mass(w, S) >= p * Mass(w, Pool(w, k))
        /\ p < One => \E t \in S : /\ \A u \in S : w[t] <= w[u]
                                   /\ One * Mass(w, S \ {t}) <= p * Mass(w, Pool(w, k))
    BY <2>2, <2>3, Nucleus
  <2> QED
    BY <2>1, <2>3, <2>4, Zenon DEF Pool
<1> QED
  BY <1>1, InOwnGroup, PTL
=============================================================================
