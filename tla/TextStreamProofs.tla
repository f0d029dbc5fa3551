-------------------------- MODULE TextStreamProofs --------------------------
(***************************************************************************)
(* What a client of TextStream reads, for every vocabulary, every width of *)
(* characters and every budget.                                            *)
(***************************************************************************)
EXTENDS TextStream, SequenceTheorems, WellFoundedInduction, TLAPS

-----------------------------------------------------------------------------
(* Induction *)

\* A set that has 0 and, with any number, the next one, has all of them.
LEMMA AllNumbers ==
    ASSUME NEW S, 0 \in S, \A n \in Nat : n \in S => n + 1 \in S
    PROVE  \A n \in Nat : n \in S
<1> DEFINE R == {p \in Nat \X Nat : p[1] < p[2]}
           T == Nat \ S
<1>1. IsWellFoundedOn(R, Nat)
  BY NatLessThanWellFounded DEF OpToRel
<1>2. \A x, y \in Nat : y < x => <<y, x>> \in R
  OBVIOUS
<1>3. SUFFICES ASSUME T # {} PROVE FALSE
  OBVIOUS
<1> HIDE DEF R
<1>4. PICK x \in T : \A y \in T : ~(<<y, x>> \in R)
  BY <1>1, <1>3, WFMin
<1>5. x \in Nat /\ x # 0 /\ x - 1 \in Nat /\ x - 1 < x
  BY <1>4
<1>6. x - 1 \in S
  BY <1>2, <1>4, <1>5
<1>7. (x - 1) + 1 \in S
  BY <1>5, <1>6
<1> QED
  BY <1>4, <1>5, <1>7

-----------------------------------------------------------------------------
(* Texts that line up *)

\* Text x lies in text y behind its first n characters, replacement characters
\* standing for wide ones.
Lies(x, y, n) ==
    /\ n + Len(x) <= Len(y)
    /\ \A i \in 1 .. Len(x) : Shows(x[i], y[n + i])

LEMMA LiesTransitive ==
    ASSUME NEW x \in Seq(Chars), NEW y \in Seq(Chars), NEW z \in Seq(Chars),
           NEW n \in Nat, Lies(x, y, n), Lies(y, z, 0)
    PROVE  Lies(x, z, n)
<1>1. /\ Len(x) \in Nat /\ Len(y) \in Nat /\ Len(z) \in Nat
      /\ n + Len(x) <= Len(z)
  BY DEF Lies
<1>2. ASSUME NEW i \in 1 .. Len(x) PROVE Shows(x[i], z[n + i])
  <2>1. n + i \in 1 .. Len(y) /\ 0 + (n + i) = n + i
    BY <1>1 DEF Lies
  <2>2. Shows(y[n + i], z[n + i])
    BY <2>1 DEF Lies
  <2>3. Shows(x[i], y[n + i])
    BY DEF Lies
  <2> QED
    BY <2>2, <2>3 DEF Shows
<1> QED
  BY <1>1, <1>2 DEF Lies

LEMMA LiesInItself ==
    ASSUME NEW x \in Seq(Chars) PROVE Lies(x, x, 0)
BY DEF Lies, Shows

LEMMA NothingLies ==
    ASSUME NEW y \in Seq(Chars), NEW n \in Nat, n <= Len(y)
    PROVE  Lies(<< >>, y, n)
BY DEF Lies

\* A text and one that begins where it ends lie together where it does.
LEMMA LiesJoined ==
    ASSUME NEW x \in Seq(Chars), NEW u \in Seq(Chars), NEW y \in Seq(Chars),
           Lies(x, y, 0), Lies(u, y, Len(x))
    PROVE  x \o u \in Seq(Chars) /\ Len(x \o u) = Len(x) + Len(u) /\ Lies(x \o u, y, 0)
<1>1. /\ x \o u \in Seq(Chars)
      /\ Len(x \o u) = Len(x) + Len(u)
      /\ \A i \in 1 .. Len(x) + Len(u) :
            (x \o u)[i] = IF i <= Len(x) THEN x[i] ELSE u[i - Len(x)]
  BY ConcatProperties
<1>2. Len(x) \in Nat /\ Len(u) \in Nat /\ Len(y) \in Nat
  OBVIOUS
<1>3. ASSUME NEW i \in 1 .. Len(x) + Len(u) PROVE Shows((x \o u)[i], y[0 + i])
  <2>1. CASE i <= Len(x)
    BY <1>1, <1>2, <2>1 DEF Lies
  <2>2. CASE ~(i <= Len(x))
    <3>1. i - Len(x) \in 1 .. Len(u) /\ Len(x) + (i - Len(x)) = 0 + i
      BY <1>2, <2>2
    <3>2. Shows(u[i - Len(x)], y[0 + i])
      BY <3>1 DEF Lies
    <3> QED
      BY <1>1, <2>2, <3>2
  <2> QED
    BY <2>1, <2>2
<1> QED
  BY <1>1, <1>2, <1>3 DEF Lies

-----------------------------------------------------------------------------
(* Decoding *)

Decoded == [text : Seq(Chars), open : 0 .. Width - 1]
Start   == [text |-> << >>, open |-> 0]

LEMMA AppendLies ==
    ASSUME NEW x \in Seq(Chars), NEW c \in Chars
    PROVE  /\ Append(x, c) \in Seq(Chars)
           /\ Lies(x, Append(x, c), 0)
           /\ c \in {"wide", "?"} => Lies(Append(x, "?"), Append(x, c), 0)
<1> DEFINE y == Append(x, c)
           z == Append(x, "?")
<1>1. /\ y \in Seq(Chars) /\ Len(y) = Len(x) + 1 /\ Len(x) \in Nat
      /\ Len(z) = Len(x) + 1 /\ z[Len(x) + 1] = "?" /\ y[Len(x) + 1] = c
      /\ \A i \in 1 .. Len(x) : y[i] = x[i] /\ z[i] = x[i]
  BY AppendProperties
<1> HIDE DEF y, z
<1>2. \A i \in 1 .. Len(x) : 0 + i = i
  OBVIOUS
<1>3. Lies(x, y, 0)
  BY <1>1, <1>2 DEF Lies, Shows
<1>4. ASSUME c \in {"wide", "?"}
      PROVE  \A i \in 1 .. Len(x) + 1 : Shows(z[i], y[0 + i])
  <2> TAKE i \in 1 .. Len(x) + 1
  <2>1. i = Len(x) + 1 \/ i \in 1 .. Len(x)
    BY <1>1
  <2>2. y[Len(x) + 1] = c /\ 0 + i = i
    BY <1>1
  <2> QED
    BY <1>1, <1>4, <2>1, <2>2 DEF Shows
<1>5. c \in {"wide", "?"} => Lies(z, y, 0)
  BY <1>1, <1>4 DEF Lies
<1> QED
  BY <1>1, <1>3, <1>5 DEF y, z

LEMMA ShownType ==
    ASSUME NEW d \in Decoded PROVE Shown(d) \in Seq(Chars)
<1>1. d.text \in Seq(Chars) /\ "?" \in Chars
  BY DEF Decoded, Chars
<1>2. Append(d.text, "?") \in Seq(Chars)
  BY <1>1, AppendLies
<1> QED
  BY <1>1, <1>2 DEF Shown

\* One more byte adds to the text shown or fills in its last character.
LEMMA OneByte ==
    ASSUME NEW d \in Decoded, NEW byte \in Bytes
    PROVE  /\ Read(d, byte) \in Decoded
           /\ Shown(d) \in Seq(Chars)
           /\ Lies(Shown(d), Shown(Read(d, byte)), 0)
<1> USE StreamAssumption
<1>0. /\ d.text \in Seq(Chars) /\ d.open \in 0 .. Width - 1
      /\ Width \in Nat /\ Width > 1 /\ 0 \in 0 .. Width - 1
      /\ "?" \in Chars /\ "wide" \in Chars
      /\ byte \notin {"lead", "cont"} => byte \in Chars
  BY DEF Decoded, Bytes, Chars
<1> HIDE StreamAssumption
<1>1. /\ Shown(d) \in Seq(Chars)
      /\ \A c \in Chars :
            /\ Append(d.text, c) \in Seq(Chars)
            /\ Append(Shown(d), c) \in Seq(Chars)
            /\ Lies(Shown(d), Append(Shown(d), c), 0)
            /\ d.open > 0 /\ c = "wide" => Lies(Shown(d), Append(d.text, c), 0)
  <2>1. d.open > 0 => Shown(d) = Append(d.text, "?")
    BY DEF Shown
  <2> QED
    BY <1>0, <2>1, ShownType, AppendLies
<1>2. CASE byte = "cont" /\ d.open + 1 = Width
  <2>1. Read(d, byte) = [text |-> Append(d.text, "wide"), open |-> 0]
    BY <1>0, <1>2 DEF Read
  <2>2. Shown(Read(d, byte)) = Append(d.text, "wide") /\ d.open > 0
    BY <1>0, <1>2, <2>1 DEF Shown
  <2>3. Read(d, byte) \in Decoded
    BY <1>0, <1>1, <2>1 DEF Decoded
  <2> QED
    BY <1>0, <1>1, <2>2, <2>3
<1>3. CASE byte = "cont" /\ d.open \in 1 .. Width - 2
  <2>1. Read(d, byte) = [d EXCEPT !.open = @ + 1]
    BY <1>0, <1>3 DEF Read
  <2>2. Read(d, byte) = [text |-> d.text, open |-> d.open + 1]
    BY <2>1 DEF Decoded
  <2>3. Read(d, byte) \in Decoded
    BY <1>0, <1>3, <2>2 DEF Decoded
  <2>4. Shown(Read(d, byte)) = Shown(d)
    BY <1>0, <1>3, <2>2 DEF Shown
  <2> QED
    BY <1>1, <2>3, <2>4, LiesInItself
<1>4. CASE byte = "cont" /\ d.open = 0
  <2>1. Read(d, byte) = [d EXCEPT !.text = Append(@, "?")]
    BY <1>0, <1>4 DEF Read
  <2>2. Read(d, byte) = [text |-> Append(d.text, "?"), open |-> 0]
    BY <1>4, <2>1 DEF Decoded
  <2>3. Shown(Read(d, byte)) = Append(Shown(d), "?")
    BY <1>4, <2>2 DEF Shown
  <2>4. Read(d, byte) \in Decoded
    BY <1>0, <1>1, <2>2 DEF Decoded
  <2> QED
    BY <1>0, <1>1, <2>3, <2>4
<1>5. CASE byte = "lead"
  <2>1. Read(d, byte) = [text |-> Shown(d), open |-> 1]
    BY <1>5 DEF Read
  <2>2. Shown(Read(d, byte)) = Append(Shown(d), "?")
    BY <2>1 DEF Shown
  <2>3. Read(d, byte) \in Decoded
    BY <1>0, <1>1, <2>1 DEF Decoded
  <2> QED
    BY <1>0, <1>1, <2>2, <2>3
<1>6. CASE byte # "cont" /\ byte # "lead"
  <2>1. Read(d, byte) = [text |-> Append(Shown(d), byte), open |-> 0]
    BY <1>6 DEF Read
  <2>2. Shown(Read(d, byte)) = Append(Shown(d), byte)
    BY <2>1 DEF Shown
  <2>3. Read(d, byte) \in Decoded
    BY <1>0, <1>1, <1>6, <2>1 DEF Decoded
  <2> QED
    BY <1>0, <1>1, <1>6, <2>2, <2>3
<1> QED
  BY <1>0, <1>2, <1>3, <1>4, <1>5, <1>6

\* f is what the decoder has after each of the first m bytes.
Reads(bytes, m, f) ==
    f = [n \in 0 .. m |-> IF n = 0 THEN Start ELSE Read(f[n - 1], bytes[n])]

LEMMA ReadsExist ==
    ASSUME NEW bytes, NEW m \in Nat
    PROVE  \E f : Reads(bytes, m, f)
<1> DEFINE S == {n \in Nat : \E f : Reads(bytes, n, f)}
<1>1. 0 \in S
  <2>1. Reads(bytes, 0, [n \in 0 .. 0 |-> Start])
    BY DEF Reads
  <2> QED
    BY <2>1
<1>2. ASSUME NEW k \in Nat, k \in S PROVE k + 1 \in S
  <2>1. PICK f : Reads(bytes, k, f)
    BY <1>2
  <2> DEFINE g == [n \in 0 .. k + 1 |->
                      IF n = k + 1 THEN Read(f[k], bytes[k + 1]) ELSE f[n]]
  <2>2. \A n \in 0 .. k : g[n] = f[n]
    OBVIOUS
  <2>3. \A n \in 0 .. k :
            f[n] = IF n = 0 THEN Start ELSE Read(f[n - 1], bytes[n])
    BY <2>1 DEF Reads
  <2>4. ASSUME NEW n \in 0 .. k + 1
        PROVE  g[n] = IF n = 0 THEN Start ELSE Read(g[n - 1], bytes[n])
    <3>1. CASE n = k + 1
      <4>1. n # 0 /\ n - 1 = k /\ g[n - 1] = f[k]
        BY <2>2, <3>1
      <4> QED
        BY <3>1, <4>1
    <3>2. CASE n \in 1 .. k
      <4>1. n - 1 \in 0 .. k /\ n \in 0 .. k
        BY <3>2
      <4> HIDE DEF g
      <4>2. g[n - 1] = f[n - 1] /\ g[n] = f[n]
        BY <2>2, <4>1
      <4> QED
        BY <2>3, <3>2, <4>1, <4>2
    <3>3. CASE n = 0
      <4>1. 0 \in 0 .. k
        OBVIOUS
      <4> QED
        BY <2>2, <2>3, <3>3, <4>1
    <3> QED
      BY <3>1, <3>2, <3>3
  <2>5. Reads(bytes, k + 1, g)
    <3>1. g = [n \in 0 .. k + 1 |-> g[n]]
      OBVIOUS
    <3> HIDE DEF g
    <3> QED
      BY <2>4, <3>1 DEF Reads
  <2> HIDE DEF g
  <2> QED
    BY <2>5
<1> HIDE DEF S
<1>3. m \in S
  BY <1>1, <1>2, AllNumbers
<1> QED
  BY <1>3 DEF S

\* It depends on those bytes alone.
LEMMA ReadsUnique ==
    ASSUME NEW b, NEW c, NEW m \in Nat, NEW k \in Nat, m <= k,
           \A i \in 1 .. m : b[i] = c[i],
           NEW f, Reads(b, m, f), NEW g, Reads(c, k, g)
    PROVE  f[m] = g[m]
<1> DEFINE S == {n \in Nat : n <= m => f[n] = g[n]}
<1>0. /\ \A n \in 0 .. m : f[n] = IF n = 0 THEN Start ELSE Read(f[n - 1], b[n])
      /\ \A n \in 0 .. k : g[n] = IF n = 0 THEN Start ELSE Read(g[n - 1], c[n])
  BY DEF Reads
<1>1. 0 \in S
  BY <1>0
<1>2. ASSUME NEW n \in Nat, n \in S PROVE n + 1 \in S
  <2> SUFFICES ASSUME n + 1 <= m PROVE f[n + 1] = g[n + 1]
    OBVIOUS
  <2>1. /\ n + 1 \in 0 .. m /\ n + 1 \in 0 .. k /\ n + 1 \in 1 .. m
        /\ n + 1 # 0 /\ (n + 1) - 1 = n
    OBVIOUS
  <2>2. f[n] = g[n] /\ b[n + 1] = c[n + 1]
    BY <1>2, <2>1
  <2>3. f[n + 1] = Read(f[n], b[n + 1]) /\ g[n + 1] = Read(g[n], c[n + 1])
    BY <1>0, <2>1
  <2> QED
    BY <2>2, <2>3
<1> HIDE DEF S
<1>3. m \in S
  BY <1>1, <1>2, AllNumbers
<1> QED
  BY <1>3 DEF S

\* As bytes are read the text shown only grows.
LEMMA ReadsGrow ==
    ASSUME NEW bytes \in Seq(Bytes), NEW f, Reads(bytes, Len(bytes), f),
           NEW m \in 0 .. Len(bytes)
    PROVE  /\ f[m] \in Decoded /\ Shown(f[m]) \in Seq(Chars)
           /\ Shown(f[Len(bytes)]) \in Seq(Chars)
           /\ Lies(Shown(f[m]), Shown(f[Len(bytes)]), 0)
<1>0. /\ Len(bytes) \in Nat /\ m \in Nat
      /\ \A n \in 0 .. Len(bytes) :
            f[n] = IF n = 0 THEN Start ELSE Read(f[n - 1], bytes[n])
      /\ \A n \in 1 .. Len(bytes) : bytes[n] \in Bytes
  BY DEF Reads
<1> DEFINE S == {n \in Nat : n <= Len(bytes) =>
                    /\ f[n] \in Decoded /\ Shown(f[n]) \in Seq(Chars)
                    /\ m <= n => /\ Shown(f[m]) \in Seq(Chars)
                                 /\ Lies(Shown(f[m]), Shown(f[n]), 0)}
<1>1. 0 \in S
  <2>1. f[0] = Start /\ Start \in Decoded /\ Shown(Start) = << >>
    BY <1>0, StreamAssumption DEF Start, Decoded, Shown
  <2>2. m <= 0 => m = 0
    BY <1>0
  <2>3. Shown(f[0]) \in Seq(Chars) /\ f[0] \in Decoded
    BY <2>1, ShownType
  <2>4. Lies(Shown(f[0]), Shown(f[0]), 0)
    BY <2>3, LiesInItself
  <2> QED
    BY <2>2, <2>3, <2>4
<1>2. ASSUME NEW n \in Nat, n \in S PROVE n + 1 \in S
  <2> SUFFICES ASSUME n + 1 <= Len(bytes)
               PROVE  /\ f[n + 1] \in Decoded /\ Shown(f[n + 1]) \in Seq(Chars)
                      /\ m <= n + 1 => /\ Shown(f[m]) \in Seq(Chars)
                                       /\ Lies(Shown(f[m]), Shown(f[n + 1]), 0)
    OBVIOUS
  <2>1. n + 1 \in 1 .. Len(bytes) /\ n + 1 # 0 /\ (n + 1) - 1 = n /\ n <= Len(bytes)
    BY <1>0
  <2>2. f[n + 1] = Read(f[n], bytes[n + 1])
    BY <1>0, <2>1
  <2>3. f[n] \in Decoded /\ Shown(f[n]) \in Seq(Chars)
    BY <1>2, <2>1
  <2>4. f[n + 1] \in Decoded /\ Lies(Shown(f[n]), Shown(f[n + 1]), 0)
    BY <1>0, <2>1, <2>2, <2>3, OneByte
  <2>5. Shown(f[n + 1]) \in Seq(Chars)
    BY <2>4, ShownType
  <2>6. CASE m = n + 1
    BY <2>4, <2>5, <2>6, LiesInItself
  <2>7. CASE m <= n
    <3>1. Shown(f[m]) \in Seq(Chars) /\ Lies(Shown(f[m]), Shown(f[n]), 0)
      BY <1>2, <2>1, <2>7
    <3> QED
      BY <2>3, <2>4, <2>5, <3>1, LiesTransitive
  <2>8. m <= n + 1 => m = n + 1 \/ m <= n
    BY <1>0
  <2> QED
    BY <2>4, <2>5, <2>6, <2>7, <2>8
<1> HIDE DEF S
<1>3. m \in S /\ Len(bytes) \in S
  BY <1>0, <1>1, <1>2, AllNumbers
<1> QED
  BY <1>0, <1>3 DEF S

LEMMA DecodeReads ==
    ASSUME NEW bytes, Len(bytes) \in Nat
    PROVE  \E f : Reads(bytes, Len(bytes), f) /\ Decode(bytes) = Shown(f[Len(bytes)])
<1>1. PICK g : Reads(bytes, Len(bytes), g)
  BY ReadsExist
<1> QED
  BY <1>1 DEF Reads, Decode, Start

\* Bytes drawn later leave the text that was shown where it is, and change at
\* most replacement characters in it.
LEMMA LongerDecodes ==
    ASSUME NEW bytes \in Seq(Bytes), NEW all \in Seq(Bytes),
           Len(bytes) <= Len(all), \A i \in 1 .. Len(bytes) : bytes[i] = all[i]
    PROVE  /\ Decode(bytes) \in Seq(Chars) /\ Decode(all) \in Seq(Chars)
           /\ Lies(Decode(bytes), Decode(all), 0)
<1>1. Len(bytes) \in Nat /\ Len(all) \in Nat /\ Len(bytes) \in 0 .. Len(all)
  OBVIOUS
<1>2. PICK f : Reads(bytes, Len(bytes), f) /\ Decode(bytes) = Shown(f[Len(bytes)])
  BY <1>1, DecodeReads
<1>3. PICK g : Reads(all, Len(all), g) /\ Decode(all) = Shown(g[Len(all)])
  BY <1>1, DecodeReads
<1>4. f[Len(bytes)] = g[Len(bytes)]
  BY <1>1, <1>2, <1>3, ReadsUnique
<1>5. /\ Shown(g[Len(bytes)]) \in Seq(Chars) /\ Shown(g[Len(all)]) \in Seq(Chars)
      /\ Lies(Shown(g[Len(bytes)]), Shown(g[Len(all)]), 0)
  BY <1>1, <1>3, ReadsGrow
<1> QED
  BY <1>2, <1>3, <1>4, <1>5

LEMMA DecodeGrows ==
    ASSUME NEW bytes \in Seq(Bytes), NEW more \in Seq(Bytes)
    PROVE  /\ bytes \o more \in Seq(Bytes)
           /\ Decode(bytes) \in Seq(Chars) /\ Decode(bytes \o more) \in Seq(Chars)
           /\ Lies(Decode(bytes), Decode(bytes \o more), 0)
<1>1. /\ bytes \o more \in Seq(Bytes) /\ Len(bytes) <= Len(bytes \o more)
      /\ \A i \in 1 .. Len(bytes) : bytes[i] = (bytes \o more)[i]
  BY ConcatProperties
<1> QED
  BY <1>1, LongerDecodes

LEMMA DecodeType ==
    ASSUME NEW bytes \in Seq(Bytes) PROVE Decode(bytes) \in Seq(Chars)
<1>1. << >> \in Seq(Bytes)
  OBVIOUS
<1> QED
  BY <1>1, DecodeGrows

\* Before a byte is drawn there is no text.
LEMMA NothingDecodes == Decode(<< >>) = << >>
<1>1. Len(<< >>) = 0
  OBVIOUS
<1>2. PICK f : Reads(<< >>, 0, f) /\ Decode(<< >>) = Shown(f[0])
  BY <1>1, DecodeReads
<1>3. f[0] = Start
  BY <1>2 DEF Reads
<1> QED
  BY <1>2, <1>3 DEF Start, Shown

-----------------------------------------------------------------------------
(* Messages on their way *)

\* The texts of q, one behind the other, lie in text y from a to b.
Laid(q, a, b, y) ==
    \E cut \in [1 .. Len(q) + 1 -> Nat] :
        /\ cut[1] = a /\ cut[Len(q) + 1] = b /\ b <= Len(y)
        /\ \A i \in 1 .. Len(q) : /\ cut[i + 1] = cut[i] + Len(q[i].text)
                                  /\ Lies(q[i].text, y, cut[i])

LEMMA NoneLaid ==
    ASSUME NEW y \in Seq(Chars), NEW a \in Nat, a <= Len(y)
    PROVE  /\ Laid(<< >>, a, a, y)
           /\ \A b \in Nat : Laid(<< >>, a, b, y) => a = b
<1>1. Laid(<< >>, a, a, y)
  <2> DEFINE cut == [i \in 1 .. 1 |-> a]
  <2>1. Len(<< >>) = 0 /\ Len(<< >>) + 1 = 1
    OBVIOUS
  <2>2. cut \in [1 .. 1 -> Nat] /\ cut[1] = a
    OBVIOUS
  <2> HIDE DEF cut
  <2>3. \A i \in 1 .. Len(<< >>) : FALSE
    BY <2>1
  <2> QED
    BY <2>1, <2>2, <2>3 DEF Laid
<1> QED
  BY <1>1 DEF Laid

LEMMA OneMoreLaid ==
    ASSUME NEW q \in Seq(Messages), NEW m \in Messages, NEW a \in Nat, NEW b \in Nat,
           NEW y \in Seq(Chars), Laid(q, a, b, y), Lies(m.text, y, b)
    PROVE  /\ b + Len(m.text) \in Nat
           /\ Laid(Append(q, m), a, b + Len(m.text), y)
<1>1. PICK cut \in [1 .. Len(q) + 1 -> Nat] :
        /\ cut[1] = a /\ cut[Len(q) + 1] = b /\ b <= Len(y)
        /\ \A i \in 1 .. Len(q) : /\ cut[i + 1] = cut[i] + Len(q[i].text)
                                  /\ Lies(q[i].text, y, cut[i])
  BY DEF Laid
<1>2. /\ Len(q) \in Nat /\ Len(m.text) \in Nat /\ b + Len(m.text) \in Nat
      /\ b + Len(m.text) <= Len(y)
  BY DEF Messages, Lies
<1>3. /\ Len(Append(q, m)) = Len(q) + 1
      /\ Append(q, m)[Len(q) + 1] = m
      /\ \A i \in 1 .. Len(q) : Append(q, m)[i] = q[i]
  BY AppendProperties
<1> DEFINE new == [i \in 1 .. Len(q) + 2 |->
                      IF i = Len(q) + 2 THEN b + Len(m.text) ELSE cut[i]]
<1>4. /\ new \in [1 .. Len(Append(q, m)) + 1 -> Nat]
      /\ new[Len(Append(q, m)) + 1] = b + Len(m.text)
      /\ \A i \in 1 .. Len(q) + 1 : new[i] = cut[i]
  BY <1>1, <1>2, <1>3
<1> HIDE DEF new
<1>5. ASSUME NEW i \in 1 .. Len(Append(q, m))
      PROVE  /\ new[i + 1] = new[i] + Len(Append(q, m)[i].text)
             /\ Lies(Append(q, m)[i].text, y, new[i])
  <2>1. CASE i \in 1 .. Len(q)
    <3>1. i \in 1 .. Len(q) + 1 /\ i + 1 \in 1 .. Len(q) + 1
      BY <1>2, <2>1
    <3> QED
      BY <1>1, <1>3, <1>4, <2>1, <3>1
  <2>2. CASE i = Len(q) + 1
    <3>1. new[i] = b /\ new[i + 1] = b + Len(m.text) /\ Append(q, m)[i] = m
      BY <1>1, <1>2, <1>3, <1>4, <2>2
    <3> QED
      BY <3>1
  <2> QED
    BY <1>2, <1>3, <2>1, <2>2
<1>6. new[1] = a
  BY <1>1, <1>2, <1>4
<1> QED
  BY <1>2, <1>4, <1>5, <1>6 DEF Laid

LEMMA FirstLaid ==
    ASSUME NEW q \in Seq(Messages), q # << >>, NEW a \in Nat, NEW b \in Nat,
           NEW y \in Seq(Chars), Laid(q, a, b, y)
    PROVE  /\ Lies(Head(q).text, y, a) /\ a + Len(Head(q).text) \in Nat
           /\ Laid(Tail(q), a + Len(Head(q).text), b, y)
<1>1. PICK cut \in [1 .. Len(q) + 1 -> Nat] :
        /\ cut[1] = a /\ cut[Len(q) + 1] = b /\ b <= Len(y)
        /\ \A i \in 1 .. Len(q) : /\ cut[i + 1] = cut[i] + Len(q[i].text)
                                  /\ Lies(q[i].text, y, cut[i])
  BY DEF Laid
<1>2. /\ Len(q) \in Nat /\ Len(q) > 0 /\ Head(q) = q[1] /\ Head(q) \in Messages
      /\ Len(Tail(q)) = Len(q) - 1
      /\ \A i \in 1 .. Len(q) - 1 : Tail(q)[i] = q[i + 1]
  BY HeadTailProperties
<1>3. cut[2] = a + Len(Head(q).text) /\ Lies(Head(q).text, y, a)
  <2>1. 1 \in 1 .. Len(q) /\ 1 + 1 = 2
    BY <1>2
  <2> QED
    BY <1>1, <1>2, <2>1
<1> DEFINE new == [i \in 1 .. Len(q) |-> cut[i + 1]]
<1>4. /\ new \in [1 .. Len(Tail(q)) + 1 -> Nat]
      /\ \A i \in 1 .. Len(q) : new[i] = cut[i + 1]
  BY <1>1, <1>2
<1> HIDE DEF new
<1>5. new[1] = a + Len(Head(q).text) /\ new[Len(Tail(q)) + 1] = b
  BY <1>1, <1>2, <1>3, <1>4
<1>6. ASSUME NEW i \in 1 .. Len(Tail(q))
      PROVE  /\ new[i + 1] = new[i] + Len(Tail(q)[i].text)
             /\ Lies(Tail(q)[i].text, y, new[i])
  <2>1. i \in 1 .. Len(q) /\ i + 1 \in 1 .. Len(q) /\ i \in 1 .. Len(q) - 1
    BY <1>2
  <2> QED
    BY <1>1, <1>2, <1>4, <2>1
<1>7. a + Len(Head(q).text) \in Nat
  BY <1>2 DEF Messages
<1> QED
  BY <1>1, <1>3, <1>4, <1>5, <1>6, <1>7 DEF Laid

\* Messages lie where they did when the text grows.
LEMMA StillLaid ==
    ASSUME NEW q \in Seq(Messages), NEW a \in Nat, NEW b \in Nat,
           NEW y \in Seq(Chars), NEW z \in Seq(Chars), Laid(q, a, b, y), Lies(y, z, 0)
    PROVE  Laid(q, a, b, z)
<1>1. PICK cut \in [1 .. Len(q) + 1 -> Nat] :
        /\ cut[1] = a /\ cut[Len(q) + 1] = b /\ b <= Len(y)
        /\ \A i \in 1 .. Len(q) : /\ cut[i + 1] = cut[i] + Len(q[i].text)
                                  /\ Lies(q[i].text, y, cut[i])
  BY DEF Laid
<1>2. b <= Len(z)
  BY <1>1 DEF Lies
<1>3. ASSUME NEW i \in 1 .. Len(q) PROVE Lies(q[i].text, z, cut[i])
  <2>1. Len(q) \in Nat /\ q[i] \in Messages /\ i \in 1 .. Len(q) + 1
    OBVIOUS
  <2>2. q[i].text \in Seq(Chars) /\ cut[i] \in Nat
    BY <1>1, <2>1 DEF Messages
  <2> QED
    BY <1>1, <2>2, LiesTransitive
<1> QED
  BY <1>1, <1>2, <1>3 DEF Laid

-----------------------------------------------------------------------------
(* Types *)

LEMMA MarkFacts ==
    /\ \A m \in Marks : Mark(m) \in Messages /\ Mark(m).text = << >> /\ Mark(m).marks = <<m>>
    /\ Rejection \in Messages /\ Rejection.text = << >>
    /\ Rejection.marks = <<"error", "done">> /\ Len(Rejection.marks) = 2
    /\ End \in Messages /\ End.text = << >> /\ End.marks = <<"sentinel">>
    /\ \A m \in Marks : <<m>> # << >> /\ Len(<<m>>) = 1
    /\ \A m, n \in Marks : <<m>> = <<n>> => m = n
    /\ \A t \in Seq(Chars) : /\ Text(t) \in Messages /\ Text(t).text = t
                             /\ Text(t).marks = << >> /\ Text(t) # End
<1>1. ASSUME NEW m \in Marks
      PROVE  /\ Mark(m) \in Messages /\ Mark(m).text = << >> /\ Mark(m).marks = <<m>>
             /\ <<m>> # << >> /\ Len(<<m>>) = 1
  <2>1. <<m>> \in Seq(Marks) /\ << >> \in Seq(Chars)
    OBVIOUS
  <2> QED
    BY <2>1 DEF Mark, Messages
<1>2. /\ Rejection \in Messages /\ Rejection.text = << >>
      /\ Rejection.marks = <<"error", "done">> /\ Len(Rejection.marks) = 2
  <2>1. <<"error", "done">> \in Seq(Marks) /\ << >> \in Seq(Chars)
    BY DEF Marks
  <2> QED
    BY <2>1 DEF Rejection, Messages
<1>3. "sentinel" \in Marks
  BY DEF Marks
<1>4. ASSUME NEW m, NEW n, <<m>> = <<n>> PROVE m = n
  BY <1>4
<1>5. ASSUME NEW t \in Seq(Chars)
      PROVE  /\ Text(t) \in Messages /\ Text(t).text = t
             /\ Text(t).marks = << >> /\ Text(t) # End
  <2>1. << >> \in Seq(Marks)
    OBVIOUS
  <2>2. Text(t) \in Messages /\ Text(t).text = t /\ Text(t).marks = << >>
    BY <2>1 DEF Text, Messages
  <2> QED
    BY <1>1, <1>3, <2>2 DEF End
<1> QED
  BY <1>1, <1>2, <1>3, <1>4, <1>5 DEF End

LEMMA DeltaType ==
    ASSUME NEW x \in Seq(Chars), published \in Seq(Chars)
    PROVE  /\ Len(x) <= Len(published) => Delta(x) = << >>
           /\ Len(x) > Len(published) =>
                \E u \in Seq(Chars) :
                   /\ Delta(x) = <<Text(u)>>
                   /\ Len(u) = Len(x) - Len(published)
                   /\ \A i \in 1 .. Len(u) : u[i] = x[Len(published) + i]
<1> DEFINE u == SubSeq(x, Len(published) + 1, Len(x))
<1>1. Len(x) \in Nat /\ Len(published) \in Nat
  OBVIOUS
<1>2. /\ u \in Seq(Chars)
      /\ Len(u) = IF Len(published) + 1 <= Len(x) THEN Len(x) - Len(published) ELSE 0
      /\ \A i \in 1 .. Len(x) - Len(published) : u[i] = x[Len(published) + i]
  <2>1. \A i \in Len(published) + 1 .. Len(x) : x[i] \in Chars
    BY <1>1
  <2>2. /\ u \in Seq(Chars)
        /\ Len(u) = IF Len(published) + 1 <= Len(x)
                    THEN Len(x) - (Len(published) + 1) + 1 ELSE 0
        /\ \A i \in 1 .. Len(x) - (Len(published) + 1) + 1 :
              u[i] = x[(Len(published) + 1) + i - 1]
    BY <1>1, <2>1, SubSeqProperties
  <2>3. Len(x) - (Len(published) + 1) + 1 = Len(x) - Len(published)
    BY <1>1
  <2>4. \A i \in 1 .. Len(x) - Len(published) : (Len(published) + 1) + i - 1 = Len(published) + i
    BY <1>1
  <2> QED
    BY <2>2, <2>3, <2>4
<1>3. Delta(x) = IF u = << >> THEN << >> ELSE <<Text(u)>>
  BY DEF Delta
<1> HIDE DEF u
<1>4. u = << >> <=> Len(u) = 0
  BY <1>2, EmptySeq
<1>5. ASSUME Len(x) > Len(published)
      PROVE  Delta(x) = <<Text(u)>> /\ Len(u) = Len(x) - Len(published)
  BY <1>1, <1>2, <1>3, <1>4, <1>5
<1>6. Len(x) <= Len(published) => Delta(x) = << >>
  BY <1>1, <1>2, <1>3, <1>4
<1>7. ASSUME Len(x) > Len(published)
      PROVE  \A i \in 1 .. Len(u) : u[i] = x[Len(published) + i]
  BY <1>2, <1>5, <1>7
<1> QED
  BY <1>2, <1>5, <1>6, <1>7

\* What the items become when text x is published, and then the end.
LEMMA Published ==
    ASSUME NEW x \in Seq(Chars), published \in Seq(Chars), items \in Seq(Messages)
    PROVE  /\ items \o Delta(x) \in Seq(Messages)
           /\ items \o Delta(x) \o <<End>> = Append(items \o Delta(x), End)
           /\ Len(x) <= Len(published) => items \o Delta(x) = items
           /\ Len(x) > Len(published) =>
                \E u \in Seq(Chars) :
                   /\ items \o Delta(x) = Append(items, Text(u))
                   /\ Len(u) = Len(x) - Len(published)
                   /\ \A i \in 1 .. Len(u) : u[i] = x[Len(published) + i]
<1>1. ASSUME NEW q \in Seq(Messages), NEW m \in Messages
      PROVE  q \o <<m>> = Append(q, m) /\ Append(q, m) \in Seq(Messages)
  BY AppendIsConcat, AppendProperties
<1>2. End \in Messages /\ items \o << >> = items
  BY MarkFacts, ConcatEmptySeq
<1>3. CASE Len(x) <= Len(published)
  <2>1. items \o Delta(x) = items
    BY <1>2, <1>3, DeltaType
  <2>2. ~(Len(x) > Len(published))
    BY <1>3
  <2> QED
    BY <1>1, <1>2, <2>1, <2>2
<1>4. CASE Len(x) > Len(published)
  <2>1. PICK u \in Seq(Chars) :
            /\ Delta(x) = <<Text(u)>>
            /\ Len(u) = Len(x) - Len(published)
            /\ \A i \in 1 .. Len(u) : u[i] = x[Len(published) + i]
    BY <1>4, DeltaType
  <2>2. Text(u) \in Messages
    BY MarkFacts
  <2>3. items \o Delta(x) = Append(items, Text(u))
    BY <1>1, <2>1, <2>2
  <2>4. ~(Len(x) <= Len(published))
    BY <1>4
  <2> QED
    BY <1>1, <1>2, <2>1, <2>2, <2>3, <2>4
<1> QED
  BY <1>3, <1>4

LEMMA PassType ==
    ASSUME TypeOK, NEW m \in Messages, Pass(m)
    PROVE  got' \in Seq(Chars) /\ ends' \in Seq(Marks)
<1>1. m.text \in Seq(Chars) /\ m.marks \in Seq(Marks)
  BY DEF Messages
<1>2. got \in Seq(Chars) /\ ends \in Seq(Marks)
  BY DEF TypeOK
<1>3. got \o m.text \in Seq(Chars)
  BY <1>1, <1>2, ConcatProperties
<1>4. ends \o m.marks \in Seq(Marks)
  BY <1>1, <1>2, ConcatProperties
<1> QED
  BY <1>2, <1>3, <1>4 DEF Pass

LEMMA WriteType ==
    ASSUME TypeOK, NEW m \in Messages, Write(m)
    PROVE  /\ wire' \in Seq(Messages) /\ gate' = gate /\ online' = online
           /\ got' \in Seq(Chars) /\ ends' \in Seq(Marks)
<1>1. CASE route = "gateway"
  <2>1. Append(wire, m) \in Seq(Messages)
    BY AppendProperties DEF TypeOK
  <2> QED
    BY <1>1, <2>1 DEF Write, TypeOK
<1>2. CASE route # "gateway"
  BY <1>2, PassType DEF Write, TypeOK
<1> QED
  BY <1>1, <1>2

LEMMA WrittenMarks ==
    /\ Mark("done") \in Messages /\ Mark("error") \in Messages
    /\ Mark("cut") \in Messages /\ Mark("refused") \in Messages
    /\ Mark(IF route = "gateway" THEN "error" ELSE "cut") \in Messages
BY MarkFacts DEF Marks

\* Where the request and its handler are, as far as the rest depends on it.
Phases ==
    /\ finish = "none" => drawn < MaxTokens
    /\ handler = "new" => /\ step = "unknown" /\ finish = "none" /\ items = << >>
                          /\ got = << >> /\ wire = << >>
    /\ handler = "waiting" => finish # "abandoned"
    /\ gate = "new" => handler = "new" /\ ends = << >>
    /\ route = "http" => gate = "closed" /\ wire = << >>

LEMMA TypeStep == TypeOK /\ Phases /\ [Next]_vars => TypeOK'
<1> SUFFICES ASSUME TypeOK, Phases, [Next]_vars PROVE TypeOK'
  OBVIOUS
<1> USE DEF outVars, schedVars
<1>1. CASE EngineStep
  <2>1. CASE finish = "none"
    <3>1. PICK t \in Tokens \cup {EOS} :
            /\ drawn' = drawn + 1 /\ output' = output \o t
            /\ finish' = IF t = EOS THEN "stop"
                         ELSE IF drawn' >= MaxTokens THEN "length" ELSE "none"
      BY <1>1, <2>1 DEF EngineStep
    <3>2. t \in Seq(Bytes)
      <4>1. EOS \in Seq(Bytes)
        BY DEF EOS
      <4> QED
        BY <4>1, StreamAssumption
    <3>3. output' \in Seq(Bytes)
      BY <3>1, <3>2, ConcatProperties DEF TypeOK
    <3>4. drawn' \in 0 .. MaxTokens
      BY <2>1, <3>1, StreamAssumption DEF Phases, TypeOK
    <3>5. finish' \in {"none", "stop", "length", "abandoned"}
      BY <3>1
    <3> QED
      BY <1>1, <3>3, <3>4, <3>5 DEF EngineStep, TypeOK
  <2>2. CASE finish # "none"
    BY <1>1, <2>2 DEF EngineStep, TypeOK
  <2> QED
    BY <2>1, <2>2
<1>2. CASE PublishDeltas
  BY <1>2, DecodeType, Published DEF PublishDeltas, TypeOK
<1>3. CASE Keep
  BY <1>3 DEF Keep, TypeOK
<1>4. CASE Complete
  <2>1. Append(items \o Delta(Decode(output)), End) \in Seq(Messages)
    BY DecodeType, Published, MarkFacts, AppendProperties DEF TypeOK
  <2>2. items' \in Seq(Messages)
    BY <1>4, <2>1, DecodeType, Published DEF Complete, TypeOK
  <2> QED
    BY <1>4, <2>2, DecodeType DEF Complete, TypeOK
<1>5. CASE FailAll
  BY <1>5, MarkFacts, AppendProperties DEF FailAll, TypeOK
<1>6. CASE Submit
  <2>1. CASE handler' = "waiting" /\ step' = "queued" /\ UNCHANGED outVars
    BY <1>6, <2>1 DEF Submit, TypeOK
  <2>2. ASSUME NEW m \in Messages, Write(m), handler' = "ended", UNCHANGED step
        PROVE  TypeOK'
    BY <1>6, <2>2, WriteType DEF Submit, TypeOK
  <2> QED
    BY <1>6, <2>1, <2>2, MarkFacts, WrittenMarks DEF Submit
<1>7. CASE Receive
  <2>1. items' \in Seq(Messages) /\ Head(items) \in Messages
    BY <1>7, HeadTailProperties DEF Receive, TypeOK
  <2>2. ASSUME NEW m \in Messages, Write(m), handler' \in {"ended", handler}
        PROVE  TypeOK'
    BY <1>7, <2>1, <2>2, WriteType DEF Receive, TypeOK
  <2> QED
    BY <1>7, <2>1, <2>2, WrittenMarks DEF Receive, WriteError
<1>8. CASE Timeout
  <2>1. /\ step' \in {step, "over"} /\ finish' \in {finish, "abandoned"}
        /\ UNCHANGED <<drawn, output, published, failed, items, route>>
        /\ handler' = "ended"
    BY <1>8 DEF Timeout, Abandon
  <2>2. Write(Mark(IF route = "gateway" THEN "error" ELSE "cut"))
    BY <1>8 DEF Timeout, WriteError
  <2>3. /\ wire' \in Seq(Messages) /\ gate' = gate /\ online' = online
        /\ got' \in Seq(Chars) /\ ends' \in Seq(Marks)
    BY <2>2, WriteType, WrittenMarks
  <2> QED
    BY <2>1, <2>3 DEF TypeOK
<1>9. CASE Cancelled
  <2>1. /\ step' \in {step, "over"} /\ finish' \in {finish, "abandoned"}
        /\ UNCHANGED <<drawn, output, published, failed, items, route, outVars>>
        /\ handler' = "ended"
    BY <1>9 DEF Cancelled, Abandon
  <2> QED
    BY <2>1 DEF TypeOK
<1>10. CASE Crash
  <2>1. Write(Mark(IF route = "gateway" THEN "error" ELSE "cut"))
    BY <1>10 DEF Crash, WriteError
  <2>2. /\ wire' \in Seq(Messages) /\ gate' = gate /\ online' = online
        /\ got' \in Seq(Chars) /\ ends' \in Seq(Marks)
    BY <2>1, WriteType, WrittenMarks
  <2> QED
    BY <1>10, <2>2 DEF Crash, TypeOK
<1>11. CASE Open
  <2>1. got' \in Seq(Chars) /\ ends' \in Seq(Marks)
    BY <1>11, PassType, WrittenMarks DEF Open, TypeOK
  <2> QED
    BY <1>11, <2>1 DEF Open, TypeOK
<1>12. CASE Relay
  <2>1. wire' \in Seq(Messages) /\ Head(wire) \in Messages
    BY <1>12, HeadTailProperties DEF Relay, TypeOK
  <2>2. got' \in Seq(Chars) /\ ends' \in Seq(Marks)
    BY <1>12, <2>1, PassType DEF Relay
  <2> QED
    BY <1>12, <2>1, <2>2 DEF Relay, TypeOK
<1>13. CASE GiveUp
  <2>1. got' \in Seq(Chars) /\ ends' \in Seq(Marks)
    BY <1>13, PassType, WrittenMarks DEF GiveUp
  <2> QED
    BY <1>13, <2>1 DEF GiveUp, TypeOK
<1>14. CASE HangUp
  BY <1>14 DEF HangUp, TypeOK
<1>15. CASE UNCHANGED vars
  BY <1>15 DEF vars, TypeOK
<1> QED
  BY <1>1, <1>2, <1>3, <1>4, <1>5, <1>6, <1>7, <1>8, <1>9, <1>10, <1>11, <1>12,
     <1>13, <1>14, <1>15 DEF Next

LEMMA PhasesStep == TypeOK /\ Phases /\ [Next]_vars => Phases'
<1> SUFFICES ASSUME TypeOK, Phases, [Next]_vars PROVE Phases'
  OBVIOUS
<1> USE DEF outVars, schedVars
<1>0. ASSUME NEW m \in Messages, Write(m), handler # "ended", handler' = "ended",
             drawn' = drawn, (finish' = "none" => finish = "none"), route' = route,
             gate # "new"
      PROVE  Phases'
  BY <1>0 DEF Write, Phases, TypeOK
<1>1. CASE EngineStep
  <2>1. handler # "new" /\ UNCHANGED <<route, items, handler, wire, gate, got, ends>>
    BY <1>1 DEF EngineStep, Phases
  <2>2. finish' = "none" => drawn' < MaxTokens
    BY <1>1, StreamAssumption DEF EngineStep, Phases, TypeOK
  <2>3. handler = "waiting" => finish' # "abandoned"
    BY <1>1 DEF EngineStep, Phases
  <2> QED
    BY <2>1, <2>2, <2>3 DEF Phases
<1>2. CASE PublishDeltas
  BY <1>2 DEF PublishDeltas, Phases
<1>3. CASE Keep
  BY <1>3 DEF Keep, Phases
<1>4. CASE Complete
  BY <1>4 DEF Complete, Phases
<1>5. CASE FailAll
  BY <1>5 DEF FailAll, Phases
<1>6. CASE Submit
  <2>1. CASE handler' = "waiting" /\ step' = "queued" /\ UNCHANGED outVars
    BY <1>6, <2>1 DEF Submit, Phases
  <2>2. CASE handler' = "ended" /\ Write(IF route = "gateway" THEN Mark("error")
                                         ELSE Rejection)
    BY <1>0, <1>6, <2>2, MarkFacts, WrittenMarks DEF Submit
  <2> QED
    BY <1>6, <2>1, <2>2 DEF Submit
<1>7. CASE Receive
  <2>1. /\ handler = "waiting" /\ UNCHANGED <<route, schedVars>>
        /\ gate # "new"
    BY <1>7 DEF Receive, Phases
  <2>2. CASE Head(items) # End
    BY <1>7, <2>1, <2>2 DEF Receive, Write, Phases
  <2>3. CASE Head(items) = End
    <3>1. \E m \in Messages : Write(m) /\ handler' = "ended"
      BY <1>7, <2>3, WrittenMarks DEF Receive, WriteError
    <3> QED
      BY <1>0, <2>1, <3>1
  <2> QED
    BY <2>2, <2>3
<1>8. CASE Timeout
  <2>1. /\ drawn' = drawn /\ route' = route /\ (finish' = "none" => finish = "none")
        /\ handler = "waiting" /\ handler' = "ended" /\ gate # "new"
    BY <1>8 DEF Timeout, Abandon, Phases
  <2>2. \E m \in Messages : Write(m)
    BY <1>8, WrittenMarks DEF Timeout, WriteError
  <2> QED
    BY <1>0, <2>1, <2>2
<1>9. CASE Cancelled
  <2>1. /\ drawn' = drawn /\ (finish' = "none" => finish = "none")
        /\ handler = "waiting" /\ handler' = "ended" /\ UNCHANGED <<route, outVars>>
    BY <1>9 DEF Cancelled, Abandon
  <2> QED
    BY <2>1 DEF Phases
<1>10. CASE Crash
  <2>1. handler = "waiting" /\ gate # "new" /\ \E m \in Messages : Write(m)
    BY <1>10, WrittenMarks DEF Crash, WriteError, Phases
  <2> QED
    BY <1>0, <1>10, <2>1 DEF Crash
<1>11. CASE Open
  BY <1>11 DEF Open, Phases, TypeOK
<1>12. CASE Relay
  BY <1>12 DEF Relay, Phases
<1>13. CASE GiveUp
  <2>1. got' = got
    BY <1>13, MarkFacts, ConcatEmptySeq DEF GiveUp, Pass, Marks, TypeOK
  <2> QED
    BY <1>13, <2>1 DEF GiveUp, Phases
<1>14. CASE HangUp
  BY <1>14 DEF HangUp, Phases
<1>15. CASE UNCHANGED vars
  BY <1>15 DEF vars, Phases
<1> QED
  BY <1>1, <1>2, <1>3, <1>4, <1>5, <1>6, <1>7, <1>8, <1>9, <1>10, <1>11, <1>12,
     <1>13, <1>14, <1>15 DEF Next

\* The generation ran to its own end, and all of its text is published.
Finished ==
    /\ step = "over" /\ finish \in {"stop", "length"}
    /\ published = Decode(output)

LEMMA FinishedStays ==
    ASSUME Phases, Finished, [Next]_vars
    PROVE  Finished' /\ output' = output
BY DEF Finished, Phases, Next, vars, schedVars, outVars, EngineStep, PublishDeltas, Keep,
       Complete, FailAll, Submit, Receive, Timeout, Abandon, Cancelled, Crash, Open,
       Relay, GiveUp, HangUp

\* The sentinel is the last item, and says that all has been published or that
\* the future holds an exception.
Sentinel ==
    \A i \in 1 .. Len(items) :
        IF items[i] = End
        THEN /\ i = Len(items) /\ step = "over"
             /\ failed \/ (finish # "none" /\ published = Decode(output))
        ELSE items[i].marks = << >>

LEMMA SentinelStep == TypeOK /\ Phases /\ Sentinel /\ [Next]_vars => Sentinel'
<1> SUFFICES ASSUME TypeOK, Phases, Sentinel, [Next]_vars PROVE Sentinel'
  OBVIOUS
<1> USE DEF outVars, schedVars
<1>0. items \in Seq(Messages) /\ Len(items) \in Nat
  BY DEF TypeOK
<1>1. ASSUME step # "over"
      PROVE  \A i \in 1 .. Len(items) : items[i] # End /\ items[i].marks = << >>
  BY <1>1 DEF Sentinel
<1>2. ASSUME step # "over", items' = items PROVE Sentinel'
  BY <1>1, <1>2 DEF Sentinel
<1>3. ASSUME step # "over", NEW m \in Messages, m # End, m.marks = << >>,
             items' = Append(items, m)
      PROVE  Sentinel'
  <2>1. \A i \in 1 .. Len(items') : items'[i] # End /\ items'[i].marks = << >>
    BY <1>0, <1>1, <1>3, AppendProperties
  <2> QED
    BY <2>1 DEF Sentinel
<1>4. ASSUME NEW q \in Seq(Messages),
             \A i \in 1 .. Len(q) : q[i] # End /\ q[i].marks = << >>,
             items' = Append(q, End), step' = "over",
             failed' \/ (finish' # "none" /\ published' = Decode(output'))
      PROVE  Sentinel'
  <2>1. /\ Len(items') = Len(q) + 1 /\ Len(q) \in Nat
        /\ items'[Len(q) + 1] = End
        /\ \A i \in 1 .. Len(q) : items'[i] # End /\ items'[i].marks = << >>
    BY <1>4, AppendProperties, MarkFacts
  <2> QED
    BY <1>4, <2>1 DEF Sentinel
<1>5. ASSUME items' = items, failed' = failed, published' = published, output' = output,
             step = "over" => step' = "over", finish' = "none" => finish = "none"
      PROVE  Sentinel'
  BY <1>5 DEF Sentinel
<1>6. ASSUME PublishDeltas \/ Complete
      PROVE  LET q == items \o Delta(Decode(output))
             IN  /\ q \in Seq(Messages)
                 /\ \A i \in 1 .. Len(q) : q[i] # End /\ q[i].marks = << >>
  <2>0. step # "over" /\ Decode(output) \in Seq(Chars) /\ published \in Seq(Chars)
    BY <1>6, DecodeType DEF PublishDeltas, Complete, TypeOK
  <2>1. Len(Decode(output)) \in Nat /\ Len(published) \in Nat
    BY <2>0
  <2>2. CASE Len(Decode(output)) <= Len(published)
    BY <1>0, <1>1, <2>0, <2>2, Published
  <2>3. CASE Len(Decode(output)) > Len(published)
    <3>1. PICK u \in Seq(Chars) : items \o Delta(Decode(output)) = Append(items, Text(u))
      BY <1>0, <2>0, <2>3, Published
    <3>2. Text(u) \in Messages /\ Text(u) # End /\ Text(u).marks = << >>
      BY MarkFacts
    <3> QED
      BY <1>0, <1>1, <2>0, <3>1, <3>2, AppendProperties
  <2> QED
    BY <2>1, <2>2, <2>3
<1>7. CASE EngineStep
  BY <1>2, <1>7 DEF EngineStep
<1>8. CASE PublishDeltas
  BY <1>6, <1>8 DEF PublishDeltas, Sentinel
<1>9. CASE Keep
  BY <1>5, <1>9 DEF Keep
<1>10. CASE Complete
  <2>1. items' = Append(items \o Delta(Decode(output)), End)
    BY <1>0, <1>10, DecodeType, Published DEF Complete, TypeOK
  <2> QED
    BY <1>4, <1>6, <1>10, <2>1 DEF Complete
<1>11. CASE FailAll
  BY <1>0, <1>1, <1>4, <1>11 DEF FailAll
<1>12. CASE Submit
  <2>1. items' = items /\ items = << >>
    BY <1>12 DEF Submit, Phases
  <2> QED
    BY <2>1 DEF Sentinel
<1>13. CASE Receive
  <2>1. /\ items # << >> /\ items' = Tail(items) /\ UNCHANGED schedVars
        /\ Len(items') = Len(items) - 1
        /\ \A i \in 1 .. Len(items') : items'[i] = items[i + 1]
    BY <1>0, <1>13, HeadTailProperties DEF Receive
  <2>2. \A i \in 1 .. Len(items') : i + 1 \in 1 .. Len(items)
    BY <1>0, <2>1
  <2>3. ASSUME NEW i \in 1 .. Len(items')
        PROVE  IF items'[i] = End
               THEN /\ i = Len(items') /\ step' = "over"
                    /\ failed' \/ (finish' # "none" /\ published' = Decode(output'))
               ELSE items'[i].marks = << >>
    <3>1. i + 1 \in 1 .. Len(items) /\ items'[i] = items[i + 1]
      BY <2>1, <2>2
    <3>2. CASE items[i + 1] = End
      <4>1. /\ i + 1 = Len(items) /\ step = "over"
            /\ failed \/ (finish # "none" /\ published = Decode(output))
        BY <3>1, <3>2 DEF Sentinel
      <4>2. i = Len(items')
        <5>1. Len(items') = Len(items) - 1 /\ Len(items) \in Nat /\ i \in Int
          BY <1>0, <2>1
        <5> QED
          BY <4>1, <5>1
      <4> QED
        BY <2>1, <3>1, <3>2, <4>1, <4>2
    <3>3. CASE items[i + 1] # End
      BY <3>1, <3>3 DEF Sentinel
    <3> QED
      BY <3>2, <3>3
  <2> QED
    BY <2>3 DEF Sentinel
<1>14. CASE Timeout \/ Cancelled
  <2>1. /\ UNCHANGED <<items, failed, published, output>>
        /\ step = "over" => step' = "over"
        /\ finish' = "none" => finish = "none"
    BY <1>14 DEF Timeout, Cancelled, Abandon
  <2> QED
    BY <1>5, <2>1
<1>15. CASE Crash \/ Open \/ Relay \/ GiveUp \/ HangUp \/ UNCHANGED vars
  <2>1. /\ UNCHANGED <<items, failed, published, output, finish>>
        /\ step = "over" => step' = "over"
    BY <1>15 DEF Crash, Open, Relay, GiveUp, HangUp, vars
  <2> QED
    BY <1>5, <2>1
<1> QED
  BY <1>7, <1>8, <1>9, <1>10, <1>11, <1>12, <1>13, <1>14, <1>15 DEF Next

-----------------------------------------------------------------------------
(* Endings *)

\* What ends the stream is the last word of the handler, which says "done" for
\* a finished generation only.
LastWord ==
    \A i \in 1 .. Len(wire) : wire[i].marks # << >> =>
        /\ i = Len(wire) /\ handler = "ended"
        /\ wire[i].marks \in {<<"error">>, <<"done">>}
        /\ wire[i].marks = <<"done">> => Finished

\* What the handler says when it ends.
LastMark(m) ==
    /\ handler # "ended" /\ handler' = "ended" /\ Write(m)
    /\ \/ m = Mark("done") /\ handler = "waiting" /\ items # << >> /\ Head(items) = End
          /\ ~failed /\ UNCHANGED schedVars
       \/ m = Mark("error") /\ route = "gateway"
       \/ m = Mark("cut") /\ route = "http" /\ handler = "waiting"
       \/ m = Rejection /\ route = "http" /\ handler = "new"

\* What a step can add to the stream, on the handler's side.
LEMMA HandlerWrites ==
    ASSUME TypeOK, Submit \/ Receive \/ Timeout \/ Crash
    PROVE  /\ route' = route /\ output' = output /\ published' = published
           /\ online' = online /\ gate' = gate
           /\ \/ handler' = "waiting" /\ handler = "new" /\ items' = items /\ UNCHANGED outVars
              \/ /\ handler' = handler /\ handler = "waiting" /\ UNCHANGED schedVars
                 /\ items # << >> /\ Head(items) # End
                 /\ items' = Tail(items) /\ Write(Head(items))
              \/ \E m \in Messages : LastMark(m)
<1> USE DEF schedVars, outVars
<1>0. route \in {"gateway", "http"}
  BY DEF TypeOK
<1>1. CASE Submit
  <2>1. Write(IF route = "gateway" THEN Mark("error") ELSE Rejection) =>
            online' = online /\ gate' = gate
    BY DEF Write
  <2> QED
    BY <1>0, <1>1, <2>1, MarkFacts, WrittenMarks DEF Submit, LastMark
<1>2. CASE Receive
  <2>1. \A m : Write(m) => online' = online /\ gate' = gate
    BY DEF Write
  <2>2. CASE Head(items) # End
    BY <1>2, <2>1, <2>2 DEF Receive
  <2>3. CASE Head(items) = End
    BY <1>0, <1>2, <2>1, <2>3, WrittenMarks DEF Receive, WriteError, LastMark
  <2> QED
    BY <2>2, <2>3
<1>3. CASE Timeout \/ Crash
  <2>1. /\ handler = "waiting" /\ handler' = "ended"
        /\ Write(Mark(IF route = "gateway" THEN "error" ELSE "cut"))
        /\ UNCHANGED <<route, output, published>>
    BY <1>3 DEF Timeout, Abandon, Crash, WriteError
  <2>2. online' = online /\ gate' = gate
    BY <2>1 DEF Write
  <2> QED
    BY <1>0, <2>1, <2>2, WrittenMarks DEF LastMark
<1> QED
  BY <1>1, <1>2, <1>3

LEMMA LastMarkFacts ==
    ASSUME TypeOK, Phases, Sentinel, NEW m \in Messages, LastMark(m)
    PROVE  /\ m.text = << >> /\ m.marks # << >>
           /\ route = "gateway" => m.marks \in {<<"error">>, <<"done">>}
           /\ m.marks = <<"done">> => Finished /\ Tail(items) = << >>
           /\ Len(m.marks) > 1 => route = "http" /\ handler = "new"
<1>1. /\ <<"done">> # << >> /\ <<"error">> # << >> /\ <<"cut">> # << >>
      /\ <<"error">> # <<"done">> /\ <<"cut">> # <<"done">>
      /\ Len(<<"done">>) = 1 /\ Len(<<"error">>) = 1 /\ Len(<<"cut">>) = 1
      /\ <<"error", "done">> # << >> /\ <<"error", "done">> # <<"done">>
      /\ {"done", "error", "cut"} \subseteq Marks
  BY DEF Marks
<1>2. CASE m = Mark("done")
  <2>1. /\ handler = "waiting" /\ items # << >> /\ Head(items) = End /\ ~failed
        /\ m.text = << >> /\ m.marks = <<"done">>
    <3>1. m.text = << >> /\ m.marks = <<"done">>
      BY <1>1, <1>2, MarkFacts
    <3> QED
      BY <1>1, <1>2, <3>1, MarkFacts DEF LastMark
  <2>2. items \in Seq(Messages) /\ Len(items) \in Nat /\ Len(items) > 0 /\ items[1] = End
    BY <2>1, HeadTailProperties DEF TypeOK
  <2>3. /\ 1 = Len(items) /\ step = "over"
        /\ finish # "none" /\ published = Decode(output)
    <3>1. 1 \in 1 .. Len(items)
      BY <2>2
    <3> QED
      BY <2>1, <2>2, <3>1 DEF Sentinel
  <2>4. Finished
    BY <2>1, <2>3 DEF Finished, Phases, TypeOK
  <2>5. Tail(items) = << >>
    <3>1. Tail(items) \in Seq(Messages) /\ Len(Tail(items)) = Len(items) - 1
      BY <2>1, <2>2, HeadTailProperties
    <3>2. Len(Tail(items)) = 0
      BY <2>3, <3>1
    <3> QED
      BY <3>1, <3>2, EmptySeq
  <2> QED
    BY <1>1, <2>1, <2>4, <2>5
<1>3. CASE m = Mark("error")
  <2>1. m.text = << >> /\ m.marks = <<"error">>
    BY <1>1, <1>3, MarkFacts
  <2> QED
    BY <1>1, <2>1
<1>4. CASE m = Mark("cut") /\ route = "http"
  <2>1. m.text = << >> /\ m.marks = <<"cut">>
    BY <1>1, <1>4, MarkFacts
  <2>2. /\ m.marks # << >> /\ m.marks # <<"done">> /\ Len(m.marks) = 1
        /\ route # "gateway"
    BY <1>1, <1>4, <2>1
  <2> QED
    BY <2>1, <2>2
<1>5. CASE m = Rejection /\ route = "http" /\ handler = "new"
  <2>1. m.text = << >> /\ m.marks = <<"error", "done">>
    BY <1>5, MarkFacts
  <2> QED
    BY <1>1, <1>5, <2>1
<1> QED
  BY <1>2, <1>3, <1>4, <1>5 DEF LastMark

LEMMA LastWordStep ==
    TypeOK /\ Phases /\ Sentinel /\ LastWord /\ [Next]_vars => LastWord'
<1> SUFFICES ASSUME TypeOK, Phases, Sentinel, LastWord, [Next]_vars PROVE LastWord'
  OBVIOUS
<1> USE DEF outVars, schedVars
<1>0. /\ wire \in Seq(Messages) /\ Len(wire) \in Nat /\ route \in {"gateway", "http"}
      /\ Finished => Finished'
  BY FinishedStays DEF TypeOK
<1>1. ASSUME wire' = wire, handler = "ended" => handler' = "ended" PROVE LastWord'
  BY <1>0, <1>1 DEF LastWord
<1>2. ASSUME NEW m \in Messages, wire' = Append(wire, m), handler # "ended",
             m.marks # << >> => /\ handler' = "ended"
                                /\ m.marks \in {<<"error">>, <<"done">>}
                                /\ m.marks = <<"done">> => Finished
      PROVE  LastWord'
  <2>1. /\ Len(wire') = Len(wire) + 1 /\ wire'[Len(wire) + 1] = m
        /\ \A i \in 1 .. Len(wire) : wire'[i] = wire[i]
    BY <1>0, <1>2, AppendProperties
  <2>2. \A i \in 1 .. Len(wire) : wire'[i].marks = << >>
    BY <1>2, <2>1 DEF LastWord
  <2>3. \A i \in 1 .. Len(wire') : wire'[i].marks # << >> => i = Len(wire') /\ wire'[i] = m
    BY <1>0, <2>1, <2>2
  <2> QED
    BY <1>0, <1>2, <2>3 DEF LastWord
<1>3. CASE Submit \/ Receive \/ Timeout \/ Crash
  <2>1. CASE UNCHANGED outVars /\ handler' = "waiting" /\ handler = "new"
    BY <1>1, <2>1
  <2>2. CASE /\ handler' = handler /\ handler = "waiting" /\ items # << >>
             /\ Head(items) # End /\ Write(Head(items))
    <3>1. Head(items) \in Messages /\ Head(items).marks = << >>
      BY <2>2, HeadTailProperties DEF TypeOK, Sentinel
    <3>2. CASE route = "gateway"
      BY <1>2, <2>2, <3>1, <3>2 DEF Write
    <3>3. CASE route = "http"
      BY <1>1, <2>2, <3>3 DEF Write
    <3> QED
      BY <1>0, <3>2, <3>3
  <2>3. ASSUME NEW m \in Messages, LastMark(m) PROVE LastWord'
    <3>1. handler # "ended" /\ handler' = "ended" /\ Write(m)
      BY <2>3 DEF LastMark
    <3>2. CASE route = "gateway"
      <4>1. wire' = Append(wire, m)
        BY <3>1, <3>2 DEF Write
      <4>2. /\ m.marks \in {<<"error">>, <<"done">>}
            /\ m.marks = <<"done">> => Finished
        BY <2>3, <3>2, LastMarkFacts
      <4> QED
        BY <1>2, <3>1, <4>1, <4>2
    <3>3. CASE route = "http"
      BY <1>1, <3>1, <3>3 DEF Write
    <3> QED
      BY <1>0, <3>2, <3>3
  <2> QED
    BY <1>3, <2>1, <2>2, <2>3, HandlerWrites
<1>4. CASE Relay
  <2>1. /\ Len(wire') = Len(wire) - 1 /\ handler' = handler
        /\ \A i \in 1 .. Len(wire') : wire'[i] = wire[i + 1] /\ i + 1 \in 1 .. Len(wire)
    BY <1>0, <1>4, HeadTailProperties DEF Relay
  <2>2. ASSUME NEW i \in 1 .. Len(wire'), wire'[i].marks # << >>
        PROVE  /\ i = Len(wire') /\ handler' = "ended"
               /\ wire'[i].marks \in {<<"error">>, <<"done">>}
               /\ wire'[i].marks = <<"done">> => Finished'
    <3>1. /\ i + 1 = Len(wire) /\ handler = "ended"
          /\ wire'[i].marks \in {<<"error">>, <<"done">>}
          /\ wire'[i].marks = <<"done">> => Finished
      BY <2>1, <2>2 DEF LastWord
    <3>2. Len(wire') = Len(wire) - 1 /\ i \in Int
      BY <1>0, <2>1
    <3>3. i = Len(wire')
      BY <1>0, <3>1, <3>2
    <3> QED
      BY <1>0, <2>1, <3>1, <3>3
  <2> QED
    BY <2>2 DEF LastWord
<1>5. CASE GiveUp
  BY <1>5 DEF GiveUp, LastWord
<1>6. CASE EngineStep \/ PublishDeltas \/ Keep \/ Complete \/ FailAll
  BY <1>1, <1>6 DEF EngineStep, PublishDeltas, Keep, Complete, FailAll
<1>7. CASE Cancelled \/ Open \/ HangUp \/ UNCHANGED vars
  BY <1>1, <1>7 DEF Cancelled, Open, HangUp, vars
<1> QED
  BY <1>3, <1>4, <1>5, <1>6, <1>7 DEF Next

-----------------------------------------------------------------------------
(* The text on its way *)

\* Whether what is on its way will be read by the client.
Listening == online /\ (route = "gateway" => gate # "closed")

DoneSent == \E i \in 1 .. Len(wire) : wire[i].marks = <<"done">>

\* The messages lie behind what the client got, up to c, and the items from
\* there to the end of what is published.
OnItsWay(c) ==
    /\ Laid(wire, Len(got), c, Decode(output))
    /\ handler # "ended" => Laid(items, c, Len(published), Decode(output))
    /\ DoneSent => c = Len(Decode(output))

Flow ==
    /\ Lies(published, Decode(output), 0)
    /\ Lies(got, Decode(output), 0)
    /\ Listening => \E c \in Nat : OnItsWay(c)

\* A message without text takes no room.
LEMMA EmptyLaid ==
    ASSUME NEW q \in Seq(Messages), NEW m \in Messages, m.text = << >>,
           NEW a \in Nat, NEW b \in Nat, NEW y \in Seq(Chars), Laid(q, a, b, y)
    PROVE  Laid(Append(q, m), a, b, y)
<1>1. b <= Len(y)
  BY DEF Laid
<1>2. Lies(m.text, y, b)
  BY <1>1, NothingLies
<1>3. Len(m.text) = 0 /\ b + 0 = b
  OBVIOUS
<1> QED
  BY <1>2, <1>3, OneMoreLaid

\* What is published now lies behind the items.
LEMMA DeltaLaid ==
    ASSUME items \in Seq(Messages), published \in Seq(Chars), NEW y \in Seq(Chars),
           Lies(published, y, 0), NEW c \in Nat, Laid(items, c, Len(published), y)
    PROVE  items \o Delta(y) \in Seq(Messages) /\ Laid(items \o Delta(y), c, Len(y), y)
<1>1. Len(published) \in Nat /\ Len(y) \in Nat /\ Len(published) <= Len(y)
  BY DEF Lies
<1>2. CASE Len(y) <= Len(published)
  <2>1. Len(published) = Len(y)
    BY <1>1, <1>2
  <2> QED
    BY <1>2, <2>1, Published
<1>3. CASE Len(y) > Len(published)
  <2>1. PICK u \in Seq(Chars) :
            /\ items \o Delta(y) = Append(items, Text(u))
            /\ Len(u) = Len(y) - Len(published)
            /\ \A i \in 1 .. Len(u) : u[i] = y[Len(published) + i]
    BY <1>3, Published
  <2>2. Text(u) \in Messages /\ Text(u).text = u
    BY MarkFacts
  <2>3. Len(published) + Len(u) = Len(y)
    BY <1>1, <2>1
  <2>4. Lies(Text(u).text, y, Len(published))
    <3>1. /\ Len(published) + Len(u) <= Len(y)
          /\ \A i \in 1 .. Len(u) : Shows(u[i], y[Len(published) + i])
      BY <1>1, <2>1, <2>3 DEF Shows
    <3>2. Lies(u, y, Len(published))
      BY <3>1 DEF Lies
    <3> QED
      BY <2>2, <3>2
  <2>5. Laid(Append(items, Text(u)), c, Len(published) + Len(Text(u).text), y)
    BY <1>1, <2>2, <2>4, OneMoreLaid
  <2> QED
    BY <2>1, <2>2, <2>3, <2>5, Published
<1> QED
  BY <1>1, <1>2, <1>3

LEMMA Wrote ==
    ASSUME TypeOK, Phases, NEW m \in Messages, Write(m)
    PROVE  /\ route = "gateway" => wire' = Append(wire, m) /\ UNCHANGED <<got, ends>>
           /\ route = "http" => /\ wire = << >> /\ wire' = << >>
                                /\ online => got' = got \o m.text /\ ends' = ends \o m.marks
                                /\ ~online => UNCHANGED <<got, ends>>
           /\ UNCHANGED <<gate, online>>
BY DEF Write, Pass, Phases

LEMMA Passed ==
    ASSUME TypeOK, NEW m \in Messages, Pass(m), m.text = << >>
    PROVE  got' = got
<1>1. got \o << >> = got
  BY ConcatEmptySeq DEF TypeOK
<1> QED
  BY <1>1 DEF Pass

\* Nothing but the last message is a mark, and after it nothing is written.
LEMMA NoDoneYet ==
    ASSUME LastWord, handler # "ended" PROVE ~DoneSent
BY DEF LastWord, DoneSent

\* "done" comes after all items.
LEMMA DoneIsLast ==
    ASSUME TypeOK, Phases, Sentinel, NEW m \in Messages, LastMark(m), m.marks = <<"done">>,
           NEW c \in Nat, Laid(items, c, Len(published), Decode(output))
    PROVE  c = Len(Decode(output))
<1>1. Finished /\ Tail(items) = << >> /\ items # << >> /\ Head(items) = End
  <2>1. Finished /\ Tail(items) = << >>
    BY LastMarkFacts
  <2>2. m = Mark("done") \/ m = Mark("error") \/ m = Mark("cut") \/ m = Rejection
    BY DEF LastMark
  <2>3. {"error", "cut", "done"} \subseteq Marks
    BY DEF Marks
  <2>4. m # Mark("error") /\ m # Mark("cut") /\ m # Rejection
    BY <2>3, MarkFacts
  <2> QED
    BY <2>1, <2>2, <2>4 DEF LastMark
<1>2. items \in Seq(Messages) /\ output \in Seq(Bytes) /\ published \in Seq(Chars)
  BY DEF TypeOK
<1>3. Decode(output) \in Seq(Chars) /\ Len(published) \in Nat
  BY <1>2, DecodeType
<1>4. End.text = << >> /\ Len(<< >>) = 0 /\ c + 0 = c
  BY MarkFacts
<1>5. Laid(<< >>, c, Len(published), Decode(output))
  <2>1. Laid(Tail(items), c + Len(Head(items).text), Len(published), Decode(output))
    BY <1>1, <1>2, <1>3, FirstLaid
  <2> QED
    BY <1>1, <1>4, <2>1
<1>6. c <= Len(Decode(output))
  BY <1>5, <1>3 DEF Laid
<1>7. c = Len(published)
  BY <1>3, <1>5, <1>6, NoneLaid
<1> QED
  BY <1>1, <1>7 DEF Finished

LEMMA FlowStep ==
    TypeOK /\ Phases /\ Sentinel /\ LastWord /\ Flow /\ [Next]_vars => Flow'
<1> SUFFICES ASSUME TypeOK, Phases, Sentinel, LastWord, Flow, [Next]_vars PROVE Flow'
  OBVIOUS
<1> USE DEF outVars, schedVars
<1>0. /\ wire \in Seq(Messages) /\ items \in Seq(Messages)
      /\ got \in Seq(Chars) /\ published \in Seq(Chars) /\ output \in Seq(Bytes)
      /\ Len(got) \in Nat /\ Len(published) \in Nat
      /\ Decode(output) \in Seq(Chars) /\ Len(Decode(output)) \in Nat
      /\ route \in {"gateway", "http"}
  BY DecodeType DEF TypeOK
<1>1. ASSUME UNCHANGED <<output, published, got, wire>>, Listening' => Listening,
             handler' # "ended" => handler # "ended" /\ items' = items
      PROVE  Flow'
  BY <1>1 DEF Flow, OnItsWay, DoneSent
<1>2. ASSUME UNCHANGED <<output, published, got>>, ~Listening' PROVE Flow'
  BY <1>2 DEF Flow
<1>3. ASSUME UNCHANGED <<route, output, got, wire, handler, online, gate>>,
             published' \in Seq(Chars), Lies(published', Decode(output), 0),
             \A c \in Nat : Laid(items, c, Len(published), Decode(output)) =>
                            Laid(items', c, Len(published'), Decode(output))
      PROVE  Flow'
  BY <1>3 DEF Flow, OnItsWay, DoneSent, Listening
<1>4. CASE EngineStep
  <2>1. /\ UNCHANGED <<route, published, items, handler, wire, gate, online, got>>
        /\ step # "over"
    BY <1>4 DEF EngineStep
  <2>2. \E t \in Seq(Bytes) : output' = output \o t
    <3>1. output \o << >> = output /\ << >> \in Seq(Bytes)
      BY <1>0, ConcatEmptySeq
    <3> QED
      BY <1>4, <3>1, StreamAssumption DEF EngineStep, EOS
  <2>3. PICK z \in Seq(Chars) : z = Decode(output') /\ Lies(Decode(output), z, 0)
    BY <1>0, <2>2, DecodeGrows
  <2>4. Lies(published, z, 0) /\ Lies(got, z, 0)
    BY <1>0, <2>3, LiesTransitive DEF Flow
  <2>5. ~DoneSent
    <3>1. \A i \in 1 .. Len(wire) : wire[i].marks = <<"done">> => step = "over"
      <4>1. <<"done">> # << >>
        OBVIOUS
      <4> QED
        BY <4>1 DEF LastWord, Finished
    <3> QED
      BY <2>1, <3>1 DEF DoneSent
  <2>6. ASSUME NEW c \in Nat, OnItsWay(c) PROVE OnItsWay(c)'
    <3>1. Laid(wire, Len(got), c, z)
      BY <1>0, <2>3, <2>6, StillLaid DEF OnItsWay
    <3>2. handler # "ended" => Laid(items, c, Len(published), z)
      BY <1>0, <2>3, <2>6, StillLaid DEF OnItsWay
    <3> QED
      BY <2>1, <2>3, <2>5, <3>1, <3>2 DEF OnItsWay, DoneSent
  <2> QED
    BY <2>1, <2>3, <2>4, <2>6 DEF Flow, Listening
<1>5. CASE PublishDeltas \/ Complete
  <2>1. /\ UNCHANGED <<route, output, got, wire, handler, online, gate>>
        /\ published' = Decode(output)
    BY <1>5 DEF PublishDeltas, Complete
  <2>2. Lies(published', Decode(output), 0) /\ Lies(published, Decode(output), 0)
    BY <1>0, <2>1, LiesInItself DEF Flow
  <2>3. ASSUME NEW c \in Nat, Laid(items, c, Len(published), Decode(output))
        PROVE  Laid(items', c, Len(published'), Decode(output))
    <3>1. /\ items \o Delta(Decode(output)) \in Seq(Messages)
          /\ Laid(items \o Delta(Decode(output)), c, Len(Decode(output)), Decode(output))
      BY <1>0, <2>2, <2>3, DeltaLaid
    <3>2. CASE PublishDeltas
      BY <2>1, <3>1, <3>2 DEF PublishDeltas
    <3>3. CASE Complete
      <4>1. items' = Append(items \o Delta(Decode(output)), End)
        BY <1>0, <3>3, Published DEF Complete
      <4>2. Laid(items', c, Len(Decode(output)), Decode(output))
        BY <1>0, <3>1, <4>1, MarkFacts, EmptyLaid
      <4> QED
        BY <2>1, <4>2
    <3> QED
      BY <1>5, <3>2, <3>3
  <2> QED
    BY <1>0, <1>3, <2>1, <2>2, <2>3
<1>6. CASE FailAll
  <2>1. /\ UNCHANGED <<route, output, published, got, wire, handler, online, gate>>
        /\ items' = Append(items, End)
    BY <1>6 DEF FailAll
  <2>2. ASSUME NEW c \in Nat, Laid(items, c, Len(published), Decode(output))
        PROVE  Laid(items', c, Len(published), Decode(output))
    BY <1>0, <2>1, <2>2, MarkFacts, EmptyLaid
  <2> QED
    BY <1>0, <1>3, <2>1, <2>2 DEF Flow
<1>7. CASE Submit \/ Receive \/ Timeout \/ Crash
  <2>0. /\ UNCHANGED <<route, output, published, online, gate>>
        /\ Listening' = Listening
    BY <1>7, HandlerWrites DEF Listening
  <2>1. CASE handler' = "waiting" /\ handler = "new" /\ items' = items /\ UNCHANGED outVars
    BY <1>1, <2>0, <2>1
  <2>2. CASE /\ handler' = handler /\ handler = "waiting"
             /\ items # << >> /\ Head(items) # End
             /\ items' = Tail(items) /\ Write(Head(items))
    <3>1. /\ Head(items) \in Messages /\ Head(items).marks = << >>
          /\ Head(items).text \in Seq(Chars)
      <4>1. /\ Head(items) \in Messages /\ Head(items) = items[1]
            /\ Len(items) \in Nat /\ Len(items) > 0
        BY <1>0, <2>2, HeadTailProperties, EmptySeq
      <4>2. 1 \in 1 .. Len(items)
        BY <4>1
      <4>3. Head(items).marks = << >>
        BY <2>2, <4>1, <4>2 DEF Sentinel
      <4> QED
        BY <4>1, <4>3 DEF Messages
    <3>2. ASSUME NEW c \in Nat, OnItsWay(c)
          PROVE  /\ Lies(Head(items).text, Decode(output), c)
                 /\ c + Len(Head(items).text) \in Nat
                 /\ Laid(items', c + Len(Head(items).text), Len(published), Decode(output))
      BY <1>0, <2>2, <3>2, FirstLaid DEF OnItsWay
    <3>3. CASE route = "gateway"
      <4>1. wire' = Append(wire, Head(items)) /\ got' = got
        BY <2>2, <3>1, <3>3, Wrote
      <4>2. ~DoneSent'
        <5>1. /\ Len(wire') = Len(wire) + 1 /\ Len(wire) \in Nat
              /\ wire'[Len(wire) + 1] = Head(items)
              /\ \A i \in 1 .. Len(wire) : wire'[i] = wire[i]
          BY <1>0, <3>1, <4>1, AppendProperties
        <5>2. \A i \in 1 .. Len(wire) : wire[i].marks # <<"done">>
          BY <2>2, NoDoneYet DEF DoneSent
        <5>3. << >> # <<"done">>
          OBVIOUS
        <5>4. ASSUME NEW i \in 1 .. Len(wire') PROVE wire'[i].marks # <<"done">>
          <6>1. i = Len(wire) + 1 \/ i \in 1 .. Len(wire)
            BY <5>1
          <6> QED
            BY <3>1, <5>1, <5>2, <5>3, <6>1
        <5> QED
          BY <5>4 DEF DoneSent
      <4>3. ASSUME NEW c \in Nat, OnItsWay(c),
                   NEW d \in Nat, d = c + Len(Head(items).text)
            PROVE  OnItsWay(d)'
        <5>1. Laid(wire', Len(got), d, Decode(output))
          BY <1>0, <3>1, <3>2, <4>1, <4>3, OneMoreLaid DEF OnItsWay
        <5> QED
          BY <2>0, <2>2, <3>2, <4>1, <4>2, <4>3, <5>1 DEF OnItsWay
      <4> QED
        BY <2>0, <3>2, <4>1, <4>3 DEF Flow
    <3>4. CASE route = "http"
      <4>1. wire = << >> /\ wire' = << >>
        BY <2>2, <3>1, <3>4, Wrote
      <4>2. CASE ~online
        BY <1>2, <2>0, <2>2, <3>1, <3>4, <4>2, Wrote DEF Listening
      <4>3. CASE online
        <5>1. got' = got \o Head(items).text /\ Listening
          BY <2>2, <3>1, <3>4, <4>3, Wrote DEF Listening
        <5>2. PICK c \in Nat : OnItsWay(c)
          BY <5>1 DEF Flow
        <5>3. c = Len(got)
          BY <1>0, <4>1, <5>2, NoneLaid DEF OnItsWay, Flow, Lies
        <5>4. /\ got' \in Seq(Chars) /\ Len(got') = Len(got) + Len(Head(items).text)
              /\ Lies(got', Decode(output), 0)
          BY <1>0, <3>1, <3>2, <5>1, <5>2, <5>3, LiesJoined DEF Flow
        <5>5. Laid(wire', Len(got'), Len(got'), Decode(output))
          BY <1>0, <4>1, <5>4, NoneLaid DEF Lies
        <5>6. ~DoneSent'
          BY <4>1 DEF DoneSent
        <5>7. OnItsWay(Len(got))'
          BY <2>0, <3>2, <5>2, <5>3, <5>4, <5>5, <5>6 DEF OnItsWay
        <5> QED
          BY <2>0, <5>4, <5>7 DEF Flow
      <4> QED
        BY <4>2, <4>3
    <3> QED
      BY <1>0, <3>3, <3>4
  <2>3. ASSUME NEW m \in Messages, LastMark(m) PROVE Flow'
    <3>1. m.text = << >> /\ Write(m) /\ handler # "ended" /\ handler' = "ended"
      BY <2>3, LastMarkFacts DEF LastMark
    <3>2. CASE route = "gateway"
      <4>1. wire' = Append(wire, m) /\ got' = got
        BY <3>1, <3>2, Wrote
      <4>2. ASSUME NEW c \in Nat, OnItsWay(c) PROVE OnItsWay(c)'
        <5>1. Laid(wire', Len(got), c, Decode(output))
          BY <1>0, <3>1, <4>1, <4>2, EmptyLaid DEF OnItsWay
        <5>2. ASSUME DoneSent' PROVE c = Len(Decode(output))
          <6>1. /\ Len(wire') = Len(wire) + 1 /\ Len(wire) \in Nat
                /\ wire'[Len(wire) + 1] = m
                /\ \A i \in 1 .. Len(wire) : wire'[i] = wire[i]
            BY <1>0, <4>1, AppendProperties
          <6>2. PICK i \in 1 .. Len(wire') : wire'[i].marks = <<"done">>
            BY <5>2 DEF DoneSent
          <6>3. \A j \in 1 .. Len(wire) : wire[j].marks # <<"done">>
            BY <3>1, NoDoneYet DEF DoneSent
          <6>4. i = Len(wire) + 1 \/ i \in 1 .. Len(wire)
            BY <6>1
          <6>5. m.marks = <<"done">>
            BY <6>1, <6>2, <6>3, <6>4
          <6> QED
            BY <2>3, <3>1, <4>2, <6>5, DoneIsLast DEF OnItsWay
        <5> QED
          BY <2>0, <3>1, <4>1, <5>1, <5>2 DEF OnItsWay
      <4> QED
        BY <2>0, <4>1, <4>2 DEF Flow
    <3>3. CASE route = "http"
      <4>1. got' = got /\ wire' = wire
        BY <1>0, <3>1, <3>3, Wrote, ConcatEmptySeq
      <4> QED
        BY <1>1, <2>0, <3>1, <4>1
    <3> QED
      BY <1>0, <3>2, <3>3
  <2> QED
    BY <1>7, <2>1, <2>2, <2>3, HandlerWrites
<1>8. CASE Relay
  <2>1. /\ gate = "reading" /\ wire # << >> /\ wire' = Tail(wire)
        /\ UNCHANGED <<route, output, published, items, handler, online>>
        /\ gate' = IF Head(wire).marks = << >> THEN "reading" ELSE "closed"
        /\ Head(wire) \in Messages /\ Head(wire).text \in Seq(Chars)
        /\ Pass(Head(wire))
        /\ \A i \in 1 .. Len(wire') : wire'[i] = wire[i + 1] /\ i + 1 \in 1 .. Len(wire)
    <3>1. /\ Head(wire) \in Messages /\ Len(Tail(wire)) = Len(wire) - 1 /\ Len(wire) \in Nat
          /\ \A i \in 1 .. Len(Tail(wire)) : Tail(wire)[i] = wire[i + 1]
      BY <1>0, <1>8, HeadTailProperties DEF Relay
    <3>2. \A i \in 1 .. Len(Tail(wire)) : i + 1 \in 1 .. Len(wire)
      BY <3>1
    <3>3. Head(wire).text \in Seq(Chars)
      BY <3>1 DEF Messages
    <3> QED
      BY <1>8, <3>1, <3>2, <3>3 DEF Relay
  <2>2. CASE ~online
    BY <1>2, <2>1, <2>2 DEF Pass, Listening
  <2>3. CASE online
    <3>1. got' = got \o Head(wire).text
      BY <2>1, <2>3 DEF Pass
    <3>2. PICK c \in Nat : OnItsWay(c)
      BY <2>1, <2>3 DEF Listening, Flow
    <3>3. /\ Lies(Head(wire).text, Decode(output), Len(got))
          /\ Laid(wire', Len(got) + Len(Head(wire).text), c, Decode(output))
      BY <1>0, <2>1, <3>2, FirstLaid DEF OnItsWay
    <3>4. /\ Len(got') = Len(got) + Len(Head(wire).text)
          /\ Lies(got', Decode(output), 0)
      BY <1>0, <2>1, <3>1, <3>3, LiesJoined DEF Flow
    <3>5. DoneSent' => DoneSent
      BY <2>1 DEF DoneSent
    <3>6. OnItsWay(c)'
      BY <2>1, <3>2, <3>3, <3>4, <3>5 DEF OnItsWay
    <3> QED
      BY <2>1, <3>4, <3>6 DEF Flow
  <2> QED
    BY <2>2, <2>3
<1>9. CASE GiveUp
  <2>1. got' = got
    BY <1>9, Passed, WrittenMarks, MarkFacts DEF GiveUp, Marks
  <2>2. route = "gateway"
    BY <1>0, <1>9 DEF GiveUp, Phases
  <2> QED
    BY <1>2, <1>9, <2>1, <2>2 DEF GiveUp, Listening
<1>10. CASE Open
  <2>1. route = "gateway"
    BY <1>0, <1>10 DEF Open, Phases
  <2>2. CASE gate' = "reading" /\ UNCHANGED <<handler, got, ends>>
    BY <1>1, <1>10, <2>1, <2>2 DEF Open, Listening
  <2>3. CASE gate' = "closed" /\ Pass(Mark("refused"))
    <3>1. got' = got
      BY <2>3, Passed, WrittenMarks, MarkFacts DEF Marks
    <3> QED
      BY <1>2, <1>10, <2>1, <2>3, <3>1 DEF Open, Listening
  <2> QED
    BY <1>10, <2>2, <2>3 DEF Open
<1>11. CASE Keep \/ Cancelled \/ HangUp \/ UNCHANGED vars
  <2>1. /\ UNCHANGED <<output, published, got, wire>> /\ (Listening' => Listening)
        /\ handler' # "ended" => handler # "ended" /\ items' = items
    BY <1>11 DEF Keep, Cancelled, Abandon, HangUp, vars, Listening
  <2> QED
    BY <1>1, <2>1
<1> QED
  BY <1>4, <1>5, <1>6, <1>7, <1>8, <1>9, <1>10, <1>11 DEF Next

-----------------------------------------------------------------------------
(* What the client is told *)

Told ==
    /\ ends # << >> => IF route = "gateway" THEN gate = "closed" ELSE handler = "ended"
    /\ Len(ends) > 1 => route = "http" /\ got = << >>
    /\ ends = <<"done">> => Finished /\ Len(got) = Len(Decode(output))

\* A stream that has ended stays as it is.
LEMMA EndStays ==
    ASSUME TypeOK, Phases, Told, ends # << >>, [Next]_vars
    PROVE  /\ UNCHANGED <<got, ends>>
           /\ IF route' = "gateway" THEN gate' = "closed" ELSE handler' = "ended"
<1> USE DEF outVars, schedVars
<1>1. IF route = "gateway" THEN gate = "closed" ELSE handler = "ended"
  BY DEF Told
<1>2. CASE Submit \/ Receive \/ Timeout \/ Crash
  <2>1. UNCHANGED <<route, gate>> /\ handler # "ended"
    BY <1>2, HandlerWrites DEF Submit, Receive, Timeout, Crash
  <2>2. route = "gateway"
    BY <1>1, <2>1
  <2>3. UNCHANGED outVars \/ \E m \in Messages : Write(m)
    <3>1. items # << >> => Head(items) \in Messages
      BY HeadTailProperties DEF TypeOK
    <3> QED
      BY <1>2, <3>1, HandlerWrites DEF LastMark
  <2> QED
    BY <1>1, <2>1, <2>2, <2>3, Wrote
<1>3. CASE Open \/ Relay \/ GiveUp
  BY <1>1, <1>3 DEF Open, Relay, GiveUp, Phases, TypeOK
<1>4. CASE EngineStep \/ PublishDeltas \/ Keep \/ Complete \/ FailAll
  BY <1>1, <1>4 DEF EngineStep, PublishDeltas, Keep, Complete, FailAll
<1>5. CASE Cancelled \/ HangUp \/ UNCHANGED vars
  BY <1>1, <1>5 DEF Cancelled, HangUp, vars
<1> QED
  BY <1>2, <1>3, <1>4, <1>5 DEF Next

LEMMA ToldStep ==
    TypeOK /\ Phases /\ Sentinel /\ LastWord /\ Flow /\ Told /\ [Next]_vars => Told'
<1> SUFFICES ASSUME TypeOK, Phases, Sentinel, LastWord, Flow, Told, [Next]_vars
             PROVE  Told'
  OBVIOUS
<1> USE DEF outVars, schedVars
<1>0. /\ wire \in Seq(Messages) /\ items \in Seq(Messages)
      /\ got \in Seq(Chars) /\ ends \in Seq(Marks)
      /\ Len(got) \in Nat /\ Len(published) \in Nat
      /\ Decode(output) \in Seq(Chars) /\ Len(Decode(output)) \in Nat
      /\ route \in {"gateway", "http"}
      /\ Len(<< >>) = 0 /\ << >> # <<"done">>
  BY DecodeType DEF TypeOK
<1>1. CASE ends # << >>
  <2>1. /\ UNCHANGED <<got, ends>>
        /\ IF route' = "gateway" THEN gate' = "closed" ELSE handler' = "ended"
    BY <1>1, EndStays
  <2>2. route' = route
    BY DEF Next, vars, EngineStep, PublishDeltas, Keep, Complete, FailAll, Submit, Receive,
           Timeout, Cancelled, Crash, Open, Relay, GiveUp, HangUp
  <2>3. Finished => Finished' /\ output' = output
    BY FinishedStays
  <2> QED
    BY <2>1, <2>2, <2>3 DEF Told
<1>2. ASSUME ends = << >>, ends' = ends PROVE Told'
  BY <1>0, <1>2 DEF Told
<1>3. \A m \in Seq(Marks) : << >> \o m = m
  BY ConcatEmptySeq
<1>4. CASE ends = << >> /\ (Submit \/ Receive \/ Timeout \/ Crash)
  <2>1. UNCHANGED <<route, output, published, online, gate>>
    BY <1>4, HandlerWrites
  <2>2. CASE UNCHANGED outVars
    BY <1>2, <1>4, <2>2
  <2>3. CASE /\ handler = "waiting" /\ items # << >> /\ Head(items) # End
             /\ Write(Head(items))
    <3>1. Head(items) \in Messages /\ Head(items).marks = << >>
      <4>1. /\ Head(items) \in Messages /\ Head(items) = items[1]
            /\ Len(items) \in Nat /\ Len(items) > 0
        BY <1>0, <2>3, HeadTailProperties, EmptySeq
      <4>2. 1 \in 1 .. Len(items)
        BY <4>1
      <4> QED
        BY <2>3, <4>1, <4>2 DEF Sentinel
    <3>2. << >> \in Seq(Marks)
      OBVIOUS
    <3>3. ends' = ends
      BY <1>0, <1>3, <1>4, <2>3, <3>1, <3>2, Wrote
    <3> QED
      BY <1>2, <1>4, <3>3
  <2>4. ASSUME NEW m \in Messages, LastMark(m) PROVE Told'
    <3>1. /\ m.text = << >> /\ m.marks # << >> /\ m.marks \in Seq(Marks)
          /\ Write(m) /\ handler # "ended" /\ handler' = "ended"
          /\ m.marks = <<"done">> => Finished
          /\ Len(m.marks) > 1 => route = "http" /\ handler = "new"
      BY <2>4, LastMarkFacts DEF LastMark, Messages
    <3>2. CASE route = "gateway" \/ ~online
      BY <1>0, <1>2, <1>4, <3>1, <3>2, Wrote
    <3>3. CASE route = "http" /\ online
      <4>1. /\ got' = got /\ ends' = m.marks /\ wire = << >>
        BY <1>0, <1>3, <1>4, <3>1, <3>3, Wrote, ConcatEmptySeq
      <4>2. ASSUME m.marks = <<"done">> PROVE Len(got) = Len(Decode(output))
        <5>1. PICK c \in Nat : OnItsWay(c)
          BY <3>3 DEF Flow, Listening
        <5>2. c = Len(Decode(output))
          BY <2>4, <3>1, <4>2, <5>1, DoneIsLast DEF OnItsWay
        <5>3. Len(got) <= Len(Decode(output)) /\ Laid(<< >>, Len(got), c, Decode(output))
          BY <4>1, <5>1 DEF OnItsWay, Flow, Lies
        <5> QED
          BY <1>0, <5>2, <5>3, NoneLaid
      <4>3. Finished => Finished'
        BY FinishedStays
      <4>4. Len(ends') > 1 => route' = "http" /\ got' = << >>
        BY <2>1, <3>1, <4>1 DEF Phases
      <4> QED
        BY <2>1, <3>1, <3>3, <4>1, <4>2, <4>3, <4>4 DEF Told
    <3> QED
      BY <1>0, <3>2, <3>3
  <2> QED
    BY <1>4, <2>2, <2>3, <2>4, HandlerWrites
<1>5. CASE ends = << >> /\ Relay
  <2>1. /\ gate = "reading" /\ wire # << >> /\ wire' = Tail(wire)
        /\ UNCHANGED <<route, output, handler, online>> /\ route = "gateway"
        /\ gate' = IF Head(wire).marks = << >> THEN "reading" ELSE "closed"
        /\ Pass(Head(wire))
    BY <1>0, <1>5 DEF Relay, Phases
  <2>2. /\ Head(wire) \in Messages /\ Head(wire) = wire[1]
        /\ Tail(wire) \in Seq(Messages) /\ Len(Tail(wire)) = Len(wire) - 1
        /\ Len(wire) \in Nat /\ Len(wire) > 0
    BY <1>0, <2>1, HeadTailProperties, EmptySeq
  <2>3. Head(wire).marks \in Seq(Marks) /\ Head(wire).text \in Seq(Chars)
    BY <2>2 DEF Messages
  <2>4. CASE ~online \/ Head(wire).marks = << >>
    BY <1>0, <1>2, <1>3, <1>5, <2>1, <2>3, <2>4 DEF Pass
  <2>5. CASE online /\ Head(wire).marks # << >>
    <3>1. got' = got \o Head(wire).text /\ ends' = Head(wire).marks /\ gate' = "closed"
      BY <1>3, <1>5, <2>1, <2>3, <2>5 DEF Pass
    <3>2. 1 \in 1 .. Len(wire)
      BY <2>2
    <3>3. /\ 1 = Len(wire) /\ Head(wire).marks \in {<<"error">>, <<"done">>}
          /\ Head(wire).marks = <<"done">> => Finished
      <4>1. wire[1].marks # << >>
        BY <2>2, <2>5
      <4>2. /\ 1 = Len(wire) /\ wire[1].marks \in {<<"error">>, <<"done">>}
            /\ wire[1].marks = <<"done">> => Finished
        BY <3>2, <4>1 DEF LastWord
      <4> QED
        BY <2>2, <4>2
    <3>4. Len(ends') = 1
      <4>1. Len(<<"error">>) = 1 /\ Len(<<"done">>) = 1
        OBVIOUS
      <4> QED
        BY <3>1, <3>3, <4>1
    <3>5. ASSUME ends' = <<"done">> PROVE Len(got') = Len(Decode(output))
      <4>1. PICK c \in Nat : OnItsWay(c)
        BY <2>1, <2>5 DEF Flow, Listening
      <4>2. c = Len(Decode(output))
        BY <2>2, <3>1, <3>2, <3>5, <4>1 DEF OnItsWay, DoneSent
      <4>3. Tail(wire) = << >>
        <5>1. Len(Tail(wire)) = 0
          <6>1. Len(Tail(wire)) = Len(wire) - 1
            BY <2>2
          <6>2. Len(wire) = 1
            BY <3>3
          <6> QED
            BY <6>1, <6>2
        <5> QED
          BY <2>2, <5>1, EmptySeq
      <4>4. /\ Lies(Head(wire).text, Decode(output), Len(got))
            /\ Len(got) + Len(Head(wire).text) \in Nat
            /\ Laid(<< >>, Len(got) + Len(Head(wire).text), c, Decode(output))
        BY <1>0, <2>1, <4>1, <4>3, FirstLaid DEF OnItsWay
      <4>5. Len(got) + Len(Head(wire).text) = c
        BY <1>0, <4>4, NoneLaid DEF Lies
      <4>6. Len(got') = Len(got) + Len(Head(wire).text)
        BY <1>0, <2>3, <3>1, ConcatProperties
      <4> QED
        BY <4>2, <4>5, <4>6
    <3>6. Finished => Finished'
      BY FinishedStays
    <3> QED
      BY <2>1, <3>1, <3>3, <3>4, <3>5, <3>6 DEF Told
  <2> QED
    BY <2>4, <2>5
<1>6. CASE ends = << >> /\ (Open \/ GiveUp)
  <2>1. UNCHANGED <<route, output>> /\ route = "gateway"
    BY <1>0, <1>6 DEF Open, GiveUp, Phases
  <2>2. CASE ends' = ends
    BY <1>2, <1>6, <2>2
  <2>3. CASE ends' # ends
    <3>1. gate' = "closed" /\ (Pass(Mark("refused")) \/ Pass(Mark("error")))
      BY <1>6, <2>3 DEF Open, GiveUp
    <3>2. /\ Mark("refused").marks = <<"refused">> /\ Mark("error").marks = <<"error">>
          /\ <<"refused">> \in Seq(Marks) /\ <<"error">> \in Seq(Marks)
      BY MarkFacts DEF Marks
    <3>3. ends' \in {<<"refused">>, <<"error">>}
      BY <1>3, <1>6, <2>3, <3>1, <3>2 DEF Pass
    <3>4. Len(ends') = 1 /\ ends' # <<"done">>
      <4>1. /\ Len(<<"refused">>) = 1 /\ Len(<<"error">>) = 1
            /\ <<"refused">> # <<"done">> /\ <<"error">> # <<"done">>
        OBVIOUS
      <4> QED
        BY <3>3, <4>1
    <3> QED
      BY <2>1, <3>1, <3>4 DEF Told
  <2> QED
    BY <2>2, <2>3
<1>7. CASE /\ ends = << >>
           /\ \/ EngineStep \/ PublishDeltas \/ Keep \/ Complete \/ FailAll
              \/ Cancelled \/ HangUp \/ UNCHANGED vars
  <2>1. ends' = ends
    BY <1>7 DEF EngineStep, PublishDeltas, Keep, Complete, FailAll, Cancelled, HangUp, vars
  <2> QED
    BY <1>2, <1>7, <2>1
<1> QED
  BY <1>1, <1>4, <1>5, <1>6, <1>7 DEF Next

-----------------------------------------------------------------------------
(* Theorems *)

\* The inductive invariant: TypeOK and what the client may rely on rest on
\* where the messages on their way lie in the text.
IInv == TypeOK /\ Phases /\ Sentinel /\ LastWord /\ Flow /\ Told

LEMMA InitIInv == Init => IInv
<1> SUFFICES ASSUME Init PROVE IInv
  OBVIOUS
<1>1. /\ << >> \in Seq(Bytes) /\ << >> \in Seq(Chars) /\ << >> \in Seq(Messages)
      /\ << >> \in Seq(Marks) /\ Len(<< >>) = 0 /\ << >> # <<"done">>
      /\ \A i \in 1 .. 0 : FALSE
  OBVIOUS
<1>2. TypeOK
  <2>1. 0 \in 0 .. MaxTokens
    BY StreamAssumption
  <2> QED
    BY <1>1, <2>1 DEF Init, TypeOK
<1>3. Phases
  BY StreamAssumption DEF Init, Phases
<1>4. Sentinel /\ LastWord
  BY <1>1 DEF Init, Sentinel, LastWord
<1>5. Told
  BY <1>1 DEF Init, Told
<1>6. Flow
  <2>1. Decode(output) = << >>
    BY NothingDecodes DEF Init
  <2>2. Lies(<< >>, << >>, 0)
    BY <1>1, LiesInItself
  <2>3. Laid(<< >>, 0, 0, << >>)
    <3>1. << >> \in Seq(Chars) /\ 0 \in Nat /\ 0 <= Len(<< >>)
      BY <1>1
    <3> QED
      BY <3>1, NoneLaid
  <2>4. ~DoneSent
    BY <1>1 DEF Init, DoneSent
  <2>5. OnItsWay(0)
    BY <1>1, <2>1, <2>3, <2>4 DEF Init, OnItsWay
  <2> QED
    BY <2>1, <2>2, <2>5 DEF Init, Flow
<1> QED
  BY <1>2, <1>3, <1>4, <1>5, <1>6 DEF IInv

LEMMA NextIInv == IInv /\ [Next]_vars => IInv'
BY TypeStep, PhasesStep, SentinelStep, LastWordStep, FlowStep, ToldStep DEF IInv

THEOREM Invariant == Spec => []IInv
<1>1. Init => IInv
  BY InitIInv
<1>2. IInv /\ [Next]_vars => IInv'
  BY NextIInv
<1> QED
  BY <1>1, <1>2, PTL DEF Spec

\* Every variable of the stream keeps its type, whatever the vocabulary.
THEOREM TypeCorrect == Spec => []TypeOK
<1>1. IInv => TypeOK
  BY DEF IInv
<1> QED
  BY <1>1, Invariant, PTL

LEMMA LinedUp == IInv => LinesUp
<1> SUFFICES ASSUME IInv PROVE LinesUp
  OBVIOUS
<1>1. got \in Seq(Chars) /\ Lies(got, Decode(output), 0)
  BY DEF IInv, TypeOK, Flow
<1>2. \A i \in DOMAIN got : i \in 1 .. Len(got) /\ 0 + i = i
  BY <1>1
<1>3. 0 + Len(got) = Len(got)
  BY <1>1
<1> QED
  BY <1>1, <1>2, <1>3 DEF LinesUp, Lies

\* However the deltas of _publish_deltas are cut, queued, relayed and lost, the
\* client's text is the text of the output so far, but for replacement
\* characters: nothing is missing in it, repeated or out of place.
THEOREM TextLinesUp == Spec => []LinesUp
BY LinedUp, Invariant, PTL

\* A client that reads [DONE] and no error has the text of a generation that
\* ran to its own end, from the first character to the last, on the gateway's
\* route and on the worker's, but for wide characters shown as replacement
\* characters.
THEOREM WholeWhenDone == Spec => []DoneMeansWhole
<1>1. IInv => LinesUp
  BY LinedUp
<1>2. IInv /\ LinesUp => DoneMeansWhole
  BY DEF IInv, Told, Finished, LinesUp, DoneMeansWhole
<1> QED
  BY <1>1, <1>2, Invariant, PTL

\* No step adds to a stream that has ended, and only a rejected request of the
\* worker's own server reads two endings.
THEOREM StreamEndsOnce == Spec => EndsOnce
<1>1. IInv /\ [Next]_vars =>
        [/\ ends # << >> => UNCHANGED <<got, ends>>
         /\ Len(ends') > 1 => route = "http" /\ got = << >>]_vars
  <2> SUFFICES ASSUME IInv, [Next]_vars, ~UNCHANGED vars
               PROVE  /\ ends # << >> => UNCHANGED <<got, ends>>
                      /\ Len(ends') > 1 => route = "http" /\ got = << >>
    OBVIOUS
  <2>1. ends # << >> => UNCHANGED <<got, ends>>
    BY EndStays DEF IInv
  <2>2. Told'
    BY ToldStep DEF IInv
  <2>3. route' = route
    BY DEF Next, vars, EngineStep, PublishDeltas, Keep, Complete, FailAll, Submit, Receive,
           Timeout, Cancelled, Crash, Open, Relay, GiveUp, HangUp
  <2>4. Len(ends') > 1 => route = "http" /\ got' = << >>
    BY <2>2, <2>3 DEF Told
  <2>5. got' = << >> => got = << >>
    <3>1. got' = got \/ \E u \in Seq(Chars) : got' = got \o u
      <4>1. \A m \in Messages : m.text \in Seq(Chars)
        BY DEF Messages
      <4>2. \A m \in Messages : Pass(m) => got' = got \/ got' = got \o m.text
        BY DEF Pass
      <4>3. \A m \in Messages : Write(m) => got' = got \/ Pass(m)
        BY DEF Write
      <4>4. /\ items # << >> => Head(items) \in Messages
            /\ wire # << >> => Head(wire) \in Messages
        BY HeadTailProperties DEF IInv, TypeOK
      <4>5. CASE Submit \/ Receive \/ Timeout \/ Crash
        <5>1. got' = got \/ \E m \in Messages : Write(m)
          BY <4>4, <4>5, HandlerWrites DEF IInv, LastMark, outVars
        <5> QED
          BY <4>1, <4>2, <4>3, <5>1
      <4>6. CASE Open \/ Relay \/ GiveUp
        <5>1. got' = got \/ \E m \in Messages : Pass(m)
          BY <4>4, <4>6, WrittenMarks DEF Open, Relay, GiveUp
        <5> QED
          BY <4>1, <4>2, <5>1
      <4>7. CASE ~(Submit \/ Receive \/ Timeout \/ Crash \/ Open \/ Relay \/ GiveUp)
        BY <4>7 DEF Next, vars, outVars, EngineStep, PublishDeltas, Keep, Complete, FailAll,
                    Cancelled, HangUp
      <4> QED
        BY <4>5, <4>6, <4>7
    <3>2. got \in Seq(Chars)
      BY DEF IInv, TypeOK
    <3>3. ASSUME NEW u \in Seq(Chars), got \o u = << >> PROVE got = << >>
      BY <3>2, <3>3, ConcatEqualIffEmpty
    <3> QED
      BY <3>1, <3>3
  <2> QED
    BY <2>1, <2>4, <2>5
<1> QED
  BY <1>1, Invariant, PTL DEF Spec, EndsOnce

\* What the test of the deltas asks for, with the condition that it needs: the
\* text of a finished stream is the output's if no replacement character was
\* shown.
WholeUnlessReplaced ==
    ends = <<"done">> /\ (\A i \in DOMAIN got : got[i] # "?") => got = Decode(output)

\* A text as long as the output's that lies in it, nothing replaced, is that text.
LEMMA ClearedText == IInv => WholeUnlessReplaced
<1> SUFFICES ASSUME IInv, ends = <<"done">>, \A i \in DOMAIN got : got[i] # "?"
             PROVE  got = Decode(output)
  BY DEF WholeUnlessReplaced
<1>1. /\ got \in Seq(Chars) /\ Decode(output) \in Seq(Chars)
      /\ Len(got) = Len(Decode(output)) /\ Lies(got, Decode(output), 0)
  BY DecodeType DEF IInv, TypeOK, Flow, Told
<1>2. ASSUME NEW i \in 1 .. Len(got) PROVE got[i] = Decode(output)[i]
  <2>1. i \in DOMAIN got /\ 0 + i = i
    BY <1>1
  <2> QED
    BY <1>1, <2>1 DEF Lies, Shows
<1> QED
  BY <1>1, <1>2, SeqEqual

THEOREM ReassemblesUnlessReplaced == Spec => []WholeUnlessReplaced
BY ClearedText, Invariant, PTL

-----------------------------------------------------------------------------
(* Vocabularies of whole characters *)

\* No replacement character is in the text.
Clear(x) == \A i \in 1 .. Len(x) : x[i] # "?"

\* Every token is readable by itself.
WholeTokens == \A t \in Tokens : Clear(Decode(t))

LEMMA ClearAppend ==
    ASSUME NEW x \in Seq(Chars), NEW c \in Chars
    PROVE  /\ Append(x, c) \in Seq(Chars)
           /\ Clear(Append(x, c)) <=> Clear(x) /\ c # "?"
<1>1. /\ Append(x, c) \in Seq(Chars) /\ Len(Append(x, c)) = Len(x) + 1 /\ Len(x) \in Nat
      /\ \A i \in 1 .. Len(x) : Append(x, c)[i] = x[i]
      /\ Append(x, c)[Len(x) + 1] = c
  BY AppendProperties
<1>2. \A i \in 1 .. Len(x) : i \in 1 .. Len(x) + 1
  BY <1>1
<1>3. \A i \in 1 .. Len(x) + 1 : i \in 1 .. Len(x) \/ i = Len(x) + 1
  BY <1>1
<1>4. Len(x) + 1 \in 1 .. Len(x) + 1
  BY <1>1
<1> QED
  BY <1>1, <1>2, <1>3, <1>4 DEF Clear

LEMMA ClearJoin ==
    ASSUME NEW x \in Seq(Chars), NEW u \in Seq(Chars), Clear(x), Clear(u)
    PROVE  Clear(x \o u)
<1>1. /\ Len(x \o u) = Len(x) + Len(u) /\ Len(x) \in Nat /\ Len(u) \in Nat
      /\ \A i \in 1 .. Len(x) + Len(u) :
            (x \o u)[i] = IF i <= Len(x) THEN x[i] ELSE u[i - Len(x)]
  BY ConcatProperties
<1>2. \A i \in 1 .. Len(x) + Len(u) :
        IF i <= Len(x) THEN i \in 1 .. Len(x) ELSE i - Len(x) \in 1 .. Len(u)
  BY <1>1
<1> QED
  BY <1>1, <1>2 DEF Clear

\* What is shown is clear when no character is open and none was replaced.
LEMMA ClearShown ==
    ASSUME NEW d \in Decoded
    PROVE  Clear(Shown(d)) <=> d.open = 0 /\ Clear(d.text)
<1>1. d.text \in Seq(Chars) /\ d.open \in 0 .. Width - 1 /\ "?" \in Chars
  BY DEF Decoded, Chars
<1>2. ~Clear(Append(d.text, "?"))
  BY <1>1, ClearAppend
<1>3. d.open > 0 \/ d.open = 0
  BY <1>1, StreamAssumption
<1> QED
  BY <1>1, <1>2, <1>3 DEF Shown

\* Behind whole characters bytes read as they do by themselves.
LEMMA ClearRead ==
    ASSUME NEW d \in Decoded, NEW e \in Decoded, d.open = e.open,
           Clear(e.text) => Clear(d.text), NEW byte \in Bytes
    PROVE  /\ Read(d, byte) \in Decoded /\ Read(e, byte) \in Decoded
           /\ Read(d, byte).open = Read(e, byte).open
           /\ Clear(Read(e, byte).text) => Clear(Read(d, byte).text)
<1>0. /\ d.text \in Seq(Chars) /\ e.text \in Seq(Chars) /\ "?" \in Chars /\ "wide" \in Chars
      /\ d.open \in 0 .. Width - 1
  BY DEF Decoded, Chars
<1>1. Read(d, byte) \in Decoded /\ Read(e, byte) \in Decoded
  BY OneByte
<1>2. /\ Shown(d) \in Seq(Chars) /\ Shown(e) \in Seq(Chars)
      /\ Clear(Shown(e)) => Clear(Shown(d))
  BY ClearShown, ShownType
<1>3. CASE byte = "cont" /\ d.open + 1 = Width
  <2>1. /\ Read(d, byte) = [text |-> Append(d.text, "wide"), open |-> 0]
        /\ Read(e, byte) = [text |-> Append(e.text, "wide"), open |-> 0]
    <3>1. byte = "cont" /\ d.open + 1 = Width /\ e.open + 1 = Width
      BY <1>3
    <3>2. /\ ~(d.open \in 1 .. Width - 2) /\ d.open # 0 /\ byte # "lead"
          /\ ~(e.open \in 1 .. Width - 2) /\ e.open # 0
      BY <1>0, <3>1, StreamAssumption
    <3>3. Read(d, byte) = [text |-> Append(d.text, "wide"), open |-> 0]
      BY <3>1, <3>2 DEF Read
    <3>4. Read(e, byte) = [text |-> Append(e.text, "wide"), open |-> 0]
      BY <3>1, <3>2 DEF Read
    <3> QED
      BY <3>3, <3>4
  <2> QED
    BY <1>0, <1>1, <2>1, ClearAppend
<1>4. CASE byte = "cont" /\ d.open \in 1 .. Width - 2
  <2>1. /\ Read(d, byte) = [d EXCEPT !.open = @ + 1]
        /\ Read(e, byte) = [e EXCEPT !.open = @ + 1]
    BY <1>0, <1>4, StreamAssumption DEF Read
  <2>2. /\ Read(d, byte).text = d.text /\ Read(d, byte).open = d.open + 1
        /\ Read(e, byte).text = e.text /\ Read(e, byte).open = e.open + 1
    BY <2>1 DEF Decoded
  <2> QED
    BY <1>1, <2>2
<1>5. CASE byte = "cont" /\ d.open = 0
  <2>1. /\ Read(d, byte) = [d EXCEPT !.text = Append(@, "?")]
        /\ Read(e, byte) = [e EXCEPT !.text = Append(@, "?")]
    BY <1>5, StreamAssumption DEF Read
  <2>2. /\ Read(d, byte).open = d.open /\ Read(e, byte).open = e.open
        /\ Read(e, byte).text = Append(e.text, "?")
    BY <2>1 DEF Decoded
  <2>3. ~Clear(Append(e.text, "?"))
    BY <1>0, ClearAppend
  <2> QED
    BY <1>1, <2>2, <2>3
<1>6. CASE byte = "lead"
  BY <1>1, <1>2, <1>6 DEF Read
<1>7. CASE byte # "cont" /\ byte # "lead"
  <2>1. byte \in Chars
    BY <1>7 DEF Bytes, Chars
  <2>2. /\ Read(d, byte) = [text |-> Append(Shown(d), byte), open |-> 0]
        /\ Read(e, byte) = [text |-> Append(Shown(e), byte), open |-> 0]
    BY <1>7 DEF Read
  <2> QED
    BY <1>1, <1>2, <2>1, <2>2, ClearAppend
<1>8. \/ d.open + 1 = Width \/ d.open \in 1 .. Width - 2 \/ d.open = 0
  BY <1>0, StreamAssumption
<1> QED
  BY <1>3, <1>4, <1>5, <1>6, <1>7, <1>8

\* The bytes in front decide what the decoder has behind them.
LEMMA ReadsBehind ==
    ASSUME NEW bytes \in Seq(Bytes), NEW all \in Seq(Bytes),
           Len(bytes) <= Len(all), \A i \in 1 .. Len(bytes) : bytes[i] = all[i],
           NEW f, Reads(bytes, Len(bytes), f), NEW g, Reads(all, Len(all), g)
    PROVE  f[Len(bytes)] = g[Len(bytes)]
<1>1. Len(bytes) \in Nat /\ Len(all) \in Nat
  OBVIOUS
<1> QED
  BY <1>1, ReadsUnique

\* Whole characters behind whole characters are whole characters.
LEMMA ClearDecode ==
    ASSUME NEW bytes \in Seq(Bytes), NEW more \in Seq(Bytes),
           Clear(Decode(bytes)), Clear(Decode(more))
    PROVE  Clear(Decode(bytes \o more))
<1> DEFINE all == bytes \o more
           lb == Len(bytes)
           lm == Len(more)
<1>1. /\ all \in Seq(Bytes) /\ Len(all) = lb + lm /\ lb \in Nat /\ lm \in Nat
      /\ Len(all) \in Nat
      /\ \A i \in 1 .. lb : bytes[i] = all[i]
      /\ \A i \in 1 .. lm : all[lb + i] = more[i] /\ more[i] \in Bytes
  <2>1. /\ all \in Seq(Bytes) /\ Len(all) = lb + lm /\ lb \in Nat /\ lm \in Nat
        /\ \A i \in 1 .. lb + lm : all[i] = IF i <= lb THEN bytes[i] ELSE more[i - lb]
    BY ConcatProperties
  <2>2. \A i \in 1 .. lm : lb + i \in 1 .. lb + lm /\ ~(lb + i <= lb) /\ (lb + i) - lb = i
    BY <2>1
  <2>3. \A i \in 1 .. lb : i \in 1 .. lb + lm /\ i <= lb
    BY <2>1
  <2>4. \A i \in 1 .. lm : more[i] \in Bytes
    OBVIOUS
  <2> HIDE DEF all, lb, lm
  <2> QED
    BY <2>1, <2>2, <2>3, <2>4
<1>2. PICK f : Reads(bytes, lb, f) /\ Decode(bytes) = Shown(f[lb])
  BY <1>1, DecodeReads
<1>3. PICK g : Reads(more, lm, g) /\ Decode(more) = Shown(g[lm])
  BY <1>1, DecodeReads
<1>4. PICK h : Reads(all, Len(all), h) /\ Decode(all) = Shown(h[Len(all)])
  <2> HIDE DEF all, lb, lm
  <2> QED
    BY <1>1, DecodeReads
<1>5. f[lb] \in Decoded /\ g[lm] \in Decoded
  BY <1>1, <1>2, <1>3, ReadsGrow
<1>6. f[lb].open = 0 /\ Clear(f[lb].text) /\ g[lm].open = 0 /\ Clear(g[lm].text)
  BY <1>2, <1>3, <1>5, ClearShown
<1>7. f[lb] = h[lb]
  <2>1. Len(bytes) <= Len(all) /\ all \in Seq(Bytes) /\ \A i \in 1 .. Len(bytes) : bytes[i] = all[i]
    BY <1>1
  <2> HIDE DEF all
  <2>2. f[Len(bytes)] = h[Len(bytes)]
    BY <1>2, <1>4, <2>1, ReadsBehind
  <2> QED
    BY <2>2
<1> HIDE DEF all, lb, lm
<1>8. /\ \A n \in 0 .. lm : g[n] = IF n = 0 THEN Start ELSE Read(g[n - 1], more[n])
      /\ \A n \in 0 .. lb + lm : h[n] = IF n = 0 THEN Start ELSE Read(h[n - 1], all[n])
  BY <1>1, <1>3, <1>4 DEF Reads
<1> DEFINE S == {n \in Nat : n <= lm =>
                    /\ h[lb + n] \in Decoded /\ g[n] \in Decoded
                    /\ h[lb + n].open = g[n].open
                    /\ Clear(g[n].text) => Clear(h[lb + n].text)}
<1>9. 0 \in S
  <2>1. g[0] = Start /\ Start \in Decoded /\ Start.open = 0 /\ lb + 0 = lb
    BY <1>1, <1>8, StreamAssumption DEF Start, Decoded
  <2> QED
    BY <1>5, <1>6, <1>7, <2>1
<1>10. ASSUME NEW n \in Nat, n \in S PROVE n + 1 \in S
  <2> SUFFICES ASSUME n + 1 <= lm
               PROVE  /\ h[lb + (n + 1)] \in Decoded /\ g[n + 1] \in Decoded
                      /\ h[lb + (n + 1)].open = g[n + 1].open
                      /\ Clear(g[n + 1].text) => Clear(h[lb + (n + 1)].text)
    OBVIOUS
  <2>1. /\ n + 1 \in 0 .. lm /\ n + 1 \in 1 .. lm /\ n + 1 # 0 /\ (n + 1) - 1 = n
        /\ lb + (n + 1) \in 0 .. lb + lm /\ lb + (n + 1) # 0 /\ (lb + (n + 1)) - 1 = lb + n
        /\ n <= lm
    BY <1>1
  <2>2. g[n + 1] = Read(g[n], more[n + 1]) /\ more[n + 1] \in Bytes
    BY <1>1, <1>8, <2>1
  <2>3. h[lb + (n + 1)] = Read(h[lb + n], more[n + 1])
    BY <1>1, <1>8, <2>1
  <2>4. /\ h[lb + n] \in Decoded /\ g[n] \in Decoded
        /\ h[lb + n].open = g[n].open
        /\ Clear(g[n].text) => Clear(h[lb + n].text)
    BY <1>10, <2>1
  <2> QED
    BY <2>2, <2>3, <2>4, ClearRead
<1> HIDE DEF S
<1>11. lm \in S
  BY <1>1, <1>9, <1>10, AllNumbers
<1>12. h[lb + lm] \in Decoded /\ h[lb + lm].open = 0 /\ Clear(h[lb + lm].text)
  BY <1>1, <1>6, <1>11 DEF S
<1>13. Clear(Shown(h[lb + lm]))
  BY <1>12, ClearShown
<1>14. Clear(Decode(all))
  BY <1>1, <1>4, <1>13
<1> QED
  BY <1>14 DEF all

\* Then no text on its way has a replacement character.
NoneReplaced ==
    /\ Clear(Decode(output)) /\ Clear(published) /\ Clear(got)
    /\ \A i \in 1 .. Len(items) : Clear(items[i].text)
    /\ \A i \in 1 .. Len(wire) : Clear(wire[i].text)

LEMMA ClearAppended ==
    ASSUME NEW q \in Seq(Messages), NEW m \in Messages,
           \A i \in 1 .. Len(q) : Clear(q[i].text), Clear(m.text)
    PROVE  \A i \in 1 .. Len(Append(q, m)) : Clear(Append(q, m)[i].text)
<1>1. /\ Len(Append(q, m)) = Len(q) + 1 /\ Len(q) \in Nat
      /\ \A i \in 1 .. Len(q) : Append(q, m)[i] = q[i]
      /\ Append(q, m)[Len(q) + 1] = m
  BY AppendProperties
<1>2. \A i \in 1 .. Len(q) + 1 : i \in 1 .. Len(q) \/ i = Len(q) + 1
  BY <1>1
<1> QED
  BY <1>1, <1>2

LEMMA ClearTaken ==
    ASSUME NEW q \in Seq(Messages), q # << >>, \A i \in 1 .. Len(q) : Clear(q[i].text)
    PROVE  /\ Head(q) \in Messages /\ Clear(Head(q).text)
           /\ \A i \in 1 .. Len(Tail(q)) : Clear(Tail(q)[i].text)
<1>1. /\ Head(q) \in Messages /\ Len(Tail(q)) = Len(q) - 1
      /\ \A i \in 1 .. Len(Tail(q)) : Tail(q)[i] = q[i + 1]
      /\ Len(q) \in Nat /\ Len(q) >= 1 /\ Head(q) = q[1]
  BY HeadTailProperties, EmptySeq
<1>2. 1 \in 1 .. Len(q) /\ \A i \in 1 .. Len(q) - 1 : i + 1 \in 1 .. Len(q)
  BY <1>1
<1> QED
  BY <1>1, <1>2

LEMMA ClearPassed ==
    ASSUME TypeOK, NoneReplaced, NEW m \in Messages, Clear(m.text), Pass(m)
    PROVE  Clear(got')
<1>1. got \in Seq(Chars) /\ m.text \in Seq(Chars)
  BY DEF TypeOK, Messages
<1>2. Clear(got \o m.text)
  BY <1>1, ClearJoin DEF NoneReplaced
<1> QED
  BY <1>2 DEF Pass, NoneReplaced

LEMMA ClearPublished ==
    ASSUME TypeOK, NoneReplaced
    PROVE  \A i \in 1 .. Len(items \o Delta(Decode(output))) :
              Clear((items \o Delta(Decode(output)))[i].text)
<1> DEFINE text == Decode(output)
<1>1. /\ text \in Seq(Chars) /\ published \in Seq(Chars) /\ items \in Seq(Messages)
      /\ Len(text) \in Nat /\ Len(published) \in Nat
  BY DecodeType DEF TypeOK
<1>2. CASE Len(text) <= Len(published)
  BY <1>1, <1>2, Published DEF NoneReplaced
<1>3. CASE Len(text) > Len(published)
  <2>1. PICK u \in Seq(Chars) :
            /\ items \o Delta(text) = Append(items, Text(u))
            /\ Len(u) = Len(text) - Len(published)
            /\ \A i \in 1 .. Len(u) : u[i] = text[Len(published) + i]
    BY <1>1, <1>3, Published
  <2>2. \A i \in 1 .. Len(u) : Len(published) + i \in 1 .. Len(text)
    BY <1>1, <2>1
  <2>3. Clear(u)
    BY <2>1, <2>2 DEF Clear, NoneReplaced
  <2>4. Text(u) \in Messages /\ Text(u).text = u
    BY MarkFacts
  <2> QED
    BY <1>1, <2>1, <2>3, <2>4, ClearAppended DEF NoneReplaced
<1> HIDE DEF text
<1>4. Len(text) <= Len(published) \/ Len(text) > Len(published)
  BY <1>1
<1> QED
  BY <1>2, <1>3, <1>4 DEF text

LEMMA ClearWritten ==
    ASSUME TypeOK, NoneReplaced, NEW m \in Messages, Clear(m.text), Write(m)
    PROVE  Clear(got') /\ \A i \in 1 .. Len(wire') : Clear(wire'[i].text)
<1>1. CASE route = "gateway"
  BY <1>1, ClearAppended DEF Write, TypeOK, NoneReplaced
<1>2. CASE route # "gateway"
  BY <1>2, ClearPassed DEF Write, NoneReplaced
<1> QED
  BY <1>1, <1>2

LEMMA NoneReplacedStep ==
    ASSUME WholeTokens, IInv, NoneReplaced, [Next]_vars
    PROVE  NoneReplaced'
<1> USE DEF outVars, schedVars
<1>0. /\ TypeOK /\ Phases /\ Sentinel
      /\ output \in Seq(Bytes) /\ items \in Seq(Messages) /\ wire \in Seq(Messages)
  BY DEF IInv, TypeOK
<1>1. /\ Clear(<< >>) /\ End \in Messages /\ End.text = << >>
      /\ \A m \in Marks : Mark(m) \in Messages /\ Mark(m).text = << >>
  BY MarkFacts DEF Clear
<1>2. CASE EngineStep
  <2>1. output' = output \/ \E t \in Tokens \cup {EOS} : output' = output \o t
    BY <1>2 DEF EngineStep
  <2>2. ASSUME NEW t \in Tokens \cup {EOS} PROVE Clear(Decode(output \o t))
    <3>1. t \in Seq(Bytes)
      <4>1. << >> \in Seq(Bytes)
        OBVIOUS
      <4> QED
        BY <4>1, StreamAssumption DEF EOS
    <3>2. Clear(Decode(t))
      BY <1>1, NothingDecodes DEF WholeTokens, EOS
    <3> QED
      BY <1>0, <3>1, <3>2, ClearDecode DEF NoneReplaced
  <2>3. Clear(Decode(output'))
    BY <2>1, <2>2 DEF NoneReplaced
  <2> QED
    BY <1>2, <2>3 DEF EngineStep, NoneReplaced
<1>3. CASE PublishDeltas
  BY <1>0, <1>3, ClearPublished DEF PublishDeltas, NoneReplaced
<1>4. CASE Complete
  <2>1. items \o Delta(Decode(output)) \in Seq(Messages)
    BY <1>0, DecodeType, Published DEF TypeOK
  <2>2. items' = Append(items \o Delta(Decode(output)), End)
    BY <1>0, <1>4, DecodeType, Published DEF TypeOK, Complete
  <2>3. \A i \in 1 .. Len(items') : Clear(items'[i].text)
    BY <1>0, <1>1, <2>1, <2>2, ClearPublished, ClearAppended
  <2> QED
    BY <1>4, <2>3 DEF Complete, NoneReplaced
<1>5. CASE FailAll
  <2>1. \A i \in 1 .. Len(items') : Clear(items'[i].text)
    BY <1>0, <1>1, <1>5, ClearAppended DEF FailAll, NoneReplaced
  <2> QED
    BY <1>5, <2>1 DEF FailAll, NoneReplaced
<1>6. CASE Submit \/ Receive \/ Timeout \/ Crash
  <2>1. UNCHANGED <<output, published>>
    BY <1>0, <1>6, HandlerWrites
  <2>2. items # << >> => /\ Head(items) \in Messages /\ Clear(Head(items).text)
                         /\ \A i \in 1 .. Len(Tail(items)) : Clear(Tail(items)[i].text)
    BY <1>0, ClearTaken DEF NoneReplaced
  <2>3. items' = items \/ (items # << >> /\ items' = Tail(items))
    BY <1>6 DEF Submit, Receive, Timeout, Abandon, Crash
  <2>4. \/ UNCHANGED outVars
        \/ items # << >> /\ Write(Head(items))
        \/ \E m \in Messages : LastMark(m)
    BY <1>0, <1>6, HandlerWrites
  <2>5. ASSUME NEW m \in Messages, LastMark(m) PROVE Write(m) /\ Clear(m.text)
    BY <1>0, <1>1, <2>5, LastMarkFacts DEF LastMark
  <2>6. Clear(got') /\ \A i \in 1 .. Len(wire') : Clear(wire'[i].text)
    BY <1>0, <2>2, <2>4, <2>5, ClearWritten DEF NoneReplaced
  <2> QED
    BY <2>1, <2>2, <2>3, <2>6 DEF NoneReplaced
<1>7. CASE Open \/ Relay \/ GiveUp
  <2>1. \A m \in {"refused", "error"} : Mark(m) \in Messages /\ Clear(Mark(m).text)
    BY <1>1 DEF Marks
  <2>2. wire # << >> => /\ Head(wire) \in Messages /\ Clear(Head(wire).text)
                        /\ \A i \in 1 .. Len(Tail(wire)) : Clear(Tail(wire)[i].text)
    BY <1>0, ClearTaken DEF NoneReplaced
  <2>3. Clear(got')
    BY <1>0, <1>7, <2>1, <2>2, ClearPassed DEF Open, Relay, GiveUp, NoneReplaced
  <2>4. \A i \in 1 .. Len(wire') : Clear(wire'[i].text)
    <3>1. wire' = wire \/ (wire # << >> /\ wire' = Tail(wire)) \/ wire' = << >>
      BY <1>7 DEF Open, Relay, GiveUp
    <3>2. \A i \in 1 .. Len(<< >>) : FALSE
      OBVIOUS
    <3> QED
      BY <2>2, <3>1, <3>2 DEF NoneReplaced
  <2> QED
    BY <1>7, <2>3, <2>4 DEF Open, Relay, GiveUp, NoneReplaced
<1>8. CASE Keep \/ Cancelled \/ HangUp \/ UNCHANGED vars
  BY <1>8 DEF Keep, Cancelled, Abandon, HangUp, vars, NoneReplaced
<1> QED
  BY <1>2, <1>3, <1>4, <1>5, <1>6, <1>7, <1>8 DEF Next

\* The test of the deltas is right about every vocabulary whose tokens are
\* whole characters: a finished stream has brought exactly the output's text.
THEOREM WholeTokensReassemble == Spec => [](WholeTokens => Reassembles)
<1> DEFINE Conclusion == WholeTokens => NoneReplaced
<1>1. Init => Conclusion
  <2> SUFFICES ASSUME Init PROVE NoneReplaced
    OBVIOUS
  <2>1. Clear(<< >>) /\ \A i \in 1 .. Len(<< >>) : FALSE
    BY DEF Clear
  <2> QED
    BY <2>1, NothingDecodes DEF Init, NoneReplaced
<1>2. IInv /\ Conclusion /\ [Next]_vars => Conclusion'
  BY NoneReplacedStep DEF WholeTokens
<1>3. IInv /\ Conclusion => (WholeTokens => Reassembles)
  <2> SUFFICES ASSUME IInv, NoneReplaced PROVE Reassembles
    OBVIOUS
  <2>1. \A i \in DOMAIN got : got[i] # "?"
    BY DEF IInv, TypeOK, NoneReplaced, Clear
  <2> QED
    BY <2>1, ClearedText DEF WholeUnlessReplaced, Reassembles
<1> QED
  BY <1>1, <1>2, <1>3, Invariant, PTL DEF Spec
=============================================================================
