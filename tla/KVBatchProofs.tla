---------------------------- MODULE KVBatchProofs ----------------------------
(***************************************************************************)
(* The batch of module KVBatch, for every set of sequences, every context  *)
(* and every batch size: rows stay aligned, each attends to its own        *)
(* sequence, no column is padding for all, and a sequence generates in the *)
(* batch what it would generate alone.                                     *)
(***************************************************************************)
EXTENDS KVBatch, FiniteSetTheorems, SequenceTheorems, WellFoundedInduction,
        TLAPS

-----------------------------------------------------------------------------
(* Least and greatest numbers *)

\* A set of natural numbers that is not empty has a least element.
LEMMA LeastNumber ==
    ASSUME NEW S \in SUBSET Nat, S # {}
    PROVE  \E x \in S : \A y \in S : x <= y
<1> DEFINE R == {p \in Nat \X Nat : p[1] < p[2]}
<1>1. IsWellFoundedOn(R, Nat)
  BY NatLessThanWellFounded DEF OpToRel
<1>2. \A x, y \in Nat : y < x => <<y, x>> \in R
  OBVIOUS
<1> HIDE DEF R
<1>3. PICK x \in S : \A y \in S : ~(<<y, x>> \in R)
  BY <1>1, WFMin
<1>4. ASSUME NEW y \in S
      PROVE  x <= y
  <2>1. ~(y < x)
    BY <1>2, <1>3
  <2>2. QED
    BY <2>1
<1>5. QED
  BY <1>4

\* A bounded one has a greatest, and that is its Maximum.
LEMMA GreatestNumber ==
    ASSUME NEW S \in SUBSET Nat, S # {}, NEW b \in Nat, \A x \in S : x <= b
    PROVE  Maximum(S) \in S /\ \A x \in S : x <= Maximum(S)
<1> DEFINE U == {u \in Nat : \A x \in S : x <= u}
<1>1. PICK u \in U : \A v \in U : u <= v
  <2>1. U \in SUBSET Nat /\ U # {}
    <3>1. b \in U
      OBVIOUS
    <3>2. QED
      BY <3>1
  <2> HIDE DEF U
  <2>2. QED
    BY <2>1, LeastNumber
<1>2. u \in S
  <2>1. SUFFICES ASSUME u \notin S
                 PROVE  FALSE
    OBVIOUS
  <2>2. \A x \in S : x <= u - 1 /\ 0 <= x
    BY <1>1, <2>1
  <2>3. u - 1 \in Nat
    <3>1. PICK e \in S : TRUE
      OBVIOUS
    <3>2. 0 <= e /\ e <= u - 1 /\ e \in Nat /\ u \in Nat
      BY <2>2
    <3>3. QED
      BY <3>2
  <2>4. u - 1 \in U
    BY <2>2, <2>3
  <2>5. QED
    BY <1>1, <2>4
<1>3. \E n \in S : \A m \in S : m <= n
  BY <1>1, <1>2
<1>4. QED
  BY <1>3 DEF Maximum

\* The size of an initial segment of 1 .. w tells which one it is.
LEMMA InitialSegment ==
    ASSUME NEW w \in Nat, NEW D \in SUBSET (1 .. w),
           \A j \in D, i \in 1 .. w : i <= j => i \in D
    PROVE  /\ Cardinality(D) \in 0 .. w
           /\ D = 1 .. Cardinality(D)
<1>1. \E n \in 0 .. w : D = 1 .. n
  <2>1. CASE D = 1 .. w
    BY <2>1
  <2>2. CASE D # 1 .. w
    <3> DEFINE G == (1 .. w) \ D
    <3>1. G \in SUBSET Nat /\ G # {}
      <4>1. D \subseteq 1 .. w /\ 1 .. w \subseteq Nat
        OBVIOUS
      <4>2. QED
        BY <2>2, <4>1
    <3>2. PICK g \in G : \A y \in G : g <= y
      <4> HIDE DEF G
      <4>1. QED
        BY <3>1, LeastNumber
    <3>3. g - 1 \in 0 .. w
      BY <3>2
    <3>4. D = 1 .. (g - 1)
      <4>1. ASSUME NEW i \in D
            PROVE  i \in 1 .. (g - 1)
        <5>1. ~(g <= i)
          BY <3>2
        <5>2. QED
          BY <3>2, <5>1
      <4>2. ASSUME NEW i \in 1 .. (g - 1)
            PROVE  i \in D
        <5>1. i \in 1 .. w /\ ~(g <= i)
          BY <3>2
        <5>2. QED
          BY <3>2, <5>1
      <4>3. QED
        BY <4>1, <4>2
    <3>5. QED
      BY <3>3, <3>4
  <2>3. QED
    BY <2>1, <2>2
<1>2. PICK n \in 0 .. w : D = 1 .. n
  BY <1>1
<1>3. Cardinality(1 .. n) = n
  <2>1. Cardinality(1 .. n) = IF 1 > n THEN 0 ELSE n - 1 + 1
    BY FS_Interval
  <2>2. QED
    BY <2>1
<1>4. QED
  BY <1>2, <1>3

\* A shift along the numbers keeps the size of a set.
LEMMA ShiftSize ==
    ASSUME NEW S \in SUBSET Int, IsFiniteSet(S), NEW k \in Int
    PROVE  /\ IsFiniteSet({j + k : j \in S})
           /\ Cardinality({j + k : j \in S}) = Cardinality(S)
<1> DEFINE T == {j + k : j \in S}
           f == [j \in S |-> j + k]
<1>1. f \in Bijection(S, T)
  <2>1. f \in [S -> T]
    OBVIOUS
  <2>2. \A a, b \in S : f[a] = f[b] => a = b
    OBVIOUS
  <2>3. \A t \in T : \E j \in S : f[j] = t
    BY Zenon
  <2>4. QED
    <3> HIDE DEF f, T
    <3>1. QED
      BY <2>1, <2>2, <2>3 DEF Bijection, Injection, Surjection, IsInjective
<1>2. ExistsBijection(S, T)
  BY <1>1 DEF ExistsBijection
<1>3. QED
  BY <1>2, FS_Bijection

-----------------------------------------------------------------------------
(* Rows *)

\* A function on 1 .. n is a sequence of n elements.
LEMMA ListOf ==
    ASSUME NEW T, NEW n \in Nat, NEW f \in [1 .. n -> T]
    PROVE  f \in Seq(T) /\ Len(f) = n
<1>1. f \in Seq(T)
  BY SeqDef
<1>2. QED
  BY <1>1, LenProperties

Columns == [token : Tokens, pos : Nat]

\* What a row attends to is a finite set of its columns.
LEMMA AttendedColumns ==
    ASSUME NEW m, Len(m) \in Nat
    PROVE  /\ Attended(m) \in SUBSET (1 .. Len(m))
           /\ IsFiniteSet(Attended(m))
           /\ Cardinality(Attended(m)) \in 0 .. Len(m)
<1>1. Attended(m) \in SUBSET (1 .. Len(m))
  BY DEF Attended
<1>2. /\ IsFiniteSet(1 .. Len(m))
      /\ Cardinality(1 .. Len(m)) = Len(m)
  BY FS_Interval
<1>3. /\ IsFiniteSet(Attended(m))
      /\ Cardinality(Attended(m)) <= Len(m)
  BY <1>1, <1>2, FS_Subset
<1>4. Cardinality(Attended(m)) \in Nat
  BY <1>3, FS_CardinalityType
<1>5. QED
  BY <1>1, <1>3, <1>4

\* k columns of padding in front of a row change nothing the model sees.
LEMMA PaddingUnseen ==
    ASSUME NEW m, NEW row, NEW m2, NEW row2, NEW k \in Nat, NEW s, NEW n,
           Len(m) \in Nat \ {0}, Len(row) = Len(m),
           Len(m2) = k + Len(m), Len(row2) = k + Len(m),
           \A j \in 1 .. k : m2[j] = 0,
           \A j \in 1 .. Len(m) : m2[j + k] = m[j] /\ row2[j + k] = row[j]
    PROVE  /\ Cardinality(Attended(m2)) = Cardinality(Attended(m))
           /\ Sees(row2, m2, s, n) <=> Sees(row, m, s, n)
<1> DEFINE A == Attended(m)
<1>1. Attended(m2) = {j + k : j \in A}
  <2>1. ASSUME NEW i \in Attended(m2)
        PROVE  i \in {j + k : j \in A}
    <3>1. i \in 1 .. k + Len(m) /\ m2[i] = 1
      BY DEF Attended
    <3>2. i - k \in 1 .. Len(m) /\ (i - k) + k = i
      BY <3>1
    <3>3. i - k \in A
      BY <3>1, <3>2 DEF Attended
    <3>4. QED
      BY <3>2, <3>3
  <2>2. ASSUME NEW j \in A
        PROVE  j + k \in Attended(m2)
    BY DEF Attended
  <2>3. QED
    BY <2>1, <2>2
<1>2. A \in SUBSET (1 .. Len(m)) /\ IsFiniteSet(A)
  BY AttendedColumns
<1> HIDE DEF A
<1>3. Cardinality(Attended(m2)) = Cardinality(A)
  <2>1. A \in SUBSET Int /\ k \in Int
    BY <1>2
  <2>2. Cardinality({j + k : j \in A}) = Cardinality(A)
    BY <1>2, <2>1, ShiftSize, Zenon
  <2>3. QED
    BY <1>1, <2>2, Zenon
<1>4. {row2[i] : i \in Attended(m2)} = {row[j] : j \in A}
  <2>1. \A j \in A : row2[j + k] = row[j] /\ j + k \in Attended(m2)
    BY <1>1, <1>2
  <2>2. \A i \in Attended(m2) : \E j \in A : row2[i] = row[j]
    BY <1>1, <2>1
  <2>3. QED
    BY <2>1, <2>2
<1>5. row2[Len(row2)] = row[Len(row)]
  OBVIOUS
<1>6. QED
  BY <1>3, <1>4, <1>5 DEF Sees, A

\* The model continues the sequence it sees; the last column tells which.
LEMMA SampleContinues ==
    ASSUME NEW m, NEW row, NEW s \in Ids,
           Sees(row, m, s, Cardinality(Attended(m)))
    PROVE  Sample(row, m) = Token(s, Cardinality(Attended(m)) + 1)
<1> DEFINE n == Cardinality(Attended(m))
<1>1. \A q \in Ids : Sees(row, m, q, n) => q = s
  BY DEF Sees, Column, Token
<1>2. (CHOOSE q \in Ids : Sees(row, m, q, n)) = s
  BY <1>1
<1>3. QED
  BY <1>2 DEF Sample

\* A row that consumes the next token of its sequence sees one token more.
LEMMA RowGrows ==
    ASSUME NEW m \in Seq({0, 1}), NEW row \in Seq(Columns), NEW s \in Ids,
           Len(row) = Len(m),
           Sees(row, m, s, Cardinality(Attended(m)))
    PROVE  LET n == Cardinality(Attended(m))
               m2 == Append(m, 1)
               row2 == Append(row, Column(Token(s, n + 1),
                                          Position(m2, Len(m2))))
           IN  /\ Position(m2, Len(m2)) = n
               /\ Cardinality(Attended(m2)) = n + 1
               /\ row2 \in Seq(Columns)
               /\ Sees(row2, m2, s, n + 1)
<1> DEFINE n == Cardinality(Attended(m))
           m2 == Append(m, 1)
           p == Position(m2, Len(m2))
           c == Column(Token(s, n + 1), p)
           row2 == Append(row, c)
<1>1. /\ Len(m) \in Nat
      /\ m2 \in Seq({0, 1}) /\ Len(m2) = Len(m) + 1
      /\ \A j \in 1 .. Len(m) : m2[j] = m[j]
      /\ m2[Len(m) + 1] = 1
  OBVIOUS
<1>2. /\ Attended(m) \in SUBSET (1 .. Len(m))
      /\ IsFiniteSet(Attended(m)) /\ n \in 0 .. Len(m)
  BY <1>1, AttendedColumns
<1> HIDE DEF m2, n
<1>3. Attended(m2) = Attended(m) \cup {Len(m) + 1}
  <2>1. ASSUME NEW j
        PROVE  j \in Attended(m2) <=> j \in Attended(m) \cup {Len(m) + 1}
    <3>1. CASE j \in 1 .. Len(m)
      <4>1. j \in 1 .. Len(m2) /\ j # Len(m) + 1 /\ m2[j] = m[j]
        BY <1>1, <3>1
      <4>2. QED
        BY <3>1, <4>1 DEF Attended
    <3>2. CASE j = Len(m) + 1
      <4>1. j \in 1 .. Len(m2) /\ m2[j] = 1
        BY <1>1, <3>2
      <4>2. QED
        BY <3>2, <4>1 DEF Attended
    <3>3. CASE j \notin 1 .. Len(m) /\ j # Len(m) + 1
      <4>1. j \notin 1 .. Len(m2)
        BY <1>1, <3>3
      <4>2. QED
        BY <1>2, <3>3, <4>1 DEF Attended
    <3>4. QED
      BY <3>1, <3>2, <3>3
  <2>2. QED
    BY <2>1
<1>4. Cardinality(Attended(m2)) = n + 1
  <2>1. Len(m) + 1 \notin Attended(m)
    BY <1>1, <1>2
  <2>2. QED
    BY <1>2, <1>3, <2>1, FS_AddElement DEF n
<1>5. p = n
  <2> DEFINE B == {i \in Attended(m2) : i <= Len(m2)}
  <2>1. B = Attended(m2)
    BY <1>1, <1>2, <1>3
  <2>2. p = IF Cardinality(B) = 0 THEN 0 ELSE Cardinality(B) - 1
    BY DEF Position
  <2> HIDE DEF B, p
  <2>3. QED
    BY <1>2, <1>4, <2>1, <2>2
<1> HIDE DEF p
<1>6. c \in Columns
  BY <1>2, <1>5 DEF Columns, Column, Tokens, Token
<1> HIDE DEF c
<1>7. /\ row2 \in Seq(Columns) /\ Len(row2) = Len(m) + 1
      /\ \A j \in 1 .. Len(m) : row2[j] = row[j]
      /\ row2[Len(m) + 1] = c
  BY <1>6
<1> HIDE DEF row2
<1>8. {row2[j] : j \in Attended(m2)} = Prefix(s, n + 1)
  <2>1. {row2[j] : j \in Attended(m2)} = {row[j] : j \in Attended(m)} \cup {c}
    <3>1. \A j \in Attended(m) : row2[j] = row[j]
      BY <1>2, <1>7
    <3>2. QED
      BY <1>3, <1>7, <3>1
  <2>2. {row[j] : j \in Attended(m)} = Prefix(s, n)
    BY DEF Sees, n
  <2>3. c = Column(Token(s, n + 1), (n + 1) - 1)
    BY <1>2, <1>5 DEF c
  <2>4. Prefix(s, n + 1)
            = Prefix(s, n) \cup {Column(Token(s, n + 1), (n + 1) - 1)}
    <3>1. 1 .. (n + 1) = (1 .. n) \cup {n + 1}
      BY <1>2
    <3>2. QED
      BY <3>1 DEF Prefix
  <2>5. QED
    BY <2>1, <2>2, <2>3, <2>4
<1>9. row2[Len(row2)] = Column(Token(s, n + 1), (n + 1) - 1)
  BY <1>2, <1>5, <1>7 DEF c
<1>10. QED
  BY <1>4, <1>5, <1>7, <1>8, <1>9 DEF Sees, m2, n, p, c, row2

\* A row prefilled with p tokens of s after padding to the width w.
Fresh(row, m, s, p, w) ==
    /\ Len(m) = w /\ Len(row) = w
    /\ \A j \in 1 .. w : m[j] = IF j > w - p THEN 1 ELSE 0
    /\ \A j \in 1 .. w : row[j] =
           Column(IF m[j] = 1 THEN Token(s, j - (w - p)) ELSE PadToken,
                  Position(m, j))

LEMMA FreshRow ==
    ASSUME NEW w \in Nat, NEW p \in 1 .. w, NEW s \in Ids, NEW m, NEW row,
           Fresh(row, m, s, p, w)
    PROVE  /\ Cardinality(Attended(m)) = p
           /\ Sees(row, m, s, p)
           /\ \A j \in 1 .. w : row[j] \in Columns /\ row[j].pos < p
<1>0. /\ Len(m) = w /\ Len(row) = w
      /\ \A j \in 1 .. w : m[j] = IF j > w - p THEN 1 ELSE 0
      /\ \A j \in 1 .. w : row[j] =
             Column(IF m[j] = 1 THEN Token(s, j - (w - p)) ELSE PadToken,
                    Position(m, j))
  BY DEF Fresh
<1>1. Attended(m) = (w - p + 1) .. w
  <2>1. \A j \in 1 .. w : m[j] = 1 <=> j > w - p
    BY <1>0
  <2>2. \A j \in 1 .. w : j > w - p <=> j \in (w - p + 1) .. w
    OBVIOUS
  <2>3. (w - p + 1) .. w \subseteq 1 .. w
    OBVIOUS
  <2>4. QED
    BY <1>0, <2>1, <2>2, <2>3 DEF Attended
<1>2. Cardinality(Attended(m)) = p
  <2>1. Cardinality((w - p + 1) .. w)
            = IF w - p + 1 > w THEN 0 ELSE w - (w - p + 1) + 1
    BY FS_Interval
  <2>2. QED
    BY <1>1, <2>1
<1>3. ASSUME NEW j \in 1 .. w
      PROVE  Position(m, j) = IF j > w - p THEN j - (w - p) - 1 ELSE 0
  <2> DEFINE B == {i \in Attended(m) : i <= j}
  <2>1. B = (w - p + 1) .. j
    BY <1>1
  <2>2. Cardinality((w - p + 1) .. j)
            = IF w - p + 1 > j THEN 0 ELSE j - (w - p + 1) + 1
    BY FS_Interval
  <2>3. Position(m, j) = IF Cardinality(B) = 0 THEN 0 ELSE Cardinality(B) - 1
    BY DEF Position
  <2> HIDE DEF B
  <2>4. QED
    BY <2>1, <2>2, <2>3
<1>4. ASSUME NEW j \in 1 .. w
      PROVE  /\ row[j] \in Columns
             /\ row[j].pos < p
             /\ j > w - p =>
                    row[j] = Column(Token(s, j - (w - p)), (j - (w - p)) - 1)
  <2>1. CASE j > w - p
    <3>1. m[j] = 1 /\ Position(m, j) = (j - (w - p)) - 1
      BY <1>0, <1>3, <2>1
    <3>2. row[j] = Column(Token(s, j - (w - p)), (j - (w - p)) - 1)
      BY <1>0, <3>1
    <3>3. j - (w - p) \in 1 .. p
      BY <2>1
    <3>4. Token(s, j - (w - p)) \in Tokens
      BY <3>3 DEF Token, Tokens
    <3>5. (j - (w - p)) - 1 \in Nat /\ (j - (w - p)) - 1 < p
      BY <3>3
    <3>6. QED
      BY <3>2, <3>4, <3>5 DEF Columns, Column
  <2>2. CASE ~(j > w - p)
    <3>1. row[j] = Column(PadToken, 0)
      BY <1>0, <1>3, <2>2
    <3>2. PadToken \in Tokens
      BY DEF Tokens
    <3>3. row[j] \in Columns /\ row[j].pos = 0
      BY <3>1, <3>2 DEF Columns, Column
    <3>4. QED
      BY <2>2, <3>3
  <2>3. QED
    BY <2>1, <2>2
<1>5. {row[j] : j \in Attended(m)} = Prefix(s, p)
  <2>1. ASSUME NEW j \in Attended(m)
        PROVE  \E k \in 1 .. p : row[j] = Column(Token(s, k), k - 1)
    <3>1. j \in 1 .. w /\ j > w - p /\ j - (w - p) \in 1 .. p
      BY <1>1
    <3>2. row[j] = Column(Token(s, j - (w - p)), (j - (w - p)) - 1)
      BY <1>4, <3>1
    <3>3. QED
      BY <3>1, <3>2
  <2>2. ASSUME NEW k \in 1 .. p
        PROVE  \E j \in Attended(m) : row[j] = Column(Token(s, k), k - 1)
    <3>1. /\ k + (w - p) \in 1 .. w
          /\ k + (w - p) > w - p
          /\ (k + (w - p)) - (w - p) = k
      OBVIOUS
    <3>2. row[k + (w - p)] = Column(Token(s, k), k - 1)
      BY <1>4, <3>1
    <3>3. k + (w - p) \in Attended(m)
      BY <1>1, <3>1
    <3>4. QED
      BY <3>2, <3>3
  <2>3. ASSUME NEW x \in {row[j] : j \in Attended(m)}
        PROVE  x \in Prefix(s, p)
    <3>1. PICK j \in Attended(m) : x = row[j]
      OBVIOUS
    <3>2. PICK k \in 1 .. p : row[j] = Column(Token(s, k), k - 1)
      BY <2>1
    <3>3. QED
      BY <3>1, <3>2 DEF Prefix
  <2>4. ASSUME NEW x \in Prefix(s, p)
        PROVE  x \in {row[j] : j \in Attended(m)}
    <3>1. PICK k \in 1 .. p : x = Column(Token(s, k), k - 1)
      BY DEF Prefix
    <3>2. PICK j \in Attended(m) : row[j] = Column(Token(s, k), k - 1)
      BY <2>2
    <3>3. QED
      BY <3>1, <3>2
  <2>5. QED
    BY <2>3, <2>4
<1>6. row[Len(row)] = Column(Token(s, p), p - 1)
  <2>1. w \in 1 .. w /\ w > w - p /\ w - (w - p) = p
    OBVIOUS
  <2>2. QED
    BY <1>0, <1>4, <2>1
<1>7. QED
  BY <1>2, <1>4, <1>5, <1>6 DEF Sees

-----------------------------------------------------------------------------
(* Lists of rows *)

\* Behind k more columns, row2 is row; and each of them is fill.
Behind(row2, row, k) ==
    /\ Len(row2) = k + Len(row)
    /\ \A j \in 1 .. Len(row) : row2[j + k] = row[j]

Filled(row2, k, fill) == \A j \in 1 .. k : row2[j] = fill

\* The columns of padding that a list of width v needs beside one of width w.
Gap(v, w) == IF w > v THEN w - v ELSE 0

LEMMA PaddedRows ==
    ASSUME NEW T, NEW rows \in Seq(Seq(T)), NEW n \in Int, NEW fill \in T
    PROVE  /\ LeftPad(rows, n, fill) \in Seq(Seq(T))
           /\ Len(LeftPad(rows, n, fill)) = Len(rows)
           /\ \A i \in 1 .. Len(rows) :
                  /\ Behind(LeftPad(rows, n, fill)[i], rows[i], Gap(0, n))
                  /\ Filled(LeftPad(rows, n, fill)[i], Gap(0, n), fill)
<1>1. /\ Len(rows) \in Nat
      /\ \A i \in 1 .. Len(rows) : rows[i] \in Seq(T) /\ Len(rows[i]) \in Nat
  OBVIOUS
<1>2. CASE n <= 0
  <2>1. LeftPad(rows, n, fill) = rows /\ Gap(0, n) = 0
    BY <1>2 DEF LeftPad, Gap
  <2>2. QED
    BY <1>1, <2>1 DEF Behind, Filled
<1>3. CASE n > 0
  <2> DEFINE pad == [j \in 1 .. n |-> fill]
             P == [i \in 1 .. Len(rows) |-> pad \o rows[i]]
  <2>1. LeftPad(rows, n, fill) = P /\ Gap(0, n) = n /\ n \in Nat
    BY <1>3 DEF LeftPad, Gap
  <2>2. pad \in Seq(T) /\ Len(pad) = n /\ \A j \in 1 .. n : pad[j] = fill
    <3>1. pad \in [1 .. n -> T]
      OBVIOUS
    <3>2. QED
      BY <2>1, <3>1, ListOf
  <2> HIDE DEF pad
  <2>3. ASSUME NEW i \in 1 .. Len(rows)
        PROVE  /\ pad \o rows[i] \in Seq(T)
               /\ Behind(pad \o rows[i], rows[i], n)
               /\ Filled(pad \o rows[i], n, fill)
    <3>1. /\ pad \o rows[i] \in Seq(T)
          /\ Len(pad \o rows[i]) = n + Len(rows[i])
          /\ \A j \in 1 .. n + Len(rows[i]) : (pad \o rows[i])[j] =
                 IF j <= n THEN pad[j] ELSE rows[i][j - n]
      BY <1>1, <2>2, ConcatProperties
    <3>2. ASSUME NEW j \in 1 .. Len(rows[i])
          PROVE  (pad \o rows[i])[j + n] = rows[i][j]
      <4>1. /\ j + n \in 1 .. n + Len(rows[i])
            /\ ~(j + n <= n)
            /\ (j + n) - n = j
        BY <1>1, <2>1
      <4>2. QED
        BY <3>1, <4>1
    <3>3. ASSUME NEW j \in 1 .. n
          PROVE  (pad \o rows[i])[j] = fill
      <4>1. j \in 1 .. n + Len(rows[i]) /\ j <= n
        BY <1>1
      <4>2. QED
        BY <2>2, <3>1, <4>1
    <3>4. QED
      BY <3>1, <3>2, <3>3 DEF Behind, Filled
  <2>4. P \in Seq(Seq(T)) /\ Len(P) = Len(rows)
    <3>1. P \in [1 .. Len(rows) -> Seq(T)]
      BY <2>3
    <3>2. QED
      BY <1>1, <3>1, ListOf
  <2>5. \A i \in 1 .. Len(rows) : P[i] = pad \o rows[i]
    OBVIOUS
  <2> HIDE DEF P
  <2>6. QED
    BY <2>1, <2>3, <2>4, <2>5
<1>4. QED
  BY <1>2, <1>3

\* Two lists, each as wide as its first row, stacked to the greater width.
LEMMA StackedRows ==
    ASSUME NEW T, NEW a \in Seq(Seq(T)), NEW b \in Seq(Seq(T)), NEW fill \in T,
           Width(a) \in Nat, Width(b) \in Nat
    PROVE  LET c  == Stack(a, b, fill)
               ka == Gap(Width(a), Width(b))
               kb == Gap(Width(b), Width(a))
           IN  /\ c \in Seq(Seq(T)) /\ Len(c) = Len(a) + Len(b)
               /\ \A i \in 1 .. Len(a) :
                      Behind(c[i], a[i], ka) /\ Filled(c[i], ka, fill)
               /\ \A i \in 1 .. Len(b) :
                      /\ Behind(c[Len(a) + i], b[i], kb)
                      /\ Filled(c[Len(a) + i], kb, fill)
<1> DEFINE pa == LeftPad(a, Width(b) - Width(a), fill)
           pb == LeftPad(b, Width(a) - Width(b), fill)
           ka == Gap(Width(a), Width(b))
           kb == Gap(Width(b), Width(a))
<1>1. /\ ka = Gap(0, Width(b) - Width(a)) /\ Width(b) - Width(a) \in Int
      /\ kb = Gap(0, Width(a) - Width(b)) /\ Width(a) - Width(b) \in Int
  BY DEF Gap
<1> HIDE DEF ka, kb
<1>2. /\ pa \in Seq(Seq(T)) /\ Len(pa) = Len(a)
      /\ \A i \in 1 .. Len(a) :
             Behind(pa[i], a[i], ka) /\ Filled(pa[i], ka, fill)
  BY <1>1, PaddedRows
<1>3. /\ pb \in Seq(Seq(T)) /\ Len(pb) = Len(b)
      /\ \A i \in 1 .. Len(b) :
             Behind(pb[i], b[i], kb) /\ Filled(pb[i], kb, fill)
  BY <1>1, PaddedRows
<1>4. Stack(a, b, fill) = pa \o pb
  BY DEF Stack
<1> HIDE DEF pa, pb
<1>5. /\ pa \o pb \in Seq(Seq(T)) /\ Len(pa \o pb) = Len(a) + Len(b)
      /\ \A i \in 1 .. Len(a) + Len(b) :
             (pa \o pb)[i] = IF i <= Len(a) THEN pa[i] ELSE pb[i - Len(a)]
  <2> DEFINE R == Seq(T)
  <2>1. /\ pa \in Seq(R) /\ Len(pa) = Len(a)
        /\ pb \in Seq(R) /\ Len(pb) = Len(b)
    BY <1>2, <1>3
  <2> HIDE DEF R
  <2>2. /\ pa \o pb \in Seq(R) /\ Len(pa \o pb) = Len(pa) + Len(pb)
        /\ \A i \in 1 .. Len(pa) + Len(pb) :
               (pa \o pb)[i] = IF i <= Len(pa) THEN pa[i] ELSE pb[i - Len(pa)]
    BY <2>1, ConcatProperties
  <2>3. QED
    BY <2>1, <2>2 DEF R
<1>6. Len(a) \in Nat /\ Len(b) \in Nat
  OBVIOUS
<1>7. \A i \in 1 .. Len(a) : (pa \o pb)[i] = pa[i]
  BY <1>5, <1>6
<1>8. ASSUME NEW i \in 1 .. Len(b)
      PROVE  (pa \o pb)[Len(a) + i] = pb[i]
  <2>1. /\ Len(a) + i \in 1 .. Len(a) + Len(b)
        /\ ~(Len(a) + i <= Len(a)) /\ (Len(a) + i) - Len(a) = i
    BY <1>6
  <2>2. QED
    BY <1>5, <2>1
<1>9. QED
  BY <1>2, <1>3, <1>4, <1>5, <1>7, <1>8 DEF ka, kb

LEMMA SelectedRows ==
    ASSUME NEW T, NEW rows \in Seq(T), NEW idx \in Seq(1 .. Len(rows))
    PROVE  /\ Select(rows, idx) \in Seq(T)
           /\ Len(Select(rows, idx)) = Len(idx)
           /\ \A k \in 1 .. Len(idx) :
                  idx[k] \in 1 .. Len(rows) /\ Select(rows, idx)[k] = rows[idx[k]]
<1>1. /\ Len(idx) \in Nat
      /\ \A k \in 1 .. Len(idx) : idx[k] \in 1 .. Len(rows) /\ rows[idx[k]] \in T
  OBVIOUS
<1>2. Select(rows, idx) \in [1 .. Len(idx) -> T]
  BY <1>1 DEF Select
<1>3. \A k \in 1 .. Len(idx) : Select(rows, idx)[k] = rows[idx[k]]
  BY DEF Select
<1>4. QED
  BY <1>1, <1>2, <1>3, ListOf

LEMMA DroppedRows ==
    ASSUME NEW T, NEW rows \in Seq(Seq(T)), NEW w \in Nat, NEW n \in 0 .. w,
           \A i \in 1 .. Len(rows) : Len(rows[i]) = w
    PROVE  /\ Drop(rows, n) \in Seq(Seq(T))
           /\ Len(Drop(rows, n)) = Len(rows)
           /\ \A i \in 1 .. Len(rows) :
                  Behind(rows[i], Drop(rows, n)[i], n)
<1>1. /\ Len(rows) \in Nat
      /\ \A i \in 1 .. Len(rows) : rows[i] \in Seq(T)
  OBVIOUS
<1>2. ASSUME NEW i \in 1 .. Len(rows)
      PROVE  /\ SubSeq(rows[i], n + 1, w) \in Seq(T)
             /\ Behind(rows[i], SubSeq(rows[i], n + 1, w), n)
  <2>1. \A j \in n + 1 .. w : rows[i][j] \in T
    BY <1>1
  <2>2. /\ SubSeq(rows[i], n + 1, w) \in Seq(T)
        /\ Len(SubSeq(rows[i], n + 1, w)) =
               IF n + 1 <= w THEN w - (n + 1) + 1 ELSE 0
        /\ \A j \in 1 .. w - (n + 1) + 1 :
               SubSeq(rows[i], n + 1, w)[j] = rows[i][n + 1 + j - 1]
    BY <2>1, SubSeqProperties
  <2> DEFINE q == SubSeq(rows[i], n + 1, w)
  <2>3. Len(q) = w - n /\ \A j \in 1 .. w - n : q[j] = rows[i][j + n]
    BY <2>2
  <2> HIDE DEF q
  <2>4. Behind(rows[i], q, n)
    BY <2>3 DEF Behind
  <2>5. QED
    BY <2>2, <2>4 DEF q
<1>3. \A i \in 1 .. Len(rows) : Drop(rows, n)[i] = SubSeq(rows[i], n + 1, w)
  BY DEF Drop
<1>4. Drop(rows, n) \in [1 .. Len(rows) -> Seq(T)]
  BY <1>2, <1>3 DEF Drop
<1>5. QED
  BY <1>1, <1>2, <1>3, <1>4, ListOf

\* What _compact drops is padding in every row, and it leaves a row whose
\* first column is not.
LEMMA LeadColumns ==
    ASSUME NEW m \in Seq(Seq({0, 1})), Width(m) \in Nat,
           \A i \in 1 .. Len(m) : Len(m[i]) = Width(m) /\ Attended(m[i]) # {}
    PROVE  /\ Lead(m) \in 0 .. Width(m)
           /\ \A i \in 1 .. Len(m) : Filled(m[i], Lead(m), 0)
           /\ Len(m) > 0 => /\ Lead(m) < Width(m)
                            /\ \E i \in 1 .. Len(m) : m[i][Lead(m) + 1] = 1
<1> DEFINE w == Width(m)
           D == {j \in 1 .. w :
                    \A i \in 1 .. Len(m) : \A k \in 1 .. j : m[i][k] = 0}
<1>1. Lead(m) = Cardinality(D)
  BY DEF Lead
<1>2. /\ \A j \in 1 .. w : j \in D <=>
             \A i \in 1 .. Len(m) : \A k \in 1 .. j : m[i][k] = 0
      /\ D \in SUBSET (1 .. w)
  OBVIOUS
<1> HIDE DEF D, w
<1>3. \A j \in D, i \in 1 .. w : i <= j => i \in D
  <2>1. SUFFICES ASSUME NEW j \in D, NEW i \in 1 .. w, i <= j
                 PROVE  i \in D
    OBVIOUS
  <2>2. j \in 1 .. w /\ 1 .. i \subseteq 1 .. j
    BY <1>2, <2>1
  <2>3. QED
    BY <1>2, <2>2
<1>4. w \in Nat
  BY DEF w
<1>5. Lead(m) \in 0 .. w /\ D = 1 .. Lead(m)
  BY <1>1, <1>2, <1>3, <1>4, InitialSegment
<1>6. ASSUME NEW i \in 1 .. Len(m)
      PROVE  Filled(m[i], Lead(m), 0)
  <2>1. CASE Lead(m) = 0
    BY <2>1 DEF Filled
  <2>2. CASE Lead(m) # 0
    <3>1. Lead(m) \in D /\ Lead(m) \in 1 .. w
      BY <1>4, <1>5, <2>2
    <3>2. QED
      BY <1>2, <3>1 DEF Filled
  <2>3. QED
    BY <2>1, <2>2
<1>7. ASSUME Len(m) > 0
      PROVE  Lead(m) < w
  <2>1. Len(m) \in Nat /\ 1 \in 1 .. Len(m)
    BY <1>7
  <2>2. PICK j \in 1 .. w : m[1][j] = 1
    BY <2>1 DEF Attended, w
  <2>3. ~(j <= Lead(m))
    <3>1. \A k \in 1 .. Lead(m) : m[1][k] = 0
      BY <1>6, <2>1 DEF Filled
    <3>2. QED
      BY <1>4, <1>5, <2>2, <3>1
  <2>4. QED
    BY <1>4, <1>5, <2>3
<1>8. ASSUME Len(m) > 0
      PROVE  \E i \in 1 .. Len(m) : m[i][Lead(m) + 1] = 1
  <2>1. Lead(m) + 1 \in 1 .. w /\ Lead(m) + 1 \notin D
    BY <1>4, <1>5, <1>7, <1>8
  <2>2. PICK i \in 1 .. Len(m), k \in 1 .. Lead(m) + 1 : m[i][k] # 0
    BY <1>2, <2>1
  <2>3. k = Lead(m) + 1
    <3>1. \A n \in 1 .. Lead(m) : m[i][n] = 0
      BY <1>6 DEF Filled
    <3>2. QED
      BY <1>4, <1>5, <2>2, <3>1
  <2>4. m[i][k] \in {0, 1}
    <3>1. m[i] \in Seq({0, 1}) /\ Len(m[i]) = w
      BY DEF w
    <3>2. QED
      BY <2>1, <2>3, <3>1
  <2>5. QED
    BY <2>2, <2>3, <2>4
<1>9. QED
  BY <1>5, <1>6, <1>7, <1>8 DEF w

\* prefill: each row is its sequence, and the longest one has no padding.
LEMMA PrefilledRows ==
    ASSUME NEW ss \in Seq(Ids), Len(ss) > 0, NEW pl, NEW b \in Nat,
           \A i \in 1 .. Len(ss) : pl[ss[i]] \in 1 .. b
    PROVE  LET m == PrefillMask(ss, pl)
               c == PrefillCache(ss, pl)
           IN  /\ m \in Seq(Seq({0, 1})) /\ Len(m) = Len(ss)
               /\ c \in Seq(Seq(Columns)) /\ Len(c) = Len(ss)
               /\ Width(m) \in 1 .. b /\ Width(c) = Width(m)
               /\ \A i \in 1 .. Len(ss) :
                      /\ Len(m[i]) = Width(m) /\ Len(c[i]) = Width(m)
                      /\ Cardinality(Attended(m[i])) = pl[ss[i]]
                      /\ Sees(c[i], m[i], ss[i], pl[ss[i]])
                      /\ \A j \in 1 .. Width(m) : c[i][j].pos < b
               /\ \E i \in 1 .. Len(ss) : m[i][1] = 1
<1> DEFINE m == PrefillMask(ss, pl)
           c == PrefillCache(ss, pl)
           L == {pl[s] : s \in Elements(ss)}
           w == Maximum(L)
<1>1. /\ Len(ss) \in Nat /\ 1 \in 1 .. Len(ss)
      /\ \A i \in 1 .. Len(ss) : ss[i] \in Ids
  OBVIOUS
<1>2. \A i \in 1 .. Len(ss) : pl[ss[i]] \in L
  BY DEF Elements
<1>3. \A x \in L : \E i \in 1 .. Len(ss) : x = pl[ss[i]]
  BY DEF Elements
<1>4. /\ L \in SUBSET Nat /\ L # {}
      /\ \A x \in L : x \in 1 .. b /\ x <= b
  <2> HIDE DEF L
  <2>1. \A x \in L : x \in 1 .. b
    BY <1>3
  <2>2. L # {}
    BY <1>1, <1>2
  <2>3. \A n \in 1 .. b : n \in Nat /\ n <= b
    OBVIOUS
  <2>4. QED
    BY <2>1, <2>2, <2>3
<1> HIDE DEF L
<1>5. w \in L /\ \A x \in L : x <= w
  <2>1. Maximum(L) \in L /\ \A x \in L : x <= Maximum(L)
    BY <1>4, GreatestNumber
  <2> HIDE DEF w
  <2>2. QED
    BY <2>1 DEF w
<1>6. w \in 1 .. b
  <2>1. Maximum(L) \in L /\ \A x \in L : x \in 1 .. b
    BY <1>4, <1>5
  <2>2. QED
    BY <2>1
<1>7. m = [i \in 1 .. Len(ss) |-> [j \in 1 .. w |->
              IF j > w - pl[ss[i]] THEN 1 ELSE 0]]
  BY DEF PrefillMask, L
<1> HIDE DEF w
<1>8. ASSUME NEW i \in 1 .. Len(ss)
      PROVE  /\ m[i] \in Seq({0, 1}) /\ Len(m[i]) = w
             /\ \A j \in 1 .. w : m[i][j] = IF j > w - pl[ss[i]] THEN 1 ELSE 0
  <2> DEFINE f == [j \in 1 .. w |-> IF j > w - pl[ss[i]] THEN 1 ELSE 0]
  <2>1. f \in [1 .. w -> {0, 1}]
    OBVIOUS
  <2>2. \A j \in 1 .. w : f[j] = IF j > w - pl[ss[i]] THEN 1 ELSE 0
    OBVIOUS
  <2>3. m[i] = f
    BY <1>7
  <2> HIDE DEF f
  <2>4. f \in Seq({0, 1}) /\ Len(f) = w
    BY <1>6, <2>1, ListOf
  <2>5. QED
    BY <2>2, <2>3, <2>4
<1>9. m \in Seq(Seq({0, 1})) /\ Len(m) = Len(ss)
  <2>1. m \in [1 .. Len(ss) -> Seq({0, 1})]
    BY <1>7, <1>8
  <2>2. QED
    BY <1>1, <2>1, ListOf
<1>10. c = [i \in 1 .. Len(ss) |-> [j \in 1 .. Len(m[i]) |->
            Column(IF m[i][j] = 1 THEN Token(ss[i], j - (Len(m[i]) - pl[ss[i]]))
                                  ELSE PadToken,
                   Position(m[i], j))]]
  BY DEF PrefillCache
<1> HIDE DEF m, c
<1>11. ASSUME NEW i \in 1 .. Len(ss)
       PROVE  /\ c[i] \in Seq(Columns) /\ Len(c[i]) = w
              /\ Cardinality(Attended(m[i])) = pl[ss[i]]
              /\ Sees(c[i], m[i], ss[i], pl[ss[i]])
              /\ \A j \in 1 .. w : c[i][j].pos < b
  <2> DEFINE p == pl[ss[i]]
             f == [j \in 1 .. w |->
                      Column(IF m[i][j] = 1 THEN Token(ss[i], j - (w - p))
                                            ELSE PadToken,
                             Position(m[i], j))]
  <2>1. p \in 1 .. w /\ p <= b
    BY <1>2, <1>4, <1>5
  <2>2. c[i] = f
    BY <1>8, <1>10
  <2>3. \A j \in 1 .. w : f[j] =
            Column(IF m[i][j] = 1 THEN Token(ss[i], j - (w - p)) ELSE PadToken,
                   Position(m[i], j))
    OBVIOUS
  <2>4. Len(f) = w /\ DOMAIN f = 1 .. w /\ f = [j \in 1 .. w |-> f[j]]
    <3>1. f \in [1 .. w -> {f[j] : j \in 1 .. w}]
      OBVIOUS
    <3>2. QED
      BY <1>6, <3>1, ListOf
  <2>5. ss[i] \in Ids
    BY <1>1
  <2>6. \A j \in 1 .. w : m[i][j] = IF j > w - p THEN 1 ELSE 0
    BY <1>8
  <2>7. Len(m[i]) = w /\ w \in Nat
    BY <1>6, <1>8
  <2> HIDE DEF f, p
  <2>8. /\ Cardinality(Attended(m[i])) = p
        /\ Sees(f, m[i], ss[i], p)
        /\ \A j \in 1 .. w : f[j] \in Columns /\ f[j].pos < p
    <3>1. Fresh(f, m[i], ss[i], p, w)
      BY <2>3, <2>4, <2>6, <2>7 DEF Fresh
    <3>2. QED
      BY <2>1, <2>5, <2>7, <3>1, FreshRow
  <2>9. f \in Seq(Columns)
    <3>1. f \in [1 .. w -> Columns]
      BY <2>4, <2>8
    <3>2. QED
      BY <2>7, <3>1, ListOf
  <2>10. \A j \in 1 .. w : f[j].pos < b
    <3>1. SUFFICES ASSUME NEW j \in 1 .. w
                   PROVE  f[j].pos < b
      OBVIOUS
    <3>2. f[j].pos \in Nat /\ f[j].pos < p
      BY <2>8 DEF Columns
    <3>3. QED
      BY <2>1, <2>7, <3>2
  <2>11. QED
    BY <2>2, <2>4, <2>8, <2>9, <2>10 DEF p
<1>12. c \in Seq(Seq(Columns)) /\ Len(c) = Len(ss)
  <2>1. c \in [1 .. Len(ss) -> Seq(Columns)]
    BY <1>10, <1>11
  <2>2. QED
    BY <1>1, <2>1, ListOf
<1>13. Width(m) = w /\ Width(c) = w
  <2>1. m # << >> /\ c # << >>
    BY <1>1, <1>9, <1>12
  <2>2. QED
    BY <1>1, <1>8, <1>11, <2>1 DEF Width
<1>14. \E i \in 1 .. Len(ss) : m[i][1] = 1
  <2>1. PICK i \in 1 .. Len(ss) : w = pl[ss[i]]
    BY <1>3, <1>5
  <2>2. m[i][1] = 1
    BY <1>6, <1>8, <2>1
  <2>3. QED
    BY <2>2
<1>15. QED
  BY <1>6, <1>8, <1>9, <1>11, <1>12, <1>13, <1>14 DEF m, c

-----------------------------------------------------------------------------
(* The invariant *)

\* TypeOK, with what encode leaves of a prompt.
Types ==
    /\ pc \in {"ready", "emitted", "scanned"}
    /\ seqs \in Seq(Ids)
    /\ cache \in Seq(Seq(Columns))
    /\ mask \in Seq(Seq({0, 1}))
    /\ next \in Seq(Tokens)
    /\ keep \in Seq(1 .. Len(seqs))
    /\ prompt \in [Ids -> 0 .. MaxContext - 1]
    /\ out \in [Ids -> Seq(Tokens)]
    /\ finish \in [Ids -> Reasons]

\* model.py:64-66: as many rows of mask, cache and next tokens as sequences,
\* and all of them as wide.
BatchAligned ==
    /\ Len(mask) = Len(seqs) /\ Len(cache) = Len(seqs) /\ Len(next) = Len(seqs)
    /\ \A i \in 1 .. Len(seqs) :
            Len(mask[i]) = Width(mask) /\ Len(cache[i]) = Width(mask)

\* A row that is some tokens of s, with the token it consumes next.
RowOf(row, m, t, s) ==
    LET n == Cardinality(Attended(m))
    IN  n \in Nat \ {0} /\ Sees(row, m, s, n) /\ t = Token(s, n + 1)

\* Every row belongs to its sequence.  An unfinished one is up to date.
Rows ==
    \A i \in 1 .. Len(seqs) :
        /\ RowOf(cache[i], mask[i], next[i], seqs[i])
        /\ prompt[seqs[i]] > 0
        /\ finish[seqs[i]] = "none" =>
               Cardinality(Attended(mask[i])) + 1
                   = prompt[seqs[i]] + Len(out[seqs[i]])

\* Outputs are the continuations of their prompts, and nothing before one.
Outputs ==
    \A s \in Ids :
        /\ prompt[s] = 0 => out[s] = << >>
        /\ \A k \in 1 .. Len(out[s]) : out[s][k] = Token(s, prompt[s] + k)

\* A row that may be decoded once more has room in the context for it: while
\* the engine is idle every row, in an eviction the rows read as unfinished.
Room ==
    \A i \in 1 .. Len(seqs) :
        \/ pc = "ready"
        \/ finish[seqs[i]] = "none"
        \/ pc = "scanned" /\ \E k \in 1 .. Len(keep) : keep[k] = i
        => Cardinality(Attended(mask[i])) + 1 < MaxContext

KInv ==
    /\ Types
    /\ BatchAligned
    /\ Rows
    /\ Outputs
    /\ Room
    /\ NoCommonPadding
    /\ WithinContext

LEMMA InitKInv == Init => KInv
<1> SUFFICES ASSUME Init
             PROVE  KInv
  OBVIOUS
<1>1. Len(<< >>) = 0 /\ 1 .. 0 = {}
  OBVIOUS
<1>2. Types
  <2>1. 0 \in 0 .. MaxContext - 1
    BY EngineAssumption
  <2>2. \A T : << >> \in Seq(T)
    OBVIOUS
  <2>3. QED
    BY <2>1, <2>2 DEF Init, Types, Reasons
<1>3. BatchAligned /\ Rows /\ Room /\ NoCommonPadding
  BY <1>1 DEF Init, BatchAligned, Rows, Room, NoCommonPadding
<1>4. Outputs
  BY <1>1 DEF Init, Outputs
<1>5. WithinContext
  BY <1>1, EngineAssumption DEF Init, WithinContext
<1>6. QED
  BY <1>2, <1>3, <1>4, <1>5 DEF KInv

-----------------------------------------------------------------------------
(* _emit *)

Open(ss) == {s \in Elements(ss) : finish[s] = "none"}

\* The token of each unfinished row continues its sequence.
Drawn(ss, tokens, pl) ==
    \A i \in 1 .. Len(ss) : finish[ss[i]] = "none" =>
        tokens[i] = Token(ss[i], pl[ss[i]] + Len(out[ss[i]]) + 1)

\* The open sequences have their continuations; the full ones are finished.
Continued(open, pl) ==
    /\ out' = [s \in Ids |->
          IF s \in open THEN Append(out[s], Token(s, pl[s] + Len(out[s]) + 1))
                        ELSE out[s]]
    /\ \E eos \in SUBSET open :
          finish' = [s \in Ids |->
              IF s \in eos THEN "stop"
              ELSE IF /\ s \in open
                      /\ \/ Len(out'[s]) >= Budget[s]
                         \/ pl[s] + Len(out'[s]) >= MaxContext
                   THEN "length" ELSE finish[s]]

LEMMA EmitEffect ==
    ASSUME Types, NEW ss \in Seq(Ids), NEW tokens, NEW pl \in [Ids -> Nat],
           Emit(ss, tokens, pl), Drawn(ss, tokens, pl)
    PROVE  /\ Continued(Open(ss), pl)
           /\ out' \in [Ids -> Seq(Tokens)]
           /\ finish' \in [Ids -> Reasons]
           /\ \A s \in Ids \ Open(ss) : finish'[s] = finish[s]
           /\ \A s \in Open(ss) : finish'[s] = "none" =>
                  pl[s] + Len(out'[s]) < MaxContext
<1> DEFINE open == {s \in Elements(ss) : finish[s] = "none"}
           rowOf(s) == CHOOSE i \in 1 .. Len(ss) : ss[i] = s
<1>1. /\ out' = [s \in Ids |-> IF s \in open THEN Append(out[s], tokens[rowOf(s)])
                                             ELSE out[s]]
      /\ \E eos \in SUBSET open :
           finish' = [s \in Ids |->
               IF s \in eos THEN "stop"
               ELSE IF /\ s \in open
                       /\ \/ Len(out'[s]) >= Budget[s]
                          \/ pl[s] + Len(out'[s]) >= MaxContext
                    THEN "length" ELSE finish[s]]
  BY DEF Emit
<1>2. ASSUME NEW s \in open
      PROVE  tokens[rowOf(s)] = Token(s, pl[s] + Len(out[s]) + 1)
  <2>1. \E i \in 1 .. Len(ss) : ss[i] = s
    BY DEF Elements
  <2>2. rowOf(s) \in 1 .. Len(ss) /\ ss[rowOf(s)] = s
    BY <2>1
  <2>3. finish[s] = "none"
    OBVIOUS
  <2> HIDE DEF rowOf
  <2>4. QED
    BY <2>2, <2>3 DEF Drawn
<1>3. open \subseteq Ids
  BY DEF Elements
<1> HIDE DEF rowOf, open
<1>4. out' = [s \in Ids |->
                 IF s \in open
                 THEN Append(out[s], Token(s, pl[s] + Len(out[s]) + 1))
                 ELSE out[s]]
  BY <1>1, <1>2
<1>5. out' \in [Ids -> Seq(Tokens)]
  <2>1. ASSUME NEW s \in Ids
        PROVE  /\ Append(out[s], Token(s, pl[s] + Len(out[s]) + 1)) \in Seq(Tokens)
               /\ out[s] \in Seq(Tokens)
    <3>1. out[s] \in Seq(Tokens) /\ Len(out[s]) \in Nat
      BY DEF Types
    <3>2. Token(s, pl[s] + Len(out[s]) + 1) \in Tokens
      BY <3>1 DEF Token, Tokens
    <3>3. QED
      BY <3>1, <3>2
  <2>2. QED
    BY <1>4, <2>1
<1>6. PICK eos \in SUBSET open :
           finish' = [s \in Ids |->
               IF s \in eos THEN "stop"
               ELSE IF /\ s \in open
                       /\ \/ Len(out'[s]) >= Budget[s]
                          \/ pl[s] + Len(out'[s]) >= MaxContext
                    THEN "length" ELSE finish[s]]
  BY <1>1
<1>7. finish' \in [Ids -> Reasons]
  <2>1. finish \in [Ids -> Reasons]
    BY DEF Types
  <2>2. "stop" \in Reasons /\ "length" \in Reasons
    BY DEF Reasons
  <2>3. QED
    BY <1>6, <2>1, <2>2
<1>8. \A s \in Ids \ open : finish'[s] = finish[s]
  BY <1>6
<1>9. ASSUME NEW s \in open, finish'[s] = "none"
      PROVE  pl[s] + Len(out'[s]) < MaxContext
  <2>1. s \in Ids /\ pl[s] \in Nat /\ Len(out'[s]) \in Nat
    BY <1>3, <1>5
  <2>2. ~(pl[s] + Len(out'[s]) >= MaxContext)
    BY <1>6, <1>9, <2>1
  <2>3. QED
    BY <2>1, <2>2, EngineAssumption
<1>10. open = Open(ss)
  BY DEF open, Open
<1>11. Continued(open, pl)
  BY <1>1, <1>4 DEF Continued
<1>12. QED
  BY <1>5, <1>7, <1>8, <1>9, <1>10, <1>11

\* Outputs remain the continuations of their prompts.
LEMMA OutputsContinue ==
    ASSUME Types, Outputs, NEW open \in SUBSET Ids, NEW pl \in [Ids -> Nat],
           prompt' = pl, Continued(open, pl),
           \A s \in open : pl[s] > 0,
           \A s \in Ids : prompt[s] > 0 => pl[s] = prompt[s]
    PROVE  /\ Outputs'
           /\ \A s \in Ids : Len(out'[s]) =
                  IF s \in open THEN Len(out[s]) + 1 ELSE Len(out[s])
<1>1. /\ out' = [s \in Ids |->
             IF s \in open THEN Append(out[s], Token(s, pl[s] + Len(out[s]) + 1))
                           ELSE out[s]]
      /\ out \in [Ids -> Seq(Tokens)] /\ prompt \in [Ids -> Nat]
  BY DEF Continued, Types
<1>2. SUFFICES ASSUME NEW s \in Ids
               PROVE  /\ pl[s] = 0 => out'[s] = << >>
                      /\ \A k \in 1 .. Len(out'[s]) :
                             out'[s][k] = Token(s, pl[s] + k)
                      /\ Len(out'[s]) = IF s \in open THEN Len(out[s]) + 1
                                                      ELSE Len(out[s])
  BY DEF Outputs
<1>3. /\ out[s] \in Seq(Tokens) /\ Len(out[s]) \in Nat
      /\ prompt[s] \in Nat /\ pl[s] \in Nat
  BY <1>1
<1>4. /\ pl[s] = 0 => out[s] = << >>
      /\ \A k \in 1 .. Len(out[s]) : out[s][k] = Token(s, pl[s] + k)
  <2>1. CASE prompt[s] = 0
    <3>1. out[s] = << >> /\ Len(<< >>) = 0
      BY <2>1 DEF Outputs
    <3>2. QED
      BY <3>1
  <2>2. CASE prompt[s] # 0
    <3>1. pl[s] = prompt[s]
      BY <1>3, <2>2
    <3>2. QED
      BY <2>2, <3>1 DEF Outputs
  <2>3. QED
    BY <2>1, <2>2
<1>5. CASE s \notin open
  <2>1. out'[s] = out[s]
    BY <1>1, <1>5
  <2>2. QED
    BY <1>4, <1>5, <2>1
<1>6. CASE s \in open
  <2> DEFINE t == Token(s, pl[s] + Len(out[s]) + 1)
  <2>1. out'[s] = Append(out[s], t)
    BY <1>1, <1>6
  <2>2. t \in Tokens
    BY <1>3 DEF Token, Tokens
  <2> HIDE DEF t
  <2>3. /\ Len(out'[s]) = Len(out[s]) + 1
        /\ \A k \in 1 .. Len(out[s]) : out'[s][k] = out[s][k]
        /\ out'[s][Len(out[s]) + 1] = t
    BY <1>3, <2>1, <2>2, AppendProperties
  <2>4. ASSUME NEW k \in 1 .. Len(out'[s])
        PROVE  out'[s][k] = Token(s, pl[s] + k)
    <3>1. CASE k \in 1 .. Len(out[s])
      BY <1>4, <2>3, <3>1
    <3>2. CASE k = Len(out[s]) + 1
      <4>1. pl[s] + k = pl[s] + Len(out[s]) + 1
        BY <1>3, <3>2
      <4>2. QED
        BY <2>3, <3>2, <4>1 DEF t
    <3>3. QED
      BY <1>3, <2>3, <3>1, <3>2
  <2>5. pl[s] # 0
    BY <1>3, <1>6
  <2>6. QED
    BY <1>6, <2>3, <2>4, <2>5
<1>7. QED
  BY <1>5, <1>6

-----------------------------------------------------------------------------
(* The steps *)

\* A row that is decoded has consumed its token and drawn the one after it.
LEMMA RowDecodes ==
    ASSUME NEW m \in Seq({0, 1}), NEW row \in Seq(Columns), NEW t, NEW s \in Ids,
           Len(row) = Len(m), RowOf(row, m, t, s)
    PROVE  LET m2 == Append(m, 1)
               row2 == Append(row, Column(t, Position(m2, Len(m2))))
           IN  /\ m2 \in Seq({0, 1}) /\ Len(m2) = Len(m) + 1
               /\ row2 \in Seq(Columns) /\ Len(row2) = Len(m) + 1
               /\ Cardinality(Attended(m2)) = Cardinality(Attended(m)) + 1
               /\ RowOf(row2, m2, Sample(row2, m2), s)
               /\ \A j \in 1 .. Len(m) : m2[j] = m[j] /\ row2[j] = row[j]
               /\ row2[Len(m) + 1].pos = Cardinality(Attended(m))
<1> DEFINE n == Cardinality(Attended(m))
           m2 == Append(m, 1)
           c == Column(t, Position(m2, Len(m2)))
           row2 == Append(row, c)
<1>1. n \in Nat \ {0} /\ Sees(row, m, s, n) /\ t = Token(s, n + 1)
  BY DEF RowOf
<1>2. /\ Position(m2, Len(m2)) = n
      /\ Cardinality(Attended(m2)) = n + 1
      /\ row2 \in Seq(Columns)
      /\ Sees(row2, m2, s, n + 1)
  BY <1>1, RowGrows
<1>3. c.pos = n /\ c \in Columns
  <2>1. t \in Tokens
    BY <1>1 DEF Token, Tokens
  <2>2. QED
    BY <1>1, <1>2, <2>1 DEF Column, Columns
<1>4. /\ m2 \in Seq({0, 1}) /\ Len(m2) = Len(m) + 1
      /\ \A j \in 1 .. Len(m) : m2[j] = m[j]
  OBVIOUS
<1> HIDE DEF c, m2
<1>5. /\ Len(row2) = Len(m) + 1
      /\ \A j \in 1 .. Len(m) : row2[j] = row[j]
      /\ row2[Len(m) + 1] = c
  BY <1>3
<1> HIDE DEF row2
<1>6. Sample(row2, m2) = Token(s, (n + 1) + 1)
  BY <1>2, SampleContinues
<1> HIDE DEF n
<1>7. RowOf(row2, m2, Sample(row2, m2), s)
  BY <1>1, <1>2, <1>6 DEF RowOf
<1>8. QED
  BY <1>2, <1>3, <1>4, <1>5, <1>7 DEF n, m2, c, row2

LEMMA DecodeStep ==
    ASSUME KInv, Decode
    PROVE  KInv' /\ Continued(Open(seqs), prompt)
<1> DEFINE n(i) == Cardinality(Attended(mask[i]))
           N == Len(seqs)
<1>1. /\ Types /\ BatchAligned /\ Rows /\ Outputs /\ Room
      /\ NoCommonPadding /\ WithinContext
  BY DEF KInv
<1>2. /\ pc = "ready" /\ seqs # << >>
      /\ mask' = [i \in 1 .. N |-> Append(mask[i], 1)]
      /\ cache' = [i \in 1 .. N |->
             Append(cache[i], Column(next[i], Position(mask'[i], Len(mask'[i]))))]
      /\ next' = [i \in 1 .. N |-> Sample(cache'[i], mask'[i])]
      /\ Emit(seqs, next', prompt)
      /\ pc' = "emitted"
      /\ seqs' = seqs /\ keep' = keep /\ prompt' = prompt
  BY DEF Decode
<1>3. /\ N \in Nat \ {0} /\ Len(mask) = N /\ Len(cache) = N
      /\ MaxContext \in Nat
      /\ \A i \in 1 .. N :
             /\ seqs[i] \in Ids
             /\ mask[i] \in Seq({0, 1}) /\ cache[i] \in Seq(Columns)
             /\ Len(mask[i]) = Width(mask) /\ Len(cache[i]) = Width(mask)
             /\ RowOf(cache[i], mask[i], next[i], seqs[i])
             /\ n(i) \in Nat \ {0} /\ n(i) + 1 < MaxContext
             /\ next[i] = Token(seqs[i], n(i) + 1)
             /\ finish[seqs[i]] = "none" =>
                    n(i) + 1 = prompt[seqs[i]] + Len(out[seqs[i]])
  <2>1. N \in Nat \ {0} /\ MaxContext \in Nat /\ Len(mask) = N /\ Len(cache) = N
    BY <1>1, <1>2, EngineAssumption DEF Types, BatchAligned
  <2>2. ASSUME NEW i \in 1 .. N
        PROVE  /\ seqs[i] \in Ids
               /\ mask[i] \in Seq({0, 1}) /\ cache[i] \in Seq(Columns)
               /\ Len(mask[i]) = Width(mask) /\ Len(cache[i]) = Width(mask)
    BY <1>1, <2>1 DEF Types, BatchAligned
  <2>3. ASSUME NEW i \in 1 .. N
        PROVE  /\ RowOf(cache[i], mask[i], next[i], seqs[i])
               /\ n(i) + 1 < MaxContext
               /\ finish[seqs[i]] = "none" =>
                      n(i) + 1 = prompt[seqs[i]] + Len(out[seqs[i]])
    BY <1>1, <1>2 DEF Rows, Room
  <2>4. ASSUME NEW i \in 1 .. N
        PROVE  n(i) \in Nat \ {0} /\ next[i] = Token(seqs[i], n(i) + 1)
    BY <2>3 DEF RowOf
  <2>5. QED
    BY <2>1, <2>2, <2>3, <2>4
<1>4. ASSUME NEW i \in 1 .. N
      PROVE  /\ mask'[i] \in Seq({0, 1}) /\ Len(mask'[i]) = Width(mask) + 1
             /\ cache'[i] \in Seq(Columns) /\ Len(cache'[i]) = Width(mask) + 1
             /\ Cardinality(Attended(mask'[i])) = n(i) + 1
             /\ RowOf(cache'[i], mask'[i], next'[i], seqs[i])
             /\ \A j \in 1 .. Width(mask) :
                    mask'[i][j] = mask[i][j] /\ cache'[i][j] = cache[i][j]
             /\ cache'[i][Width(mask) + 1].pos = n(i)
  <2>1. /\ mask'[i] = Append(mask[i], 1)
        /\ cache'[i] = Append(cache[i],
                              Column(next[i], Position(mask'[i], Len(mask'[i]))))
        /\ next'[i] = Sample(cache'[i], mask'[i])
    BY <1>2
  <2>2. /\ mask[i] \in Seq({0, 1}) /\ cache[i] \in Seq(Columns)
        /\ Len(cache[i]) = Len(mask[i]) /\ Len(mask[i]) = Width(mask)
        /\ seqs[i] \in Ids /\ RowOf(cache[i], mask[i], next[i], seqs[i])
    BY <1>3
  <2>3. QED
    BY <2>1, <2>2, RowDecodes
<1>5. Width(mask) \in Nat \ {0} /\ Width(mask) = Len(mask[1])
  <2>1. 1 \in 1 .. N /\ mask # << >>
    BY <1>3
  <2>2. Len(mask[1]) = Width(mask) /\ Len(mask[1]) \in Nat
    BY <1>3, <2>1
  <2>3. n(1) <= Len(mask[1]) /\ n(1) \in Nat \ {0}
    BY <1>3, <2>1, <2>2, AttendedColumns
  <2>4. QED
    BY <2>2, <2>3
<1>6. /\ mask' \in Seq(Seq({0, 1})) /\ Len(mask') = N
      /\ cache' \in Seq(Seq(Columns)) /\ Len(cache') = N
      /\ next' \in Seq(Tokens) /\ Len(next') = N
  <2>1. mask' \in [1 .. N -> Seq({0, 1})]
    BY <1>2, <1>4
  <2>2. cache' \in [1 .. N -> Seq(Columns)]
    BY <1>2, <1>4
  <2>3. next' \in [1 .. N -> Tokens]
    <3>1. ASSUME NEW i \in 1 .. N
          PROVE  next'[i] \in Tokens
      <4>1. next'[i] = Token(seqs[i], (n(i) + 1) + 1)
        BY <1>4 DEF RowOf
      <4>2. QED
        BY <1>3, <4>1 DEF Token, Tokens
    <3>2. next' = [i \in 1 .. N |-> next'[i]]
      BY <1>2
    <3>3. QED
      BY <3>1, <3>2
  <2>4. QED
    BY <1>3, <2>1, <2>2, <2>3, ListOf
<1>7. Width(mask') = Width(mask) + 1
  <2>1. mask' # << >> /\ 1 \in 1 .. N
    BY <1>3, <1>6
  <2>2. QED
    BY <1>4, <2>1 DEF Width
<1>8. /\ Continued(Open(seqs), prompt)
      /\ out' \in [Ids -> Seq(Tokens)]
      /\ finish' \in [Ids -> Reasons]
      /\ \A s \in Ids \ Open(seqs) : finish'[s] = finish[s]
      /\ \A s \in Open(seqs) : finish'[s] = "none" =>
             prompt[s] + Len(out'[s]) < MaxContext
  <2>1. Drawn(seqs, next', prompt)
    <3>1. SUFFICES ASSUME NEW i \in 1 .. N, finish[seqs[i]] = "none"
                   PROVE  next'[i] = Token(seqs[i], prompt[seqs[i]]
                                                    + Len(out[seqs[i]]) + 1)
      BY DEF Drawn
    <3>2. next'[i] = Token(seqs[i], (n(i) + 1) + 1)
      BY <1>4 DEF RowOf
    <3>3. n(i) + 1 = prompt[seqs[i]] + Len(out[seqs[i]])
      BY <1>3, <3>1
    <3> HIDE DEF n
    <3>4. QED
      BY <3>2, <3>3
  <2>2. seqs \in Seq(Ids) /\ prompt \in [Ids -> Nat]
    BY <1>1 DEF Types
  <2>3. QED
    BY <1>1, <1>2, <2>1, <2>2, EmitEffect
<1>9. /\ \A s \in Open(seqs) : s \in Ids /\ prompt[s] > 0
      /\ \A i \in 1 .. N : finish[seqs[i]] = "none" => seqs[i] \in Open(seqs)
      /\ \A s \in Open(seqs) : \E i \in 1 .. N :
             s = seqs[i] /\ finish[seqs[i]] = "none"
  BY <1>1, <1>3 DEF Open, Elements, Rows
<1>10. /\ Outputs'
       /\ \A s \in Ids : Len(out'[s]) =
              IF s \in Open(seqs) THEN Len(out[s]) + 1 ELSE Len(out[s])
  <2>1. Open(seqs) \in SUBSET Ids /\ prompt \in [Ids -> Nat]
    BY <1>1, <1>9 DEF Types
  <2>2. QED
    BY <1>1, <1>2, <1>8, <1>9, <2>1, OutputsContinue
<1>11. Types'
  BY <1>1, <1>2, <1>6, <1>8 DEF Types
<1>12. BatchAligned'
  BY <1>2, <1>4, <1>6, <1>7 DEF BatchAligned
<1>13. ASSUME NEW i \in 1 .. N, finish'[seqs[i]] = "none"
       PROVE  /\ (n(i) + 1) + 1 = prompt[seqs[i]] + Len(out'[seqs[i]])
              /\ (n(i) + 1) + 1 < MaxContext
  <2>1. seqs[i] \in Ids /\ seqs[i] \in Open(seqs)
    BY <1>3, <1>8, <1>9, <1>13
  <2>2. n(i) + 1 = prompt[seqs[i]] + Len(out[seqs[i]])
    BY <1>3, <2>1 DEF Open
  <2>3. /\ prompt[seqs[i]] \in Nat /\ Len(out[seqs[i]]) \in Nat
        /\ Len(out'[seqs[i]]) = Len(out[seqs[i]]) + 1
        /\ prompt[seqs[i]] + Len(out'[seqs[i]]) < MaxContext
    <3>1. prompt[seqs[i]] \in Nat /\ Len(out[seqs[i]]) \in Nat
      BY <1>1, <2>1 DEF Types
    <3>2. Len(out'[seqs[i]]) = Len(out[seqs[i]]) + 1
      BY <1>10, <2>1
    <3>3. prompt[seqs[i]] + Len(out'[seqs[i]]) < MaxContext
      BY <1>8, <1>13, <2>1
    <3>4. QED
      BY <3>1, <3>2, <3>3
  <2> HIDE DEF n
  <2>4. QED
    BY <2>2, <2>3
<1>14. Rows'
  <2>1. ASSUME NEW i \in 1 .. N
        PROVE  /\ RowOf(cache'[i], mask'[i], next'[i], seqs[i])
               /\ prompt[seqs[i]] > 0
               /\ finish'[seqs[i]] = "none" =>
                      Cardinality(Attended(mask'[i])) + 1
                          = prompt[seqs[i]] + Len(out'[seqs[i]])
    BY <1>1, <1>4, <1>13 DEF Rows
  <2>2. QED
    BY <1>2, <2>1 DEF Rows
<1>15. Room'
  <2>1. ASSUME NEW i \in 1 .. N, finish'[seqs[i]] = "none"
        PROVE  Cardinality(Attended(mask'[i])) + 1 < MaxContext
    BY <1>4, <1>13, <2>1
  <2>2. QED
    BY <1>2, <2>1 DEF Room
<1>16. NoCommonPadding'
  <2>1. PICK i \in 1 .. N : mask[i][1] = 1
    BY <1>1, <1>2 DEF NoCommonPadding
  <2>2. mask'[i][1] = mask[i][1]
    BY <1>4, <1>5
  <2>3. QED
    BY <1>2, <2>1, <2>2 DEF NoCommonPadding
<1>17. WithinContext'
  <2>1. ASSUME NEW i \in 1 .. N, NEW j \in 1 .. Len(cache'[i])
        PROVE  cache'[i][j].pos < MaxContext
    <3>1. CASE j \in 1 .. Width(mask)
      <4>1. cache'[i][j] = cache[i][j] /\ j \in 1 .. Len(cache[i])
        BY <1>3, <1>4, <3>1
      <4>2. QED
        BY <1>1, <1>3, <4>1 DEF WithinContext
    <3>2. CASE j = Width(mask) + 1
      <4>1. cache'[i][j].pos = n(i)
        BY <1>4, <3>2
      <4>2. n(i) \in Nat /\ n(i) + 1 < MaxContext /\ MaxContext \in Nat
        BY <1>3
      <4> HIDE DEF n
      <4>3. QED
        BY <4>1, <4>2
    <3>3. QED
      BY <1>4, <1>5, <3>1, <3>2
  <2>2. ASSUME NEW s \in Ids
        PROVE  prompt[s] + Len(out'[s]) <= MaxContext
    <3>1. /\ prompt[s] \in Nat /\ Len(out[s]) \in Nat /\ MaxContext \in Nat
          /\ prompt[s] + Len(out[s]) <= MaxContext
      BY <1>1, <1>3 DEF Types, WithinContext
    <3>2. CASE s \in Open(seqs)
      <4>1. PICK i \in 1 .. N : s = seqs[i] /\ finish[seqs[i]] = "none"
        BY <1>9, <3>2
      <4>2. /\ n(i) + 1 = prompt[s] + Len(out[s]) /\ n(i) + 1 < MaxContext
            /\ n(i) \in Nat
        BY <1>3, <4>1
      <4> HIDE DEF n
      <4>3. QED
        BY <1>10, <3>1, <3>2, <4>2
    <3>3. CASE s \notin Open(seqs)
      BY <1>10, <3>1, <3>3
    <3>4. QED
      BY <3>2, <3>3
  <2>3. QED
    BY <1>2, <1>6, <2>1, <2>2 DEF WithinContext
<1>18. QED
  BY <1>8, <1>10, <1>11, <1>12, <1>14, <1>15, <1>16, <1>17 DEF KInv

LEMMA ScanStep ==
    ASSUME KInv, ScanKeep
    PROVE  KInv'
<1> DEFINE open == {i \in 1 .. Len(seqs) : finish[seqs[i]] = "none"}
<1>1. /\ Types /\ BatchAligned /\ Rows /\ Outputs /\ Room
      /\ NoCommonPadding /\ WithinContext
  BY DEF KInv
<1>2. /\ pc = "emitted" /\ pc' = "scanned"
      /\ seqs' = seqs /\ cache' = cache /\ mask' = mask /\ next' = next
      /\ prompt' = prompt /\ out' = out /\ finish' = finish
  BY DEF ScanKeep, batchVars, seqVars
<1>3. PICK q \in [1 .. Cardinality(open) -> open] : keep' = q
  BY DEF ScanKeep
<1>4. keep' \in Seq(open)
  <2>1. Len(seqs) \in Nat
    BY <1>1 DEF Types
  <2>2. IsFiniteSet(1 .. Len(seqs)) /\ open \in SUBSET (1 .. Len(seqs))
    BY <2>1, FS_Interval
  <2>3. Cardinality(open) \in Nat
    BY <2>2, FS_Subset, FS_CardinalityType
  <2> HIDE DEF open
  <2>4. QED
    BY <1>3, <2>3, ListOf
<1>5. \A k \in 1 .. Len(keep') : keep'[k] \in open
  <2> HIDE DEF open
  <2>1. QED
    BY <1>4
<1>6. Types'
  <2>1. keep' \in Seq(1 .. Len(seqs))
    <3>1. open \subseteq 1 .. Len(seqs)
      OBVIOUS
    <3> HIDE DEF open
    <3>2. QED
      BY <1>4, <3>1, SeqMonotonic
  <2>2. QED
    BY <1>1, <1>2, <2>1 DEF Types
<1>7. Room'
  BY <1>1, <1>2, <1>5 DEF Room
<1>8. /\ BatchAligned' /\ Rows' /\ Outputs' /\ NoCommonPadding'
      /\ WithinContext'
  BY <1>1, <1>2 DEF BatchAligned, Rows, Outputs, NoCommonPadding, WithinContext
<1>9. QED
  BY <1>6, <1>7, <1>8 DEF KInv

LEMMA AbandonStep ==
    ASSUME KInv, NEW s \in Ids, Abandon(s)
    PROVE  KInv'
<1>1. /\ Types /\ BatchAligned /\ Rows /\ Outputs /\ Room
      /\ NoCommonPadding /\ WithinContext
  BY DEF KInv
<1>2. /\ pc' = pc /\ keep' = keep /\ prompt' = prompt /\ out' = out
      /\ seqs' = seqs /\ cache' = cache /\ mask' = mask /\ next' = next
      /\ finish' = [finish EXCEPT ![s] = "abandoned"]
  BY DEF Abandon, batchVars
<1>3. /\ finish' \in [Ids -> Reasons]
      /\ \A q \in Ids : finish'[q] = "none" => finish[q] = "none"
  <2>1. finish \in [Ids -> Reasons] /\ "abandoned" \in Reasons
    BY <1>1 DEF Types, Reasons
  <2>2. QED
    BY <1>2, <2>1
<1>4. Types'
  BY <1>1, <1>2, <1>3 DEF Types
<1>5. \A i \in 1 .. Len(seqs) : seqs[i] \in Ids
  BY <1>1 DEF Types
<1>6. Rows' /\ Room'
  BY <1>1, <1>2, <1>3, <1>5 DEF Rows, Room
<1>7. BatchAligned' /\ Outputs' /\ NoCommonPadding' /\ WithinContext'
  BY <1>1, <1>2 DEF BatchAligned, Outputs, NoCommonPadding, WithinContext
<1>8. QED
  BY <1>4, <1>6, <1>7 DEF KInv

LEMMA FaultStep ==
    ASSUME KInv, Fault
    PROVE  KInv'
<1>1. Types /\ Outputs /\ WithinContext
  BY DEF KInv
<1>2. /\ pc' = "ready" /\ keep' = << >> /\ seqs' = << >>
      /\ cache' = << >> /\ mask' = << >> /\ next' = << >>
      /\ prompt' = prompt /\ out' = out /\ finish' = finish
  BY DEF Fault, seqVars
<1>3. Len(<< >>) = 0 /\ 1 .. 0 = {} /\ \A T : << >> \in Seq(T)
  OBVIOUS
<1>4. Types'
  BY <1>1, <1>2, <1>3 DEF Types
<1>5. BatchAligned' /\ Rows' /\ Room' /\ NoCommonPadding'
  BY <1>2, <1>3 DEF BatchAligned, Rows, Room, NoCommonPadding
<1>6. Outputs' /\ WithinContext'
  BY <1>1, <1>2, <1>3 DEF Outputs, WithinContext
<1>7. QED
  BY <1>4, <1>5, <1>6 DEF KInv

\* The list of the rows that an eviction keeps, with their common padding
\* dropped.
LEMMA RowsKept ==
    ASSUME Types, BatchAligned, Rows, NEW idx \in Seq(1 .. Len(seqs))
    PROVE  LET m == Select(mask, idx)
               c == Select(cache, idx)
               lead == Lead(m)
               m2 == Drop(m, lead)
               c2 == Drop(c, lead)
               w == Width(m) - lead
           IN  /\ lead \in Nat /\ w \in Nat
               /\ m2 \in Seq(Seq({0, 1})) /\ Len(m2) = Len(idx)
               /\ c2 \in Seq(Seq(Columns)) /\ Len(c2) = Len(idx)
               /\ \A k \in 1 .. Len(idx) :
                      /\ idx[k] \in 1 .. Len(seqs)
                      /\ Behind(mask[idx[k]], m2[k], lead)
                      /\ Behind(cache[idx[k]], c2[k], lead)
                      /\ Filled(mask[idx[k]], lead, 0)
                      /\ Len(m2[k]) = w /\ Len(c2[k]) = w
                      /\ w > 0
               /\ Len(idx) > 0 => \E k \in 1 .. Len(idx) : m2[k][1] = 1
<1> DEFINE m == Select(mask, idx)
           c == Select(cache, idx)
           lead == Lead(m)
           m2 == Drop(m, lead)
           c2 == Drop(c, lead)
           w == Width(m) - lead
<1>1. /\ Len(mask) = Len(seqs) /\ Len(cache) = Len(seqs) /\ Len(seqs) \in Nat
      /\ mask \in Seq(Seq({0, 1})) /\ cache \in Seq(Seq(Columns))
      /\ \A i \in 1 .. Len(seqs) :
             Len(mask[i]) = Width(mask) /\ Len(cache[i]) = Width(mask)
  BY DEF Types, BatchAligned
<1>2. /\ m \in Seq(Seq({0, 1})) /\ Len(m) = Len(idx)
      /\ c \in Seq(Seq(Columns)) /\ Len(c) = Len(idx)
      /\ \A k \in 1 .. Len(idx) : /\ idx[k] \in 1 .. Len(seqs)
                                  /\ m[k] = mask[idx[k]]
                                  /\ c[k] = cache[idx[k]]
  <2>1. idx \in Seq(1 .. Len(mask)) /\ idx \in Seq(1 .. Len(cache))
    BY <1>1
  <2> DEFINE M == Seq({0, 1})
             C == Seq(Columns)
  <2>2. mask \in Seq(M) /\ cache \in Seq(C)
    BY <1>1
  <2> HIDE DEF M, C
  <2>3. /\ m \in Seq(M) /\ Len(m) = Len(idx)
        /\ \A k \in 1 .. Len(idx) :
               idx[k] \in 1 .. Len(mask) /\ m[k] = mask[idx[k]]
    BY <2>1, <2>2, SelectedRows
  <2>4. /\ c \in Seq(C) /\ Len(c) = Len(idx)
        /\ \A k \in 1 .. Len(idx) : c[k] = cache[idx[k]]
    BY <2>1, <2>2, SelectedRows
  <2> HIDE DEF m, c
  <2>5. QED
    BY <1>1, <2>3, <2>4 DEF M, C
<1> HIDE DEF m, c
<1>3. /\ Width(m) \in Nat
      /\ \A k \in 1 .. Len(m) : Len(m[k]) = Width(m) /\ Len(c[k]) = Width(m)
  <2>1. CASE m = << >>
    BY <2>1 DEF Width
  <2>2. CASE m # << >>
    <3>1. Len(m) \in Nat \ {0} /\ 1 \in 1 .. Len(m)
      BY <1>2, <2>2
    <3>2. Width(m) = Len(m[1]) /\ Len(m[1]) \in Nat
      BY <1>2, <2>2, <3>1 DEF Width
    <3>3. Len(m[1]) = Width(mask)
      BY <1>1, <1>2, <3>1
    <3>4. QED
      BY <1>1, <1>2, <3>2, <3>3
  <2>3. QED
    BY <2>1, <2>2
<1>4. \A k \in 1 .. Len(m) : Attended(m[k]) # {}
  <2>1. SUFFICES ASSUME NEW k \in 1 .. Len(m), Attended(m[k]) = {}
                 PROVE  FALSE
    OBVIOUS
  <2>2. Cardinality(Attended(mask[idx[k]])) \in Nat \ {0}
    BY <1>2 DEF Rows, RowOf
  <2>3. Attended(mask[idx[k]]) = {}
    BY <1>2, <2>1
  <2>4. QED
    BY <2>2, <2>3, FS_EmptySet
<1>5. /\ lead \in 0 .. Width(m)
      /\ \A k \in 1 .. Len(m) : Filled(m[k], lead, 0)
      /\ Len(m) > 0 => /\ lead < Width(m)
                       /\ \E k \in 1 .. Len(m) : m[k][lead + 1] = 1
  BY <1>2, <1>3, <1>4, LeadColumns
<1> HIDE DEF lead
<1>6. /\ m2 \in Seq(Seq({0, 1})) /\ Len(m2) = Len(m)
      /\ \A k \in 1 .. Len(m) : Behind(m[k], m2[k], lead)
  BY <1>2, <1>3, <1>5, DroppedRows
<1>7. /\ c2 \in Seq(Seq(Columns)) /\ Len(c2) = Len(c)
      /\ \A k \in 1 .. Len(c) : Behind(c[k], c2[k], lead)
  BY <1>2, <1>3, <1>5, DroppedRows
<1> HIDE DEF m2, c2
<1>8. ASSUME NEW k \in 1 .. Len(idx)
      PROVE  Len(m2[k]) = w /\ Len(c2[k]) = w /\ w > 0
  <2>1. Len(m2[k]) \in Nat /\ Len(c2[k]) \in Nat /\ Len(m) \in Nat \ {0}
    BY <1>2, <1>6, <1>7
  <2>2. Width(m) = lead + Len(m2[k]) /\ Width(m) = lead + Len(c2[k])
    BY <1>2, <1>3, <1>6, <1>7 DEF Behind
  <2>3. Width(m) \in Nat /\ lead \in Nat /\ lead < Width(m)
    BY <1>3, <1>5, <2>1
  <2>4. QED
    BY <2>1, <2>2, <2>3
<1>9. ASSUME Len(idx) > 0
      PROVE  \E k \in 1 .. Len(idx) : m2[k][1] = 1
  <2>1. PICK k \in 1 .. Len(idx) : m[k][lead + 1] = 1
    BY <1>2, <1>5, <1>9
  <2>2. 1 \in 1 .. Len(m2[k])
    BY <1>3, <1>5, <1>8
  <2>3. m[k][1 + lead] = m2[k][1]
    BY <1>2, <1>6, <2>2 DEF Behind
  <2>4. 1 + lead = lead + 1
    BY <1>3, <1>5
  <2>5. QED
    BY <2>1, <2>3, <2>4
<1>10. lead \in Nat /\ w \in Nat
  BY <1>3, <1>5
<1>11. QED
  BY <1>2, <1>5, <1>6, <1>7, <1>8, <1>9, <1>10 DEF m, c, lead, m2, c2

\* A row behind padding is the sequence that the row without it is.
LEMMA RowMoved ==
    ASSUME NEW m, NEW row, NEW m2, NEW row2, NEW k \in Nat, NEW t, NEW s,
           Len(m) \in Nat \ {0}, Len(row) = Len(m),
           Behind(m2, m, k), Behind(row2, row, k), Filled(m2, k, 0)
    PROVE  /\ Cardinality(Attended(m2)) = Cardinality(Attended(m))
           /\ RowOf(row2, m2, t, s) <=> RowOf(row, m, t, s)
<1>1. /\ Len(m2) = k + Len(m) /\ Len(row2) = k + Len(m)
      /\ \A j \in 1 .. k : m2[j] = 0
      /\ \A j \in 1 .. Len(m) : m2[j + k] = m[j] /\ row2[j + k] = row[j]
  BY DEF Behind, Filled
<1>2. /\ Cardinality(Attended(m2)) = Cardinality(Attended(m))
      /\ Sees(row2, m2, s, Cardinality(Attended(m)))
             <=> Sees(row, m, s, Cardinality(Attended(m)))
  BY <1>1, PaddingUnseen
<1>3. QED
  BY <1>2 DEF RowOf

LEMMA EvictStep ==
    ASSUME KInv, Evict
    PROVE  KInv'
<1>1. /\ Types /\ BatchAligned /\ Rows /\ Outputs /\ Room
      /\ NoCommonPadding /\ WithinContext
  BY DEF KInv
<1>2. /\ pc = "scanned" /\ pc' = "ready" /\ keep' = << >>
      /\ prompt' = prompt /\ out' = out /\ finish' = finish
  BY DEF Evict, seqVars
<1>3. CASE \A i \in 1 .. Len(seqs) : finish[seqs[i]] = "none"
  <2>1. seqs' = seqs /\ cache' = cache /\ mask' = mask /\ next' = next
    BY <1>3 DEF Evict, batchVars
  <2>2. Types'
    BY <1>1, <1>2, <2>1 DEF Types
  <2>3. Room'
    BY <1>1, <1>2, <1>3, <2>1 DEF Room
  <2>4. /\ BatchAligned' /\ Rows' /\ Outputs' /\ NoCommonPadding'
        /\ WithinContext'
    BY <1>1, <1>2, <2>1
       DEF BatchAligned, Rows, Outputs, NoCommonPadding, WithinContext
  <2>5. QED
    BY <2>2, <2>3, <2>4 DEF KInv
<1>4. CASE ~(\A i \in 1 .. Len(seqs) : finish[seqs[i]] = "none")
  <2> DEFINE m == Select(mask, keep)
             lead == Lead(m)
             w == Width(m) - lead
             n(i) == Cardinality(Attended(mask[i]))
  <2>1. /\ seqs' = Select(seqs, keep)
        /\ cache' = Drop(Select(cache, keep), lead)
        /\ mask' = Drop(m, lead)
        /\ next' = Select(next, keep)
    BY <1>4 DEF Evict
  <2>2. keep \in Seq(1 .. Len(seqs))
    BY <1>1 DEF Types
  <2>3. /\ lead \in Nat /\ w \in Nat
        /\ mask' \in Seq(Seq({0, 1})) /\ Len(mask') = Len(keep)
        /\ cache' \in Seq(Seq(Columns)) /\ Len(cache') = Len(keep)
        /\ \A k \in 1 .. Len(keep) :
               /\ keep[k] \in 1 .. Len(seqs)
               /\ Behind(mask[keep[k]], mask'[k], lead)
               /\ Behind(cache[keep[k]], cache'[k], lead)
               /\ Filled(mask[keep[k]], lead, 0)
               /\ Len(mask'[k]) = w /\ Len(cache'[k]) = w
               /\ w > 0
        /\ Len(keep) > 0 => \E k \in 1 .. Len(keep) : mask'[k][1] = 1
    BY <1>1, <2>1, <2>2, RowsKept
  <2> HIDE DEF m, lead, w
  <2>4. /\ seqs' \in Seq(Ids) /\ Len(seqs') = Len(keep)
        /\ next' \in Seq(Tokens) /\ Len(next') = Len(keep)
        /\ \A k \in 1 .. Len(keep) :
               seqs'[k] = seqs[keep[k]] /\ next'[k] = next[keep[k]]
    <3>1. seqs \in Seq(Ids) /\ next \in Seq(Tokens) /\ Len(next) = Len(seqs)
      BY <1>1 DEF Types, BatchAligned
    <3>2. QED
      BY <2>1, <2>2, <3>1, SelectedRows
  <2>5. ASSUME NEW k \in 1 .. Len(keep)
        PROVE  /\ Cardinality(Attended(mask'[k])) = n(keep[k])
               /\ RowOf(cache'[k], mask'[k], next'[k], seqs'[k])
    <3>1. RowOf(cache[keep[k]], mask[keep[k]], next'[k], seqs'[k])
      BY <1>1, <2>3, <2>4 DEF Rows
    <3>2. /\ Len(mask'[k]) \in Nat \ {0} /\ Len(cache'[k]) = Len(mask'[k])
          /\ Behind(mask[keep[k]], mask'[k], lead)
          /\ Behind(cache[keep[k]], cache'[k], lead)
          /\ Filled(mask[keep[k]], lead, 0)
      BY <2>3
    <3>3. QED
      BY <2>3, <3>1, <3>2, RowMoved
  <2>6. Types'
    <3>1. << >> \in Seq(1 .. Len(seqs'))
      OBVIOUS
    <3>2. QED
      BY <1>1, <1>2, <2>3, <2>4, <3>1 DEF Types
  <2>7. BatchAligned'
    <3>1. ASSUME NEW k \in 1 .. Len(keep)
          PROVE  Len(mask'[k]) = Width(mask') /\ Len(cache'[k]) = Width(mask')
      <4>1. Len(keep) \in Nat \ {0}
        BY <2>2
      <4>2. mask' # << >> /\ 1 \in 1 .. Len(keep)
        BY <2>3, <4>1
      <4>3. Width(mask') = w
        BY <2>3, <4>2 DEF Width
      <4>4. QED
        BY <2>3, <4>3
    <3>2. QED
      BY <2>3, <2>4, <3>1 DEF BatchAligned
  <2>8. Rows'
    <3>1. ASSUME NEW k \in 1 .. Len(keep)
          PROVE  /\ RowOf(cache'[k], mask'[k], next'[k], seqs'[k])
                 /\ prompt[seqs'[k]] > 0
                 /\ finish[seqs'[k]] = "none" =>
                        Cardinality(Attended(mask'[k])) + 1
                            = prompt[seqs'[k]] + Len(out[seqs'[k]])
      <4>1. keep[k] \in 1 .. Len(seqs) /\ seqs'[k] = seqs[keep[k]]
        BY <2>3, <2>4
      <4>2. Cardinality(Attended(mask'[k])) = Cardinality(Attended(mask[keep[k]]))
        BY <2>5
      <4>3. QED
        BY <1>1, <2>5, <4>1, <4>2 DEF Rows
    <3>2. QED
      BY <1>2, <2>4, <3>1 DEF Rows
  <2>9. Room'
    <3>1. ASSUME NEW k \in 1 .. Len(keep)
          PROVE  Cardinality(Attended(mask'[k])) + 1 < MaxContext
      <4>1. keep[k] \in 1 .. Len(seqs)
        BY <2>3
      <4>2. Cardinality(Attended(mask[keep[k]])) + 1 < MaxContext
        BY <1>1, <1>2, <4>1 DEF Room
      <4>3. Cardinality(Attended(mask'[k])) = Cardinality(Attended(mask[keep[k]]))
        BY <2>5
      <4>4. QED
        BY <4>2, <4>3
    <3>2. QED
      BY <2>4, <3>1 DEF Room
  <2>10. Outputs'
    BY <1>1, <1>2 DEF Outputs
  <2>11. NoCommonPadding'
    <3>1. SUFFICES ASSUME seqs' # << >>
                   PROVE  \E k \in 1 .. Len(keep) : mask'[k][1] = 1
      BY <2>4 DEF NoCommonPadding
    <3>2. Len(seqs') > 0
      BY <2>4, <3>1
    <3>3. QED
      BY <2>3, <2>4, <3>2
  <2>12. WithinContext'
    <3>1. ASSUME NEW k \in 1 .. Len(keep), NEW j \in 1 .. Len(cache'[k])
          PROVE  cache'[k][j].pos < MaxContext
      <4>1. /\ cache[keep[k]][j + lead] = cache'[k][j]
            /\ Len(cache[keep[k]]) = lead + Len(cache'[k])
        BY <2>3 DEF Behind
      <4>2. Len(cache'[k]) \in Nat /\ lead \in Nat
        BY <2>3
      <4>3. j + lead \in 1 .. Len(cache[keep[k]])
        BY <4>1, <4>2
      <4>4. keep[k] \in 1 .. Len(cache)
        BY <1>1, <2>3 DEF BatchAligned
      <4>5. QED
        BY <1>1, <4>1, <4>3, <4>4 DEF WithinContext
    <3>2. \A s \in Ids : prompt[s] + Len(out[s]) <= MaxContext
      BY <1>1 DEF WithinContext
    <3>3. QED
      BY <1>2, <2>3, <3>1, <3>2 DEF WithinContext
  <2>13. QED
    BY <2>6, <2>7, <2>8, <2>9, <2>10, <2>11, <2>12 DEF KInv
<1>5. QED
  BY <1>3, <1>4

-----------------------------------------------------------------------------
(* Splicing one batch onto another *)

\* Four parallel lists, each row with the tokens of its sequence.
Batch(ss, c, m, t) ==
    /\ ss \in Seq(Ids) /\ t \in Seq(Tokens)
    /\ c \in Seq(Seq(Columns)) /\ m \in Seq(Seq({0, 1}))
    /\ Len(c) = Len(ss) /\ Len(m) = Len(ss) /\ Len(t) = Len(ss)
    /\ \A i \in 1 .. Len(ss) :
           /\ Len(c[i]) = Width(m) /\ Len(m[i]) = Width(m)
           /\ RowOf(c[i], m[i], t[i], ss[i])

LEMMA BatchWidth ==
    ASSUME NEW ss, NEW c, NEW m, NEW t, Batch(ss, c, m, t)
    PROVE  /\ Len(ss) \in Nat /\ Width(m) \in Nat /\ Width(c) = Width(m)
           /\ ss # << >> => Width(m) > 0
<1>1. /\ Len(ss) \in Nat /\ Len(m) = Len(ss) /\ Len(c) = Len(ss)
      /\ m \in Seq(Seq({0, 1})) /\ c \in Seq(Seq(Columns)) /\ ss \in Seq(Ids)
  BY DEF Batch
<1>2. CASE ss = << >>
  <2>1. m = << >> /\ c = << >>
    BY <1>1, <1>2
  <2>2. QED
    BY <1>1, <1>2, <2>1 DEF Width
<1>3. CASE ss # << >>
  <2>1. 1 \in 1 .. Len(ss) /\ m # << >> /\ c # << >>
    BY <1>1, <1>3
  <2>2. Width(m) = Len(m[1]) /\ Width(c) = Len(c[1]) /\ Len(m[1]) \in Nat
    BY <1>1, <2>1 DEF Width
  <2>3. Len(c[1]) = Width(m) /\ Cardinality(Attended(m[1])) \in Nat \ {0}
    BY <2>1 DEF Batch, RowOf
  <2>4. Cardinality(Attended(m[1])) <= Len(m[1])
    BY <2>2, AttendedColumns
  <2>5. QED
    BY <1>1, <2>2, <2>3, <2>4
<1>4. QED
  BY <1>2, <1>3

\* Row r of a list is row i of another behind k columns of padding.
Moved(c2, m2, r, c, m, i, k) ==
    /\ Behind(c2[r], c[i], k) /\ Filled(c2[r], k, Column(PadToken, 0))
    /\ Behind(m2[r], m[i], k)
    /\ Cardinality(Attended(m2[r])) = Cardinality(Attended(m[i]))

LEMMA SplicedRows ==
    ASSUME NEW s1, NEW c1, NEW m1, NEW t1, Batch(s1, c1, m1, t1),
           NEW s2, NEW c2, NEW m2, NEW t2, Batch(s2, c2, m2, t2),
           s2 # << >>
    PROVE  LET ss == s1 \o s2
               c == Stack(c1, c2, Column(PadToken, 0))
               m == Stack(m1, m2, 0)
               t == t1 \o t2
               k1 == Gap(Width(m1), Width(m2))
               k2 == Gap(Width(m2), Width(m1))
           IN  /\ Batch(ss, c, m, t)
               /\ Len(ss) = Len(s1) + Len(s2)
               /\ \A i \in 1 .. Len(s1) :
                      ss[i] = s1[i] /\ Moved(c, m, i, c1, m1, i, k1)
               /\ \A i \in 1 .. Len(s2) :
                      /\ ss[Len(s1) + i] = s2[i]
                      /\ Moved(c, m, Len(s1) + i, c2, m2, i, k2)
<1> DEFINE ss == s1 \o s2
           c == Stack(c1, c2, Column(PadToken, 0))
           m == Stack(m1, m2, 0)
           t == t1 \o t2
           k1 == Gap(Width(m1), Width(m2))
           k2 == Gap(Width(m2), Width(m1))
           w == Width(m1) + k1
           L1 == Len(s1)
           L2 == Len(s2)
<1>1. /\ L1 \in Nat /\ Width(m1) \in Nat /\ Width(c1) = Width(m1)
      /\ L2 \in Nat /\ Width(m2) \in Nat \ {0} /\ Width(c2) = Width(m2)
      /\ s1 # << >> => Width(m1) > 0
  BY BatchWidth
<1>2. /\ s1 \in Seq(Ids) /\ t1 \in Seq(Tokens) /\ Len(t1) = L1
      /\ c1 \in Seq(Seq(Columns)) /\ m1 \in Seq(Seq({0, 1}))
      /\ Len(c1) = L1 /\ Len(m1) = L1
      /\ \A i \in 1 .. L1 : /\ Len(c1[i]) = Width(m1) /\ Len(m1[i]) = Width(m1)
                            /\ RowOf(c1[i], m1[i], t1[i], s1[i])
  BY DEF Batch
<1>3. /\ s2 \in Seq(Ids) /\ t2 \in Seq(Tokens) /\ Len(t2) = L2
      /\ c2 \in Seq(Seq(Columns)) /\ m2 \in Seq(Seq({0, 1}))
      /\ Len(c2) = L2 /\ Len(m2) = L2
      /\ \A i \in 1 .. L2 : /\ Len(c2[i]) = Width(m2) /\ Len(m2[i]) = Width(m2)
                            /\ RowOf(c2[i], m2[i], t2[i], s2[i])
  BY DEF Batch
<1>4. k1 \in Nat /\ k2 \in Nat /\ w = Width(m2) + k2 /\ w \in Nat \ {0}
  BY <1>1 DEF Gap
<1>5. /\ ss \in Seq(Ids) /\ Len(ss) = L1 + L2
      /\ \A i \in 1 .. L1 + L2 : ss[i] = IF i <= L1 THEN s1[i] ELSE s2[i - L1]
  BY <1>2, <1>3, ConcatProperties
<1>6. /\ t \in Seq(Tokens) /\ Len(t) = L1 + L2
      /\ \A i \in 1 .. L1 + L2 : t[i] = IF i <= L1 THEN t1[i] ELSE t2[i - L1]
  <2>1. t1 \in Seq(Tokens) /\ t2 \in Seq(Tokens)
    BY <1>2, <1>3
  <2>2. /\ t1 \o t2 \in Seq(Tokens) /\ Len(t1 \o t2) = Len(t1) + Len(t2)
        /\ \A i \in 1 .. Len(t1) + Len(t2) :
               (t1 \o t2)[i] = IF i <= Len(t1) THEN t1[i] ELSE t2[i - Len(t1)]
    BY <2>1, ConcatProperties
  <2>3. Len(t1) = L1 /\ Len(t2) = L2
    BY <1>2, <1>3
  <2> HIDE DEF L1, L2
  <2>4. QED
    BY <2>2, <2>3
<1>7. /\ c \in Seq(Seq(Columns)) /\ Len(c) = L1 + L2
      /\ \A i \in 1 .. L1 : /\ Behind(c[i], c1[i], k1)
                            /\ Filled(c[i], k1, Column(PadToken, 0))
      /\ \A i \in 1 .. L2 : /\ Behind(c[L1 + i], c2[i], k2)
                            /\ Filled(c[L1 + i], k2, Column(PadToken, 0))
  <2>1. Column(PadToken, 0) \in Columns
    BY DEF Columns, Column, Tokens
  <2>2. /\ c1 \in Seq(Seq(Columns)) /\ c2 \in Seq(Seq(Columns))
        /\ Width(c1) \in Nat /\ Width(c2) \in Nat
        /\ Width(c1) = Width(m1) /\ Width(c2) = Width(m2)
        /\ Len(c1) = L1 /\ Len(c2) = L2
    BY <1>1, <1>2, <1>3
  <2> HIDE DEF L1, L2
  <2>3. /\ c \in Seq(Seq(Columns)) /\ Len(c) = Len(c1) + Len(c2)
        /\ \A i \in 1 .. Len(c1) :
               /\ Behind(c[i], c1[i], Gap(Width(c1), Width(c2)))
               /\ Filled(c[i], Gap(Width(c1), Width(c2)), Column(PadToken, 0))
        /\ \A i \in 1 .. Len(c2) :
               /\ Behind(c[Len(c1) + i], c2[i], Gap(Width(c2), Width(c1)))
               /\ Filled(c[Len(c1) + i], Gap(Width(c2), Width(c1)),
                         Column(PadToken, 0))
    BY <2>1, <2>2, StackedRows
  <2> HIDE DEF c
  <2>4. QED
    BY <2>2, <2>3
<1>8. /\ m \in Seq(Seq({0, 1})) /\ Len(m) = L1 + L2
      /\ \A i \in 1 .. L1 : Behind(m[i], m1[i], k1) /\ Filled(m[i], k1, 0)
      /\ \A i \in 1 .. L2 :
             Behind(m[L1 + i], m2[i], k2) /\ Filled(m[L1 + i], k2, 0)
  <2>1. /\ 0 \in {0, 1}
        /\ m1 \in Seq(Seq({0, 1})) /\ m2 \in Seq(Seq({0, 1}))
        /\ Width(m1) \in Nat /\ Width(m2) \in Nat
        /\ Len(m1) = L1 /\ Len(m2) = L2
    BY <1>1, <1>2, <1>3
  <2> HIDE DEF L1, L2
  <2>2. /\ m \in Seq(Seq({0, 1})) /\ Len(m) = Len(m1) + Len(m2)
        /\ \A i \in 1 .. Len(m1) :
               Behind(m[i], m1[i], k1) /\ Filled(m[i], k1, 0)
        /\ \A i \in 1 .. Len(m2) :
               /\ Behind(m[Len(m1) + i], m2[i], k2)
               /\ Filled(m[Len(m1) + i], k2, 0)
    BY <2>1, StackedRows
  <2> HIDE DEF m, k1, k2
  <2>3. QED
    BY <2>1, <2>2
<1> HIDE DEF ss, c, m, t, k1, k2, w
<1>9. ASSUME NEW i \in 1 .. L1
      PROVE  /\ ss[i] = s1[i] /\ Moved(c, m, i, c1, m1, i, k1)
             /\ Len(c[i]) = w /\ Len(m[i]) = w
             /\ RowOf(c[i], m[i], t[i], ss[i])
  <2>1. ss[i] = s1[i] /\ t[i] = t1[i]
    <3>1. i \in 1 .. L1 + L2 /\ i <= L1
      BY <1>1
    <3>2. QED
      BY <1>5, <1>6, <3>1
  <2>2. Width(m1) \in Nat \ {0}
    <3>1. s1 # << >>
      BY <1>2
    <3>2. QED
      BY <1>1, <3>1
  <2>3. Len(m1[i]) \in Nat \ {0} /\ Len(c1[i]) = Len(m1[i])
    BY <1>2, <2>2
  <2>4. /\ Cardinality(Attended(m[i])) = Cardinality(Attended(m1[i]))
        /\ RowOf(c[i], m[i], t[i], ss[i]) <=> RowOf(c1[i], m1[i], t[i], ss[i])
    BY <1>4, <1>7, <1>8, <2>3, RowMoved
  <2>5. Len(c[i]) = w /\ Len(m[i]) = w
    <3>1. Len(c[i]) = k1 + Width(m1) /\ Len(m[i]) = k1 + Width(m1)
      BY <1>2, <1>7, <1>8 DEF Behind
    <3>2. QED
      BY <1>1, <1>4, <3>1 DEF w
  <2>6. QED
    BY <1>2, <1>7, <1>8, <2>1, <2>4, <2>5 DEF Moved
<1>10. ASSUME NEW i \in 1 .. L2
       PROVE  /\ ss[L1 + i] = s2[i] /\ Moved(c, m, L1 + i, c2, m2, i, k2)
              /\ Len(c[L1 + i]) = w /\ Len(m[L1 + i]) = w
              /\ RowOf(c[L1 + i], m[L1 + i], t[L1 + i], ss[L1 + i])
  <2>1. ss[L1 + i] = s2[i] /\ t[L1 + i] = t2[i]
    <3>1. /\ L1 + i \in 1 .. L1 + L2 /\ ~(L1 + i <= L1)
          /\ (L1 + i) - L1 = i
      BY <1>1
    <3>2. QED
      BY <1>5, <1>6, <3>1
  <2>3. Len(m2[i]) \in Nat \ {0} /\ Len(c2[i]) = Len(m2[i])
    BY <1>1, <1>3
  <2> DEFINE r == L1 + i
  <2> HIDE DEF r
  <2>4. /\ Cardinality(Attended(m[r])) = Cardinality(Attended(m2[i]))
        /\ RowOf(c[r], m[r], t[r], ss[r]) <=> RowOf(c2[i], m2[i], t[r], ss[r])
    <3>1. /\ Behind(c[r], c2[i], k2) /\ Behind(m[r], m2[i], k2)
          /\ Filled(m[r], k2, 0)
      BY <1>7, <1>8 DEF r
    <3>2. QED
      BY <1>4, <2>3, <3>1, RowMoved
  <2>5. Len(c[r]) = w /\ Len(m[r]) = w
    <3>1. Len(c[r]) = k2 + Width(m2) /\ Len(m[r]) = k2 + Width(m2)
      BY <1>3, <1>7, <1>8 DEF Behind, r
    <3>2. QED
      BY <1>1, <1>4, <3>1
  <2>6. QED
    BY <1>3, <1>7, <1>8, <2>1, <2>4, <2>5 DEF Moved, r
<1>11. ASSUME NEW i \in 1 .. L1 + L2
       PROVE  /\ Len(c[i]) = w /\ Len(m[i]) = w
              /\ RowOf(c[i], m[i], t[i], ss[i])
  <2>1. CASE i \in 1 .. L1
    BY <1>9, <2>1
  <2>2. CASE ~(i \in 1 .. L1)
    <3>1. i - L1 \in 1 .. L2 /\ L1 + (i - L1) = i
      BY <1>1, <2>2
    <3>2. PICK j \in 1 .. L2 : L1 + j = i
      BY <3>1
    <3>3. QED
      BY <1>10, <3>2
  <2>3. QED
    BY <2>1, <2>2
<1>12. Width(m) = w
  <2>1. 1 \in 1 .. L1 + L2
    <3>1. L2 # 0
      BY <1>3
    <3>2. QED
      BY <1>1, <3>1
  <2>2. m # << >>
    BY <1>8, <2>1
  <2>3. QED
    BY <1>11, <2>1, <2>2 DEF Width
<1>13. Batch(ss, c, m, t)
  BY <1>5, <1>6, <1>7, <1>8, <1>11, <1>12 DEF Batch
<1>14. QED
  BY <1>5, <1>9, <1>10, <1>13 DEF ss, c, m, t, k1, k2

\* The wider of two batches has a row without padding, and keeps it.
LEMMA SplicedPadding ==
    ASSUME NEW s1, NEW c1, NEW m1, NEW t1, Batch(s1, c1, m1, t1),
           NEW s2, NEW c2, NEW m2, NEW t2, Batch(s2, c2, m2, t2),
           s2 # << >>,
           s1 # << >> => \E i \in 1 .. Len(s1) : m1[i][1] = 1,
           \E i \in 1 .. Len(s2) : m2[i][1] = 1
    PROVE  \E i \in 1 .. Len(s1 \o s2) : Stack(m1, m2, 0)[i][1] = 1
<1> DEFINE c == Stack(c1, c2, Column(PadToken, 0))
           m == Stack(m1, m2, 0)
           k1 == Gap(Width(m1), Width(m2))
           k2 == Gap(Width(m2), Width(m1))
<1>1. /\ Len(s1) \in Nat /\ Width(m1) \in Nat
      /\ Len(s2) \in Nat /\ Width(m2) \in Nat \ {0}
      /\ s1 # << >> => Width(m1) > 0
      /\ s1 = << >> => Width(m1) = 0
  <2>1. s1 = << >> => Width(m1) = 0
    BY DEF Batch, Width
  <2>2. QED
    BY <2>1, BatchWidth
<1>2. /\ Len(s1 \o s2) = Len(s1) + Len(s2)
      /\ \A i \in 1 .. Len(s1) : Moved(c, m, i, c1, m1, i, k1)
      /\ \A i \in 1 .. Len(s2) : Moved(c, m, Len(s1) + i, c2, m2, i, k2)
  BY SplicedRows
<1> HIDE DEF c, m
<1>3. CASE Width(m1) >= Width(m2)
  <2>1. PICK i \in 1 .. Len(s1) : m1[i][1] = 1
    BY <1>1, <1>3
  <2>2. Behind(m[i], m1[i], 0)
    <3>1. k1 = 0
      BY <1>1, <1>3 DEF Gap
    <3>2. QED
      BY <1>2, <3>1 DEF Moved
  <2>3. 1 \in 1 .. Len(m1[i])
    <3>1. Len(m1[i]) = Width(m1)
      BY DEF Batch
    <3>2. QED
      BY <1>1, <1>3, <3>1
  <2>4. m[i][1 + 0] = m1[i][1]
    BY <2>2, <2>3 DEF Behind
  <2>5. i \in 1 .. Len(s1) + Len(s2) /\ 1 + 0 = 1
    BY <1>1
  <2>6. QED
    BY <1>2, <2>1, <2>4, <2>5 DEF m
<1>4. CASE ~(Width(m1) >= Width(m2))
  <2>1. PICK i \in 1 .. Len(s2) : m2[i][1] = 1
    OBVIOUS
  <2>2. Behind(m[Len(s1) + i], m2[i], 0)
    <3>1. k2 = 0
      BY <1>1, <1>4 DEF Gap
    <3>2. QED
      BY <1>2, <3>1 DEF Moved
  <2>3. 1 \in 1 .. Len(m2[i])
    <3>1. Len(m2[i]) = Width(m2)
      BY DEF Batch
    <3>2. QED
      BY <1>1, <3>1
  <2>4. m[Len(s1) + i][1 + 0] = m2[i][1]
    BY <2>2, <2>3 DEF Behind
  <2>5. Len(s1) + i \in 1 .. Len(s1) + Len(s2) /\ 1 + 0 = 1
    BY <1>1
  <2>6. QED
    BY <1>2, <2>1, <2>4, <2>5 DEF m
<1>5. QED
  BY <1>3, <1>4

\* The token that each row of ss draws.
Draws(ss, c, m) == [i \in 1 .. Len(ss) |-> Sample(c[i], m[i])]

\* A batch of rows with their prompts of lengths pl, at positions below b.
PromptRows(ss, c, m, t, pl, b) ==
    /\ Batch(ss, c, m, t)
    /\ \A i \in 1 .. Len(ss) :
           /\ Cardinality(Attended(m[i])) = pl[ss[i]]
           /\ t[i] = Token(ss[i], pl[ss[i]] + 1)
           /\ \A j \in 1 .. Len(c[i]) : c[i][j].pos < b
    /\ \E i \in 1 .. Len(ss) : m[i][1] = 1

\* What prefill returns is a batch, each row with the token that it drew.
LEMMA PrefilledBatch ==
    ASSUME NEW ss \in Seq(Ids), ss # << >>, NEW pl, NEW b \in Nat,
           \A i \in 1 .. Len(ss) : pl[ss[i]] \in 1 .. b
    PROVE  LET m == PrefillMask(ss, pl)
               c == PrefillCache(ss, pl)
           IN  PromptRows(ss, c, m, Draws(ss, c, m), pl, b)
<1> DEFINE m == PrefillMask(ss, pl)
           c == PrefillCache(ss, pl)
           t == Draws(ss, c, m)
<1>1. Len(ss) \in Nat \ {0} /\ Len(ss) > 0 /\ \A i \in 1 .. Len(ss) : ss[i] \in Ids
  OBVIOUS
<1>2. /\ m \in Seq(Seq({0, 1})) /\ Len(m) = Len(ss)
      /\ c \in Seq(Seq(Columns)) /\ Len(c) = Len(ss)
      /\ \A i \in 1 .. Len(ss) :
             /\ Len(m[i]) = Width(m) /\ Len(c[i]) = Width(m)
             /\ Cardinality(Attended(m[i])) = pl[ss[i]]
             /\ Sees(c[i], m[i], ss[i], pl[ss[i]])
             /\ \A j \in 1 .. Width(m) : c[i][j].pos < b
      /\ \E i \in 1 .. Len(ss) : m[i][1] = 1
  <2> HIDE DEF t
  <2>1. Len(ss) > 0
    BY <1>1
  <2>2. QED
    BY <2>1, PrefilledRows
<1>3. \A i \in 1 .. Len(ss) : t[i] = Sample(c[i], m[i])
  BY DEF Draws
<1> HIDE DEF m, c
<1>4. ASSUME NEW i \in 1 .. Len(ss)
      PROVE  /\ Sample(c[i], m[i]) = Token(ss[i], pl[ss[i]] + 1)
             /\ Sample(c[i], m[i]) \in Tokens
  <2>1. /\ Sees(c[i], m[i], ss[i], Cardinality(Attended(m[i])))
        /\ Cardinality(Attended(m[i])) = pl[ss[i]] /\ ss[i] \in Ids
    BY <1>1, <1>2
  <2>2. Sample(c[i], m[i]) = Token(ss[i], pl[ss[i]] + 1)
    BY <2>1, SampleContinues
  <2>3. QED
    BY <2>1, <2>2 DEF Token, Tokens
<1>5. t \in Seq(Tokens) /\ Len(t) = Len(ss)
  <2>1. t \in [1 .. Len(ss) -> Tokens]
    BY <1>4 DEF Draws
  <2> HIDE DEF t
  <2>2. QED
    BY <1>1, <2>1, ListOf
<1> HIDE DEF t
<1>6. ASSUME NEW i \in 1 .. Len(ss)
      PROVE  RowOf(c[i], m[i], t[i], ss[i])
  <2>1. /\ pl[ss[i]] \in Nat \ {0}
        /\ Cardinality(Attended(m[i])) = pl[ss[i]]
        /\ Sees(c[i], m[i], ss[i], pl[ss[i]])
        /\ t[i] = Token(ss[i], pl[ss[i]] + 1)
    BY <1>2, <1>3, <1>4
  <2>2. QED
    BY <2>1 DEF RowOf
<1>7. Batch(ss, c, m, t)
  BY <1>2, <1>5, <1>6 DEF Batch
<1>8. PromptRows(ss, c, m, t, pl, b)
  BY <1>2, <1>3, <1>4, <1>7 DEF PromptRows
<1>9. QED
  BY <1>8 DEF m, c, t

\* The columns of a row have positions below b.
Below(row, b) == \A j \in 1 .. Len(row) : row[j].pos < b

\* Behind padding, a row's columns keep their positions and padding has 0.
LEMMA MovedPositions ==
    ASSUME NEW c2, NEW m2, NEW r, NEW c, NEW m, NEW i, NEW k \in Nat,
           Moved(c2, m2, r, c, m, i, k), Len(c[i]) \in Nat,
           NEW b \in Nat \ {0}, Below(c[i], b)
    PROVE  Below(c2[r], b)
<1>1. SUFFICES ASSUME NEW j \in 1 .. Len(c2[r])
               PROVE  c2[r][j].pos < b
  BY DEF Below
<1>2. /\ Len(c2[r]) = k + Len(c[i])
      /\ \A x \in 1 .. Len(c[i]) : c2[r][x + k] = c[i][x]
      /\ \A x \in 1 .. k : c2[r][x] = Column(PadToken, 0)
  BY DEF Moved, Behind, Filled
<1>3. CASE j \in 1 .. k
  <2>1. c2[r][j].pos = 0
    BY <1>2, <1>3 DEF Column
  <2>2. QED
    BY <2>1
<1>4. CASE ~(j \in 1 .. k)
  <2>1. j - k \in 1 .. Len(c[i]) /\ (j - k) + k = j
    BY <1>2, <1>4
  <2>2. c2[r][j] = c[i][j - k]
    BY <1>2, <2>1
  <2>3. QED
    BY <2>1, <2>2 DEF Below
<1>5. QED
  BY <1>3, <1>4

LEMMA AdmitStep ==
    ASSUME KInv, NEW ss \in Seq(Ids), Admit(ss)
    PROVE  /\ KInv'
           /\ Continued(Open(ss), prompt')
           /\ \A s \in Ids : IF s \in Elements(ss)
                             THEN prompt[s] = 0 /\ prompt'[s] > 0
                             ELSE prompt'[s] = prompt[s]
<1> DEFINE P == prompt'
           m == PrefillMask(ss, P)
           c == PrefillCache(ss, P)
           t == Draws(ss, c, m)
           L1 == Len(seqs)
           L2 == Len(ss)
           k1 == Gap(Width(mask), Width(m))
           k2 == Gap(Width(m), Width(mask))
<1>1. /\ Types /\ BatchAligned /\ Rows /\ Outputs /\ Room
      /\ NoCommonPadding /\ WithinContext
  BY DEF KInv
<1>2. /\ pc = "ready" /\ pc' = "emitted" /\ keep' = keep /\ ss # << >>
      /\ \A i \in 1 .. Len(ss) : prompt[ss[i]] = 0
      /\ Emit(ss, t, P)
      /\ seqs' = seqs \o ss
      /\ cache' = Stack(cache, c, Column(PadToken, 0))
      /\ mask' = Stack(mask, m, 0)
      /\ next' = next \o t
  BY DEF Admit, Draws
<1>3. PICK raw \in [Elements(ss) -> PromptLengths] :
          prompt' = [s \in Ids |->
              IF s \in DOMAIN raw THEN Encode(raw[s]) ELSE prompt[s]]
  BY DEF Admit
<1>4. /\ L1 \in Nat /\ L2 \in Nat /\ MaxContext \in Nat \ {0, 1}
      /\ \A i \in 1 .. L1 : seqs[i] \in Ids
      /\ \A i \in 1 .. L2 : ss[i] \in Ids
  BY <1>1, EngineAssumption DEF Types
<1>5. /\ P \in [Ids -> 0 .. MaxContext - 1] /\ P \in [Ids -> Nat]
      /\ \A i \in 1 .. L2 : P[ss[i]] \in 1 .. MaxContext - 1
      /\ \A s \in Ids : s \notin Elements(ss) => P[s] = prompt[s]
      /\ \A s \in Ids : prompt[s] > 0 => s \notin Elements(ss)
  <2>1. \A s \in Elements(ss) : Encode(raw[s]) \in 1 .. MaxContext - 1
    <3>1. \A s \in Elements(ss) : raw[s] \in Nat \ {0}
      BY EngineAssumption
    <3>2. QED
      BY <1>4, <3>1 DEF Encode
  <2>2. DOMAIN raw = Elements(ss)
    OBVIOUS
  <2>3. \A i \in 1 .. L2 : ss[i] \in Elements(ss)
    BY DEF Elements
  <2>4. \A s \in Elements(ss) : prompt[s] = 0
    BY <1>2 DEF Elements
  <2>5. prompt \in [Ids -> 0 .. MaxContext - 1]
    BY <1>1 DEF Types
  <2>6. P = [s \in Ids |->
                IF s \in Elements(ss) THEN Encode(raw[s]) ELSE prompt[s]]
    BY <1>3, <2>2
  <2> HIDE DEF P
  <2>7. P \in [Ids -> 0 .. MaxContext - 1] /\ P \in [Ids -> Nat]
    <3>1. ASSUME NEW s \in Ids
          PROVE  P[s] \in 0 .. MaxContext - 1 /\ P[s] \in Nat
      BY <1>4, <2>1, <2>5, <2>6
    <3>2. P = [s \in Ids |-> P[s]]
      BY <2>6
    <3>3. QED
      BY <3>1, <3>2
  <2>8. \A i \in 1 .. L2 : P[ss[i]] \in 1 .. MaxContext - 1
    BY <1>4, <2>1, <2>3, <2>6
  <2>9. \A s \in Ids : s \notin Elements(ss) => P[s] = prompt[s]
    BY <2>6
  <2>10. \A s \in Ids : prompt[s] > 0 => s \notin Elements(ss)
    BY <2>4
  <2>11. QED
    BY <2>7, <2>8, <2>9, <2>10
<1>6. /\ Batch(ss, c, m, t)
      /\ \A i \in 1 .. L2 :
             /\ Cardinality(Attended(m[i])) = P[ss[i]]
             /\ t[i] = Token(ss[i], P[ss[i]] + 1)
             /\ \A j \in 1 .. Len(c[i]) : c[i][j].pos < MaxContext - 1
      /\ \E i \in 1 .. L2 : m[i][1] = 1
  <2> DEFINE b == MaxContext - 1
  <2>1. b \in Nat
    BY <1>4
  <2>2. ss # << >> /\ \A i \in 1 .. Len(ss) : P[ss[i]] \in 1 .. b
    BY <1>2, <1>5
  <2> HIDE DEF P, b
  <2>3. PromptRows(ss, c, m, t, P, b)
    BY <2>1, <2>2, PrefilledBatch
  <2> HIDE DEF m, c, t
  <2>4. QED
    BY <2>3 DEF PromptRows, b
<1> HIDE DEF m, c, t
<1>7. Batch(seqs, cache, mask, next)
  BY <1>1 DEF Types, BatchAligned, Rows, Batch
<1>8. /\ Batch(seqs', cache', mask', next')
      /\ Len(seqs') = L1 + L2
      /\ \A i \in 1 .. L1 : /\ seqs'[i] = seqs[i]
                            /\ Moved(cache', mask', i, cache, mask, i, k1)
      /\ \A i \in 1 .. L2 : /\ seqs'[L1 + i] = ss[i]
                            /\ Moved(cache', mask', L1 + i, c, m, i, k2)
  <2>1. LET s3 == seqs \o ss
            c3 == Stack(cache, c, Column(PadToken, 0))
            m3 == Stack(mask, m, 0)
        IN  /\ Batch(s3, c3, m3, next \o t)
            /\ Len(s3) = L1 + L2
            /\ \A i \in 1 .. L1 : /\ s3[i] = seqs[i]
                                  /\ Moved(c3, m3, i, cache, mask, i, k1)
            /\ \A i \in 1 .. L2 : /\ s3[L1 + i] = ss[i]
                                  /\ Moved(c3, m3, L1 + i, c, m, i, k2)
    BY <1>2, <1>6, <1>7, SplicedRows
  <2>2. QED
    BY <1>2, <2>1
<1>9. k1 \in Nat /\ k2 \in Nat /\ Width(mask) \in Nat /\ Width(m) \in Nat
  <2>1. Width(mask) \in Nat /\ Width(m) \in Nat
    BY <1>6, <1>7, BatchWidth
  <2>2. QED
    BY <2>1 DEF Gap
<1> HIDE DEF k1, k2
<1>10. \A s \in Ids : P[s] = 0 => out[s] = << >>
  <2>1. ASSUME NEW s \in Ids, P[s] = 0
        PROVE  out[s] = << >>
    <3>1. s \notin Elements(ss)
      BY <1>4, <1>5, <2>1 DEF Elements
    <3>2. prompt[s] = 0
      BY <1>5, <2>1, <3>1
    <3>3. QED
      BY <1>1, <3>2 DEF Outputs
  <2>2. QED
    BY <2>1
<1>11. \A i \in 1 .. L2 : Len(out[ss[i]]) = 0
  <2>1. \A i \in 1 .. L2 : out[ss[i]] = << >>
    BY <1>1, <1>2, <1>4 DEF Outputs
  <2>2. QED
    BY <2>1
<1>12. /\ Continued(Open(ss), P)
       /\ out' \in [Ids -> Seq(Tokens)]
       /\ finish' \in [Ids -> Reasons]
       /\ \A s \in Ids \ Open(ss) : finish'[s] = finish[s]
       /\ \A s \in Open(ss) : finish'[s] = "none" =>
              P[s] + Len(out'[s]) < MaxContext
  <2>1. Drawn(ss, t, P)
    <3>1. SUFFICES ASSUME NEW i \in 1 .. L2
                   PROVE  t[i] = Token(ss[i], P[ss[i]] + Len(out[ss[i]]) + 1)
      BY DEF Drawn
    <3>2. P[ss[i]] \in Nat /\ Len(out[ss[i]]) = 0
      BY <1>4, <1>5, <1>11
    <3>3. P[ss[i]] + Len(out[ss[i]]) + 1 = P[ss[i]] + 1
      BY <3>2
    <3>4. QED
      BY <1>6, <3>3
  <2>2. QED
    BY <1>1, <1>2, <1>5, <2>1, EmitEffect
<1>13. Open(ss) \subseteq Elements(ss) /\ Elements(ss) \subseteq Ids
  BY <1>4 DEF Open, Elements
<1>14. /\ Outputs'
       /\ \A s \in Ids : Len(out'[s]) =
              IF s \in Open(ss) THEN Len(out[s]) + 1 ELSE Len(out[s])
  <2>1. Open(ss) \in SUBSET Ids
    BY <1>13
  <2>2. \A s \in Open(ss) : P[s] > 0
    <3>1. \A s \in Open(ss) : \E i \in 1 .. L2 : s = ss[i]
      BY DEF Open, Elements
    <3>2. QED
      BY <1>4, <1>5, <3>1
  <2>3. \A s \in Ids : prompt[s] > 0 => P[s] = prompt[s]
    BY <1>5
  <2>4. P \in [Ids -> Nat] /\ prompt' = P /\ Continued(Open(ss), P)
    BY <1>5, <1>12
  <2> HIDE DEF P
  <2>5. QED
    BY <1>1, <2>1, <2>2, <2>3, <2>4, OutputsContinue
<1>15. Types'
  <2>1. keep' \in Seq(1 .. Len(seqs'))
    <3>1. keep \in Seq(1 .. L1) /\ 1 .. L1 \subseteq 1 .. (L1 + L2)
      BY <1>1, <1>4 DEF Types
    <3>2. keep \in Seq(1 .. (L1 + L2))
      BY <3>1, SeqMonotonic
    <3>3. QED
      BY <1>2, <1>8, <3>2
  <2>2. /\ seqs' \in Seq(Ids) /\ cache' \in Seq(Seq(Columns))
        /\ mask' \in Seq(Seq({0, 1})) /\ next' \in Seq(Tokens)
    BY <1>8 DEF Batch
  <2>3. QED
    BY <1>2, <1>5, <1>12, <2>1, <2>2 DEF Types
<1>16. BatchAligned'
  BY <1>8 DEF Batch, BatchAligned
<1>17. ASSUME NEW i \in 1 .. L1
       PROVE  /\ prompt[seqs[i]] > 0 /\ P[seqs[i]] = prompt[seqs[i]]
              /\ finish'[seqs[i]] = finish[seqs[i]]
              /\ Len(out'[seqs[i]]) = Len(out[seqs[i]])
              /\ Cardinality(Attended(mask'[i])) = Cardinality(Attended(mask[i]))
  <2>1. seqs[i] \in Ids /\ prompt[seqs[i]] > 0
    BY <1>1, <1>4 DEF Rows
  <2>2. seqs[i] \notin Elements(ss) /\ seqs[i] \notin Open(ss)
    BY <1>5, <1>13, <2>1
  <2>3. P[seqs[i]] = prompt[seqs[i]]
    BY <1>5, <2>1, <2>2
  <2>4. /\ finish'[seqs[i]] = finish[seqs[i]]
        /\ Len(out'[seqs[i]]) = Len(out[seqs[i]])
    BY <1>12, <1>14, <2>1, <2>2
  <2>5. Cardinality(Attended(mask'[i])) = Cardinality(Attended(mask[i]))
    BY <1>8 DEF Moved
  <2>6. QED
    BY <2>1, <2>3, <2>4, <2>5
<1>18. ASSUME NEW i \in 1 .. L2
       PROVE  /\ P[ss[i]] > 0
              /\ Cardinality(Attended(mask'[L1 + i])) = P[ss[i]]
              /\ finish'[ss[i]] = "none" =>
                     Len(out'[ss[i]]) = 1 /\ P[ss[i]] + 1 < MaxContext
  <2>1. ss[i] \in Ids /\ ss[i] \in Elements(ss) /\ P[ss[i]] \in 1 .. MaxContext - 1
    BY <1>4, <1>5 DEF Elements
  <2>2. Cardinality(Attended(mask'[L1 + i])) = P[ss[i]]
    BY <1>6, <1>8 DEF Moved
  <2>3. ASSUME finish'[ss[i]] = "none"
        PROVE  Len(out'[ss[i]]) = 1 /\ P[ss[i]] + 1 < MaxContext
    <3>1. ss[i] \in Open(ss)
      BY <1>12, <2>1, <2>3 DEF Open
    <3>2. Len(out'[ss[i]]) = 1
      <4> DEFINE old == Len(out[ss[i]])
                 new == Len(out'[ss[i]])
      <4>1. old = 0 /\ new = old + 1
        BY <1>11, <1>14, <2>1, <3>1
      <4> HIDE DEF old, new
      <4>2. new = 1
        BY <4>1
      <4>3. QED
        BY <4>2 DEF new
    <3>3. P[ss[i]] + Len(out'[ss[i]]) < MaxContext
      BY <1>12, <2>3, <3>1
    <3> HIDE DEF P
    <3>4. QED
      BY <3>2, <3>3
  <2>4. P[ss[i]] > 0
    BY <1>4, <2>1
  <2>5. QED
    BY <2>2, <2>3, <2>4
<1>19. \A r \in 1 .. L1 + L2 : \/ r \in 1 .. L1
                               \/ \E i \in 1 .. L2 : r = L1 + i
  <2>1. SUFFICES ASSUME NEW r \in 1 .. L1 + L2, ~(r \in 1 .. L1)
                 PROVE  \E i \in 1 .. L2 : r = L1 + i
    OBVIOUS
  <2>2. r - L1 \in 1 .. L2 /\ r = L1 + (r - L1)
    BY <1>4, <2>1
  <2>3. QED
    BY <2>2
<1>20. Rows'
  <2>1. ASSUME NEW r \in 1 .. L1 + L2
        PROVE  /\ RowOf(cache'[r], mask'[r], next'[r], seqs'[r])
               /\ P[seqs'[r]] > 0
               /\ finish'[seqs'[r]] = "none" =>
                      Cardinality(Attended(mask'[r])) + 1
                          = P[seqs'[r]] + Len(out'[seqs'[r]])
    <3>1. RowOf(cache'[r], mask'[r], next'[r], seqs'[r])
      BY <1>8 DEF Batch
    <3>2. CASE r \in 1 .. L1
      <4>1. seqs'[r] = seqs[r]
        BY <1>8, <3>2
      <4>2. finish[seqs[r]] = "none" =>
                Cardinality(Attended(mask[r])) + 1
                    = prompt[seqs[r]] + Len(out[seqs[r]])
        BY <1>1, <3>2 DEF Rows
      <4>3. QED
        BY <1>17, <3>1, <3>2, <4>1, <4>2
    <3>3. CASE \E i \in 1 .. L2 : r = L1 + i
      <4>1. PICK i \in 1 .. L2 : r = L1 + i
        BY <3>3
      <4>2. seqs'[r] = ss[i]
        BY <1>8, <4>1
      <4>3. QED
        BY <1>18, <3>1, <4>1, <4>2
    <3>4. QED
      BY <1>19, <3>2, <3>3
  <2>2. QED
    BY <1>8, <2>1 DEF Rows
<1>21. Room'
  <2>1. ASSUME NEW r \in 1 .. L1 + L2, finish'[seqs'[r]] = "none"
        PROVE  Cardinality(Attended(mask'[r])) + 1 < MaxContext
    <3>1. CASE r \in 1 .. L1
      <4>1. Cardinality(Attended(mask[r])) + 1 < MaxContext
        BY <1>1, <1>2, <3>1 DEF Room
      <4>2. QED
        BY <1>17, <3>1, <4>1
    <3>2. CASE \E i \in 1 .. L2 : r = L1 + i
      <4>1. PICK i \in 1 .. L2 : r = L1 + i
        BY <3>2
      <4>2. seqs'[r] = ss[i]
        BY <1>8, <4>1
      <4>3. QED
        BY <1>18, <2>1, <4>1, <4>2
    <3>3. QED
      BY <1>19, <3>1, <3>2
  <2>2. QED
    BY <1>2, <1>8, <2>1 DEF Room
<1>22. NoCommonPadding'
  <2>1. seqs # << >> => \E i \in 1 .. L1 : mask[i][1] = 1
    BY <1>1 DEF NoCommonPadding
  <2>2. \E i \in 1 .. Len(seqs \o ss) : Stack(mask, m, 0)[i][1] = 1
    <3>1. Batch(seqs, cache, mask, next) /\ Batch(ss, c, m, t)
      BY <1>6, <1>7
    <3>2. ss # << >> /\ \E i \in 1 .. L2 : m[i][1] = 1
      BY <1>2, <1>6
    <3>3. QED
      BY <2>1, <3>1, <3>2, SplicedPadding
  <2>3. QED
    BY <1>2, <2>2 DEF NoCommonPadding
<1>23. ASSUME NEW r \in 1 .. L1 + L2
       PROVE  Below(cache'[r], MaxContext)
  <2>1. CASE r \in 1 .. L1
    <3>1. Below(cache[r], MaxContext) /\ Len(cache[r]) \in Nat
      <4>1. Len(cache) = L1 /\ Len(cache[r]) = Width(mask)
        BY <1>7, <2>1 DEF Batch
      <4>2. QED
        BY <1>1, <1>9, <2>1, <4>1 DEF WithinContext, Below
    <3>2. Moved(cache', mask', r, cache, mask, r, k1)
      BY <1>8, <2>1
    <3>3. QED
      BY <1>4, <1>9, <3>1, <3>2, MovedPositions
  <2>2. CASE \E i \in 1 .. L2 : r = L1 + i
    <3>1. PICK i \in 1 .. L2 : r = L1 + i
      BY <2>2
    <3>2. Len(c[i]) = Width(m) /\ Width(m) \in Nat /\ c[i] \in Seq(Columns)
      BY <1>6, <1>9 DEF Batch
    <3>3. Below(c[i], MaxContext)
      <4>1. SUFFICES ASSUME NEW j \in 1 .. Len(c[i])
                     PROVE  c[i][j].pos < MaxContext
        BY DEF Below
      <4>2. c[i][j] \in Columns
        BY <3>2
      <4>3. c[i][j].pos \in Nat
        BY <4>2 DEF Columns
      <4>4. c[i][j].pos < MaxContext - 1
        BY <1>6
      <4>5. QED
        BY <1>4, <4>3, <4>4
    <3>4. Moved(cache', mask', r, c, m, i, k2)
      BY <1>8, <3>1
    <3>5. Len(c[i]) \in Nat /\ MaxContext \in Nat \ {0}
      BY <1>4, <3>2
    <3>6. QED
      BY <1>9, <3>3, <3>4, <3>5, MovedPositions
  <2>3. QED
    BY <1>19, <2>1, <2>2
<1>24. ASSUME NEW s \in Ids
       PROVE  P[s] + Len(out'[s]) <= MaxContext
  <2>1. CASE s \in Elements(ss)
    <3>1. PICK i \in 1 .. L2 : s = ss[i]
      BY <2>1 DEF Elements
    <3>2. P[s] \in 1 .. MaxContext - 1 /\ Len(out[s]) = 0
      BY <1>5, <1>11, <3>1
    <3>3. Len(out'[s]) = IF s \in Open(ss) THEN Len(out[s]) + 1 ELSE Len(out[s])
      BY <1>14
    <3> DEFINE old == Len(out[s])
               new == Len(out'[s])
    <3>4. old = 0 /\ new = IF s \in Open(ss) THEN old + 1 ELSE old
      BY <3>2, <3>3
    <3> HIDE DEF P, old, new
    <3>5. P[s] + new <= MaxContext
      BY <1>4, <3>2, <3>4
    <3>6. QED
      BY <3>5 DEF new
  <2>2. CASE s \notin Elements(ss)
    <3>1. P[s] = prompt[s] /\ Len(out'[s]) = Len(out[s])
      BY <1>5, <1>13, <1>14, <2>2
    <3>2. QED
      BY <1>1, <3>1 DEF WithinContext
  <2>3. QED
    BY <2>1, <2>2
<1>25. WithinContext'
  <2>1. Len(cache') = L1 + L2
    BY <1>8 DEF Batch
  <2>2. QED
    BY <1>23, <1>24, <2>1 DEF WithinContext, Below
<1>26. ASSUME NEW s \in Ids
       PROVE  IF s \in Elements(ss) THEN prompt[s] = 0 /\ P[s] > 0
                                    ELSE P[s] = prompt[s]
  BY <1>2, <1>5, <1>18 DEF Elements
<1>27. KInv'
  BY <1>14, <1>15, <1>16, <1>20, <1>21, <1>22, <1>25 DEF KInv
<1>28. QED
  BY <1>12, <1>26, <1>27

-----------------------------------------------------------------------------
(* The theorems *)

LEMMA StepKInv == KInv /\ [Next]_vars => KInv'
<1> SUFFICES ASSUME KInv, [Next]_vars
             PROVE  KInv'
  OBVIOUS
<1>1. ASSUME NEW n \in 1 .. MaxBatchSize, NEW q \in [1 .. n -> Ids], Admit(q)
      PROVE  KInv'
  <2>1. q \in Seq(Ids)
    BY EngineAssumption, ListOf
  <2>2. QED
    BY <1>1, <2>1, AdmitStep
<1>2. CASE Decode
  BY <1>2, DecodeStep
<1>3. CASE ScanKeep
  BY <1>3, ScanStep
<1>4. CASE Evict
  BY <1>4, EvictStep
<1>5. ASSUME NEW s \in Ids, Abandon(s)
      PROVE  KInv'
  BY <1>5, AbandonStep
<1>6. CASE Fault
  BY <1>6, FaultStep
<1>7. CASE UNCHANGED vars
  <2>1. /\ pc' = pc /\ seqs' = seqs /\ cache' = cache /\ mask' = mask
        /\ next' = next /\ keep' = keep /\ prompt' = prompt /\ out' = out
        /\ finish' = finish
    BY <1>7 DEF vars, batchVars, seqVars
  <2>2. Types' /\ BatchAligned' /\ Rows'
    BY <2>1 DEF KInv, Types, BatchAligned, Rows
  <2>3. Outputs' /\ Room' /\ NoCommonPadding' /\ WithinContext'
    BY <2>1 DEF KInv, Outputs, Room, NoCommonPadding, WithinContext
  <2>4. QED
    BY <2>2, <2>3 DEF KInv
<1>8. QED
  BY <1>1, <1>2, <1>3, <1>4, <1>5, <1>6, <1>7 DEF Next

\* The invariant that the theorems below are parts or consequences of.
THEOREM Invariance == Spec => []KInv
BY InitKInv, StepKInv, PTL DEF Spec

\* Every variable has its type.
THEOREM TypeCorrect == Spec => []TypeOK
<1>1. KInv => TypeOK
  <2>1. SUFFICES ASSUME Types
                 PROVE  TypeOK
    BY DEF KInv
  <2>2. prompt \in [Ids -> Nat]
    <3>1. \A s \in Ids : prompt[s] \in 0 .. MaxContext - 1
      BY <2>1 DEF Types
    <3>2. \A s \in Ids : prompt[s] \in Nat
      BY <3>1
    <3>3. prompt = [s \in Ids |-> prompt[s]]
      BY <2>1 DEF Types
    <3>4. QED
      BY <3>2, <3>3
  <2>3. QED
    BY <2>1, <2>2 DEF Types, TypeOK, Columns
<1>2. QED
  BY <1>1, Invariance, PTL

\* model.py:64-66: the four lists of the batch stay as long, and all rows as
\* wide, as each other, through every splice, decoding and eviction.
THEOREM ListsAligned == Spec => []BatchAligned
<1>1. KInv => BatchAligned
  BY DEF KInv
<1>2. QED
  BY <1>1, Invariance, PTL

\* kvcache.py: each row attends to the tokens of its own sequence, each once
\* and at its own position, and consumes the next one.
THEOREM RowsAreFaithful == Spec => []RowFaithful
<1>1. KInv => RowFaithful
  BY DEF KInv, Rows, RowOf, RowFaithful
<1>2. QED
  BY <1>1, Invariance, PTL

\* _compact: after every eviction and splice some row needs the first column.
THEOREM PaddingIsReclaimed == Spec => []NoCommonPadding
<1>1. KInv => NoCommonPadding
  BY DEF KInv
<1>2. QED
  BY <1>1, Invariance, PTL

\* encode and the length limit of _emit keep every position in the context.
THEOREM ContextKept == Spec => []WithinContext
<1>1. KInv => WithinContext
  BY DEF KInv
<1>2. QED
  BY <1>1, Invariance, PTL

\* A run of the model over the first n tokens of s, from position 0, sees them.
LEMMA UncachedContinues ==
    ASSUME NEW s \in Ids, NEW n \in Nat \ {0}, n < MaxContext,
           NEW q \in Seq(Tokens), Len(q) = n,
           \A j \in 1 .. n : q[j] = Token(s, j)
    PROVE  Uncached(q) = Token(s, n + 1)
<1> DEFINE row == [j \in 1 .. n |-> Column(q[Len(q) - n + j], j - 1)]
           m == [j \in 1 .. n |-> 1]
<1>1. Uncached(q) = Sample(row, m)
  BY DEF Uncached
<1>2. Len(m) = n /\ \A j \in 1 .. n : m[j] = 1
  <2>1. m \in [1 .. n -> {1}]
    OBVIOUS
  <2>2. \A j \in 1 .. n : m[j] = 1
    OBVIOUS
  <2> HIDE DEF m
  <2>3. QED
    BY <2>1, <2>2, ListOf
<1>3. Len(row) = n /\ \A j \in 1 .. n : row[j] = Column(Token(s, j), j - 1)
  <2>1. ASSUME NEW j \in 1 .. n
        PROVE  row[j] = Column(Token(s, j), j - 1)
    <3>1. Len(q) - n + j = j
      OBVIOUS
    <3>2. QED
      BY <3>1
  <2>2. row \in [1 .. n -> {row[j] : j \in 1 .. n}]
    OBVIOUS
  <2> HIDE DEF row
  <2>3. QED
    BY <2>1, <2>2, ListOf
<1> HIDE DEF row, m
<1>4. Attended(m) = 1 .. n /\ Cardinality(1 .. n) = n
  <2>1. Cardinality(1 .. n) = n
    <3>1. Cardinality(1 .. n) = IF 1 > n THEN 0 ELSE n - 1 + 1
      BY FS_Interval
    <3>2. QED
      BY <3>1
  <2>2. QED
    BY <1>2, <2>1 DEF Attended
<1>5. {row[j] : j \in 1 .. n} = Prefix(s, n)
  BY <1>3 DEF Prefix
<1>6. Sees(row, m, s, Cardinality(Attended(m))) /\ Cardinality(Attended(m)) = n
  BY <1>3, <1>4, <1>5 DEF Sees
<1>7. QED
  BY <1>1, <1>6, SampleContinues

\* test_engine.py:35: for every sequence in every batch, each token is the one
\* generate_without_cache() draws from the tokens before it.
THEOREM CacheIsTransparent == Spec => []CachedAsUncached
<1>1. KInv => CachedAsUncached
  <2>1. SUFFICES ASSUME KInv, NEW s \in Ids, NEW k \in 1 .. Len(out[s])
                 PROVE  out[s][k] = Uncached([j \in 1 .. prompt[s] + k - 1 |->
                            IF j <= prompt[s] THEN Token(s, j)
                                              ELSE out[s][j - prompt[s]]])
    BY DEF CachedAsUncached
  <2> DEFINE p == prompt[s]
             n == p + k - 1
             q == [j \in 1 .. n |->
                      IF j <= p THEN Token(s, j) ELSE out[s][j - p]]
  <2>2. /\ out[s] \in Seq(Tokens) /\ Len(out[s]) \in Nat
        /\ p \in 0 .. MaxContext - 1 /\ MaxContext \in Nat \ {0, 1}
        /\ p = 0 => out[s] = << >>
        /\ \A i \in 1 .. Len(out[s]) : out[s][i] = Token(s, p + i)
        /\ p + Len(out[s]) <= MaxContext
    <3>1. Types /\ Outputs /\ WithinContext
      BY <2>1 DEF KInv
    <3>2. QED
      BY <3>1, EngineAssumption DEF Types, Outputs, WithinContext
  <2>3. p # 0
    BY <2>2
  <2>4. n \in Nat \ {0} /\ n < MaxContext /\ n + 1 = p + k
    BY <2>2, <2>3
  <2>5. ASSUME NEW j \in 1 .. n
        PROVE  q[j] = Token(s, j) /\ q[j] \in Tokens
    <3>1. q[j] = Token(s, j)
      <4>1. CASE j <= p
        BY <4>1
      <4>2. CASE ~(j <= p)
        <5>1. j - p \in 1 .. Len(out[s]) /\ p + (j - p) = j
          BY <2>2, <4>2
        <5>2. QED
          BY <2>2, <4>2, <5>1
      <4>3. QED
        BY <4>1, <4>2
    <3>2. j \in Nat
      OBVIOUS
    <3>3. QED
      BY <3>1, <3>2 DEF Token, Tokens
  <2>6. q \in Seq(Tokens) /\ Len(q) = n
    <3>1. q \in [1 .. n -> Tokens]
      BY <2>5
    <3> HIDE DEF q, n
    <3>2. QED
      BY <2>4, <3>1, ListOf
  <2>7. out[s][k] = Token(s, n + 1)
    BY <2>2, <2>4
  <2> HIDE DEF q, n
  <2>8. Uncached(q) = Token(s, n + 1)
    BY <2>4, <2>5, <2>6, UncachedContinues
  <2>9. QED
    BY <2>7, <2>8 DEF q, n, p
<1>2. QED
  BY <1>1, Invariance, PTL

-----------------------------------------------------------------------------
(* A batch implements generation alone *)

\* What the engine appends is what the sequences would generate alone.
LEMMA ContinuedAlone ==
    ASSUME NEW ss \in Seq(Ids), Continued(Open(ss), prompt')
    PROVE  Solo!Extend(Elements(ss))
BY DEF Continued, Open, Solo!Extend, Token

\* A call of admit() starts its newcomers, a call of decode_step() continues
\* the sequences of the batch, and the rest of the engine's work, its faults
\* included, changes nothing that a sequence alone could notice.
THEOREM BatchImplementsSolo == Spec => SoloSpec
<1>1. Init => Solo!Init
  BY DEF Init, Solo!Init
<1>2. KInv /\ [Next]_vars => [Solo!Next]_(Solo!vars)
  <2>1. SUFFICES ASSUME KInv, [Next]_vars
                 PROVE  Solo!Next \/ UNCHANGED Solo!vars
    OBVIOUS
  <2>2. ASSUME NEW n \in 1 .. MaxBatchSize, NEW ss \in [1 .. n -> Ids], Admit(ss)
        PROVE  Solo!Next
    <3>1. ss \in Seq(Ids)
      BY EngineAssumption, ListOf
    <3>2. /\ Types' /\ Continued(Open(ss), prompt')
          /\ \A s \in Ids : IF s \in Elements(ss)
                            THEN prompt[s] = 0 /\ prompt'[s] > 0
                            ELSE prompt'[s] = prompt[s]
      BY <2>1, <2>2, <3>1, AdmitStep DEF KInv
    <3>3. Elements(ss) \in SUBSET Ids
      BY <3>1 DEF Elements
    <3>4. prompt' \in [Ids -> 0 .. MaxContext - 1]
      BY <3>2 DEF Types
    <3>5. Solo!Start(Elements(ss))
      BY <3>1, <3>2, <3>3, <3>4, ContinuedAlone DEF Solo!Start
    <3>6. QED
      BY <3>3, <3>5 DEF Solo!Next
  <2>3. CASE Decode
    <3>1. seqs \in Seq(Ids) /\ prompt' = prompt /\ Continued(Open(seqs), prompt')
      BY <2>1, <2>3, DecodeStep DEF KInv, Types, Decode
    <3>2. /\ Elements(seqs) \in SUBSET Ids
          /\ \A s \in Elements(seqs) : prompt[s] > 0
      BY <2>1, <3>1 DEF KInv, Rows, Elements
    <3>3. Solo!Continue(Elements(seqs))
      BY <3>1, <3>2, ContinuedAlone DEF Solo!Continue
    <3>4. QED
      BY <3>2, <3>3 DEF Solo!Next
  <2>4. ASSUME NEW s \in Ids, Abandon(s)
        PROVE  Solo!Next
    BY <2>4 DEF Abandon, Solo!Abandon, Solo!Next
  <2>5. CASE ScanKeep \/ Evict \/ Fault
    BY <2>5 DEF ScanKeep, Evict, Fault, seqVars, Solo!vars
  <2>6. CASE UNCHANGED vars
    BY <2>6 DEF vars, seqVars, Solo!vars
  <2>7. QED
    BY <2>1, <2>2, <2>3, <2>4, <2>5, <2>6 DEF Next
<1>3. QED
  BY <1>1, <1>2, Invariance, PTL DEF Spec, SoloSpec, Solo!Spec
=============================================================================
