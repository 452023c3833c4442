--------------------------- MODULE SendingProofs ---------------------------
(***************************************************************************)
(* Proofs about sending: for any messages, any payloads found in a file,   *)
(* any calls of write, a u32 and a usize of any width, the two generated   *)
(* decoders agree, a view that is written again is the same message, and   *)
(* what a handler decodes is what was sent.                                *)
(*                                                                         *)
(* BytesOf and Decode are folds over a sequence of fields.  A fold is a    *)
(* function on the subsets of the indices that is chosen to satisfy its    *)
(* recursion; the first part shows that it exists and is the only one, by  *)
(* least counterexamples, and what one more element adds.                  *)
(***************************************************************************)
EXTENDS Sending, AdmissionProofs, WellFoundedInduction, SequenceTheorems

-----------------------------------------------------------------------------
(* Induction and folds *)

LEMMA LeastNat ==
    ASSUME NEW S \in SUBSET Nat, S # {}
    PROVE  \E k \in S : \A j \in S : k <= j
<1>1. PICK k \in S : \A j \in S : ~(<<j, k>> \in OpToRel(<, Nat))
  BY NatLessThanWellFounded, WFMin
<1>2. \A j \in S : ~(j < k)
  BY <1>1 DEF OpToRel
<1> QED BY <1>2

LEMMA MaxIn ==
    ASSUME NEW n \in Nat, NEW S \in SUBSET (1 .. n), S # {}
    PROVE  Max(S) \in S /\ \A j \in S : j <= Max(S)
<1> DEFINE rest == {n - p : p \in S}
<1>1. rest \subseteq Nat /\ rest # {}
  <2>1. \A p \in S : p \in 1 .. n
    OBVIOUS
  <2>2. \A p \in S : n - p \in Nat
    BY <2>1
  <2> QED BY <2>2
<1>2. PICK k \in rest : \A j \in rest : k <= j
  BY <1>1, LeastNat
<1>3. PICK p \in S : k = n - p
  OBVIOUS
<1>4. ASSUME NEW q \in S
      PROVE  p >= q
  <2>1. n - q \in rest
    OBVIOUS
  <2>2. k <= n - q
    BY <1>2, <2>1
  <2> QED BY <1>3, <2>2
<1>5. Max(S) \in S /\ \A y \in S : Max(S) >= y
  BY <1>4 DEF Max
<1> QED BY <1>5

(* A fold from the left over 1 .. n, as FoldLeft computes it: over the     *)
(* subsets of 1 .. n, taking the largest index last.                       *)
Folds(g, n, base, X, step) ==
    /\ g = [S \in SUBSET (1 .. n) |-> g[S]]
    /\ g[{}] = base
    /\ \A S \in SUBSET (1 .. n) :
          S # {} /\ g[S \ {Max(S)}] \in X => g[S] = step[Max(S)][g[S \ {Max(S)}]]

LEMMA FoldValues ==
    ASSUME NEW X, NEW base \in X, NEW n \in Nat, NEW step \in [1 .. n -> [X -> X]],
           NEW g, Folds(g, n, base, X, step),
           NEW m \in 0 .. n, NEW h, Folds(h, m, base, X, step)
    PROVE  \A S \in SUBSET (1 .. m) : g[S] \in X /\ h[S] = g[S]
<1> DEFINE bad == {k \in 0 .. m : \E S \in SUBSET (1 .. k) : ~(g[S] \in X /\ h[S] = g[S])}
<1> SUFFICES ASSUME bad # {} PROVE FALSE
  <2>1. SUBSET (1 .. m) = UNION {SUBSET (1 .. k) : k \in 0 .. m}
    OBVIOUS
  <2> QED BY <2>1
<1>1. PICK k \in bad : \A j \in bad : k <= j
  <2>1. bad \in SUBSET Nat
    OBVIOUS
  <2> HIDE DEF bad
  <2> QED BY <2>1, LeastNat
<1>2. PICK S \in SUBSET (1 .. k) : ~(g[S] \in X /\ h[S] = g[S])
  OBVIOUS
<1>3. S # {}
  BY <1>2 DEF Folds
<1>4. S \in SUBSET (1 .. m) /\ S \in SUBSET (1 .. n)
  OBVIOUS
<1>5. Max(S) \in S /\ \A j \in S : j <= Max(S)
  BY <1>3, <1>4, MaxIn
<1> DEFINE R == S \ {Max(S)}
<1>6. R \in SUBSET (1 .. k - 1) /\ k - 1 \in 0 .. m
  <2>1. m \in Nat /\ k \in 0 .. m /\ k \in Nat
    OBVIOUS
  <2>2. Max(S) \in 1 .. k /\ \A j \in S : j \in 1 .. k
    BY <1>5
  <2>3. \A j \in R : j \in 1 .. k - 1
    BY <1>5, <2>1, <2>2
  <2>4. k - 1 \in 0 .. m
    BY <2>1, <2>2
  <2> QED BY <2>3, <2>4
<1>7. g[R] \in X /\ h[R] = g[R]
  <2>1. k - 1 \notin bad
    <3>1. k \in 0 .. m /\ m \in Nat
      OBVIOUS
    <3>2. ~(k <= k - 1)
      BY <3>1
    <3> HIDE DEF bad
    <3> QED BY <1>1, <3>2
  <2> QED BY <1>6, <2>1
<1>8. g[S] = step[Max(S)][g[R]] /\ h[S] = step[Max(S)][h[R]]
  BY <1>3, <1>4, <1>7 DEF Folds
<1>9. Max(S) \in 1 .. n
  BY <1>4, <1>5
<1> QED BY <1>2, <1>7, <1>8, <1>9

LEMMA FoldExists ==
    ASSUME NEW X, NEW base \in X, NEW n \in Nat, NEW step \in [1 .. n -> [X -> X]]
    PROVE  \E g \in [SUBSET (1 .. n) -> X] : Folds(g, n, base, X, step)
<1> DEFINE bad == {k \in 0 .. n : ~ \E g \in [SUBSET (1 .. k) -> X] : Folds(g, k, base, X, step)}
<1> SUFFICES ASSUME bad # {} PROVE FALSE
  <2>1. n \in 0 .. n
    OBVIOUS
  <2> QED BY <2>1
<1>1. PICK k \in bad : \A j \in bad : k <= j
  <2>1. bad \in SUBSET Nat
    OBVIOUS
  <2> HIDE DEF bad
  <2> QED BY <2>1, LeastNat
<1>2. k # 0
  <2> SUFFICES \E g \in [SUBSET (1 .. 0) -> X] : Folds(g, 0, base, X, step)
    OBVIOUS
  <2> DEFINE g == [S \in SUBSET (1 .. 0) |-> base]
  <2>1. g \in [SUBSET (1 .. 0) -> X] /\ \A S \in SUBSET (1 .. 0) : S = {}
    OBVIOUS
  <2>2. g = [S \in SUBSET (1 .. 0) |-> g[S]] /\ g[{}] = base
    OBVIOUS
  <2>3. Folds(g, 0, base, X, step)
    BY <2>1, <2>2 DEF Folds
  <2> QED BY <2>1, <2>3
<1>3. k \in Nat /\ k - 1 \in 0 .. n /\ k - 1 \notin bad
  <2>1. k \in 0 .. n
    OBVIOUS
  <2>2. k - 1 \in 0 .. n /\ ~(k <= k - 1)
    BY <1>2, <2>1
  <2> HIDE DEF bad
  <2> QED BY <1>1, <2>1, <2>2
<1>4. PICK g \in [SUBSET (1 .. k - 1) -> X] : Folds(g, k - 1, base, X, step)
  BY <1>3
<1> DEFINE h == [S \in SUBSET (1 .. k) |-> IF k \in S THEN step[k][g[S \ {k}]] ELSE g[S]]
<1>5. \A S \in SUBSET (1 .. k) : /\ S \ {k} \in SUBSET (1 .. k - 1)
                                 /\ k \notin S => S \in SUBSET (1 .. k - 1)
  OBVIOUS
<1>6. h \in [SUBSET (1 .. k) -> X] /\ h = [S \in SUBSET (1 .. k) |-> h[S]]
  BY <1>2, <1>5
<1>7. h[{}] = base
  BY <1>4 DEF Folds
<1>8. ASSUME NEW S \in SUBSET (1 .. k), S # {}
      PROVE  h[S] = step[Max(S)][h[S \ {Max(S)}]]
  <2>1. Max(S) \in S /\ \A j \in S : j <= Max(S)
    BY <1>3, <1>8, MaxIn
  <2>2. CASE k \in S
    <3>1. Max(S) = k
      <4>1. Max(S) \in 1 .. k /\ k <= Max(S)
        BY <2>1, <2>2
      <4> QED BY <1>3, <4>1
    <3>2. h[S \ {k}] = g[S \ {k}]
      BY <1>5
    <3> QED BY <2>2, <3>1, <3>2
  <2>3. CASE k \notin S
    <3>1. S \in SUBSET (1 .. k - 1) /\ S \ {Max(S)} \in SUBSET (1 .. k - 1)
      BY <1>5, <2>3
    <3>2. h[S] = g[S] /\ h[S \ {Max(S)}] = g[S \ {Max(S)}]
      BY <2>3, <3>1
    <3>3. g[S \ {Max(S)}] \in X
      BY <3>1
    <3> QED BY <1>4, <1>8, <3>1, <3>2, <3>3 DEF Folds
  <2> QED BY <2>2, <2>3
<1>9. Folds(h, k, base, X, step)
  BY <1>6, <1>7, <1>8 DEF Folds
<1> QED BY <1>6, <1>9

-----------------------------------------------------------------------------
(* The length of a varint is a number of bytes *)

Varints(g, n) == g = [i \in 0 .. n |-> IF i < 128 THEN 1 ELSE 1 + g[i \div 128]]

LEMMA Shorter == ASSUME NEW i \in Nat, i >= 128 PROVE i \div 128 \in 0 .. i - 1
OBVIOUS

LEMMA VarintsExist == ASSUME NEW n \in Nat PROVE \E g \in [0 .. n -> Nat] : Varints(g, n)
<1> DEFINE bad == {k \in Nat : ~ \E g \in [0 .. k -> Nat] : Varints(g, k)}
<1> SUFFICES ASSUME bad # {} PROVE FALSE
  OBVIOUS
<1>1. PICK k \in bad : \A j \in bad : k <= j
  <2>1. bad \in SUBSET Nat
    OBVIOUS
  <2> HIDE DEF bad
  <2> QED BY <2>1, LeastNat
<1>2. k \in Nat /\ k # 0
  <2> DEFINE g == [i \in 0 .. 0 |-> 1]
  <2>1. g \in [0 .. 0 -> Nat] /\ Varints(g, 0)
    BY DEF Varints
  <2> QED BY <2>1
<1>3. k - 1 \in Nat /\ k - 1 \notin bad
  <2>1. k - 1 \in Nat /\ ~(k <= k - 1)
    BY <1>2
  <2> HIDE DEF bad
  <2> QED BY <1>1, <2>1
<1>4. PICK g \in [0 .. k - 1 -> Nat] : Varints(g, k - 1)
  BY <1>3
<1> DEFINE last == IF k < 128 THEN 1 ELSE 1 + g[k \div 128]
           h == [i \in 0 .. k |-> IF i = k THEN last ELSE g[i]]
<1>5. k >= 128 => k \div 128 \in 0 .. k - 1
  BY <1>2, Shorter
<1>6. h \in [0 .. k -> Nat]
  <2>1. \A i \in 0 .. k : i # k => i \in 0 .. k - 1
    BY <1>2
  <2>2. k >= 128 => g[k \div 128] \in Nat
    BY <1>5
  <2> QED BY <1>2, <2>1, <2>2
<1>7. ASSUME NEW i \in 0 .. k
      PROVE  h[i] = IF i < 128 THEN 1 ELSE 1 + h[i \div 128]
  <2>1. CASE i = k
    <3>1. k >= 128 => h[k \div 128] = g[k \div 128]
      BY <1>2, <1>5
    <3> QED BY <1>2, <2>1, <3>1
  <2>2. CASE i # k
    <3>1. i \in 0 .. k - 1
      BY <1>2, <2>2
    <3>2. i >= 128 => i \div 128 \in 0 .. k - 1
      <4>1. i >= 128 => i \div 128 \in 0 .. i - 1
        BY <3>1, Shorter
      <4> QED BY <1>2, <3>1, <4>1
    <3>3. i >= 128 => h[i \div 128] = g[i \div 128]
      BY <1>2, <3>2
    <3>4. g[i] = IF i < 128 THEN 1 ELSE 1 + g[i \div 128]
      BY <1>4, <3>1 DEF Varints
    <3> QED BY <1>2, <2>2, <3>1, <3>3, <3>4
  <2> QED BY <2>1, <2>2
<1>8. Varints(h, k)
  <2>1. h = [i \in 0 .. k |-> h[i]]
    OBVIOUS
  <2> HIDE DEF h
  <2> QED BY <1>7, <2>1 DEF Varints
<1> QED BY <1>6, <1>8

LEMMA VarintsAgree ==
    ASSUME NEW n \in Nat, NEW m \in Nat, NEW g, NEW h, Varints(g, n), Varints(h, m),
           NEW i \in Nat, i <= n, i <= m
    PROVE  g[i] = h[i]
<1> DEFINE bad == {j \in Nat : j <= n /\ j <= m /\ g[j] # h[j]}
<1> SUFFICES ASSUME bad # {} PROVE FALSE
  OBVIOUS
<1>1. PICK k \in bad : \A j \in bad : k <= j
  <2>1. bad \in SUBSET Nat
    OBVIOUS
  <2> HIDE DEF bad
  <2> QED BY <2>1, LeastNat
<1>2. /\ g[k] = IF k < 128 THEN 1 ELSE 1 + g[k \div 128]
      /\ h[k] = IF k < 128 THEN 1 ELSE 1 + h[k \div 128]
  BY DEF Varints
<1>3. k >= 128
  BY <1>2
<1>4. k \div 128 \in 0 .. k - 1
  BY <1>3, Shorter
<1>5. k \div 128 \notin bad
  <2>1. k \in Nat /\ ~(k <= k \div 128)
    BY <1>4
  <2> HIDE DEF bad
  <2> QED BY <1>1, <2>1
<1>6. g[k \div 128] = h[k \div 128]
  BY <1>4, <1>5
<1> QED BY <1>2, <1>6

LEMMA VarintLengths ==
    /\ \A n \in Nat : VarintLen[n] \in Nat
    /\ \A n \in Nat : n < 128 => VarintLen[n] = 1
<1> DEFINE G(n) == CHOOSE g \in [0 .. n -> Nat] : Varints(g, n)
           F == [n \in Nat |-> G(n)[n]]
<1>1. ASSUME NEW n \in Nat
      PROVE  G(n) \in [0 .. n -> Nat] /\ Varints(G(n), n)
  BY VarintsExist
<1> HIDE DEF G
<1>2. ASSUME NEW n \in Nat
      PROVE  F[n] = IF n < 128 THEN 1 ELSE 1 + F[n \div 128]
  <2>1. G(n)[n] = IF n < 128 THEN 1 ELSE 1 + G(n)[n \div 128]
    BY <1>1 DEF Varints
  <2>2. CASE n >= 128
    <3>1. n \div 128 \in 0 .. n - 1 /\ n \div 128 \in Nat
      BY <2>2, Shorter
    <3>2. G(n)[n \div 128] = G(n \div 128)[n \div 128]
      <4> DEFINE j == n \div 128
                 g == G(n)
                 h == G(j)
      <4>1. j \in Nat /\ j <= n /\ j <= j /\ Varints(g, n) /\ Varints(h, j)
        BY <1>1, <3>1
      <4> HIDE DEF j, g, h
      <4>2. g[j] = h[j]
        BY <4>1, VarintsAgree
      <4> QED BY <4>2 DEF j, g, h
    <3> QED BY <2>1, <2>2, <3>1, <3>2
  <2> QED BY <2>1, <2>2
<1>3. F = [n \in Nat |-> IF n < 128 THEN 1 ELSE 1 + F[n \div 128]]
  <2>1. F = [n \in Nat |-> F[n]]
    OBVIOUS
  <2> HIDE DEF F
  <2> QED BY <1>2, <2>1
<1>4. VarintLen = [n \in Nat |-> IF n < 128 THEN 1 ELSE 1 + VarintLen[n \div 128]]
  <2> HIDE DEF F
  <2> QED BY <1>3 DEF VarintLen
<1>5. ASSUME NEW n \in Nat
      PROVE  VarintLen[n] = G(n)[n]
  <2>1. Varints([i \in 0 .. n |-> VarintLen[i]], n)
    <3>1. \A i \in 0 .. n : i >= 128 => i \div 128 \in 0 .. n
      BY Shorter
    <3>2. \A i \in 0 .. n : VarintLen[i] = IF i < 128 THEN 1 ELSE 1 + VarintLen[i \div 128]
      BY <1>4
    <3> QED BY <3>1, <3>2 DEF Varints
  <2>2. [i \in 0 .. n |-> VarintLen[i]][n] = G(n)[n]
    BY <1>1, <2>1, VarintsAgree
  <2> QED BY <2>2
<1>6. ASSUME NEW n \in Nat
      PROVE  VarintLen[n] \in Nat
  <2>1. G(n) \in [0 .. n -> Nat] /\ n \in 0 .. n
    BY <1>1
  <2> QED BY <1>5, <2>1
<1>7. \A n \in Nat : n < 128 => VarintLen[n] = 1
  BY <1>4
<1> QED BY <1>6, <1>7

LEMMA FoldAppend ==
    ASSUME NEW X, NEW base \in X, NEW n \in Nat, NEW step \in [1 .. n + 1 -> [X -> X]],
           NEW g, Folds(g, n, base, X, step), NEW h, Folds(h, n + 1, base, X, step)
    PROVE  g[1 .. n] \in X /\ h[1 .. n + 1] = step[n + 1][g[1 .. n]]
<1>1. PICK m \in Nat : m = n + 1
  OBVIOUS
<1>2. /\ n \in 0 .. m /\ 1 .. n + 1 = 1 .. m
      /\ step \in [1 .. m -> [X -> X]] /\ Folds(h, m, base, X, step)
  BY <1>1
<1>3. \A S \in SUBSET (1 .. n) : h[S] \in X /\ g[S] = h[S]
  BY <1>2, FoldValues
<1>4. h[1 .. n] \in X /\ g[1 .. n] = h[1 .. n]
  BY <1>3
<1> DEFINE S == 1 .. m
<1>5. S \in SUBSET (1 .. m)
  OBVIOUS
<1>6. m \in S /\ \A j \in S : j <= m
  BY <1>1
<1>7. Max(S) \in S /\ \A j \in S : j <= Max(S)
  <2> HIDE DEF S
  <2> QED BY <1>5, <1>6, MaxIn
<1>8. Max(S) = m
  BY <1>6, <1>7
<1>9. S \ {m} = 1 .. n
  BY <1>1
<1>10. S # {} /\ h[S \ {Max(S)}] \in X => h[S] = step[Max(S)][h[S \ {Max(S)}]]
  <2> HIDE DEF S
  <2> QED BY <1>2, <1>5 DEF Folds
<1>11. h[S] = step[m][h[1 .. n]]
  <2> HIDE DEF S
  <2> QED BY <1>4, <1>6, <1>8, <1>9, <1>10
<1> QED BY <1>1, <1>4, <1>11

-----------------------------------------------------------------------------
(* The encoded length of a sequence of fields is a sum *)

LEMMA FieldLens == ASSUME NEW f \in Fields PROVE FieldLen(f) \in Nat
<1>1. f.number \in Nat /\ VarintLen[8 * f.number] \in Nat
  BY VarintLengths DEF Fields
<1>2. CASE f.wire = "len"
  <2>1. f.val \in Seq(STRING) /\ Len(f.val) \in Nat
    BY <1>2 DEF Fields
  <2> QED BY <1>1, <1>2, <2>1, VarintLengths DEF FieldLen, StringLen
<1>3. CASE f.wire # "len"
  <2>1. f.val \in Nat
    BY <1>3 DEF Fields
  <2> QED BY <1>1, <1>3, <2>1, VarintLengths DEF FieldLen
<1> QED BY <1>2, <1>3

BytesIter(s) ==
    CHOOSE g : g = [S \in SUBSET (DOMAIN s) |->
                      IF S = {} THEN 0 ELSE g[S \ {Max(S)}] + FieldLen(s[Max(S)])]

ByteStep(s) == [i \in 1 .. Len(s) |-> [n \in Nat |-> n + FieldLen(s[i])]]

LEMMA BytesFold ==
    ASSUME NEW s \in Seq(Fields)
    PROVE  /\ ByteStep(s) \in [1 .. Len(s) -> [Nat -> Nat]]
           /\ Folds(BytesIter(s), Len(s), 0, Nat, ByteStep(s))
           /\ BytesOf(s) = BytesIter(s)[1 .. Len(s)]
<1>1. DOMAIN s = 1 .. Len(s) /\ Len(s) \in Nat /\ \A i \in 1 .. Len(s) : FieldLen(s[i]) \in Nat
  BY FieldLens
<1>2. ByteStep(s) \in [1 .. Len(s) -> [Nat -> Nat]]
  BY <1>1 DEF ByteStep
<1>3. PICK g \in [SUBSET (1 .. Len(s)) -> Nat] : Folds(g, Len(s), 0, Nat, ByteStep(s))
  BY <1>1, <1>2, FoldExists
<1>4. ASSUME NEW S \in SUBSET (1 .. Len(s)), S # {}
      PROVE  Max(S) \in 1 .. Len(s)
  BY <1>1, <1>4, MaxIn
<1>5. ASSUME NEW S \in SUBSET (1 .. Len(s)), S # {}
      PROVE  g[S] = g[S \ {Max(S)}] + FieldLen(s[Max(S)])
  <2>1. g[S \ {Max(S)}] \in Nat
    OBVIOUS
  <2>2. g[S] = ByteStep(s)[Max(S)][g[S \ {Max(S)}]]
    BY <1>3, <1>5, <2>1 DEF Folds
  <2> QED BY <1>4, <1>5, <2>1, <2>2 DEF ByteStep
<1>6. g = [S \in SUBSET (DOMAIN s) |->
             IF S = {} THEN 0 ELSE g[S \ {Max(S)}] + FieldLen(s[Max(S)])]
  BY <1>1, <1>3, <1>5 DEF Folds
<1> DEFINE b == BytesIter(s)
<1>7. b = [S \in SUBSET (1 .. Len(s)) |->
             IF S = {} THEN 0 ELSE b[S \ {Max(S)}] + FieldLen(s[Max(S)])]
  BY <1>1, <1>6 DEF BytesIter
<1> HIDE DEF b
<1>8. ASSUME NEW S \in SUBSET (1 .. Len(s)), S # {}, b[S \ {Max(S)}] \in Nat
      PROVE  b[S] = ByteStep(s)[Max(S)][b[S \ {Max(S)}]]
  <2>1. b[S] = b[S \ {Max(S)}] + FieldLen(s[Max(S)])
    BY <1>7, <1>8
  <2> QED BY <1>4, <1>8, <2>1 DEF ByteStep
<1>9. b = [S \in SUBSET (1 .. Len(s)) |-> b[S]] /\ b[{}] = 0
  BY <1>7
<1>10. Folds(b, Len(s), 0, Nat, ByteStep(s))
  BY <1>8, <1>9 DEF Folds
<1>11. BytesOf(s) = b[1 .. Len(s)]
  BY <1>1 DEF BytesOf, FoldLeft, MapThenFoldSet, BytesIter, b
<1> QED BY <1>2, <1>10, <1>11 DEF b

LEMMA BytesEmpty == BytesOf(<<>>) = 0
<1>1. <<>> \in Seq(Fields) /\ Len(<<>>) = 0 /\ 1 .. 0 = {}
  OBVIOUS
<1> QED BY <1>1, BytesFold DEF Folds

LEMMA BytesAppend ==
    ASSUME NEW s \in Seq(Fields), NEW f \in Fields
    PROVE  BytesOf(s) \in Nat /\ BytesOf(Append(s, f)) = BytesOf(s) + FieldLen(f)
<1> DEFINE t == Append(s, f)
           n == Len(s)
<1>1. t \in Seq(Fields) /\ n \in Nat /\ Len(t) = n + 1 /\ t[n + 1] = f
      /\ \A i \in 1 .. n : t[i] = s[i]
  OBVIOUS
<1> HIDE DEF t
<1>2. Folds(BytesIter(s), n, 0, Nat, ByteStep(t))
  <2>1. Folds(BytesIter(s), n, 0, Nat, ByteStep(s))
    BY BytesFold
  <2>2. \A i \in 1 .. n : ByteStep(s)[i] = ByteStep(t)[i]
    BY <1>1 DEF ByteStep
  <2>3. \A S \in SUBSET (1 .. n) : S # {} => Max(S) \in 1 .. n
    BY <1>1, MaxIn
  <2> QED BY <2>1, <2>2, <2>3 DEF Folds
<1>3. /\ ByteStep(t) \in [1 .. n + 1 -> [Nat -> Nat]]
      /\ Folds(BytesIter(t), n + 1, 0, Nat, ByteStep(t))
  BY <1>1, BytesFold
<1>4. BytesIter(s)[1 .. n] \in Nat
      /\ BytesIter(t)[1 .. n + 1] = ByteStep(t)[n + 1][BytesIter(s)[1 .. n]]
  <2> DEFINE X == Nat
  <2>1. /\ 0 \in X /\ ByteStep(t) \in [1 .. n + 1 -> [X -> X]]
        /\ Folds(BytesIter(s), n, 0, X, ByteStep(t))
        /\ Folds(BytesIter(t), n + 1, 0, X, ByteStep(t))
    BY <1>2, <1>3
  <2>2. n \in Nat
    BY <1>1
  <2> DEFINE step == ByteStep(t)
             g == BytesIter(s)
             h == BytesIter(t)
             base == 0
  <2> HIDE DEF n, X, base
  <2>3. /\ base \in X /\ step \in [1 .. n + 1 -> [X -> X]]
        /\ Folds(g, n, base, X, step) /\ Folds(h, n + 1, base, X, step)
    BY <2>1 DEF base
  <2> HIDE DEF step, g, h
  <2>4. g[1 .. n] \in X /\ h[1 .. n + 1] = step[n + 1][g[1 .. n]]
    BY <2>2, <2>3, FoldAppend
  <2> QED BY <2>4 DEF X, step, g, h
<1>5. BytesOf(s) = BytesIter(s)[1 .. n] /\ BytesOf(t) = BytesIter(t)[1 .. n + 1]
  BY <1>1, BytesFold
<1> QED BY <1>1, <1>4, <1>5 DEF ByteStep, t

\* Induction over 0 .. n, for the numbers with a property that form a set.
LEMMA Climb ==
    ASSUME NEW n \in Nat, NEW good, 0 \in good,
           \A j \in 1 .. n : j - 1 \in good => j \in good
    PROVE  n \in good
<1> DEFINE bad == {j \in 0 .. n : j \notin good}
<1> SUFFICES ASSUME bad # {} PROVE FALSE
  OBVIOUS
<1>1. bad \in SUBSET Nat
  OBVIOUS
<1>2. PICK k \in bad : \A j \in bad : k <= j
  <2> HIDE DEF bad
  <2> QED BY <1>1, LeastNat
<1>3. k \in 1 .. n /\ k - 1 \in 0 .. n /\ ~(k <= k - 1)
  OBVIOUS
<1>4. k - 1 \notin bad
  <2> HIDE DEF bad
  <2> QED BY <1>2, <1>3
<1> QED BY <1>3, <1>4

\* The first j elements of s.
First(s, j) == SubSeq(s, 1, j)

LEMMA FirstGrows ==
    ASSUME NEW S, NEW s \in Seq(S)
    PROVE  /\ Len(s) \in Nat /\ First(s, 0) = <<>> /\ First(s, Len(s)) = s
           /\ \A j \in 1 .. Len(s) :
                 /\ First(s, j) = Append(First(s, j - 1), s[j])
                 /\ s[j] \in S /\ First(s, j) \in Seq(S) /\ First(s, j - 1) \in Seq(S)
<1>1. Len(s) \in Nat /\ First(s, Len(s)) = s
  BY SubSeqFull, LenProperties DEF First
<1>2. First(s, 0) = <<>>
  BY SubSeqEmpty DEF First
<1>3. ASSUME NEW j \in 1 .. Len(s)
      PROVE  /\ First(s, j) = Append(First(s, j - 1), s[j])
             /\ s[j] \in S /\ First(s, j) \in Seq(S) /\ First(s, j - 1) \in Seq(S)
  <2>1. s[j] \in S /\ First(s, j) \in Seq(S) /\ First(s, j - 1) \in Seq(S)
    BY ElementOfSeq, SubSeqProperties DEF First
  <2>2. First(s, j) = First(s, j - 1) \o <<s[j]>>
    BY SubSeqRecursiveSecond DEF First
  <2> QED BY <2>1, <2>2, AppendIsConcat
<1> QED BY <1>1, <1>2, <1>3

LEMMA ConcatGrows ==
    ASSUME NEW S, NEW a \in Seq(S), NEW s \in Seq(S)
    PROVE  /\ a \o First(s, 0) = a /\ a \o First(s, Len(s)) = a \o s
           /\ \A j \in 1 .. Len(s) :
                 /\ a \o First(s, j) = Append(a \o First(s, j - 1), s[j])
                 /\ a \o First(s, j - 1) \in Seq(S)
<1>1. ASSUME NEW t \in Seq(S), NEW f \in S
      PROVE  a \o Append(t, f) = Append(a \o t, f) /\ a \o t \in Seq(S)
  OBVIOUS
<1>2. a \o <<>> = a
  OBVIOUS
<1> QED BY <1>1, <1>2, FirstGrows

LEMMA BytesConcat ==
    ASSUME NEW a \in Seq(Fields), NEW b \in Seq(Fields)
    PROVE  /\ BytesOf(a) \in Nat
           /\ BytesOf(a \o b) = BytesOf(a) + BytesOf(b)
<1> DEFINE T(j) == BytesOf(First(b, j))
           U(j) == BytesOf(a \o First(b, j))
           good == {j \in 0 .. Len(b) : T(j) \in Nat /\ U(j) = U(0) + T(j)}
<1>1. Len(b) \in Nat /\ T(0) = 0 /\ U(0) = BytesOf(a)
      /\ T(Len(b)) = BytesOf(b) /\ U(Len(b)) = BytesOf(a \o b)
  <2>1. Len(b) \in Nat /\ First(b, 0) = <<>> /\ First(b, Len(b)) = b
    BY FirstGrows
  <2>2. a \o First(b, 0) = a /\ a \o First(b, Len(b)) = a \o b
    BY ConcatGrows
  <2> QED BY <2>1, <2>2, BytesEmpty
<1>2. U(0) \in Nat
  <2>1. [number |-> 0, wire |-> "varint", val |-> 0] \in Fields
    BY DEF Fields
  <2> QED BY <1>1, <2>1, BytesAppend
<1>3. ASSUME NEW j \in 1 .. Len(b)
      PROVE  T(j) = T(j - 1) + FieldLen(b[j]) /\ U(j) = U(j - 1) + FieldLen(b[j])
             /\ FieldLen(b[j]) \in Nat
  <2>1. /\ First(b, j) = Append(First(b, j - 1), b[j]) /\ b[j] \in Fields
        /\ First(b, j - 1) \in Seq(Fields)
    BY FirstGrows
  <2>2. /\ a \o First(b, j) = Append(a \o First(b, j - 1), b[j])
        /\ a \o First(b, j - 1) \in Seq(Fields)
    BY ConcatGrows
  <2> QED BY <2>1, <2>2, BytesAppend, FieldLens
<1> HIDE DEF T, U
<1>4. 0 \in good
  BY <1>1, <1>2
<1>5. \A j \in 1 .. Len(b) : j - 1 \in good => j \in good
  BY <1>1, <1>2, <1>3
<1>6. Len(b) \in good
  <2> HIDE DEF good
  <2> QED BY <1>1, <1>4, <1>5, Climb
<1> QED BY <1>1, <1>2, <1>6

-----------------------------------------------------------------------------
(* Decoding keeps to the values of the owned types *)

Owned(k) == OfKind(k, Requests, Responses)
Default(k) == OfKind(k, Request, Response)
TaggedFields == {f \in Fields : Tagged(f)}

LEMMA DefaultOwned == ASSUME NEW k PROVE Default(k) \in Owned(k)
<1>1. <<>> \in Strings
  BY DEF Utf8, Contains, Strings
<1>2. Request \in Requests
  BY DEF Request, Requests
<1>3. Response \in Responses
  BY <1>1 DEF Response, Responses
<1> QED BY <1>2, <1>3 DEF Default, Owned, OfKind

LEMMA MergeOwned ==
    ASSUME NEW k, NEW m \in Owned(k), NEW f \in TaggedFields
    PROVE  Merge(k, m, f) \subseteq Owned(k)
<1>1. Uint64(f) \subseteq Nat
  BY DEF Uint64, TaggedFields, Fields
<1>2. String(f) \subseteq Strings
  BY DEF String, Strings, TaggedFields, Fields
<1>3. f \in Fields /\ f.number \in Nat /\ f.number # 0
  BY DEF TaggedFields, Tagged, Fields
<1>4. CASE k = "request"
  <2>1. m \in Requests
    BY <1>4 DEF Owned, OfKind
  <2>2. CASE f.number = 1
    <3>1. \A v \in Nat : [m EXCEPT !.account_id = v] \in Requests
      BY <2>1 DEF Requests
    <3> QED BY <1>1, <1>4, <2>2, <3>1 DEF Merge, RequestMerge, Owned, OfKind
  <2>3. CASE f.number # 1
    <3>1. f \in {u \in Fields : u.number \notin 0 .. 1}
      BY <1>3, <2>3
    <3>2. Append(m.unknown, f) \in Seq({u \in Fields : u.number \notin 0 .. 1})
      BY <2>1, <3>1, AppendProperties DEF Requests
    <3>3. [m EXCEPT !.unknown = Append(@, f)] \in Requests
      BY <2>1, <3>2 DEF Requests
    <3> QED BY <1>4, <2>3, <3>3 DEF Merge, RequestMerge, Owned, OfKind
  <2> QED BY <2>2, <2>3
<1>5. CASE k # "request"
  <2>1. m \in Responses
    BY <1>5 DEF Owned, OfKind
  <2>2. CASE f.number = 1
    <3>1. \A v \in Nat : [m EXCEPT !.account_id = v] \in Responses
      BY <2>1 DEF Responses
    <3> QED BY <1>1, <1>5, <2>2, <3>1 DEF Merge, ResponseMerge, Owned, OfKind
  <2>3. CASE f.number = 2
    <3>1. \A v \in Strings : [m EXCEPT !.name = v] \in Responses
      BY <2>1 DEF Responses
    <3> QED BY <1>2, <1>5, <2>3, <3>1 DEF Merge, ResponseMerge, Owned, OfKind
  <2>4. CASE f.number = 3
    <3>1. \A v \in Nat : [m EXCEPT !.balance = v] \in Responses
      BY <2>1 DEF Responses
    <3> QED BY <1>1, <1>5, <2>4, <3>1 DEF Merge, ResponseMerge, Owned, OfKind
  <2>5. CASE f.number \notin 1 .. 3
    <3>1. f \in {u \in Fields : u.number \notin 0 .. 3}
      BY <1>3, <2>5
    <3>2. Append(m.unknown, f) \in Seq({u \in Fields : u.number \notin 0 .. 3})
      BY <2>1, <3>1, AppendProperties DEF Responses
    <3>3. [m EXCEPT !.unknown = Append(@, f)] \in Responses
      BY <2>1, <3>2 DEF Responses
    <3> QED BY <1>5, <2>5, <3>3 DEF Merge, ResponseMerge, Owned, OfKind
  <2> QED BY <2>2, <2>3, <2>4, <2>5
<1> QED BY <1>4, <1>5

DecodeIter(k, s) ==
    CHOOSE g : g = [S \in SUBSET (DOMAIN s) |->
                      IF S = {} THEN {Default(k)}
                      ELSE UNION {Merge(k, m, s[Max(S)]) : m \in g[S \ {Max(S)}]}]

DecodeStep(k, s) ==
    [i \in 1 .. Len(s) |-> [ms \in SUBSET Owned(k) |-> UNION {Merge(k, m, s[i]) : m \in ms}]]

LEMMA DecodeFold ==
    ASSUME NEW k, NEW s \in Seq(TaggedFields)
    PROVE  /\ DecodeStep(k, s) \in [1 .. Len(s) -> [SUBSET Owned(k) -> SUBSET Owned(k)]]
           /\ Folds(DecodeIter(k, s), Len(s), {Default(k)}, SUBSET Owned(k), DecodeStep(k, s))
           /\ Decode(k, s) = DecodeIter(k, s)[1 .. Len(s)]
<1> DEFINE X == SUBSET Owned(k)
           base == {Default(k)}
<1>1. DOMAIN s = 1 .. Len(s) /\ Len(s) \in Nat /\ base \in X
      /\ \A i \in 1 .. Len(s) : s[i] \in TaggedFields
  BY DefaultOwned
<1>2. DecodeStep(k, s) \in [1 .. Len(s) -> [X -> X]]
  <2>1. ASSUME NEW i \in 1 .. Len(s), NEW ms \in X
        PROVE  UNION {Merge(k, m, s[i]) : m \in ms} \in X
    BY <1>1, MergeOwned
  <2> QED BY <2>1 DEF DecodeStep
<1>3. PICK g \in [SUBSET (1 .. Len(s)) -> X] : Folds(g, Len(s), base, X, DecodeStep(k, s))
  <2> HIDE DEF X, base
  <2> QED BY <1>1, <1>2, FoldExists
<1>4. ASSUME NEW S \in SUBSET (1 .. Len(s)), S # {}
      PROVE  Max(S) \in 1 .. Len(s)
  BY <1>1, <1>4, MaxIn
<1>5. ASSUME NEW S \in SUBSET (1 .. Len(s)), S # {}
      PROVE  g[S] = UNION {Merge(k, m, s[Max(S)]) : m \in g[S \ {Max(S)}]}
  <2>1. g[S \ {Max(S)}] \in X
    OBVIOUS
  <2>2. g[S] = DecodeStep(k, s)[Max(S)][g[S \ {Max(S)}]]
    BY <1>3, <1>5, <2>1 DEF Folds
  <2> QED BY <1>4, <1>5, <2>1, <2>2 DEF DecodeStep
<1>6. g = [S \in SUBSET (DOMAIN s) |->
             IF S = {} THEN {Default(k)}
             ELSE UNION {Merge(k, m, s[Max(S)]) : m \in g[S \ {Max(S)}]}]
  BY <1>1, <1>3, <1>5 DEF Folds
<1> DEFINE b == DecodeIter(k, s)
<1>7. b = [S \in SUBSET (1 .. Len(s)) |->
             IF S = {} THEN {Default(k)}
             ELSE UNION {Merge(k, m, s[Max(S)]) : m \in b[S \ {Max(S)}]}]
  BY <1>1, <1>6 DEF DecodeIter
<1> HIDE DEF b
<1>8. ASSUME NEW S \in SUBSET (1 .. Len(s)), S # {}, b[S \ {Max(S)}] \in X
      PROVE  b[S] = DecodeStep(k, s)[Max(S)][b[S \ {Max(S)}]]
  <2>1. b[S] = UNION {Merge(k, m, s[Max(S)]) : m \in b[S \ {Max(S)}]}
    BY <1>7, <1>8
  <2> QED BY <1>4, <1>8, <2>1 DEF DecodeStep
<1>9. b = [S \in SUBSET (1 .. Len(s)) |-> b[S]] /\ b[{}] = base
  BY <1>7
<1>10. Folds(b, Len(s), base, X, DecodeStep(k, s))
  <2> HIDE DEF X, base
  <2> QED BY <1>8, <1>9 DEF Folds
<1>11. Decode(k, s) = b[1 .. Len(s)]
  BY <1>1 DEF Decode, FoldLeft, MapThenFoldSet, DecodeIter, Default, b
<1> QED BY <1>2, <1>10, <1>11 DEF b

LEMMA DecodeEmpty == ASSUME NEW k PROVE Decode(k, <<>>) = {Default(k)}
<1>1. <<>> \in Seq(TaggedFields) /\ Len(<<>>) = 0 /\ 1 .. 0 = {}
  OBVIOUS
<1>2. /\ Folds(DecodeIter(k, <<>>), 0, {Default(k)}, SUBSET Owned(k), DecodeStep(k, <<>>))
      /\ Decode(k, <<>>) = DecodeIter(k, <<>>)[1 .. 0]
  BY <1>1, DecodeFold
<1> QED BY <1>1, <1>2 DEF Folds

\* One more field, merged into whatever was decoded so far.
Merged(k, ms, f) == UNION {Merge(k, m, f) : m \in ms}

LEMMA DecodeAppend ==
    ASSUME NEW k, NEW s \in Seq(TaggedFields), NEW f \in TaggedFields
    PROVE  /\ Decode(k, s) \subseteq Owned(k)
           /\ Decode(k, Append(s, f)) = Merged(k, Decode(k, s), f)
<1> DEFINE t == Append(s, f)
           n == Len(s)
           X == SUBSET Owned(k)
           base == {Default(k)}
<1>1. t \in Seq(TaggedFields) /\ n \in Nat /\ Len(t) = n + 1 /\ t[n + 1] = f
      /\ \A i \in 1 .. n : t[i] = s[i]
  BY AppendProperties, LenProperties
<1> HIDE DEF t
<1>2. Folds(DecodeIter(k, s), n, base, X, DecodeStep(k, t))
  <2>1. Folds(DecodeIter(k, s), n, base, X, DecodeStep(k, s))
    BY DecodeFold
  <2>2. \A i \in 1 .. n : DecodeStep(k, s)[i] = DecodeStep(k, t)[i]
    <3> SUFFICES ASSUME NEW i \in 1 .. n PROVE DecodeStep(k, s)[i] = DecodeStep(k, t)[i]
      OBVIOUS
    <3>1. DecodeStep(k, s)[i] = [ms \in X |-> UNION {Merge(k, m, s[i]) : m \in ms}]
      BY DEF DecodeStep
    <3>2. DecodeStep(k, t)[i] = [ms \in X |-> UNION {Merge(k, m, t[i]) : m \in ms}]
      <4>1. i \in 1 .. Len(t)
        BY <1>1
      <4> QED BY <4>1 DEF DecodeStep
    <3>3. s[i] = t[i]
      BY <1>1
    <3> QED BY ONLY <3>1, <3>2, <3>3
  <2>3. \A S \in SUBSET (1 .. n) : S # {} => Max(S) \in 1 .. n
    BY <1>1, MaxIn
  <2> HIDE DEF X, base
  <2> QED BY <2>1, <2>2, <2>3 DEF Folds
<1>3. DecodeStep(k, t) \in [1 .. n + 1 -> [X -> X]]
      /\ Folds(DecodeIter(k, t), n + 1, base, X, DecodeStep(k, t))
  BY <1>1, DecodeFold
<1>4. DecodeIter(k, s)[1 .. n] \in X
      /\ DecodeIter(k, t)[1 .. n + 1] = DecodeStep(k, t)[n + 1][DecodeIter(k, s)[1 .. n]]
  <2>1. n \in Nat /\ base \in X
    BY <1>1, DefaultOwned
  <2> HIDE DEF n, X, base
  <2> DEFINE step == DecodeStep(k, t)
             g == DecodeIter(k, s)
             h == DecodeIter(k, t)
  <2>2. /\ step \in [1 .. n + 1 -> [X -> X]]
        /\ Folds(g, n, base, X, step) /\ Folds(h, n + 1, base, X, step)
    BY <1>2, <1>3
  <2> HIDE DEF step, g, h
  <2>3. g[1 .. n] \in X /\ h[1 .. n + 1] = step[n + 1][g[1 .. n]]
    BY <2>1, <2>2, FoldAppend
  <2> QED BY <2>3 DEF step, g, h
<1>5. Decode(k, s) = DecodeIter(k, s)[1 .. n] /\ Decode(k, t) = DecodeIter(k, t)[1 .. n + 1]
  BY <1>1, DecodeFold
<1>6. \A ms \in X : DecodeStep(k, t)[n + 1][ms] = Merged(k, ms, f)
  BY <1>1 DEF DecodeStep, Merged
<1> QED BY <1>4, <1>5, <1>6 DEF t

-----------------------------------------------------------------------------
(* What is written decodes to what was written, and takes the size computed *)

UnknownTo(k) == {f \in Fields : f.number \notin OfKind(k, 0 .. 1, 0 .. 3)}

LEMMA UnknownTagged == ASSUME NEW k PROVE UnknownTo(k) \subseteq TaggedFields
BY DEF UnknownTo, OfKind, TaggedFields, Tagged

LEMMA OwnedUnknown ==
    ASSUME NEW k, NEW m \in Owned(k)
    PROVE  m.unknown \in Seq(UnknownTo(k)) /\ m.unknown \in Seq(TaggedFields)
<1>1. m.unknown \in Seq(UnknownTo(k))
  <2>1. CASE k = "request"
    BY <2>1 DEF Owned, OfKind, Requests, UnknownTo
  <2>2. CASE k # "request"
    BY <2>2 DEF Owned, OfKind, Responses, UnknownTo
  <2> QED BY <2>1, <2>2
<1>2. Seq(UnknownTo(k)) \subseteq Seq(TaggedFields)
  BY UnknownTagged
<1> QED BY <1>1, <1>2

LEMMA TaggedSeq == Seq(TaggedFields) \subseteq Seq(Fields)
<1>1. TaggedFields \subseteq Fields
  BY DEF TaggedFields
<1> QED BY <1>1

LEMMA MergedOne == ASSUME NEW k, NEW m, NEW f PROVE Merged(k, {m}, f) = Merge(k, m, f)
BY DEF Merged

LEMMA FirstField ==
    ASSUME NEW k, NEW f \in TaggedFields
    PROVE  <<f>> \in Seq(TaggedFields) /\ Decode(k, <<f>>) = Merge(k, Default(k), f)
<1>1. <<>> \in Seq(TaggedFields) /\ Append(<<>>, f) = <<f>> /\ <<f>> \in Seq(TaggedFields)
  OBVIOUS
<1>2. Decode(k, Append(<<>>, f)) = Merged(k, Decode(k, <<>>), f)
  BY <1>1, DecodeAppend
<1>3. Decode(k, <<>>) = {Default(k)}
  BY DecodeEmpty
<1> QED BY <1>1, <1>2, <1>3, MergedOne

\* Fields the decoder does not know are kept in their order.
LEMMA UnknownKept ==
    ASSUME NEW k, NEW a \in Seq(TaggedFields), NEW m \in Owned(k), m.unknown = <<>>,
           Decode(k, a) = {m}, NEW u \in Seq(UnknownTo(k))
    PROVE  Decode(k, a \o u) = {[m EXCEPT !.unknown = u]}
<1> DEFINE W(j) == [m EXCEPT !.unknown = First(u, j)]
           D(j) == Decode(k, a \o First(u, j))
           good == {j \in 0 .. Len(u) : D(j) = {W(j)}}
<1>1. u \in Seq(TaggedFields)
  BY UnknownTagged
<1>2. Len(u) \in Nat /\ D(0) = Decode(k, a) /\ D(Len(u)) = Decode(k, a \o u)
      /\ W(0) = [m EXCEPT !.unknown = <<>>] /\ W(Len(u)) = [m EXCEPT !.unknown = u]
  <2>1. Len(u) \in Nat /\ First(u, 0) = <<>> /\ First(u, Len(u)) = u
    BY FirstGrows
  <2>2. a \o First(u, 0) = a /\ a \o First(u, Len(u)) = a \o u
    BY <1>1, ConcatGrows
  <2> QED BY <2>1, <2>2
<1>3. W(0) = m
  BY <1>2 DEF Owned, OfKind, Requests, Responses
<1>4. ASSUME NEW j \in 1 .. Len(u)
      PROVE  /\ D(j) = Merged(k, D(j - 1), u[j])
             /\ Merge(k, W(j - 1), u[j]) = {W(j)}
  <2>1. First(u, j) = Append(First(u, j - 1), u[j]) /\ u[j] \in UnknownTo(k)
    BY FirstGrows
  <2>2. /\ a \o First(u, j) = Append(a \o First(u, j - 1), u[j])
        /\ a \o First(u, j - 1) \in Seq(TaggedFields)
    BY <1>1, ConcatGrows
  <2>3. u[j] \in TaggedFields
    BY <2>1, UnknownTagged
  <2>4. D(j) = Merged(k, D(j - 1), u[j])
    <3> DEFINE b == a \o First(u, j - 1)
               f == u[j]
    <3>1. b \in Seq(TaggedFields) /\ f \in TaggedFields
      BY <2>2, <2>3
    <3> HIDE DEF b, f
    <3>2. Decode(k, Append(b, f)) = Merged(k, Decode(k, b), f)
      BY <3>1, DecodeAppend
    <3> QED BY <2>2, <3>2 DEF b, f
  <2>5. Merge(k, W(j - 1), u[j]) = {[W(j - 1) EXCEPT !.unknown = Append(@, u[j])]}
    <3> HIDE DEF W
    <3>1. u[j].number \in Nat
      BY <2>1 DEF UnknownTo, Fields
    <3>2. CASE k = "request"
      BY <2>1, <3>1, <3>2 DEF UnknownTo, OfKind, Merge, RequestMerge
    <3>3. CASE k # "request"
      <4>1. u[j].number \notin {1, 2, 3}
        BY <2>1, <3>1, <3>3 DEF UnknownTo, OfKind
      <4> QED BY <3>3, <4>1 DEF OfKind, Merge, ResponseMerge
    <3> QED BY <3>2, <3>3
  <2>6. [W(j - 1) EXCEPT !.unknown = Append(@, u[j])] = W(j)
    BY <2>1 DEF Owned, OfKind, Requests, Responses
  <2> QED BY <2>4, <2>5, <2>6
<1> HIDE DEF D, W
<1>5. 0 \in good
  BY <1>2, <1>3
<1>6. \A j \in 1 .. Len(u) : j - 1 \in good => j \in good
  <2> SUFFICES ASSUME NEW j \in 1 .. Len(u), D(j - 1) = {W(j - 1)} PROVE D(j) = {W(j)}
    BY <1>2
  <2>1. D(j) = Merged(k, {W(j - 1)}, u[j]) /\ Merge(k, W(j - 1), u[j]) = {W(j)}
    BY <1>4
  <2> QED BY <2>1, MergedOne
<1>7. Len(u) \in good
  <2> HIDE DEF good
  <2> QED BY <1>2, <1>5, <1>6, Climb
<1> QED BY <1>2, <1>7

LEMMA Single ==
    /\ \A v \in Nat, n \in {1, 3} :
          /\ WriteUint64(n, v) \in Seq(TaggedFields)
          /\ BytesOf(WriteUint64(n, v)) = Uint64Size(v)
    /\ \A s \in Strings :
          /\ WriteString(2, s) \in Seq(TaggedFields)
          /\ BytesOf(WriteString(2, s)) = StringSize(s)
<1>1. ASSUME NEW f \in Fields
      PROVE  BytesOf(<<f>>) = FieldLen(f)
  <2>1. BytesOf(Append(<<>>, f)) = BytesOf(<<>>) + FieldLen(f)
    <3>1. <<>> \in Seq(Fields)
      OBVIOUS
    <3> QED BY <3>1, BytesAppend
  <2>2. Append(<<>>, f) = <<f>>
    OBVIOUS
  <2> QED BY <2>1, <2>2, BytesEmpty, FieldLens
<1>2. VarintLen[8] = 1 /\ VarintLen[16] = 1 /\ VarintLen[24] = 1
  BY VarintLengths
<1>3. ASSUME NEW v \in Nat, NEW n \in {1, 3}
      PROVE  /\ WriteUint64(n, v) \in Seq(TaggedFields)
             /\ BytesOf(WriteUint64(n, v)) = Uint64Size(v)
  <2> DEFINE f == Field(n, "varint", v)
  <2>1. f \in TaggedFields /\ f \in Fields /\ FieldLen(f) = 1 + VarintLen[v]
    BY <1>2 DEF Field, Fields, TaggedFields, Tagged, FieldLen
  <2> HIDE DEF f
  <2>2. WriteUint64(n, v) = IF v = 0 THEN <<>> ELSE <<f>>
    BY DEF WriteUint64, f
  <2> QED BY <1>1, <2>1, <2>2, BytesEmpty DEF Uint64Size
<1>4. ASSUME NEW s \in Strings
      PROVE  /\ WriteString(2, s) \in Seq(TaggedFields)
             /\ BytesOf(WriteString(2, s)) = StringSize(s)
  <2> DEFINE f == Field(2, "len", s)
  <2>1. f \in TaggedFields /\ f \in Fields /\ FieldLen(f) = 1 + StringLen(s)
    BY <1>2 DEF Field, Fields, TaggedFields, Tagged, FieldLen, Strings
  <2> HIDE DEF f
  <2>2. WriteString(2, s) = IF s = <<>> THEN <<>> ELSE <<f>>
    BY DEF WriteString, f
  <2>3. <<>> \in Seq(TaggedFields) /\ <<f>> \in Seq(TaggedFields)
    BY <2>1
  <2>4. BytesOf(<<f>>) = 1 + StringLen(s)
    BY <1>1, <2>1
  <2> QED BY <2>2, <2>3, <2>4, BytesEmpty DEF StringSize
<1> QED BY <1>3, <1>4

LEMMA WrittenTagged ==
    ASSUME NEW k, NEW m \in Owned(k)
    PROVE  WriteTo(k, m) \in Seq(TaggedFields)
<1>1. m.unknown \in Seq(TaggedFields)
  BY OwnedUnknown
<1>2. CASE k = "request"
  <2>1. m.account_id \in Nat
    BY <1>2 DEF Owned, OfKind, Requests
  <2> QED BY <1>1, <1>2, <2>1, Single, ConcatProperties DEF WriteTo, OfKind, RequestWriteTo
<1>3. CASE k # "request"
  <2>1. m.account_id \in Nat /\ m.name \in Strings /\ m.balance \in Nat
    BY <1>3 DEF Owned, OfKind, Responses
  <2> QED BY <1>1, <1>3, <2>1, Single, ConcatProperties DEF WriteTo, OfKind, ResponseWriteTo
<1> QED BY <1>2, <1>3

\* compute_size and write_to agree, at the width of a u32.
LEMMA SizeOfWritten ==
    ASSUME NEW k, NEW m \in Owned(k)
    PROVE  BytesOf(WriteTo(k, m)) \in Nat /\ SizeOf(k, m) = BytesOf(WriteTo(k, m)) % (MaxU32 + 1)
<1>1. m.unknown \in Seq(Fields)
  BY OwnedUnknown, TaggedSeq
<1>2. \A s \in Seq(TaggedFields) : s \in Seq(Fields)
  BY TaggedSeq
<1>3. WriteTo(k, m) \in Seq(Fields)
  BY <1>2, WrittenTagged
<1>4. CASE k = "request"
  <2> DEFINE a == WriteUint64(1, m.account_id)
  <2>1. a \in Seq(Fields) /\ BytesOf(a) = Uint64Size(m.account_id)
    <3>1. m.account_id \in Nat
      BY <1>4 DEF Owned, OfKind, Requests
    <3> QED BY <1>2, <3>1, Single
  <2>2. WriteTo(k, m) = a \o m.unknown
    BY <1>4 DEF WriteTo, OfKind, RequestWriteTo
  <2> HIDE DEF a
  <2>3. BytesOf(a \o m.unknown) = BytesOf(a) + BytesOf(m.unknown)
    BY <1>1, <2>1, BytesConcat
  <2> QED BY <1>3, <1>4, <2>1, <2>2, <2>3, BytesConcat DEF SizeOf, OfKind, RequestSize
<1>5. CASE k # "request"
  <2> DEFINE a == WriteUint64(1, m.account_id)
             b == WriteString(2, m.name)
             c == WriteUint64(3, m.balance)
  <2>1. /\ a \in Seq(Fields) /\ BytesOf(a) = Uint64Size(m.account_id)
        /\ b \in Seq(Fields) /\ BytesOf(b) = StringSize(m.name)
        /\ c \in Seq(Fields) /\ BytesOf(c) = Uint64Size(m.balance)
    <3>1. m.account_id \in Nat /\ m.name \in Strings /\ m.balance \in Nat
      BY <1>5 DEF Owned, OfKind, Responses
    <3> QED BY <1>2, <3>1, Single
  <2>2. WriteTo(k, m) = ((a \o b) \o c) \o m.unknown
    BY <1>5 DEF WriteTo, OfKind, ResponseWriteTo
  <2> HIDE DEF a, b, c
  <2>3. a \o b \in Seq(Fields) /\ (a \o b) \o c \in Seq(Fields)
    BY <2>1, ConcatProperties
  <2>4. /\ BytesOf(a \o b) = BytesOf(a) + BytesOf(b)
        /\ BytesOf((a \o b) \o c) = BytesOf(a \o b) + BytesOf(c)
        /\ BytesOf(((a \o b) \o c) \o m.unknown) = BytesOf((a \o b) \o c) + BytesOf(m.unknown)
    BY <1>1, <2>1, <2>3, BytesConcat
  <2> QED BY <1>3, <1>5, <2>1, <2>2, <2>4, BytesConcat DEF SizeOf, OfKind, ResponseSize
<1> QED BY <1>4, <1>5

LEMMA OneMore ==
    ASSUME NEW k, NEW a \in Seq(TaggedFields), NEW m, Decode(k, a) = {m}, NEW f \in TaggedFields
    PROVE  a \o <<f>> \in Seq(TaggedFields) /\ Decode(k, a \o <<f>>) = Merge(k, m, f)
<1>1. Append(a, f) = a \o <<f>> /\ Append(a, f) \in Seq(TaggedFields)
  BY AppendIsConcat, AppendProperties
<1>2. Decode(k, Append(a, f)) = Merged(k, Decode(k, a), f)
  BY DecodeAppend
<1> QED BY <1>1, <1>2, MergedOne

\* write_to and merge: what a message is written as decodes to that message.
LEMMA RoundTrip ==
    ASSUME NEW k, NEW m \in Owned(k)
    PROVE  Decode(k, WriteTo(k, m)) = {m}
<1>1. m.unknown \in Seq(UnknownTo(k))
  BY OwnedUnknown
<1>2. <<>> \in Seq(TaggedFields) /\ Decode(k, <<>>) = {Default(k)} /\ Default(k) \in Owned(k)
  BY DecodeEmpty, DefaultOwned
<1>3. \A s \in Seq(TaggedFields) : s \o <<>> = s /\ <<>> \o s = s
  OBVIOUS
<1>4. CASE k = "request"
  <2> DEFINE a == WriteUint64(1, m.account_id)
             m1 == [account_id |-> m.account_id, unknown |-> <<>>]
             f1 == Field(1, "varint", m.account_id)
  <2>1. m.account_id \in Nat /\ m = [account_id |-> m.account_id, unknown |-> m.unknown]
    BY <1>4 DEF Owned, OfKind, Requests
  <2>2. a \in Seq(TaggedFields) /\ Decode(k, a) = {m1}
    <3>1. CASE m.account_id = 0
      <4>1. a = <<>> /\ m1 = Default(k)
        BY <1>4, <3>1 DEF WriteUint64, Request, Default, OfKind
      <4> QED BY <1>2, <4>1
    <3>2. CASE m.account_id # 0
      <4>1. f1 \in TaggedFields
        BY <2>1 DEF Field, TaggedFields, Fields, Tagged
      <4>2. a = <<f1>>
        BY <3>2 DEF WriteUint64
      <4>3. Merge(k, Default(k), f1) = {m1}
        <5>1. [Request EXCEPT !.account_id = m.account_id] = m1
          BY DEF Request
        <5> QED BY <1>4, <5>1 DEF Merge, OfKind, RequestMerge, Default, Uint64, Field
      <4> HIDE DEF f1, m1, a
      <4>4. <<f1>> \in Seq(TaggedFields) /\ Decode(k, <<f1>>) = Merge(k, Default(k), f1)
        BY <4>1, FirstField
      <4> QED BY <4>2, <4>3, <4>4
    <3> QED BY <3>1, <3>2
  <2>3. m1 \in Owned(k) /\ m1.unknown = <<>> /\ [m1 EXCEPT !.unknown = m.unknown] = m
    <3>1. m1 \in Requests
      BY <2>1 DEF Requests
    <3>2. [m1 EXCEPT !.unknown = m.unknown] = [account_id |-> m.account_id, unknown |-> m.unknown]
      OBVIOUS
    <3> QED BY <1>4, <2>1, <3>1, <3>2 DEF Owned, OfKind
  <2>4. WriteTo(k, m) = a \o m.unknown
    BY <1>4 DEF WriteTo, OfKind, RequestWriteTo
  <2> DEFINE u == m.unknown
  <2> HIDE DEF a, m1, u
  <2>5. Decode(k, a \o u) = {[m1 EXCEPT !.unknown = u]}
    <3>1. u \in Seq(UnknownTo(k))
      BY <1>1 DEF u
    <3> QED BY <2>2, <2>3, <3>1, UnknownKept
  <2> QED BY <2>3, <2>4, <2>5 DEF u
<1>5. CASE k # "request"
  <2> DEFINE a == WriteUint64(1, m.account_id)
             b == WriteString(2, m.name)
             c == WriteUint64(3, m.balance)
             Partly(name, balance) == [account_id |-> m.account_id, name |-> name,
                                       balance |-> balance, unknown |-> <<>>]
             m1 == Partly(<<>>, 0)
             m2 == Partly(m.name, 0)
             m3 == Partly(m.name, m.balance)
             f1 == Field(1, "varint", m.account_id)
             f2 == Field(2, "len", m.name)
             f3 == Field(3, "varint", m.balance)
  <2>1. /\ m.account_id \in Nat /\ m.name \in Strings /\ m.balance \in Nat
        /\ m = [account_id |-> m.account_id, name |-> m.name, balance |-> m.balance,
                unknown |-> m.unknown]
    BY <1>5 DEF Owned, OfKind, Responses
  <2>2. f1 \in TaggedFields /\ f2 \in TaggedFields /\ f3 \in TaggedFields
    BY <2>1 DEF Field, TaggedFields, Fields, Tagged, Strings
  <2>3. a \in Seq(TaggedFields) /\ Decode(k, a) = {m1}
    <3>1. CASE m.account_id = 0
      <4>1. a = <<>> /\ m1 = Default(k)
        BY <1>5, <3>1 DEF WriteUint64, Response, Default, OfKind
      <4> QED BY <1>2, <4>1
    <3>2. CASE m.account_id # 0
      <4>1. a = <<f1>>
        BY <3>2 DEF WriteUint64
      <4>2. Merge(k, Default(k), f1) = {m1}
        <5>1. [Response EXCEPT !.account_id = m.account_id] = m1
          BY DEF Response
        <5> QED BY <1>5, <5>1 DEF Merge, OfKind, ResponseMerge, Default, Uint64, Field
      <4> HIDE DEF f1, f2, f3, m1, a
      <4>3. <<f1>> \in Seq(TaggedFields) /\ Decode(k, <<f1>>) = Merge(k, Default(k), f1)
        BY <2>2, FirstField
      <4> QED BY <4>1, <4>2, <4>3
    <3> QED BY <3>1, <3>2
  <2>4. a \o b \in Seq(TaggedFields) /\ Decode(k, a \o b) = {m2}
    <3>1. CASE m.name = <<>>
      <4>1. b = <<>> /\ m2 = m1
        BY <3>1 DEF WriteString
      <4> HIDE DEF a, b, m1, m2
      <4> QED BY <1>3, <2>3, <4>1
    <3>2. CASE m.name # <<>>
      <4>1. b = <<f2>>
        BY <3>2 DEF WriteString
      <4>2. Merge(k, m1, f2) = {m2}
        <5>1. [m1 EXCEPT !.name = m.name] = m2
          OBVIOUS
        <5>2. String(f2) = {m.name} /\ f2.number = 2
          BY <2>1 DEF String, Strings, Field
        <5> HIDE DEF f2, m1, m2
        <5> QED BY <1>5, <5>1, <5>2 DEF Merge, OfKind, ResponseMerge
      <4> HIDE DEF f2, m1, m2, a, b
      <4> QED BY <2>2, <2>3, <4>1, <4>2, OneMore
    <3> QED BY <3>1, <3>2
  <2>5. (a \o b) \o c \in Seq(TaggedFields) /\ Decode(k, (a \o b) \o c) = {m3}
    <3>1. CASE m.balance = 0
      <4>1. c = <<>> /\ m3 = m2
        BY <3>1 DEF WriteUint64
      <4> HIDE DEF a, b, c, m2, m3
      <4> QED BY <1>3, <2>4, <4>1
    <3>2. CASE m.balance # 0
      <4>1. c = <<f3>>
        BY <3>2 DEF WriteUint64
      <4>2. Merge(k, m2, f3) = {m3}
        <5>1. [m2 EXCEPT !.balance = m.balance] = m3
          OBVIOUS
        <5>2. Uint64(f3) = {m.balance} /\ f3.number = 3
          BY DEF Uint64, Field
        <5> HIDE DEF f3, m2, m3
        <5> QED BY <1>5, <5>1, <5>2 DEF Merge, OfKind, ResponseMerge
      <4> DEFINE ab == a \o b
      <4>3. ab \in Seq(TaggedFields) /\ Decode(k, ab) = {m2} /\ f3 \in TaggedFields
        BY <2>2, <2>4
      <4> HIDE DEF f3, m2, m3, c, ab
      <4>4. ab \o <<f3>> \in Seq(TaggedFields) /\ Decode(k, ab \o <<f3>>) = Merge(k, m2, f3)
        BY <4>3, OneMore
      <4> QED BY <4>1, <4>2, <4>4 DEF ab
    <3> QED BY <3>1, <3>2
  <2>6. m3 \in Owned(k) /\ m3.unknown = <<>> /\ [m3 EXCEPT !.unknown = m.unknown] = m
    <3>1. m3 \in Responses
      BY <2>1 DEF Responses
    <3>2. [m3 EXCEPT !.unknown = m.unknown]
            = [account_id |-> m.account_id, name |-> m.name, balance |-> m.balance,
               unknown |-> m.unknown]
      OBVIOUS
    <3> QED BY <1>5, <2>1, <3>1, <3>2 DEF Owned, OfKind
  <2>7. WriteTo(k, m) = ((a \o b) \o c) \o m.unknown
    BY <1>5 DEF WriteTo, OfKind, ResponseWriteTo
  <2> DEFINE abc == (a \o b) \o c
  <2>8. abc \in Seq(TaggedFields) /\ Decode(k, abc) = {m3} /\ WriteTo(k, m) = abc \o m.unknown
    BY <2>5, <2>7
  <2> DEFINE u == m.unknown
  <2> HIDE DEF m3, abc, u
  <2>9. Decode(k, abc \o u) = {[m3 EXCEPT !.unknown = u]}
    <3>1. u \in Seq(UnknownTo(k)) /\ m3 \in Owned(k) /\ m3.unknown = <<>>
      BY <1>1, <2>6 DEF u
    <3>2. abc \in Seq(TaggedFields) /\ Decode(k, abc) = {m3}
      BY <2>8
    <3> QED BY <3>1, <3>2, UnknownKept
  <2> QED BY <2>6, <2>8, <2>9 DEF u
<1> QED BY <1>4, <1>5

\* An error is kept: a decoder that got through had no error before.
LEMMA NoErrorBefore ==
    ASSUME NEW k, NEW s \in Seq(TaggedFields), Decode(k, s) # {}, NEW j \in 0 .. Len(s)
    PROVE  Decode(k, First(s, j)) # {}
<1> SUFFICES ASSUME Decode(k, First(s, j)) = {} PROVE FALSE
  OBVIOUS
<1> DEFINE D(i) == Decode(k, First(s, i))
           n == Len(s) - j
           good == {i \in 0 .. n : D(j + i) = {}}
<1>1. Len(s) \in Nat /\ n \in Nat /\ j + 0 = j /\ j + n = Len(s)
  BY FirstGrows
<1>2. 0 \in good
  BY <1>1
<1>3. ASSUME NEW i \in 1 .. n, i - 1 \in good
      PROVE  i \in good
  <2>1. j + i \in 1 .. Len(s) /\ (j + i) - 1 = j + (i - 1)
    BY <1>1
  <2>2. /\ First(s, j + i) = Append(First(s, (j + i) - 1), s[j + i]) /\ s[j + i] \in TaggedFields
        /\ First(s, (j + i) - 1) \in Seq(TaggedFields)
    BY <2>1, FirstGrows
  <2>3. D(j + i) = Merged(k, D((j + i) - 1), s[j + i])
    <3> DEFINE a == First(s, (j + i) - 1)
               f == s[j + i]
    <3>1. a \in Seq(TaggedFields) /\ f \in TaggedFields
      BY <2>2
    <3> HIDE DEF a, f
    <3>2. Decode(k, Append(a, f)) = Merged(k, Decode(k, a), f)
      BY <3>1, DecodeAppend
    <3> QED BY <2>2, <3>2 DEF a, f
  <2>4. D((j + i) - 1) = {}
    BY <1>3, <2>1
  <2> QED BY <2>3, <2>4 DEF Merged
<1>4. n \in good
  <2> HIDE DEF n, good
  <2> QED BY <1>1, <1>2, <1>3, Climb
<1> QED BY <1>1, <1>4, FirstGrows

-----------------------------------------------------------------------------
(* The two decoders next to each other *)

\* The indices below which a view borrows: of unknown fields, of names.
KeptAt(n) == {i \in 1 .. n : payload[i] \in UnknownTo(kind)}
NamesAt(n) == {i \in 1 .. n : payload[i].wire = "len" /\ payload[i].val \in Strings}

RequestViews(n) == [account_id : Nat, spans : Seq(KeptAt(n))]
ResponseViews(n) == [account_id : Nat, name : {<<>>} \cup {<<i>> : i \in NamesAt(n)},
                     balance : Nat, spans : Seq(KeptAt(n))]
Views(n) == OfKind(kind, RequestViews(n), ResponseViews(n))

LEMMA BorrowedKept ==
    ASSUME NEW n \in Nat, NEW spans \in Seq(KeptAt(n))
    PROVE  /\ Borrowed(payload, spans) \in Seq(UnknownTo(kind))
           /\ \A i \in Nat : Borrowed(payload, Append(spans, i))
                              = Append(Borrowed(payload, spans), payload[i])
<1> DEFINE b == Borrowed(payload, spans)
<1>1. Len(spans) \in Nat /\ DOMAIN spans = 1 .. Len(spans)
      /\ \A j \in 1 .. Len(spans) : payload[spans[j]] \in UnknownTo(kind)
  BY DEF KeptAt
<1>2. b = [j \in 1 .. Len(spans) |-> payload[spans[j]]]
  BY <1>1 DEF Borrowed
<1>3. b \in Seq(UnknownTo(kind)) /\ Len(b) = Len(spans)
  BY <1>1, <1>2
<1>4. ASSUME NEW i \in Nat
      PROVE  Borrowed(payload, Append(spans, i)) = Append(b, payload[i])
  BY <1>1, <1>2, <1>3 DEF Borrowed
<1> QED BY <1>3, <1>4

LEMMA NameOfView ==
    ASSUME NEW n \in Nat, NEW v \in ResponseViews(n)
    PROVE  Name(v, payload) \in Strings
<1>1. <<>> \in Strings
  BY DEF Utf8, Contains, Strings
<1> QED BY <1>1 DEF ResponseViews, NamesAt, Name

LEMMA OwnedOfView ==
    ASSUME NEW n \in Nat, NEW v \in Views(n)
    PROVE  ToOwned(v) \in Owned(kind)
<1>1. CASE kind = "request"
  <2>1. v \in RequestViews(n) /\ v.spans \in Seq(KeptAt(n)) /\ v.account_id \in Nat
    BY <1>1 DEF Views, OfKind, RequestViews
  <2>2. Borrowed(payload, v.spans) \in Seq({f \in Fields : f.number \notin 0 .. 1})
    BY <1>1, <2>1, BorrowedKept DEF UnknownTo, OfKind
  <2> QED BY <1>1, <2>1, <2>2 DEF ToOwned, RequestToOwned, Owned, OfKind, Requests
<1>2. CASE kind # "request"
  <2>1. v \in ResponseViews(n) /\ v.spans \in Seq(KeptAt(n))
        /\ v.account_id \in Nat /\ v.balance \in Nat
    BY <1>2 DEF Views, OfKind, ResponseViews
  <2>2. Borrowed(payload, v.spans) \in Seq({f \in Fields : f.number \notin 0 .. 3})
    BY <1>2, <2>1, BorrowedKept DEF UnknownTo, OfKind
  <2>3. Name(v, payload) \in Strings
    BY <2>1, NameOfView
  <2> QED BY <1>2, <2>1, <2>2, <2>3 DEF ToOwned, ResponseToOwned, Owned, OfKind, Responses
<1> QED BY <1>1, <1>2

LEMMA MoreViews ==
    ASSUME NEW n \in Nat
    PROVE  Views(n) \subseteq Views(n + 1)
<1>1. KeptAt(n) \subseteq KeptAt(n + 1) /\ NamesAt(n) \subseteq NamesAt(n + 1)
  BY DEF KeptAt, NamesAt
<1>2. Seq(KeptAt(n)) \subseteq Seq(KeptAt(n + 1))
  BY <1>1
<1>3. {<<i>> : i \in NamesAt(n)} \subseteq {<<i>> : i \in NamesAt(n + 1)}
  BY <1>1
<1>4. RequestViews(n) \subseteq RequestViews(n + 1)
  BY <1>2 DEF RequestViews
<1>5. ResponseViews(n) \subseteq ResponseViews(n + 1)
  BY <1>2, <1>3 DEF ResponseViews
<1> QED BY <1>4, <1>5 DEF Views, OfKind

\* A view and what it stands for, after one more field.
Together(ms, vs, n) ==
    \/ ms = {} /\ vs = {}
    \/ \E v \in Views(n) : vs = {v} /\ ms = {ToOwned(v)}

\* One field: the view's decoder does in place what the owned type's does.
LEMMA MergeTogether ==
    ASSUME NEW n \in Nat, NEW v \in Views(n), payload[n + 1] \in TaggedFields
    PROVE  Together(Merge(kind, ToOwned(v), payload[n + 1]), MergeView(v, n + 1), n + 1)
<1> DEFINE f == payload[n + 1]
           o == ToOwned(v)
<1> SUFFICES Together(Merge(kind, o, f), MergeView(v, n + 1), n + 1)
  OBVIOUS
<1>1. f \in Fields /\ f.number \in Nat /\ f.number # 0
  BY DEF TaggedFields, Fields, Tagged
<1>2. v \in Views(n + 1)
  BY MoreViews
<1>3. Uint64(f) \subseteq Nat /\ (Uint64(f) = {} \/ \E x \in Nat : Uint64(f) = {x})
  BY <1>1 DEF Uint64, Fields
<1>4. \/ String(f) = {}
      \/ String(f) = {f.val} /\ n + 1 \in NamesAt(n + 1)
  BY <1>1 DEF String, Fields, Strings, NamesAt
<1>5. f \in UnknownTo(kind) => n + 1 \in KeptAt(n + 1)
  BY DEF KeptAt
<1>6. CASE kind = "request"
  <2>1. v \in RequestViews(n + 1) /\ v.spans \in Seq(KeptAt(n))
        /\ o = [account_id |-> v.account_id, unknown |-> Borrowed(payload, v.spans)]
    BY <1>2, <1>6 DEF Views, OfKind, RequestViews, ToOwned, RequestToOwned
  <2>2. CASE f.number = 1
    <3>1. /\ Merge(kind, o, f) = {[o EXCEPT !.account_id = x] : x \in Uint64(f)}
          /\ MergeView(v, n + 1) = {[v EXCEPT !.account_id = x] : x \in Uint64(f)}
      BY <1>6, <2>2 DEF Merge, MergeView, OfKind, RequestMerge, RequestMergeView
    <3>2. ASSUME NEW x \in Nat
          PROVE  /\ [v EXCEPT !.account_id = x] \in Views(n + 1)
                 /\ ToOwned([v EXCEPT !.account_id = x]) = [o EXCEPT !.account_id = x]
      BY <1>6, <2>1 DEF RequestViews, Views, OfKind, ToOwned, RequestToOwned
    <3> HIDE DEF f, o
    <3>3. CASE Uint64(f) = {}
      BY <3>1, <3>3 DEF Together
    <3>4. CASE \E x \in Nat : Uint64(f) = {x}
      <4> PICK x \in Nat : Uint64(f) = {x}
        BY <3>4
      <4> DEFINE w == [v EXCEPT !.account_id = x]
                 m == [o EXCEPT !.account_id = x]
      <4>1. w \in Views(n + 1) /\ ToOwned(w) = m
        BY <3>2
      <4>2. Merge(kind, o, f) = {m} /\ MergeView(v, n + 1) = {w}
        BY <3>1
      <4> HIDE DEF w, m
      <4> QED BY <4>1, <4>2 DEF Together
    <3> QED BY <1>3, <3>3, <3>4
  <2>3. CASE f.number # 1
    <3>1. /\ Merge(kind, o, f) = {[o EXCEPT !.unknown = Append(@, f)]}
          /\ MergeView(v, n + 1) = {[v EXCEPT !.spans = Append(@, n + 1)]}
      BY <1>6, <2>3 DEF Merge, MergeView, OfKind, RequestMerge, RequestMergeView
    <3>2. f \in UnknownTo(kind)
      BY <1>1, <1>6, <2>3 DEF UnknownTo, OfKind
    <3>3. Append(v.spans, n + 1) \in Seq(KeptAt(n + 1))
      BY <1>5, <2>1, <3>2, AppendProperties DEF RequestViews
    <3>4. Borrowed(payload, Append(v.spans, n + 1)) = Append(Borrowed(payload, v.spans), f)
      BY <2>1, BorrowedKept
    <3>5. /\ [v EXCEPT !.spans = Append(@, n + 1)] \in Views(n + 1)
          /\ ToOwned([v EXCEPT !.spans = Append(@, n + 1)]) = [o EXCEPT !.unknown = Append(@, f)]
      <4> DEFINE w == [v EXCEPT !.spans = Append(@, n + 1)]
      <4>0. v = [account_id |-> v.account_id, spans |-> v.spans]
        BY <2>1 DEF RequestViews
      <4>1. w = [account_id |-> v.account_id, spans |-> Append(v.spans, n + 1)]
        <5> DEFINE grown == Append(v.spans, n + 1)
        <5>1. w = [v EXCEPT !.spans = grown]
          OBVIOUS
        <5> HIDE DEF grown, w
        <5>2. w = [account_id |-> v.account_id, spans |-> grown]
          BY <4>0, <5>1
        <5> QED BY <5>2 DEF grown
      <4>2. v.account_id \in Nat
        BY <2>1 DEF RequestViews
      <4> HIDE DEF w
      <4>3. w \in RequestViews(n + 1)
        BY <3>3, <4>1, <4>2 DEF RequestViews
      <4>4. ToOwned(w) = [account_id |-> v.account_id,
                          unknown |-> Append(Borrowed(payload, v.spans), f)]
        BY <1>6, <3>4, <4>1 DEF ToOwned, OfKind, RequestToOwned
      <4>5. ToOwned(w) = [o EXCEPT !.unknown = Append(@, f)]
        <5> DEFINE kept == Borrowed(payload, v.spans)
        <5>1. o = [account_id |-> v.account_id, unknown |-> kept]
          BY <2>1
        <5> HIDE DEF o, f, kept
        <5>2. [o EXCEPT !.unknown = Append(@, f)]
                = [account_id |-> v.account_id, unknown |-> Append(kept, f)]
          BY <5>1
        <5> QED BY <4>4, <5>2 DEF kept
      <4> QED BY <1>6, <4>3, <4>5 DEF Views, OfKind, w
    <3> QED BY <3>1, <3>5 DEF Together
  <2> QED BY <2>2, <2>3
<1>7. CASE kind # "request"
  <2>1. v \in ResponseViews(n + 1) /\ v.spans \in Seq(KeptAt(n))
        /\ o = [account_id |-> v.account_id, name |-> Name(v, payload), balance |-> v.balance,
                unknown |-> Borrowed(payload, v.spans)]
    BY <1>2, <1>7 DEF Views, OfKind, ResponseViews, ToOwned, ResponseToOwned
  <2>2. CASE f.number = 1
    <3>1. /\ Merge(kind, o, f) = {[o EXCEPT !.account_id = x] : x \in Uint64(f)}
          /\ MergeView(v, n + 1) = {[v EXCEPT !.account_id = x] : x \in Uint64(f)}
      BY <1>7, <2>2 DEF Merge, MergeView, OfKind, ResponseMerge, ResponseMergeView
    <3>2. ASSUME NEW x \in Nat
          PROVE  /\ [v EXCEPT !.account_id = x] \in Views(n + 1)
                 /\ ToOwned([v EXCEPT !.account_id = x]) = [o EXCEPT !.account_id = x]
      BY <1>7, <2>1 DEF ResponseViews, Views, OfKind, ToOwned, ResponseToOwned, Name
    <3> HIDE DEF f, o
    <3>3. CASE Uint64(f) = {}
      BY <3>1, <3>3 DEF Together
    <3>4. CASE \E x \in Nat : Uint64(f) = {x}
      <4> PICK x \in Nat : Uint64(f) = {x}
        BY <3>4
      <4> DEFINE w == [v EXCEPT !.account_id = x]
                 m == [o EXCEPT !.account_id = x]
      <4>1. w \in Views(n + 1) /\ ToOwned(w) = m
        BY <3>2
      <4>2. Merge(kind, o, f) = {m} /\ MergeView(v, n + 1) = {w}
        BY <3>1
      <4> HIDE DEF w, m
      <4> QED BY <4>1, <4>2 DEF Together
    <3> QED BY <1>3, <3>3, <3>4
  <2>3. CASE f.number = 2
    <3>1. /\ Merge(kind, o, f) = {[o EXCEPT !.name = s] : s \in String(f)}
          /\ MergeView(v, n + 1) = {[v EXCEPT !.name = <<n + 1>>] : s \in String(f)}
      BY <1>7, <2>3 DEF Merge, MergeView, OfKind, ResponseMerge, ResponseMergeView
    <3>2. ASSUME n + 1 \in NamesAt(n + 1)
          PROVE  /\ [v EXCEPT !.name = <<n + 1>>] \in Views(n + 1)
                 /\ ToOwned([v EXCEPT !.name = <<n + 1>>]) = [o EXCEPT !.name = f.val]
      BY <1>7, <2>1, <3>2 DEF ResponseViews, Views, OfKind, ToOwned, ResponseToOwned, Name
    <3> HIDE DEF f, o
    <3> QED BY <1>4, <3>1, <3>2 DEF Together
  <2>4. CASE f.number = 3
    <3>1. /\ Merge(kind, o, f) = {[o EXCEPT !.balance = x] : x \in Uint64(f)}
          /\ MergeView(v, n + 1) = {[v EXCEPT !.balance = x] : x \in Uint64(f)}
      BY <1>7, <2>4 DEF Merge, MergeView, OfKind, ResponseMerge, ResponseMergeView
    <3>2. ASSUME NEW x \in Nat
          PROVE  /\ [v EXCEPT !.balance = x] \in Views(n + 1)
                 /\ ToOwned([v EXCEPT !.balance = x]) = [o EXCEPT !.balance = x]
      BY <1>7, <2>1 DEF ResponseViews, Views, OfKind, ToOwned, ResponseToOwned, Name
    <3> HIDE DEF f, o
    <3>3. CASE Uint64(f) = {}
      BY <3>1, <3>3 DEF Together
    <3>4. CASE \E x \in Nat : Uint64(f) = {x}
      <4> PICK x \in Nat : Uint64(f) = {x}
        BY <3>4
      <4> DEFINE w == [v EXCEPT !.balance = x]
                 m == [o EXCEPT !.balance = x]
      <4>1. w \in Views(n + 1) /\ ToOwned(w) = m
        BY <3>2
      <4>2. Merge(kind, o, f) = {m} /\ MergeView(v, n + 1) = {w}
        BY <3>1
      <4> HIDE DEF w, m
      <4> QED BY <4>1, <4>2 DEF Together
    <3> QED BY <1>3, <3>3, <3>4
  <2>5. CASE f.number \notin 1 .. 3
    <3>1. /\ Merge(kind, o, f) = {[o EXCEPT !.unknown = Append(@, f)]}
          /\ MergeView(v, n + 1) = {[v EXCEPT !.spans = Append(@, n + 1)]}
      BY <1>7, <2>5 DEF Merge, MergeView, OfKind, ResponseMerge, ResponseMergeView
    <3>2. f \in UnknownTo(kind)
      BY <1>1, <1>7, <2>5 DEF UnknownTo, OfKind
    <3>3. Append(v.spans, n + 1) \in Seq(KeptAt(n + 1))
      BY <1>5, <2>1, <3>2, AppendProperties DEF ResponseViews
    <3>4. Borrowed(payload, Append(v.spans, n + 1)) = Append(Borrowed(payload, v.spans), f)
      BY <2>1, BorrowedKept
    <3>5. /\ [v EXCEPT !.spans = Append(@, n + 1)] \in Views(n + 1)
          /\ ToOwned([v EXCEPT !.spans = Append(@, n + 1)]) = [o EXCEPT !.unknown = Append(@, f)]
      <4> DEFINE w == [v EXCEPT !.spans = Append(@, n + 1)]
      <4>0. v = [account_id |-> v.account_id, name |-> v.name, balance |-> v.balance,
                 spans |-> v.spans]
        BY <2>1 DEF ResponseViews
      <4>1. w = [account_id |-> v.account_id, name |-> v.name, balance |-> v.balance,
                 spans |-> Append(v.spans, n + 1)]
        <5> DEFINE grown == Append(v.spans, n + 1)
        <5>1. w = [v EXCEPT !.spans = grown]
          OBVIOUS
        <5> HIDE DEF grown, w
        <5>2. w = [account_id |-> v.account_id, name |-> v.name, balance |-> v.balance,
                   spans |-> grown]
          BY <4>0, <5>1
        <5> QED BY <5>2 DEF grown
      <4>2. v.account_id \in Nat /\ v.balance \in Nat
            /\ v.name \in {<<>>} \cup {<<i>> : i \in NamesAt(n + 1)}
        BY <2>1 DEF ResponseViews
      <4> HIDE DEF w
      <4>3. w \in ResponseViews(n + 1)
        BY <3>3, <4>1, <4>2 DEF ResponseViews
      <4>4. Name(w, payload) = Name(v, payload)
        BY <4>1 DEF Name
      <4>5. ToOwned(w) = [account_id |-> v.account_id, name |-> Name(v, payload),
                          balance |-> v.balance,
                          unknown |-> Append(Borrowed(payload, v.spans), f)]
        BY <1>7, <3>4, <4>1, <4>4 DEF ToOwned, OfKind, ResponseToOwned
      <4>6. ToOwned(w) = [o EXCEPT !.unknown = Append(@, f)]
        <5> DEFINE kept == Borrowed(payload, v.spans)
                   name == Name(v, payload)
        <5>1. o = [account_id |-> v.account_id, name |-> name, balance |-> v.balance,
                   unknown |-> kept]
          BY <2>1
        <5> DEFINE grown == Append(kept, f)
        <5> HIDE DEF o, f, kept, name, grown
        <5>2. o.unknown = kept
          BY <5>1
        <5>3. [o EXCEPT !.unknown = grown]
                = [account_id |-> v.account_id, name |-> name, balance |-> v.balance,
                   unknown |-> grown]
          BY <5>1
        <5> QED BY <4>5, <5>2, <5>3 DEF grown, kept, name
      <4> QED BY <1>7, <4>3, <4>6 DEF Views, OfKind, w
    <3> QED BY <3>1, <3>5 DEF Together
  <2> QED BY <1>1, <2>2, <2>3, <2>4, <2>5
<1> QED BY <1>6, <1>7

-----------------------------------------------------------------------------
(* ViewAgrees *)

\* Every field of the payload is a field, and the decoders got through the
\* first of them together.
DInv ==
    stage = "decoding" =>
        /\ payload \in Seq(Fields) /\ at \in 0 .. Len(payload)
        /\ Together(owned, view, at)

LEMMA ZeroFields ==
    ASSUME NEW fields \in Seq(Fields), NEW n \in Nat
    PROVE  fields \o [i \in 1 .. n |-> ZeroByte] \in Seq(Fields)
<1>1. ZeroByte \in Fields
  BY DEF ZeroByte, Field, Fields
<1>2. [i \in 1 .. n |-> ZeroByte] \in Seq(Fields)
  BY <1>1
<1> QED BY <1>2, ConcatProperties

\* What is decoded after a message was sent is what was written.
LEMMA FillWritten ==
    ASSUME NEW k \in Kinds, NEW m \in Messages[k],
           BytesOf(WriteTo(k, m)) <= SizeOf(k, m)
    PROVE  /\ m \in Owned(k)
           /\ Fill(WriteTo(k, m), SizeOf(k, m)) = WriteTo(k, m)
           /\ BytesOf(WriteTo(k, m)) <= MaxU32
<1>1. m \in Owned(k)
  BY PayloadsAssumption DEF Owned
<1>2. BytesOf(WriteTo(k, m)) \in Nat /\ SizeOf(k, m) = BytesOf(WriteTo(k, m)) % (MaxU32 + 1)
  BY <1>1, SizeOfWritten
<1>3. SizeOf(k, m) \in 0 .. MaxU32 /\ SizeOf(k, m) = BytesOf(WriteTo(k, m))
  BY <1>2, WidthAssumption
<1>4. WriteTo(k, m) \in Seq(Fields)
  BY <1>1, WrittenTagged, TaggedSeq
<1>5. [i \in 1 .. 0 |-> ZeroByte] = <<>>
  OBVIOUS
<1>6. Fill(WriteTo(k, m), SizeOf(k, m)) = WriteTo(k, m) \o <<>>
  <2>1. SizeOf(k, m) - BytesOf(WriteTo(k, m)) = 0
    BY <1>2, <1>3
  <2> QED BY <1>5, <2>1 DEF Fill
<1>7. WriteTo(k, m) \o <<>> = WriteTo(k, m)
  BY <1>4, ConcatEmptySeq
<1> QED BY <1>1, <1>2, <1>3, <1>6, <1>7

LEMMA ReadStarts ==
    ASSUME NEW k, NEW fields \in Seq(Fields), Read(k, fields)
    PROVE  DInv' /\ owned' = {Default(k)}
<1>1. Len(fields) \in Nat
  OBVIOUS
<1>2. stage' = "decoding" /\ kind' = k /\ payload' = fields /\ at' = 0
      /\ owned' = {Default(k)} /\ view' = {OfKind(k, RequestView, ResponseView)}
  BY DEF Read, Default
<1>3. Borrowed(fields, <<>>) = <<>>
  BY DEF Borrowed
<1>4. CASE k = "request"
  <2>1. RequestView \in Views(0)'
    BY <1>2, <1>4 DEF Views, OfKind, RequestViews, RequestView
  <2>2. ToOwned(RequestView)' = Request
    BY <1>2, <1>3, <1>4 DEF ToOwned, OfKind, RequestToOwned, RequestView, Request
  <2> QED BY <1>1, <1>2, <1>4, <2>1, <2>2 DEF DInv, Together, OfKind, Default
<1>5. CASE k # "request"
  <2>1. ResponseView \in Views(0)'
    BY <1>2, <1>5 DEF Views, OfKind, ResponseViews, ResponseView
  <2>2. ToOwned(ResponseView)' = Response
    BY <1>2, <1>3, <1>5 DEF ToOwned, OfKind, ResponseToOwned, ResponseView, Response, Name
  <2> QED BY <1>1, <1>2, <1>5, <2>1, <2>2 DEF DInv, Together, OfKind, Default
<1> QED BY <1>4, <1>5

LEMMA FieldTogether ==
    ASSUME DInv, DecodeField
    PROVE  DInv'
<1>1. /\ stage = "decoding" /\ at \in 0 .. Len(payload) /\ at < Len(payload) /\ view # {}
      /\ payload \in Seq(Fields) /\ Len(payload) \in Nat
      /\ at' = at + 1 /\ kind' = kind /\ payload' = payload
      /\ Together(owned, view, at)
  BY DEF DInv, DecodeField
<1> DEFINE f == payload[at + 1]
<1>2. f \in Fields /\ at \in Nat /\ at + 1 \in 0 .. Len(payload)
  BY <1>1
<1>3. PICK v \in Views(at) : view = {v} /\ owned = {ToOwned(v)}
  BY <1>1 DEF Together
<1>4. /\ owned' = IF Tagged(f) THEN Merge(kind, ToOwned(v), f) ELSE {}
      /\ view' = IF Tagged(f) THEN MergeView(v, at + 1) ELSE {}
  BY <1>3 DEF DecodeField
<1>5. Together(owned', view', at + 1)
  <2>1. CASE Tagged(f)
    <3>1. f \in TaggedFields
      BY <1>2, <2>1 DEF TaggedFields
    <3> QED BY <1>2, <1>4, <2>1, <3>1, MergeTogether
  <2>2. CASE ~Tagged(f)
    BY <1>4, <2>2 DEF Together
  <2> QED BY <2>1, <2>2
<1>6. Together(owned, view, at)'
  <2>1. \A v2 : ToOwned(v2)' = ToOwned(v2)
    BY <1>1 DEF ToOwned
  <2>2. Views(at)' = Views(at + 1)
    BY <1>1 DEF Views, RequestViews, ResponseViews, KeptAt, NamesAt, UnknownTo
  <2> QED BY <1>5, <2>1, <2>2 DEF Together
<1> QED BY <1>1, <1>2, <1>6 DEF DInv

LEMMA StillTogether ==
    ASSUME DInv, UNCHANGED codecVars
    PROVE  DInv'
BY DEF DInv, codecVars, Together, ToOwned, Views, RequestViews, ResponseViews, KeptAt, NamesAt,
       UnknownTo

\* DInv is kept by every step.
LEMMA DecodersStep ==
    ASSUME DInv, [SendingNext]_sendingVars
    PROVE  DInv'
<1>1. ASSUME NEW bus \in {"ring", "file"}, NEW k \in Kinds, NEW m \in Messages[k],
             SendExtended(bus, k, m)
      PROVE  DInv'
  <2>1. CASE UNCHANGED codecVars
    BY <2>1, StillTogether
  <2>2. CASE BytesOf(WriteTo(k, m)) <= SizeOf(k, m) /\ Read(k, Fill(WriteTo(k, m), SizeOf(k, m)))
    <3>1. WriteTo(k, m) \in Seq(Fields)
      BY <2>2, FillWritten, WrittenTagged, TaggedSeq
    <3>2. Read(k, WriteTo(k, m))
      BY <2>2, FillWritten
    <3> QED BY <3>1, <3>2, ReadStarts
  <2>3. CASE stage' = "blocked"
    BY <2>3 DEF DInv
  <2> QED BY <1>1, <2>1, <2>2, <2>3 DEF SendExtended
<1>2. ASSUME NEW bus, NEW size, SendZeroCopy(bus, size)
      PROVE  DInv'
  BY <1>2, StillTogether DEF SendZeroCopy
<1>3. ASSUME NEW k \in Kinds, NEW fields \in History, Replay(k, fields)
      PROVE  DInv'
  <2>1. fields \in Seq(Fields) /\ Read(k, fields)
    BY <1>3, PayloadsAssumption DEF Replay
  <2> QED BY <2>1, ReadStarts
<1>4. CASE Handled
  BY <1>4 DEF Handled, DInv
<1>5. CASE UNCHANGED sendingVars
  BY <1>5, StillTogether DEF sendingVars
<1> QED BY <1>1, <1>2, <1>3, <1>4, <1>5, FieldTogether DEF SendingNext

\* The two generated decoders fail together, and a view stands for the owned
\* message, after every field of every payload (account.__view.rs).
THEOREM DecodersAgree == SendingSpec => []ViewAgrees
<1>1. SendingInit => DInv
  BY DEF SendingInit, DInv
<1>2. DInv /\ [SendingNext]_sendingVars => DInv'
  BY DecodersStep
<1>3. DInv => ViewAgrees
  BY DEF DInv, Together, ViewAgrees
<1> QED BY <1>1, <1>2, <1>3, PTL DEF SendingSpec

-----------------------------------------------------------------------------
(* WrittenAgain *)

\* A view is sized and written as the owned message it stands for.
LEMMA ViewWritten ==
    ASSUME NEW v
    PROVE  ViewWriteTo(v) = WriteTo(kind, ToOwned(v)) /\ ViewSize(v) = SizeOf(kind, ToOwned(v))
<1>1. CASE kind = "request"
  BY <1>1 DEF ViewWriteTo, WriteTo, ViewSize, SizeOf, ToOwned, OfKind, RequestViewWriteTo,
     RequestWriteTo, RequestViewSize, RequestSize, RequestToOwned
<1>2. CASE kind # "request"
  BY <1>2 DEF ViewWriteTo, WriteTo, ViewSize, SizeOf, ToOwned, OfKind, ResponseViewWriteTo,
     ResponseWriteTo, ResponseViewSize, ResponseSize, ResponseToOwned
<1> QED BY <1>1, <1>2

\* A view that is written again takes the bytes it said it would and decodes
\* to the same message (account.__view.rs, write_to and compute_size).
THEOREM ForwardedWhole == SendingSpec => []WrittenAgain
<1>1. DInv => WrittenAgain
  <2> SUFFICES ASSUME DInv, Decoded, NEW v \in view
               PROVE  /\ BytesOf(ViewWriteTo(v)) % (MaxU32 + 1) = ViewSize(v)
                      /\ Decode(kind, ViewWriteTo(v)) = owned
    BY DEF WrittenAgain
  <2>1. at \in Nat /\ v \in Views(at) /\ owned = {ToOwned(v)}
    BY DEF DInv, Decoded, Together
  <2>2. ToOwned(v) \in Owned(kind)
    BY <2>1, OwnedOfView
  <2> QED BY <2>1, <2>2, ViewWritten, SizeOfWritten, RoundTrip
<1>2. SendingInit => DInv
  BY DEF SendingInit, DInv
<1>3. DInv /\ [SendingNext]_sendingVars => DInv'
  BY DecodersStep
<1> QED BY <1>1, <1>2, <1>3, PTL DEF SendingSpec

-----------------------------------------------------------------------------
(* SentArrives *)

\* A sent message is on its way as what write_to wrote, and the owned decoder
\* has read the first fields of that; or it was too large to be written.
MInFlight(m) ==
    /\ stage = "decoding" => /\ m \in Owned(kind) /\ payload = WriteTo(kind, m)
                             /\ BytesOf(payload) <= MaxU32
                             /\ owned = Decode(kind, First(payload, at))
    /\ stage = "blocked" => BytesOf(WriteTo(kind, m)) > MaxU32

SInv == DInv /\ \A m \in message : MInFlight(m)

LEMMA SendStarts ==
    ASSUME SInv, NEW bus, NEW k \in Kinds, NEW m \in Messages[k], SendExtended(bus, k, m)
    PROVE  \A q \in message' : MInFlight(q)'
<1>1. CASE UNCHANGED codecVars
  BY <1>1 DEF SInv, MInFlight, codecVars
<1>2. CASE message' = {m} /\ BytesOf(WriteTo(k, m)) <= SizeOf(k, m)
           /\ Read(k, Fill(WriteTo(k, m), SizeOf(k, m)))
  <2>1. m \in Owned(k) /\ BytesOf(WriteTo(k, m)) <= MaxU32 /\ Read(k, WriteTo(k, m))
    BY <1>2, FillWritten
  <2>2. WriteTo(k, m) \in Seq(TaggedFields) /\ WriteTo(k, m) \in Seq(Fields)
    BY <2>1, WrittenTagged, TaggedSeq
  <2>3. owned' = {Default(k)}
    BY <2>1, <2>2, ReadStarts
  <2>4. Decode(k, First(WriteTo(k, m), 0)) = {Default(k)}
    BY <2>2, FirstGrows, DecodeEmpty
  <2> QED BY <1>2, <2>1, <2>3, <2>4 DEF Read, MInFlight
<1>3. CASE /\ message' = {m} /\ ~(BytesOf(WriteTo(k, m)) <= SizeOf(k, m))
           /\ stage' = "blocked" /\ kind' = k
  <2>1. m \in Owned(k)
    BY PayloadsAssumption DEF Owned
  <2>2. BytesOf(WriteTo(k, m)) \in Nat /\ SizeOf(k, m) = BytesOf(WriteTo(k, m)) % (MaxU32 + 1)
    BY <2>1, SizeOfWritten
  <2>3. BytesOf(WriteTo(k, m)) > MaxU32
    BY <1>3, <2>2, WidthAssumption
  <2> QED BY <1>3, <2>3 DEF MInFlight
<1> QED BY <1>1, <1>2, <1>3 DEF SendExtended

LEMMA FieldRead ==
    ASSUME SInv, DecodeField
    PROVE  \A q \in message' : MInFlight(q)'
<1> SUFFICES ASSUME NEW m \in message PROVE MInFlight(m)'
  BY DEF DecodeField
<1>1. /\ stage = "decoding" /\ stage' = stage /\ kind' = kind /\ payload' = payload
      /\ at' = at + 1 /\ at \in 0 .. Len(payload) /\ at < Len(payload) /\ Len(payload) \in Nat
      /\ m \in Owned(kind) /\ payload = WriteTo(kind, m) /\ BytesOf(payload) <= MaxU32
      /\ owned = Decode(kind, First(payload, at))
  BY DEF DecodeField, SInv, DInv, MInFlight
<1> DEFINE f == payload[at + 1]
<1>2. payload \in Seq(TaggedFields)
  BY <1>1, WrittenTagged
<1>3. at + 1 \in 1 .. Len(payload) /\ (at + 1) - 1 = at
  BY <1>1
<1>4. /\ First(payload, at + 1) = Append(First(payload, at), f)
      /\ f \in TaggedFields /\ First(payload, at) \in Seq(TaggedFields)
  BY <1>2, <1>3, FirstGrows
<1>5. owned' = Merged(kind, owned, f)
  BY <1>4 DEF DecodeField, Merged, TaggedFields
<1>6. Decode(kind, Append(First(payload, at), f))
        = Merged(kind, Decode(kind, First(payload, at)), f)
  BY <1>4, DecodeAppend
<1>7. owned' = Decode(kind, First(payload, at + 1))
  BY <1>1, <1>4, <1>5, <1>6
<1> QED BY <1>1, <1>7 DEF MInFlight

LEMMA SentStep ==
    ASSUME SInv, [SendingNext]_sendingVars
    PROVE  SInv'
<1>1. DInv'
  BY DecodersStep DEF SInv
<1>2. ASSUME NEW bus, NEW size, SendZeroCopy(bus, size)
      PROVE  SInv'
  BY <1>1, <1>2 DEF SendZeroCopy, SInv, MInFlight, codecVars
<1>3. ASSUME NEW k, NEW fields, Replay(k, fields)
      PROVE  SInv'
  BY <1>1, <1>3 DEF Replay, SInv
<1>4. CASE Handled
  BY <1>1, <1>4 DEF Handled, SInv
<1>5. CASE UNCHANGED sendingVars
  BY <1>1, <1>5 DEF sendingVars, codecVars, SInv, MInFlight
<1>6. ASSUME NEW bus, NEW k \in Kinds, NEW m \in Messages[k], SendExtended(bus, k, m)
      PROVE  SInv'
  BY <1>1, <1>6, SendStarts DEF SInv
<1>7. CASE DecodeField
  BY <1>1, <1>7, FieldRead DEF SInv
<1> QED BY <1>2, <1>3, <1>4, <1>5, <1>6, <1>7 DEF SendingNext

\* A sent message is what the handler's view stands for, and only messages
\* larger than a u32 can tell stop their writer (extended.rs, send).
THEOREM SentMessagesArrive == SendingSpec => []SentArrives
<1>1. SInv => SentArrives
  <2> SUFFICES ASSUME SInv, NEW m \in message
               PROVE  /\ stage = "decoding" => view # {} /\ BytesOf(payload) <= MaxU32
                      /\ Decoded => \A v \in view : ToOwned(v) = m
                      /\ stage = "blocked" => BytesOf(WriteTo(kind, m)) > MaxU32
    BY DEF SentArrives
  <2>1. MInFlight(m) /\ DInv
    BY DEF SInv
  <2>2. CASE stage = "decoding"
    <3>1. /\ m \in Owned(kind) /\ payload = WriteTo(kind, m) /\ BytesOf(payload) <= MaxU32
          /\ owned = Decode(kind, First(payload, at))
          /\ at \in 0 .. Len(payload) /\ Together(owned, view, at)
      BY <2>1, <2>2 DEF MInFlight, DInv
    <3>2. payload \in Seq(TaggedFields) /\ Decode(kind, payload) = {m}
      BY <3>1, WrittenTagged, RoundTrip
    <3>3. view # {}
      BY <3>1, <3>2, NoErrorBefore DEF Together
    <3>4. ASSUME Decoded, NEW v \in view
          PROVE  ToOwned(v) = m
      <4>1. owned = {m}
        BY <3>1, <3>2, <3>4, FirstGrows DEF Decoded
      <4>2. owned = {ToOwned(v)}
        BY <3>1, <3>4 DEF Together
      <4> QED BY <4>1, <4>2
    <3> QED BY <2>2, <3>1, <3>3, <3>4
  <2>3. CASE stage # "decoding"
    BY <2>1, <2>3 DEF MInFlight, Decoded
  <2> QED BY <2>2, <2>3
<1>2. SendingInit => SInv
  BY DEF SendingInit, SInv, DInv
<1>3. SInv /\ [SendingNext]_sendingVars => SInv'
  BY SentStep
<1> QED BY <1>1, <1>2, <1>3, PTL DEF SendingSpec

-----------------------------------------------------------------------------
(* The slots of both buses, when the sizes are those of messages, too *)

\* The length of a slot is what readers recompute, whatever is sent.
LEMMA WrittenSize ==
    ASSUME SendingNext
    PROVE  UNCHANGED vars \/ \E size \in Nat : RingWrite(size) \/ FileWrite(size)
<1>1. ASSUME NEW bus, NEW size \in Nat, Write(bus, size)
      PROVE  \E s \in Nat : RingWrite(s) \/ FileWrite(s)
  BY <1>1 DEF Write
<1>2. ASSUME NEW bus, NEW k \in Kinds, NEW m \in Messages[k], SendExtended(bus, k, m)
      PROVE  \E s \in Nat : RingWrite(s) \/ FileWrite(s)
  <2>1. m \in Owned(k)
    BY PayloadsAssumption DEF Owned
  <2>2. SizeOf(k, m) \in Nat
    BY <2>1, SizeOfWritten, WidthAssumption
  <2>3. Write(bus, SizeOf(k, m))
    BY <1>2 DEF SendExtended
  <2> QED BY <1>1, <2>2, <2>3
<1>3. ASSUME NEW bus, NEW size \in Sizes, SendZeroCopy(bus, size)
      PROVE  \E s \in Nat : RingWrite(s) \/ FileWrite(s)
  <2>1. size \in Nat /\ Write(bus, size)
    BY <1>3, SizesNat DEF SendZeroCopy
  <2> QED BY <1>1, <2>1
<1>4. ASSUME NEW k, NEW fields, Replay(k, fields)
      PROVE  UNCHANGED vars
  BY <1>4 DEF Replay
<1>5. CASE DecodeField
  BY <1>5 DEF DecodeField, vars
<1>6. CASE Handled
  BY <1>6 DEF Handled
<1> QED BY <1>2, <1>3, <1>4, <1>5, <1>6 DEF SendingNext

LEMMA SendingExact == AInv /\ [SendingNext]_sendingVars => AInv'
<1> SUFFICES ASSUME AInv, [SendingNext]_sendingVars PROVE AInv'
  OBVIOUS
<1>1. CASE UNCHANGED vars
  BY <1>1 DEF AInv, vars
<1>2. CASE \E size \in Nat : RingWrite(size) \/ FileWrite(size)
  BY <1>2, WriteExact
<1> QED BY <1>1, <1>2, WrittenSize DEF sendingVars

\* Whatever message or size is sent, an admitted slot has the length every
\* reader recomputes from its header (both buses' write, both Senders).
THEOREM SentLengthsAgree == SendingSpec => []LengthsAgree
<1>1. SendingInit => AInv
  BY AInit DEF SendingInit
<1> QED BY <1>1, SendingExact, ExactAgrees, PTL DEF SendingSpec

\* Whatever message or size is sent, the file bus's slots are disjoint and
\* inside the reservation, until its head wraps around.
THEOREM SentSlotsInReservation ==
    ASSUME MaxCalls \in Nat, MaxCalls * SlotLen(MaxU32) < UsizeMod
    PROVE  SendingSpec => []FileSlotsInReservation
<1>1. SendingInit => AInv /\ FInv
  BY AInit, FInit DEF SendingInit
<1>2. FInv /\ [SendingNext]_sendingVars => FInv'
  <2> SUFFICES ASSUME FInv, [SendingNext]_sendingVars PROVE FInv'
    OBVIOUS
  <2>1. CASE UNCHANGED vars
    BY <2>1 DEF FInv, Disjoint, vars
  <2>2. CASE \E size \in Nat : RingWrite(size) \/ FileWrite(size)
    BY <2>2, WriteKeeps DEF MaxLen
  <2> QED BY <2>1, <2>2, WrittenSize DEF sendingVars
<1> QED BY <1>1, <1>2, SendingExact, SlotsApart, PTL DEF SendingSpec

=============================================================================
