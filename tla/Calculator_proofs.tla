--------------------------- MODULE Calculator_proofs ---------------------------
(***************************************************************************)
(* For every message, of any length: the parser follows the grammar, the   *)
(* longest piece is extracted, and what can be calculated is. Everything   *)
(* here is recursive over data. The induction needed is obtained from the  *)
(* least element of a set of natural numbers (LeastNatural); that the      *)
(* recursive functions satisfy the equations they are written with, from a *)
(* theorem on fixed points proved by it (FixedPoint).                      *)
(***************************************************************************)
EXTENDS Calculator, FiniteSetTheorems, WellFoundedInduction, TLAPS

-----------------------------------------------------------------------------
(* Induction and recursion.                                                *)

LEMMA LeastNatural ==
    ASSUME NEW T \in SUBSET Nat, T # {}
    PROVE  \E n \in T : \A m \in T : n <= m
  <1>1. PICK t \in T : TRUE
    OBVIOUS
  <1> DEFINE R == StrictSubsetOrdering(0 .. t)
             U == {0 .. k : k \in {m \in T : m <= t}}
  <1>2. IsFiniteSet(0 .. t)
    BY FS_Interval
  <1>3. IsWellFoundedOn(R, SUBSET (0 .. t))
    BY <1>2, FS_FiniteSubsetsOfFinite, FS_StrictSubsetOrderingWellFounded
  <1>4. U \subseteq SUBSET (0 .. t) /\ U # {}
    OBVIOUS
  <1> HIDE DEF U, R
  <1>5. PICK x \in U : \A y \in U : ~ (<<y, x>> \in R)
    BY <1>3, <1>4, WFMin
  <1>6. PICK n \in T : n <= t /\ x = 0 .. n
    BY <1>5 DEF U
  <1>7. ASSUME NEW m \in T, m < n
        PROVE  FALSE
    <2>1. 0 .. m \in U
      BY <1>6, <1>7 DEF U
    <2>2. 0 .. m \subseteq 0 .. n /\ 0 .. m # 0 .. n /\ 0 .. m \subseteq 0 .. t /\ 0 .. n \subseteq 0 .. t
      BY <1>6, <1>7
    <2>3. <<0 .. m, 0 .. n>> \in R
      BY <2>2 DEF R, StrictSubsetOrdering
    <2> QED
      BY <1>5, <1>6, <2>1, <2>3
  <1> QED
    BY <1>7

\* The functions whose values are in given sets; an equation f = B[f] that
\* defines f at c by its values where the measure m is less.
Within(X, Y, R)    == {f \in [X -> Y] : \A x \in X : f[x] \in R[x]}
Descends(X, F, B, m) ==
    \A f, g \in F, c \in X : (\A d \in X : m[d] < m[c] => f[d] = g[d]) => B[f][c] = B[g][c]
FunctionOn(f, X)   == f = [x \in X |-> f[x]]
Follows(X, f, g, m) == \A c \in X : (\A d \in X : m[d] < m[c] => f[d] = g[d]) => f[c] = g[c]

LEMMA FixedPoint ==
    ASSUME NEW X, NEW Y, NEW R \in [X -> SUBSET Y], NEW m \in [X -> Nat],
           Within(X, Y, R) # {}, NEW B \in [Within(X, Y, R) -> Within(X, Y, R)],
           Descends(X, Within(X, Y, R), B, m)
    PROVE  \E f \in Within(X, Y, R) : B[f] = f
  <1> DEFINE F == Within(X, Y, R)
  <1> USE DEF Within, Descends
  <1> DEFINE E(n) == {f \in F : \A c \in X : m[c] < n => B[f][c] = f[c]}
  <1>1. ASSUME NEW n \in Nat, E(n) # {}
        PROVE  E(n + 1) # {}
    <2>1. PICK f \in E(n) : TRUE
      BY <1>1
    <2> DEFINE g == B[f]
    <2>2. g \in F
      OBVIOUS
    <2>3. ASSUME NEW c \in X, m[c] < n + 1
          PROVE  B[g][c] = g[c]
      <3>1. \A d \in X : m[d] < m[c] => g[d] = f[d]
        BY <2>1, <2>3
      <3>2. (\A d \in X : m[d] < m[c] => g[d] = f[d]) => B[g][c] = B[f][c]
        BY <2>1, <2>2
      <3> QED
        BY <3>1, <3>2
    <2> QED
      BY <2>2, <2>3
  <1>2. \A n \in Nat : E(n) # {}
    <2> DEFINE T == {n \in Nat : E(n) = {}}
    <2>1. ASSUME NEW n \in T, \A k \in T : n <= k
          PROVE  FALSE
      <3>1. E(0) = F
        OBVIOUS
      <3> HIDE DEF E
      <3>2. n # 0
        BY <3>1
      <3>3. n \in Nat /\ n - 1 \in Nat
        BY <3>2
      <3>6. n - 1 \notin T
        <4> HIDE DEF T
        <4> QED
          BY <2>1, <3>3
      <3>4. E((n - 1) + 1) # {}
        BY <1>1, <3>3, <3>6
      <3>5. (n - 1) + 1 = n
        OBVIOUS
      <3> QED
        BY <3>4, <3>5
    <2> HIDE DEF E
    <2>2. T = {}
      BY <2>1, LeastNatural
    <2> QED
      BY <2>2
  <1>3. ASSUME NEW n \in Nat, NEW k \in Nat, k <= n
        PROVE  E(n) \subseteq E(k)
    BY <1>3
  <1>4. ASSUME NEW n \in Nat, NEW f \in E(n), NEW g \in E(n)
        PROVE  \A c \in X : m[c] < n => f[c] = g[c]
    <2> DEFINE T == {k \in Nat : \E c \in X : m[c] = k /\ k < n /\ f[c] # g[c]}
    <2>1. SUFFICES ASSUME T # {}
                   PROVE  FALSE
      OBVIOUS
    <2>2. PICK k \in T : \A l \in T : k <= l
      BY <2>1, LeastNatural, Zenon
    <2>3. PICK c \in X : m[c] = k /\ k < n /\ f[c] # g[c]
      BY <2>2
    <2>4. ASSUME NEW d \in X, m[d] < m[c]
          PROVE  f[d] = g[d]
      BY <2>2, <2>3, <2>4
    <2>5. B[f][c] = B[g][c]
      BY <2>4
    <2> QED
      BY <2>3, <2>5
  <1> DEFINE W(c) == CHOOSE f \in E(m[c] + 1) : TRUE
             h == [c \in X |-> W(c)[c]]
  <1> HIDE DEF E
  <1>5. \A c \in X : W(c) \in E(m[c] + 1)
    BY <1>2
  <1> HIDE DEF W
  <1>6. \A c \in X : \A f \in E(m[c] + 1) : f \in F /\ B[f][c] = f[c]
    BY DEF E
  <1>7. h \in F
    BY <1>5, <1>6
  <1>8. ASSUME NEW c \in X
        PROVE  B[h][c] = h[c]
    <2>1. ASSUME NEW d \in X, m[d] < m[c]
          PROVE  h[d] = W(c)[d]
      <3>1. E(m[c] + 1) \subseteq E(m[d] + 1)
        BY <1>3, <2>1
      <3> QED
        BY <1>4, <1>5, <2>1, <3>1
    <2>2. B[h][c] = B[W(c)][c]
      BY <1>5, <1>6, <1>7, <2>1
    <2> QED
      BY <1>5, <1>6, <2>2
  <1>9. B[h] \in F
    BY <1>7
  <1> HIDE DEF h
  <1> QED
    <2>1. B[h] = h
      BY <1>7, <1>8, <1>9
    <2> QED
      BY <1>7, <2>1

LEMMA SameFunction ==
    ASSUME NEW X, NEW f, NEW g, FunctionOn(f, X), FunctionOn(g, X), NEW m \in [X -> Nat],
           Follows(X, f, g, m)
    PROVE  f = g
  <1> USE DEF Follows
  <1> DEFINE T == {n \in Nat : \E c \in X : m[c] = n /\ f[c] # g[c]}
  <1>1. ASSUME NEW n \in T, \A k \in T : n <= k
        PROVE  FALSE
    <2>1. PICK c \in X : m[c] = n /\ f[c] # g[c]
      OBVIOUS
    <2>2. ASSUME NEW d \in X, m[d] < m[c]
          PROVE  f[d] = g[d]
      BY <1>1, <2>1, <2>2
    <2> QED
      BY <2>1, <2>2
  <1>2. T = {}
    <2> HIDE DEF T
    <2>1. T \in SUBSET Nat
      BY DEF T
    <2> QED
      BY <1>1, <2>1, LeastNatural
  <1>3. \A c \in X : f[c] = g[c]
    BY <1>2
  <1> QED
    BY <1>3 DEF FunctionOn

LEMMA GreatestNatural ==
    ASSUME NEW T \in SUBSET Nat, T # {}, NEW b \in Nat, \A n \in T : n <= b
    PROVE  \E n \in T : \A k \in T : k <= n
  <1> DEFINE U == {b - n : n \in T}
  <1>1. U \in SUBSET Nat /\ U # {}
    <2>1. \A n \in T : n \in Nat /\ n <= b /\ b - n \in Nat
      OBVIOUS
    <2> QED
      BY <2>1
  <1> HIDE DEF U
  <1>2. PICK u \in U : \A k \in U : u <= k
    BY <1>1, LeastNatural
  <1>3. PICK n \in T : u = b - n
    BY <1>2 DEF U
  <1>4. ASSUME NEW k \in T
        PROVE  k <= n
    <2>1. b - k \in U
      BY DEF U
    <2>2. b - n <= b - k
      BY <1>2, <1>3, <2>1
    <2> QED
      BY <2>2
  <1> QED
    BY <1>4

LEMMA MinIs ==
    ASSUME NEW T \in SUBSET Nat, T # {}
    PROVE  Min(T) \in T /\ \A k \in T : Min(T) <= k
  BY LeastNatural DEF Min

LEMMA MaxIs ==
    ASSUME NEW T \in SUBSET Nat, T # {}, NEW b \in Nat, \A n \in T : n <= b
    PROVE  Max(T) \in T /\ \A k \in T : k <= Max(T)
  BY GreatestNatural DEF Max

-----------------------------------------------------------------------------
(* Positions in a text.                                                    *)

LEMMA Characterwise ==
    ASSUME NEW s \in Seq(Characters)
    PROVE  /\ Len(s) \in Nat
           /\ \A k \in Int : IF k \in 1 .. Len(s) THEN At(s, k) = s[k] ELSE At(s, k) = "end"
           /\ \A k \in 1 .. Len(s) : s[k] \in Characters /\ s[k] # "end"
  BY DEF At, Characters, Digit, Operators

LEMMA SkipsSpaces ==
    ASSUME NEW s \in Seq(Characters), NEW p \in 1 .. Len(s) + 1
    PROVE  /\ SkipSpaces(s, p) \in p .. Len(s) + 1
           /\ At(s, SkipSpaces(s, p)) # "space"
           /\ \A k \in p .. SkipSpaces(s, p) - 1 : At(s, k) = "space"
  <1> DEFINE T == {q \in p .. Len(s) + 1 : At(s, q) # "space"}
  <1>1. Len(s) \in Nat
    BY Characterwise
  <1>2. T \in SUBSET Nat
    BY <1>1
  <1>3. At(s, Len(s) + 1) = "end"
    BY <1>1, Characterwise
  <1>4. Len(s) + 1 \in T
    BY <1>1, <1>3
  <1>5. SkipSpaces(s, p) = Min(T)
    BY DEF SkipSpaces
  <1>6. SkipSpaces(s, p) \in T /\ \A k \in T : SkipSpaces(s, p) <= k
    BY <1>2, <1>4, <1>5, MinIs
  <1> QED
    BY <1>1, <1>6

LEMMA SkipsTo ==
    ASSUME NEW s \in Seq(Characters), NEW p \in 1 .. Len(s) + 1, NEW q \in p .. Len(s) + 1,
           At(s, q) # "space", \A k \in p .. q - 1 : At(s, k) = "space"
    PROVE  SkipSpaces(s, p) = q
  <1>1. Len(s) \in Nat
    BY Characterwise
  <1> QED
    BY <1>1, SkipsSpaces

LEMMA BacksSpaces ==
    ASSUME NEW s \in Seq(Characters), NEW p \in 0 .. Len(s)
    PROVE  /\ BackSpaces(s, p) \in 0 .. p
           /\ At(s, BackSpaces(s, p)) # "space"
           /\ \A k \in BackSpaces(s, p) + 1 .. p : At(s, k) = "space"
  <1> DEFINE T == {q \in 0 .. p : At(s, q) # "space"}
  <1>1. Len(s) \in Nat
    BY Characterwise
  <1>2. T \in SUBSET Nat /\ p \in Nat /\ \A k \in T : k <= p
    BY <1>1
  <1>3. At(s, 0) = "end"
    BY <1>1, Characterwise
  <1>4. 0 \in T
    BY <1>1, <1>3
  <1>5. BackSpaces(s, p) = Max(T)
    BY DEF BackSpaces
  <1> HIDE DEF T
  <1>6. BackSpaces(s, p) \in T /\ \A k \in T : k <= BackSpaces(s, p)
    BY <1>2, <1>4, <1>5, MaxIs
  <1> QED
    BY <1>1, <1>6 DEF T

LEMMA BacksTo ==
    ASSUME NEW s \in Seq(Characters), NEW p \in 0 .. Len(s), NEW q \in 0 .. p,
           At(s, q) # "space", \A k \in q + 1 .. p : At(s, k) = "space"
    PROVE  BackSpaces(s, p) = q
  <1>1. Len(s) \in Nat
    BY Characterwise
  <1> QED
    BY <1>1, BacksSpaces

-----------------------------------------------------------------------------
(* Numbers.                                                                *)

LEMMA NumberType ==
    /\ Zero \in Number
    /\ \A a \in Number : Negate(a) \in Number /\ Invert(a) \in Number
    /\ \A a, b \in Number : Plus(a, b) \in Number /\ Times(a, b) \in Number
  BY DEF Number, Zero, Negate, Invert, Plus, Times

LEMMA DigitType ==
    \A c \in DOMAIN Digit : Digit[c] \in Nat
  BY DEF Digit

LEMMA AccumulateType ==
    ASSUME NEW s \in Seq(Characters), NEW i \in 1 .. Len(s) + 1, NEW j \in 0 .. Len(s), Figures(s, i, j),
           NEW f \in [i - 1 .. j -> Number], NEW n \in i - 1 .. j
    PROVE  Accumulate(s, i, f, n) \in Number
  <1>1. CASE n < i
    BY <1>1, NumberType DEF Accumulate
  <1>2. CASE n >= i
    <2>1. n \in i .. j /\ n - 1 \in i - 1 .. j
      BY <1>2, Characterwise
    <2>2. s[n] = "." \/ s[n] \in DOMAIN Digit
      BY <2>1 DEF Figures
    <2>3. f[n - 1] \in Number
      BY <2>1
    <2>4. CASE s[n] = "."
      BY <1>2, <2>3, <2>4 DEF Accumulate
    <2>5. CASE s[n] # "."
      <3>1. Digit[s[n]] \in Nat
        BY <2>2, <2>5, DigitType
      <3>a. f[n - 1].num \in Int /\ f[n - 1].den \in Int
        BY <2>3 DEF Number
      <3>b. PICK a \in Int, d \in Int, k \in Nat : a = f[n - 1].num /\ d = f[n - 1].den /\ k = Digit[s[n]]
        BY <3>1, <3>a
      <3>c. 10 * a + k \in Int /\ 10 * d \in Int
        OBVIOUS
      <3>2. 10 * f[n - 1].num + Digit[s[n]] \in Int /\ 10 * f[n - 1].den \in Int /\ f[n - 1].den \in Int
        BY <3>b, <3>c, Zenon
      <3>3. ~ (n < i)
        BY <1>2, <2>1
      <3> QED
        BY <2>5, <3>2, <3>3 DEF Accumulate, Number
    <2> QED
      BY <2>4, <2>5
  <1> QED
    BY <1>1, <1>2, Characterwise

LEMMA AccumulateLocal ==
    ASSUME NEW s, NEW i \in Int, NEW j \in Int, NEW f, NEW g, NEW n \in i - 1 .. j,
           \A d \in i - 1 .. j : d < n => f[d] = g[d]
    PROVE  Accumulate(s, i, f, n) = Accumulate(s, i, g, n)
  <1>1. n < i \/ f[n - 1] = g[n - 1]
    OBVIOUS
  <1> QED
    BY <1>1 DEF Accumulate

LEMMA ParseFloatType ==
    ASSUME NEW s \in Seq(Characters), NEW i \in 1 .. Len(s) + 1, NEW j \in i - 1 .. Len(s), Figures(s, i, j)
    PROVE  ParseFloat(s, i, j) \in Number
  <1> DEFINE X == i - 1 .. j
             R == [n \in X |-> Number]
             m == [n \in X |-> n - i + 1]
             F == Within(X, Number, R)
             B == [f \in F |-> [n \in X |-> Accumulate(s, i, f, n)]]
             float == CHOOSE f : f = [n \in X |-> Accumulate(s, i, f, n)]
  <1>1. Len(s) \in Nat /\ i \in Nat /\ j \in Nat /\ j \in 0 .. Len(s) /\ X \subseteq Int /\ j \in X
    BY Characterwise
  <1>2. m \in [X -> Nat] /\ R \in [X -> SUBSET Number]
    BY <1>1
  <1>3. F = [X -> Number]
    BY DEF Within
  <1>4. F # {}
    <2>1. [n \in X |-> Zero] \in F
      BY <1>3, NumberType
    <2> QED
      BY <2>1
  <1>5. B \in [F -> F]
    BY <1>1, <1>3, AccumulateType
  <1>6. ASSUME NEW f, NEW g, NEW c \in X, \A d \in X : m[d] < m[c] => f[d] = g[d]
        PROVE  Accumulate(s, i, f, c) = Accumulate(s, i, g, c)
    <2>1. \A d \in i - 1 .. j : d < c => f[d] = g[d]
      BY <1>1, <1>6
    <2> QED
      BY <1>1, <2>1, AccumulateLocal
  <1>7. PICK f \in F : B[f] = f
    <2>1. \A f, g \in F, c \in X : (\A d \in X : m[d] < m[c] => f[d] = g[d]) => B[f][c] = B[g][c]
      BY <1>6
    <2>2. Descends(X, F, B, m)
      BY <2>1 DEF Descends
    <2> HIDE DEF B, R, m, X
    <2> QED
      BY <1>2, <1>4, <1>5, <2>2, FixedPoint
  <1>8. f = [n \in X |-> Accumulate(s, i, f, n)]
    BY <1>7
  <1>9. float = [n \in X |-> Accumulate(s, i, float, n)]
    BY <1>8, Zenon
  <1>10. float = f
    <2> HIDE DEF float, F
    <2>1. Follows(X, float, f, m)
      BY <1>6, <1>8, <1>9 DEF Follows
    <2>2. FunctionOn(float, X) /\ FunctionOn(f, X)
      BY <1>8, <1>9 DEF FunctionOn
    <2> HIDE DEF X, m, B
    <2> QED
      BY <1>2, <2>1, <2>2, SameFunction, Zenon
  <1>11. ParseFloat(s, i, j) = float[j]
    BY Zenon DEF ParseFloat
  <1> QED
    BY <1>1, <1>3, <1>10, <1>11

-----------------------------------------------------------------------------
(* What is extracted.                                                      *)

LEMMA BytesGrow ==
    ASSUME NEW text, NEW i \in Int, NEW j \in Int
    PROVE  /\ Bytes(text, i, j) \in Nat
           /\ i > j => Bytes(text, i, j) = 0
           /\ i <= j => Bytes(text, i, j) > 0
           /\ \A k, l \in Int : i <= k /\ l <= j => Bytes(text, k, l) <= Bytes(text, i, j)
  <1> DEFINE A(k, l) == {n \in k .. l : text[n] = "arabic"}
  <1>1. ASSUME NEW k \in Int, NEW l \in Int
        PROVE  /\ IsFiniteSet(k .. l) /\ IsFiniteSet(A(k, l))
               /\ Cardinality(k .. l) \in Nat /\ Cardinality(A(k, l)) \in Nat
               /\ Cardinality(k .. l) = (IF k > l THEN 0 ELSE l - k + 1)
    <2>1. IsFiniteSet(k .. l) /\ Cardinality(k .. l) = (IF k > l THEN 0 ELSE l - k + 1)
      BY FS_Interval
    <2>2. A(k, l) \subseteq k .. l
      OBVIOUS
    <2> HIDE DEF A
    <2>3. IsFiniteSet(A(k, l))
      BY <2>1, <2>2, FS_Subset
    <2> QED
      BY <2>1, <2>3, FS_CardinalityType
  <1>2. \A k, l \in Int : Bytes(text, k, l) = Cardinality(k .. l) + Cardinality(A(k, l))
    BY DEF Bytes
  <1>3. i > j => A(i, j) = {}
    OBVIOUS
  <1>4. ASSUME NEW k \in Int, NEW l \in Int, i <= k, l <= j
        PROVE  Bytes(text, k, l) <= Bytes(text, i, j)
    <2>1. k .. l \subseteq i .. j /\ A(k, l) \subseteq A(i, j)
      BY <1>4
    <2> HIDE DEF A
    <2>2. Cardinality(k .. l) <= Cardinality(i .. j) /\ Cardinality(A(k, l)) <= Cardinality(A(i, j))
      BY <1>1, <2>1, FS_Subset
    <2>3. /\ Cardinality(k .. l) \in Nat /\ Cardinality(A(k, l)) \in Nat
          /\ Cardinality(i .. j) \in Nat /\ Cardinality(A(i, j)) \in Nat
      BY <1>1
    <2>4. /\ Bytes(text, k, l) = Cardinality(k .. l) + Cardinality(A(k, l))
          /\ Bytes(text, i, j) = Cardinality(i .. j) + Cardinality(A(i, j))
      BY <1>2
    <2> QED
      BY <2>2, <2>3, <2>4
  <1>5. i > j => Cardinality(A(i, j)) = 0
    BY <1>3, FS_EmptySet
  <1> HIDE DEF A
  <1>6. Bytes(text, i, j) \in Nat /\ (i > j => Bytes(text, i, j) = 0) /\ (i <= j => Bytes(text, i, j) > 0)
    <2>1. Bytes(text, i, j) = Cardinality(i .. j) + Cardinality(A(i, j))
      BY <1>2
    <2>2. /\ Cardinality(i .. j) \in Nat /\ Cardinality(A(i, j)) \in Nat
          /\ Cardinality(i .. j) = IF i > j THEN 0 ELSE j - i + 1
      BY <1>1
    <2> QED
      BY <1>5, <2>1, <2>2
  <1> QED
    BY <1>4, <1>6

\* No piece that fits in the first n characters is longer than that from b to e,
\* nor as long and earlier; and b .. e is such a piece unless it is empty.
Beats(text, b, e, i, j) ==
    \/ Bytes(text, i, j) < Bytes(text, b, e)
    \/ Bytes(text, i, j) = Bytes(text, b, e) /\ b <= i
Best(text, b, e, n) ==
    /\ b <= e => b \in 1 .. n /\ e \in 1 .. n /\ Fits(text, b, e)
    /\ \A i, j \in 1 .. n : Fits(text, i, j) => b <= e /\ Beats(text, b, e, i, j)

\* A stretch of arithmetic characters that ends at n and cannot be made longer to
\* the left.
Stretch(text, start, n) ==
    /\ start \in 1 .. n + 1
    /\ \A k \in start .. n : text[k] \in Arithmetic
    /\ start = 1 \/ text[start - 1] \notin Arithmetic

LEMMA FitsInStretch ==
    ASSUME NEW text \in Seq(Characters), NEW n \in 0 .. Len(text), NEW start \in Int, Stretch(text, start, n),
           NEW i \in 1 .. n, NEW j \in 1 .. n, Fits(text, i, j), start <= j
    PROVE  /\ start <= i /\ i <= j /\ SkipSpaces(text, start) <= i /\ j <= BackSpaces(text, n)
           /\ HasOperator(text, SkipSpaces(text, start), BackSpaces(text, n))
  <1>1. /\ Len(text) \in Nat /\ start \in 1 .. n + 1 /\ start \in 1 .. Len(text) + 1
        /\ \A k \in Int : k \in 1 .. Len(text) => At(text, k) = text[k]
    BY Characterwise DEF Stretch
  <1>2. /\ i <= j /\ \A k \in i .. j : text[k] \in Arithmetic
        /\ HasOperator(text, i, j) /\ At(text, i) # "space" /\ At(text, j) # "space"
    BY <1>1 DEF Fits
  <1>3. start <= i
    <2>1. SUFFICES ASSUME i <= start - 1
                   PROVE  FALSE
      BY <1>1
    <2>2. start - 1 \in i .. j /\ start # 1
      BY <1>1, <2>1
    <2> QED
      BY <1>2, <2>2 DEF Stretch
  <1>4. SkipSpaces(text, start) <= i
    <2>1. SkipSpaces(text, start) \in Int /\ \A k \in start .. SkipSpaces(text, start) - 1 : At(text, k) = "space"
      BY <1>1, SkipsSpaces
    <2> QED
      BY <1>1, <1>2, <1>3, <2>1
  <1>5. j <= BackSpaces(text, n)
    <2>1. BackSpaces(text, n) \in Int /\ \A k \in BackSpaces(text, n) + 1 .. n : At(text, k) = "space"
      BY <1>1, BacksSpaces
    <2> QED
      BY <1>1, <1>2, <2>1
  <1>6. SkipSpaces(text, start) \in Int /\ BackSpaces(text, n) \in Int
    BY <1>1, SkipsSpaces, BacksSpaces
  <1> QED
    BY <1>2, <1>3, <1>4, <1>5, <1>6 DEF HasOperator

LEMMA FlushKeepsBest ==
    ASSUME NEW text \in Seq(Characters), NEW n \in 0 .. Len(text), NEW found,
           NEW start \in Int, NEW b \in Int, NEW e \in Int, found.start = start, found.best = <<b, e>>,
           Stretch(text, start, n), Best(text, b, e, start - 1)
    PROVE  \E c, d \in Int : Flush(text, found, n) = <<c, d>> /\ Best(text, c, d, n)
  <1> DEFINE i0 == SkipSpaces(text, start)
             j0 == BackSpaces(text, n)
  <1>1. /\ Len(text) \in Nat /\ n \in Nat /\ start \in 1 .. n + 1 /\ start \in 1 .. Len(text) + 1
        /\ \A k \in Int : k \in 1 .. Len(text) => At(text, k) = text[k]
    BY Characterwise DEF Stretch
  <1>2. i0 \in start .. Len(text) + 1 /\ j0 \in 0 .. n /\ At(text, i0) # "space" /\ At(text, j0) # "space"
    BY <1>1, SkipsSpaces, BacksSpaces
  <1>3. i0 \in Int /\ j0 \in Int
    BY <1>1, <1>2
  <1>4. Flush(text, found, n) = IF Bytes(text, i0, j0) > Bytes(text, b, e) /\ HasOperator(text, i0, j0)
                                THEN <<i0, j0>> ELSE <<b, e>>
    BY DEF Flush
  <1>5. \A i, j \in 1 .. n : Fits(text, i, j) /\ start <= j =>
            start <= i /\ i <= j /\ i0 <= i /\ j <= j0 /\ HasOperator(text, i0, j0)
    BY FitsInStretch
  <1> HIDE DEF i0, j0
  <1>6. /\ Bytes(text, i0, j0) \in Nat /\ (i0 > j0 => Bytes(text, i0, j0) = 0)
        /\ Bytes(text, b, e) \in Nat /\ (b > e => Bytes(text, b, e) = 0)
    BY <1>3, BytesGrow
  <1>7. CASE Bytes(text, i0, j0) > Bytes(text, b, e) /\ HasOperator(text, i0, j0)
    <2>1. i0 <= j0
      BY <1>3, <1>6, <1>7
    <2>2. i0 \in 1 .. n /\ j0 \in 1 .. n /\ i0 \in 1 .. Len(text) /\ j0 \in 1 .. Len(text)
      BY <1>1, <1>2, <2>1
    <2>3. Fits(text, i0, j0)
      BY <1>1, <1>2, <1>7, <2>1, <2>2 DEF Fits, Stretch
    <2>4. ASSUME NEW i \in 1 .. n, NEW j \in 1 .. n, Fits(text, i, j)
          PROVE  Beats(text, i0, j0, i, j)
      <3>1. i \in Int /\ j \in Int /\ i <= j /\ Bytes(text, i, j) \in Nat
        BY <1>1, <2>4, BytesGrow DEF Fits
      <3>2. CASE start <= j
        <4>1. i0 <= i /\ j <= j0
          BY <1>5, <2>4, <3>2
        <4>2. Bytes(text, i, j) <= Bytes(text, i0, j0)
          BY <1>3, <3>1, <4>1, BytesGrow
        <4> QED
          BY <1>3, <1>6, <3>1, <4>1, <4>2 DEF Beats
      <3>3. CASE j < start
        <4>1. i \in 1 .. start - 1 /\ j \in 1 .. start - 1
          BY <1>1, <3>1, <3>3
        <4>2. Beats(text, b, e, i, j)
          BY <2>4, <4>1 DEF Best
        <4> QED
          BY <1>6, <1>7, <3>1, <4>2 DEF Beats
      <3> QED
        BY <3>1, <3>2, <3>3
    <2>5. Best(text, i0, j0, n)
      BY <2>1, <2>2, <2>3, <2>4 DEF Best
    <2> QED
      BY <1>3, <1>4, <1>7, <2>5
  <1>8. CASE ~ (Bytes(text, i0, j0) > Bytes(text, b, e) /\ HasOperator(text, i0, j0))
    <2>1. b <= e => b \in 1 .. start - 1 /\ e \in 1 .. start - 1 /\ Fits(text, b, e)
      BY DEF Best
    <2>2. ASSUME NEW i \in 1 .. n, NEW j \in 1 .. n, Fits(text, i, j)
          PROVE  b <= e /\ Beats(text, b, e, i, j)
      <3>1. i \in Int /\ j \in Int /\ i <= j /\ Bytes(text, i, j) \in Nat /\ Bytes(text, i, j) > 0
        BY <1>1, <2>2, BytesGrow DEF Fits
      <3>2. CASE start <= j
        <4>1. start <= i /\ i0 <= i /\ j <= j0 /\ HasOperator(text, i0, j0)
          BY <1>5, <2>2, <3>2
        <4>2. Bytes(text, i, j) <= Bytes(text, i0, j0)
          BY <1>3, <3>1, <4>1, BytesGrow
        <4>3. Bytes(text, i, j) <= Bytes(text, b, e)
          BY <1>6, <1>8, <3>1, <4>1, <4>2
        <4>4. b <= e
          BY <1>6, <3>1, <4>3
        <4>5. b <= i
          BY <1>1, <2>1, <3>1, <4>1, <4>4
        <4> QED
          BY <1>6, <3>1, <4>3, <4>4, <4>5 DEF Beats
      <3>3. CASE j < start
        <4>1. i \in 1 .. start - 1 /\ j \in 1 .. start - 1
          BY <1>1, <3>1, <3>3
        <4> QED
          BY <2>2, <4>1 DEF Best
      <3> QED
        BY <3>1, <3>2, <3>3
    <2>3. b <= e => b \in 1 .. n /\ e \in 1 .. n /\ Fits(text, b, e)
      BY <1>1, <2>1
    <2>4. Best(text, b, e, n)
      BY <2>2, <2>3 DEF Best
    <2> QED
      BY <1>4, <1>8, <2>4
  <1> QED
    BY <1>7, <1>8

LEMMA ReadType ==
    ASSUME NEW text \in Seq(Characters), NEW n \in 0 .. Len(text), NEW f,
           n > 0 => f[n - 1] \in [best : Int \X Int, start : 1 .. n]
    PROVE  Read(text, f, n) \in [best : Int \X Int, start : 1 .. n + 1]
  <1>1. Len(text) \in Nat /\ n \in Nat
    BY Characterwise
  <1>2. CASE n = 0
    BY <1>2 DEF Read
  <1>3. CASE n # 0 /\ text[n] \in Arithmetic
    BY <1>1, <1>3 DEF Read
  <1>4. CASE n # 0 /\ text[n] \notin Arithmetic
    <2> DEFINE found == f[n - 1]
    <2>1. found.start \in 1 .. n /\ found.best \in Int \X Int /\ n - 1 \in 0 .. Len(text)
      BY <1>1, <1>4
    <2>2. found.start \in 1 .. Len(text) + 1
      BY <1>1, <2>1
    <2> HIDE DEF found
    <2>3. SkipSpaces(text, found.start) \in Int /\ BackSpaces(text, n - 1) \in Int
      BY <1>1, <2>1, <2>2, SkipsSpaces, BacksSpaces
    <2>4. Flush(text, found, n - 1) \in Int \X Int
      BY <2>1, <2>3 DEF Flush
    <2>5. Read(text, f, n) = [best |-> Flush(text, found, n - 1), start |-> n + 1]
      BY <1>4 DEF Read, found
    <2> QED
      BY <1>1, <2>4, <2>5
  <1> QED
    BY <1>2, <1>3, <1>4

LEMMA ReadLocal ==
    ASSUME NEW text, NEW f, NEW g, NEW l \in Nat, NEW n \in 0 .. l,
           \A d \in 0 .. l : d < n => f[d] = g[d]
    PROVE  Read(text, f, n) = Read(text, g, n)
  <1>1. n = 0 \/ f[n - 1] = g[n - 1]
    OBVIOUS
  <1> QED
    BY <1>1 DEF Read

LEMMA ScanEquation ==
    ASSUME NEW text \in Seq(Characters)
    PROVE  \A n \in 0 .. Len(text) : /\ Scan(text)[n] = Read(text, Scan(text), n)
                                     /\ Scan(text)[n] \in [best : Int \X Int, start : 1 .. n + 1]
  <1> DEFINE X == 0 .. Len(text)
             Y == [best : Int \X Int, start : Int]
             R == [n \in X |-> [best : Int \X Int, start : 1 .. n + 1]]
             m == [n \in X |-> n]
             F == Within(X, Y, R)
             B == [f \in F |-> [n \in X |-> Read(text, f, n)]]
  <1>1. Len(text) \in Nat
    BY Characterwise
  <1>2. m \in [X -> Nat] /\ R \in [X -> SUBSET Y]
    BY <1>1
  <1>3. F # {}
    <2>1. [n \in X |-> [best |-> <<1, 0>>, start |-> 1]] \in F
      BY <1>1 DEF Within
    <2> QED
      BY <2>1
  <1>4. B \in [F -> F]
    <2>1. ASSUME NEW f \in F
          PROVE  [n \in X |-> Read(text, f, n)] \in F
      <3>1. ASSUME NEW n \in X
            PROVE  Read(text, f, n) \in R[n]
        <4>1. n > 0 => n - 1 \in X /\ f[n - 1] \in [best : Int \X Int, start : 1 .. (n - 1) + 1]
          BY <1>1 DEF Within
        <4>2. (n - 1) + 1 = n
          BY <1>1
        <4> QED
          BY <4>1, <4>2, ReadType
      <3>2. \A n \in X : R[n] \subseteq Y
        BY <1>2
      <3> HIDE DEF R, Y
      <3> QED
        BY <3>1, <3>2 DEF Within
    <2> QED
      BY <2>1
  <1>5. ASSUME NEW f, NEW g, NEW c \in X, \A d \in X : m[d] < m[c] => f[d] = g[d]
        PROVE  Read(text, f, c) = Read(text, g, c)
    <2>1. \A d \in 0 .. Len(text) : d < c => f[d] = g[d]
      BY <1>1, <1>5
    <2> QED
      BY <1>1, <2>1, ReadLocal
  <1>6. PICK f \in F : B[f] = f
    <2>1. Descends(X, F, B, m)
      BY <1>5 DEF Descends
    <2> HIDE DEF B, R, m, X, Y
    <2> QED
      BY <1>2, <1>3, <1>4, <2>1, FixedPoint
  <1>7. f = [n \in X |-> Read(text, f, n)]
    BY <1>6
  <1> DEFINE scan == CHOOSE h : h = [n \in X |-> Read(text, h, n)]
  <1>8. scan = [n \in X |-> Read(text, scan, n)]
    BY <1>7, Zenon
  <1>9. scan = f
    <2> HIDE DEF scan, F
    <2>1. Follows(X, scan, f, m)
      BY <1>5, <1>7, <1>8 DEF Follows
    <2>2. FunctionOn(scan, X) /\ FunctionOn(f, X)
      BY <1>7, <1>8 DEF FunctionOn
    <2> HIDE DEF X, m, B
    <2> QED
      BY <1>2, <2>1, <2>2, SameFunction, Zenon
  <1>10. Scan(text) = scan
    BY Zenon DEF Scan
  <1> HIDE DEF scan, B
  <1> QED
    BY <1>1, <1>7, <1>9, <1>10 DEF Within

\* What is known after n characters.
Scanned(text, n) ==
    LET scan == Scan(text)[n] IN
    /\ Stretch(text, scan.start, n)
    /\ Best(text, scan.best[1], scan.best[2], scan.start - 1)

LEMMA ScanStep ==
    ASSUME NEW text \in Seq(Characters), NEW n \in 1 .. Len(text), Scanned(text, n - 1)
    PROVE  Scanned(text, n)
  <1> DEFINE scan(k) == Scan(text)[k]
  <1>1. Len(text) \in Nat /\ n - 1 \in 0 .. Len(text) /\ n \in 0 .. Len(text) /\ (n - 1) + 1 = n
    BY Characterwise
  <1>2. /\ scan(n - 1) \in [best : Int \X Int, start : 1 .. n]
        /\ scan(n) = Read(text, Scan(text), n)
    BY <1>1, ScanEquation
  <1>3. PICK st \in 1 .. n, b \in Int, e \in Int : scan(n - 1).start = st /\ scan(n - 1).best = <<b, e>>
    BY <1>2
  <1>4. Stretch(text, st, n - 1) /\ Best(text, b, e, st - 1)
    BY <1>3 DEF Scanned
  <1>5. CASE text[n] \in Arithmetic
    <2>1. scan(n) = scan(n - 1)
      BY <1>2, <1>5 DEF Read
    <2>2. Stretch(text, st, n)
      BY <1>1, <1>4, <1>5 DEF Stretch
    <2> QED
      BY <1>3, <1>4, <2>1, <2>2 DEF Scanned
  <1>6. CASE text[n] \notin Arithmetic
    <2> DEFINE found == scan(n - 1)
    <2>5. found.start = st /\ found.best = <<b, e>> /\ st \in Int
      BY <1>3
    <2>6. scan(n) = [best |-> Flush(text, found, n - 1), start |-> n + 1]
      BY <1>2, <1>6 DEF Read
    <2> HIDE DEF found
    <2>1. PICK c, d \in Int : Flush(text, found, n - 1) = <<c, d>> /\ Best(text, c, d, n - 1)
      BY <1>1, <1>4, <2>5, FlushKeepsBest
    <2>2. scan(n) = [best |-> <<c, d>>, start |-> n + 1]
      BY <2>1, <2>6
    <2>3. Best(text, c, d, n)
      <3>1. ASSUME NEW i \in 1 .. n, NEW j \in 1 .. n, Fits(text, i, j)
            PROVE  i \in 1 .. n - 1 /\ j \in 1 .. n - 1
        BY <1>1, <1>6, <3>1 DEF Fits
      <3> QED
        BY <1>1, <2>1, <3>1 DEF Best
    <2>4. Stretch(text, n + 1, n)
      BY <1>1, <1>6 DEF Stretch
    <2> QED
      BY <1>1, <2>2, <2>3, <2>4 DEF Scanned
  <1> QED
    BY <1>5, <1>6

LEMMA ScanInvariant ==
    ASSUME NEW text \in Seq(Characters)
    PROVE  \A n \in 0 .. Len(text) : Scanned(text, n)
  <1> DEFINE T == {n \in 0 .. Len(text) : ~ Scanned(text, n)}
  <1>1. Len(text) \in Nat
    BY Characterwise
  <1>2. Scanned(text, 0)
    <2>1. Scan(text)[0] = [best |-> <<1, 0>>, start |-> 1]
      <3>1. 0 \in 0 .. Len(text)
        BY <1>1
      <3>2. Scan(text)[0] = Read(text, Scan(text), 0)
        BY <3>1, ScanEquation
      <3> QED
        BY <3>2 DEF Read
    <2>2. Stretch(text, 1, 0) /\ Best(text, 1, 0, 0)
      BY DEF Stretch, Best
    <2> QED
      BY <2>1, <2>2 DEF Scanned
  <1>3. ASSUME NEW n \in T, \A k \in T : n <= k
        PROVE  FALSE
    <2>1. n \in 1 .. Len(text)
      BY <1>1, <1>2
    <2>2. n - 1 \in 0 .. Len(text) /\ n - 1 \notin T
      <3> HIDE DEF T
      <3> QED
        BY <1>1, <1>3, <2>1
    <2> QED
      BY <2>1, <2>2, ScanStep
  <1>4. T \in SUBSET Nat
    BY <1>1
  <1>5. T = {}
    <2> HIDE DEF T
    <2> QED
      BY <1>3, <1>4, LeastNatural
  <1> QED
    BY <1>5

LEMMA ExtractsBest ==
    ASSUME NEW text \in Seq(Characters)
    PROVE  \E b, e \in Int : ExtractExpression(text) = <<b, e>> /\ Best(text, b, e, Len(text))
  <1> DEFINE l == Len(text)
             scan == Scan(text)[l]
  <1>1. l \in Nat /\ l \in 0 .. Len(text)
    BY Characterwise
  <1>2. scan \in [best : Int \X Int, start : 1 .. l + 1] /\ Scanned(text, l)
    BY <1>1, ScanEquation, ScanInvariant
  <1>3. PICK st \in 1 .. l + 1, b \in Int, e \in Int : scan.start = st /\ scan.best = <<b, e>>
    BY <1>2
  <1>4. Stretch(text, st, l) /\ Best(text, b, e, st - 1)
    BY <1>2, <1>3 DEF Scanned
  <1>5. ExtractExpression(text) = Flush(text, scan, l) /\ st \in Int
    BY <1>3 DEF ExtractExpression
  <1> HIDE DEF scan
  <1> QED
    BY <1>1, <1>3, <1>4, <1>5, FlushKeepsBest

-----------------------------------------------------------------------------
(* The messages.                                                           *)

\* A message is made of the characters told apart.
MessageType == message \in Seq(Characters) /\ alphabet \in SUBSET Characters

LEMMA Messages ==
    Spec => []MessageType
  <1>1. Init => MessageType
    BY MessageAssumption DEF Init, MessageType
  <1>2. MessageType /\ [Type]_<<message, alphabet>> => MessageType'
    BY DEF MessageType, Type
  <1> QED
    BY <1>1, <1>2, PTL DEF Spec

LEMMA ReplacedText ==
    ASSUME MessageType
    PROVE  ReplaceTimes(message) \in Seq(Characters)
  <1>1. "*" \in Characters
    BY DEF Characters, Operators
  <1>2. /\ DOMAIN message = 1 .. Len(message) /\ Len(message) \in Nat
        /\ \A i \in DOMAIN message : message[i] \in Characters
    BY DEF MessageType
  <1> HIDE DEF MessageType
  <1> QED
    BY <1>1, <1>2 DEF ReplaceTimes

\* What extractExpression takes for the expression is the first of the longest
\* pieces of the message that could be one.
THEOREM LongestIsExtracted ==
    Spec => []ExtractsTheLongest
  <1>1. ASSUME MessageType
        PROVE  ExtractsTheLongest
    <2> DEFINE text == ReplaceTimes(message)
               Fit == {p \in (DOMAIN text) \X (DOMAIN text) : Fits(text, p[1], p[2])}
    <2>1. text \in Seq(Characters) /\ Len(text) \in Nat /\ DOMAIN text = 1 .. Len(text)
      BY <1>1, ReplacedText, Characterwise
    <2> HIDE DEF text
    <2>2. PICK b, e \in Int : ExtractExpression(text) = <<b, e>> /\ Best(text, b, e, Len(text))
      BY <2>1, ExtractsBest
    <2>3. \A q \in Fit : b <= e /\ Beats(text, b, e, q[1], q[2])
      BY <2>1, <2>2 DEF Best
    <2>4. b <= e => <<b, e>> \in Fit
      BY <2>1, <2>2 DEF Best
    <2>5. IF Fit = {} THEN b > e
          ELSE /\ <<b, e>> \in Fit
               /\ \A q \in Fit : \/ Bytes(text, q[1], q[2]) < Bytes(text, b, e)
                                 \/ Bytes(text, q[1], q[2]) = Bytes(text, b, e) /\ b <= q[1]
      BY <2>3, <2>4 DEF Beats
    <2> QED
      BY <2>2, <2>5 DEF ExtractsTheLongest, text
  <1> QED
    BY <1>1, Messages, PTL

-----------------------------------------------------------------------------
(* The parser as a function that satisfies its equations.                  *)

\* What a method may return: a failure, or a position not below low.
Results(s)      == [ok : BOOLEAN, pos : 0 .. Len(s) + 1, val : Number]
Outcome(s, low) == {r \in Results(s) : r.ok => low <= r.pos}

\* A loop may return where it was called, any other method reads something.
Typed(s, f) ==
    \A p \in 1 .. Len(s) + 1, v \in Number :
        /\ f[<<"expression", p, v>>] \in Outcome(s, p + 1)
        /\ f[<<"terms", p, v>>] \in Outcome(s, p)
        /\ f[<<"term", p, v>>] \in Outcome(s, p + 1)
        /\ f[<<"factors", p, v>>] \in Outcome(s, p)
        /\ f[<<"factor", p, v>>] \in Outcome(s, p + 1)

LEMMA OutcomeIs ==
    ASSUME NEW s \in Seq(Characters), NEW low \in 1 .. Len(s) + 2
    PROVE  /\ Fail \in Outcome(s, low)
           /\ \A q \in low .. Len(s) + 1, v \in Number : Done(q, v) \in Outcome(s, low)
           /\ \A r \in Outcome(s, low) : /\ r.ok \in BOOLEAN /\ r.pos \in Int /\ r.val \in Number
                                         /\ r.ok => r.pos \in low .. Len(s) + 1 /\ r.pos \in 1 .. Len(s) + 1
           /\ \A b \in 1 .. low : Outcome(s, low) \subseteq Outcome(s, b)
  <1>1. Len(s) \in Nat
    BY Characterwise
  <1>2. Fail \in Outcome(s, low)
    BY <1>1, NumberType DEF Fail, Outcome, Results
  <1>3. \A q \in low .. Len(s) + 1, v \in Number : Done(q, v) \in Outcome(s, low)
    BY <1>1 DEF Done, Outcome, Results
  <1>4. \A r \in Outcome(s, low) : /\ r.ok \in BOOLEAN /\ r.pos \in Int /\ r.val \in Number
                                   /\ r.ok => r.pos \in low .. Len(s) + 1 /\ r.pos \in 1 .. Len(s) + 1
    BY <1>1 DEF Outcome, Results
  <1>5. \A b \in 1 .. low : Outcome(s, low) \subseteq Outcome(s, b)
    BY <1>1 DEF Outcome, Results
  <1> QED
    BY <1>2, <1>3, <1>4, <1>5

LEMMA NumberOutcome ==
    ASSUME NEW s \in Seq(Characters), NEW p \in 1 .. Len(s) + 1
    PROVE  ParseNumber(s, p) \in Outcome(s, p + 1)
  <1> DEFINE T == {q \in p .. Len(s) : Figures(s, p, q)}
  <1>1. Len(s) \in Nat /\ p \in Nat /\ p + 1 \in 1 .. Len(s) + 2
    BY Characterwise
  <1>2. CASE T # {} /\ IsNumber(s, p, Max(T))
    <2>1. T \in SUBSET Nat /\ \A q \in T : q <= Len(s)
      BY <1>1
    <2>2. Max(T) \in T
      <3> HIDE DEF T
      <3> QED
        BY <1>1, <1>2, <2>1, MaxIs
    <2>3. Max(T) \in p .. Len(s) /\ Max(T) \in p - 1 .. Len(s) /\ Figures(s, p, Max(T))
      BY <1>1, <2>2
    <2>4. ParseFloat(s, p, Max(T)) \in Number
      BY <2>3, ParseFloatType
    <2>5. ParseNumber(s, p) = Done(Max(T) + 1, ParseFloat(s, p, Max(T)))
      BY <1>2 DEF ParseNumber
    <2>6. Max(T) + 1 \in p + 1 .. Len(s) + 1
      BY <1>1, <2>3
    <2> HIDE DEF T
    <2> QED
      BY <1>1, <2>4, <2>5, <2>6, OutcomeIs
  <1>3. CASE ~ (T # {} /\ IsNumber(s, p, Max(T)))
    <2>1. ParseNumber(s, p) = Fail
      BY <1>3 DEF ParseNumber
    <2> QED
      BY <1>1, <2>1, OutcomeIs
  <1> QED
    BY <1>2, <1>3

LEMMA FactorOutcome ==
    ASSUME NEW s \in Seq(Characters), NEW f, Typed(s, f), NEW p0 \in 1 .. Len(s) + 1
    PROVE  ParseFactor(s, f, p0) \in Outcome(s, p0 + 1)
  <1> DEFINE p == SkipSpaces(s, p0)
             after == f[<<"factor", p + 1, Zero>>]
             inner == f[<<"expression", p + 1, Zero>>]
             close == SkipSpaces(s, inner.pos)
  <1>1. Len(s) \in Nat /\ p0 \in Nat /\ p0 + 1 \in 1 .. Len(s) + 2
    BY Characterwise
  <1>2. p \in p0 .. Len(s) + 1 /\ p \in 1 .. Len(s) + 1
    BY <1>1, SkipsSpaces
  <1>3. ASSUME At(s, p) # "end"
        PROVE  /\ p + 1 \in p0 + 1 .. Len(s) + 1 /\ p + 1 \in 1 .. Len(s) + 1
               /\ after \in Outcome(s, p + 2) /\ inner \in Outcome(s, p + 2)
               /\ p + 2 \in 1 .. Len(s) + 2
    <2>1. p <= Len(s)
      BY <1>1, <1>2, <1>3, Characterwise
    <2>2. /\ p + 1 \in p0 + 1 .. Len(s) + 1 /\ p + 1 \in 1 .. Len(s) + 1
          /\ p + 2 \in 1 .. Len(s) + 2 /\ (p + 1) + 1 = p + 2
      BY <1>1, <1>2, <2>1
    <2> HIDE DEF p
    <2>3. after \in Outcome(s, (p + 1) + 1) /\ inner \in Outcome(s, (p + 1) + 1)
      BY <2>2, NumberType DEF Typed
    <2> QED
      BY <2>2, <2>3
  <1>4. p0 + 1 \in 1 .. p + 2
    BY <1>1, <1>2
  <1>5. ParseFactor(s, f, p0) = CASE At(s, p) = "+" -> after
          [] At(s, p) = "-" -> IF after.ok THEN Done(after.pos, Negate(after.val)) ELSE Fail
          [] At(s, p) = "(" -> IF inner.ok /\ At(s, close) = ")" THEN Done(close + 1, inner.val)
                                                                 ELSE Fail
          [] OTHER          -> ParseNumber(s, p)
    BY DEF ParseFactor
  <1> HIDE DEF p, after
  <1>6. CASE At(s, p) = "+"
    BY <1>3, <1>4, <1>5, <1>6, OutcomeIs
  <1>7. CASE At(s, p) = "-"
    <2>1. CASE after.ok
      <3>1. after.pos \in p + 2 .. Len(s) + 1 /\ after.val \in Number
        BY <1>3, <1>7, <2>1, OutcomeIs
      <3>2. after.pos \in p0 + 1 .. Len(s) + 1
        BY <1>1, <1>2, <3>1
      <3> QED
        BY <1>1, <1>5, <1>7, <2>1, <3>1, <3>2, NumberType, OutcomeIs
    <2>2. CASE ~ after.ok
      BY <1>1, <1>5, <1>7, <2>2, OutcomeIs
    <2> QED
      BY <2>1, <2>2
  <1>8. CASE At(s, p) = "("
    <2>1. CASE inner.ok /\ At(s, close) = ")"
      <3>1. inner.pos \in p + 2 .. Len(s) + 1 /\ inner.pos \in 1 .. Len(s) + 1 /\ inner.val \in Number
        BY <1>3, <1>8, <2>1, OutcomeIs
      <3>2. close \in inner.pos .. Len(s) + 1
        BY <3>1, SkipsSpaces
      <3> HIDE DEF inner, close
      <3>3. close \in Int /\ close <= Len(s)
        BY <1>1, <2>1, <3>1, <3>2, Characterwise
      <3>4. close + 1 \in p0 + 1 .. Len(s) + 1
        BY <1>1, <1>2, <3>1, <3>2, <3>3
      <3> QED
        BY <1>1, <1>5, <1>8, <2>1, <3>1, <3>4, OutcomeIs
    <2>2. CASE ~ (inner.ok /\ At(s, close) = ")")
      BY <1>1, <1>5, <1>8, <2>2, OutcomeIs
    <2> QED
      BY <2>1, <2>2
  <1>9. CASE At(s, p) \notin {"+", "-", "("}
    <2>1. ParseNumber(s, p) \in Outcome(s, p + 1)
      BY <1>2, NumberOutcome
    <2>2. p + 1 \in 1 .. Len(s) + 2 /\ p0 + 1 \in 1 .. p + 1
      BY <1>1, <1>2
    <2>3. ParseFactor(s, f, p0) = ParseNumber(s, p)
      BY <1>5, <1>9
    <2> QED
      BY <2>1, <2>2, <2>3, OutcomeIs
  <1> QED
    BY <1>6, <1>7, <1>8, <1>9

LEMMA FactorsOutcome ==
    ASSUME NEW s \in Seq(Characters), NEW f, Typed(s, f), NEW p0 \in 1 .. Len(s) + 1, NEW left \in Number
    PROVE  MoreFactors(s, f, p0, left) \in Outcome(s, p0)
  <1> DEFINE p     == SkipSpaces(s, p0)
             right == f[<<"factor", p + 1, Zero>>]
             v1    == Times(left, right.val)
             v2    == Times(left, Invert(right.val))
  <1>1. Len(s) \in Nat /\ p0 \in Nat /\ p0 \in 1 .. Len(s) + 2
    BY Characterwise
  <1>2. p \in p0 .. Len(s) + 1 /\ p \in 1 .. Len(s) + 1
    BY <1>1, SkipsSpaces
  <1>3. MoreFactors(s, f, p0, left) =
          CASE At(s, p) = "*" -> IF right.ok THEN f[<<"factors", right.pos, v1>>] ELSE Fail
          [] At(s, p) = "/" -> IF right.ok /\ right.val.num # 0 THEN f[<<"factors", right.pos, v2>>] ELSE Fail
          [] OTHER -> Done(p, left)
    BY DEF MoreFactors
  <1>4. ASSUME At(s, p) \in {"*", "/"}
        PROVE  right \in Outcome(s, p + 2) /\ p + 2 \in 1 .. Len(s) + 2
    <2>1. p <= Len(s)
      BY <1>1, <1>2, <1>4, Characterwise
    <2>2. p + 1 \in 1 .. Len(s) + 1 /\ p + 2 \in 1 .. Len(s) + 2 /\ (p + 1) + 1 = p + 2
      BY <1>1, <1>2, <2>1
    <2> HIDE DEF p
    <2>3. right \in Outcome(s, (p + 1) + 1)
      BY <2>2, NumberType DEF Typed
    <2> QED
      BY <2>2, <2>3
  <1> HIDE DEF p, right
  <1>5. ASSUME At(s, p) \in {"*", "/"}, right.ok
        PROVE  /\ f[<<"factors", right.pos, v1>>] \in Outcome(s, p0)
               /\ f[<<"factors", right.pos, v2>>] \in Outcome(s, p0)
    <2>1. right.pos \in p + 2 .. Len(s) + 1 /\ right.pos \in 1 .. Len(s) + 1 /\ right.val \in Number
      BY <1>4, <1>5, OutcomeIs
    <2>2. v1 \in Number /\ v2 \in Number
      BY <2>1, NumberType
    <2> HIDE DEF v1, v2
    <2>3. /\ f[<<"factors", right.pos, v1>>] \in Outcome(s, right.pos)
          /\ f[<<"factors", right.pos, v2>>] \in Outcome(s, right.pos)
      BY <2>1, <2>2 DEF Typed
    <2>4. p0 \in 1 .. right.pos /\ right.pos \in 1 .. Len(s) + 2
      BY <1>1, <1>2, <2>1
    <2> QED
      BY <2>3, <2>4, OutcomeIs
  <1> HIDE DEF v1, v2
  <1>6. CASE At(s, p) \in {"*", "/"}
    BY <1>1, <1>3, <1>5, <1>6, OutcomeIs
  <1>7. CASE At(s, p) \notin {"*", "/"}
    BY <1>1, <1>2, <1>3, <1>7, OutcomeIs
  <1> QED
    BY <1>6, <1>7

LEMMA TermsOutcome ==
    ASSUME NEW s \in Seq(Characters), NEW f, Typed(s, f), NEW p0 \in 1 .. Len(s) + 1, NEW left \in Number
    PROVE  MoreTerms(s, f, p0, left) \in Outcome(s, p0)
  <1> DEFINE p     == SkipSpaces(s, p0)
             right == f[<<"term", p + 1, Zero>>]
             v1    == Plus(left, right.val)
             v2    == Plus(left, Negate(right.val))
  <1>1. Len(s) \in Nat /\ p0 \in Nat /\ p0 \in 1 .. Len(s) + 2
    BY Characterwise
  <1>2. p \in p0 .. Len(s) + 1 /\ p \in 1 .. Len(s) + 1
    BY <1>1, SkipsSpaces
  <1>3. MoreTerms(s, f, p0, left) = CASE At(s, p) = "+" -> IF right.ok THEN f[<<"terms", right.pos, v1>>] ELSE Fail
          [] At(s, p) = "-" -> IF right.ok THEN f[<<"terms", right.pos, v2>>] ELSE Fail
          [] OTHER -> Done(p, left)
    BY DEF MoreTerms
  <1>4. ASSUME At(s, p) \in {"+", "-"}
        PROVE  right \in Outcome(s, p + 2) /\ p + 2 \in 1 .. Len(s) + 2
    <2>1. p <= Len(s)
      BY <1>1, <1>2, <1>4, Characterwise
    <2>2. p + 1 \in 1 .. Len(s) + 1 /\ p + 2 \in 1 .. Len(s) + 2 /\ (p + 1) + 1 = p + 2
      BY <1>1, <1>2, <2>1
    <2> HIDE DEF p
    <2>3. right \in Outcome(s, (p + 1) + 1)
      BY <2>2, NumberType DEF Typed
    <2> QED
      BY <2>2, <2>3
  <1> HIDE DEF p, right
  <1>5. ASSUME At(s, p) \in {"+", "-"}, right.ok
        PROVE  f[<<"terms", right.pos, v1>>] \in Outcome(s, p0) /\ f[<<"terms", right.pos, v2>>] \in Outcome(s, p0)
    <2>1. right.pos \in p + 2 .. Len(s) + 1 /\ right.pos \in 1 .. Len(s) + 1 /\ right.val \in Number
      BY <1>4, <1>5, OutcomeIs
    <2>2. v1 \in Number /\ v2 \in Number
      BY <2>1, NumberType
    <2> HIDE DEF v1, v2
    <2>3. /\ f[<<"terms", right.pos, v1>>] \in Outcome(s, right.pos)
          /\ f[<<"terms", right.pos, v2>>] \in Outcome(s, right.pos)
      BY <2>1, <2>2 DEF Typed
    <2>4. p0 \in 1 .. right.pos /\ right.pos \in 1 .. Len(s) + 2
      BY <1>1, <1>2, <2>1
    <2> QED
      BY <2>3, <2>4, OutcomeIs
  <1> HIDE DEF v1, v2
  <1>6. CASE At(s, p) \in {"+", "-"}
    BY <1>1, <1>3, <1>5, <1>6, OutcomeIs
  <1>7. CASE At(s, p) \notin {"+", "-"}
    BY <1>1, <1>2, <1>3, <1>7, OutcomeIs
  <1> QED
    BY <1>6, <1>7

LEMMA TermOutcome ==
    ASSUME NEW s \in Seq(Characters), NEW f, Typed(s, f), NEW p \in 1 .. Len(s) + 1
    PROVE  ParseTerm(s, f, p) \in Outcome(s, p + 1)
  <1> DEFINE left == f[<<"factor", p, Zero>>]
             rest == f[<<"factors", left.pos, left.val>>]
  <1>1. Len(s) \in Nat /\ p \in Nat /\ p + 1 \in 1 .. Len(s) + 2
    BY Characterwise
  <1>2. left \in Outcome(s, p + 1)
    BY NumberType DEF Typed
  <1>3. ParseTerm(s, f, p) = IF left.ok THEN rest ELSE Fail
    BY DEF ParseTerm
  <1> HIDE DEF left
  <1>4. CASE left.ok
    <2>1. left.pos \in p + 1 .. Len(s) + 1 /\ left.pos \in 1 .. Len(s) + 1 /\ left.val \in Number
      BY <1>1, <1>2, <1>4, OutcomeIs
    <2>2. rest \in Outcome(s, left.pos)
      BY <2>1 DEF Typed
    <2>3. p + 1 \in 1 .. left.pos /\ left.pos \in 1 .. Len(s) + 2
      BY <1>1, <2>1
    <2> HIDE DEF rest
    <2> QED
      BY <1>3, <1>4, <2>2, <2>3, OutcomeIs
  <1>5. CASE ~ left.ok
    BY <1>1, <1>3, <1>5, OutcomeIs
  <1> QED
    BY <1>4, <1>5

LEMMA ExpressionOutcome ==
    ASSUME NEW s \in Seq(Characters), NEW f, Typed(s, f), NEW p \in 1 .. Len(s) + 1
    PROVE  ParseExpression(s, f, p) \in Outcome(s, p + 1)
  <1> DEFINE left == f[<<"term", p, Zero>>]
             rest == f[<<"terms", left.pos, left.val>>]
  <1>1. Len(s) \in Nat /\ p \in Nat /\ p + 1 \in 1 .. Len(s) + 2
    BY Characterwise
  <1>2. left \in Outcome(s, p + 1)
    BY NumberType DEF Typed
  <1>3. ParseExpression(s, f, p) = IF left.ok THEN rest ELSE Fail
    BY DEF ParseExpression
  <1> HIDE DEF left
  <1>4. CASE left.ok
    <2>1. left.pos \in p + 1 .. Len(s) + 1 /\ left.pos \in 1 .. Len(s) + 1 /\ left.val \in Number
      BY <1>1, <1>2, <1>4, OutcomeIs
    <2>2. rest \in Outcome(s, left.pos)
      BY <2>1 DEF Typed
    <2>3. p + 1 \in 1 .. left.pos /\ left.pos \in 1 .. Len(s) + 2
      BY <1>1, <2>1
    <2> HIDE DEF rest
    <2> QED
      BY <1>3, <1>4, <2>2, <2>3, OutcomeIs
  <1>5. CASE ~ left.ok
    BY <1>1, <1>3, <1>5, OutcomeIs
  <1> QED
    BY <1>4, <1>5

\* Two functions that agree on the calls from positions above p.
Higher(s, f, g, p) ==
    \A method \in Methods, q \in p + 1 .. Len(s) + 1, v \in Number : f[<<method, q, v>>] = g[<<method, q, v>>]

LEMMA FactorLocal ==
    ASSUME NEW s \in Seq(Characters), NEW f, NEW g, NEW p0 \in 1 .. Len(s) + 1, Higher(s, f, g, p0)
    PROVE  ParseFactor(s, f, p0) = ParseFactor(s, g, p0)
  <1> DEFINE p == SkipSpaces(s, p0)
  <1>1. Len(s) \in Nat /\ p0 \in Nat /\ p \in p0 .. Len(s) + 1
    BY Characterwise, SkipsSpaces
  <1>2. CASE At(s, p) \in {"+", "-", "("}
    <2>1. p <= Len(s)
      BY <1>1, <1>2, Characterwise
    <2>2. p + 1 \in p0 + 1 .. Len(s) + 1
      BY <1>1, <2>1
    <2> HIDE DEF p
    <2>3. /\ f[<<"factor", p + 1, Zero>>] = g[<<"factor", p + 1, Zero>>]
          /\ f[<<"expression", p + 1, Zero>>] = g[<<"expression", p + 1, Zero>>]
      BY <2>2, NumberType DEF Higher, Methods
    <2> USE DEF p
    <2> QED
      BY <1>2, <2>3 DEF ParseFactor
  <1>3. CASE At(s, p) \notin {"+", "-", "("}
    BY <1>3 DEF ParseFactor
  <1> QED
    BY <1>2, <1>3

LEMMA FactorsLocal ==
    ASSUME NEW s \in Seq(Characters), NEW f, NEW g, Typed(s, g), NEW p0 \in 1 .. Len(s) + 1,
           NEW left \in Number, Higher(s, f, g, p0)
    PROVE  MoreFactors(s, f, p0, left) = MoreFactors(s, g, p0, left)
  <1> DEFINE p     == SkipSpaces(s, p0)
             right == g[<<"factor", p + 1, Zero>>]
  <1>1. Len(s) \in Nat /\ p0 \in Nat /\ p \in p0 .. Len(s) + 1 /\ p \in 1 .. Len(s) + 1
    BY Characterwise, SkipsSpaces
  <1>2. CASE At(s, p) \in {"*", "/"}
    <2>1. p <= Len(s)
      BY <1>1, <1>2, Characterwise
    <2>2. /\ p + 1 \in p0 + 1 .. Len(s) + 1 /\ p + 1 \in 1 .. Len(s) + 1
          /\ p + 2 \in 1 .. Len(s) + 2 /\ (p + 1) + 1 = p + 2
      BY <1>1, <2>1
    <2> HIDE DEF p
    <2>3. f[<<"factor", p + 1, Zero>>] = right
      BY <2>2, NumberType DEF Higher, Methods
    <2>4. right \in Outcome(s, p + 2)
      BY <2>2, NumberType DEF Typed
    <2> HIDE DEF right
    <2>5. ASSUME right.ok
          PROVE  /\ f[<<"factors", right.pos, Times(left, right.val)>>]
                      = g[<<"factors", right.pos, Times(left, right.val)>>]
                 /\ f[<<"factors", right.pos, Times(left, Invert(right.val))>>]
                      = g[<<"factors", right.pos, Times(left, Invert(right.val))>>]
      <3>1. right.pos \in p + 2 .. Len(s) + 1 /\ right.val \in Number
        BY <2>2, <2>4, <2>5, OutcomeIs
      <3>2. right.pos \in p0 + 1 .. Len(s) + 1
        BY <1>1, <2>2, <3>1
      <3> QED
        BY <3>1, <3>2, NumberType DEF Higher, Methods
    <2> USE DEF p, right
    <2> QED
      BY <1>2, <2>3, <2>5 DEF MoreFactors
  <1>3. CASE At(s, p) \notin {"*", "/"}
    BY <1>3 DEF MoreFactors
  <1> QED
    BY <1>2, <1>3

LEMMA TermsLocal ==
    ASSUME NEW s \in Seq(Characters), NEW f, NEW g, Typed(s, g), NEW p0 \in 1 .. Len(s) + 1,
           NEW left \in Number, Higher(s, f, g, p0)
    PROVE  MoreTerms(s, f, p0, left) = MoreTerms(s, g, p0, left)
  <1> DEFINE p     == SkipSpaces(s, p0)
             right == g[<<"term", p + 1, Zero>>]
  <1>1. Len(s) \in Nat /\ p0 \in Nat /\ p \in p0 .. Len(s) + 1 /\ p \in 1 .. Len(s) + 1
    BY Characterwise, SkipsSpaces
  <1>2. CASE At(s, p) \in {"+", "-"}
    <2>1. p <= Len(s)
      BY <1>1, <1>2, Characterwise
    <2>2. /\ p + 1 \in p0 + 1 .. Len(s) + 1 /\ p + 1 \in 1 .. Len(s) + 1
          /\ p + 2 \in 1 .. Len(s) + 2 /\ (p + 1) + 1 = p + 2
      BY <1>1, <2>1
    <2> HIDE DEF p
    <2>3. f[<<"term", p + 1, Zero>>] = right
      BY <2>2, NumberType DEF Higher, Methods
    <2>4. right \in Outcome(s, p + 2)
      BY <2>2, NumberType DEF Typed
    <2> HIDE DEF right
    <2>5. ASSUME right.ok
          PROVE  /\ f[<<"terms", right.pos, Plus(left, right.val)>>]
                      = g[<<"terms", right.pos, Plus(left, right.val)>>]
                 /\ f[<<"terms", right.pos, Plus(left, Negate(right.val))>>]
                      = g[<<"terms", right.pos, Plus(left, Negate(right.val))>>]
      <3>1. right.pos \in p + 2 .. Len(s) + 1 /\ right.val \in Number
        BY <2>2, <2>4, <2>5, OutcomeIs
      <3>2. right.pos \in p0 + 1 .. Len(s) + 1
        BY <1>1, <2>2, <3>1
      <3> QED
        BY <3>1, <3>2, NumberType DEF Higher, Methods
    <2> USE DEF p, right
    <2> QED
      BY <1>2, <2>3, <2>5 DEF MoreTerms
  <1>3. CASE At(s, p) \notin {"+", "-"}
    BY <1>3 DEF MoreTerms
  <1> QED
    BY <1>2, <1>3

LEMMA TermLocal ==
    ASSUME NEW s \in Seq(Characters), NEW f, NEW g, Typed(s, g), NEW p \in 1 .. Len(s) + 1,
           Higher(s, f, g, p), f[<<"factor", p, Zero>>] = g[<<"factor", p, Zero>>]
    PROVE  ParseTerm(s, f, p) = ParseTerm(s, g, p)
  <1> DEFINE left == g[<<"factor", p, Zero>>]
  <1>1. Len(s) \in Nat /\ p \in Nat /\ p + 1 \in 1 .. Len(s) + 2
    BY Characterwise
  <1>2. left \in Outcome(s, p + 1)
    BY NumberType DEF Typed
  <1> HIDE DEF left
  <1>3. ASSUME left.ok
        PROVE  f[<<"factors", left.pos, left.val>>] = g[<<"factors", left.pos, left.val>>]
    <2>1. left.pos \in p + 1 .. Len(s) + 1 /\ left.val \in Number
      BY <1>1, <1>2, <1>3, OutcomeIs
    <2> QED
      BY <2>1 DEF Higher, Methods
  <1> USE DEF left
  <1> QED
    BY <1>3 DEF ParseTerm

LEMMA ExpressionLocal ==
    ASSUME NEW s \in Seq(Characters), NEW f, NEW g, Typed(s, g), NEW p \in 1 .. Len(s) + 1,
           Higher(s, f, g, p), f[<<"term", p, Zero>>] = g[<<"term", p, Zero>>]
    PROVE  ParseExpression(s, f, p) = ParseExpression(s, g, p)
  <1> DEFINE left == g[<<"term", p, Zero>>]
  <1>1. Len(s) \in Nat /\ p \in Nat /\ p + 1 \in 1 .. Len(s) + 2
    BY Characterwise
  <1>2. left \in Outcome(s, p + 1)
    BY NumberType DEF Typed
  <1> HIDE DEF left
  <1>3. ASSUME left.ok
        PROVE  f[<<"terms", left.pos, left.val>>] = g[<<"terms", left.pos, left.val>>]
    <2>1. left.pos \in p + 1 .. Len(s) + 1 /\ left.val \in Number
      BY <1>1, <1>2, <1>3, OutcomeIs
    <2> QED
      BY <2>1 DEF Higher, Methods
  <1> USE DEF left
  <1> QED
    BY <1>3 DEF ParseExpression

\* What a method works on comes before: a later position, or the same one and a
\* method further down.
Rank(method) == CASE method = "expression" -> 2 [] method = "term" -> 1 [] OTHER -> 0
Measure(s, call) == 3 * (Len(s) + 1 - call[2]) + Rank(call[1])
Bound(s, call) == Outcome(s, IF call[1] \in {"terms", "factors"} THEN call[2] ELSE call[2] + 1)

LEMMA CallCases ==
    ASSUME NEW s \in Seq(Characters), NEW call \in Calls(s)
    PROVE  \E p \in 1 .. Len(s) + 1, v \in Number :
               \/ call = <<"expression", p, v>> \/ call = <<"terms", p, v>> \/ call = <<"term", p, v>>
               \/ call = <<"factors", p, v>> \/ call = <<"factor", p, v>>
  <1>1. PICK method \in Methods, p \in 1 .. Len(s) + 1, v \in Number : call = <<method, p, v>>
    BY DEF Calls
  <1>2. \/ method = "expression" \/ method = "terms" \/ method = "term"
        \/ method = "factors" \/ method = "factor"
    BY DEF Methods
  <1> QED
    BY <1>1, <1>2

LEMMA CallIs ==
    ASSUME NEW s \in Seq(Characters), NEW p \in 1 .. Len(s) + 1, NEW v \in Number, NEW method \in Methods
    PROVE  /\ <<method, p, v>> \in Calls(s)
           /\ Measure(s, <<method, p, v>>) = 3 * (Len(s) + 1 - p) + Rank(method)
           /\ Measure(s, <<method, p, v>>) \in Nat /\ Rank(method) \in 0 .. 2
           /\ Bound(s, <<method, p, v>>) = Outcome(s, IF method \in {"terms", "factors"} THEN p ELSE p + 1)
           /\ Bound(s, <<method, p, v>>) \in SUBSET Results(s)
           /\ Fail \in Bound(s, <<method, p, v>>)
  <1>1. Len(s) \in Nat /\ p \in Nat /\ p <= Len(s) + 1
    BY Characterwise
  <1>2. <<method, p, v>> \in Calls(s)
    BY DEF Calls
  <1>3. Rank(method) \in 0 .. 2
    BY DEF Rank
  <1>4. Measure(s, <<method, p, v>>) = 3 * (Len(s) + 1 - p) + Rank(method)
    BY Zenon DEF Measure
  <1>5. Bound(s, <<method, p, v>>) = Outcome(s, IF method \in {"terms", "factors"} THEN p ELSE p + 1)
    BY Zenon DEF Bound
  <1>6. p \in 1 .. Len(s) + 2 /\ p + 1 \in 1 .. Len(s) + 2
    BY <1>1
  <1>7. Fail \in Outcome(s, p) /\ Fail \in Outcome(s, p + 1)
    BY <1>6, OutcomeIs
  <1>8. Outcome(s, p) \in SUBSET Results(s) /\ Outcome(s, p + 1) \in SUBSET Results(s)
    BY DEF Outcome
  <1> QED
    BY <1>1, <1>2, <1>3, <1>4, <1>5, <1>7, <1>8

LEMMA PerformIs ==
    ASSUME NEW s, NEW f, NEW p, NEW v
    PROVE  /\ Perform(s, f, <<"expression", p, v>>) = ParseExpression(s, f, p)
           /\ Perform(s, f, <<"terms", p, v>>) = MoreTerms(s, f, p, v)
           /\ Perform(s, f, <<"term", p, v>>) = ParseTerm(s, f, p)
           /\ Perform(s, f, <<"factors", p, v>>) = MoreFactors(s, f, p, v)
           /\ Perform(s, f, <<"factor", p, v>>) = ParseFactor(s, f, p)
  BY DEF Perform

LEMMA PerformOutcome ==
    ASSUME NEW s \in Seq(Characters), NEW f, Typed(s, f), NEW call \in Calls(s)
    PROVE  Perform(s, f, call) \in Bound(s, call)
  <1>1. PICK p \in 1 .. Len(s) + 1, v \in Number :
            \/ call = <<"expression", p, v>> \/ call = <<"terms", p, v>> \/ call = <<"term", p, v>>
            \/ call = <<"factors", p, v>> \/ call = <<"factor", p, v>>
    BY CallCases
  <1>2. /\ "expression" \in Methods /\ "terms" \in Methods /\ "term" \in Methods
        /\ "factors" \in Methods /\ "factor" \in Methods
    BY DEF Methods
  <1>3. CASE call = <<"expression", p, v>>
    <2>1. Bound(s, call) = Outcome(s, p + 1)
      BY <1>2, <1>3, CallIs
    <2>2. Perform(s, f, call) = ParseExpression(s, f, p)
      BY <1>3, PerformIs
    <2> QED
      BY <2>1, <2>2, ExpressionOutcome
  <1>4. CASE call = <<"terms", p, v>>
    <2>1. Bound(s, call) = Outcome(s, p)
      BY <1>2, <1>4, CallIs
    <2>2. Perform(s, f, call) = MoreTerms(s, f, p, v)
      BY <1>4, PerformIs
    <2> QED
      BY <2>1, <2>2, TermsOutcome
  <1>5. CASE call = <<"term", p, v>>
    <2>1. Bound(s, call) = Outcome(s, p + 1)
      BY <1>2, <1>5, CallIs
    <2>2. Perform(s, f, call) = ParseTerm(s, f, p)
      BY <1>5, PerformIs
    <2> QED
      BY <2>1, <2>2, TermOutcome
  <1>6. CASE call = <<"factors", p, v>>
    <2>1. Bound(s, call) = Outcome(s, p)
      BY <1>2, <1>6, CallIs
    <2>2. Perform(s, f, call) = MoreFactors(s, f, p, v)
      BY <1>6, PerformIs
    <2> QED
      BY <2>1, <2>2, FactorsOutcome
  <1>7. CASE call = <<"factor", p, v>>
    <2>1. Bound(s, call) = Outcome(s, p + 1)
      BY <1>2, <1>7, CallIs
    <2>2. Perform(s, f, call) = ParseFactor(s, f, p)
      BY <1>7, PerformIs
    <2> QED
      BY <2>1, <2>2, FactorOutcome
  <1> QED
    BY <1>1, <1>3, <1>4, <1>5, <1>6, <1>7

\* f and g are alike on what a call works on.
Alike(s, f, g, call) == \A d \in Calls(s) : Measure(s, d) < Measure(s, call) => f[d] = g[d]

LEMMA AlikeAt ==
    ASSUME NEW s \in Seq(Characters), NEW f, NEW g, NEW p \in 1 .. Len(s) + 1, NEW v \in Number,
           NEW method \in Methods, Alike(s, f, g, <<method, p, v>>),
           NEW other \in Methods, NEW q \in 1 .. Len(s) + 1, NEW w \in Number,
           p <= q, q > p \/ Rank(other) < Rank(method)
    PROVE  f[<<other, q, w>>] = g[<<other, q, w>>]
  <1>1. Len(s) \in Nat /\ p \in Nat
    BY Characterwise
  <1>2. /\ Measure(s, <<other, q, w>>) = 3 * (Len(s) + 1 - q) + Rank(other) /\ Rank(other) \in 0 .. 2
        /\ <<other, q, w>> \in Calls(s)
    BY CallIs
  <1>3. Measure(s, <<method, p, v>>) = 3 * (Len(s) + 1 - p) + Rank(method) /\ Rank(method) \in 0 .. 2
    BY CallIs
  <1>4. 3 * (Len(s) + 1 - q) + Rank(other) < 3 * (Len(s) + 1 - p) + Rank(method)
    BY <1>1, <1>2, <1>3
  <1> QED
    BY <1>2, <1>3, <1>4 DEF Alike

LEMMA AlikeHigher ==
    ASSUME NEW s \in Seq(Characters), NEW f, NEW g, NEW p \in 1 .. Len(s) + 1, NEW v \in Number,
           NEW method \in Methods, Alike(s, f, g, <<method, p, v>>)
    PROVE  Higher(s, f, g, p)
  <1> SUFFICES ASSUME NEW other \in Methods, NEW q \in p + 1 .. Len(s) + 1, NEW w \in Number
               PROVE  f[<<other, q, w>>] = g[<<other, q, w>>]
    BY DEF Higher
  <1>1. q \in 1 .. Len(s) + 1 /\ p <= q /\ q > p
    BY Characterwise
  <1> QED
    BY <1>1, AlikeAt

LEMMA AlikeHere ==
    ASSUME NEW s \in Seq(Characters), NEW f, NEW g, NEW p \in 1 .. Len(s) + 1, NEW v \in Number,
           NEW method \in Methods, Alike(s, f, g, <<method, p, v>>),
           NEW other \in Methods, Rank(other) < Rank(method)
    PROVE  f[<<other, p, Zero>>] = g[<<other, p, Zero>>]
  <1>1. p <= p /\ Zero \in Number
    BY NumberType
  <1> QED
    BY <1>1, AlikeAt

LEMMA PerformLocal ==
    ASSUME NEW s \in Seq(Characters), NEW f, NEW g, Typed(s, g), NEW call \in Calls(s), Alike(s, f, g, call)
    PROVE  Perform(s, f, call) = Perform(s, g, call)
  <1>1. PICK p \in 1 .. Len(s) + 1, v \in Number :
            \/ call = <<"expression", p, v>> \/ call = <<"terms", p, v>> \/ call = <<"term", p, v>>
            \/ call = <<"factors", p, v>> \/ call = <<"factor", p, v>>
    BY CallCases
  <1>2. /\ "expression" \in Methods /\ "terms" \in Methods /\ "term" \in Methods
        /\ "factors" \in Methods /\ "factor" \in Methods
    BY DEF Methods
  <1>3. Higher(s, f, g, p)
    BY <1>1, <1>2, AlikeHigher
  <1>4. CASE call = <<"expression", p, v>>
    <2>1. Rank("term") < Rank("expression")
      BY DEF Rank
    <2>5. Alike(s, f, g, <<"expression", p, v>>)
      BY <1>4
    <2>6. PICK method \in Methods, other \in Methods : method = "expression" /\ other = "term"
      BY <1>2
    <2>7. Alike(s, f, g, <<method, p, v>>) /\ Rank(other) < Rank(method)
      BY <2>1, <2>5, <2>6
    <2>8. f[<<other, p, Zero>>] = g[<<other, p, Zero>>]
      BY <2>7, AlikeHere
    <2>2. f[<<"term", p, Zero>>] = g[<<"term", p, Zero>>]
      BY <2>6, <2>8
    <2>3. ParseExpression(s, f, p) = ParseExpression(s, g, p)
      BY <1>3, <2>2, ExpressionLocal
    <2>4. Perform(s, f, call) = ParseExpression(s, f, p) /\ Perform(s, g, call) = ParseExpression(s, g, p)
      BY <1>4, PerformIs
    <2> QED
      BY <2>3, <2>4
  <1>5. CASE call = <<"terms", p, v>>
    <2>1. MoreTerms(s, f, p, v) = MoreTerms(s, g, p, v)
      BY <1>3, TermsLocal
    <2>2. Perform(s, f, call) = MoreTerms(s, f, p, v) /\ Perform(s, g, call) = MoreTerms(s, g, p, v)
      BY <1>5, PerformIs
    <2> QED
      BY <2>1, <2>2
  <1>6. CASE call = <<"term", p, v>>
    <2>1. Rank("factor") < Rank("term")
      BY DEF Rank
    <2>5. Alike(s, f, g, <<"term", p, v>>)
      BY <1>6
    <2>6. PICK method \in Methods, other \in Methods : method = "term" /\ other = "factor"
      BY <1>2
    <2>7. Alike(s, f, g, <<method, p, v>>) /\ Rank(other) < Rank(method)
      BY <2>1, <2>5, <2>6
    <2>8. f[<<other, p, Zero>>] = g[<<other, p, Zero>>]
      BY <2>7, AlikeHere
    <2>2. f[<<"factor", p, Zero>>] = g[<<"factor", p, Zero>>]
      BY <2>6, <2>8
    <2>3. ParseTerm(s, f, p) = ParseTerm(s, g, p)
      BY <1>3, <2>2, TermLocal
    <2>4. Perform(s, f, call) = ParseTerm(s, f, p) /\ Perform(s, g, call) = ParseTerm(s, g, p)
      BY <1>6, PerformIs
    <2> QED
      BY <2>3, <2>4
  <1>7. CASE call = <<"factors", p, v>>
    <2>1. MoreFactors(s, f, p, v) = MoreFactors(s, g, p, v)
      BY <1>3, FactorsLocal
    <2>2. Perform(s, f, call) = MoreFactors(s, f, p, v) /\ Perform(s, g, call) = MoreFactors(s, g, p, v)
      BY <1>7, PerformIs
    <2> QED
      BY <2>1, <2>2
  <1>8. CASE call = <<"factor", p, v>>
    <2>1. ParseFactor(s, f, p) = ParseFactor(s, g, p)
      BY <1>3, FactorLocal
    <2>2. Perform(s, f, call) = ParseFactor(s, f, p) /\ Perform(s, g, call) = ParseFactor(s, g, p)
      BY <1>8, PerformIs
    <2> QED
      BY <2>1, <2>2
  <1> QED
    BY <1>1, <1>4, <1>5, <1>6, <1>7, <1>8

LEMMA ParserEquation ==
    ASSUME NEW s \in Seq(Characters)
    PROVE  /\ Typed(s, Parser(s))
           /\ \A call \in Calls(s) : Parser(s)[call] = Perform(s, Parser(s), call)
  <1> DEFINE X == Calls(s)
             Y == Results(s)
             R == [call \in X |-> Bound(s, call)]
             m == [call \in X |-> Measure(s, call)]
             F == Within(X, Y, R)
             B == [f \in F |-> [call \in X |-> Perform(s, f, call)]]
  <1>1. \A call \in X : Measure(s, call) \in Nat /\ Bound(s, call) \in SUBSET Y /\ Fail \in Bound(s, call)
    <2> TAKE call \in X
    <2>1. PICK p \in 1 .. Len(s) + 1, v \in Number :
              \/ call = <<"expression", p, v>> \/ call = <<"terms", p, v>> \/ call = <<"term", p, v>>
              \/ call = <<"factors", p, v>> \/ call = <<"factor", p, v>>
      BY CallCases
    <2>2. /\ "expression" \in Methods /\ "terms" \in Methods /\ "term" \in Methods
          /\ "factors" \in Methods /\ "factor" \in Methods
      BY DEF Methods
    <2>3. PICK method \in Methods : call = <<method, p, v>>
      BY <2>1, <2>2
    <2> QED
      BY <2>3, CallIs
  <1> HIDE DEF X, Y
  <1>2. m \in [X -> Nat] /\ R \in [X -> SUBSET Y]
    BY <1>1
  <1>3. ASSUME NEW f \in F
        PROVE  Typed(s, f)
    <2> SUFFICES ASSUME NEW p \in 1 .. Len(s) + 1, NEW v \in Number
                 PROVE  /\ f[<<"expression", p, v>>] \in Outcome(s, p + 1)
                        /\ f[<<"terms", p, v>>] \in Outcome(s, p)
                        /\ f[<<"term", p, v>>] \in Outcome(s, p + 1)
                        /\ f[<<"factors", p, v>>] \in Outcome(s, p)
                        /\ f[<<"factor", p, v>>] \in Outcome(s, p + 1)
      BY DEF Typed
    <2>1. \A call \in X : f[call] \in Bound(s, call)
      BY DEF Within
    <2>2. /\ "expression" \in Methods /\ "terms" \in Methods /\ "term" \in Methods
          /\ "factors" \in Methods /\ "factor" \in Methods
      BY DEF Methods
    <2>3. ASSUME NEW method \in Methods
          PROVE  f[<<method, p, v>>] \in Outcome(s, IF method \in {"terms", "factors"} THEN p ELSE p + 1)
      <3>1. /\ <<method, p, v>> \in X
            /\ Bound(s, <<method, p, v>>) = Outcome(s, IF method \in {"terms", "factors"} THEN p ELSE p + 1)
        BY CallIs DEF X
      <3> QED
        BY <2>1, <3>1
    <2> QED
      BY <2>2, <2>3
  <1>4. ASSUME NEW f, Typed(s, f), NEW call \in X
        PROVE  Perform(s, f, call) \in R[call]
    <2>1. Perform(s, f, call) \in Bound(s, call)
      BY <1>4, PerformOutcome DEF X
    <2> QED
      BY <2>1
  <1>5. ASSUME NEW f, NEW g, Typed(s, g), NEW call \in X, \A d \in X : m[d] < m[call] => f[d] = g[d]
        PROVE  Perform(s, f, call) = Perform(s, g, call)
    <2>1. \A d \in X : Measure(s, d) < Measure(s, call) => f[d] = g[d]
      BY <1>5
    <2>2. Alike(s, f, g, call)
      BY <2>1 DEF Alike, X
    <2> QED
      BY <1>5, <2>2, PerformLocal DEF X
  <1>6. F # {}
    <2>1. [call \in X |-> Fail] \in F
      BY <1>1 DEF Within
    <2> QED
      BY <2>1
  <1> HIDE DEF R, m
  <1>7. B \in [F -> F]
    <2>1. ASSUME NEW f \in F
          PROVE  [call \in X |-> Perform(s, f, call)] \in F
      <3>1. \A call \in X : Perform(s, f, call) \in R[call] /\ R[call] \subseteq Y
        BY <1>2, <1>3, <1>4
      <3> QED
        BY <3>1 DEF Within
    <2> QED
      BY <2>1
  <1>8. PICK f \in F : B[f] = f
    <2>1. Descends(X, F, B, m)
      BY <1>3, <1>5 DEF Descends
    <2> HIDE DEF B
    <2> QED
      BY <1>2, <1>6, <1>7, <2>1, FixedPoint
  <1>9. f = [call \in X |-> Perform(s, f, call)]
    BY <1>8
  <1> DEFINE parse == CHOOSE h : h = [call \in X |-> Perform(s, h, call)]
  <1>10. parse = [call \in X |-> Perform(s, parse, call)]
    BY <1>9, Zenon
  <1>11. Typed(s, f)
    BY <1>3
  <1>12. parse = f
    <2> HIDE DEF parse, F
    <2>1. Follows(X, parse, f, m)
      BY <1>5, <1>9, <1>10, <1>11 DEF Follows
    <2>2. FunctionOn(parse, X) /\ FunctionOn(f, X)
      BY <1>9, <1>10 DEF FunctionOn
    <2> QED
      BY <1>2, <2>1, <2>2, SameFunction, Zenon
  <1>13. Parser(s) = parse
    BY Zenon DEF Parser, X
  <1> HIDE DEF parse, B, F
  <1> QED
    BY <1>9, <1>11, <1>12, <1>13 DEF X

-----------------------------------------------------------------------------
(* What the methods return, by the character they see.                     *)

ExpressionAt(s, p) == Parser(s)[<<"expression", p, Zero>>]
TermsAt(s, p, v)   == Parser(s)[<<"terms", p, v>>]
TermAt(s, p)       == Parser(s)[<<"term", p, Zero>>]
FactorsAt(s, p, v) == Parser(s)[<<"factors", p, v>>]
FactorAt(s, p)     == Parser(s)[<<"factor", p, Zero>>]

LEMMA Returned ==
    ASSUME NEW s \in Seq(Characters), NEW p \in 1 .. Len(s) + 1, NEW v \in Number
    PROVE  /\ ExpressionAt(s, p) \in Outcome(s, p + 1) /\ TermsAt(s, p, v) \in Outcome(s, p)
           /\ TermAt(s, p) \in Outcome(s, p + 1) /\ FactorsAt(s, p, v) \in Outcome(s, p)
           /\ FactorAt(s, p) \in Outcome(s, p + 1)
  BY ParserEquation, NumberType DEF Typed, ExpressionAt, TermsAt, TermAt, FactorsAt, FactorAt

\* The same, a position and a value at a time.
LEMMA Positions ==
    ASSUME NEW s \in Seq(Characters), NEW p \in 1 .. Len(s) + 1, NEW v \in Number
    PROVE  /\ ExpressionAt(s, p).ok => /\ ExpressionAt(s, p).pos \in p + 1 .. Len(s) + 1
                                       /\ ExpressionAt(s, p).val \in Number
           /\ TermsAt(s, p, v).ok   => /\ TermsAt(s, p, v).pos \in p .. Len(s) + 1
                                       /\ TermsAt(s, p, v).val \in Number
           /\ TermAt(s, p).ok       => /\ TermAt(s, p).pos \in p + 1 .. Len(s) + 1
                                       /\ TermAt(s, p).val \in Number
           /\ FactorsAt(s, p, v).ok => /\ FactorsAt(s, p, v).pos \in p .. Len(s) + 1
                                       /\ FactorsAt(s, p, v).val \in Number
           /\ FactorAt(s, p).ok     => /\ FactorAt(s, p).pos \in p + 1 .. Len(s) + 1
                                       /\ FactorAt(s, p).val \in Number
  <1>1. p \in 1 .. Len(s) + 2 /\ p + 1 \in 1 .. Len(s) + 2
    BY Characterwise
  <1>2. \A low \in {p, p + 1} : \A r \in Outcome(s, low) :
            r.ok => r.pos \in low .. Len(s) + 1 /\ r.val \in Number
    BY <1>1, OutcomeIs
  <1> QED
    BY <1>2, Returned

LEMMA Equations ==
    ASSUME NEW s \in Seq(Characters), NEW p \in 1 .. Len(s) + 1, NEW v \in Number
    PROVE  /\ ExpressionAt(s, p) = ParseExpression(s, Parser(s), p)
           /\ TermsAt(s, p, v) = MoreTerms(s, Parser(s), p, v)
           /\ TermAt(s, p) = ParseTerm(s, Parser(s), p)
           /\ FactorsAt(s, p, v) = MoreFactors(s, Parser(s), p, v)
           /\ FactorAt(s, p) = ParseFactor(s, Parser(s), p)
  <1>1. /\ <<"expression", p, Zero>> \in Calls(s) /\ <<"terms", p, v>> \in Calls(s)
        /\ <<"term", p, Zero>> \in Calls(s) /\ <<"factors", p, v>> \in Calls(s)
        /\ <<"factor", p, Zero>> \in Calls(s)
    BY NumberType DEF Calls, Methods
  <1> DEFINE f == Parser(s)
  <1>2. \A call \in Calls(s) : f[call] = Perform(s, f, call)
    BY ParserEquation
  <1>3. /\ f[<<"expression", p, Zero>>] = Perform(s, f, <<"expression", p, Zero>>)
        /\ f[<<"terms", p, v>>] = Perform(s, f, <<"terms", p, v>>)
        /\ f[<<"term", p, Zero>>] = Perform(s, f, <<"term", p, Zero>>)
        /\ f[<<"factors", p, v>>] = Perform(s, f, <<"factors", p, v>>)
        /\ f[<<"factor", p, Zero>>] = Perform(s, f, <<"factor", p, Zero>>)
    <2> HIDE DEF f
    <2> QED
      BY <1>1, <1>2
  <1>4. /\ Perform(s, f, <<"expression", p, Zero>>) = ParseExpression(s, f, p)
        /\ Perform(s, f, <<"terms", p, v>>) = MoreTerms(s, f, p, v)
        /\ Perform(s, f, <<"term", p, Zero>>) = ParseTerm(s, f, p)
        /\ Perform(s, f, <<"factors", p, v>>) = MoreFactors(s, f, p, v)
        /\ Perform(s, f, <<"factor", p, Zero>>) = ParseFactor(s, f, p)
    <2> HIDE DEF f
    <2> QED
      BY PerformIs
  <1>5. ExpressionAt(s, p) = ParseExpression(s, f, p)
    BY <1>3, <1>4, Zenon DEF ExpressionAt
  <1>6. TermsAt(s, p, v) = MoreTerms(s, f, p, v)
    BY <1>3, <1>4, Zenon DEF TermsAt
  <1>7. TermAt(s, p) = ParseTerm(s, f, p)
    BY <1>3, <1>4, Zenon DEF TermAt
  <1>8. FactorsAt(s, p, v) = MoreFactors(s, f, p, v)
    BY <1>3, <1>4, Zenon DEF FactorsAt
  <1>9. FactorAt(s, p) = ParseFactor(s, f, p)
    BY <1>3, <1>4, Zenon DEF FactorAt
  <1> QED
    BY <1>5, <1>6, <1>7, <1>8, <1>9

LEMMA FactorSees ==
    ASSUME NEW s \in Seq(Characters), NEW p \in 1 .. Len(s) + 1, NEW q, q = SkipSpaces(s, p)
    PROVE  /\ At(s, q) = "+" => FactorAt(s, p) = FactorAt(s, q + 1)
           /\ At(s, q) = "-" => FactorAt(s, p) =
                  IF FactorAt(s, q + 1).ok
                  THEN Done(FactorAt(s, q + 1).pos, Negate(FactorAt(s, q + 1).val)) ELSE Fail
           /\ At(s, q) = "(" => FactorAt(s, p) =
                  IF ExpressionAt(s, q + 1).ok /\ At(s, SkipSpaces(s, ExpressionAt(s, q + 1).pos)) = ")"
                  THEN Done(SkipSpaces(s, ExpressionAt(s, q + 1).pos) + 1, ExpressionAt(s, q + 1).val)
                  ELSE Fail
           /\ At(s, q) \notin {"+", "-", "("} => FactorAt(s, p) = ParseNumber(s, q)
  <1>1. FactorAt(s, p) = ParseFactor(s, Parser(s), p)
    BY Equations, NumberType
  <1> QED
    BY <1>1 DEF ParseFactor, FactorAt, ExpressionAt

LEMMA FactorsSee ==
    ASSUME NEW s \in Seq(Characters), NEW p \in 1 .. Len(s) + 1, NEW v \in Number,
           NEW q, q = SkipSpaces(s, p)
    PROVE  /\ At(s, q) = "*" => FactorsAt(s, p, v) =
                  IF FactorAt(s, q + 1).ok
                  THEN FactorsAt(s, FactorAt(s, q + 1).pos, Times(v, FactorAt(s, q + 1).val)) ELSE Fail
           /\ At(s, q) = "/" => FactorsAt(s, p, v) =
                  IF FactorAt(s, q + 1).ok /\ FactorAt(s, q + 1).val.num # 0
                  THEN FactorsAt(s, FactorAt(s, q + 1).pos, Times(v, Invert(FactorAt(s, q + 1).val))) ELSE Fail
           /\ At(s, q) \notin {"*", "/"} => FactorsAt(s, p, v) = Done(q, v)
  <1>1. FactorsAt(s, p, v) = MoreFactors(s, Parser(s), p, v)
    BY Equations
  <1> QED
    BY <1>1 DEF MoreFactors, FactorAt, FactorsAt

LEMMA TermsSee ==
    ASSUME NEW s \in Seq(Characters), NEW p \in 1 .. Len(s) + 1, NEW v \in Number,
           NEW q, q = SkipSpaces(s, p)
    PROVE  /\ At(s, q) = "+" => TermsAt(s, p, v) =
                  IF TermAt(s, q + 1).ok
                  THEN TermsAt(s, TermAt(s, q + 1).pos, Plus(v, TermAt(s, q + 1).val)) ELSE Fail
           /\ At(s, q) = "-" => TermsAt(s, p, v) =
                  IF TermAt(s, q + 1).ok
                  THEN TermsAt(s, TermAt(s, q + 1).pos, Plus(v, Negate(TermAt(s, q + 1).val))) ELSE Fail
           /\ At(s, q) \notin {"+", "-"} => TermsAt(s, p, v) = Done(q, v)
  <1>1. TermsAt(s, p, v) = MoreTerms(s, Parser(s), p, v)
    BY Equations
  <1> QED
    BY <1>1 DEF MoreTerms, TermAt, TermsAt

LEMMA TermIs ==
    ASSUME NEW s \in Seq(Characters), NEW p \in 1 .. Len(s) + 1
    PROVE  TermAt(s, p) = IF FactorAt(s, p).ok THEN FactorsAt(s, FactorAt(s, p).pos, FactorAt(s, p).val)
                          ELSE Fail
  <1>1. TermAt(s, p) = ParseTerm(s, Parser(s), p)
    BY Equations, NumberType
  <1> QED
    BY <1>1 DEF ParseTerm, FactorAt, FactorsAt

LEMMA ExpressionIs ==
    ASSUME NEW s \in Seq(Characters), NEW p \in 1 .. Len(s) + 1
    PROVE  ExpressionAt(s, p) = IF TermAt(s, p).ok THEN TermsAt(s, TermAt(s, p).pos, TermAt(s, p).val)
                                ELSE Fail
  <1>1. ExpressionAt(s, p) = ParseExpression(s, Parser(s), p)
    BY Equations, NumberType
  <1> QED
    BY <1>1 DEF ParseExpression, TermAt, TermsAt

-----------------------------------------------------------------------------
(* The grammar as a function that satisfies its equations.                 *)

\* v is the value of a sum whose last operator is at k.
SumAt(s, value, i, j, k, v) ==
    \/ s[k] = "+" /\ \E l \in value[<<"sum", i, k - 1>>], r \in value[<<"product", k + 1, j>>] : v = Plus(l, r)
    \/ s[k] = "-" /\ \E l \in value[<<"sum", i, k - 1>>], r \in value[<<"product", k + 1, j>>] :
                         v = Plus(l, Negate(r))

ProductAt(s, value, i, j, k, v) ==
    \/ s[k] = "*" /\ \E l \in value[<<"product", i, k - 1>>],
                        r \in value[<<"factor", SkipSpaces(s, k + 1), BackSpaces(s, j)>>] : v = Times(l, r)
    \/ s[k] = "/" /\ \E l \in value[<<"product", i, k - 1>>],
                        r \in value[<<"factor", SkipSpaces(s, k + 1), BackSpaces(s, j)>>] :
                         r.num # 0 /\ v = Times(l, Invert(r))

LEMMA SumHas ==
    ASSUME NEW s, NEW value, NEW i, NEW j, NEW v
    PROVE  v \in Sum(s, value, i, j) <=>
               v \in value[<<"product", i, j>>] \/ \E k \in i .. j : SumAt(s, value, i, j, k, v)
  <1> DEFINE A == UNION {{Plus(l, r) : l \in value[<<"sum", i, k - 1>>], r \in value[<<"product", k + 1, j>>]} :
                         k \in Where(s, "+", i, j)}
             C == UNION {{Plus(l, Negate(r)) : l \in value[<<"sum", i, k - 1>>],
                                               r \in value[<<"product", k + 1, j>>]} :
                         k \in Where(s, "-", i, j)}
  <1>1. Sum(s, value, i, j) = value[<<"product", i, j>>] \cup A \cup C
    BY DEF Sum
  <1>2. v \in A <=> \E k \in i .. j : s[k] = "+" /\ \E l \in value[<<"sum", i, k - 1>>],
                                                       r \in value[<<"product", k + 1, j>>] : v = Plus(l, r)
    BY DEF Where
  <1>3. v \in C <=> \E k \in i .. j : s[k] = "-" /\ \E l \in value[<<"sum", i, k - 1>>],
                                                       r \in value[<<"product", k + 1, j>>] :
                                                        v = Plus(l, Negate(r))
    BY DEF Where
  <1> HIDE DEF A, C
  <1> QED
    BY <1>1, <1>2, <1>3 DEF SumAt

LEMMA ProductHas ==
    ASSUME NEW s, NEW value, NEW i, NEW j, NEW v
    PROVE  v \in Product(s, value, i, j) <=>
               \/ v \in value[<<"factor", SkipSpaces(s, i), BackSpaces(s, j)>>]
               \/ \E k \in i .. j : ProductAt(s, value, i, j, k, v)
  <1> DEFINE factor(k) == value[<<"factor", SkipSpaces(s, k), BackSpaces(s, j)>>]
             A == UNION {{Times(l, r) : l \in value[<<"product", i, k - 1>>], r \in factor(k + 1)} :
                         k \in Where(s, "*", i, j)}
             C == UNION {{Times(l, Invert(r)) : l \in value[<<"product", i, k - 1>>],
                                                r \in {f \in factor(k + 1) : f.num # 0}} :
                         k \in Where(s, "/", i, j)}
  <1>1. Product(s, value, i, j) = factor(i) \cup A \cup C
    BY DEF Product
  <1> HIDE DEF factor
  <1>2. v \in A <=> \E k \in i .. j : s[k] = "*" /\ \E l \in value[<<"product", i, k - 1>>],
                                                       r \in factor(k + 1) : v = Times(l, r)
    BY DEF Where
  <1>3. v \in C <=> \E k \in i .. j : s[k] = "/" /\ \E l \in value[<<"product", i, k - 1>>],
                                                       r \in factor(k + 1) :
                                                        r.num # 0 /\ v = Times(l, Invert(r))
    BY DEF Where
  <1> HIDE DEF A, C
  <1>4. \A k : factor(k) = value[<<"factor", SkipSpaces(s, k), BackSpaces(s, j)>>]
    BY DEF factor
  <1> QED
    BY <1>1, <1>2, <1>3, <1>4 DEF ProductAt

\* The pieces that a piece of a sum, a product or a factor may be made of.
LEMMA Trimmed ==
    ASSUME NEW s \in Seq(Characters), NEW i \in 1 .. Len(s) + 1, NEW j \in 0 .. Len(s)
    PROVE  /\ SkipSpaces(s, i) \in 1 .. Len(s) + 1 /\ BackSpaces(s, j) \in 0 .. Len(s)
           /\ i <= SkipSpaces(s, i) /\ BackSpaces(s, j) <= j
           /\ i \in Int /\ j \in Int /\ Len(s) \in Nat
  <1>1. Len(s) \in Nat
    BY Characterwise
  <1>2. SkipSpaces(s, i) \in i .. Len(s) + 1 /\ BackSpaces(s, j) \in 0 .. j
    BY SkipsSpaces, BacksSpaces
  <1> QED
    BY <1>1, <1>2

LEMMA SplitAt ==
    ASSUME NEW s \in Seq(Characters), NEW i \in 1 .. Len(s) + 1, NEW j \in 0 .. Len(s), NEW k \in i .. j
    PROVE  /\ k \in Int /\ k \in 1 .. Len(s) /\ i <= j
           /\ k - 1 \in 0 .. Len(s) /\ k - 1 < j /\ k + 1 \in 1 .. Len(s) + 1 /\ i < k + 1
           /\ SkipSpaces(s, k + 1) \in 1 .. Len(s) + 1 /\ i < SkipSpaces(s, k + 1)
           /\ k < SkipSpaces(s, k + 1)
  <1>1. Len(s) \in Nat /\ i \in Int /\ j \in Int
    BY Characterwise
  <1>2. /\ k \in Int /\ k \in 1 .. Len(s) /\ i <= j /\ k - 1 \in 0 .. Len(s) /\ k - 1 < j
        /\ k + 1 \in 1 .. Len(s) + 1 /\ i < k + 1
    BY <1>1
  <1>3. SkipSpaces(s, k + 1) \in k + 1 .. Len(s) + 1
    BY <1>2, SkipsSpaces
  <1> QED
    BY <1>1, <1>2, <1>3

\* What a piece is derived from is smaller: shorter, or as long and of a kind
\* further down.
Kinds           == {"sum", "product", "factor"}
Length(i, j)    == IF i <= j THEN j - i + 1 ELSE 0
Level(kind)     == CASE kind = "sum" -> 2 [] kind = "product" -> 1 [] OTHER -> 0
Size(piece)     == 3 * Length(piece[2], piece[3]) + Level(piece[1])

LEMMA PieceIs ==
    ASSUME NEW s \in Seq(Characters), NEW kind \in Kinds, NEW i \in 1 .. Len(s) + 1, NEW j \in 0 .. Len(s)
    PROVE  /\ <<kind, i, j>> \in Pieces(s)
           /\ Size(<<kind, i, j>>) = 3 * Length(i, j) + Level(kind)
           /\ Size(<<kind, i, j>>) \in Nat /\ Level(kind) \in 0 .. 2
  <1>1. i \in Int /\ j \in Int
    BY Characterwise
  <1>2. Length(i, j) \in Nat
    BY <1>1 DEF Length
  <1>3. Level(kind) \in 0 .. 2
    BY DEF Level
  <1>4. Size(<<kind, i, j>>) = 3 * Length(i, j) + Level(kind)
    BY Zenon DEF Size
  <1>5. <<kind, i, j>> \in Pieces(s)
    BY DEF Pieces, Kinds
  <1> QED
    BY <1>2, <1>3, <1>4, <1>5

LEMMA PieceCases ==
    ASSUME NEW s \in Seq(Characters), NEW piece \in Pieces(s)
    PROVE  \E i \in 1 .. Len(s) + 1, j \in 0 .. Len(s) :
               piece = <<"sum", i, j>> \/ piece = <<"product", i, j>> \/ piece = <<"factor", i, j>>
  <1>1. PICK kind \in Kinds, i \in 1 .. Len(s) + 1, j \in 0 .. Len(s) : piece = <<kind, i, j>>
    BY DEF Pieces, Kinds
  <1>2. kind = "sum" \/ kind = "product" \/ kind = "factor"
    BY DEF Kinds
  <1> QED
    BY <1>1, <1>2

\* A piece inside another one: shorter, or of a kind further down.
Inside(kind, i, j, other, a, b) ==
    i <= a /\ b <= j /\ ((i <= j /\ (i < a \/ b < j)) \/ Level(other) < Level(kind))

\* f and g are alike on what a piece is derived from.
Equal(s, f, g, piece) == \A d \in Pieces(s) : Size(d) < Size(piece) => f[d] = g[d]

EqualIn(s, f, g, kind, i, j) ==
    \A other \in Kinds, a \in 1 .. Len(s) + 1, b \in 0 .. Len(s) :
        Inside(kind, i, j, other, a, b) => f[<<other, a, b>>] = g[<<other, a, b>>]

LEMMA EqualInside ==
    ASSUME NEW s \in Seq(Characters), NEW f, NEW g,
           NEW kind \in Kinds, NEW i \in 1 .. Len(s) + 1, NEW j \in 0 .. Len(s),
           Equal(s, f, g, <<kind, i, j>>)
    PROVE  EqualIn(s, f, g, kind, i, j)
  <1> SUFFICES ASSUME NEW other \in Kinds, NEW a \in 1 .. Len(s) + 1, NEW b \in 0 .. Len(s),
                      Inside(kind, i, j, other, a, b)
               PROVE  f[<<other, a, b>>] = g[<<other, a, b>>]
    BY DEF EqualIn
  <1>1. i \in Int /\ j \in Int /\ a \in Int /\ b \in Int
    BY Characterwise
  <1>2. /\ Size(<<other, a, b>>) = 3 * Length(a, b) + Level(other) /\ Level(other) \in 0 .. 2
        /\ <<other, a, b>> \in Pieces(s)
    BY PieceIs
  <1>3. Size(<<kind, i, j>>) = 3 * Length(i, j) + Level(kind) /\ Level(kind) \in 0 .. 2
    BY PieceIs
  <1>4. /\ Length(a, b) \in Nat /\ Length(i, j) \in Nat /\ Length(a, b) <= Length(i, j)
        /\ Length(a, b) < Length(i, j) \/ Level(other) < Level(kind)
    BY <1>1 DEF Length, Inside
  <1>5. 3 * Length(a, b) + Level(other) < 3 * Length(i, j) + Level(kind)
    BY <1>2, <1>3, <1>4
  <1> QED
    BY <1>2, <1>3, <1>5 DEF Equal

LEMMA SumLocal ==
    ASSUME NEW s \in Seq(Characters), NEW f, NEW g, NEW i \in 1 .. Len(s) + 1, NEW j \in 0 .. Len(s),
           Equal(s, f, g, <<"sum", i, j>>)
    PROVE  Sum(s, f, i, j) = Sum(s, g, i, j)
  <1>1. PICK sum \in Kinds, product \in Kinds : sum = "sum" /\ product = "product"
    BY DEF Kinds
  <1>2. EqualIn(s, f, g, sum, i, j)
    <2>1. Equal(s, f, g, <<sum, i, j>>)
      BY <1>1
    <2> QED
      BY <2>1, EqualInside
  <1>3. Level(product) < Level(sum)
    BY <1>1 DEF Level
  <1>4. i \in Int /\ j \in Int
    BY Characterwise
  <1>5. f[<<product, i, j>>] = g[<<product, i, j>>]
    <2>1. Inside(sum, i, j, product, i, j)
      BY <1>3, <1>4 DEF Inside
    <2> QED
      BY <1>2, <2>1 DEF EqualIn
  <1>6. ASSUME NEW k \in i .. j
        PROVE  /\ f[<<sum, i, k - 1>>] = g[<<sum, i, k - 1>>]
               /\ f[<<product, k + 1, j>>] = g[<<product, k + 1, j>>]
    <2>1. PICK a, b : a = k + 1 /\ b = k - 1
      OBVIOUS
    <2>2. /\ b \in 0 .. Len(s) /\ b < j /\ a \in 1 .. Len(s) + 1 /\ i < a /\ i <= j
      BY <2>1, SplitAt
    <2>3. Inside(sum, i, j, sum, i, b) /\ Inside(sum, i, j, product, a, j)
      BY <1>4, <2>2 DEF Inside
    <2>4. f[<<sum, i, b>>] = g[<<sum, i, b>>]
      BY <1>2, <2>2, <2>3 DEF EqualIn
    <2>5. f[<<product, a, j>>] = g[<<product, a, j>>]
      BY <1>2, <2>2, <2>3 DEF EqualIn
    <2> QED
      BY <2>1, <2>4, <2>5
  <1>7. ASSUME NEW k \in i .. j, NEW v
        PROVE  SumAt(s, f, i, j, k, v) <=> SumAt(s, g, i, j, k, v)
    BY <1>1, <1>6 DEF SumAt
  <1>8. f[<<"product", i, j>>] = g[<<"product", i, j>>]
    BY <1>1, <1>5
  <1>9. \A v : v \in Sum(s, f, i, j) <=> v \in Sum(s, g, i, j)
    <2> TAKE v
    <2>1. v \in Sum(s, f, i, j) <=> v \in f[<<"product", i, j>>] \/ \E k \in i .. j : SumAt(s, f, i, j, k, v)
      BY SumHas
    <2>2. v \in Sum(s, g, i, j) <=> v \in g[<<"product", i, j>>] \/ \E k \in i .. j : SumAt(s, g, i, j, k, v)
      BY SumHas
    <2> QED
      BY <1>7, <1>8, <2>1, <2>2
  <1> QED
    BY <1>9

LEMMA ProductLocal ==
    ASSUME NEW s \in Seq(Characters), NEW f, NEW g, NEW i \in 1 .. Len(s) + 1, NEW j \in 0 .. Len(s),
           Equal(s, f, g, <<"product", i, j>>)
    PROVE  Product(s, f, i, j) = Product(s, g, i, j)
  <1>1. PICK product \in Kinds, factor \in Kinds : product = "product" /\ factor = "factor"
    BY DEF Kinds
  <1>2. EqualIn(s, f, g, product, i, j)
    <2>1. Equal(s, f, g, <<product, i, j>>)
      BY <1>1
    <2> QED
      BY <2>1, EqualInside
  <1>3. Level(factor) < Level(product)
    BY <1>1 DEF Level
  <1>4. PICK b : b = BackSpaces(s, j)
    OBVIOUS
  <1>5. i \in Int /\ j \in Int /\ b \in 0 .. Len(s) /\ b \in Int /\ b <= j
    BY <1>4, Trimmed
  <1>6. f[<<factor, SkipSpaces(s, i), b>>] = g[<<factor, SkipSpaces(s, i), b>>]
    <2>1. PICK a : a = SkipSpaces(s, i)
      OBVIOUS
    <2>2. a \in 1 .. Len(s) + 1 /\ i <= a
      BY <2>1, Trimmed
    <2>3. Inside(product, i, j, factor, a, b)
      BY <1>3, <1>5, <2>2 DEF Inside
    <2>4. f[<<factor, a, b>>] = g[<<factor, a, b>>]
      BY <1>2, <1>5, <2>2, <2>3 DEF EqualIn
    <2> QED
      BY <2>1, <2>4
  <1>7. ASSUME NEW k \in i .. j
        PROVE  /\ f[<<product, i, k - 1>>] = g[<<product, i, k - 1>>]
               /\ f[<<factor, SkipSpaces(s, k + 1), b>>] = g[<<factor, SkipSpaces(s, k + 1), b>>]
    <2>1. PICK a, c : a = SkipSpaces(s, k + 1) /\ c = k - 1
      OBVIOUS
    <2>2. /\ c \in 0 .. Len(s) /\ c < j /\ a \in 1 .. Len(s) + 1 /\ i < a /\ i <= j
      BY <2>1, SplitAt
    <2>3. Inside(product, i, j, product, i, c) /\ Inside(product, i, j, factor, a, b)
      BY <1>5, <2>2 DEF Inside
    <2>4. f[<<product, i, c>>] = g[<<product, i, c>>]
      BY <1>2, <2>2, <2>3 DEF EqualIn
    <2>5. f[<<factor, a, b>>] = g[<<factor, a, b>>]
      BY <1>2, <1>5, <2>2, <2>3 DEF EqualIn
    <2> QED
      BY <2>1, <2>4, <2>5
  <1>8. ASSUME NEW k \in i .. j, NEW v
        PROVE  ProductAt(s, f, i, j, k, v) <=> ProductAt(s, g, i, j, k, v)
    BY <1>1, <1>4, <1>7 DEF ProductAt
  <1>9. f[<<"factor", SkipSpaces(s, i), BackSpaces(s, j)>>] = g[<<"factor", SkipSpaces(s, i), BackSpaces(s, j)>>]
    BY <1>1, <1>4, <1>6
  <1>10. \A v : v \in Product(s, f, i, j) <=> v \in Product(s, g, i, j)
    <2> TAKE v
    <2>1. v \in Product(s, f, i, j) <=> \/ v \in f[<<"factor", SkipSpaces(s, i), BackSpaces(s, j)>>]
                                       \/ \E k \in i .. j : ProductAt(s, f, i, j, k, v)
      BY ProductHas
    <2>2. v \in Product(s, g, i, j) <=> \/ v \in g[<<"factor", SkipSpaces(s, i), BackSpaces(s, j)>>]
                                       \/ \E k \in i .. j : ProductAt(s, g, i, j, k, v)
      BY ProductHas
    <2> QED
      BY <1>8, <1>9, <2>1, <2>2
  <1> QED
    BY <1>10

LEMMA FactorPieces ==
    ASSUME NEW s \in Seq(Characters), NEW f, NEW g, NEW i \in 1 .. Len(s) + 1, NEW j \in 0 .. Len(s),
           Equal(s, f, g, <<"factor", i, j>>)
    PROVE  Factor(s, f, i, j) = Factor(s, g, i, j)
  <1>1. PICK sum \in Kinds, factor \in Kinds : sum = "sum" /\ factor = "factor"
    BY DEF Kinds
  <1>2. EqualIn(s, f, g, factor, i, j)
    <2>1. Equal(s, f, g, <<factor, i, j>>)
      BY <1>1
    <2> QED
      BY <2>1, EqualInside
  <1>3. CASE i <= j
    <2>1. PICK a, b, c : a = SkipSpaces(s, i + 1) /\ b = j - 1 /\ c = i + 1
      OBVIOUS
    <2>2. i \in Int /\ j \in Int /\ i \in i .. j
      BY <1>3, Trimmed
    <2>3. a \in 1 .. Len(s) + 1 /\ i < a /\ b \in 0 .. Len(s) /\ b < j /\ c \in 1 .. Len(s) + 1 /\ i < c
      BY <1>3, <2>1, <2>2, SplitAt
    <2>4. Inside(factor, i, j, factor, a, j) /\ Inside(factor, i, j, sum, c, b)
      BY <1>3, <2>2, <2>3 DEF Inside
    <2>5. f[<<factor, a, j>>] = g[<<factor, a, j>>]
      BY <1>2, <2>3, <2>4 DEF EqualIn
    <2>6. f[<<sum, c, b>>] = g[<<sum, c, b>>]
      BY <1>2, <2>3, <2>4 DEF EqualIn
    <2> QED
      BY <1>1, <2>1, <2>5, <2>6 DEF Factor
  <1>4. CASE ~ (i <= j)
    <2>1. i > j
      BY <1>4, Trimmed
    <2> QED
      BY <2>1 DEF Factor
  <1> QED
    BY <1>3, <1>4

\* All that a piece is derived from are sets of numbers.
Valued(s, f) ==
    \A kind \in Kinds, i \in 1 .. Len(s) + 1, j \in 0 .. Len(s) : f[<<kind, i, j>>] \in SUBSET Number

LEMMA SumValued ==
    ASSUME NEW s \in Seq(Characters), NEW f, Valued(s, f), NEW i \in 1 .. Len(s) + 1, NEW j \in 0 .. Len(s)
    PROVE  Sum(s, f, i, j) \in SUBSET Number
  <1>1. PICK sum \in Kinds, product \in Kinds : sum = "sum" /\ product = "product"
    BY DEF Kinds
  <1>2. f[<<product, i, j>>] \in SUBSET Number
    BY DEF Valued
  <1>3. ASSUME NEW k \in i .. j, NEW v, SumAt(s, f, i, j, k, v)
        PROVE  v \in Number
    <2>1. PICK a, b : a = k + 1 /\ b = k - 1
      OBVIOUS
    <2>2. b \in 0 .. Len(s) /\ a \in 1 .. Len(s) + 1
      BY <2>1, SplitAt
    <2>3. f[<<sum, i, b>>] \in SUBSET Number /\ f[<<product, a, j>>] \in SUBSET Number
      BY <2>2 DEF Valued
    <2>4. PICK l \in f[<<sum, i, b>>], r \in f[<<product, a, j>>] : v = Plus(l, r) \/ v = Plus(l, Negate(r))
      BY <1>1, <1>3, <2>1 DEF SumAt
    <2>5. l \in Number /\ r \in Number
      BY <2>3, <2>4
    <2> QED
      BY <2>4, <2>5, NumberType
  <1>4. ASSUME NEW v \in Sum(s, f, i, j)
        PROVE  v \in Number
    <2>1. v \in f[<<"product", i, j>>] \/ \E k \in i .. j : SumAt(s, f, i, j, k, v)
      BY SumHas
    <2> QED
      BY <1>1, <1>2, <1>3, <2>1
  <1> QED
    BY <1>4

LEMMA ProductValued ==
    ASSUME NEW s \in Seq(Characters), NEW f, Valued(s, f), NEW i \in 1 .. Len(s) + 1, NEW j \in 0 .. Len(s)
    PROVE  Product(s, f, i, j) \in SUBSET Number
  <1>1. PICK product \in Kinds, factor \in Kinds : product = "product" /\ factor = "factor"
    BY DEF Kinds
  <1>2. PICK b : b = BackSpaces(s, j)
    OBVIOUS
  <1>3. b \in 0 .. Len(s)
    BY <1>2, Trimmed
  <1>4. f[<<factor, SkipSpaces(s, i), b>>] \in SUBSET Number
    <2>1. PICK a : a = SkipSpaces(s, i)
      OBVIOUS
    <2>2. a \in 1 .. Len(s) + 1
      BY <2>1, Trimmed
    <2> QED
      BY <1>3, <2>1, <2>2 DEF Valued
  <1>5. ASSUME NEW k \in i .. j, NEW v, ProductAt(s, f, i, j, k, v)
        PROVE  v \in Number
    <2>1. PICK a, c : a = SkipSpaces(s, k + 1) /\ c = k - 1
      OBVIOUS
    <2>2. c \in 0 .. Len(s) /\ a \in 1 .. Len(s) + 1
      BY <2>1, SplitAt
    <2>3. f[<<product, i, c>>] \in SUBSET Number /\ f[<<factor, a, b>>] \in SUBSET Number
      BY <1>3, <2>2 DEF Valued
    <2>4. PICK l \in f[<<product, i, c>>], r \in f[<<factor, a, b>>] : v = Times(l, r) \/ v = Times(l, Invert(r))
      BY <1>1, <1>2, <1>5, <2>1 DEF ProductAt
    <2>5. l \in Number /\ r \in Number
      BY <2>3, <2>4
    <2> QED
      BY <2>4, <2>5, NumberType
  <1>6. ASSUME NEW v \in Product(s, f, i, j)
        PROVE  v \in Number
    <2>1. \/ v \in f[<<"factor", SkipSpaces(s, i), BackSpaces(s, j)>>]
          \/ \E k \in i .. j : ProductAt(s, f, i, j, k, v)
      BY ProductHas
    <2> QED
      BY <1>1, <1>2, <1>4, <1>5, <2>1
  <1> QED
    BY <1>6

LEMMA FactorValued ==
    ASSUME NEW s \in Seq(Characters), NEW f, Valued(s, f), NEW i \in 1 .. Len(s) + 1, NEW j \in 0 .. Len(s)
    PROVE  Factor(s, f, i, j) \in SUBSET Number
  <1>1. PICK sum \in Kinds, factor \in Kinds : sum = "sum" /\ factor = "factor"
    BY DEF Kinds
  <1>2. CASE i <= j
    <2>1. PICK a, b, c : a = SkipSpaces(s, i + 1) /\ b = j - 1 /\ c = i + 1
      OBVIOUS
    <2>2. i \in Int /\ j \in Int /\ i \in i .. j /\ j \in i - 1 .. Len(s)
      BY <1>2, Trimmed
    <2>3. a \in 1 .. Len(s) + 1 /\ b \in 0 .. Len(s) /\ c \in 1 .. Len(s) + 1
      BY <1>2, <2>1, <2>2, SplitAt
    <2>4. f[<<factor, a, j>>] \in SUBSET Number /\ f[<<sum, c, b>>] \in SUBSET Number
      BY <2>3 DEF Valued
    <2>5. {Negate(v) : v \in f[<<factor, a, j>>]} \in SUBSET Number
      <3>1. \A v \in f[<<factor, a, j>>] : Negate(v) \in Number
        BY <2>4, NumberType
      <3> QED
        BY <3>1
    <2>6. (IF IsNumber(s, i, j) THEN {ParseFloat(s, i, j)} ELSE {}) \in SUBSET Number
      BY <2>2, ParseFloatType DEF IsNumber
    <2> QED
      BY <1>1, <2>1, <2>4, <2>5, <2>6 DEF Factor
  <1>3. CASE ~ (i <= j)
    <2>1. i > j
      BY <1>3, Trimmed
    <2> QED
      BY <2>1 DEF Factor
  <1> QED
    BY <1>2, <1>3

LEMMA DeriveIs ==
    ASSUME NEW s, NEW f, NEW i, NEW j
    PROVE  /\ Derive(s, f, <<"sum", i, j>>) = Sum(s, f, i, j)
           /\ Derive(s, f, <<"product", i, j>>) = Product(s, f, i, j)
           /\ Derive(s, f, <<"factor", i, j>>) = Factor(s, f, i, j)
  BY DEF Derive

LEMMA GrammarEquation ==
    ASSUME NEW s \in Seq(Characters)
    PROVE  /\ Valued(s, Grammar(s))
           /\ \A piece \in Pieces(s) : Grammar(s)[piece] = Derive(s, Grammar(s), piece)
  <1> DEFINE X == Pieces(s)
             Y == SUBSET Number
             R == [piece \in X |-> Y]
             m == [piece \in X |-> Size(piece)]
             F == Within(X, Y, R)
             B == [f \in F |-> [piece \in X |-> Derive(s, f, piece)]]
  <1>1. \A kind \in Kinds, i \in 1 .. Len(s) + 1, j \in 0 .. Len(s) :
            <<kind, i, j>> \in X /\ Size(<<kind, i, j>>) \in Nat
    BY PieceIs
  <1>2. \A piece \in X : Size(piece) \in Nat
    <2> TAKE piece \in X
    <2>1. PICK kind \in Kinds, i \in 1 .. Len(s) + 1, j \in 0 .. Len(s) : piece = <<kind, i, j>>
      BY DEF Pieces, Kinds
    <2> HIDE DEF X
    <2> QED
      BY <1>1, <2>1
  <1> HIDE DEF X, Y
  <1>3. m \in [X -> Nat] /\ R \in [X -> SUBSET Y]
    BY <1>2
  <1>4. ASSUME NEW f \in F
        PROVE  Valued(s, f)
    <2>1. \A piece \in X : f[piece] \in SUBSET Number
      BY DEF Within, Y
    <2> QED
      BY <1>1, <2>1 DEF Valued
  <1>5. ASSUME NEW f, Valued(s, f), NEW piece \in X
        PROVE  Derive(s, f, piece) \in SUBSET Number
    <2>1. PICK i \in 1 .. Len(s) + 1, j \in 0 .. Len(s) :
              piece = <<"sum", i, j>> \/ piece = <<"product", i, j>> \/ piece = <<"factor", i, j>>
      BY PieceCases DEF X
    <2>2. CASE piece = <<"sum", i, j>>
      <3>1. Derive(s, f, piece) = Sum(s, f, i, j)
        BY <2>2, DeriveIs
      <3> QED
        BY <1>5, <3>1, SumValued
    <2>3. CASE piece = <<"product", i, j>>
      <3>1. Derive(s, f, piece) = Product(s, f, i, j)
        BY <2>3, DeriveIs
      <3> QED
        BY <1>5, <3>1, ProductValued
    <2>4. CASE piece = <<"factor", i, j>>
      <3>1. Derive(s, f, piece) = Factor(s, f, i, j)
        BY <2>4, DeriveIs
      <3> QED
        BY <1>5, <3>1, FactorValued
    <2> QED
      BY <2>1, <2>2, <2>3, <2>4
  <1>6. ASSUME NEW f, NEW g, NEW piece \in X, \A d \in X : m[d] < m[piece] => f[d] = g[d]
        PROVE  Derive(s, f, piece) = Derive(s, g, piece)
    <2>1. \A d \in X : Size(d) < Size(piece) => f[d] = g[d]
      BY <1>6
    <2>2. Equal(s, f, g, piece)
      BY <2>1 DEF Equal, X
    <2>3. PICK i \in 1 .. Len(s) + 1, j \in 0 .. Len(s) :
              piece = <<"sum", i, j>> \/ piece = <<"product", i, j>> \/ piece = <<"factor", i, j>>
      BY PieceCases DEF X
    <2>4. CASE piece = <<"sum", i, j>>
      <3>1. Derive(s, f, piece) = Sum(s, f, i, j) /\ Derive(s, g, piece) = Sum(s, g, i, j)
        BY <2>4, DeriveIs
      <3>2. Equal(s, f, g, <<"sum", i, j>>)
        BY <2>2, <2>4
      <3> QED
        BY <3>1, <3>2, SumLocal
    <2>5. CASE piece = <<"product", i, j>>
      <3>1. Derive(s, f, piece) = Product(s, f, i, j) /\ Derive(s, g, piece) = Product(s, g, i, j)
        BY <2>5, DeriveIs
      <3>2. Equal(s, f, g, <<"product", i, j>>)
        BY <2>2, <2>5
      <3> QED
        BY <3>1, <3>2, ProductLocal
    <2>6. CASE piece = <<"factor", i, j>>
      <3>1. Derive(s, f, piece) = Factor(s, f, i, j) /\ Derive(s, g, piece) = Factor(s, g, i, j)
        BY <2>6, DeriveIs
      <3>2. Equal(s, f, g, <<"factor", i, j>>)
        BY <2>2, <2>6
      <3> QED
        BY <3>1, <3>2, FactorPieces
    <2> QED
      BY <2>3, <2>4, <2>5, <2>6
  <1>7. F # {}
    <2>1. [piece \in X |-> {}] \in F
      BY DEF Within, Y
    <2> QED
      BY <2>1
  <1>8. B \in [F -> F]
    <2>1. ASSUME NEW f \in F
          PROVE  [piece \in X |-> Derive(s, f, piece)] \in F
      <3>1. \A piece \in X : Derive(s, f, piece) \in Y
        BY <1>4, <1>5 DEF Y
      <3> QED
        BY <3>1 DEF Within
    <2> QED
      BY <2>1
  <1> HIDE DEF R, m
  <1>9. PICK f \in F : B[f] = f
    <2>1. Descends(X, F, B, m)
      BY <1>6 DEF Descends
    <2> HIDE DEF B
    <2> QED
      BY <1>3, <1>7, <1>8, <2>1, FixedPoint
  <1>10. f = [piece \in X |-> Derive(s, f, piece)]
    BY <1>9
  <1> DEFINE value == CHOOSE h : h = [piece \in X |-> Derive(s, h, piece)]
  <1>11. value = [piece \in X |-> Derive(s, value, piece)]
    BY <1>10, Zenon
  <1>12. Valued(s, f)
    BY <1>4
  <1>13. value = f
    <2> HIDE DEF value, F
    <2>1. Follows(X, value, f, m)
      BY <1>6, <1>10, <1>11 DEF Follows
    <2>2. FunctionOn(value, X) /\ FunctionOn(f, X)
      BY <1>10, <1>11 DEF FunctionOn
    <2> QED
      BY <1>3, <2>1, <2>2, SameFunction, Zenon
  <1>14. Grammar(s) = value
    BY Zenon DEF Grammar, X
  <1> HIDE DEF value, B, F
  <1> QED
    BY <1>10, <1>12, <1>13, <1>14 DEF X

-----------------------------------------------------------------------------
(* What the grammar derives.                                               *)

SumOf(s, i, j)     == Grammar(s)[<<"sum", i, j>>]
ProductOf(s, i, j) == Grammar(s)[<<"product", i, j>>]
FactorOf(s, i, j)  == Grammar(s)[<<"factor", i, j>>]

LEMMA GrammarIs ==
    ASSUME NEW s \in Seq(Characters), NEW i \in 1 .. Len(s) + 1, NEW j \in 0 .. Len(s)
    PROVE  /\ SumOf(s, i, j) = Sum(s, Grammar(s), i, j) /\ SumOf(s, i, j) \in SUBSET Number
           /\ ProductOf(s, i, j) = Product(s, Grammar(s), i, j) /\ ProductOf(s, i, j) \in SUBSET Number
           /\ FactorOf(s, i, j) = Factor(s, Grammar(s), i, j) /\ FactorOf(s, i, j) \in SUBSET Number
  <1> DEFINE g == Grammar(s)
  <1>1. /\ <<"sum", i, j>> \in Pieces(s) /\ <<"product", i, j>> \in Pieces(s)
        /\ <<"factor", i, j>> \in Pieces(s)
    BY DEF Pieces
  <1>2. \A piece \in Pieces(s) : g[piece] = Derive(s, g, piece)
    BY GrammarEquation
  <1>3. Valued(s, g)
    BY GrammarEquation
  <1> HIDE DEF g
  <1>4. /\ g[<<"sum", i, j>>] = Derive(s, g, <<"sum", i, j>>)
        /\ g[<<"product", i, j>>] = Derive(s, g, <<"product", i, j>>)
        /\ g[<<"factor", i, j>>] = Derive(s, g, <<"factor", i, j>>)
    BY <1>1, <1>2
  <1>5. /\ Sum(s, g, i, j) \in SUBSET Number /\ Product(s, g, i, j) \in SUBSET Number
        /\ Factor(s, g, i, j) \in SUBSET Number
    BY <1>3, SumValued, ProductValued, FactorValued
  <1> QED
    BY <1>4, <1>5, DeriveIs DEF g, SumOf, ProductOf, FactorOf

\* The value of a sum, or of a product, whose last operator is at k.
AddedAt(s, k, l, r, v) ==
    (s[k] = "+" /\ v = Plus(l, r)) \/ (s[k] = "-" /\ v = Plus(l, Negate(r)))
MultipliedAt(s, k, l, r, v) ==
    (s[k] = "*" /\ v = Times(l, r)) \/ (s[k] = "/" /\ r.num # 0 /\ v = Times(l, Invert(r)))

LEMMA SumIs ==
    ASSUME NEW s \in Seq(Characters), NEW i \in 1 .. Len(s) + 1, NEW j \in 0 .. Len(s), NEW v
    PROVE  v \in SumOf(s, i, j) <=>
               \/ v \in ProductOf(s, i, j)
               \/ \E k \in i .. j : \E l \in SumOf(s, i, k - 1), r \in ProductOf(s, k + 1, j) :
                      AddedAt(s, k, l, r, v)
  <1>1. SumOf(s, i, j) = Sum(s, Grammar(s), i, j)
    BY GrammarIs
  <1>2. v \in Sum(s, Grammar(s), i, j) <=>
            v \in ProductOf(s, i, j) \/ \E k \in i .. j : SumAt(s, Grammar(s), i, j, k, v)
    BY SumHas DEF ProductOf
  <1>3. ASSUME NEW k \in i .. j
        PROVE  SumAt(s, Grammar(s), i, j, k, v) <=>
                   \E l \in SumOf(s, i, k - 1), r \in ProductOf(s, k + 1, j) : AddedAt(s, k, l, r, v)
    BY DEF SumAt, SumOf, ProductOf, AddedAt
  <1> QED
    BY <1>1, <1>2, <1>3

LEMMA ProductIs ==
    ASSUME NEW s \in Seq(Characters), NEW i \in 1 .. Len(s) + 1, NEW j \in 0 .. Len(s), NEW v
    PROVE  v \in ProductOf(s, i, j) <=>
               \/ v \in FactorOf(s, SkipSpaces(s, i), BackSpaces(s, j))
               \/ \E k \in i .. j : \E l \in ProductOf(s, i, k - 1),
                                      r \in FactorOf(s, SkipSpaces(s, k + 1), BackSpaces(s, j)) :
                      MultipliedAt(s, k, l, r, v)
  <1>1. ProductOf(s, i, j) = Product(s, Grammar(s), i, j)
    BY GrammarIs
  <1>2. v \in Product(s, Grammar(s), i, j) <=>
            \/ v \in FactorOf(s, SkipSpaces(s, i), BackSpaces(s, j))
            \/ \E k \in i .. j : ProductAt(s, Grammar(s), i, j, k, v)
    BY ProductHas DEF FactorOf
  <1>3. ASSUME NEW k \in i .. j
        PROVE  ProductAt(s, Grammar(s), i, j, k, v) <=>
                   \E l \in ProductOf(s, i, k - 1), r \in FactorOf(s, SkipSpaces(s, k + 1), BackSpaces(s, j)) :
                       MultipliedAt(s, k, l, r, v)
    BY DEF ProductAt, ProductOf, FactorOf, MultipliedAt
  <1> QED
    BY <1>1, <1>2, <1>3

LEMMA FactorIs ==
    ASSUME NEW s \in Seq(Characters), NEW i \in 1 .. Len(s) + 1, NEW j \in 0 .. Len(s)
    PROVE  /\ i > j => FactorOf(s, i, j) = {}
           /\ i <= j /\ s[i] = "+" => FactorOf(s, i, j) = FactorOf(s, SkipSpaces(s, i + 1), j)
           /\ i <= j /\ s[i] = "-" => \A v : v \in FactorOf(s, i, j) <=>
                  \E w \in FactorOf(s, SkipSpaces(s, i + 1), j) : v = Negate(w)
           /\ i <= j /\ s[i] = "(" /\ s[j] = ")" => FactorOf(s, i, j) = SumOf(s, i + 1, j - 1)
           /\ i <= j /\ s[i] \notin {"+", "-"} /\ ~ (s[i] = "(" /\ s[j] = ")") =>
                  FactorOf(s, i, j) = IF IsNumber(s, i, j) THEN {ParseFloat(s, i, j)} ELSE {}
  <1>1. FactorOf(s, i, j) = Factor(s, Grammar(s), i, j)
    BY GrammarIs
  <1>2. i \in Int /\ j \in Int /\ (i <= j <=> ~ (i > j))
    BY Trimmed
  <1> DEFINE g == Grammar(s)
             number == IF IsNumber(s, i, j) THEN {ParseFloat(s, i, j)} ELSE {}
  <1>3. ASSUME i > j
        PROVE  Factor(s, g, i, j) = {}
    BY <1>3 DEF Factor
  <1>4. ASSUME ~ (i > j), s[i] = "+"
        PROVE  Factor(s, g, i, j) = g[<<"factor", SkipSpaces(s, i + 1), j>>]
    BY <1>4 DEF Factor
  <1>5. ASSUME ~ (i > j), s[i] = "-"
        PROVE  Factor(s, g, i, j) = {Negate(v) : v \in g[<<"factor", SkipSpaces(s, i + 1), j>>]}
    BY <1>5 DEF Factor
  <1>6. ASSUME ~ (i > j), s[i] = "(" /\ s[j] = ")"
        PROVE  Factor(s, g, i, j) = g[<<"sum", i + 1, j - 1>>]
    BY <1>6 DEF Factor
  <1>7. ASSUME ~ (i > j), s[i] \notin {"+", "-"}, ~ (s[i] = "(" /\ s[j] = ")")
        PROVE  Factor(s, g, i, j) = number
    BY <1>7 DEF Factor
  <1> HIDE DEF number
  <1> QED
    BY <1>1, <1>2, <1>3, <1>4, <1>5, <1>6, <1>7 DEF FactorOf, SumOf, number

-----------------------------------------------------------------------------
(* What the grammar derives is read, by induction on the length of the     *)
(* piece: with the value derived, and to its end if what follows it cannot *)
(* go on with it.                                                          *)

LEMMA Stays ==
    ASSUME NEW s \in Seq(Characters), NEW p \in 1 .. Len(s) + 1, At(s, p) # "space"
    PROVE  SkipSpaces(s, p) = p
  <1>1. p \in p .. Len(s) + 1 /\ \A k \in p .. p - 1 : FALSE
    BY Characterwise
  <1> QED
    BY <1>1, SkipsTo

LEMMA FactorSkips ==
    ASSUME NEW s \in Seq(Characters), NEW p \in 1 .. Len(s) + 1, NEW q, q = SkipSpaces(s, p)
    PROVE  q \in 1 .. Len(s) + 1 /\ p <= q /\ At(s, q) # "space" /\ FactorAt(s, p) = FactorAt(s, q)
  <1>1. q \in p .. Len(s) + 1 /\ At(s, q) # "space" /\ p \in Int /\ Len(s) \in Nat
    BY SkipsSpaces, Characterwise
  <1>2. q \in 1 .. Len(s) + 1 /\ p <= q
    BY <1>1
  <1>3. SkipSpaces(s, q) = q
    BY <1>1, <1>2, Stays
  <1>4. FactorAt(s, p) = ParseFactor(s, Parser(s), p)
    BY Equations, NumberType
  <1>5. FactorAt(s, q) = ParseFactor(s, Parser(s), q)
    BY <1>2, Equations, NumberType
  <1>6. ParseFactor(s, Parser(s), p) = ParseFactor(s, Parser(s), q)
    BY <1>3 DEF ParseFactor
  <1> QED
    BY <1>1, <1>2, <1>4, <1>5, <1>6

LEMMA FactorsSkip ==
    ASSUME NEW s \in Seq(Characters), NEW p \in 1 .. Len(s) + 1, NEW q \in 1 .. Len(s) + 1,
           SkipSpaces(s, p) = SkipSpaces(s, q), NEW v \in Number
    PROVE  FactorsAt(s, p, v) = FactorsAt(s, q, v)
  <1>1. /\ FactorsAt(s, p, v) = MoreFactors(s, Parser(s), p, v)
        /\ FactorsAt(s, q, v) = MoreFactors(s, Parser(s), q, v)
    BY Equations
  <1>2. MoreFactors(s, Parser(s), p, v) = MoreFactors(s, Parser(s), q, v)
    BY DEF MoreFactors
  <1> QED
    BY <1>1, <1>2

Figure == DOMAIN Digit \cup {"."}

LEMMA NumberReads ==
    ASSUME NEW s \in Seq(Characters), NEW i \in 1 .. Len(s) + 1, NEW j \in 0 .. Len(s), i <= j,
           IsNumber(s, i, j), At(s, j + 1) \notin Figure
    PROVE  ParseNumber(s, i) = Done(j + 1, ParseFloat(s, i, j))
  <1> DEFINE T == {q \in i .. Len(s) : Figures(s, i, q)}
  <1>1. Len(s) \in Nat /\ i \in Int /\ j \in Int
    BY Trimmed
  <1>2. Figures(s, i, j)
    BY DEF IsNumber
  <1>3. j \in T
    BY <1>1, <1>2
  <1>4. T \in SUBSET Nat /\ \A n \in T : n <= Len(s)
    BY <1>1
  <1>5. ASSUME NEW q \in T, q > j
        PROVE  FALSE
    <2>1. Figures(s, i, q) /\ j + 1 \in i .. q /\ j + 1 \in 1 .. Len(s)
      BY <1>1, <1>5
    <2>2. s[j + 1] \in Figure
      BY <2>1 DEF Figures, Figure
    <2>3. At(s, j + 1) = s[j + 1]
      BY <1>1, <2>1, Characterwise
    <2> QED
      BY <2>2, <2>3
  <1> HIDE DEF T
  <1>6. Max(T) \in T /\ \A n \in T : n <= Max(T)
    BY <1>1, <1>3, <1>4, MaxIs
  <1>7. Max(T) = j
    <2>1. PICK n : n = Max(T)
      OBVIOUS
    <2>2. n \in T /\ n \in Nat /\ j <= n
      BY <1>3, <1>4, <1>6, <2>1
    <2>3. ~ (n > j)
      BY <1>5, <2>2
    <2> QED
      BY <1>1, <2>1, <2>2, <2>3
  <1> USE DEF T
  <1>8. ParseNumber(s, i) =
            IF T # {} /\ IsNumber(s, i, Max(T)) THEN Done(Max(T) + 1, ParseFloat(s, i, Max(T))) ELSE Fail
    BY DEF ParseNumber
  <1>9. T # {}
    BY <1>3
  <1> HIDE DEF T
  <1>10. ParseNumber(s, i) = Done(Max(T) + 1, ParseFloat(s, i, Max(T)))
    BY <1>7, <1>8, <1>9, Zenon
  <1> QED
    BY <1>7, <1>10, Zenon

FactorRead(s, i, j) ==
    At(s, i) # "space" /\ At(s, j + 1) \notin Figure =>
        \A v \in FactorOf(s, i, j) : FactorAt(s, i) = Done(j + 1, v)
ProductRead(s, i, j) ==
    At(s, j + 1) \in {")", "end", "+", "-", "*", "/"} =>
        \A v \in ProductOf(s, i, j) : TermAt(s, i) = FactorsAt(s, j + 1, v)
SumRead(s, i, j) ==
    At(s, j + 1) \in {")", "end", "+", "-"} =>
        \A v \in SumOf(s, i, j) : ExpressionAt(s, i) = TermsAt(s, j + 1, v)

ReadBelow(s, n) ==
    \A i \in 1 .. Len(s) + 1, j \in 0 .. Len(s) :
        Length(i, j) < n => FactorRead(s, i, j) /\ ProductRead(s, i, j) /\ SumRead(s, i, j)

LEMMA FactorReads ==
    ASSUME NEW s \in Seq(Characters), NEW i \in 1 .. Len(s) + 1, NEW j \in 0 .. Len(s),
           ReadBelow(s, Length(i, j))
    PROVE  FactorRead(s, i, j)
  <1> SUFFICES ASSUME At(s, i) # "space", At(s, j + 1) \notin Figure, NEW v \in FactorOf(s, i, j)
               PROVE  FactorAt(s, i) = Done(j + 1, v)
    BY DEF FactorRead
  <1>1. i \in Int /\ j \in Int /\ Len(s) \in Nat
    BY Trimmed
  <1>2. i <= j
    BY <1>1, FactorIs
  <1>3. /\ i \in i .. j /\ i \in 1 .. Len(s) /\ j \in 1 .. Len(s) /\ j + 1 \in 1 .. Len(s) + 1
        /\ i + 1 \in 1 .. Len(s) + 1 /\ j - 1 \in 0 .. Len(s)
    BY <1>1, <1>2
  <1>4. s[i] = At(s, i) /\ s[j] = At(s, j)
    BY <1>3, Characterwise
  <1>5. i = SkipSpaces(s, i)
    BY Stays
  <1>6. PICK a : a = SkipSpaces(s, i + 1)
    OBVIOUS
  <1>7. a \in 1 .. Len(s) + 1 /\ i + 1 <= a /\ At(s, a) # "space" /\ FactorAt(s, i + 1) = FactorAt(s, a)
    BY <1>3, <1>6, FactorSkips
  <1>8. ASSUME NEW w \in FactorOf(s, a, j)
        PROVE  FactorAt(s, i + 1) = Done(j + 1, w)
    <2>1. Length(a, j) < Length(i, j)
      BY <1>1, <1>2, <1>7 DEF Length
    <2>2. FactorRead(s, a, j)
      BY <1>7, <2>1 DEF ReadBelow
    <2> QED
      BY <1>7, <2>2 DEF FactorRead
  <1>9. CASE s[i] = "+"
    <2>1. v \in FactorOf(s, a, j)
      BY <1>2, <1>6, <1>9, FactorIs
    <2>2. At(s, i) = "+"
      BY <1>4, <1>9
    <2>3. FactorAt(s, i) = FactorAt(s, i + 1)
      BY <1>5, <2>2, FactorSees, Zenon
    <2> QED
      BY <1>8, <2>1, <2>3
  <1>10. CASE s[i] = "-"
    <2>1. PICK w \in FactorOf(s, a, j) : v = Negate(w)
      BY <1>2, <1>6, <1>10, FactorIs
    <2>2. FactorAt(s, i + 1) = Done(j + 1, w)
      BY <1>8
    <2>3. FactorAt(s, i) = IF FactorAt(s, i + 1).ok
                           THEN Done(FactorAt(s, i + 1).pos, Negate(FactorAt(s, i + 1).val)) ELSE Fail
      BY <1>4, <1>5, <1>10, FactorSees
    <2>4. FactorAt(s, i + 1).ok = TRUE /\ FactorAt(s, i + 1).pos = j + 1 /\ FactorAt(s, i + 1).val = w
      BY <2>2 DEF Done
    <2> QED
      BY <2>1, <2>3, <2>4, Zenon
  <1>11. CASE s[i] = "(" /\ s[j] = ")"
    <2>1. v \in SumOf(s, i + 1, j - 1)
      BY <1>2, <1>11, FactorIs
    <2>2. Length(i + 1, j - 1) < Length(i, j)
      BY <1>1, <1>2 DEF Length
    <2>3. SumRead(s, i + 1, j - 1)
      BY <1>3, <2>2 DEF ReadBelow
    <2>4. (j - 1) + 1 = j
      BY <1>1
    <2>5. ExpressionAt(s, i + 1) = TermsAt(s, j, v)
      BY <1>4, <1>11, <2>1, <2>3, <2>4 DEF SumRead
    <2>6. v \in Number
      BY <1>3, <2>1, GrammarIs
    <2>11. j \in 1 .. Len(s) + 1 /\ At(s, j) = ")" /\ At(s, j) # "space"
      BY <1>1, <1>3, <1>4, <1>11
    <2>7. j \in 1 .. Len(s) + 1 /\ j = SkipSpaces(s, j)
      BY <2>11, Stays
    <2>8. TermsAt(s, j, v) = Done(j, v)
      BY <1>4, <1>11, <2>6, <2>7, TermsSee
    <2>9. PICK e : e = ExpressionAt(s, i + 1)
      OBVIOUS
    <2>10. e.ok = TRUE /\ e.pos = j /\ e.val = v
      BY <2>5, <2>8, <2>9 DEF Done
    <2>12. At(s, i) = "("
      BY <1>4, <1>11
    <2>13. FactorAt(s, i) = IF e.ok /\ At(s, SkipSpaces(s, e.pos)) = ")"
                            THEN Done(SkipSpaces(s, e.pos) + 1, e.val) ELSE Fail
      BY <1>5, <2>9, <2>12, FactorSees
    <2> QED
      BY <2>7, <2>10, <2>11, <2>13
  <1>12. CASE s[i] \notin {"+", "-"} /\ ~ (s[i] = "(" /\ s[j] = ")")
    <2>1. IsNumber(s, i, j) /\ v = ParseFloat(s, i, j)
      BY <1>2, <1>12, FactorIs
    <2>2. ParseNumber(s, i) = Done(j + 1, v)
      BY <1>2, <2>1, NumberReads
    <2>3. s[i] \in Figure
      BY <1>3, <2>1 DEF IsNumber, Figures, Figure
    <2>4. At(s, i) \notin {"+", "-", "("}
      BY <1>4, <2>3 DEF Figure, Digit
    <2>5. FactorAt(s, i) = ParseNumber(s, i)
      BY <1>5, <2>4, FactorSees
    <2> QED
      BY <2>2, <2>5
  <1> QED
    BY <1>9, <1>10, <1>11, <1>12

LEMMA ReadBelowLess ==
    ASSUME NEW s, NEW n \in Nat, NEW k \in Nat, k <= n, ReadBelow(s, n),
           \A i \in 1 .. Len(s) + 1, j \in 0 .. Len(s) : Length(i, j) \in Nat
    PROVE  ReadBelow(s, k)
  <1> SUFFICES ASSUME NEW i \in 1 .. Len(s) + 1, NEW j \in 0 .. Len(s), Length(i, j) < k
               PROVE  FactorRead(s, i, j) /\ ProductRead(s, i, j) /\ SumRead(s, i, j)
    BY DEF ReadBelow
  <1>1. Length(i, j) < n
    OBVIOUS
  <1> QED
    BY <1>1 DEF ReadBelow

LEMMA Lengths ==
    ASSUME NEW s \in Seq(Characters), NEW i \in 1 .. Len(s) + 1, NEW j \in 0 .. Len(s)
    PROVE  Length(i, j) \in Nat
  BY Trimmed DEF Length

LEMMA ProductReads ==
    ASSUME NEW s \in Seq(Characters), NEW i \in 1 .. Len(s) + 1, NEW j \in 0 .. Len(s),
           ReadBelow(s, Length(i, j))
    PROVE  ProductRead(s, i, j)
  <1> SUFFICES ASSUME At(s, j + 1) \in {")", "end", "+", "-", "*", "/"}, NEW v \in ProductOf(s, i, j)
               PROVE  TermAt(s, i) = FactorsAt(s, j + 1, v)
    BY DEF ProductRead
  <1>1. i \in Int /\ j \in Int /\ Len(s) \in Nat /\ j + 1 \in 1 .. Len(s) + 1
    BY Trimmed
  <1>2. At(s, j + 1) # "space" /\ At(s, j + 1) \notin Figure
    BY DEF Figure, Digit
  <1>3. PICK b : b = BackSpaces(s, j)
    OBVIOUS
  <1>4. b \in 0 .. j /\ \A k \in b + 1 .. j : At(s, k) = "space"
    BY <1>3, BacksSpaces
  <1>5. /\ b \in 0 .. Len(s) /\ b \in Int /\ b <= j /\ b + 1 \in 1 .. Len(s) + 1
        /\ j + 1 \in b + 1 .. Len(s) + 1
    BY <1>1, <1>4
  <1>6. SkipSpaces(s, b + 1) = SkipSpaces(s, j + 1)
    <2>1. \A k \in b + 1 .. (j + 1) - 1 : At(s, k) = "space"
      BY <1>1, <1>4
    <2>2. SkipSpaces(s, b + 1) = j + 1
      BY <1>2, <1>5, <2>1, SkipsTo
    <2>3. SkipSpaces(s, j + 1) = j + 1
      BY <1>1, <1>2, Stays
    <2> QED
      BY <2>2, <2>3
  <1>7. At(s, b + 1) \notin Figure
    <2>1. CASE b = j
      BY <1>2, <2>1
    <2>2. CASE b # j
      <3>1. b + 1 \in b + 1 .. j
        BY <1>1, <1>5, <2>2
      <3>2. At(s, b + 1) = "space"
        BY <1>4, <3>1
      <3> QED
        BY <3>2 DEF Figure, Digit
    <2> QED
      BY <2>1, <2>2
  <1>8. ASSUME NEW p \in 1 .. Len(s) + 1, i <= p, NEW w \in FactorOf(s, SkipSpaces(s, p), b)
        PROVE  FactorAt(s, p) = Done(b + 1, w) /\ w \in Number
    <2>1. PICK a : a = SkipSpaces(s, p)
      OBVIOUS
    <2>2. a \in 1 .. Len(s) + 1 /\ p <= a /\ At(s, a) # "space" /\ FactorAt(s, p) = FactorAt(s, a)
      BY <2>1, FactorSkips
    <2>3. Length(a, b) <= Length(i, j)
      BY <1>1, <1>5, <1>8, <2>2 DEF Length
    <2>4. ReadBelow(s, Length(a, b))
      BY <1>5, <2>2, <2>3, Lengths, ReadBelowLess
    <2>5. FactorRead(s, a, b)
      BY <1>5, <2>2, <2>4, FactorReads
    <2>6. FactorAt(s, a) = Done(b + 1, w)
      BY <1>7, <2>1, <2>2, <2>5 DEF FactorRead
    <2>7. w \in Number
      BY <1>5, <2>1, <2>2, GrammarIs
    <2> QED
      BY <2>2, <2>6, <2>7
  <1>9. \A w \in Number : FactorsAt(s, b + 1, w) = FactorsAt(s, j + 1, w)
    BY <1>1, <1>5, <1>6, FactorsSkip
  <1>10. CASE v \in FactorOf(s, SkipSpaces(s, i), b)
    <2>1. i <= i
      BY <1>1
    <2>2. FactorAt(s, i) = Done(b + 1, v) /\ v \in Number
      BY <1>8, <1>10, <2>1
    <2>3. TermAt(s, i) = IF FactorAt(s, i).ok THEN FactorsAt(s, FactorAt(s, i).pos, FactorAt(s, i).val) ELSE Fail
      BY TermIs
    <2>4. FactorAt(s, i).ok = TRUE /\ FactorAt(s, i).pos = b + 1 /\ FactorAt(s, i).val = v
      BY <2>2 DEF Done
    <2>5. TermAt(s, i) = FactorsAt(s, b + 1, v)
      BY <2>3, <2>4
    <2> QED
      BY <1>9, <2>2, <2>5
  <1>11. ASSUME NEW k \in i .. j, NEW l \in ProductOf(s, i, k - 1), NEW r \in FactorOf(s, SkipSpaces(s, k + 1), b),
                MultipliedAt(s, k, l, r, v)
         PROVE  TermAt(s, i) = FactorsAt(s, j + 1, v)
    <2>1. /\ k \in Int /\ k \in 1 .. Len(s) /\ i <= j /\ k - 1 \in 0 .. Len(s) /\ k - 1 < j
          /\ k + 1 \in 1 .. Len(s) + 1 /\ i < k + 1
      BY SplitAt
    <2>2. PICK c : c = k - 1
      OBVIOUS
    <2>3. c \in 0 .. Len(s) /\ c \in Int /\ c < j /\ c + 1 = k /\ k \in 1 .. Len(s) + 1 /\ i <= k + 1
      BY <1>1, <2>1, <2>2
    <2>4. At(s, k) = s[k] /\ At(s, k) \in {"*", "/"}
      BY <1>11, <2>1, Characterwise DEF MultipliedAt
    <2>5. Length(i, c) < Length(i, j)
      BY <1>1, <2>1, <2>3 DEF Length
    <2>6. ProductRead(s, i, c)
      BY <2>3, <2>5 DEF ReadBelow
    <2>7. TermAt(s, i) = FactorsAt(s, k, l)
      BY <2>2, <2>3, <2>4, <2>6 DEF ProductRead
    <2>8. FactorAt(s, k + 1) = Done(b + 1, r) /\ r \in Number
      BY <1>8, <2>1, <2>3
    <2>9. l \in Number
      BY <2>2, <2>3, GrammarIs
    <2>10. k = SkipSpaces(s, k)
      BY <2>3, <2>4, Stays
    <2>11. PICK e : e = FactorAt(s, k + 1)
      OBVIOUS
    <2>12. e.ok = TRUE /\ e.pos = b + 1 /\ e.val = r
      BY <2>8, <2>11 DEF Done
    <2>13. v \in Number
      BY <1>11, <2>8, <2>9, NumberType DEF MultipliedAt
    <2>14. FactorsAt(s, k, l) = FactorsAt(s, b + 1, v)
      <3>1. CASE At(s, k) = "*"
        <4>1. FactorsAt(s, k, l) = IF e.ok THEN FactorsAt(s, e.pos, Times(l, e.val)) ELSE Fail
          BY <2>3, <2>9, <2>10, <2>11, <3>1, FactorsSee
        <4>2. v = Times(l, r)
          BY <1>11, <2>4, <3>1 DEF MultipliedAt
        <4> QED
          BY <2>12, <4>1, <4>2
      <3>2. CASE At(s, k) = "/"
        <4>1. FactorsAt(s, k, l) =
                  IF e.ok /\ e.val.num # 0 THEN FactorsAt(s, e.pos, Times(l, Invert(e.val))) ELSE Fail
          BY <2>3, <2>9, <2>10, <2>11, <3>2, FactorsSee
        <4>2. v = Times(l, Invert(r)) /\ r.num # 0
          BY <1>11, <2>4, <3>2 DEF MultipliedAt
        <4> QED
          BY <2>12, <4>1, <4>2
      <3> QED
        BY <2>4, <3>1, <3>2
    <2> QED
      BY <1>9, <2>7, <2>13, <2>14
  <1> QED
    BY <1>3, <1>10, <1>11, ProductIs

LEMMA SumReads ==
    ASSUME NEW s \in Seq(Characters), NEW i \in 1 .. Len(s) + 1, NEW j \in 0 .. Len(s),
           ReadBelow(s, Length(i, j))
    PROVE  SumRead(s, i, j)
  <1> SUFFICES ASSUME At(s, j + 1) \in {")", "end", "+", "-"}, NEW v \in SumOf(s, i, j)
               PROVE  ExpressionAt(s, i) = TermsAt(s, j + 1, v)
    BY DEF SumRead
  <1>1. i \in Int /\ j \in Int /\ Len(s) \in Nat /\ j + 1 \in 1 .. Len(s) + 1
    BY Trimmed
  <1>2. /\ At(s, j + 1) # "space" /\ At(s, j + 1) \notin {"*", "/"}
        /\ At(s, j + 1) \in {")", "end", "+", "-", "*", "/"}
    OBVIOUS
  <1>3. j + 1 = SkipSpaces(s, j + 1)
    BY <1>1, <1>2, Stays
  <1>4. ASSUME NEW p \in 1 .. Len(s) + 1, i <= p, NEW w \in ProductOf(s, p, j)
        PROVE  TermAt(s, p) = Done(j + 1, w) /\ w \in Number
    <2>1. Length(p, j) <= Length(i, j)
      BY <1>1, <1>4 DEF Length
    <2>2. ReadBelow(s, Length(p, j))
      BY <2>1, Lengths, ReadBelowLess
    <2>3. ProductRead(s, p, j)
      BY <2>2, ProductReads
    <2>4. TermAt(s, p) = FactorsAt(s, j + 1, w)
      BY <1>2, <2>3 DEF ProductRead
    <2>5. w \in Number
      BY GrammarIs
    <2>6. FactorsAt(s, j + 1, w) = Done(j + 1, w)
      BY <1>1, <1>2, <1>3, <2>5, FactorsSee
    <2> QED
      BY <2>4, <2>5, <2>6
  <1>5. CASE v \in ProductOf(s, i, j)
    <2>1. i <= i
      BY <1>1
    <2>2. TermAt(s, i) = Done(j + 1, v)
      BY <1>4, <1>5, <2>1
    <2>3. ExpressionAt(s, i) = IF TermAt(s, i).ok THEN TermsAt(s, TermAt(s, i).pos, TermAt(s, i).val) ELSE Fail
      BY ExpressionIs
    <2>4. TermAt(s, i).ok = TRUE /\ TermAt(s, i).pos = j + 1 /\ TermAt(s, i).val = v
      BY <2>2 DEF Done
    <2> QED
      BY <2>3, <2>4
  <1>6. ASSUME NEW k \in i .. j, NEW l \in SumOf(s, i, k - 1), NEW r \in ProductOf(s, k + 1, j),
               AddedAt(s, k, l, r, v)
        PROVE  ExpressionAt(s, i) = TermsAt(s, j + 1, v)
    <2>1. /\ k \in Int /\ k \in 1 .. Len(s) /\ i <= j /\ k - 1 \in 0 .. Len(s) /\ k - 1 < j
          /\ k + 1 \in 1 .. Len(s) + 1 /\ i < k + 1
      BY SplitAt
    <2>2. PICK c : c = k - 1
      OBVIOUS
    <2>3. c \in 0 .. Len(s) /\ c \in Int /\ c < j /\ c + 1 = k /\ k \in 1 .. Len(s) + 1 /\ i <= k + 1
      BY <1>1, <2>1, <2>2
    <2>4. At(s, k) = s[k] /\ At(s, k) \in {"+", "-"}
      BY <1>6, <2>1, Characterwise DEF AddedAt
    <2>5. Length(i, c) < Length(i, j)
      BY <1>1, <2>1, <2>3 DEF Length
    <2>6. SumRead(s, i, c)
      BY <2>3, <2>5 DEF ReadBelow
    <2>7. ExpressionAt(s, i) = TermsAt(s, k, l)
      BY <2>2, <2>3, <2>4, <2>6 DEF SumRead
    <2>8. TermAt(s, k + 1) = Done(j + 1, r) /\ r \in Number
      BY <1>4, <2>1, <2>3
    <2>9. l \in Number
      BY <2>2, <2>3, GrammarIs
    <2>10. k = SkipSpaces(s, k)
      BY <2>3, <2>4, Stays
    <2>11. PICK e : e = TermAt(s, k + 1)
      OBVIOUS
    <2>12. e.ok = TRUE /\ e.pos = j + 1 /\ e.val = r
      BY <2>8, <2>11 DEF Done
    <2>13. CASE At(s, k) = "+"
      <3>1. TermsAt(s, k, l) = IF e.ok THEN TermsAt(s, e.pos, Plus(l, e.val)) ELSE Fail
        BY <2>3, <2>9, <2>10, <2>11, <2>13, TermsSee
      <3>2. v = Plus(l, r)
        BY <1>6, <2>4, <2>13 DEF AddedAt
      <3> QED
        BY <2>7, <2>12, <3>1, <3>2
    <2>14. CASE At(s, k) = "-"
      <3>1. TermsAt(s, k, l) = IF e.ok THEN TermsAt(s, e.pos, Plus(l, Negate(e.val))) ELSE Fail
        BY <2>3, <2>9, <2>10, <2>11, <2>14, TermsSee
      <3>2. v = Plus(l, Negate(r))
        BY <1>6, <2>4, <2>14 DEF AddedAt
      <3> QED
        BY <2>7, <2>12, <3>1, <3>2
    <2> QED
      BY <2>4, <2>13, <2>14
  <1> QED
    BY <1>5, <1>6, SumIs

LEMMA AllRead ==
    ASSUME NEW s \in Seq(Characters)
    PROVE  \A n \in Nat : ReadBelow(s, n)
  <1> DEFINE T == {n \in Nat : ~ ReadBelow(s, n)}
  <1>1. ASSUME NEW n \in T, \A k \in T : n <= k
        PROVE  FALSE
    <2>1. \A k \in Nat : k < n => ReadBelow(s, k)
      BY <1>1
    <2>2. ASSUME NEW i \in 1 .. Len(s) + 1, NEW j \in 0 .. Len(s), Length(i, j) < n
          PROVE  FactorRead(s, i, j) /\ ProductRead(s, i, j) /\ SumRead(s, i, j)
      <3>1. ReadBelow(s, Length(i, j))
        BY <2>1, <2>2, Lengths
      <3> QED
        BY <3>1, FactorReads, ProductReads, SumReads
    <2>3. ReadBelow(s, n)
      BY <2>2 DEF ReadBelow
    <2> QED
      BY <2>3
  <1>2. T \in SUBSET Nat
    OBVIOUS
  <1> HIDE DEF T
  <1>3. T = {}
    BY <1>1, <1>2, LeastNatural
  <1> QED
    BY <1>3 DEF T

\* Every value that the grammar derives for a text is the one that is parsed.
LEMMA DerivedIsParsed ==
    ASSUME NEW s \in Seq(Characters), NEW v \in SumOf(s, 1, Len(s))
    PROVE  Parse(s).ok /\ Parse(s).val = v
  <1>1. Len(s) \in Nat /\ 1 \in 1 .. Len(s) + 1 /\ Len(s) \in 0 .. Len(s) /\ Len(s) + 1 \in 1 .. Len(s) + 1
    BY Characterwise
  <1>2. At(s, Len(s) + 1) = "end"
    BY <1>1, Characterwise
  <1>3. SumRead(s, 1, Len(s))
    <2>1. Length(1, Len(s)) \in Nat
      BY <1>1, Lengths
    <2>2. ReadBelow(s, Length(1, Len(s)) + 1) /\ Length(1, Len(s)) < Length(1, Len(s)) + 1
      BY <2>1, AllRead
    <2> QED
      BY <1>1, <2>2 DEF ReadBelow
  <1>4. ExpressionAt(s, 1) = TermsAt(s, Len(s) + 1, v)
    BY <1>2, <1>3 DEF SumRead
  <1>5. v \in Number
    BY <1>1, GrammarIs
  <1>6. Len(s) + 1 = SkipSpaces(s, Len(s) + 1)
    BY <1>1, <1>2, Stays
  <1>7. TermsAt(s, Len(s) + 1, v) = Done(Len(s) + 1, v)
    BY <1>1, <1>2, <1>5, <1>6, TermsSee
  <1>8. PICK e : e = ExpressionAt(s, 1)
    OBVIOUS
  <1>9. e.ok = TRUE /\ e.pos = Len(s) + 1 /\ e.val = v
    BY <1>4, <1>7, <1>8 DEF Done
  <1>10. Parse(s) = IF e.ok /\ SkipSpaces(s, e.pos) > Len(s) THEN e ELSE Fail
    BY <1>8 DEF Parse, ExpressionAt
  <1>11. SkipSpaces(s, e.pos) > Len(s)
    BY <1>1, <1>6, <1>9
  <1> QED
    BY <1>9, <1>10, <1>11

-----------------------------------------------------------------------------
(* What is read is derived, by induction from the end of the text: the     *)
(* value returned is one of the piece up to the position returned.         *)

FactorSound(s, p) ==
    FactorAt(s, p).ok => /\ FactorAt(s, p).val \in FactorOf(s, SkipSpaces(s, p), FactorAt(s, p).pos - 1)
                         /\ At(s, FactorAt(s, p).pos - 1) # "space"
FactorsSound(s, p) ==
    \A i \in 1 .. p : \A v \in ProductOf(s, i, p - 1) :
        FactorsAt(s, p, v).ok => /\ FactorsAt(s, p, v).val \in ProductOf(s, i, FactorsAt(s, p, v).pos - 1)
                                 /\ At(s, FactorsAt(s, p, v).pos) # "space"
TermSound(s, p) ==
    TermAt(s, p).ok => /\ TermAt(s, p).val \in ProductOf(s, p, TermAt(s, p).pos - 1)
                       /\ At(s, TermAt(s, p).pos) # "space"
TermsSound(s, p) ==
    At(s, p) # "space" => \A i \in 1 .. p : \A v \in SumOf(s, i, p - 1) :
        TermsAt(s, p, v).ok => /\ TermsAt(s, p, v).val \in SumOf(s, i, TermsAt(s, p, v).pos - 1)
                               /\ At(s, TermsAt(s, p, v).pos) # "space"
ExpressionSound(s, p) ==
    ExpressionAt(s, p).ok => /\ ExpressionAt(s, p).val \in SumOf(s, p, ExpressionAt(s, p).pos - 1)
                             /\ At(s, ExpressionAt(s, p).pos) # "space"

Sound(s, p) ==
    FactorSound(s, p) /\ FactorsSound(s, p) /\ TermSound(s, p) /\ TermsSound(s, p) /\ ExpressionSound(s, p)
SoundAbove(s, p) == \A q \in 1 .. Len(s) + 1 : p < q => Sound(s, q)

LEMMA NumberSound ==
    ASSUME NEW s \in Seq(Characters), NEW i \in 1 .. Len(s) + 1, ParseNumber(s, i).ok
    PROVE  \E j \in i .. Len(s) : IsNumber(s, i, j) /\ ParseNumber(s, i) = Done(j + 1, ParseFloat(s, i, j))
  <1> DEFINE T == {q \in i .. Len(s) : Figures(s, i, q)}
  <1>1. Len(s) \in Nat /\ i \in Int
    BY Characterwise
  <1>2. ParseNumber(s, i) =
            IF T # {} /\ IsNumber(s, i, Max(T)) THEN Done(Max(T) + 1, ParseFloat(s, i, Max(T))) ELSE Fail
    BY DEF ParseNumber
  <1>3. T # {} /\ IsNumber(s, i, Max(T))
    <2> HIDE DEF T
    <2> QED
      BY <1>2 DEF Fail
  <1>4. T \in SUBSET Nat /\ \A n \in T : n <= Len(s)
    BY <1>1
  <1>5. T \subseteq i .. Len(s)
    OBVIOUS
  <1> HIDE DEF T
  <1>6. Max(T) \in T
    BY <1>1, <1>3, <1>4, MaxIs
  <1>7. ParseNumber(s, i) = Done(Max(T) + 1, ParseFloat(s, i, Max(T)))
    BY <1>2, <1>3
  <1> QED
    BY <1>3, <1>5, <1>6, <1>7

LEMMA FactorSounds ==
    ASSUME NEW s \in Seq(Characters), NEW p \in 1 .. Len(s) + 1, SoundAbove(s, p)
    PROVE  FactorSound(s, p)
  <1> SUFFICES ASSUME FactorAt(s, p).ok
               PROVE  /\ FactorAt(s, p).val \in FactorOf(s, SkipSpaces(s, p), FactorAt(s, p).pos - 1)
                      /\ At(s, FactorAt(s, p).pos - 1) # "space"
    BY DEF FactorSound
  <1>1. PICK a, r : a = SkipSpaces(s, p) /\ r = FactorAt(s, p)
    OBVIOUS
  <1>2. p \in Int /\ Len(s) \in Nat /\ a \in p .. Len(s) + 1
    BY <1>1, SkipsSpaces, Characterwise
  <1>3. a \in 1 .. Len(s) + 1 /\ a \in Int /\ r.ok
    BY <1>1, <1>2
  <1> SUFFICES r.val \in FactorOf(s, a, r.pos - 1) /\ At(s, r.pos - 1) # "space"
    BY <1>1
  <1>4. ASSUME At(s, a) # "end"
        PROVE  /\ a \in 1 .. Len(s) /\ s[a] = At(s, a) /\ a + 1 \in 1 .. Len(s) + 1 /\ Sound(s, a + 1)
               /\ \A j \in a .. Len(s) : a <= j /\ j \in 0 .. Len(s)
    <2>1. a \in 1 .. Len(s) /\ s[a] = At(s, a)
      BY <1>2, <1>3, <1>4, Characterwise
    <2>2. a + 1 \in 1 .. Len(s) + 1 /\ p < a + 1
      BY <1>2, <2>1
    <2>3. Sound(s, a + 1)
      BY <2>2 DEF SoundAbove
    <2> QED
      BY <1>2, <2>1, <2>2, <2>3
  <1>5. PICK after : after = FactorAt(s, a + 1)
    OBVIOUS
  <1>6. ASSUME At(s, a) # "end", after.ok
        PROVE  /\ after.val \in FactorOf(s, SkipSpaces(s, a + 1), after.pos - 1) /\ At(s, after.pos - 1) # "space"
               /\ after.pos - 1 \in a .. Len(s)
    <2>1. FactorSound(s, a + 1)
      BY <1>4, <1>6 DEF Sound
    <2>2. after.pos \in (a + 1) + 1 .. Len(s) + 1
      BY <1>4, <1>5, <1>6, Positions, NumberType
    <2> QED
      BY <1>2, <1>3, <1>5, <1>6, <2>1, <2>2 DEF FactorSound
  <1>7. CASE At(s, a) = "+"
    <2>1. r = after
      BY <1>1, <1>5, <1>7, FactorSees
    <2>2. /\ r.val \in FactorOf(s, SkipSpaces(s, a + 1), r.pos - 1) /\ At(s, r.pos - 1) # "space"
          /\ r.pos - 1 \in a .. Len(s)
      BY <1>3, <1>6, <1>7, <2>1
    <2>3. PICK j : j = r.pos - 1
      OBVIOUS
    <2>4. FactorOf(s, a, j) = FactorOf(s, SkipSpaces(s, a + 1), j)
      BY <1>3, <1>4, <1>7, <2>2, <2>3, FactorIs
    <2> QED
      BY <2>2, <2>3, <2>4
  <1>8. CASE At(s, a) = "-"
    <2>1. r = IF after.ok THEN Done(after.pos, Negate(after.val)) ELSE Fail
      BY <1>1, <1>5, <1>8, FactorSees
    <2>2. after.ok
      BY <1>3, <2>1 DEF Fail
    <2>3. r.pos = after.pos /\ r.val = Negate(after.val)
      BY <2>1, <2>2 DEF Done
    <2>4. PICK j : j = after.pos - 1
      OBVIOUS
    <2>5. after.val \in FactorOf(s, SkipSpaces(s, a + 1), j) /\ At(s, j) # "space" /\ j \in a .. Len(s)
      BY <1>6, <1>8, <2>2, <2>4
    <2>6. Negate(after.val) \in FactorOf(s, a, j)
      BY <1>3, <1>4, <1>8, <2>5, FactorIs
    <2> QED
      BY <2>3, <2>4, <2>5, <2>6
  <1>9. CASE At(s, a) = "("
    <2>1. PICK inner : inner = ExpressionAt(s, a + 1)
      OBVIOUS
    <2>2. r = IF inner.ok /\ At(s, SkipSpaces(s, inner.pos)) = ")"
              THEN Done(SkipSpaces(s, inner.pos) + 1, inner.val) ELSE Fail
      BY <1>1, <1>9, <2>1, FactorSees
    <2>3. inner.ok /\ At(s, SkipSpaces(s, inner.pos)) = ")"
      BY <1>3, <2>2 DEF Fail
    <2>4. ExpressionSound(s, a + 1)
      BY <1>4, <1>9 DEF Sound
    <2>5. inner.val \in SumOf(s, a + 1, inner.pos - 1) /\ At(s, inner.pos) # "space"
      BY <2>1, <2>3, <2>4 DEF ExpressionSound
    <2>6. inner.pos \in (a + 1) + 1 .. Len(s) + 1
      BY <1>4, <1>9, <2>1, <2>3, Positions, NumberType
    <2>7. inner.pos \in 1 .. Len(s) + 1 /\ inner.pos \in Int /\ a < inner.pos
      BY <1>2, <1>3, <2>6
    <2>8. PICK j : j = inner.pos
      OBVIOUS
    <2>9. SkipSpaces(s, j) = j
      BY <2>5, <2>7, <2>8, Stays
    <2>10. r.pos = j + 1 /\ r.val = inner.val
      BY <2>2, <2>3, <2>8, <2>9 DEF Done
    <2>11. At(s, j) = ")" /\ j \in a .. Len(s) /\ s[j] = At(s, j)
      <3>1. At(s, j) = ")"
        BY <2>3, <2>8, <2>9
      <3>2. j \in 1 .. Len(s)
        BY <1>2, <2>7, <2>8, <3>1, Characterwise
      <3> QED
        BY <1>3, <2>7, <2>8, <3>1, <3>2, Characterwise
    <2>12. FactorOf(s, a, j) = SumOf(s, a + 1, j - 1)
      BY <1>3, <1>4, <1>9, <2>11, FactorIs
    <2>13. r.pos - 1 = j
      BY <2>7, <2>8, <2>10
    <2> QED
      BY <2>5, <2>8, <2>10, <2>11, <2>12, <2>13
  <1>10. CASE At(s, a) \notin {"+", "-", "("}
    <2>1. r = ParseNumber(s, a)
      BY <1>1, <1>10, FactorSees
    <2>2. PICK j \in a .. Len(s) : IsNumber(s, a, j) /\ r = Done(j + 1, ParseFloat(s, a, j))
      BY <1>3, <2>1, NumberSound
    <2>3. /\ j \in Int /\ a <= j /\ j \in 0 .. Len(s) /\ a \in a .. j
          /\ j \in a .. j /\ j \in 1 .. Len(s) /\ a \in 1 .. Len(s)
      BY <1>2, <1>3
    <2>4. s[a] \in Figure /\ s[j] \in Figure
      BY <2>2, <2>3 DEF IsNumber, Figures, Figure
    <2>5. s[a] \notin {"+", "-", "("} /\ At(s, j) # "space"
      <3>1. At(s, j) = s[j]
        BY <2>3, Characterwise
      <3> QED
        BY <2>4, <3>1 DEF Figure, Digit
    <2>6. FactorOf(s, a, j) = {ParseFloat(s, a, j)}
      BY <1>3, <2>2, <2>3, <2>5, FactorIs
    <2>7. r.pos = j + 1 /\ r.val = ParseFloat(s, a, j)
      BY <2>2 DEF Done
    <2>8. r.pos - 1 = j
      BY <2>3, <2>7
    <2> QED
      BY <2>5, <2>6, <2>7, <2>8
  <1> QED
    BY <1>7, <1>8, <1>9, <1>10

\* A product goes on over the spaces that follow it.
LEMMA ProductExtends ==
    ASSUME NEW s \in Seq(Characters), NEW q \in 1 .. Len(s) + 1, NEW i \in 1 .. q, NEW p, p = SkipSpaces(s, q),
           NEW v \in ProductOf(s, i, q - 1)
    PROVE  p \in q .. Len(s) + 1 /\ v \in ProductOf(s, i, p - 1)
  <1>1. Len(s) \in Nat /\ q \in Int /\ i \in Int /\ i <= q
    BY Characterwise
  <1>2. p \in q .. Len(s) + 1 /\ \A k \in q .. p - 1 : At(s, k) = "space"
    BY SkipsSpaces
  <1>3. PICK j, h : j = q - 1 /\ h = p - 1
    OBVIOUS
  <1>4. /\ i \in 1 .. Len(s) + 1 /\ j \in 0 .. Len(s) /\ h \in 0 .. Len(s) /\ j <= h /\ j \in Int /\ h \in Int
        /\ \A k \in j + 1 .. h : At(s, k) = "space"
    BY <1>1, <1>2, <1>3
  <1>5. PICK b : b = BackSpaces(s, j)
    OBVIOUS
  <1>6. b \in 0 .. j /\ At(s, b) # "space" /\ \A k \in b + 1 .. j : At(s, k) = "space"
    BY <1>4, <1>5, BacksSpaces
  <1>7. b = BackSpaces(s, h)
    <2>1. b \in 0 .. h
      BY <1>4, <1>6
    <2>2. ASSUME NEW k \in b + 1 .. h
          PROVE  At(s, k) = "space"
      <3>1. k \in b + 1 .. j \/ k \in j + 1 .. h
        BY <1>4, <1>6
      <3> QED
        BY <1>4, <1>6, <3>1
    <2> QED
      BY <1>4, <1>6, <2>1, <2>2, BacksTo
  <1>8. \/ v \in FactorOf(s, SkipSpaces(s, i), b)
        \/ \E k \in i .. j : \E l \in ProductOf(s, i, k - 1), r \in FactorOf(s, SkipSpaces(s, k + 1), b) :
               MultipliedAt(s, k, l, r, v)
    BY <1>3, <1>4, <1>5, ProductIs
  <1>9. \A k \in i .. j : k \in i .. h
    BY <1>4
  <1>10. v \in ProductOf(s, i, h)
    BY <1>4, <1>7, <1>8, <1>9, ProductIs
  <1> QED
    BY <1>2, <1>3, <1>10

LEMMA FactorsSounds ==
    ASSUME NEW s \in Seq(Characters), NEW q \in 1 .. Len(s) + 1, SoundAbove(s, q)
    PROVE  FactorsSound(s, q)
  <1> SUFFICES ASSUME NEW i \in 1 .. q, NEW v \in ProductOf(s, i, q - 1), NEW r, r = FactorsAt(s, q, v), r.ok
               PROVE  r.val \in ProductOf(s, i, r.pos - 1) /\ At(s, r.pos) # "space"
    BY DEF FactorsSound
  <1>1. PICK p : p = SkipSpaces(s, q)
    OBVIOUS
  <1>2. Len(s) \in Nat /\ q \in Int /\ i \in Int /\ i <= q /\ i \in 1 .. Len(s) + 1 /\ q - 1 \in 0 .. Len(s)
    BY Characterwise
  <1>3. p \in q .. Len(s) + 1 /\ v \in ProductOf(s, i, p - 1)
    BY <1>1, ProductExtends
  <1>4. At(s, p) # "space" /\ v \in Number
    BY <1>1, <1>2, SkipsSpaces, GrammarIs
  <1>5. p \in Int /\ p \in 1 .. Len(s) + 1
    BY <1>2, <1>3
  <1>6. PICK right : right = FactorAt(s, p + 1)
    OBVIOUS
  <1>7. ASSUME At(s, p) \in {"*", "/"}, right.ok, NEW w, MultipliedAt(s, p, v, right.val, w),
               r = FactorsAt(s, right.pos, w)
        PROVE  r.val \in ProductOf(s, i, r.pos - 1) /\ At(s, r.pos) # "space"
    <2>1. p \in 1 .. Len(s) /\ p + 1 \in 1 .. Len(s) + 1
      BY <1>2, <1>5, <1>7, Characterwise
    <2>2. right.pos \in (p + 1) + 1 .. Len(s) + 1 /\ right.val \in Number
      BY <1>6, <1>7, <2>1, Positions, NumberType
    <2>3. PICK n, j : n = right.pos /\ j = right.pos - 1
      OBVIOUS
    <2>4. /\ n \in 1 .. Len(s) + 1 /\ q < n /\ i \in 1 .. n /\ j \in 0 .. Len(s) /\ j = n - 1 /\ p \in i .. j
          /\ q < p + 1
      BY <1>2, <1>3, <1>5, <2>2, <2>3
    <2>5. Sound(s, p + 1) /\ Sound(s, n)
      BY <2>1, <2>4 DEF SoundAbove
    <2>6. right.val \in FactorOf(s, SkipSpaces(s, p + 1), j) /\ At(s, j) # "space"
      BY <1>6, <1>7, <2>3, <2>5 DEF Sound, FactorSound
    <2>7. BackSpaces(s, j) = j
      <3>1. j \in 0 .. j /\ \A k \in j + 1 .. j : FALSE
        BY <2>4
      <3> QED
        BY <2>4, <2>6, <3>1, BacksTo
    <2>8. w \in ProductOf(s, i, j)
      BY <1>2, <1>3, <1>7, <2>4, <2>6, <2>7, ProductIs
    <2>9. r.val \in ProductOf(s, i, FactorsAt(s, n, w).pos - 1) /\ At(s, FactorsAt(s, n, w).pos) # "space"
      BY <1>7, <2>3, <2>4, <2>5, <2>8 DEF Sound, FactorsSound
    <2> QED
      BY <1>7, <2>3, <2>9
  <1>8. ASSUME At(s, p) # "end"
        PROVE  s[p] = At(s, p)
    BY <1>5, <1>8, Characterwise
  <1>9. CASE At(s, p) = "*"
    <2>1. r = IF right.ok THEN FactorsAt(s, right.pos, Times(v, right.val)) ELSE Fail
      BY <1>1, <1>4, <1>6, <1>9, FactorsSee
    <2>2. right.ok
      BY <2>1 DEF Fail
    <2>3. MultipliedAt(s, p, v, right.val, Times(v, right.val))
      BY <1>8, <1>9 DEF MultipliedAt
    <2> QED
      BY <1>7, <1>9, <2>1, <2>2, <2>3
  <1>10. CASE At(s, p) = "/"
    <2>1. r = IF right.ok /\ right.val.num # 0 THEN FactorsAt(s, right.pos, Times(v, Invert(right.val))) ELSE Fail
      BY <1>1, <1>4, <1>6, <1>10, FactorsSee
    <2>2. right.ok /\ right.val.num # 0
      BY <2>1 DEF Fail
    <2>3. MultipliedAt(s, p, v, right.val, Times(v, Invert(right.val)))
      BY <1>8, <1>10, <2>2 DEF MultipliedAt
    <2> QED
      BY <1>7, <1>10, <2>1, <2>2, <2>3
  <1>11. CASE At(s, p) \notin {"*", "/"}
    <2>1. r = Done(p, v)
      BY <1>1, <1>4, <1>11, FactorsSee
    <2>2. r.pos = p /\ r.val = v
      BY <2>1 DEF Done
    <2> QED
      BY <1>3, <1>4, <2>2
  <1> QED
    BY <1>9, <1>10, <1>11

LEMMA TermSounds ==
    ASSUME NEW s \in Seq(Characters), NEW p \in 1 .. Len(s) + 1, SoundAbove(s, p), FactorSound(s, p)
    PROVE  TermSound(s, p)
  <1> SUFFICES ASSUME NEW r, r = TermAt(s, p), r.ok
               PROVE  r.val \in ProductOf(s, p, r.pos - 1) /\ At(s, r.pos) # "space"
    BY DEF TermSound
  <1>1. PICK left : left = FactorAt(s, p)
    OBVIOUS
  <1>2. r = IF left.ok THEN FactorsAt(s, left.pos, left.val) ELSE Fail
    BY <1>1, TermIs
  <1>3. left.ok /\ r = FactorsAt(s, left.pos, left.val)
    BY <1>2 DEF Fail
  <1>4. left.pos \in p + 1 .. Len(s) + 1
    BY <1>1, <1>3, Positions, NumberType
  <1>5. PICK n, j : n = left.pos /\ j = left.pos - 1
    OBVIOUS
  <1>6. n \in 1 .. Len(s) + 1 /\ p < n /\ p \in 1 .. n /\ j \in 0 .. Len(s) /\ j = n - 1
    BY <1>4, <1>5, Characterwise
  <1>7. left.val \in FactorOf(s, SkipSpaces(s, p), j) /\ At(s, j) # "space"
    BY <1>1, <1>3, <1>5 DEF FactorSound
  <1>8. BackSpaces(s, j) = j
    <2>1. j \in 0 .. j /\ \A k \in j + 1 .. j : FALSE
      BY <1>6
    <2> QED
      BY <1>6, <1>7, <2>1, BacksTo
  <1>9. left.val \in ProductOf(s, p, j)
    BY <1>6, <1>7, <1>8, ProductIs
  <1>10. FactorsSound(s, n)
    BY <1>6 DEF SoundAbove, Sound
  <1> QED
    BY <1>3, <1>5, <1>6, <1>9, <1>10 DEF FactorsSound

LEMMA TermsSounds ==
    ASSUME NEW s \in Seq(Characters), NEW q \in 1 .. Len(s) + 1, SoundAbove(s, q)
    PROVE  TermsSound(s, q)
  <1> SUFFICES ASSUME At(s, q) # "space", NEW i \in 1 .. q, NEW v \in SumOf(s, i, q - 1),
                      NEW r, r = TermsAt(s, q, v), r.ok
               PROVE  r.val \in SumOf(s, i, r.pos - 1) /\ At(s, r.pos) # "space"
    BY DEF TermsSound
  <1>1. q = SkipSpaces(s, q)
    BY Stays
  <1>2. Len(s) \in Nat /\ q \in Int /\ i \in Int /\ i <= q /\ i \in 1 .. Len(s) + 1 /\ q - 1 \in 0 .. Len(s)
    BY Characterwise
  <1>3. v \in Number
    BY <1>2, GrammarIs
  <1>4. PICK right : right = TermAt(s, q + 1)
    OBVIOUS
  <1>5. ASSUME At(s, q) \in {"+", "-"}, right.ok, NEW w, AddedAt(s, q, v, right.val, w),
               r = TermsAt(s, right.pos, w)
        PROVE  r.val \in SumOf(s, i, r.pos - 1) /\ At(s, r.pos) # "space"
    <2>1. q \in 1 .. Len(s) /\ q + 1 \in 1 .. Len(s) + 1
      BY <1>2, <1>5, Characterwise
    <2>2. right.pos \in (q + 1) + 1 .. Len(s) + 1 /\ right.val \in Number
      BY <1>4, <1>5, <2>1, Positions, NumberType
    <2>3. PICK n, j : n = right.pos /\ j = right.pos - 1
      OBVIOUS
    <2>4. /\ n \in 1 .. Len(s) + 1 /\ q < n /\ i \in 1 .. n /\ j \in 0 .. Len(s) /\ j = n - 1 /\ q \in i .. j
          /\ q < q + 1
      BY <1>2, <2>2, <2>3
    <2>5. Sound(s, q + 1) /\ Sound(s, n)
      BY <2>1, <2>4 DEF SoundAbove
    <2>6. right.val \in ProductOf(s, q + 1, j) /\ At(s, n) # "space"
      BY <1>4, <1>5, <2>3, <2>5 DEF Sound, TermSound
    <2>7. w \in SumOf(s, i, j)
      BY <1>2, <1>5, <2>4, <2>6, SumIs
    <2>8. r.val \in SumOf(s, i, TermsAt(s, n, w).pos - 1) /\ At(s, TermsAt(s, n, w).pos) # "space"
      BY <1>5, <2>3, <2>4, <2>5, <2>6, <2>7 DEF Sound, TermsSound
    <2> QED
      BY <1>5, <2>3, <2>8
  <1>6. ASSUME At(s, q) # "end"
        PROVE  s[q] = At(s, q)
    BY <1>2, <1>6, Characterwise
  <1>7. CASE At(s, q) = "+"
    <2>1. r = IF right.ok THEN TermsAt(s, right.pos, Plus(v, right.val)) ELSE Fail
      BY <1>1, <1>3, <1>4, <1>7, TermsSee
    <2>2. right.ok
      BY <2>1 DEF Fail
    <2>3. AddedAt(s, q, v, right.val, Plus(v, right.val))
      BY <1>6, <1>7 DEF AddedAt
    <2> QED
      BY <1>5, <1>7, <2>1, <2>2, <2>3
  <1>8. CASE At(s, q) = "-"
    <2>1. r = IF right.ok THEN TermsAt(s, right.pos, Plus(v, Negate(right.val))) ELSE Fail
      BY <1>1, <1>3, <1>4, <1>8, TermsSee
    <2>2. right.ok
      BY <2>1 DEF Fail
    <2>3. AddedAt(s, q, v, right.val, Plus(v, Negate(right.val)))
      BY <1>6, <1>8 DEF AddedAt
    <2> QED
      BY <1>5, <1>8, <2>1, <2>2, <2>3
  <1>9. CASE At(s, q) \notin {"+", "-"}
    <2>1. r = Done(q, v)
      BY <1>1, <1>3, <1>9, TermsSee
    <2>2. r.pos = q /\ r.val = v
      BY <2>1 DEF Done
    <2> QED
      BY <2>2
  <1> QED
    BY <1>7, <1>8, <1>9

LEMMA ExpressionSounds ==
    ASSUME NEW s \in Seq(Characters), NEW p \in 1 .. Len(s) + 1, SoundAbove(s, p), TermSound(s, p)
    PROVE  ExpressionSound(s, p)
  <1> SUFFICES ASSUME NEW r, r = ExpressionAt(s, p), r.ok
               PROVE  r.val \in SumOf(s, p, r.pos - 1) /\ At(s, r.pos) # "space"
    BY DEF ExpressionSound
  <1>1. PICK left : left = TermAt(s, p)
    OBVIOUS
  <1>2. r = IF left.ok THEN TermsAt(s, left.pos, left.val) ELSE Fail
    BY <1>1, ExpressionIs
  <1>3. left.ok /\ r = TermsAt(s, left.pos, left.val)
    BY <1>2 DEF Fail
  <1>4. left.pos \in p + 1 .. Len(s) + 1
    BY <1>1, <1>3, Positions, NumberType
  <1>5. PICK n, j : n = left.pos /\ j = left.pos - 1
    OBVIOUS
  <1>6. n \in 1 .. Len(s) + 1 /\ p < n /\ p \in 1 .. n /\ j \in 0 .. Len(s) /\ j = n - 1
    BY <1>4, <1>5, Characterwise
  <1>7. left.val \in ProductOf(s, p, j) /\ At(s, n) # "space"
    BY <1>1, <1>3, <1>5 DEF TermSound
  <1>8. left.val \in SumOf(s, p, j)
    BY <1>6, <1>7, SumIs
  <1>9. TermsSound(s, n)
    BY <1>6 DEF SoundAbove, Sound
  <1> QED
    BY <1>3, <1>5, <1>6, <1>7, <1>8, <1>9 DEF TermsSound

LEMMA AllSound ==
    ASSUME NEW s \in Seq(Characters)
    PROVE  \A p \in 1 .. Len(s) + 1 : Sound(s, p)
  <1> DEFINE T == {p \in 1 .. Len(s) + 1 : ~ Sound(s, p)}
  <1>1. Len(s) \in Nat
    BY Characterwise
  <1>2. ASSUME NEW p \in T, \A k \in T : k <= p
        PROVE  FALSE
    <2>1. p \in 1 .. Len(s) + 1 /\ p \in Int
      BY <1>1
    <2>2. ASSUME NEW q \in 1 .. Len(s) + 1, p < q
          PROVE  Sound(s, q)
      BY <1>1, <1>2, <2>1, <2>2
    <2>3. SoundAbove(s, p)
      BY <2>2 DEF SoundAbove
    <2>4. FactorSound(s, p) /\ FactorsSound(s, p) /\ TermsSound(s, p)
      BY <2>1, <2>3, FactorSounds, FactorsSounds, TermsSounds
    <2>5. TermSound(s, p)
      BY <2>1, <2>3, <2>4, TermSounds
    <2>6. ExpressionSound(s, p)
      BY <2>1, <2>3, <2>5, ExpressionSounds
    <2> QED
      BY <2>4, <2>5, <2>6 DEF Sound
  <1>3. T \in SUBSET Nat /\ Len(s) + 1 \in Nat /\ \A p \in T : p <= Len(s) + 1
    BY <1>1
  <1> HIDE DEF T
  <1>4. T = {}
    BY <1>2, <1>3, GreatestNatural
  <1> QED
    BY <1>4 DEF T

\* A value that is parsed is derived by the grammar.
LEMMA ParsedIsDerived ==
    ASSUME NEW s \in Seq(Characters), Parse(s).ok
    PROVE  Parse(s).val \in SumOf(s, 1, Len(s))
  <1>1. Len(s) \in Nat /\ 1 \in 1 .. Len(s) + 1
    BY Characterwise
  <1>2. PICK e : e = ExpressionAt(s, 1)
    OBVIOUS
  <1>3. Parse(s) = IF e.ok /\ SkipSpaces(s, e.pos) > Len(s) THEN e ELSE Fail
    BY <1>2 DEF Parse, ExpressionAt
  <1>4. e.ok /\ SkipSpaces(s, e.pos) > Len(s) /\ Parse(s) = e
    BY <1>3 DEF Fail
  <1>5. ExpressionSound(s, 1)
    BY <1>1, AllSound DEF Sound
  <1>6. e.val \in SumOf(s, 1, e.pos - 1) /\ At(s, e.pos) # "space"
    BY <1>2, <1>4, <1>5 DEF ExpressionSound
  <1>7. e.pos \in 1 + 1 .. Len(s) + 1
    BY <1>1, <1>2, <1>4, Positions, NumberType
  <1>8. e.pos \in 1 .. Len(s) + 1 /\ e.pos \in Int
    BY <1>1, <1>7
  <1>9. SkipSpaces(s, e.pos) = e.pos
    BY <1>6, <1>8, Stays
  <1>10. e.pos - 1 = Len(s)
    BY <1>1, <1>4, <1>8, <1>9
  <1> QED
    BY <1>4, <1>6, <1>10

\* For every text: the parser accepts it if and only if the grammar derives a
\* value for it, and returns that value.
LEMMA ParserFollows ==
    ASSUME NEW s \in Seq(Characters)
    PROVE  Grammar(s)[<<"sum", 1, Len(s)>>] = IF Parse(s).ok THEN {Parse(s).val} ELSE {}
  <1>1. \A v \in SumOf(s, 1, Len(s)) : Parse(s).ok /\ Parse(s).val = v
    BY DerivedIsParsed
  <1>2. Parse(s).ok => Parse(s).val \in SumOf(s, 1, Len(s))
    BY ParsedIsDerived
  <1>3. SumOf(s, 1, Len(s)) = IF Parse(s).ok THEN {Parse(s).val} ELSE {}
    BY <1>1, <1>2
  <1> QED
    BY <1>3 DEF SumOf

\* The parser (parseExpression, parseTerm, parseFactor, parseNumber and the check
\* that nothing is left) follows the grammar on every message: it accepts one
\* exactly if the grammar derives a value for it, and returns the only one derived.
THEOREM ParserFollowsGrammar ==
    Spec => []ParsesTheGrammar
  <1>1. ASSUME MessageType
        PROVE  ParsesTheGrammar
    <2>1. ReplaceTimes(message) \in Seq(Characters)
      BY <1>1, ReplacedText
    <2>2. PICK text : text = ReplaceTimes(message)
      OBVIOUS
    <2>3. Grammar(text)[<<"sum", 1, Len(text)>>] = IF Parse(text).ok THEN {Parse(text).val} ELSE {}
      BY <2>1, <2>2, ParserFollows
    <2> QED
      BY <2>2, <2>3 DEF ParsesTheGrammar
  <1> QED
    BY <1>1, Messages, PTL

-----------------------------------------------------------------------------
(* ShouldUse.                                                              *)

HasDigit(s, p) == \E k \in 1 .. Len(s) : p <= k /\ s[k] \in DOMAIN Digit

LEMMA FactorHasDigit ==
    ASSUME NEW s \in Seq(Characters)
    PROVE  \A p \in 1 .. Len(s) + 1 : FactorAt(s, p).ok => HasDigit(s, p)
  <1> DEFINE T == {p \in 1 .. Len(s) + 1 : FactorAt(s, p).ok /\ ~ HasDigit(s, p)}
  <1>1. Len(s) \in Nat
    BY Characterwise
  <1>2. ASSUME NEW p \in T, \A k \in T : k <= p
        PROVE  FALSE
    <2>1. p \in 1 .. Len(s) + 1 /\ p \in Int /\ FactorAt(s, p).ok /\ ~ HasDigit(s, p)
      BY <1>1
    <2>2. \A q \in 1 .. Len(s) + 1 : p < q /\ FactorAt(s, q).ok => HasDigit(s, q)
      BY <1>1, <1>2, <2>1
    <2>3. PICK a : a = SkipSpaces(s, p)
      OBVIOUS
    <2>4. a \in p .. Len(s) + 1
      BY <2>1, <2>3, SkipsSpaces
    <2>5. a \in 1 .. Len(s) + 1 /\ a \in Int /\ p <= a
      BY <1>1, <2>1, <2>4
    <2>6. \A q \in Int : p <= q => ~ HasDigit(s, q)
      BY <1>1, <2>1 DEF HasDigit
    <2>7. ASSUME At(s, a) # "end"
          PROVE  a + 1 \in 1 .. Len(s) + 1 /\ ~ FactorAt(s, a + 1).ok
      <3>1. a \in 1 .. Len(s)
        BY <1>1, <2>5, <2>7, Characterwise
      <3>2. a + 1 \in 1 .. Len(s) + 1 /\ p < a + 1 /\ p <= a + 1 /\ a + 1 \in Int
        BY <1>1, <2>1, <2>5, <3>1
      <3> QED
        BY <2>2, <2>6, <3>2
    <2>8. CASE At(s, a) = "+"
      BY <2>1, <2>3, <2>7, <2>8, FactorSees
    <2>9. CASE At(s, a) = "-"
      <3>1. FactorAt(s, p) = IF FactorAt(s, a + 1).ok
                             THEN Done(FactorAt(s, a + 1).pos, Negate(FactorAt(s, a + 1).val)) ELSE Fail
        BY <2>1, <2>3, <2>9, FactorSees
      <3> QED
        BY <2>1, <2>7, <2>9, <3>1 DEF Fail
    <2>10. CASE At(s, a) = "("
      <3>1. TermAt(s, a + 1) = IF FactorAt(s, a + 1).ok
                               THEN FactorsAt(s, FactorAt(s, a + 1).pos, FactorAt(s, a + 1).val) ELSE Fail
        BY <2>7, <2>10, TermIs
      <3>2. ~ TermAt(s, a + 1).ok
        BY <2>7, <2>10, <3>1 DEF Fail
      <3>3. ExpressionAt(s, a + 1) = IF TermAt(s, a + 1).ok
                                     THEN TermsAt(s, TermAt(s, a + 1).pos, TermAt(s, a + 1).val) ELSE Fail
        BY <2>7, <2>10, ExpressionIs
      <3>4. ~ ExpressionAt(s, a + 1).ok
        BY <3>2, <3>3 DEF Fail
      <3>5. PICK e : e = ExpressionAt(s, a + 1)
        OBVIOUS
      <3>6. FactorAt(s, p) = IF e.ok /\ At(s, SkipSpaces(s, e.pos)) = ")"
                             THEN Done(SkipSpaces(s, e.pos) + 1, e.val) ELSE Fail
        BY <2>1, <2>3, <2>10, <3>5, FactorSees
      <3> QED
        BY <2>1, <3>4, <3>5, <3>6 DEF Fail
    <2>11. CASE At(s, a) \notin {"+", "-", "("}
      <3>1. FactorAt(s, p) = ParseNumber(s, a)
        BY <2>1, <2>3, <2>11, FactorSees
      <3>2. PICK j \in a .. Len(s) : IsNumber(s, a, j)
        BY <2>1, <2>5, <3>1, NumberSound
      <3>3. PICK k \in a .. j : s[k] \in DOMAIN Digit
        BY <3>2 DEF IsNumber
      <3>4. k \in 1 .. Len(s) /\ p <= k
        BY <1>1, <2>1, <2>5, <3>2, <3>3
      <3> QED
        BY <2>1, <3>3, <3>4 DEF HasDigit
    <2> QED
      BY <2>8, <2>9, <2>10, <2>11
  <1>3. T \in SUBSET Nat /\ Len(s) + 1 \in Nat /\ \A p \in T : p <= Len(s) + 1
    BY <1>1
  <1> HIDE DEF T
  <1>4. T = {}
    BY <1>2, <1>3, GreatestNatural
  <1> QED
    BY <1>4 DEF T

LEMMA ParsedHasDigit ==
    ASSUME NEW s \in Seq(Characters), Parse(s).ok
    PROVE  \E k \in 1 .. Len(s) : s[k] \in DOMAIN Digit
  <1>1. 1 \in 1 .. Len(s) + 1
    BY Characterwise
  <1>2. Parse(s) = IF ExpressionAt(s, 1).ok /\ SkipSpaces(s, ExpressionAt(s, 1).pos) > Len(s)
                   THEN ExpressionAt(s, 1) ELSE Fail
    BY DEF Parse, ExpressionAt
  <1>3. ExpressionAt(s, 1).ok
    BY <1>2 DEF Fail
  <1>4. ExpressionAt(s, 1) = IF TermAt(s, 1).ok THEN TermsAt(s, TermAt(s, 1).pos, TermAt(s, 1).val) ELSE Fail
    BY <1>1, ExpressionIs
  <1>5. TermAt(s, 1).ok
    BY <1>3, <1>4 DEF Fail
  <1>6. TermAt(s, 1) = IF FactorAt(s, 1).ok THEN FactorsAt(s, FactorAt(s, 1).pos, FactorAt(s, 1).val) ELSE Fail
    BY <1>1, TermIs
  <1>7. FactorAt(s, 1).ok
    BY <1>5, <1>6 DEF Fail
  <1> QED
    BY <1>1, <1>7, FactorHasDigit DEF HasDigit

\* Whatever Call could calculate, ShouldUse hands over to it: the expression has
\* an operator and, since it was parsed, a digit.
THEOREM NothingCalculableIsMissed ==
    Spec => []CalculableIsCalculated
  <1>1. ASSUME MessageType, Call(message).ok
        PROVE  ShouldUse(message)
    <2>1. PICK text : text = ReplaceTimes(message)
      OBVIOUS
    <2>2. text \in Seq(Characters)
      BY <1>1, <2>1, ReplacedText
    <2>3. PICK b, e \in Int : ExtractExpression(text) = <<b, e>> /\ Best(text, b, e, Len(text))
      BY <2>2, ExtractsBest
    <2>4. Call(message) = IF b > e THEN Fail ELSE Parse(SubSeq(text, b, e))
      BY <2>1, <2>3 DEF Call
    <2>5. b <= e /\ Parse(SubSeq(text, b, e)).ok
      BY <1>1, <2>3, <2>4 DEF Fail
    <2>6. b \in 1 .. Len(text) /\ e \in 1 .. Len(text) /\ Fits(text, b, e) /\ Len(text) \in Nat
      BY <2>2, <2>3, <2>5, Characterwise DEF Best
    <2>7. PICK s : s = SubSeq(text, b, e)
      OBVIOUS
    <2>8. s \in Seq(Characters) /\ Len(s) = e - b + 1 /\ \A k \in 1 .. Len(s) : s[k] = text[b + k - 1]
      BY <2>2, <2>5, <2>6, <2>7
    <2>9. PICK k \in 1 .. Len(s) : s[k] \in DOMAIN Digit
      BY <2>5, <2>7, <2>8, ParsedHasDigit
    <2>10. PICK o \in b .. e : text[o] \in Operators
      BY <2>6 DEF Fits, HasOperator
    <2>11. DOMAIN message = 1 .. Len(message) /\ Len(text) = Len(message) /\ Len(message) \in Nat
      BY <1>1, <2>1 DEF ReplaceTimes, MessageType
    <2>12. PICK d : d = b + k - 1
      OBVIOUS
    <2>13. d \in DOMAIN message /\ o \in DOMAIN message /\ text[d] \in DOMAIN Digit
      BY <2>5, <2>6, <2>8, <2>9, <2>10, <2>11, <2>12
    <2>14. /\ text[d] = IF message[d] = "times" THEN "*" ELSE message[d]
           /\ text[o] = IF message[o] = "times" THEN "*" ELSE message[o]
      BY <2>1, <2>13 DEF ReplaceTimes
    <2>15. message[d] \in DOMAIN Digit /\ message[o] \in Operators \cup {"times"}
      BY <2>10, <2>13, <2>14 DEF Digit, Operators
    <2>16. \A i \in DOMAIN message : message[i] \in ToSet(message)
      BY DEF ToSet
    <2>17. message[d] \in ToSet(message) /\ message[o] \in ToSet(message)
      BY <2>13, <2>16
    <2>18. Has(message, DOMAIN Digit \cup {"arabic"}) /\ Has(message, Operators \cup {"times"})
      BY <2>15, <2>17 DEF Has
    <2> QED
      BY <2>18 DEF ShouldUse
  <1>2. MessageType => CalculableIsCalculated
    BY <1>1 DEF CalculableIsCalculated
  <1> QED
    BY <1>2, Messages, PTL
=============================================================================
