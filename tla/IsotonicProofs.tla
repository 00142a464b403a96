--------------------------- MODULE IsotonicProofs ---------------------------
(***************************************************************************)
(* Proofs about the isotonic fit: for inputs of any length and any number  *)
(* of levels, the blocks are the isotonic regression of the samples and    *)
(* the calibration read off the steps is monotone.                         *)
(*                                                                         *)
(* Yes answers are counted by Y(m), those of the first m samples. A block  *)
(* is a chord of this graph, and no point between the ends of a block lies *)
(* below the chord. Fractions are compared by products; the lemmas on      *)
(* integers say what of this is used.                                      *)
(***************************************************************************)
EXTENDS IsotonicProps, FiniteSetTheorems, WellFoundedInduction, TLAPS

-----------------------------------------------------------------------------
(* Induction over 0..N *)

LEMMA LeastNumber ==
  ASSUME NEW S \in SUBSET Nat, S # {}
  PROVE \E m \in S : \A k \in S : m <= k
<1> DEFINE R == {ss \in Nat \X Nat : ss[1] < ss[2]}
<1>1. IsWellFoundedOn(R, Nat)
  BY NatLessThanWellFounded DEF OpToRel
<1> HIDE DEF R
<1>2. PICK m \in S : \A k \in S : <<k, m>> \notin R
  BY <1>1, WFMin
<1>3. \A k \in S : ~(k < m)
  BY <1>2 DEF R
<1> QED
  BY <1>3

LEMMA UpTo ==
  ASSUME NEW N \in Nat, NEW S, 0 \in S, \A n \in 1..N : n - 1 \in S => n \in S
  PROVE \A n \in 0..N : n \in S
<1> DEFINE T == {n \in 0..N : n \notin S}
<1>1. SUFFICES ASSUME T # {} PROVE FALSE
  OBVIOUS
<1>2. PICK m \in T : \A k \in T : m <= k
  <2>1. T \in SUBSET Nat
    OBVIOUS
  <2> QED
    BY <1>1, <2>1, LeastNumber, Zenon
<1>3. m \in 1..N /\ m - 1 \in 0..N /\ m - 1 < m
  OBVIOUS
<1>4. m - 1 \in S
  BY <1>2, <1>3
<1> QED
  BY <1>3, <1>4

-----------------------------------------------------------------------------
(* Sums *)

\* g[s] is the sum of f over s, for s among the indices 1..n.
SumsUp(g, f, n) ==
  /\ g[{}] = 0
  /\ \A s \in SUBSET (1..n) : \A x \in s : g[s] = f[x] + g[s \ {x}]

LEMMA SumsExist ==
  ASSUME NEW n \in Nat, NEW f \in [1..n -> Int]
  PROVE \E g \in [SUBSET (1..n) -> Int] : SumsUp(g, f, n)
<1> DEFINE S == {m \in 0..n : \E g \in [SUBSET (1..m) -> Int] : SumsUp(g, f, m)}
<1>1. 0 \in S
  <2> DEFINE g == [s \in SUBSET (1..0) |-> 0]
  <2>1. g \in [SUBSET (1..0) -> Int]
    OBVIOUS
  <2>2. {} \in SUBSET (1..0) /\ \A s \in SUBSET (1..0) : \A x \in s : FALSE
    OBVIOUS
  <2>3. SumsUp(g, f, 0)
    BY <2>2 DEF SumsUp
  <2> HIDE DEF g
  <2>4. \E h \in [SUBSET (1..0) -> Int] : SumsUp(h, f, 0)
    BY <2>1, <2>3
  <2>5. 0 \in 0..n
    OBVIOUS
  <2> QED
    BY <2>4, <2>5
<1>2. ASSUME NEW m \in 1..n, m - 1 \in S PROVE m \in S
  <2>1. PICK h \in [SUBSET (1..m - 1) -> Int] : SumsUp(h, f, m - 1)
    BY <1>2
  <2> DEFINE g == [s \in SUBSET (1..m) |-> IF m \in s THEN f[m] + h[s \ {m}] ELSE h[s]]
  <2>2. \A s \in SUBSET (1..m) : s \ {m} \in SUBSET (1..m - 1) /\ (m \notin s => s \in SUBSET (1..m - 1))
    OBVIOUS
  <2>3. f[m] \in Int
    OBVIOUS
  <2>4. g \in [SUBSET (1..m) -> Int]
    BY <2>1, <2>2, <2>3
  <2>5. {} \in SUBSET (1..m) /\ g[{}] = 0
    BY <2>1 DEF SumsUp
  <2>6. ASSUME NEW s \in SUBSET (1..m), NEW x \in s PROVE g[s] = f[x] + g[s \ {x}]
    <3>1. f[x] \in Int /\ s \ {x} \in SUBSET (1..m)
      OBVIOUS
    <3>2. CASE m \notin s
      <4>1. s \in SUBSET (1..m - 1) /\ m \notin s \ {x}
        BY <2>2, <3>2
      <4>2. h[s] = f[x] + h[s \ {x}]
        BY <2>1, <4>1 DEF SumsUp
      <4> QED
        BY <3>1, <3>2, <4>1, <4>2
    <3>3. CASE m \in s /\ x = m
      BY <3>1, <3>3
    <3>4. CASE m \in s /\ x # m
      <4> DEFINE r == s \ {m}
      <4>1. r \in SUBSET (1..m - 1) /\ x \in r /\ m \in s \ {x} /\ (s \ {x}) \ {m} = r \ {x}
        BY <2>2, <3>4
      <4>2. h[r] = f[x] + h[r \ {x}]
        BY <2>1, <4>1 DEF SumsUp
      <4>3. h[r \ {x}] \in Int
        BY <2>1, <4>1
      <4>4. g[s] = f[m] + h[r] /\ g[s \ {x}] = f[m] + h[r \ {x}]
        BY <3>1, <3>4, <4>1
      <4> HIDE DEF g, r
      <4> QED
        BY <2>3, <3>1, <4>2, <4>3, <4>4
    <3> QED
      BY <3>2, <3>3, <3>4
  <2> HIDE DEF g
  <2>7. SumsUp(g, f, m)
    BY <2>5, <2>6 DEF SumsUp
  <2> QED
    BY <2>4, <2>7
<1> HIDE DEF S
<1>3. \A m \in 0..n : m \in S
  BY <1>1, <1>2, UpTo
<1>4. n \in 0..n
  OBVIOUS
<1>5. n \in S
  BY <1>3, <1>4
<1> QED
  BY <1>5 DEF S

LEMMA SumsAre ==
  ASSUME NEW n \in Nat, NEW f \in [1..n -> Int], NEW g \in [SUBSET (1..n) -> Int], SumsUp(g, f, n),
         NEW T \in SUBSET (1..n)
  PROVE SumFunctionOnSet(f, T) = g[T]
<1> DEFINE some(s) == CHOOSE x \in s : TRUE
           body(h) == [s \in SUBSET T |-> IF s = {} THEN 0 ELSE f[some(s)] + h[s \ {some(s)}]]
           iter == CHOOSE h : h = body(h)
<1>1. SumFunctionOnSet(f, T) = iter[T]
  BY DEF SumFunctionOnSet, FoldFunctionOnSet, MapThenFoldSet
<1>2. \A s \in SUBSET T : s # {} => some(s) \in s
  OBVIOUS
<1> HIDE DEF some
<1> DEFINE h == [s \in SUBSET T |-> g[s]]
<1>3. h = body(h)
  <2>1. ASSUME NEW s \in SUBSET T PROVE h[s] = IF s = {} THEN 0 ELSE f[some(s)] + h[s \ {some(s)}]
    <3>1. CASE s = {}
      BY <3>1 DEF SumsUp
    <3>2. CASE s # {}
      <4>1. some(s) \in s /\ s \in SUBSET (1..n) /\ s \ {some(s)} \in SUBSET T
        BY <1>2, <3>2
      <4>2. g[s] = f[some(s)] + g[s \ {some(s)}]
        BY <4>1 DEF SumsUp
      <4> QED
        BY <3>2, <4>1, <4>2
    <3> QED
      BY <3>1, <3>2
  <2> QED
    BY <2>1
<1>4. iter = body(iter)
  <2> HIDE DEF body, h
  <2> QED
    BY <1>3
<1> HIDE DEF iter
<1>5. \A s \in SUBSET T : iter[s] = IF s = {} THEN 0 ELSE f[some(s)] + iter[s \ {some(s)}]
  BY <1>4
<1> HIDE DEF body, h
<1> DEFINE Bad == {s \in SUBSET T : iter[s] # g[s]}
           N == {Cardinality(s) : s \in Bad}
<1>6. \A s \in SUBSET T : IsFiniteSet(s) /\ Cardinality(s) \in Nat
  <2>1. IsFiniteSet(1..n)
    BY FS_Interval
  <2> QED
    BY <2>1, FS_Subset, FS_CardinalityType
<1>7. SUFFICES ASSUME Bad # {} PROVE FALSE
  BY <1>1
<1>8. PICK s \in Bad : \A r \in Bad : Cardinality(s) <= Cardinality(r)
  <2>1. N \in SUBSET Nat /\ N # {}
    BY <1>6, <1>7
  <2> HIDE DEF N
  <2>2. PICK c \in N : \A d \in N : c <= d
    BY <2>1, LeastNumber, Zenon
  <2> QED
    BY <2>2 DEF N
<1>9. s # {}
  BY <1>5 DEF SumsUp
<1>10. some(s) \in s /\ s \in SUBSET (1..n) /\ s \ {some(s)} \in SUBSET T
  BY <1>2, <1>9
<1>16. IsFiniteSet(s) /\ Cardinality(s) \in Nat /\ some(s) \in s
  BY <1>6, <1>10
<1>11. Cardinality(s \ {some(s)}) < Cardinality(s)
  <2>1. Cardinality(s \ {some(s)}) = Cardinality(s) - 1
    BY <1>16, FS_RemoveElement
  <2> QED
    BY <1>16, <2>1
<1>12. s \ {some(s)} \notin Bad
  <2>1. Cardinality(s \ {some(s)}) \in Nat
    BY <1>6, <1>10
  <2> HIDE DEF Bad
  <2>2. s \ {some(s)} \in Bad => Cardinality(s) <= Cardinality(s \ {some(s)})
    BY <1>8
  <2> QED
    BY <1>11, <1>16, <2>1, <2>2
<1>13. iter[s \ {some(s)}] = g[s \ {some(s)}]
  BY <1>10, <1>12
<1>14. g[s] = f[some(s)] + g[s \ {some(s)}]
  BY <1>10 DEF SumsUp
<1>15. iter[s] = g[s]
  BY <1>5, <1>9, <1>13, <1>14
<1> QED
  BY <1>15

\* The sum of nothing is zero, and an index adds its value.
LEMMA Sums ==
  ASSUME NEW n \in Nat, NEW f \in [1..n -> Int]
  PROVE /\ SumFunctionOnSet(f, {}) = 0
        /\ \A T \in SUBSET (1..n) :
             /\ SumFunctionOnSet(f, T) \in Int
             /\ \A x \in T : SumFunctionOnSet(f, T) = f[x] + SumFunctionOnSet(f, T \ {x})
<1>1. PICK g \in [SUBSET (1..n) -> Int] : SumsUp(g, f, n)
  BY SumsExist
<1>2. \A T \in SUBSET (1..n) : SumFunctionOnSet(f, T) = g[T]
  BY <1>1, SumsAre
<1>3. {} \in SUBSET (1..n)
  OBVIOUS
<1>4. \A T \in SUBSET (1..n) : T \ {} \in SUBSET (1..n) /\ \A x \in T : T \ {x} \in SUBSET (1..n)
  OBVIOUS
<1> QED
  BY <1>1, <1>2, <1>3, <1>4 DEF SumsUp

\* Sums of f and g over T are related as their values: p sums of f and q of g, if f[k] * q <= g[k] * p.
LEMMA SumsRelated ==
  ASSUME NEW n \in Nat, NEW f \in [1..n -> Int], NEW g \in [1..n -> Int], NEW p \in Int, NEW q \in Int,
         NEW T \in SUBSET (1..n)
  PROVE (\A k \in T : f[k] * q <= g[k] * p) => SumFunctionOnSet(f, T) * q <= SumFunctionOnSet(g, T) * p
<1>0. SUFFICES ASSUME \A k \in T : f[k] * q <= g[k] * p
               PROVE SumFunctionOnSet(f, T) * q <= SumFunctionOnSet(g, T) * p
  OBVIOUS
<1> DEFINE F(s) == SumFunctionOnSet(f, s)
           G(s) == SumFunctionOnSet(g, s)
           part(m) == T \cap (1..m)
           S == {m \in 0..n : F(part(m)) * q <= G(part(m)) * p}
<1>1. /\ F({}) = 0 /\ \A s \in SUBSET (1..n) : F(s) \in Int /\ \A x \in s : F(s) = f[x] + F(s \ {x})
  BY Sums
<1>2. /\ G({}) = 0 /\ \A s \in SUBSET (1..n) : G(s) \in Int /\ \A x \in s : G(s) = g[x] + G(s \ {x})
  BY Sums
<1> HIDE DEF F, G
<1>3. 0 \in S
  <2>1. part(0) = {}
    OBVIOUS
  <2> QED
    BY <1>1, <1>2, <2>1
<1>4. ASSUME NEW m \in 1..n, m - 1 \in S PROVE m \in S
  <2>1. CASE m \notin T
    <3>1. part(m) = part(m - 1)
      BY <2>1
    <3> HIDE DEF part
    <3> QED
      BY <1>4, <3>1
  <2>2. CASE m \in T
    <3>1. part(m) \in SUBSET (1..n) /\ m \in part(m) /\ part(m) \ {m} = part(m - 1) /\ part(m - 1) \in SUBSET (1..n)
      BY <2>2
    <3> HIDE DEF part
    <3>2. \A s \in SUBSET (1..n), r \in SUBSET (1..n) :
            m \in s /\ s \ {m} = r => F(s) = f[m] + F(r) /\ G(s) = g[m] + G(r) /\ F(r) \in Int /\ G(r) \in Int
      BY <1>1, <1>2
    <3>3. /\ F(part(m)) = f[m] + F(part(m - 1)) /\ G(part(m)) = g[m] + G(part(m - 1))
          /\ F(part(m - 1)) \in Int /\ G(part(m - 1)) \in Int /\ f[m] \in Int /\ g[m] \in Int
      BY <3>1, <3>2
    <3>4. F(part(m - 1)) * q <= G(part(m - 1)) * p /\ f[m] * q <= g[m] * p
      BY <1>0, <1>4, <2>2
    <3>5. \A a \in Int, b \in Int, c \in Int, d \in Int :
            a * q <= b * p /\ c * q <= d * p => (a + c) * q <= (b + d) * p
      OBVIOUS
    <3>6. F(part(m)) * q <= G(part(m)) * p
      BY <3>3, <3>4, <3>5
    <3> QED
      BY <3>6
  <2> QED
    BY <2>1, <2>2
<1>5. n \in S
  <2> HIDE DEF S
  <2>1. \A m \in 0..n : m \in S
    BY <1>3, <1>4, UpTo
  <2>2. n \in 0..n
    OBVIOUS
  <2> QED
    BY <2>1, <2>2
<1>6. part(n) = T
  OBVIOUS
<1> QED
  BY <1>5, <1>6 DEF F, G

\* Of values that are not negative, the sum is at least any of them.
LEMMA SumAtLeast ==
  ASSUME NEW n \in Nat, NEW f \in [1..n -> Nat], NEW T \in SUBSET (1..n)
  PROVE SumFunctionOnSet(f, T) \in Nat /\ \A x \in T : f[x] <= SumFunctionOnSet(f, T)
<1> DEFINE zero == [k \in 1..n |-> 0]
<1>1. f \in [1..n -> Int] /\ zero \in [1..n -> Int]
  OBVIOUS
<1>2. ASSUME NEW s \in SUBSET (1..n) PROVE 0 <= SumFunctionOnSet(f, s)
  <2> DEFINE p == 1
             q == 0
  <2>1. \A k \in s : zero[k] * q <= f[k] * p
    OBVIOUS
  <2>4. p \in Int /\ q \in Int
    OBVIOUS
  <2> HIDE DEF zero, p, q
  <2>5. SumFunctionOnSet(zero, s) * q <= SumFunctionOnSet(f, s) * p
    BY <1>1, <2>1, <2>4, SumsRelated
  <2>2. SumFunctionOnSet(zero, s) * 0 <= SumFunctionOnSet(f, s) * 1
    BY <2>5 DEF p, q
  <2>3. SumFunctionOnSet(zero, s) \in Int /\ SumFunctionOnSet(f, s) \in Int
    BY <1>1, Sums
  <2> QED
    BY <2>2, <2>3
<1>3. ASSUME NEW s \in SUBSET (1..n) PROVE SumFunctionOnSet(f, s) \in Int /\ \A x \in s : SumFunctionOnSet(f, s) = f[x] + SumFunctionOnSet(f, s \ {x})
  BY <1>1, Sums
<1>4. \A x \in T : T \ {x} \in SUBSET (1..n) /\ f[x] \in Nat
  OBVIOUS
<1>5. T \in SUBSET (1..n)
  OBVIOUS
<1> HIDE DEF zero
<1>6. 0 <= SumFunctionOnSet(f, T) /\ SumFunctionOnSet(f, T) \in Int
  BY <1>2, <1>3, <1>5
<1>7. ASSUME NEW x \in T PROVE f[x] <= SumFunctionOnSet(f, T)
  <2>1. 0 <= SumFunctionOnSet(f, T \ {x}) /\ SumFunctionOnSet(f, T \ {x}) \in Int
    BY <1>2, <1>3, <1>4
  <2>2. SumFunctionOnSet(f, T) = f[x] + SumFunctionOnSet(f, T \ {x})
    BY <1>3, <1>5
  <2> QED
    BY <1>4, <2>1, <2>2
<1> QED
  BY <1>6, <1>7

\* The sum over an interval is the difference of the sums of two initial ones.
LEMMA SumsFromTo ==
  ASSUME NEW n \in Nat, NEW f \in [1..n -> Int]
  PROVE /\ \A c \in 1..n : SumFunctionOnSet(f, 1..c) = SumFunctionOnSet(f, 1..c - 1) + f[c]
        /\ \A a \in 1..n, c \in 1..n : a <= c =>
             SumFunctionOnSet(f, a..c) = SumFunctionOnSet(f, 1..c) - SumFunctionOnSet(f, 1..a - 1)
<1> DEFINE F(s) == SumFunctionOnSet(f, s)
<1>1. /\ F({}) = 0 /\ \A s \in SUBSET (1..n) : F(s) \in Int /\ \A x \in s : F(s) = f[x] + F(s \ {x})
  BY Sums
<1> HIDE DEF F
<1>2. ASSUME NEW a \in 1..n, NEW c \in 1..n, a <= c PROVE F(a..c) = F(a..c - 1) + f[c]
  <2>1. a..c \in SUBSET (1..n) /\ c \in a..c /\ (a..c) \ {c} = a..c - 1 /\ a..c - 1 \in SUBSET (1..n)
    BY <1>2
  <2>2. f[c] \in Int
    OBVIOUS
  <2>3. \A s \in SUBSET (1..n), r \in SUBSET (1..n) : c \in s /\ s \ {c} = r => F(s) = F(r) + f[c]
    BY <1>1, <2>2
  <2> QED
    BY <2>1, <2>3
<1>3. \A c \in 0..n : 1..c \in SUBSET (1..n) /\ F(1..c) \in Int
  BY <1>1
<1>4. ASSUME NEW a \in 1..n PROVE \A c \in 0..n : a <= c => F(a..c) = F(1..c) - F(1..a - 1)
  <2> DEFINE S == {c \in 0..n : a <= c => F(a..c) = F(1..c) - F(1..a - 1)}
  <2>1. 0 \in S
    OBVIOUS
  <2>2. ASSUME NEW c \in 1..n, c - 1 \in S PROVE c \in S
    <3>1. SUFFICES ASSUME a <= c PROVE F(a..c) = F(1..c) - F(1..a - 1)
      OBVIOUS
    <3>2. F(a..c) = F(a..c - 1) + f[c] /\ F(1..c) = F(1..c - 1) + f[c]
      BY <1>2, <3>1
    <3>3. F(1..c - 1) \in Int /\ F(1..a - 1) \in Int /\ f[c] \in Int
      BY <1>3
    <3>4. CASE a <= c - 1
      <4>1. F(a..c - 1) = F(1..c - 1) - F(1..a - 1)
        BY <2>2, <3>4
      <4> QED
        BY <3>2, <3>3, <4>1
    <3>5. CASE a = c
      <4>1. a..c - 1 = {}
        BY <3>5
      <4> QED
        BY <1>1, <3>2, <3>3, <3>5, <4>1
    <3> QED
      BY <3>1, <3>4, <3>5
  <2> HIDE DEF S
  <2>3. \A c \in 0..n : c \in S
    BY <2>1, <2>2, UpTo
  <2> QED
    BY <2>3 DEF S
<1> QED
  <2>1. \A c \in 1..n : F(1..c) = F(1..c - 1) + f[c]
    BY <1>2
  <2> QED
    BY <1>4, <2>1 DEF F

-----------------------------------------------------------------------------
(* Integers *)

LEMMA Cancel ==
  ASSUME NEW x \in Int, NEW y \in Int, NEW d \in Nat \ {0}, x * d <= y * d
  PROVE x <= y
OBVIOUS

LEMMA Times ==
  ASSUME NEW x \in Int, NEW y \in Int, NEW d \in Nat, x <= y
  PROVE x * d <= y * d
OBVIOUS

\* a/b <= c/d <= e/f
LEMMA Between ==
  ASSUME NEW a \in Int, NEW b \in Nat, NEW c \in Int, NEW d \in Nat \ {0}, NEW e \in Int, NEW f \in Nat,
         a * d <= c * b, c * f <= e * d
  PROVE a * f <= e * b
<1>1. (a * d) * f <= (c * b) * f
  BY Times
<1>2. (c * f) * b <= (e * d) * b
  BY Times
<1>3. (a * d) * f = (a * f) * d /\ (c * b) * f = (c * f) * b /\ (e * d) * b = (e * b) * d
  OBVIOUS
<1>4. (a * f) * d <= (e * b) * d
  BY <1>1, <1>2, <1>3
<1>5. a * f \in Int /\ e * b \in Int
  OBVIOUS
<1> QED
  BY <1>4, <1>5, Cancel

\* Two chords, of slopes u/m > v/n, are pooled: a point above the first lies above the new one.
LEMMA PoolFirst ==
  ASSUME NEW u \in Int, NEW m \in Nat \ {0}, NEW v \in Int, NEW n \in Nat \ {0}, v * m <= u * n,
         NEW y \in Int, NEW t \in Nat, u * t <= y * m
  PROVE (u + v) * t <= y * (m + n)
<1>1. (u * t) * (m + n) <= (y * m) * (m + n)
  BY Times
<1>2. (v * m) * t <= (u * n) * t
  BY Times
<1>3. /\ (u * t) * (m + n) = (u * t) * m + (u * n) * t
      /\ ((u + v) * t) * m = (u * t) * m + (v * m) * t
      /\ (y * m) * (m + n) = (y * (m + n)) * m
  OBVIOUS
<1>4. ((u + v) * t) * m <= (y * (m + n)) * m
  BY <1>1, <1>2, <1>3
<1>5. (u + v) * t \in Int /\ y * (m + n) \in Int
  OBVIOUS
<1> QED
  BY <1>4, <1>5, Cancel

\* And so does a point above the second.
LEMMA PoolSecond ==
  ASSUME NEW u \in Int, NEW m \in Nat \ {0}, NEW v \in Int, NEW n \in Nat \ {0}, v * m <= u * n,
         NEW z \in Int, NEW t \in 0..n, v * t <= z * n
  PROVE (u + v) * (m + t) <= (u + z) * (m + n)
<1> DEFINE w == n - t
<1>1. w \in Nat /\ t \in Nat /\ n = t + w
  OBVIOUS
<1> HIDE DEF w
<1>2. (v * t) * (m + n) <= (z * n) * (m + n)
  BY <1>1, Times
<1>3. (v * m) * w <= (u * n) * w
  BY <1>1, Times
<1>4. ((u + z) * (m + n)) * n = (u * n) * (m + n) + (z * n) * (m + n)
  OBVIOUS
<1>5. ((u + v) * (m + t)) * n = (u * n) * (m + t) + (v * n) * m + (v * t) * n
  BY <1>1
<1>6. (u * n) * (m + n) = (u * n) * (m + t) + (u * n) * w
  BY <1>1
<1>7. (v * t) * (m + n) = (v * m) * t + (v * t) * n
  BY <1>1
<1>8. (v * n) * m = (v * m) * t + (v * m) * w
  BY <1>1
<1>9. ((u + v) * (m + t)) * n <= ((u + z) * (m + n)) * n
  BY <1>2, <1>3, <1>4, <1>5, <1>6, <1>7, <1>8
<1>10. (u + v) * (m + t) \in Int /\ (u + z) * (m + n) \in Int
  BY <1>1
<1> QED
  BY <1>9, <1>10, Cancel

-----------------------------------------------------------------------------
(* Fractions *)

Fractions == Int \X (Nat \ {0})

LEMMA LeqTransitive ==
  ASSUME NEW u \in Fractions, NEW v \in Fractions, NEW w \in Fractions, Leq(u, v), Leq(v, w)
  PROVE Leq(u, w)
<1> DEFINE a == u[1]
           b == u[2]
           c == v[1]
           d == v[2]
           e == w[1]
           f == w[2]
<1>1. a \in Int /\ b \in Nat /\ c \in Int /\ d \in Nat \ {0} /\ e \in Int /\ f \in Nat
  BY DEF Fractions
<1>2. a * d <= c * b /\ c * f <= e * d
  BY DEF Leq
<1> HIDE DEF a, b, c, d, e, f
<1>3. a * f <= e * b
  BY <1>1, <1>2, Between
<1> QED
  BY <1>3 DEF Leq, a, b, e, f

LEMMA LeqTotal ==
  ASSUME NEW u \in Fractions, NEW v \in Fractions
  PROVE Leq(u, v) \/ Leq(v, u)
<1>1. u[1] \in Int /\ u[2] \in Int /\ v[1] \in Int /\ v[2] \in Int
  BY DEF Fractions
<1>2. \A x \in Int, y \in Int : x <= y \/ y <= x
  OBVIOUS
<1>3. u[1] * v[2] \in Int /\ v[1] * u[2] \in Int
  BY <1>1
<1> QED
  BY <1>2, <1>3 DEF Leq

\* Of finitely many fractions one is the least, and one the greatest.
LEMMA Extremes ==
  ASSUME NEW n \in Nat \ {0}, NEW q \in [1..n -> Fractions]
  PROVE /\ \E x \in 1..n : \A y \in 1..n : Leq(q[x], q[y])
        /\ \E x \in 1..n : \A y \in 1..n : Leq(q[y], q[x])
<1> DEFINE Both(m) == /\ \E x \in 1..m : \A y \in 1..m : Leq(q[x], q[y])
                      /\ \E x \in 1..m : \A y \in 1..m : Leq(q[y], q[x])
           S == {m \in 0..n : m = 0 \/ Both(m)}
<1>1. 0 \in S
  OBVIOUS
<1>2. \A x \in 1..n : q[x] \in Fractions /\ Leq(q[x], q[x])
  BY LeqTotal
<1>3. \A x \in 1..n, y \in 1..n : Leq(q[x], q[y]) \/ Leq(q[y], q[x])
  BY <1>2, LeqTotal
<1>4. \A x \in 1..n, y \in 1..n, z \in 1..n : Leq(q[x], q[y]) /\ Leq(q[y], q[z]) => Leq(q[x], q[z])
  BY <1>2, LeqTransitive
<1>5. ASSUME NEW m \in 1..n, m - 1 \in S PROVE m \in S
  <2>1. m \in 0..n /\ m \in 1..m /\ 1..m = (1..m - 1) \cup {m} /\ \A x \in 1..m : x \in 1..n
    OBVIOUS
  <2>2. CASE m - 1 = 0
    <3>1. \A y \in 1..m : y = m
      BY <2>2
    <3>2. Both(m)
      BY <1>2, <2>1, <3>1
    <3> QED
      BY <2>1, <3>2
  <2>3. CASE m - 1 # 0
    <3>1. Both(m - 1)
      BY <1>5, <2>3
    <3>2. PICK x \in 1..m - 1 : \A y \in 1..m - 1 : Leq(q[x], q[y])
      BY <3>1
    <3>3. PICK z \in 1..m - 1 : \A y \in 1..m - 1 : Leq(q[y], q[z])
      BY <3>1
    <3>4. x \in 1..n /\ z \in 1..n /\ m \in 1..n /\ x \in 1..m /\ z \in 1..m
      OBVIOUS
    <3> HIDE DEF S, Both
    <3>5. \E a \in 1..m : \A y \in 1..m : Leq(q[a], q[y])
      <4>1. CASE Leq(q[x], q[m])
        BY <2>1, <3>2, <3>4, <4>1
      <4>2. CASE Leq(q[m], q[x])
        <5>1. \A y \in 1..m : Leq(q[m], q[y])
          BY <1>2, <1>4, <2>1, <3>2, <3>4, <4>2
        <5> QED
          BY <2>1, <5>1
      <4> QED
        BY <1>3, <3>4, <4>1, <4>2
    <3>6. \E a \in 1..m : \A y \in 1..m : Leq(q[y], q[a])
      <4>1. CASE Leq(q[m], q[z])
        BY <2>1, <3>3, <3>4, <4>1
      <4>2. CASE Leq(q[z], q[m])
        <5>1. \A y \in 1..m : Leq(q[y], q[m])
          BY <1>2, <1>4, <2>1, <3>3, <3>4, <4>2
        <5> QED
          BY <2>1, <5>1
      <4> QED
        BY <1>3, <3>4, <4>1, <4>2
    <3> QED
      BY <2>1, <3>5, <3>6 DEF S, Both
  <2> QED
    BY <2>2, <2>3
<1> HIDE DEF S
<1>6. \A m \in 0..n : m \in S
  BY <1>1, <1>5, UpTo
<1>7. n \in S /\ n # 0
  BY <1>6
<1> QED
  BY <1>7 DEF S

-----------------------------------------------------------------------------
(* The samples and their blocks *)

\* How many of the first m samples are yes.
Y(s, m) == SumFunctionOnSet(Yes(s), 1..m)

Input(s) ==
  /\ s \in Seq(Samples) /\ s # <<>>
  /\ \A i \in 1..Len(s) - 1 : s[i].level <= s[i + 1].level

Blocks == [first : 1..Levels, last : 1..Levels, yes : Nat, n : Nat \ {0}]

\* Block b stands for the samples a + 1..c, and no point of the graph between them is below its chord.
IsBlock(b, s, a, c) ==
  /\ a < c
  /\ b = [first |-> s[a + 1].level, last |-> s[c].level, yes |-> Y(s, c) - Y(s, a), n |-> c - a]
  /\ \A m \in a..c : (Y(s, c) - Y(s, a)) * (m - a) <= (Y(s, m) - Y(s, a)) * (c - a)

\* Block k ends at e[k], and the blocks stand for the first r samples.
Cuts(e, bs, s, r) ==
  /\ e[0] = 0 /\ e[Len(bs)] = r
  /\ \A k \in 1..Len(bs) : IsBlock(bs[k], s, e[k - 1], e[k])

\* The values of the first j blocks are in order.
InOrder(bs, j) == \A k \in 1..j - 1 : Leq(Value(bs[k]), Value(bs[k + 1]))

Typed ==
  /\ Input(samples) /\ read \in 0..Len(samples)
  /\ blocks \in Seq(Blocks) /\ pc \in {"pool", "done"}

Chords == \E e \in [0..Len(blocks) -> 0..read] : Cuts(e, blocks, samples, read)

\* Only the last two blocks can be in the wrong order.
Ordered == InOrder(blocks, Len(blocks) - 1)

Finished ==
  pc = "done" =>
    /\ read = Len(samples) /\ ~Violation
    /\ steps = [level \in {l \in 1..Levels : Touching(l) # {}} |-> StepAt(level)]

FitInv == Typed /\ Chords /\ Ordered /\ Finished

LEMMA Counting ==
  ASSUME NEW s, Input(s)
  PROVE /\ Len(s) \in Nat \ {0} /\ DOMAIN s = 1..Len(s) /\ \A i \in 1..Len(s) : s[i] \in Samples
        /\ Y(s, 0) = 0
        /\ \A m \in 1..Len(s) : Y(s, m) = Y(s, m - 1) + s[m].yes
        /\ \A m \in 0..Len(s) : Y(s, m) \in Nat
        /\ \A a \in 1..Len(s), c \in 1..Len(s) :
             a <= c => SumFunctionOnSet(Yes(s), a..c) = Y(s, c) - Y(s, a - 1)
<1> DEFINE n == Len(s)
           f == Yes(s)
<1>1. s \in Seq(Samples) /\ s # <<>>
  BY DEF Input
<1>2. n \in Nat \ {0} /\ DOMAIN s = 1..n /\ \A i \in 1..n : s[i] \in Samples
  BY <1>1
<1>3. f \in [1..n -> Nat] /\ f \in [1..n -> Int] /\ \A i \in 1..n : f[i] = s[i].yes
  BY <1>2 DEF Yes, Samples
<1> HIDE DEF n, f
<1>4. /\ \A c \in 1..n : SumFunctionOnSet(f, 1..c) = SumFunctionOnSet(f, 1..c - 1) + f[c]
      /\ \A a \in 1..n, c \in 1..n : a <= c =>
           SumFunctionOnSet(f, a..c) = SumFunctionOnSet(f, 1..c) - SumFunctionOnSet(f, 1..a - 1)
  BY <1>2, <1>3, SumsFromTo
<1>5. ASSUME NEW m \in 0..n PROVE SumFunctionOnSet(f, 1..m) \in Nat
  <2>1. 1..m \in SUBSET (1..n)
    BY <1>2
  <2> QED
    BY <1>2, <1>3, <2>1, SumAtLeast
<1>6. SumFunctionOnSet(f, 1..0) = 0
  <2>1. 1..0 = {}
    OBVIOUS
  <2> QED
    BY <1>2, <1>3, <2>1, Sums
<1> QED
  BY <1>2, <1>3, <1>4, <1>5, <1>6 DEF Y, n, f

LEMMA PushKeeps ==
  ASSUME NEW s, Input(s), NEW bs \in Seq(Blocks), NEW r \in 0..Len(s) - 1,
         NEW e \in [0..Len(bs) -> 0..r], Cuts(e, bs, s, r)
  PROVE LET b == [first |-> s[r + 1].level, last |-> s[r + 1].level, yes |-> s[r + 1].yes, n |-> 1] IN
        /\ b \in Blocks
        /\ \E d \in [0..Len(Append(bs, b)) -> 0..r + 1] : Cuts(d, Append(bs, b), s, r + 1)
<1> DEFINE b == [first |-> s[r + 1].level, last |-> s[r + 1].level, yes |-> s[r + 1].yes, n |-> 1]
           L == Len(bs)
           t == Append(bs, b)
           d == [k \in 0..L + 1 |-> IF k <= L THEN e[k] ELSE r + 1]
<1>1. /\ r \in 0..Len(s) /\ r + 1 \in 1..Len(s) /\ s[r + 1] \in Samples
      /\ Y(s, r + 1) = Y(s, r) + s[r + 1].yes /\ Y(s, r) \in Nat /\ Len(s) \in Nat
  <2>1. Len(s) \in Nat /\ r \in 0..Len(s) /\ r + 1 \in 1..Len(s) /\ (r + 1) - 1 = r
    BY Counting
  <2> QED
    BY <2>1, Counting
<1>2. b \in Blocks /\ s[r + 1].yes \in Nat
  BY <1>1 DEF Blocks, Samples
<1>3. IsBlock(b, s, r, r + 1)
  <2>1. \A m \in r..r + 1 : m = r \/ m = r + 1
    BY <1>1
  <2>2. r + 1 - r = 1 /\ r - r = 0 /\ Y(s, r + 1) - Y(s, r) = s[r + 1].yes /\ Y(s, r) - Y(s, r) = 0
    BY <1>1, <1>2
  <2>3. \A m \in r..r + 1 : (Y(s, r + 1) - Y(s, r)) * (m - r) <= (Y(s, m) - Y(s, r)) * (r + 1 - r)
    BY <1>2, <2>1, <2>2
  <2> QED
    BY <1>1, <2>2, <2>3 DEF IsBlock
<1>4. L \in Nat /\ Len(t) = L + 1 /\ t[L + 1] = b /\ \A k \in 1..L : t[k] = bs[k]
  <2> HIDE DEF b
  <2> QED
    BY <1>2
<1>5. e[0] = 0 /\ e[L] = r /\ \A k \in 1..L : IsBlock(bs[k], s, e[k - 1], e[k])
  BY DEF Cuts
<1> HIDE DEF L, t, b
<1>6. d \in [0..L + 1 -> 0..r + 1] /\ d[0] = 0 /\ d[L + 1] = r + 1 /\ \A k \in 0..L : d[k] = e[k]
  BY <1>1, <1>4, <1>5 DEF L
<1> HIDE DEF d
<1>7. \A k \in 1..L + 1 : IsBlock(t[k], s, d[k - 1], d[k])
  <2>1. ASSUME NEW k \in 1..L PROVE IsBlock(t[k], s, d[k - 1], d[k])
    <3>1. k - 1 \in 0..L /\ k \in 0..L
      BY <1>4
    <3> QED
      BY <1>4, <1>5, <1>6, <3>1
  <2>2. IsBlock(t[L + 1], s, d[(L + 1) - 1], d[L + 1])
    <3>1. (L + 1) - 1 = L /\ L \in 0..L
      BY <1>4
    <3> QED
      BY <1>3, <1>4, <1>5, <1>6, <3>1
  <2>3. \A k \in 1..L + 1 : k \in 1..L \/ k = L + 1
    BY <1>4
  <2> QED
    BY <2>1, <2>2, <2>3
<1>8. Cuts(d, t, s, r + 1)
  BY <1>4, <1>6, <1>7 DEF Cuts
<1> QED
  BY <1>2, <1>4, <1>6, <1>8 DEF t, b

\* Two neighbouring blocks in the wrong order make one.
LEMMA PooledIsBlock ==
  ASSUME NEW s, Input(s), NEW a \in 0..Len(s), NEW b \in 0..Len(s), NEW c \in 0..Len(s),
         NEW b1, NEW b2, IsBlock(b1, s, a, b), IsBlock(b2, s, b, c), ~Leq(Value(b1), Value(b2))
  PROVE IsBlock([first |-> b1.first, last |-> b2.last, yes |-> b1.yes + b2.yes, n |-> b1.n + b2.n], s, a, c)
<1> DEFINE u == Y(s, b) - Y(s, a)
           v == Y(s, c) - Y(s, b)
           m == b - a
           n == c - b
<1>1. /\ Len(s) \in Nat /\ \A i \in 0..Len(s) : Y(s, i) \in Nat
      /\ a \in Nat /\ b \in Nat /\ c \in Nat /\ a < b /\ b < c
  <2>1. Len(s) \in Nat
    BY Counting
  <2> QED
    BY <2>1, Counting DEF IsBlock
<1>2. u \in Int /\ v \in Int /\ m \in Nat \ {0} /\ n \in Nat \ {0}
  BY <1>1
<1>3. /\ b1.yes = u /\ b1.n = m /\ b1.first = s[a + 1].level
      /\ b2.yes = v /\ b2.n = n /\ b2.last = s[c].level
  BY DEF IsBlock
<1>4. u + v = Y(s, c) - Y(s, a) /\ m + n = c - a
  BY <1>1
<1>5. /\ \A i \in a..b : u * (i - a) <= (Y(s, i) - Y(s, a)) * m
      /\ \A i \in b..c : v * (i - b) <= (Y(s, i) - Y(s, b)) * n
  BY DEF IsBlock
<1>6. v * m <= u * n
  <2>1. ~(u * n <= v * m)
    BY <1>3 DEF Leq, Value
  <2>2. u * n \in Int /\ v * m \in Int
    BY <1>2
  <2> QED
    BY <2>1, <2>2
<1>7. ASSUME NEW i \in a..c PROVE (u + v) * (i - a) <= (Y(s, i) - Y(s, a)) * (m + n)
  <2>1. i \in 0..Len(s) /\ Y(s, i) \in Nat /\ Y(s, a) \in Nat /\ Y(s, b) \in Nat
    BY <1>1
  <2>2. CASE i <= b
    <3> DEFINE y == Y(s, i) - Y(s, a)
               t == i - a
    <3>1. i \in a..b /\ y \in Int /\ t \in Nat
      BY <1>1, <2>1, <2>2
    <3>2. u * t <= y * m
      BY <1>5, <3>1
    <3> HIDE DEF u, v, m, n, y, t
    <3>3. (u + v) * t <= y * (m + n)
      BY <1>2, <1>6, <3>1, <3>2, PoolFirst
    <3> QED
      BY <3>3 DEF y, t
  <2>3. CASE b <= i
    <3> DEFINE z == Y(s, i) - Y(s, b)
               t == i - b
    <3>1. i \in b..c /\ z \in Int /\ t \in 0..n
      BY <1>1, <2>1, <2>3
    <3>2. v * t <= z * n
      BY <1>5, <3>1
    <3>3. u + z = Y(s, i) - Y(s, a) /\ m + t = i - a
      BY <1>1, <2>1
    <3> HIDE DEF u, v, m, n, z, t
    <3>4. (u + v) * (m + t) <= (u + z) * (m + n)
      BY <1>2, <1>6, <3>1, <3>2, PoolSecond
    <3> QED
      BY <3>3, <3>4
  <2>4. i <= b \/ b <= i
    BY <1>1
  <2> QED
    BY <2>2, <2>3, <2>4
<1>8. a < c
  BY <1>1
<1> QED
  BY <1>3, <1>4, <1>7, <1>8 DEF IsBlock

LEMMA PoolKeeps ==
  ASSUME NEW s, Input(s), NEW bs \in Seq(Blocks), NEW r \in 0..Len(s), Len(bs) >= 2,
         NEW e \in [0..Len(bs) -> 0..r], Cuts(e, bs, s, r),
         ~Leq(Value(bs[Len(bs) - 1]), Value(bs[Len(bs)]))
  PROVE LET b1 == bs[Len(bs) - 1]
            b2 == bs[Len(bs)]
            b == [first |-> b1.first, last |-> b2.last, yes |-> b1.yes + b2.yes, n |-> b1.n + b2.n]
            t == Append(SubSeq(bs, 1, Len(bs) - 2), b)
        IN  /\ t \in Seq(Blocks) /\ Len(t) = Len(bs) - 1 /\ \A k \in 1..Len(bs) - 2 : t[k] = bs[k]
            /\ \E d \in [0..Len(t) -> 0..r] : Cuts(d, t, s, r)
<1> DEFINE L == Len(bs)
           b1 == bs[L - 1]
           b2 == bs[L]
           b == [first |-> b1.first, last |-> b2.last, yes |-> b1.yes + b2.yes, n |-> b1.n + b2.n]
           p == SubSeq(bs, 1, L - 2)
           t == Append(p, b)
           d == [k \in 0..L - 1 |-> IF k = L - 1 THEN e[L] ELSE e[k]]
<1>1. L \in Nat /\ L >= 2 /\ b1 \in Blocks /\ b2 \in Blocks
  OBVIOUS
<1>2. b \in Blocks
  <2> HIDE DEF L, b1, b2
  <2>1. b1.first \in 1..Levels /\ b1.yes \in Nat /\ b1.n \in Nat \ {0}
    BY <1>1 DEF Blocks
  <2>2. b2.last \in 1..Levels /\ b2.yes \in Nat /\ b2.n \in Nat \ {0}
    BY <1>1 DEF Blocks
  <2>3. b1.yes + b2.yes \in Nat /\ b1.n + b2.n \in Nat \ {0}
    <3>1. (\A x \in Nat, y \in Nat : x + y \in Nat) /\ \A x \in Nat \ {0}, y \in Nat \ {0} : x + y \in Nat \ {0}
      OBVIOUS
    <3> QED
      BY <2>1, <2>2, <3>1, Zenon
  <2> QED
    BY <2>1, <2>2, <2>3 DEF Blocks
<1>3. p \in Seq(Blocks) /\ Len(p) = L - 2 /\ \A k \in 1..L - 2 : p[k] = bs[k]
  OBVIOUS
<1>4. e[0] = 0 /\ e[L] = r /\ \A k \in 1..L : IsBlock(bs[k], s, e[k - 1], e[k])
  BY DEF Cuts
<1>5. Len(s) \in Nat /\ r \in Nat /\ \A k \in 0..L : e[k] \in 0..r /\ e[k] \in 0..Len(s)
  <2>1. Len(s) \in Nat
    BY Counting
  <2> QED
    BY <2>1
<1>6. IsBlock(b, s, e[L - 2], e[L])
  <2>1. L - 1 \in 1..L /\ L \in 1..L /\ L - 2 \in 0..L /\ L - 1 \in 0..L /\ (L - 1) - 1 = L - 2
    BY <1>1
  <2>2. IsBlock(b1, s, e[L - 2], e[L - 1]) /\ IsBlock(b2, s, e[L - 1], e[L])
    BY <1>4, <2>1
  <2>3. e[L - 2] \in 0..Len(s) /\ e[L - 1] \in 0..Len(s) /\ e[L] \in 0..Len(s)
    BY <1>5, <2>1
  <2>4. ~Leq(Value(b1), Value(b2))
    OBVIOUS
  <2> HIDE DEF b1, b2, L
  <2> QED
    BY <2>2, <2>3, <2>4, PooledIsBlock
<1> HIDE DEF b, p, L
<1>7. t \in Seq(Blocks) /\ Len(t) = L - 1 /\ t[L - 1] = b /\ \A k \in 1..L - 2 : t[k] = bs[k]
  BY <1>1, <1>2, <1>3
<1>8. d \in [0..L - 1 -> 0..r] /\ d[0] = 0 /\ d[L - 1] = r /\ \A k \in 0..L - 2 : d[k] = e[k]
  <2>1. 0 \in 0..L - 1 /\ 0 # L - 1 /\ L - 1 \in 0..L - 1 /\ L \in 0..L /\ e[L] \in 0..r /\ e[0] = 0
    BY <1>1, <1>4, <1>5
  <2>2. \A k \in 0..L - 1 : k \in 0..L
    BY <1>1
  <2>3. \A k \in 0..L - 2 : k \in 0..L - 1 /\ k # L - 1
    BY <1>1
  <2>4. d \in [0..L - 1 -> 0..r]
    BY <1>5, <2>1, <2>2
  <2> QED
    BY <1>4, <2>1, <2>3, <2>4
<1> HIDE DEF t, d
<1>9. \A k \in 1..L - 1 : IsBlock(t[k], s, d[k - 1], d[k])
  <2>1. ASSUME NEW k \in 1..L - 2 PROVE IsBlock(t[k], s, d[k - 1], d[k])
    <3>1. k - 1 \in 0..L - 2 /\ k \in 0..L - 2 /\ k \in 1..L
      BY <1>1
    <3> QED
      BY <1>4, <1>7, <1>8, <3>1
  <2>2. IsBlock(t[L - 1], s, d[(L - 1) - 1], d[L - 1])
    <3>1. (L - 1) - 1 = L - 2 /\ L - 2 \in 0..L - 2
      BY <1>1
    <3>2. d[(L - 1) - 1] = e[L - 2] /\ d[L - 1] = e[L]
      BY <1>4, <1>8, <3>1
    <3> QED
      BY <1>6, <1>7, <3>2
  <2>3. \A k \in 1..L - 1 : k \in 1..L - 2 \/ k = L - 1
    BY <1>1
  <2> QED
    BY <2>1, <2>2, <2>3
<1>10. Cuts(d, t, s, r)
  BY <1>7, <1>8, <1>9 DEF Cuts
<1> QED
  BY <1>7, <1>8, <1>10 DEF t, p, b, L, b1, b2

\* When the last two blocks are in order, all are.
LEMMA CalmIsOrdered ==
  ASSUME blocks \in Seq(Blocks), Ordered, ~Violation
  PROVE InOrder(blocks, Len(blocks))
<1> DEFINE L == Len(blocks)
<1>1. L \in Nat
  OBVIOUS
<1>2. \A k \in 1..L - 2 : Leq(Value(blocks[k]), Value(blocks[k + 1]))
  <2>1. L - 2 = (L - 1) - 1
    OBVIOUS
  <2> QED
    BY <2>1 DEF Ordered, InOrder
<1>3. L >= 2 => Leq(Value(blocks[L - 1]), Value(blocks[L]))
  BY DEF Violation, Last
<1> HIDE DEF L
<1>4. ASSUME NEW k \in 1..L - 1 PROVE Leq(Value(blocks[k]), Value(blocks[k + 1]))
  <2>1. k \in 1..L - 2 \/ k = L - 1
    BY <1>1
  <2>2. CASE k = L - 1
    <3>1. L >= 2 /\ k + 1 = L
      BY <1>1, <2>2
    <3> QED
      BY <1>3, <2>2, <3>1
  <2> QED
    BY <1>2, <2>1, <2>2
<1> QED
  BY <1>4 DEF InOrder, L

LEMMA InitFit == BoundsAssumption /\ Init => FitInv
<1> SUFFICES ASSUME BoundsAssumption, Init PROVE FitInv
  OBVIOUS
<1>1. samples \in Seq(Samples) /\ samples # <<>>
  <2>1. samples # <<>> /\ samples \in UNION {[1..m -> Samples] : m \in 0..MaxSamples}
    BY DEF Init, BoundedSeq, SeqOf
  <2>2. PICK m \in 0..MaxSamples : samples \in [1..m -> Samples]
    BY <2>1
  <2>3. m \in Nat
    BY DEF BoundsAssumption
  <2> QED
    BY <2>1, <2>2, <2>3
<1>2. Input(samples)
  BY <1>1 DEF Init, Input
<1>3. Len(samples) \in Nat
  BY <1>1
<1>4. Typed
  BY <1>2, <1>3 DEF Init, Typed
<1>5. Len(blocks) = 0 /\ read = 0
  BY DEF Init
<1>6. Chords
  <2> DEFINE e == [k \in 0..0 |-> 0]
  <2>1. e \in [0..Len(blocks) -> 0..read]
    BY <1>5
  <2>2. e[0] = 0
    OBVIOUS
  <2> HIDE DEF e
  <2>3. Cuts(e, blocks, samples, read)
    BY <1>5, <2>2 DEF Cuts
  <2> QED
    BY <2>1, <2>3 DEF Chords
<1>7. Ordered
  BY <1>5 DEF Ordered, InOrder
<1>8. Finished
  BY DEF Init, Finished
<1> QED
  BY <1>4, <1>6, <1>7, <1>8 DEF FitInv

LEMMA StepFit == FitInv /\ [Next]_vars => FitInv'
<1> SUFFICES ASSUME FitInv, [Next]_vars PROVE FitInv'
  OBVIOUS
<1>1. /\ Input(samples) /\ read \in 0..Len(samples) /\ blocks \in Seq(Blocks)
      /\ pc \in {"pool", "done"} /\ Ordered
  BY DEF FitInv, Typed
<1>2. PICK e \in [0..Len(blocks) -> 0..read] : Cuts(e, blocks, samples, read)
  BY DEF FitInv, Chords
<1>3. Len(samples) \in Nat /\ Len(blocks) \in Nat /\ read \in Nat
  BY <1>1, Counting
<1>4. CASE Push
  <2> DEFINE b == [first |-> samples[read + 1].level, last |-> samples[read + 1].level,
                   yes |-> samples[read + 1].yes, n |-> 1]
             t == Append(blocks, b)
  <2>1. read \in 0..Len(samples) - 1
    BY <1>3, <1>4 DEF Push
  <2>2. b \in Blocks /\ \E d \in [0..Len(t) -> 0..read + 1] : Cuts(d, t, samples, read + 1)
    BY <1>1, <1>2, <2>1, PushKeeps
  <2>3. blocks' = t /\ samples' = samples /\ read' = read + 1 /\ pc' = pc /\ pc = "pool"
    BY <1>4 DEF Push
  <2> HIDE DEF b
  <2>4. Typed'
    BY <1>1, <1>3, <2>1, <2>2, <2>3 DEF Typed, Input
  <2>5. Chords'
    BY <2>2, <2>3 DEF Chords
  <2>6. Ordered'
    <3>1. InOrder(blocks, Len(blocks))
      BY <1>1, <1>4, CalmIsOrdered DEF Push
    <3>2. Len(t) - 1 = Len(blocks) /\ \A k \in 1..Len(blocks) : t[k] = blocks[k]
      BY <1>1, <1>3, <2>2
    <3>3. \A k \in 1..Len(blocks) - 1 : k \in 1..Len(blocks) /\ k + 1 \in 1..Len(blocks)
      BY <1>3
    <3> HIDE DEF t
    <3>4. InOrder(t, Len(t) - 1)
      BY <3>1, <3>2, <3>3 DEF InOrder
    <3> QED
      BY <2>3, <3>4 DEF Ordered
  <2>7. Finished'
    BY <2>3 DEF Finished
  <2> QED
    BY <2>4, <2>5, <2>6, <2>7 DEF FitInv
<1>5. CASE Pool
  <2> DEFINE L == Len(blocks)
             b1 == blocks[L - 1]
             b2 == blocks[L]
             t == Append(SubSeq(blocks, 1, L - 2),
                         [first |-> b1.first, last |-> b2.last, yes |-> b1.yes + b2.yes, n |-> b1.n + b2.n])
  <2>1. /\ blocks' = t /\ samples' = samples /\ read' = read /\ pc' = pc /\ pc = "pool"
        /\ L >= 2 /\ ~Leq(Value(b1), Value(b2))
    BY <1>5 DEF Pool, Violation, Last
  <2>2. /\ t \in Seq(Blocks) /\ Len(t) = L - 1 /\ \A k \in 1..L - 2 : t[k] = blocks[k]
        /\ \E d \in [0..Len(t) -> 0..read] : Cuts(d, t, samples, read)
    BY <1>1, <1>2, <2>1, PoolKeeps
  <2> HIDE DEF t
  <2>3. Typed'
    BY <1>1, <2>1, <2>2 DEF Typed, Input
  <2>4. Chords'
    BY <2>1, <2>2 DEF Chords
  <2>5. Ordered'
    <3>1. \A k \in 1..(L - 1) - 1 - 1 : k \in 1..(L - 1) - 1 /\ k \in 1..L - 2 /\ k + 1 \in 1..L - 2
      BY <1>3
    <3>2. InOrder(t, Len(t) - 1)
      BY <1>1, <2>2, <3>1 DEF Ordered, InOrder
    <3> QED
      BY <2>1, <3>2 DEF Ordered
  <2>6. Finished'
    BY <2>1 DEF Finished
  <2> QED
    BY <2>3, <2>4, <2>5, <2>6 DEF FitInv
<1>6. CASE Finish
  <2>1. samples' = samples /\ read' = read /\ blocks' = blocks /\ pc' = "done" /\ read = Len(samples) /\ ~Violation
    BY <1>6 DEF Finish
  <2>2. Typed' /\ Chords' /\ Ordered'
    BY <1>1, <1>2, <2>1 DEF Typed, Input, Chords, Ordered
  <2>3. ~Violation'
    BY <2>1 DEF Violation
  <2>4. steps' = [level \in {l \in 1..Levels : Touching(l)' # {}} |-> StepAt(level)']
    BY <1>6, <2>1 DEF Finish, Touching, StepAt, Sizes, Yes
  <2>5. Finished'
    BY <2>1, <2>3, <2>4 DEF Finished
  <2> QED
    BY <2>2, <2>5 DEF FitInv
<1>7. CASE UNCHANGED vars
  <2>1. samples' = samples /\ read' = read /\ blocks' = blocks /\ pc' = pc /\ steps' = steps
    BY <1>7 DEF vars
  <2>2. Typed' /\ Chords' /\ Ordered'
    BY <1>1, <1>2, <2>1 DEF Typed, Input, Chords, Ordered
  <2>3. Finished'
    <3>1. \A l : Touching(l)' = Touching(l) /\ StepAt(l)' = StepAt(l)
      BY <2>1 DEF Touching, StepAt, Sizes, Yes
    <3>2. Violation' = Violation
      BY <2>1 DEF Violation
    <3> QED
      BY <2>1, <3>1, <3>2 DEF Finished, FitInv
  <2> QED
    BY <2>2, <2>3 DEF FitInv
<1> QED
  BY <1>4, <1>5, <1>6, <1>7 DEF Next

LEMMA FitHolds == Spec => []FitInv
<1>1. Init => FitInv
  BY InitFit, BoundsAssumption
<1> QED
  BY <1>1, StepFit, PTL DEF Spec

-----------------------------------------------------------------------------
(* Where the blocks end *)

\* What a sequence of blocks that is cut at e consists of.
LEMMA Cutting ==
  ASSUME NEW s, Input(s), NEW bs \in Seq(Blocks), NEW r \in 0..Len(s),
         NEW e \in [0..Len(bs) -> 0..r], Cuts(e, bs, s, r)
  PROVE /\ Len(bs) \in Nat /\ r \in Nat /\ e[0] = 0 /\ e[Len(bs)] = r
        /\ \A k \in 0..Len(bs) : e[k] \in Nat /\ e[k] <= r /\ e[k] \in 0..Len(s) /\ Y(s, e[k]) \in Nat
        /\ \A k \in 1..Len(bs) :
             /\ k - 1 \in 0..Len(bs) /\ k \in 0..Len(bs) /\ e[k - 1] < e[k]
             /\ Value(bs[k]) = <<Y(s, e[k]) - Y(s, e[k - 1]), e[k] - e[k - 1]>>
             /\ Value(bs[k]) \in Fractions
<1>1. Len(s) \in Nat /\ \A m \in 0..Len(s) : Y(s, m) \in Nat
  BY Counting
<1>2. Len(bs) \in Nat /\ r \in Nat /\ e[0] = 0 /\ e[Len(bs)] = r
  BY <1>1 DEF Cuts
<1>3. ASSUME NEW k \in 0..Len(bs) PROVE e[k] \in Nat /\ e[k] <= r /\ e[k] \in 0..Len(s) /\ Y(s, e[k]) \in Nat
  <2>1. e[k] \in 0..r
    OBVIOUS
  <2>2. e[k] \in Nat /\ e[k] <= r /\ e[k] \in 0..Len(s)
    BY <1>1, <2>1
  <2> QED
    BY <1>1, <2>2
<1>4. ASSUME NEW k \in 1..Len(bs)
      PROVE /\ k - 1 \in 0..Len(bs) /\ k \in 0..Len(bs) /\ e[k - 1] < e[k]
            /\ Value(bs[k]) = <<Y(s, e[k]) - Y(s, e[k - 1]), e[k] - e[k - 1]>>
            /\ Value(bs[k]) \in Fractions
  <2>1. k - 1 \in 0..Len(bs) /\ k \in 0..Len(bs)
    BY <1>2
  <2>2. IsBlock(bs[k], s, e[k - 1], e[k])
    BY DEF Cuts
  <2>3. e[k - 1] < e[k] /\ Value(bs[k]) = <<Y(s, e[k]) - Y(s, e[k - 1]), e[k] - e[k - 1]>>
    BY <2>2 DEF IsBlock, Value
  <2>4. Y(s, e[k]) - Y(s, e[k - 1]) \in Int /\ e[k] - e[k - 1] \in Nat \ {0}
    BY <1>3, <2>1, <2>3
  <2> QED
    BY <2>1, <2>3, <2>4 DEF Fractions
<1> QED
  BY <1>2, <1>3, <1>4

LEMMA EndsAre ==
  ASSUME Typed, NEW e \in [0..Len(blocks) -> 0..read], Cuts(e, blocks, samples, read)
  PROVE \A k \in 0..Len(blocks) : EndOf(k) = e[k]
<1> DEFINE L == Len(blocks)
           f == Sizes
           S == {k \in 0..L : EndOf(k) = e[k]}
<1>1. /\ L \in Nat /\ e[0] = 0
      /\ \A k \in 0..L : e[k] \in Nat
      /\ \A k \in 1..L : k - 1 \in 0..L /\ k \in 0..L
  BY Cutting DEF Typed
<1>2. \A k \in 1..L : blocks[k].n = e[k] - e[k - 1] /\ blocks[k].n \in Int
  <2>1. \A k \in 1..L : IsBlock(blocks[k], samples, e[k - 1], e[k])
    BY DEF Cuts
  <2>2. ASSUME NEW k \in 1..L PROVE blocks[k].n = e[k] - e[k - 1]
    <3> HIDE DEF L, f
    <3>1. IsBlock(blocks[k], samples, e[k - 1], e[k])
      BY <2>1
    <3> QED
      BY <3>1 DEF IsBlock
  <2> QED
    BY <1>1, <2>2
<1>3. f \in [1..L -> Int] /\ \A k \in 1..L : f[k] = e[k] - e[k - 1]
  <2>1. DOMAIN blocks = 1..L
    BY DEF Typed
  <2> QED
    BY <1>2, <2>1 DEF Sizes
<1> HIDE DEF L, f
<1>4. \A c \in 1..L : SumFunctionOnSet(f, 1..c) = SumFunctionOnSet(f, 1..c - 1) + f[c]
  BY <1>1, <1>3, SumsFromTo
<1>5. SumFunctionOnSet(f, 1..0) = 0
  <2>1. 1..0 = {}
    OBVIOUS
  <2> QED
    BY <1>1, <1>3, <2>1, Sums
<1>6. 0 \in S
  BY <1>1, <1>5 DEF EndOf, f
<1>7. ASSUME NEW k \in 1..L, k - 1 \in S PROVE k \in S
  <2>1. EndOf(k - 1) = e[k - 1] /\ EndOf(k) = EndOf(k - 1) + f[k]
    BY <1>4, <1>7 DEF EndOf, f
  <2>2. EndOf(k) = e[k]
    BY <1>1, <1>3, <2>1
  <2> QED
    BY <1>1, <2>2
<1> HIDE DEF S
<1>8. \A k \in 0..L : k \in S
  BY <1>1, <1>6, <1>7, UpTo
<1> QED
  BY <1>8 DEF S, L

LEMMA InOrderAll ==
  ASSUME NEW bs \in Seq(Blocks), InOrder(bs, Len(bs))
  PROVE \A i \in 1..Len(bs), j \in 1..Len(bs) : i <= j => Leq(Value(bs[i]), Value(bs[j]))
<1> DEFINE L == Len(bs)
<1>1. L \in Nat
  OBVIOUS
<1>2. \A k \in 1..L : Value(bs[k]) \in Fractions
  <2>1. ASSUME NEW k \in 1..L PROVE Value(bs[k]) \in Fractions
    <3>2. bs[k] \in Blocks
      OBVIOUS
    <3>1. bs[k].yes \in Int /\ bs[k].n \in Nat \ {0}
      BY <3>2 DEF Blocks
    <3> QED
      BY <3>1 DEF Value, Fractions
  <2> QED
    BY <2>1
<1>3. \A k \in 1..L - 1 : Leq(Value(bs[k]), Value(bs[k + 1]))
  BY DEF InOrder
<1> HIDE DEF L
<1>4. ASSUME NEW i \in 1..L PROVE \A j \in 0..L : j >= i => Leq(Value(bs[i]), Value(bs[j]))
  <2> DEFINE S == {j \in 0..L : j >= i => Leq(Value(bs[i]), Value(bs[j]))}
  <2>1. 0 \in S
    BY <1>1
  <2>2. ASSUME NEW j \in 1..L, j - 1 \in S PROVE j \in S
    <3>1. CASE j < i
      BY <1>1, <3>1
    <3>2. CASE j = i
      <4>1. Leq(Value(bs[i]), Value(bs[i]))
        BY <1>2, LeqTotal
      <4> QED
        BY <1>1, <3>2, <4>1
    <3>3. CASE j > i
      <4>1. j - 1 >= i /\ j - 1 \in 1..L - 1 /\ j - 1 \in 1..L /\ (j - 1) + 1 = j /\ j \in 0..L
        BY <1>1, <3>3
      <4>2. Leq(Value(bs[i]), Value(bs[j - 1])) /\ Leq(Value(bs[j - 1]), Value(bs[j]))
        BY <1>3, <2>2, <4>1
      <4>3. Leq(Value(bs[i]), Value(bs[j]))
        BY <1>2, <4>1, <4>2, LeqTransitive
      <4> QED
        BY <4>1, <4>3
    <3>4. j < i \/ j = i \/ j > i
      OBVIOUS
    <3> QED
      BY <3>1, <3>2, <3>3, <3>4
  <2> HIDE DEF S
  <2>3. \A j \in 0..L : j \in S
    BY <1>1, <2>1, <2>2, UpTo
  <2> QED
    BY <2>3 DEF S
<1>5. \A j \in 1..L : j \in 0..L
  BY <1>1
<1> QED
  BY <1>4, <1>5 DEF L

\* A point between the ends of two blocks lies in one of those between them.
LEMMA Located ==
  ASSUME NEW L \in Nat, NEW e \in [0..L -> Nat], NEW i \in 1..L, NEW k \in 1..L, i <= k,
         NEW x \in Nat, e[i - 1] <= x, x <= e[k]
  PROVE \E j \in i..k : e[j - 1] <= x /\ x <= e[j]
<1> DEFINE T == {j \in i..k : x <= e[j]}
<1>1. T \in SUBSET Nat /\ T # {}
  OBVIOUS
<1>2. PICK j \in T : \A h \in T : j <= h
  <2> HIDE DEF T
  <2> QED
    BY <1>1, LeastNumber, Zenon
<1>3. j \in i..k /\ x <= e[j]
  OBVIOUS
<1>4. CASE j = i
  BY <1>3, <1>4
<1>5. CASE j # i
  <2>1. j - 1 \in i..k /\ ~(j <= j - 1) /\ j - 1 \in 0..L
    BY <1>3, <1>5
  <2>2. j - 1 \notin T
    BY <1>2, <2>1
  <2>3. ~(x <= e[j - 1]) /\ e[j - 1] \in Nat
    BY <2>1, <2>2
  <2> QED
    BY <1>3, <2>3
<1> QED
  BY <1>4, <1>5

\* Points above two chords of one slope, one after the other.
LEMMA Onwards ==
  ASSUME NEW v \in Int, NEW n \in Int, NEW f \in Int, NEW p \in Int, NEW g \in Int, NEW h \in Int,
         v * f <= p * n, v * g <= h * n
  PROVE v * (g + f) <= (h + p) * n
OBVIOUS

\* A chord with no point below it has none above it, as seen from its end.
LEMMA Backwards ==
  ASSUME NEW v \in Int, NEW n \in Int, NEW t \in Int, NEW y \in Int, v * t <= y * n
  PROVE (v - y) * n <= v * (n - t)
<1>1. (v - y) * n = v * n - y * n /\ v * (n - t) = v * n - v * t
  OBVIOUS
<1>2. v * n \in Int /\ y * n \in Int /\ v * t \in Int
  OBVIOUS
<1> QED
  BY <1>1, <1>2

-----------------------------------------------------------------------------
(* The blocks are the regression *)

Rise(e, y, j) == y[e[j]] - y[e[j - 1]]
Run(e, j) == e[j] - e[j - 1]

\* The chords of a graph between the points e[0], ..., e[L] get steeper, and no point is below its chord.
Hull(L, e, N, y) ==
  /\ L \in Nat /\ N \in Nat /\ e \in [0..L -> 0..N] /\ y \in [0..N -> Int] /\ e[0] = 0
  /\ \A j \in 1..L : e[j - 1] < e[j]
  /\ \A j \in 1..L : \A m \in e[j - 1]..e[j] :
       Rise(e, y, j) * (m - e[j - 1]) <= (y[m] - y[e[j - 1]]) * Run(e, j)
  /\ \A i \in 1..L, j \in 1..L : i <= j => Rise(e, y, i) * Run(e, j) <= Rise(e, y, j) * Run(e, i)

\* The next chord c/d is at least as steep as v/n, and what holds up to it holds for the points above it.
LEMMA OnwardsAbove ==
  ASSUME NEW v \in Int, NEW n \in Nat, NEW c \in Int, NEW d \in Nat \ {0}, NEW p \in Int, NEW f \in Nat,
         NEW g \in Int, NEW h \in Int, v * d <= c * n, c * f <= p * d, v * g <= h * n
  PROVE v * (g + f) <= (h + p) * n
<1>1. v * f <= p * n
  BY Between
<1> QED
  BY <1>1, Onwards

\* Backwards from a chord v/n the chords are at most as steep, and the same holds for the rest of the way.
LEMMA BackwardsAbove ==
  ASSUME NEW v \in Int, NEW n \in Nat, NEW c \in Int, NEW d \in Nat \ {0}, NEW p \in Int, NEW t \in 0..d,
         NEW g \in Int, NEW h \in Int, c * n <= v * d, c * t <= p * d, h * n <= v * g
  PROVE (h + (c - p)) * n <= v * (g + (d - t))
<1> DEFINE q == c - p
           f == d - t
<1>1. q \in Int /\ f \in Nat
  OBVIOUS
<1>2. q * d <= c * f
  BY Backwards
<1> HIDE DEF q, f
<1>3. q * n <= v * f
  BY <1>1, <1>2, Between
<1>4. (h + q) * n = h * n + q * n /\ v * (g + f) = v * g + v * f
  BY <1>1
<1>5. h * n \in Int /\ q * n \in Int /\ v * g \in Int /\ v * f \in Int
  BY <1>1
<1>6. (h + q) * n <= v * (g + f)
  BY <1>3, <1>4, <1>5
<1> QED
  BY <1>6 DEF q, f

LEMMA HullFacts ==
  ASSUME NEW L, NEW e, NEW N, NEW y, Hull(L, e, N, y)
  PROVE /\ L \in Nat /\ N \in Nat /\ e[0] = 0
        /\ \A j \in 0..L : e[j] \in Nat /\ e[j] \in 0..N /\ y[e[j]] \in Int
        /\ \A m \in 0..N : m \in Nat /\ y[m] \in Int
        /\ \A j \in 1..L : /\ j - 1 \in 0..L /\ j \in 0..L /\ e[j - 1] < e[j]
                           /\ Rise(e, y, j) \in Int /\ Run(e, j) \in Nat \ {0}
<1>1. /\ L \in Nat /\ N \in Nat /\ e \in [0..L -> 0..N] /\ y \in [0..N -> Int] /\ e[0] = 0
      /\ \A j \in 1..L : e[j - 1] < e[j]
  BY DEF Hull
<1>2. \A j \in 0..L : e[j] \in Nat /\ e[j] \in 0..N /\ y[e[j]] \in Int
  BY <1>1
<1>3. \A m \in 0..N : m \in Nat /\ y[m] \in Int
  BY <1>1
<1>4. \A j \in 1..L : j - 1 \in 0..L /\ j \in 0..L
  BY <1>1
<1>5. ASSUME NEW j \in 1..L PROVE Rise(e, y, j) \in Int /\ Run(e, j) \in Nat \ {0}
  <2>1. /\ e[j] \in Nat /\ e[j - 1] \in Nat /\ y[e[j]] \in Int /\ y[e[j - 1]] \in Int
        /\ e[j - 1] < e[j]
    BY <1>1, <1>2, <1>4
  <2> QED
    BY <2>1 DEF Rise, Run
<1> QED
  BY <1>1, <1>2, <1>3, <1>4, <1>5

\* The point at x is not below the line along chord k from its start.
OverStart(e, y, k, x) == Rise(e, y, k) * (x - e[k - 1]) <= (y[x] - y[e[k - 1]]) * Run(e, k)

\* The point at x is not below the line along chord k from its end.
OverEnd(e, y, k, x) == (y[e[k]] - y[x]) * Run(e, k) <= Rise(e, y, k) * (e[k] - x)

LEMMA OverStartStep ==
  ASSUME NEW L, NEW e, NEW N, NEW y, Hull(L, e, N, y), NEW k \in 1..L, NEW j \in 1..L, k <= j,
         OverStart(e, y, k, e[j - 1]), NEW z \in e[j - 1]..e[j]
  PROVE OverStart(e, y, k, z)
<1> DEFINE v == Rise(e, y, k)
           n == Run(e, k)
           c == Rise(e, y, j)
           d == Run(e, j)
           p == y[z] - y[e[j - 1]]
           f == z - e[j - 1]
           g == e[j - 1] - e[k - 1]
           h == y[e[j - 1]] - y[e[k - 1]]
<1>1. v \in Int /\ n \in Nat /\ c \in Int /\ d \in Nat \ {0}
  BY HullFacts
<1>2. /\ e[j - 1] \in Nat /\ e[j] \in 0..N /\ e[k - 1] \in Nat /\ N \in Nat
      /\ y[e[j - 1]] \in Int /\ y[e[k - 1]] \in Int
  BY HullFacts
<1>3. z \in 0..N /\ z \in Nat /\ e[j - 1] <= z
  BY <1>2
<1>4. y[z] \in Int
  BY <1>3, HullFacts
<1>5. v * d <= c * n
  BY DEF Hull
<1>6. c * f <= p * d
  BY DEF Hull
<1>7. v * g <= h * n
  BY DEF OverStart
<1>8. g + f = z - e[k - 1] /\ h + p = y[z] - y[e[k - 1]]
  BY <1>2, <1>3, <1>4
<1>9. p \in Int /\ f \in Nat /\ g \in Int /\ h \in Int
  BY <1>2, <1>3, <1>4
<1> HIDE DEF v, n, c, d, p, f, g, h
<1>10. v * (g + f) <= (h + p) * n
  BY <1>1, <1>5, <1>6, <1>7, <1>9, OnwardsAbove
<1> QED
  BY <1>8, <1>10 DEF OverStart, v, n

LEMMA OverEndStep ==
  ASSUME NEW L, NEW e, NEW N, NEW y, Hull(L, e, N, y), NEW k \in 1..L, NEW j \in 1..L, j <= k,
         OverEnd(e, y, k, e[j]), NEW z \in e[j - 1]..e[j]
  PROVE OverEnd(e, y, k, z)
<1> DEFINE v == Rise(e, y, k)
           n == Run(e, k)
           c == Rise(e, y, j)
           d == Run(e, j)
           p == y[z] - y[e[j - 1]]
           t == z - e[j - 1]
           g == e[k] - e[j]
           h == y[e[k]] - y[e[j]]
<1>1. v \in Int /\ n \in Nat /\ c \in Int /\ d \in Nat \ {0}
  BY HullFacts
<1>2. /\ e[j - 1] \in Nat /\ e[j] \in 0..N /\ e[j] \in Nat /\ e[k] \in Nat /\ N \in Nat
      /\ y[e[j - 1]] \in Int /\ y[e[j]] \in Int /\ y[e[k]] \in Int
  BY HullFacts
<1>3. z \in 0..N /\ z \in Nat /\ e[j - 1] <= z /\ z <= e[j]
  BY <1>2
<1>4. y[z] \in Int
  BY <1>3, HullFacts
<1>5. c * n <= v * d
  BY DEF Hull
<1>6. c * t <= p * d
  BY DEF Hull
<1>7. h * n <= v * g
  BY DEF OverEnd
<1>8. g + (d - t) = e[k] - z /\ h + (c - p) = y[e[k]] - y[z]
  BY <1>2, <1>3, <1>4 DEF Rise, Run
<1>9. p \in Int /\ t \in 0..d /\ g \in Int /\ h \in Int
  BY <1>2, <1>3, <1>4 DEF Run
<1> HIDE DEF v, n, c, d, p, t, g, h
<1>10. (h + (c - p)) * n <= v * (g + (d - t))
  BY <1>1, <1>5, <1>6, <1>7, <1>9, BackwardsAbove
<1> QED
  BY <1>8, <1>10 DEF OverEnd, v, n

\* From the start of a chord on, the graph is never below the line along it.
LEMMA AboveOnwards ==
  ASSUME NEW L, NEW e, NEW N, NEW y, Hull(L, e, N, y), NEW k \in 1..L
  PROVE \A x \in Nat : e[k - 1] <= x /\ x <= e[L] => OverStart(e, y, k, x)
<1>1. L \in Nat /\ e \in [0..L -> Nat] /\ \A j \in 0..L : e[j] \in Nat
  <2>1. L \in Nat /\ N \in Nat /\ e \in [0..L -> 0..N]
    BY DEF Hull
  <2>2. \A j \in 0..L : e[j] \in Nat
    BY HullFacts
  <2> QED
    BY <2>1, <2>2
<1>2. \A j \in 1..L : j - 1 \in 0..L /\ j \in 0..L /\ e[j - 1] < e[j]
  BY HullFacts
<1>3. OverStart(e, y, k, e[k - 1])
  <2>1. /\ Rise(e, y, k) \in Int /\ Run(e, k) \in Int /\ y[e[k - 1]] \in Int /\ e[k - 1] \in Nat
    BY HullFacts
  <2>2. \A v \in Int, n \in Int, a \in Int, b \in Int : v * (a - a) <= (b - b) * n
    OBVIOUS
  <2> QED
    BY <2>1, <2>2 DEF OverStart
<1> DEFINE S == {j \in 0..L : k - 1 <= j => OverStart(e, y, k, e[j])}
<1>4. 0 \in S
  <2>1. k - 1 <= 0 => k - 1 = 0
    OBVIOUS
  <2> QED
    BY <1>1, <1>3, <2>1
<1>5. ASSUME NEW j \in 1..L, j - 1 \in S PROVE j \in S
  <2>1. SUFFICES ASSUME k - 1 <= j PROVE OverStart(e, y, k, e[j])
    BY <1>2
  <2>2. CASE k - 1 = j
    BY <1>3, <2>2
  <2>3. CASE k - 1 # j
    <3>1. k <= j /\ k - 1 <= j - 1
      BY <1>1, <2>1, <2>3
    <3>2. OverStart(e, y, k, e[j - 1])
      BY <1>5, <3>1
    <3>3. e[j - 1] \in Nat /\ e[j] \in Nat /\ e[j - 1] < e[j]
      BY <1>1, <1>2
    <3>4. e[j] \in e[j - 1]..e[j]
      BY <3>3
    <3> QED
      BY <3>1, <3>2, <3>4, OverStartStep
  <2> QED
    BY <2>2, <2>3
<1> HIDE DEF S
<1>6. \A j \in 0..L : j \in S
  BY <1>1, <1>4, <1>5, UpTo
<1>7. SUFFICES ASSUME NEW x \in Nat, e[k - 1] <= x, x <= e[L] PROVE OverStart(e, y, k, x)
  OBVIOUS
<1>8. PICK j \in k..L : e[j - 1] <= x /\ x <= e[j]
  <2>1. L \in 1..L /\ k <= L
    BY <1>1
  <2> QED
    BY <1>1, <1>7, <2>1, Located
<1>9. j \in 1..L /\ k <= j /\ j - 1 \in 0..L /\ k - 1 <= j - 1
  BY <1>1
<1>10. OverStart(e, y, k, e[j - 1])
  BY <1>6, <1>9 DEF S
<1>11. x \in e[j - 1]..e[j]
  <2>1. e[j - 1] \in Nat /\ e[j] \in Nat
    BY <1>1, <1>2, <1>9
  <2> QED
    BY <1>8, <2>1
<1> QED
  BY <1>9, <1>10, <1>11, OverStartStep

\* Up to the end of a chord, neither.
LEMMA AboveBefore ==
  ASSUME NEW L, NEW e, NEW N, NEW y, Hull(L, e, N, y), NEW k \in 1..L
  PROVE \A x \in Nat : x <= e[k] => OverEnd(e, y, k, x)
<1>1. L \in Nat /\ e \in [0..L -> Nat] /\ e[0] = 0 /\ \A j \in 0..L : e[j] \in Nat
  <2>1. L \in Nat /\ N \in Nat /\ e \in [0..L -> 0..N]
    BY DEF Hull
  <2>2. e[0] = 0 /\ \A j \in 0..L : e[j] \in Nat
    BY HullFacts
  <2> QED
    BY <2>1, <2>2
<1>2. \A j \in 1..L : j - 1 \in 0..L /\ j \in 0..L /\ e[j - 1] < e[j]
  BY HullFacts
<1>3. OverEnd(e, y, k, e[k])
  <2>1. /\ Rise(e, y, k) \in Int /\ Run(e, k) \in Int /\ y[e[k]] \in Int /\ e[k] \in Nat
    BY HullFacts
  <2>2. \A v \in Int, n \in Int, a \in Int, b \in Int : (b - b) * n <= v * (a - a)
    OBVIOUS
  <2> QED
    BY <2>1, <2>2 DEF OverEnd
<1> DEFINE S == {i \in 0..k : OverEnd(e, y, k, e[k - i])}
<1>4. k \in Nat /\ 0 \in S
  <2>1. k - 0 = k /\ 0 \in 0..k
    OBVIOUS
  <2> QED
    BY <1>3, <2>1
<1>5. ASSUME NEW i \in 1..k, i - 1 \in S PROVE i \in S
  <2> DEFINE j == k - (i - 1)
  <2>1. j \in 1..L /\ j <= k /\ j - 1 = k - i /\ i \in 0..k
    BY <1>1
  <2>2. OverEnd(e, y, k, e[j])
    BY <1>5
  <2> HIDE DEF j
  <2>3. e[j - 1] \in Nat /\ e[j] \in Nat /\ e[j - 1] < e[j]
    BY <1>1, <1>2, <2>1
  <2>4. e[j - 1] \in e[j - 1]..e[j]
    BY <2>3
  <2>5. OverEnd(e, y, k, e[j - 1])
    BY <2>1, <2>2, <2>4, OverEndStep
  <2> QED
    BY <2>1, <2>5
<1> HIDE DEF S
<1>6. \A i \in 0..k : i \in S
  BY <1>4, <1>5, UpTo
<1>7. SUFFICES ASSUME NEW x \in Nat, x <= e[k] PROVE OverEnd(e, y, k, x)
  OBVIOUS
<1>8. PICK j \in 1..k : e[j - 1] <= x /\ x <= e[j]
  <2>1. 1 \in 1..L /\ 1 <= k /\ 1 - 1 = 0
    BY <1>1
  <2>2. e[1 - 1] <= x
    BY <1>1, <2>1
  <2> QED
    BY <1>1, <1>7, <2>1, <2>2, Located
<1>9. j \in 1..L /\ j <= k /\ k - j \in 0..k /\ k - (k - j) = j
  BY <1>1
<1>10. OverEnd(e, y, k, e[j])
  <2>1. OverEnd(e, y, k, e[k - (k - j)])
    BY <1>6, <1>9 DEF S
  <2> QED
    BY <1>9, <2>1
<1>11. x \in e[j - 1]..e[j]
  <2>1. e[j - 1] \in Nat /\ e[j] \in Nat
    BY <1>1, <1>2, <1>9
  <2> QED
    BY <1>8, <2>1
<1> QED
  BY <1>9, <1>10, <1>11, OverEndStep

LEMMA CutsAreHull ==
  ASSUME NEW s, Input(s), NEW bs \in Seq(Blocks), NEW r \in 0..Len(s),
         NEW e \in [0..Len(bs) -> 0..r], Cuts(e, bs, s, r), InOrder(bs, Len(bs))
  PROVE Hull(Len(bs), e, Len(s), [m \in 0..Len(s) |-> Y(s, m)])
<1> DEFINE L == Len(bs)
           N == Len(s)
           y == [m \in 0..N |-> Y(s, m)]
<1>1. /\ L \in Nat /\ r \in Nat /\ e[0] = 0
      /\ \A j \in 0..L : e[j] \in Nat /\ e[j] \in 0..N
      /\ \A j \in 1..L : /\ j - 1 \in 0..L /\ j \in 0..L /\ e[j - 1] < e[j]
                         /\ Value(bs[j]) = <<Y(s, e[j]) - Y(s, e[j - 1]), e[j] - e[j - 1]>>
  BY Cutting
<1>2. N \in Nat /\ \A m \in 0..N : Y(s, m) \in Nat
  BY Counting
<1>3. \A j \in 1..L : IsBlock(bs[j], s, e[j - 1], e[j])
  BY DEF Cuts
<1>4. \A i \in 1..L, j \in 1..L : i <= j => Leq(Value(bs[i]), Value(bs[j]))
  BY InOrderAll
<1>5. e \in [0..L -> 0..N]
  OBVIOUS
<1> HIDE DEF L, N
<1>6. y \in [0..N -> Int] /\ \A m \in 0..N : y[m] = Y(s, m)
  BY <1>2
<1> HIDE DEF y
<1>7. \A j \in 0..L : y[e[j]] = Y(s, e[j])
  BY <1>1, <1>6
<1>8. ASSUME NEW j \in 1..L, NEW m \in e[j - 1]..e[j]
      PROVE Rise(e, y, j) * (m - e[j - 1]) <= (y[m] - y[e[j - 1]]) * Run(e, j)
  <2>1. e[j - 1] \in Nat /\ e[j] \in 0..N
    BY <1>1
  <2>2. m \in 0..N
    BY <1>2, <2>1
  <2>3. y[m] = Y(s, m) /\ y[e[j]] = Y(s, e[j]) /\ y[e[j - 1]] = Y(s, e[j - 1])
    BY <1>1, <1>6, <1>7, <2>2
  <2>4. (Y(s, e[j]) - Y(s, e[j - 1])) * (m - e[j - 1]) <= (Y(s, m) - Y(s, e[j - 1])) * (e[j] - e[j - 1])
    BY <1>3 DEF IsBlock
  <2> QED
    BY <2>3, <2>4 DEF Rise, Run
<1>9. ASSUME NEW i \in 1..L, NEW j \in 1..L, i <= j
      PROVE Rise(e, y, i) * Run(e, j) <= Rise(e, y, j) * Run(e, i)
  <2>1. Leq(Value(bs[i]), Value(bs[j]))
    BY <1>4, <1>9
  <2>2. Value(bs[i]) = <<Rise(e, y, i), Run(e, i)>> /\ Value(bs[j]) = <<Rise(e, y, j), Run(e, j)>>
    BY <1>1, <1>7 DEF Rise, Run
  <2> QED
    BY <2>1, <2>2 DEF Leq
<1> QED
  BY <1>1, <1>2, <1>5, <1>6, <1>8, <1>9 DEF Hull, L, N, y

\* The means of samples 1..m are the slopes between points of the graph.
LEMMA Means ==
  ASSUME Input(samples), NEW a \in 1..Len(samples), NEW c \in 1..Len(samples), a <= c
  PROVE /\ Mean(a, c) = <<Y(samples, c) - Y(samples, a - 1), c - a + 1>>
        /\ Mean(a, c) \in Fractions
<1>1. /\ SumFunctionOnSet(Yes(samples), a..c) = Y(samples, c) - Y(samples, a - 1)
      /\ Len(samples) \in Nat /\ \A m \in 0..Len(samples) : Y(samples, m) \in Nat
  BY Counting
<1>2. c \in 0..Len(samples) /\ a - 1 \in 0..Len(samples)
  BY <1>1
<1>3. Y(samples, c) - Y(samples, a - 1) \in Int /\ c - a + 1 \in Nat \ {0}
  BY <1>1, <1>2
<1> QED
  BY <1>1, <1>3 DEF Mean, Fractions

\* What lies over all means of one beginning and under all of one end is the min-max formula.
LEMMA RegressionIs ==
  ASSUME NEW m \in Nat, NEW i \in 1..m, NEW w \in Fractions,
         \A a \in 1..i, c \in i..m : Mean(a, c) \in Fractions,
         NEW lo \in 1..i, NEW hi \in i..m,
         \A c \in i..m : Leq(w, Mean(lo, c)), \A a \in 1..i : Leq(Mean(a, hi), w)
  PROVE Equal(w, Regression(i, m))
<1> DEFINE V(a) == {Mean(a, c) : c \in i..m}
           low == [a \in 1..i |-> Least(V(a))]
           W == {Least(V(a)) : a \in 1..i}
<1>1. ASSUME NEW a \in 1..i PROVE Least(V(a)) \in V(a) /\ \A v \in V(a) : Leq(Least(V(a)), v)
  <2> DEFINE n == m - i + 1
             q == [x \in 1..n |-> Mean(a, i + x - 1)]
  <2>1. n \in Nat \ {0} /\ \A x \in 1..n : i + x - 1 \in i..m
    OBVIOUS
  <2>2. \A c \in i..m : c - i + 1 \in 1..n /\ i + (c - i + 1) - 1 = c
    OBVIOUS
  <2> HIDE DEF n
  <2>3. q \in [1..n -> Fractions]
    BY <2>1
  <2>4. \A c \in i..m : Mean(a, c) = q[c - i + 1]
    BY <2>2
  <2>5. \A x \in 1..n : q[x] \in V(a)
    BY <2>1
  <2> HIDE DEF q
  <2>6. PICK x \in 1..n : \A z \in 1..n : Leq(q[x], q[z])
    BY <2>1, <2>3, Extremes
  <2>7. q[x] \in V(a) /\ \A v \in V(a) : Leq(q[x], v)
    <3>1. ASSUME NEW c \in i..m PROVE Leq(q[x], Mean(a, c))
      BY <2>2, <2>4, <2>6
    <3> QED
      BY <2>5, <3>1
  <2> HIDE DEF V
  <2> QED
    BY <2>7 DEF Least
<1>2. ASSUME NEW a \in 1..i PROVE low[a] \in Fractions /\ \A c \in i..m : Leq(low[a], Mean(a, c))
  <2>1. low[a] = Least(V(a))
    OBVIOUS
  <2>2. \A c \in i..m : Mean(a, c) \in V(a) /\ Mean(a, c) \in Fractions
    OBVIOUS
  <2>3. \A v \in V(a) : v \in Fractions
    OBVIOUS
  <2> HIDE DEF low, V
  <2> QED
    BY <1>1, <2>1, <2>2, <2>3
<1>3. low[lo] \in V(lo)
  BY <1>1
<1>4. Leq(w, low[lo])
  <2>1. \A v \in V(lo) : Leq(w, v)
    OBVIOUS
  <2> HIDE DEF V, low
  <2> QED
    BY <1>3, <2>1
<1>5. \A a \in 1..i : Leq(low[a], w)
  <2>1. ASSUME NEW a \in 1..i PROVE Leq(low[a], w)
    <3>1. Leq(low[a], Mean(a, hi)) /\ Leq(Mean(a, hi), w) /\ low[a] \in Fractions /\ Mean(a, hi) \in Fractions
      BY <1>2
    <3> HIDE DEF low
    <3> QED
      BY <3>1, LeqTransitive
  <2> QED
    BY <2>1
<1>6. low \in [1..i -> Fractions] /\ W = {low[a] : a \in 1..i}
  <2>1. \A a \in 1..i : low[a] \in Fractions
    BY <1>2
  <2> HIDE DEF V
  <2> QED
    BY <2>1
<1> HIDE DEF low, W, V
<1>7. PICK x \in 1..i : \A a \in 1..i : Leq(low[a], low[x])
  <2>1. i \in Nat \ {0}
    OBVIOUS
  <2> QED
    BY <1>6, <2>1, Extremes
<1>8. Greatest(W) \in W /\ \A v \in W : Leq(v, Greatest(W))
  <2>1. low[x] \in W /\ \A v \in W : Leq(v, low[x])
    BY <1>6, <1>7
  <2> QED
    BY <2>1 DEF Greatest
<1>9. PICK a \in 1..i : Greatest(W) = low[a]
  BY <1>6, <1>8
<1>10. Leq(Greatest(W), w)
  BY <1>5, <1>9
<1>11. Leq(w, Greatest(W))
  <2>1. Leq(low[lo], Greatest(W)) /\ low[lo] \in Fractions /\ Greatest(W) \in Fractions
    BY <1>2, <1>6, <1>8, <1>9
  <2> QED
    BY <1>4, <2>1, LeqTransitive
<1>12. Regression(i, m) = Greatest(W)
  BY DEF Regression, W, V
<1> QED
  BY <1>10, <1>11, <1>12 DEF Equal

LEMMA BlockIsRegression ==
  ASSUME Typed, NEW e \in [0..Len(blocks) -> 0..read], Cuts(e, blocks, samples, read),
         InOrder(blocks, Len(blocks)), NEW k \in 1..Len(blocks), NEW i \in e[k - 1] + 1..e[k]
  PROVE Equal(Value(blocks[k]), Regression(i, read))
<1> DEFINE L == Len(blocks)
           N == Len(samples)
           y == [m \in 0..N |-> Y(samples, m)]
           w == Value(blocks[k])
           lo == e[k - 1] + 1
           hi == e[k]
<1>1. Input(samples) /\ blocks \in Seq(Blocks) /\ read \in 0..N
  BY DEF Typed
<1>2. /\ L \in Nat /\ read \in Nat /\ e[L] = read /\ e[k] \in Nat /\ e[k] <= read /\ e[k - 1] \in Nat
      /\ e[k - 1] < e[k] /\ w = <<Y(samples, e[k]) - Y(samples, e[k - 1]), e[k] - e[k - 1]>>
      /\ w \in Fractions /\ e[k] \in 0..N /\ e[k - 1] \in 0..N
  <2>1. /\ L \in Nat /\ read \in Nat /\ e[L] = read
        /\ \A j \in 0..L : e[j] \in Nat /\ e[j] <= read /\ e[j] \in 0..N
        /\ \A j \in 1..L : /\ j - 1 \in 0..L /\ j \in 0..L /\ e[j - 1] < e[j]
                           /\ Value(blocks[j]) = <<Y(samples, e[j]) - Y(samples, e[j - 1]), e[j] - e[j - 1]>>
                           /\ Value(blocks[j]) \in Fractions
    BY <1>1, Cutting
  <2>2. k \in 1..L
    OBVIOUS
  <2> HIDE DEF L, N
  <2> QED
    BY <2>1, <2>2
<1>3. Hull(L, e, N, y)
  BY <1>1, CutsAreHull
<1>4. N \in Nat /\ \A m \in 0..N : y[m] = Y(samples, m)
  BY <1>1, Counting
<1>5. w = <<Rise(e, y, k), Run(e, k)>>
  BY <1>2, <1>4 DEF Rise, Run
<1> HIDE DEF y, w, L
<1> HIDE DEF N
<1>6. read <= N /\ i \in 1..read /\ lo \in 1..i /\ hi \in i..read /\ i \in Nat /\ i <= read
  BY <1>1, <1>2, <1>4
<1>7. ASSUME NEW a \in 1..i, NEW c \in i..read
      PROVE /\ Mean(a, c) = <<Y(samples, c) - Y(samples, a - 1), c - a + 1>> /\ Mean(a, c) \in Fractions
            /\ a \in Nat /\ c \in Nat /\ a - 1 \in 0..N /\ c \in 0..N
  <2> HIDE DEF lo, hi
  <2>1. a \in 1..N /\ c \in 1..N /\ a <= c
    BY <1>2, <1>4, <1>6
  <2>2. a \in Nat /\ c \in Nat /\ a - 1 \in 0..N /\ c \in 0..N
    BY <1>4, <2>1
  <2> QED
    BY <1>1, <2>1, <2>2, Means DEF N
<1>8. ASSUME NEW c \in i..read PROVE Leq(w, Mean(lo, c))
  <2>1. c \in Nat /\ e[k - 1] <= c /\ c <= e[L] /\ c \in 0..N
    BY <1>2, <1>4, <1>6
  <2>2. OverStart(e, y, k, c)
    BY <1>3, <2>1, AboveOnwards DEF L
  <2>3. Rise(e, y, k) * (c - e[k - 1]) <= (Y(samples, c) - Y(samples, e[k - 1])) * Run(e, k)
    BY <1>2, <1>4, <2>1, <2>2 DEF OverStart
  <2>4. lo - 1 = e[k - 1] /\ c - lo + 1 = c - e[k - 1]
    <3>1. \A p \in Nat, q \in Nat : (p + 1) - 1 = p /\ q - (p + 1) + 1 = q - p
      OBVIOUS
    <3> QED
      BY <1>2, <2>1, <3>1
  <2>5. Mean(lo, c) = <<Y(samples, c) - Y(samples, e[k - 1]), c - e[k - 1]>>
    BY <1>6, <1>7, <2>4
  <2> HIDE DEF lo
  <2> QED
    BY <1>5, <2>3, <2>5 DEF Leq
<1>9. ASSUME NEW a \in 1..i PROVE Leq(Mean(a, hi), w)
  <2>1. a - 1 \in Nat /\ a - 1 <= e[k] /\ a - 1 \in 0..N /\ a \in Nat
    <3>1. a \in Nat /\ 1 <= a /\ a <= i /\ i <= e[k]
      BY <1>2, <1>6
    <3> HIDE DEF lo, hi
    <3> QED
      BY <1>2, <1>4, <1>6, <3>1
  <2>2. OverEnd(e, y, k, a - 1)
    BY <1>3, <2>1, AboveBefore DEF L
  <2>3. (Y(samples, e[k]) - Y(samples, a - 1)) * Run(e, k) <= Rise(e, y, k) * (e[k] - (a - 1))
    BY <1>2, <1>4, <2>1, <2>2 DEF OverEnd
  <2>4. hi - a + 1 = e[k] - (a - 1)
    BY <1>2, <2>1
  <2>5. Mean(a, hi) = <<Y(samples, e[k]) - Y(samples, a - 1), e[k] - (a - 1)>>
    BY <1>6, <1>7, <2>4
  <2> HIDE DEF hi
  <2> QED
    BY <1>5, <2>3, <2>5 DEF Leq
<1> HIDE DEF lo, hi
<1>10. Equal(w, Regression(i, read))
  BY <1>2, <1>6, <1>7, <1>8, <1>9, RegressionIs
<1> QED
  BY <1>10 DEF w

(* The pooled blocks are the isotonic regression: for any samples, every   *)
(* block has the value that the min-max formula gives for each of its      *)
(* samples (isotonic.py:25-44).                                            *)
THEOREM FitIsRegression == Spec => []BlocksAreRegression
<1>1. FitInv => BlocksAreRegression
  <2> SUFFICES ASSUME FitInv, ~Violation
               PROVE /\ EndOf(Len(blocks)) = read
                     /\ \A k \in DOMAIN blocks :
                          /\ samples[EndOf(k - 1) + 1].level = blocks[k].first
                          /\ samples[EndOf(k)].level = blocks[k].last
                          /\ \A i \in EndOf(k - 1) + 1..EndOf(k) :
                               Equal(Value(blocks[k]), Regression(i, read))
    BY DEF BlocksAreRegression
  <2>1. Typed /\ Ordered /\ blocks \in Seq(Blocks)
    BY DEF FitInv, Typed
  <2>2. PICK e \in [0..Len(blocks) -> 0..read] : Cuts(e, blocks, samples, read)
    BY DEF FitInv, Chords
  <2>3. InOrder(blocks, Len(blocks))
    BY <2>1, CalmIsOrdered
  <2>4. \A k \in 0..Len(blocks) : EndOf(k) = e[k]
    BY <2>1, <2>2, EndsAre
  <2>5. Len(blocks) \in Nat /\ DOMAIN blocks = 1..Len(blocks)
    BY <2>1
  <2>6. EndOf(Len(blocks)) = read
    BY <2>2, <2>4, <2>5 DEF Cuts
  <2>7. ASSUME NEW k \in 1..Len(blocks)
        PROVE /\ samples[EndOf(k - 1) + 1].level = blocks[k].first
              /\ samples[EndOf(k)].level = blocks[k].last
              /\ \A i \in EndOf(k - 1) + 1..EndOf(k) : Equal(Value(blocks[k]), Regression(i, read))
    <3>1. EndOf(k - 1) = e[k - 1] /\ EndOf(k) = e[k]
      BY <2>4, <2>5
    <3>2. IsBlock(blocks[k], samples, e[k - 1], e[k])
      BY <2>2 DEF Cuts
    <3>3. samples[e[k - 1] + 1].level = blocks[k].first /\ samples[e[k]].level = blocks[k].last
      BY <3>2 DEF IsBlock
    <3>4. \A i \in e[k - 1] + 1..e[k] : Equal(Value(blocks[k]), Regression(i, read))
      BY <2>1, <2>2, <2>3, BlockIsRegression
    <3> QED
      BY <3>1, <3>3, <3>4
  <2> QED
    BY <2>5, <2>6, <2>7
<1> QED
  BY <1>1, FitHolds, PTL

-----------------------------------------------------------------------------
(* The steps *)

LEMMA MinMax ==
  ASSUME NEW n \in Nat, NEW S \in SUBSET (1..n), S # {}
  PROVE /\ Min(S) \in S /\ \A x \in S : Min(S) <= x
        /\ Max(S) \in S /\ \A x \in S : Max(S) >= x
<1>1. PICK m \in S : \A x \in S : m <= x
  <2>1. S \in SUBSET Nat
    OBVIOUS
  <2> QED
    BY <2>1, LeastNumber, Zenon
<1> DEFINE T == {n - x : x \in S}
<1>2. PICK t \in T : \A u \in T : t <= u
  <2>1. T \in SUBSET Nat /\ T # {}
    OBVIOUS
  <2> HIDE DEF T
  <2> QED
    BY <2>1, LeastNumber, Zenon
<1>3. PICK g \in S : t = n - g
  OBVIOUS
<1>4. \A x \in S : g >= x
  <2>1. ASSUME NEW x \in S PROVE g >= x
    <3>1. n - g <= n - x
      BY <1>2, <1>3
    <3> QED
      BY <3>1
  <2> QED
    BY <2>1
<1> HIDE DEF T
<1>5. Min(S) \in S /\ \A x \in S : Min(S) <= x
  BY <1>1 DEF Min
<1>6. Max(S) \in S /\ \A x \in S : Max(S) >= x
  BY <1>4 DEF Max
<1> QED
  BY <1>5, <1>6

\* Later samples have no lower level, and each adds at most one yes.
LEMMA Rising ==
  ASSUME NEW s, Input(s)
  PROVE /\ \A i \in 1..Len(s), j \in 1..Len(s) : i <= j => s[i].level <= s[j].level
        /\ \A i \in 0..Len(s), j \in 0..Len(s) : i <= j => Y(s, i) <= Y(s, j) /\ Y(s, j) - Y(s, i) <= j - i
<1> DEFINE N == Len(s)
<1>1. /\ N \in Nat /\ \A i \in 1..N : s[i] \in Samples
      /\ \A m \in 1..N : Y(s, m) = Y(s, m - 1) + s[m].yes
      /\ \A m \in 0..N : Y(s, m) \in Nat
  BY Counting
<1>2. \A i \in 1..N - 1 : s[i].level <= s[i + 1].level
  BY DEF Input
<1> HIDE DEF N
<1>3. \A i \in 1..N : s[i].level \in Nat /\ s[i].yes \in Nat /\ s[i].yes <= 1
  BY <1>1, BoundsAssumption DEF Samples
<1>4. ASSUME NEW i \in 1..N PROVE \A j \in 0..N : i <= j => s[i].level <= s[j].level
  <2> DEFINE S == {j \in 0..N : i <= j => s[i].level <= s[j].level}
  <2>1. 0 \in S
    BY <1>1
  <2>2. ASSUME NEW j \in 1..N, j - 1 \in S PROVE j \in S
    <3>1. CASE i <= j - 1
      <4>1. j - 1 \in 1..N - 1 /\ j - 1 \in 1..N /\ (j - 1) + 1 = j /\ j \in 0..N
        BY <1>1, <3>1
      <4>2. s[i].level <= s[j - 1].level /\ s[j - 1].level <= s[j].level
        BY <1>2, <2>2, <3>1, <4>1
      <4>3. s[i].level \in Nat /\ s[j - 1].level \in Nat /\ s[j].level \in Nat
        BY <1>3, <4>1
      <4> QED
        BY <4>1, <4>2, <4>3
    <3>2. CASE i = j
      <4>1. s[i].level \in Nat /\ j \in 0..N
        BY <1>1, <1>3
      <4> QED
        BY <3>2, <4>1
    <3>3. CASE ~(i <= j)
      BY <1>1, <3>3
    <3>4. i <= j - 1 \/ i = j \/ ~(i <= j)
      BY <1>1
    <3> QED
      BY <3>1, <3>2, <3>3, <3>4
  <2> HIDE DEF S
  <2>3. \A j \in 0..N : j \in S
    BY <1>1, <2>1, <2>2, UpTo
  <2> QED
    BY <2>3 DEF S
<1>5. ASSUME NEW i \in 0..N PROVE \A j \in 0..N : i <= j => Y(s, i) <= Y(s, j) /\ Y(s, j) - Y(s, i) <= j - i
  <2> DEFINE S == {j \in 0..N : i <= j => Y(s, i) <= Y(s, j) /\ Y(s, j) - Y(s, i) <= j - i}
  <2>1. ASSUME NEW j \in 0..N, i = j PROVE j \in S
    <3>1. Y(s, j) \in Nat /\ j \in Nat
      BY <1>1
    <3> QED
      BY <2>1, <3>1
  <2>2. 0 \in S
    <3>1. 0 \in 0..N /\ (i <= 0 => i = 0)
      BY <1>1
    <3>2. CASE i = 0
      BY <2>1, <3>1, <3>2
    <3> QED
      BY <3>1, <3>2
  <2>3. ASSUME NEW j \in 1..N, j - 1 \in S PROVE j \in S
    <3>1. CASE i <= j - 1
      <4>1. j - 1 \in 0..N /\ j \in 0..N /\ j \in Nat /\ i \in Nat
        BY <1>1
      <4>2. Y(s, i) <= Y(s, j - 1) /\ Y(s, j - 1) - Y(s, i) <= (j - 1) - i
        BY <2>3, <3>1
      <4>3. /\ Y(s, i) \in Nat /\ Y(s, j - 1) \in Nat /\ Y(s, j) = Y(s, j - 1) + s[j].yes
            /\ s[j].yes \in Nat /\ s[j].yes <= 1
        BY <1>1, <1>3, <4>1
      <4>4. Y(s, i) <= Y(s, j) /\ Y(s, j) - Y(s, i) <= j - i
        BY <4>1, <4>2, <4>3
      <4> QED
        BY <4>1, <4>4
    <3>2. CASE i = j
      <4>1. j \in 0..N
        BY <1>1
      <4> QED
        BY <2>1, <3>2, <4>1
    <3>3. CASE ~(i <= j)
      BY <1>1, <3>3
    <3>4. i <= j - 1 \/ i = j \/ ~(i <= j)
      BY <1>1
    <3> QED
      BY <3>1, <3>2, <3>3, <3>4
  <2> HIDE DEF S
  <2>4. \A j \in 0..N : j \in S
    BY <1>1, <2>2, <2>3, UpTo
  <2> QED
    BY <2>4 DEF S
<1>6. \A j \in 1..N : j \in 0..N
  BY <1>1
<1> QED
  BY <1>4, <1>5, <1>6 DEF N

\* The ends of the blocks ascend.
LEMMA EndsAscend ==
  ASSUME NEW L \in Nat, NEW e, \A k \in 0..L : e[k] \in Nat, \A k \in 1..L : e[k - 1] < e[k]
  PROVE \A i \in 0..L, j \in 0..L : i <= j => e[i] <= e[j]
<1>1. ASSUME NEW i \in 0..L PROVE \A j \in 0..L : i <= j => e[i] <= e[j]
  <2> DEFINE S == {j \in 0..L : i <= j => e[i] <= e[j]}
  <2>1. 0 \in S
    <3>1. 0 \in 0..L /\ (i <= 0 => i = 0) /\ e[0] \in Nat
      OBVIOUS
    <3> QED
      BY <3>1
  <2>2. ASSUME NEW j \in 1..L, j - 1 \in S PROVE j \in S
    <3>1. j \in 0..L /\ j - 1 \in 0..L
      OBVIOUS
    <3>2. e[j - 1] < e[j] /\ e[j - 1] \in Nat /\ e[j] \in Nat /\ e[i] \in Nat
      BY <3>1
    <3>3. i <= j - 1 => e[i] <= e[j - 1]
      BY <2>2
    <3>4. i <= j => i <= j - 1 \/ i = j
      OBVIOUS
    <3>5. i <= j => e[i] <= e[j]
      BY <3>2, <3>3, <3>4
    <3> QED
      BY <3>1, <3>5
  <2> HIDE DEF S
  <2>3. \A j \in 0..L : j \in S
    BY <2>1, <2>2, UpTo
  <2> QED
    BY <2>3 DEF S
<1> QED
  BY <1>1

\* Each block begins and ends at levels not above those of the next ones, and no block is more than all yes.
Leveled(bs) ==
  /\ \A k \in DOMAIN bs : bs[k].first <= bs[k].last /\ bs[k].yes <= bs[k].n
  /\ \A j \in DOMAIN bs, k \in DOMAIN bs : j < k => bs[j].last <= bs[k].first

LEMMA CutsAreLeveled ==
  ASSUME NEW s, Input(s), NEW bs \in Seq(Blocks), NEW r \in 0..Len(s),
         NEW e \in [0..Len(bs) -> 0..r], Cuts(e, bs, s, r)
  PROVE Leveled(bs)
<1> DEFINE L == Len(bs)
<1>1. /\ L \in Nat
      /\ \A k \in 0..L : e[k] \in Nat /\ e[k] \in 0..Len(s) /\ Y(s, e[k]) \in Nat
      /\ \A k \in 1..L : k - 1 \in 0..L /\ k \in 0..L /\ e[k - 1] < e[k]
  BY Cutting
<1>2. \A k \in 1..L : IsBlock(bs[k], s, e[k - 1], e[k])
  BY DEF Cuts
<1>3. Len(s) \in Nat
  BY Counting
<1>4. DOMAIN bs = 1..L
  OBVIOUS
<1> HIDE DEF L
<1>5. ASSUME NEW k \in 1..L
      PROVE /\ bs[k].first = s[e[k - 1] + 1].level /\ bs[k].last = s[e[k]].level
            /\ bs[k].yes = Y(s, e[k]) - Y(s, e[k - 1]) /\ bs[k].n = e[k] - e[k - 1]
            /\ e[k - 1] + 1 \in 1..Len(s) /\ e[k] \in 1..Len(s) /\ e[k - 1] + 1 <= e[k] /\ e[k - 1] <= e[k]
  <2>1. IsBlock(bs[k], s, e[k - 1], e[k])
    BY <1>2
  <2>2. e[k - 1] \in Nat /\ e[k] \in 0..Len(s) /\ e[k] \in Nat /\ e[k - 1] < e[k]
    BY <1>1
  <2>3. e[k - 1] + 1 \in 1..Len(s) /\ e[k] \in 1..Len(s) /\ e[k - 1] + 1 <= e[k] /\ e[k - 1] <= e[k]
    BY <1>3, <2>2
  <2> QED
    BY <2>1, <2>3 DEF IsBlock
<1>6. ASSUME NEW k \in 1..L PROVE bs[k].first <= bs[k].last /\ bs[k].yes <= bs[k].n
  <2>1. s[e[k - 1] + 1].level <= s[e[k]].level
    BY <1>5, Rising
  <2>2. Y(s, e[k]) - Y(s, e[k - 1]) <= e[k] - e[k - 1]
    BY <1>1, <1>5, Rising
  <2> QED
    BY <1>5, <2>1, <2>2
<1>7. ASSUME NEW j \in 1..L, NEW k \in 1..L, j < k PROVE bs[j].last <= bs[k].first
  <2>1. j \in 0..L /\ k - 1 \in 0..L /\ j <= k - 1
    BY <1>1, <1>7
  <2>2. e[j] <= e[k - 1]
    BY <1>1, <2>1, EndsAscend
  <2>3. e[j] \in Nat /\ e[k - 1] \in Nat
    BY <1>1, <2>1
  <2>4. e[j] <= e[k - 1] + 1
    BY <2>2, <2>3
  <2>5. s[e[j]].level <= s[e[k - 1] + 1].level
    BY <1>5, <2>4, Rising
  <2> QED
    BY <1>5, <2>5
<1> QED
  BY <1>4, <1>6, <1>7 DEF Leveled

(* The blocks ascend, and none has more yes answers than samples. fit puts *)
(* the steps into a list in the order in which blocks touch their levels,  *)
(* and apply searches this list as if it were sorted (isotonic.py:50-71):  *)
(* it is, so that the steps can be a function of the level here.           *)
THEOREM BlocksAscend == Spec => []Leveled(blocks)
<1>1. FitInv => Leveled(blocks)
  <2> SUFFICES ASSUME FitInv PROVE Leveled(blocks)
    OBVIOUS
  <2>1. Input(samples) /\ blocks \in Seq(Blocks) /\ read \in 0..Len(samples)
    BY DEF FitInv, Typed
  <2>2. PICK e \in [0..Len(blocks) -> 0..read] : Cuts(e, blocks, samples, read)
    BY DEF FitInv, Chords
  <2> QED
    BY <2>1, <2>2, CutsAreLeveled
<1> QED
  BY <1>1, FitHolds, PTL

\* What the steps are made of, when all samples have been read.
LEMMA FinishedBlocks ==
  ASSUME FitInv, pc = "done"
  PROVE /\ Len(blocks) \in Nat \ {0} /\ DOMAIN blocks = 1..Len(blocks)
        /\ Leveled(blocks)
        /\ \A k \in 1..Len(blocks) : blocks[k] \in Blocks
        /\ \A j \in 1..Len(blocks), k \in 1..Len(blocks) :
             j <= k => blocks[j].yes * blocks[k].n <= blocks[k].yes * blocks[j].n
        /\ Yes(blocks) \in [1..Len(blocks) -> Nat] /\ Sizes \in [1..Len(blocks) -> Nat]
        /\ \A k \in 1..Len(blocks) : Yes(blocks)[k] = blocks[k].yes /\ Sizes[k] = blocks[k].n
<1> DEFINE L == Len(blocks)
<1>1. Typed /\ Ordered /\ blocks \in Seq(Blocks) /\ Input(samples) /\ read = Len(samples) /\ ~Violation
  BY DEF FitInv, Typed, Finished
<1>2. PICK e \in [0..L -> 0..read] : Cuts(e, blocks, samples, read)
  BY DEF FitInv, Chords
<1>3. Len(samples) \in Nat \ {0} /\ read \in 0..Len(samples)
  BY <1>1, Counting
<1>4. L \in Nat /\ e[0] = 0 /\ e[L] = read
  BY <1>1, <1>2 DEF Cuts
<1>5. L # 0
  BY <1>1, <1>3, <1>4
<1>6. Leveled(blocks)
  BY <1>1, <1>2, <1>3, CutsAreLeveled
<1>7. DOMAIN blocks = 1..L
  BY <1>1
<1>8. ASSUME NEW k \in 1..L PROVE blocks[k] \in Blocks
  BY <1>1
<1>9. InOrder(blocks, L)
  BY <1>1, CalmIsOrdered
<1>10. ASSUME NEW j \in 1..L, NEW k \in 1..L, j <= k
       PROVE blocks[j].yes * blocks[k].n <= blocks[k].yes * blocks[j].n
  <2>1. Leq(Value(blocks[j]), Value(blocks[k]))
    BY <1>1, <1>9, <1>10, InOrderAll
  <2> QED
    BY <2>1 DEF Leq, Value
<1> HIDE DEF L
<1>11. \A k \in 1..L : blocks[k].yes \in Nat /\ blocks[k].n \in Nat
  <2>1. ASSUME NEW k \in 1..L PROVE blocks[k].yes \in Nat /\ blocks[k].n \in Nat
    <3>1. blocks[k] \in Blocks
      BY <1>8
    <3> QED
      BY <3>1 DEF Blocks
  <2> QED
    BY <2>1
<1>12. /\ Yes(blocks) \in [1..L -> Nat] /\ Sizes \in [1..L -> Nat]
       /\ \A k \in 1..L : Yes(blocks)[k] = blocks[k].yes /\ Sizes[k] = blocks[k].n
  BY <1>7, <1>11 DEF Yes, Sizes
<1> QED
  BY <1>4, <1>5, <1>6, <1>7, <1>8, <1>10, <1>12 DEF L

\* A level has the yes answers and the number of the blocks that touch it.
LEMMA StepsAre ==
  ASSUME FitInv, pc = "done"
  PROVE /\ DOMAIN steps = {l \in 1..Levels : Touching(l) # {}} /\ DOMAIN steps # {}
        /\ \A l \in DOMAIN steps :
             /\ Touching(l) \in SUBSET (1..Len(blocks)) /\ Touching(l) # {}
             /\ steps[l] = <<SumFunctionOnSet(Yes(blocks), Touching(l)), SumFunctionOnSet(Sizes, Touching(l))>>
             /\ steps[l] \in Fractions
<1> DEFINE L == Len(blocks)
<1>1. /\ L \in Nat \ {0} /\ DOMAIN blocks = 1..L
      /\ Yes(blocks) \in [1..L -> Nat] /\ Sizes \in [1..L -> Nat]
      /\ \A k \in 1..L : blocks[k] \in Blocks /\ Sizes[k] = blocks[k].n
  BY FinishedBlocks
<1>2. steps = [level \in {l \in 1..Levels : Touching(l) # {}} |-> StepAt(level)]
  BY DEF FitInv, Finished
<1> HIDE DEF L
<1>3. DOMAIN steps = {l \in 1..Levels : Touching(l) # {}}
  BY <1>2
<1>4. DOMAIN steps # {}
  <2>1. 1 \in 1..L
    BY <1>1
  <2>2. blocks[1] \in Blocks
    BY <1>1, <2>1
  <2>3. blocks[1].first \in 1..Levels
    BY <2>2 DEF Blocks
  <2>4. 1 \in Touching(blocks[1].first)
    BY <1>1, <2>1 DEF Touching
  <2> QED
    BY <1>3, <2>3, <2>4
<1>5. ASSUME NEW l \in DOMAIN steps
      PROVE /\ Touching(l) \in SUBSET (1..L) /\ Touching(l) # {}
            /\ steps[l] = <<SumFunctionOnSet(Yes(blocks), Touching(l)), SumFunctionOnSet(Sizes, Touching(l))>>
            /\ steps[l] \in Fractions
  <2>1. Touching(l) \in SUBSET (1..L) /\ Touching(l) # {}
    BY <1>1, <1>3 DEF Touching
  <2>2. steps[l] = <<SumFunctionOnSet(Yes(blocks), Touching(l)), SumFunctionOnSet(Sizes, Touching(l))>>
    BY <1>2, <1>3 DEF StepAt
  <2>3. PICK k \in 1..L : k \in Touching(l)
    BY <2>1
  <2>4. blocks[k] \in Blocks /\ Sizes[k] = blocks[k].n
    BY <1>1
  <2>5. Sizes[k] \in Nat \ {0}
    BY <2>4 DEF Blocks
  <2>6. SumFunctionOnSet(Sizes, Touching(l)) \in Nat /\ Sizes[k] <= SumFunctionOnSet(Sizes, Touching(l))
    BY <1>1, <2>1, <2>3, SumAtLeast
  <2>7. SumFunctionOnSet(Yes(blocks), Touching(l)) \in Nat
    BY <1>1, <2>1, SumAtLeast
  <2>8. SumFunctionOnSet(Sizes, Touching(l)) \in Nat \ {0}
    BY <2>5, <2>6
  <2> QED
    BY <2>1, <2>2, <2>7, <2>8 DEF Fractions
<1> QED
  BY <1>3, <1>4, <1>5 DEF L

\* The steps lie between 0 and 1.
LEMMA StepsAreProbabilities ==
  ASSUME FitInv, pc = "done", NEW l \in DOMAIN steps
  PROVE Leq(<<0, 1>>, steps[l]) /\ Leq(steps[l], <<1, 1>>)
<1> DEFINE L == Len(blocks)
           T == Touching(l)
           f == Yes(blocks)
           g == Sizes
<1>1. /\ L \in Nat /\ DOMAIN blocks = 1..L /\ f \in [1..L -> Nat] /\ g \in [1..L -> Nat]
      /\ f \in [1..L -> Int] /\ g \in [1..L -> Int]
      /\ \A k \in 1..L : f[k] = blocks[k].yes /\ g[k] = blocks[k].n /\ blocks[k].yes <= blocks[k].n
  BY FinishedBlocks DEF Leveled
<1>2. T \in SUBSET (1..L) /\ steps[l] = <<SumFunctionOnSet(f, T), SumFunctionOnSet(g, T)>>
  BY StepsAre
<1> HIDE DEF L, T, f, g
<1>3. SumFunctionOnSet(f, T) \in Nat /\ SumFunctionOnSet(g, T) \in Nat
  BY <1>1, <1>2, SumAtLeast
<1>4. SumFunctionOnSet(f, T) <= SumFunctionOnSet(g, T)
  <2> DEFINE p == 1
  <2>1. \A k \in T : f[k] * p <= g[k] * p
    <3>1. ASSUME NEW k \in T PROVE f[k] * p <= g[k] * p
      <4>1. k \in 1..L
        BY <1>2
      <4>2. f[k] \in Nat /\ g[k] \in Nat /\ f[k] <= g[k]
        BY <1>1, <4>1
      <4> QED
        BY <4>2
    <3> QED
      BY <3>1
  <2>2. p \in Int
    OBVIOUS
  <2> HIDE DEF p
  <2>3. SumFunctionOnSet(f, T) * p <= SumFunctionOnSet(g, T) * p
    BY <1>1, <1>2, <2>1, <2>2, SumsRelated
  <2> QED
    BY <1>3, <2>3 DEF p
<1> QED
  BY <1>2, <1>3, <1>4 DEF Leq

\* A higher level has no lower step.
LEMMA StepsRise ==
  ASSUME FitInv, pc = "done", NEW l \in DOMAIN steps, NEW h \in DOMAIN steps, l <= h
  PROVE Leq(steps[l], steps[h])
<1> DEFINE L == Len(blocks)
           T == Touching(l)
           U == Touching(h)
           f == Yes(blocks)
           g == Sizes
           A == SumFunctionOnSet(f, T)
           B == SumFunctionOnSet(g, T)
           C == SumFunctionOnSet(f, U)
           D == SumFunctionOnSet(g, U)
<1>1. /\ L \in Nat /\ DOMAIN blocks = 1..L /\ f \in [1..L -> Int] /\ g \in [1..L -> Int]
      /\ \A k \in 1..L : f[k] = blocks[k].yes /\ g[k] = blocks[k].n /\ blocks[k] \in Blocks
      /\ \A j \in 1..L, k \in 1..L : j <= k => blocks[j].yes * blocks[k].n <= blocks[k].yes * blocks[j].n
      /\ Leveled(blocks)
  BY FinishedBlocks
<1>2. /\ T \in SUBSET (1..L) /\ U \in SUBSET (1..L) /\ steps[l] = <<A, B>> /\ steps[h] = <<C, D>>
      /\ steps[l] \in Fractions /\ steps[h] \in Fractions /\ l \in 1..Levels /\ h \in 1..Levels
  BY StepsAre
<1>3. A \in Int /\ B \in Int /\ C \in Int /\ D \in Int
  BY <1>2 DEF Fractions
<1>4. CASE l = h
  BY <1>2, <1>4, LeqTotal
<1>5. CASE l < h
  <2>1. ASSUME NEW j \in T, NEW k \in U PROVE f[j] * g[k] <= f[k] * g[j]
    <3>1. j \in 1..L /\ k \in 1..L
      BY <1>2
    <3>2. blocks[j] \in Blocks /\ blocks[k] \in Blocks
      BY <1>1, <3>1
    <3>3. /\ blocks[j].first \in Nat /\ blocks[j].last \in Nat /\ blocks[k].first \in Nat /\ blocks[k].last \in Nat
          /\ l \in Nat /\ h \in Nat
      <4>1. \A x \in 1..Levels : x \in Nat
        BY BoundsAssumption
      <4>2. /\ blocks[j].first \in 1..Levels /\ blocks[j].last \in 1..Levels
            /\ blocks[k].first \in 1..Levels /\ blocks[k].last \in 1..Levels
        BY <3>2 DEF Blocks
      <4> QED
        BY <1>2, <4>1, <4>2
    <3>4. l \in {blocks[j].first, blocks[j].last} /\ h \in {blocks[k].first, blocks[k].last}
      BY DEF Touching
    <3>5. blocks[k].first <= blocks[k].last /\ blocks[j].first <= blocks[j].last
      BY <1>1, <3>1 DEF Leveled
    <3>6. k < j => blocks[k].last <= blocks[j].first
      BY <1>1, <3>1 DEF Leveled
    <3>7. ~(k < j)
      BY <1>5, <3>3, <3>4, <3>5, <3>6
    <3>8. j <= k
      BY <1>1, <3>1, <3>7
    <3> QED
      BY <1>1, <3>1, <3>8
  <2> HIDE DEF T, U, L, f, g
  <2>2. ASSUME NEW j \in T PROVE f[j] * D <= g[j] * C
    <3> DEFINE p == f[j]
               q == g[j]
    <3>1. p \in Int /\ q \in Int
      BY <1>1, <1>2
    <3>2. \A k \in U : g[k] * p <= f[k] * q
      <4>1. ASSUME NEW k \in U PROVE g[k] * p <= f[k] * q
        <5>1. g[k] \in Int /\ f[k] \in Int
          BY <1>1, <1>2
        <5>2. p * g[k] <= f[k] * q
          BY <2>1
        <5>3. p * g[k] = g[k] * p
          BY <3>1, <5>1
        <5> QED
          BY <5>2, <5>3
      <4> QED
        BY <4>1
    <3> HIDE DEF p, q
    <3>3. SumFunctionOnSet(g, U) * p <= SumFunctionOnSet(f, U) * q
      BY <1>1, <1>2, <3>1, <3>2, SumsRelated
    <3> HIDE DEF C, D
    <3>4. D * p <= C * q
      BY <3>3 DEF C, D
    <3>5. D * p = p * D /\ C * q = q * C
      BY <1>3, <3>1
    <3> QED
      BY <3>4, <3>5 DEF p, q
  <2> HIDE DEF C, D
  <2>3. SumFunctionOnSet(f, T) * D <= SumFunctionOnSet(g, T) * C
    BY <1>1, <1>2, <1>3, <2>2, SumsRelated
  <2>4. A * D <= B * C
    BY <2>3
  <2> HIDE DEF A, B
  <2>5. A * D <= C * B
    BY <1>3, <2>4
  <2> QED
    BY <1>2, <2>5 DEF Leq
<1>6. l = h \/ l < h
  BY <1>2, BoundsAssumption
<1> QED
  BY <1>4, <1>5, <1>6

-----------------------------------------------------------------------------
(* apply *)

\* A midpoint lies between its ends.
LEMMA MidpointIsBetween ==
  ASSUME NEW v \in Fractions, NEW w \in Fractions, Leq(v, w)
  PROVE Midpoint(v, w) \in Fractions /\ Leq(v, Midpoint(v, w)) /\ Leq(Midpoint(v, w), w)
<1> DEFINE a == v[1]
           b == v[2]
           c == w[1]
           d == w[2]
<1>1. a \in Int /\ b \in Nat \ {0} /\ c \in Int /\ d \in Nat \ {0} /\ a * d <= c * b
  BY DEF Fractions, Leq
<1>2. Midpoint(v, w) = <<a * d + c * b, 2 * b * d>>
  BY DEF Midpoint
<1> HIDE DEF a, b, c, d
<1>3. a * d + c * b \in Int /\ 2 * b * d \in Nat \ {0} /\ a * d \in Int /\ c * b \in Int
  BY <1>1
<1>4. a * (2 * b * d) <= (a * d + c * b) * b
  <2>1. (a * d + a * d) * b <= (a * d + c * b) * b
    BY <1>1, <1>3, Times
  <2>2. (a * d + a * d) * b = a * (2 * b * d)
    BY <1>1
  <2> QED
    BY <2>1, <2>2
<1>5. (a * d + c * b) * d <= c * (2 * b * d)
  <2>1. (a * d + c * b) * d <= (c * b + c * b) * d
    BY <1>1, <1>3, Times
  <2>2. (c * b + c * b) * d = c * (2 * b * d)
    BY <1>1
  <2> QED
    BY <2>1, <2>2
<1> QED
  BY <1>2, <1>3, <1>4, <1>5 DEF Fractions, Leq, a, b, c, d

\* Of higher ends the midpoint is no lower.
LEMMA MidpointsRise ==
  ASSUME NEW v \in Fractions, NEW w \in Fractions, NEW x \in Fractions, NEW y \in Fractions,
         Leq(v, x), Leq(w, y)
  PROVE Leq(Midpoint(v, w), Midpoint(x, y))
<1> DEFINE a == v[1]
           b == v[2]
           c == w[1]
           d == w[2]
           e == x[1]
           f == x[2]
           g == y[1]
           h == y[2]
<1>1. /\ a \in Int /\ b \in Nat \ {0} /\ c \in Int /\ d \in Nat \ {0}
      /\ e \in Int /\ f \in Nat \ {0} /\ g \in Int /\ h \in Nat \ {0}
      /\ a * f <= e * b /\ c * h <= g * d
  BY DEF Fractions, Leq
<1>2. Midpoint(v, w) = <<a * d + c * b, 2 * b * d>> /\ Midpoint(x, y) = <<e * h + g * f, 2 * f * h>>
  BY DEF Midpoint
<1> HIDE DEF a, b, c, d, e, f, g, h
<1>3. /\ a * f \in Int /\ e * b \in Int /\ c * h \in Int /\ g * d \in Int
      /\ 2 * d * h \in Nat /\ 2 * b * f \in Nat
  BY <1>1
<1>4. (a * f) * (2 * d * h) <= (e * b) * (2 * d * h)
  BY <1>1, <1>3, Times
<1>5. (c * h) * (2 * b * f) <= (g * d) * (2 * b * f)
  BY <1>1, <1>3, Times
<1>6. (a * d + c * b) * (2 * f * h) = (a * f) * (2 * d * h) + (c * h) * (2 * b * f)
  BY <1>1
<1>7. (e * h + g * f) * (2 * b * d) = (e * b) * (2 * d * h) + (g * d) * (2 * b * f)
  BY <1>1
<1>8. /\ (a * f) * (2 * d * h) \in Int /\ (c * h) * (2 * b * f) \in Int
      /\ (e * b) * (2 * d * h) \in Int /\ (g * d) * (2 * b * f) \in Int
  BY <1>1
<1>9. (a * d + c * b) * (2 * f * h) <= (e * h + g * f) * (2 * b * d)
  BY <1>4, <1>5, <1>6, <1>7, <1>8
<1> QED
  BY <1>2, <1>9 DEF Leq

\* The steps that apply reads for p.
Lower(p) == IF DOMAIN steps \ Above(p) = {} THEN Min(DOMAIN steps) ELSE Max(DOMAIN steps \ Above(p))
Upper(p) == IF Above(p) = {} THEN Max(DOMAIN steps) ELSE Min(Above(p))

\* They are steps, in order.
LEMMA AppliedSteps ==
  ASSUME FitInv, pc = "done", NEW p \in Int
  PROVE /\ Apply(p) = Midpoint(steps[Lower(p)], steps[Upper(p)])
        /\ Lower(p) \in DOMAIN steps /\ Upper(p) \in DOMAIN steps /\ Lower(p) <= Upper(p)
<1> DEFINE D == DOMAIN steps
           above == Above(p)
           below == D \ above
<1>1. D \in SUBSET (1..Levels) /\ D # {} /\ Levels \in Nat /\ \A l \in 1..Levels : l \in Nat
  BY StepsAre, BoundsAssumption
<1>2. Apply(p) = Midpoint(steps[Lower(p)], steps[Upper(p)])
  BY DEF Apply, Lower, Upper
<1>3. /\ above \in SUBSET (1..Levels) /\ below \in SUBSET (1..Levels) /\ above \cup below = D
      /\ \A l \in D : l \in above <=> p <= 2 * l
  BY <1>1 DEF Above
<1>4. Lower(p) = (IF below = {} THEN Min(D) ELSE Max(below)) /\ Upper(p) = (IF above = {} THEN Max(D) ELSE Min(above))
  BY DEF Lower, Upper
<1> HIDE DEF above, below, D
<1>5. Min(D) \in D /\ Max(D) \in D /\ \A l \in D : Min(D) <= l /\ l <= Max(D)
  <2>1. /\ Min(D) \in D /\ \A x \in D : Min(D) <= x
        /\ Max(D) \in D /\ \A x \in D : Max(D) >= x
    BY <1>1, MinMax
  <2>2. Max(D) \in Nat /\ \A x \in D : x \in Nat
    BY <1>1, <2>1
  <2> QED
    BY <2>1, <2>2
<1>6. above # {} => Min(above) \in above
  BY <1>1, <1>3, MinMax
<1>7. below # {} => Max(below) \in below
  BY <1>1, <1>3, MinMax
<1>8. \A l \in below, h \in above : l <= h
  <2>1. ASSUME NEW l \in below, NEW h \in above PROVE l <= h
    <3>1. l \in D /\ h \in D /\ ~(p <= 2 * l) /\ p <= 2 * h
      BY <1>3 DEF below
    <3>2. l \in Nat /\ h \in Nat
      BY <1>1, <3>1
    <3> QED
      BY <3>1, <3>2
  <2> QED
    BY <2>1
<1>9. Lower(p) \in D /\ Upper(p) \in D /\ Lower(p) <= Upper(p)
  <2>1. CASE below = {} /\ above # {}
    BY <1>3, <1>4, <1>5, <1>6, <2>1
  <2>2. CASE below # {} /\ above = {}
    BY <1>3, <1>4, <1>5, <1>7, <2>2
  <2>3. CASE below # {} /\ above # {}
    BY <1>3, <1>4, <1>6, <1>7, <1>8, <2>3
  <2>4. below # {} \/ above # {}
    BY <1>1, <1>3
  <2> QED
    BY <2>1, <2>2, <2>3, <2>4
<1> QED
  BY <1>2, <1>9 DEF D

\* A higher probability reads no lower steps.
LEMMA AppliedStepsRise ==
  ASSUME FitInv, pc = "done", NEW p \in Int
  PROVE Lower(p) <= Lower(p + 1) /\ Upper(p) <= Upper(p + 1)
<1> DEFINE D == DOMAIN steps
           A == Above(p)
           B == Above(p + 1)
<1>1. D \in SUBSET (1..Levels) /\ D # {} /\ Levels \in Nat /\ \A l \in 1..Levels : l \in Nat
  BY StepsAre, BoundsAssumption
<1>2. A \in SUBSET D /\ B \in SUBSET A
  <2>1. \A l \in Nat : p + 1 <= 2 * l => p <= 2 * l
    OBVIOUS
  <2> QED
    BY <1>1, <2>1 DEF Above
<1>3. /\ Lower(p) = IF D \ A = {} THEN Min(D) ELSE Max(D \ A)
      /\ Lower(p + 1) = IF D \ B = {} THEN Min(D) ELSE Max(D \ B)
      /\ Upper(p) = IF A = {} THEN Max(D) ELSE Min(A)
      /\ Upper(p + 1) = IF B = {} THEN Max(D) ELSE Min(B)
  BY DEF Lower, Upper
<1> HIDE DEF D, A, B
<1>4. ASSUME NEW S \in SUBSET D, S # {}
      PROVE /\ Min(S) \in S /\ \A x \in S : Min(S) <= x
            /\ Max(S) \in S /\ \A x \in S : x <= Max(S)
            /\ Min(S) \in D /\ Max(S) \in D
  <2>1. S \in SUBSET (1..Levels)
    BY <1>1
  <2>2. /\ Min(S) \in S /\ \A x \in S : Min(S) <= x
        /\ Max(S) \in S /\ \A x \in S : Max(S) >= x
    BY <1>1, <1>4, <2>1, MinMax
  <2>3. Max(S) \in Nat /\ \A x \in S : x \in Nat
    BY <1>1, <2>1, <2>2
  <2> QED
    BY <2>2, <2>3
<1>5. D \ A \in SUBSET D /\ D \ B \in SUBSET D /\ A \in SUBSET D /\ B \in SUBSET D /\ D \in SUBSET D
      /\ D \ A \in SUBSET (D \ B)
  BY <1>2
<1>6. Min(D) \in D /\ Max(D) \in D /\ \A x \in D : Min(D) <= x /\ x <= Max(D)
  BY <1>1, <1>4, <1>5
<1>7. Lower(p) <= Lower(p + 1)
  <2>1. CASE D \ A = {} /\ D \ B = {}
    BY <1>3, <1>6, <2>1
  <2>2. CASE D \ A = {} /\ D \ B # {}
    BY <1>3, <1>4, <1>5, <1>6, <2>2
  <2>3. CASE D \ A # {}
    <3>1. D \ B # {}
      BY <1>5, <2>3
    <3>2. Max(D \ A) \in D \ A
      BY <1>4, <1>5, <2>3
    <3>3. Max(D \ A) \in D \ B
      BY <1>5, <3>2
    <3>4. Max(D \ A) <= Max(D \ B)
      BY <1>4, <1>5, <3>1, <3>3
    <3> QED
      BY <1>3, <2>3, <3>1, <3>4
  <2> QED
    BY <2>1, <2>2, <2>3
<1>8. Upper(p) <= Upper(p + 1)
  <2>1. CASE A = {} /\ B = {}
    BY <1>3, <1>6, <2>1
  <2>2. CASE A # {} /\ B = {}
    BY <1>3, <1>4, <1>5, <1>6, <2>2
  <2>3. CASE B # {}
    <3>1. A # {}
      BY <1>2, <2>3
    <3>2. Min(B) \in A
      BY <1>2, <1>4, <1>5, <2>3
    <3>3. Min(A) <= Min(B)
      BY <1>4, <1>5, <3>1, <3>2
    <3> QED
      BY <1>3, <2>3, <3>1, <3>3
  <2> QED
    BY <2>1, <2>2, <2>3
<1> QED
  BY <1>7, <1>8

(* Calibration never turns a higher probability into a lower one and stays *)
(* between 0 and 1, on the levels and everywhere between and outside them, *)
(* whatever the samples were (isotonic.py:45-73).                          *)
THEOREM CalibrationRises == Spec => []CalibrationIsMonotone
<1>1. FitInv => CalibrationIsMonotone
  <2> SUFFICES ASSUME FitInv, pc = "done", NEW p \in Probabilities
               PROVE /\ Leq(<<0, 1>>, Apply(p)) /\ Leq(Apply(p), <<1, 1>>)
                     /\ Leq(Apply(p), Apply(p + 1))
    BY DEF CalibrationIsMonotone
  <2>1. p \in Int /\ p + 1 \in Int
    BY BoundsAssumption DEF Probabilities
  <2>2. ASSUME NEW l \in DOMAIN steps
        PROVE steps[l] \in Fractions /\ Leq(<<0, 1>>, steps[l]) /\ Leq(steps[l], <<1, 1>>)
    BY StepsAre, StepsAreProbabilities
  <2>3. /\ Apply(p) = Midpoint(steps[Lower(p)], steps[Upper(p)])
        /\ Lower(p) \in DOMAIN steps /\ Upper(p) \in DOMAIN steps /\ Lower(p) <= Upper(p)
    BY <2>1, AppliedSteps
  <2>4. /\ Apply(p + 1) = Midpoint(steps[Lower(p + 1)], steps[Upper(p + 1)])
        /\ Lower(p + 1) \in DOMAIN steps /\ Upper(p + 1) \in DOMAIN steps
    BY <2>1, AppliedSteps
  <2>5. <<0, 1>> \in Fractions /\ <<1, 1>> \in Fractions
    BY DEF Fractions
  <2>6. Leq(steps[Lower(p)], steps[Upper(p)])
    BY <2>3, StepsRise
  <2>7. Apply(p) \in Fractions /\ Leq(steps[Lower(p)], Apply(p)) /\ Leq(Apply(p), steps[Upper(p)])
    BY <2>2, <2>3, <2>6, MidpointIsBetween
  <2>8. Leq(<<0, 1>>, Apply(p))
    BY <2>2, <2>3, <2>5, <2>7, LeqTransitive
  <2>9. Leq(Apply(p), <<1, 1>>)
    BY <2>2, <2>3, <2>5, <2>7, LeqTransitive
  <2>10. Leq(steps[Lower(p)], steps[Lower(p + 1)]) /\ Leq(steps[Upper(p)], steps[Upper(p + 1)])
    BY <2>1, <2>3, <2>4, AppliedStepsRise, StepsRise
  <2>11. Leq(Apply(p), Apply(p + 1))
    BY <2>2, <2>3, <2>4, <2>10, MidpointsRise
  <2> QED
    BY <2>8, <2>9, <2>11
<1> QED
  BY <1>1, FitHolds, PTL

\* The yes answers of the blocks are those of their samples.
LEMMA YesAreKept ==
  ASSUME Typed, NEW e \in [0..Len(blocks) -> 0..read], Cuts(e, blocks, samples, read)
  PROVE SumFunctionOnSet(Yes(blocks), 1..Len(blocks)) = Y(samples, read)
<1> DEFINE L == Len(blocks)
           f == Yes(blocks)
           F(k) == SumFunctionOnSet(f, 1..k)
           S == {k \in 0..L : F(k) = Y(samples, e[k])}
<1>1. /\ L \in Nat /\ e[0] = 0 /\ e[L] = read
      /\ \A k \in 0..L : e[k] \in Nat /\ Y(samples, e[k]) \in Nat
      /\ \A k \in 1..L : k - 1 \in 0..L /\ k \in 0..L
  BY Cutting DEF Typed
<1>2. DOMAIN blocks = 1..L
  BY DEF Typed
<1>3. \A k \in 1..L : IsBlock(blocks[k], samples, e[k - 1], e[k])
  BY DEF Cuts
<1>4. \A k \in 1..L : f[k] = blocks[k].yes
  BY <1>2 DEF Yes
<1>5. DOMAIN f = 1..L
  BY <1>2 DEF Yes
<1>6. f = [k \in 1..L |-> f[k]]
  BY <1>2 DEF Yes
<1>7. Y(samples, 0) = 0
  BY Counting DEF Typed
<1> HIDE DEF L, f
<1>8. ASSUME NEW k \in 1..L PROVE f[k] = Y(samples, e[k]) - Y(samples, e[k - 1]) /\ f[k] \in Int
  <2>1. IsBlock(blocks[k], samples, e[k - 1], e[k])
    BY <1>3
  <2>2. f[k] = Y(samples, e[k]) - Y(samples, e[k - 1])
    BY <1>4, <2>1 DEF IsBlock
  <2> QED
    BY <1>1, <2>2
<1>9. f \in [1..L -> Int]
  BY <1>6, <1>8
<1>10. \A k \in 1..L : F(k) = F(k - 1) + f[k]
  BY <1>1, <1>9, SumsFromTo
<1>11. F(0) = 0
  <2>1. 1..0 = {}
    OBVIOUS
  <2> QED
    BY <1>1, <1>9, <2>1, Sums
<1> HIDE DEF F
<1>12. 0 \in S
  BY <1>1, <1>7, <1>11
<1>13. ASSUME NEW k \in 1..L, k - 1 \in S PROVE k \in S
  <2>1. F(k - 1) = Y(samples, e[k - 1]) /\ F(k) = F(k - 1) + f[k] /\ f[k] = Y(samples, e[k]) - Y(samples, e[k - 1])
    BY <1>8, <1>10, <1>13
  <2>2. Y(samples, e[k]) \in Nat /\ Y(samples, e[k - 1]) \in Nat /\ k \in 0..L
    BY <1>1
  <2> QED
    BY <2>1, <2>2
<1> HIDE DEF S
<1>14. \A k \in 0..L : k \in S
  BY <1>1, <1>12, <1>13, UpTo
<1>15. F(L) = Y(samples, e[L])
  BY <1>1, <1>14 DEF S
<1> QED
  BY <1>1, <1>15 DEF F, f, L

(* Samples of one probability count by their number, however they fell     *)
(* into blocks: when there is only one probability, calibration maps       *)
(* everything to its frequency (isotonic.py:45-50).                        *)
THEOREM TiesCount == Spec => []TiesAreWeighted
<1>1. FitInv => TiesAreWeighted
  <2> SUFFICES ASSUME FitInv, pc = "done", samples[1].level = Last(samples).level, NEW p \in Probabilities
               PROVE Equal(Apply(p), Mean(1, Len(samples)))
    BY DEF TiesAreWeighted
  <2> DEFINE N == Len(samples)
             L == Len(blocks)
             x == samples[1].level
  <2>1. Typed /\ Input(samples) /\ read = N
    BY DEF FitInv, Typed, Finished
  <2>2. N \in Nat \ {0} /\ \A m \in 1..N : samples[m] \in Samples
    BY <2>1, Counting
  <2>3. PICK e \in [0..L -> 0..read] : Cuts(e, blocks, samples, read)
    BY DEF FitInv, Chords
  <2>4. \A i \in 1..N : samples[i].level = x
    <3>1. 1 \in 1..N /\ N \in 1..N /\ \A i \in 1..N : 1 <= i /\ i <= N
      BY <2>2
    <3>2. Last(samples) = samples[N]
      BY DEF Last
    <3>3. \A i \in 1..N : samples[i].level \in Nat
      <4>1. \A i \in 1..N : samples[i].level \in 1..Levels
        BY <2>2 DEF Samples
      <4> QED
        BY <4>1, BoundsAssumption
    <3>4. samples[N].level = x
      BY <3>2
    <3>5. \A i \in 1..N : x <= samples[i].level /\ samples[i].level <= samples[N].level
      BY <2>1, <3>1, Rising
    <3>6. x \in Nat
      BY <3>1, <3>3
    <3> HIDE DEF x, N
    <3> QED
      BY <3>3, <3>4, <3>5, <3>6
  <2>5. /\ L \in Nat \ {0} /\ DOMAIN blocks = 1..L
        /\ \A k \in 1..L : blocks[k] \in Blocks
    BY FinishedBlocks
  <2>6. \A k \in 1..L : blocks[k].first = x /\ blocks[k].last = x
    <3>1. /\ \A k \in 0..L : e[k] \in Nat /\ e[k] <= read
          /\ \A k \in 1..L : k - 1 \in 0..L /\ k \in 0..L /\ e[k - 1] < e[k]
      <4>1. read \in 0..Len(samples) /\ blocks \in Seq(Blocks)
        BY <2>1 DEF Typed
      <4> QED
        BY <2>1, <2>3, <4>1, Cutting
    <3>2. ASSUME NEW k \in 1..L PROVE blocks[k].first = x /\ blocks[k].last = x
      <4>1. IsBlock(blocks[k], samples, e[k - 1], e[k])
        BY <2>3 DEF Cuts
      <4>2. e[k - 1] \in Nat /\ e[k] \in Nat /\ e[k - 1] < e[k] /\ e[k] <= N
        BY <2>1, <3>1
      <4>3. e[k - 1] + 1 \in 1..N /\ e[k] \in 1..N
        BY <2>2, <4>2
      <4> HIDE DEF x
      <4> QED
        BY <2>4, <4>1, <4>3 DEF IsBlock
    <3> QED
      BY <3>2
  <2>7. Touching(x) = 1..L /\ \A l \in 1..Levels : Touching(l) # {} => l = x
    <3> HIDE DEF x, L
    <3> QED
      BY <2>5, <2>6 DEF Touching
  <2>8. DOMAIN steps = {x}
    <3>1. DOMAIN steps = {l \in 1..Levels : Touching(l) # {}} /\ DOMAIN steps # {}
      BY StepsAre
    <3> HIDE DEF x
    <3> QED
      BY <2>7, <3>1
  <2>9. steps[x] = Mean(1, N) /\ steps[x] \in Fractions
    <3>1. /\ steps[x] = <<SumFunctionOnSet(Yes(blocks), 1..L), SumFunctionOnSet(Sizes, 1..L)>>
          /\ steps[x] \in Fractions
      BY <2>7, <2>8, StepsAre
    <3>2. SumFunctionOnSet(Yes(blocks), 1..L) = Y(samples, read)
      BY <2>1, <2>3, YesAreKept
    <3>3. EndOf(L) = e[L] /\ e[L] = read
      <4>1. L \in 0..L
        BY <2>5
      <4> QED
        BY <2>1, <2>3, <4>1, EndsAre DEF Cuts
    <3>4. N - 1 + 1 = N
      BY <2>2
    <3> QED
      BY <2>1, <3>1, <3>2, <3>3, <3>4 DEF EndOf, Mean, Y
  <2>10. Apply(p) = Midpoint(steps[x], steps[x])
    <3>1. p \in Int
      BY BoundsAssumption DEF Probabilities
    <3>2. /\ Apply(p) = Midpoint(steps[Lower(p)], steps[Upper(p)])
          /\ Lower(p) \in DOMAIN steps /\ Upper(p) \in DOMAIN steps
      BY <3>1, AppliedSteps
    <3>3. Lower(p) = x /\ Upper(p) = x
      BY <2>8, <3>2
    <3> QED
      BY <3>2, <3>3
  <2> HIDE DEF x, N
  <2>11. Leq(steps[x], steps[x])
    BY <2>9, LeqTotal
  <2>12. Equal(Midpoint(steps[x], steps[x]), steps[x])
    BY <2>9, <2>11, MidpointIsBetween DEF Equal
  <2> QED
    BY <2>9, <2>10, <2>12 DEF N
<1> QED
  BY <1>1, FitHolds, PTL

=============================================================================
