-------------------------- MODULE JsonlReadsProofs --------------------------
(***************************************************************************)
(* Proofs about what the storage returns and keeps, for any documents,     *)
(* tasks, bounds and faults. What memory has is what the log amounts to,   *)
(* after a commit and after a recovery that replays only a part of it      *)
(* (Faithful), so the storage implements an atomic store; and the          *)
(* sidecars, once the planned replacements are made, have just what the    *)
(* log needs (Exact), so nothing superfluous is left.                      *)
(***************************************************************************)
EXTENDS JsonlStorageProofs

-----------------------------------------------------------------------------
(* Sequences *)

LEMMA IndexRange ==
  ASSUME NEW N \in Nat
  PROVE \A n \in 1..N : n \in 0..N /\ n - 1 \in 0..N /\ n \in Nat /\ n - 1 < n
OBVIOUS

(* A sorted sequence is known by its elements.                             *)
LEMMA SortedPrefix ==
  ASSUME NEW s \in Seq(WriteSet), NEW t \in Seq(WriteSet), Sorted(s), Sorted(t), ToSet(s) = ToSet(t)
  PROVE Len(s) <= Len(t) /\ \A i \in 1..Len(s) : s[i] = t[i]
<1> DEFINE N == Len(s)
           M == Len(t)
           S == {n \in 0..N : n <= M /\ \A i \in 1..n : s[i] = t[i]}
<1>1. N \in Nat /\ M \in Nat /\ 0 \in S /\ N \in 0..N
  OBVIOUS
<1>2. /\ \A i \in 1..N : s[i] \in WriteSet /\ \E j \in 1..M : s[i] = t[j]
      /\ \A i \in 1..M : t[i] \in WriteSet /\ \E j \in 1..N : t[i] = s[j]
  BY InSeq
<1>3. /\ \A i, j \in 1..N : i < j => Before(s[i], s[j]) /\ s[i] # s[j]
      /\ \A i, j \in 1..M : i < j => Before(t[i], t[j]) /\ t[i] # t[j]
  <2>1. \A i, j \in 1..N : i < j => Before(s[i], s[j])
    BY DEF Sorted
  <2>2. \A i, j \in 1..M : i < j => Before(t[i], t[j])
    BY DEF Sorted
  <2>3. \A v \in WriteSet : ~Before(v, v)
    BY BeforeOrder
  <2> HIDE DEF N, M
  <2> QED
    BY <1>2, <2>1, <2>2, <2>3
<1>4. ASSUME NEW n \in 1..N, n - 1 \in S PROVE n \in S
  <2>0. n \in 0..N /\ n - 1 <= M /\ \A i \in 1..n - 1 : i \in 1..N /\ i \in 1..M /\ s[i] = t[i]
    BY <1>1, <1>4
  <2> HIDE DEF S, N, M
  <2>1. PICK j \in 1..M : s[n] = t[j]
    BY <1>2
  <2>2. ~(j <= n - 1)
    <3>1. ASSUME j <= n - 1 PROVE FALSE
      <4>1. j \in 1..n - 1
        BY <1>1, <3>1
      <4>2. j \in 1..N /\ s[j] = t[j] /\ j < n
        BY <1>1, <2>0, <4>1
      <4> QED
        BY <1>3, <2>1, <4>2
    <3> QED
      BY <3>1
  <2>3. n \in 1..M /\ n <= M /\ n <= j
    BY <1>1, <2>2
  <2>4. PICK i \in 1..N : t[n] = s[i]
    BY <1>2, <2>3
  <2>5. ~(i <= n - 1)
    <3>1. ASSUME i <= n - 1 PROVE FALSE
      <4>1. i \in 1..n - 1
        BY <1>1, <3>1
      <4>2. i \in 1..M /\ s[i] = t[i] /\ i < n
        BY <1>1, <2>0, <4>1
      <4> QED
        BY <1>3, <2>3, <2>4, <4>2
    <3> QED
      BY <3>1
  <2>6. n <= i
    BY <1>1, <2>5
  <2>7. s[n] = t[n]
    <3>1. CASE n = j
      BY <2>1, <3>1
    <3>2. CASE n = i
      BY <2>4, <3>2
    <3>3. CASE n < j /\ n < i
      <4>1. Before(t[n], s[n]) /\ Before(s[n], t[n])
        BY <1>3, <2>1, <2>3, <2>4, <3>3
      <4> QED
        BY <1>2, <2>3, <4>1, BeforeOrder
    <3> QED
      BY <1>1, <2>3, <2>6, <3>1, <3>2, <3>3
  <2>8. \A k \in 1..n : k \in 1..n - 1 \/ k = n
    BY <1>1
  <2> QED
    BY <2>0, <2>3, <2>7, <2>8 DEF S
<1>5. N \in S
  <2> HIDE DEF S
  <2>1. \A n \in 0..N : n \in S
    BY <1>1, <1>4, UpTo
  <2> QED
    BY <1>1, <2>1
<1> QED
  BY <1>5

LEMMA SortedUnique ==
  ASSUME NEW s \in Seq(WriteSet), NEW t \in Seq(WriteSet), Sorted(s), Sorted(t), ToSet(s) = ToSet(t)
  PROVE s = t
<1>1. Len(s) <= Len(t) /\ Len(t) <= Len(s) /\ \A i \in 1..Len(s) : s[i] = t[i]
  BY SortedPrefix
<1>2. Len(s) = Len(t)
  BY <1>1
<1> QED
  BY <1>1, <1>2, SeqEqual

(* A selection that leaves out an element is shorter.                      *)
LEMMA OnlyShorter ==
  ASSUME NEW T, NEW s \in Seq(T), NEW set, NEW x \in ToSet(s), x \notin set
  PROVE Len(Only(s, set)) < Len(s)
<1>1. PICK g \in [0..Len(s) -> Seq(T)] : OnlySteps(g, s, set)
  BY OnlyRecursion
<1>2. PICK k \in 1..Len(s) : x = s[k]
  BY InSeq
<1> DEFINE N == Len(s)
           S == {n \in 0..N : Len(g[n]) <= n /\ (k <= n => Len(g[n]) < n)}
<1>3. N \in Nat /\ N \in 0..N /\ 0 \in 0..N /\ ~(k <= 0) /\ k <= N
  OBVIOUS
<1>4. 0 \in S
  BY <1>1, <1>3 DEF OnlySteps
<1>5. ASSUME NEW n \in 1..N, n - 1 \in S PROVE n \in S
  <2>1. n \in 0..N /\ n - 1 \in 0..N /\ s[n] \in T /\ g[n - 1] \in Seq(T)
    <3>1. n \in 0..N /\ n - 1 \in 0..N
      BY <1>3
    <3>2. s[n] \in T
      BY InSeq
    <3> QED
      BY <3>1, <3>2
  <2> DEFINE l == Len(g[n - 1])
  <2>2. l \in Nat /\ l <= n - 1 /\ (k <= n - 1 => l < n - 1)
    BY <1>5, <2>1
  <2>3. Len(Append(g[n - 1], s[n])) = l + 1
    BY <2>1
  <2>4. g[n] = IF s[n] \in set THEN Append(g[n - 1], s[n]) ELSE g[n - 1]
    BY <1>1 DEF OnlySteps
  <2>5. Len(g[n]) = IF s[n] \in set THEN l + 1 ELSE l
    BY <2>3, <2>4
  <2>6. n = k => s[n] \notin set
    BY <1>2
  <2> HIDE DEF l
  <2>7. Len(g[n]) <= n /\ (k <= n => Len(g[n]) < n)
    BY <1>3, <2>2, <2>5, <2>6
  <2> QED
    BY <2>1, <2>7
<1>6. N \in S
  <2> HIDE DEF S
  <2>1. \A n \in 0..N : n \in S
    BY <1>3, <1>4, <1>5, UpTo
  <2> QED
    BY <1>3, <2>1
<1> QED
  BY <1>1, <1>3, <1>6 DEF OnlySteps

(* The writes of a log that grows.                                         *)
LEMMA WritesOfMore ==
  ASSUME NEW log \in Seq(MarkerSet), NEW m \in MarkerSet
  PROVE WritesOf(Append(log, m)) = WritesOf(log) \o m.writes
<1> DEFINE N == Len(log)
           p == Append(log, m)
<1>1. N \in Nat /\ N \in 0..N /\ N + 1 \in Nat
  OBVIOUS
<1>2. p \in Seq(MarkerSet) /\ Len(p) = N + 1 /\ p[N + 1] = m /\ \A k \in 1..N : p[k] = log[k]
  BY AppendProperties
<1> HIDE DEF p
<1>3. PICK g \in [0..N -> Seq(WriteSet)] : WritesOfSteps(g, log)
  BY WritesOfRecursion
<1>4. PICK h \in [0..N + 1 -> Seq(WriteSet)] : WritesOfSteps(h, p)
  BY <1>2, WritesOfRecursion
<1>5. /\ g[0] = <<>> /\ g[N] = WritesOf(log)
      /\ \A n \in 1..N : g[n] = g[n - 1] \o log[n].writes
  BY <1>3 DEF WritesOfSteps
<1>6. /\ h[0] = <<>> /\ h[N + 1] = WritesOf(p)
      /\ \A n \in 1..N + 1 : h[n] = h[n - 1] \o p[n].writes
  BY <1>2, <1>4 DEF WritesOfSteps
<1> HIDE DEF N
<1> DEFINE S == {n \in 0..N : g[n] = h[n]}
<1>7. 0 \in S
  BY <1>1, <1>5, <1>6
<1>8. ASSUME NEW n \in 1..N, n - 1 \in S PROVE n \in S
  <2>1. n \in 0..N /\ n \in 1..N + 1 /\ p[n] = log[n] /\ g[n - 1] = h[n - 1]
    BY <1>1, <1>2, <1>8
  <2> QED
    BY <1>5, <1>6, <2>1
<1>9. N \in S
  <2> HIDE DEF S
  <2>1. \A n \in 0..N : n \in S
    BY <1>1, <1>7, <1>8, UpTo
  <2> QED
    BY <1>1, <2>1
<1>10. N + 1 \in 1..N + 1 /\ N + 1 - 1 = N
  BY <1>1
<1>11. h[N + 1] = h[N] \o m.writes
  BY <1>2, <1>6, <1>10
<1> QED
  BY <1>5, <1>6, <1>9, <1>11 DEF p

(* Replay of one sequence of writes after another.                         *)
LEMMA ReplayMore ==
  ASSUME NEW store \in MemSet, NEW s \in Seq(WriteSet), NEW t \in Seq(WriteSet)
  PROVE Replay(store, s \o t) = Replay(Replay(store, s), t)
<1> DEFINE N == Len(s)
           M == Len(t)
           u == s \o t
           mid == Replay(store, s)
<1>1. N \in Nat /\ M \in Nat /\ N + M \in Nat /\ N \in 0..N /\ M \in 0..M
  OBVIOUS
<1>2. /\ u \in Seq(WriteSet) /\ Len(u) = N + M
      /\ \A i \in 1..N + M : u[i] = IF i <= N THEN s[i] ELSE t[i - N]
  BY ConcatProperties
<1> HIDE DEF u
<1>3. mid \in MemSet
  BY ReplayType
<1>4. PICK g \in [0..N -> MemSet] : ReplaySteps(g, store, s)
  BY ReplayRecursion
<1>5. PICK h \in [0..N + M -> MemSet] : ReplaySteps(h, store, u)
  BY <1>2, ReplayRecursion
<1> HIDE DEF mid
<1>6. PICK k \in [0..M -> MemSet] : ReplaySteps(k, mid, t)
  BY <1>3, ReplayRecursion
<1>7. g[0] = store /\ g[N] = mid /\ \A n \in 1..N : g[n] = Applied(g[n - 1], s[n])
  BY <1>4 DEF ReplaySteps, mid
<1>8. /\ h[0] = store /\ h[N + M] = Replay(store, u)
      /\ \A n \in 1..N + M : h[n] = Applied(h[n - 1], u[n])
  BY <1>2, <1>5 DEF ReplaySteps
<1>9. k[0] = mid /\ k[M] = Replay(mid, t) /\ \A n \in 1..M : k[n] = Applied(k[n - 1], t[n])
  BY <1>6 DEF ReplaySteps
<1> HIDE DEF N, M
<1> DEFINE S == {n \in 0..N : g[n] = h[n]}
           R == {n \in 0..M : k[n] = h[N + n]}
<1>10. N \in S
  <2>1. 0 \in S
    BY <1>1, <1>7, <1>8
  <2>2. ASSUME NEW n \in 1..N, n - 1 \in S PROVE n \in S
    <3>1. n \in 0..N /\ n \in 1..N + M /\ n <= N /\ g[n - 1] = h[n - 1]
      BY <1>1, <2>2
    <3>2. u[n] = s[n]
      BY <1>2, <3>1
    <3> QED
      BY <1>7, <1>8, <3>1, <3>2
  <2> HIDE DEF S
  <2>3. \A n \in 0..N : n \in S
    BY <1>1, <2>1, <2>2, UpTo
  <2> QED
    BY <1>1, <2>3
<1>11. M \in R
  <2>1. 0 \in R
    BY <1>1, <1>7, <1>9, <1>10
  <2>2. ASSUME NEW n \in 1..M, n - 1 \in R PROVE n \in R
    <3> DEFINE i == N + n
    <3>1. /\ n \in 0..M /\ i \in 1..N + M /\ ~(i <= N) /\ i - N = n
          /\ i - 1 = N + (n - 1) /\ k[n - 1] = h[N + (n - 1)] /\ i = N + n
      BY <1>1, <2>2
    <3> HIDE DEF i
    <3>2. u[i] = t[n]
      <4>1. u[i] = IF i <= N THEN s[i] ELSE t[i - N]
        BY <1>2, <3>1, Zenon
      <4> QED
        BY <3>1, <4>1
    <3>3. h[i] = Applied(h[i - 1], t[n])
      <4>1. h[i] = Applied(h[i - 1], u[i])
        BY <1>8, <3>1, Zenon
      <4> QED
        BY <3>2, <4>1
    <3> QED
      BY <1>9, <3>1, <3>3
  <2> HIDE DEF R
  <2>3. \A n \in 0..M : n \in R
    BY <1>1, <2>1, <2>2, UpTo
  <2> QED
    BY <1>1, <2>3
<1> QED
  BY <1>8, <1>9, <1>11 DEF u, mid

-----------------------------------------------------------------------------
(* What a Session writes, and what memory makes of it *)

Changes == {"base", "delta", "retire"}

(* Nothing is written after an end or a retirement, and what is created    *)
(* has not been written before.                                            *)
MayFollow(v, w) == v.file = w.file => v.op \notin {"end", "retire"} /\ w.op \notin Creates

Regular(s) ==
  /\ \A i \in 1..Len(s) :
       s[i].op \in (IF s[i].file \in Tasks THEN {"live", "end"} ELSE Creates \cup Changes)
  /\ \A i, j \in 1..Len(s) : i < j => MayFollow(s[i], s[j])
  /\ \A j \in 1..Len(s) : s[j].op \in Changes =>
       \E i \in 1..Len(s) : i < j /\ s[i].file = s[j].file /\ s[i].op \in Creates

Ordered(s) ==
  \A i, j \in 1..Len(s) : i < j /\ s[i].op \in Stored /\ s[j].op \in Stored => Before(s[i], s[j])

(* The last write of a task is what memory has of it.                      *)
LEMMA LastOfTask ==
  ASSUME NEW store \in MemSet, NEW s \in Seq(WriteSet), NEW k \in 1..Len(s),
         s[k].op \in {"live", "end"},
         \A j \in 1..Len(s) : k < j => s[j].file # s[k].file
  PROVE Replay(store, s)[s[k].file] = [st |-> s[k].op, revs |-> <<s[k]>>]
<1>1. PICK g \in [0..Len(s) -> MemSet] : ReplaySteps(g, store, s)
  BY ReplayRecursion
<1> DEFINE N == Len(s)
           f == s[k].file
           is == [st |-> s[k].op, revs |-> <<s[k]>>]
           S == {n \in 0..N : k <= n => g[n][f] = is}
<1>2. N \in Nat /\ N \in 0..N /\ 0 \in 0..N /\ f \in Files /\ ~(k <= 0) /\ k <= N
  <2>1. s[k] \in WriteSet
    OBVIOUS
  <2>2. f \in Files
    BY <2>1 DEF WriteSet
  <2> HIDE DEF f
  <2> QED
    BY <2>2
<1>3. Became(g[k - 1][f], s[k]) = is
  BY DEF Became
<1> HIDE DEF is
<1>4. 0 \in S
  BY <1>2
<1>5. ASSUME NEW n \in 1..N, n - 1 \in S PROVE n \in S
  <2>1. n \in 0..N /\ n - 1 \in 0..N
    OBVIOUS
  <2>2. CASE n = k
    <3>1. g[n][f] = Became(g[n - 1][f], s[n])
      BY <1>1, <1>2, <2>2, ReplayStep
    <3> QED
      BY <1>3, <2>1, <2>2, <3>1
  <2>3. CASE n # k /\ k <= n
    <3>1. k <= n - 1 /\ k < n
      BY <2>3
    <3>2. g[n][f] = g[n - 1][f]
      BY <1>1, <1>2, <3>1, ReplayStep
    <3> QED
      BY <1>5, <2>1, <3>1, <3>2
  <2>4. CASE ~(k <= n)
    BY <2>1, <2>4
  <2> QED
    BY <2>2, <2>3, <2>4
<1>6. N \in S
  <2> HIDE DEF S
  <2>1. \A n \in 0..N : n \in S
    BY <1>2, <1>4, <1>5, UpTo
  <2> QED
    BY <1>2, <2>1
<1> QED
  BY <1>1, <1>2, <1>6 DEF ReplaySteps, is

LEMMA AppendSorted ==
  ASSUME NEW t \in Seq(WriteSet), Sorted(t), NEW w \in WriteSet, \A v \in ToSet(t) : Before(v, w)
  PROVE Append(t, w) \in Seq(WriteSet) /\ Sorted(Append(t, w)) /\ ToSet(Append(t, w)) = ToSet(t) \cup {w}
<1> DEFINE u == Append(t, w)
           N == Len(t)
<1>1. N \in Nat
  OBVIOUS
<1>2. u \in Seq(WriteSet) /\ Len(u) = N + 1 /\ u[N + 1] = w /\ \A i \in 1..N : u[i] = t[i]
  BY AppendProperties
<1>3. \A i : i \in 1..N + 1 <=> i \in 1..N \/ i = N + 1
  BY <1>1
<1>4. \A i, j \in 1..N + 1 : i < j => i \in 1..N
  BY <1>1
<1>5. \A x : x \in ToSet(t) <=> \E i \in 1..N : x = t[i]
  BY InSeq
<1> HIDE DEF u
<1>6. \A x : x \in ToSet(u) <=> \E i \in 1..N + 1 : x = u[i]
  BY <1>2, InSeq
<1> HIDE DEF N
<1>7. ToSet(u) = ToSet(t) \cup {w}
  BY <1>2, <1>3, <1>5, <1>6
<1>8. \A i, j \in 1..N : i < j => Before(t[i], t[j])
  BY DEF Sorted, N
<1>9. ASSUME NEW i \in 1..N + 1, NEW j \in 1..N + 1, i < j PROVE Before(u[i], u[j])
  <2>1. i \in 1..N /\ u[i] = t[i]
    BY <1>2, <1>4, <1>9
  <2>2. CASE j \in 1..N
    BY <1>2, <1>8, <1>9, <2>1, <2>2
  <2>3. CASE j = N + 1
    BY <1>2, <1>5, <2>1, <2>3
  <2> QED
    BY <1>3, <2>2, <2>3
<1> QED
  BY <1>2, <1>7, <1>9 DEF Sorted, u

LEMMA SingleSorted ==
  ASSUME NEW w \in WriteSet
  PROVE /\ Append(<<>>, w) = <<w>>
        /\ <<w>> \in Seq(WriteSet) /\ Sorted(<<w>>) /\ ToSet(<<w>>) = {w}
<1> DEFINE t == Append(<<>>, w)
<1>1. <<>> \in Seq(WriteSet) /\ Sorted(<<>>) /\ ToSet(<<>>) = {}
  BY DEF Sorted, ToSet
<1>2. \A v \in ToSet(<<>>) : Before(v, w)
  BY <1>1
<1>3. t \in Seq(WriteSet) /\ Sorted(t) /\ ToSet(t) = ToSet(<<>>) \cup {w}
  BY <1>1, <1>2, AppendSorted, Zenon
<1>4. t = <<w>>
  OBVIOUS
<1> HIDE DEF t
<1> QED
  BY <1>1, <1>3, <1>4 DEF t

(* The records of a document in a log, the retirement, and what is left of *)
(* the records when only the current content is kept.                      *)
Recorded(s, d, n) == {s[i] : i \in {i \in 1..n : s[i].file = d /\ s[i].op \in Stored}}
RetiredAt(s, d, n) == \E i \in 1..n : s[i].file = d /\ s[i].op = "retire"
Uncovered(W, latest) == {w \in W : ~(latest /\ \E b \in W : b.op \in HasBase /\ Before(w, b))}

Remembers(m, s, c, n) ==
  LET latest == s[c].op = "createLatest"
      retired == RetiredAt(s, s[c].file, n)
  IN  /\ m.st = IF retired THEN "retired" ELSE s[c].op
      /\ m.revs \in Seq(WriteSet) /\ Sorted(m.revs)
      /\ ToSet(m.revs) =
           IF latest /\ retired THEN {} ELSE Uncovered(Recorded(s, s[c].file, n), latest)

LEMMA RecordedStep ==
  ASSUME NEW s \in Seq(WriteSet), NEW d, NEW n \in 1..Len(s)
  PROVE /\ s[n].file = d /\ s[n].op \in Stored => Recorded(s, d, n) = Recorded(s, d, n - 1) \cup {s[n]}
        /\ ~(s[n].file = d /\ s[n].op \in Stored) => Recorded(s, d, n) = Recorded(s, d, n - 1)
        /\ RetiredAt(s, d, n) <=> RetiredAt(s, d, n - 1) \/ (s[n].file = d /\ s[n].op = "retire")
<1>1. \A i : i \in 1..n <=> i \in 1..n - 1 \/ i = n
  OBVIOUS
<1>2. \A x : x \in Recorded(s, d, n) <=> \E i \in 1..n : x = s[i] /\ s[i].file = d /\ s[i].op \in Stored
  BY DEF Recorded
<1>3. \A x : x \in Recorded(s, d, n - 1) <=> \E i \in 1..n - 1 : x = s[i] /\ s[i].file = d /\ s[i].op \in Stored
  BY DEF Recorded
<1>4. RetiredAt(s, d, n) <=> RetiredAt(s, d, n - 1) \/ (s[n].file = d /\ s[n].op = "retire")
  BY <1>1 DEF RetiredAt
<1> HIDE DEF Recorded
<1> QED
  BY <1>1, <1>2, <1>3, <1>4

(* What is recorded before a stored write comes before it.                 *)
LEMMA RecordedBefore ==
  ASSUME NEW s \in Seq(WriteSet), Ordered(s), NEW n \in 1..Len(s), s[n].op \in Stored, NEW d,
         NEW v \in Recorded(s, d, n - 1)
  PROVE v \in WriteSet /\ s[n] \in WriteSet /\ Before(v, s[n]) /\ ~Before(s[n], v) /\ ~Before(s[n], s[n])
<1>1. PICK i \in 1..n - 1 : v = s[i] /\ s[i].op \in Stored
  BY DEF Recorded
<1>2. i \in 1..Len(s) /\ i < n
  OBVIOUS
<1>3. v \in WriteSet /\ s[n] \in WriteSet
  BY <1>1, <1>2, InSeq
<1>4. Before(v, s[n])
  BY <1>1, <1>2 DEF Ordered
<1> QED
  BY <1>3, <1>4, BeforeOrder

LEMMA RemembersFirst ==
  ASSUME NEW old, NEW s \in Seq(WriteSet), Regular(s), NEW c \in 1..Len(s), s[c].op \in Creates
  PROVE Remembers(Became(old, s[c]), s, c, c)
<1> DEFINE d == s[c].file
           w == s[c]
<1>1. Became(old, w) = [st |-> w.op, revs |-> <<w>>]
  BY DEF Became, Creates
<1>2. \A i \in 1..c - 1 : s[i].file # d
  <2> TAKE i \in 1..c - 1
  <2>1. i \in 1..Len(s) /\ i < c
    OBVIOUS
  <2> QED
    BY <2>1 DEF Regular, MayFollow
<1>3. Recorded(s, d, c - 1) = {} /\ ~RetiredAt(s, d, c - 1)
  BY <1>2 DEF Recorded, RetiredAt
<1>4. w \in WriteSet /\ w.op \in Stored /\ w.op # "retire"
  BY InSeq DEF Stored, Creates
<1>5. Recorded(s, d, c) = {w} /\ ~RetiredAt(s, d, c)
  BY <1>3, <1>4, RecordedStep
<1> HIDE DEF w, d
<1>6. ~Before(w, w)
  BY <1>4, BeforeOrder
<1>7. <<w>> \in Seq(WriteSet) /\ Sorted(<<w>>) /\ ToSet(<<w>>) = {w}
  BY <1>4, SingleSorted
<1>9. \A latest : Uncovered({w}, latest) = {w}
  BY <1>6 DEF Uncovered
<1> DEFINE m == Became(old, w)
<1>10. m.st = w.op /\ m.revs = <<w>>
  BY <1>1
<1> HIDE DEF m
<1>11. Remembers(m, s, c, c)
  BY <1>5, <1>7, <1>9, <1>10 DEF Remembers, w, d
<1> QED
  BY <1>11 DEF m, w

LEMMA RemembersNext ==
  ASSUME NEW m, NEW s \in Seq(WriteSet), Regular(s), Ordered(s), NEW c \in 1..Len(s), s[c].op \in Creates,
         NEW n \in 1..Len(s), c < n, Remembers(m, s, c, n - 1)
  PROVE /\ s[n].file # s[c].file => Remembers(m, s, c, n)
        /\ s[n].file = s[c].file => Remembers(Became(m, s[n]), s, c, n)
<1> DEFINE d == s[c].file
           w == s[n]
           W == Recorded(s, d, n - 1)
           latest == s[c].op = "createLatest"
<1>1. ASSUME w.file # d PROVE Remembers(m, s, c, n)
  BY <1>1, RecordedStep DEF Remembers
<1>2. ASSUME w.file = d PROVE Remembers(Became(m, w), s, c, n)
  <2>1. w \in WriteSet /\ w.op \in Changes /\ c \in 1..n - 1
    BY <1>2, InSeq DEF Regular, MayFollow, Creates, Changes
  <2>2. ~RetiredAt(s, d, n - 1)
    <3> SUFFICES ASSUME NEW i \in 1..n - 1, s[i].file = d, s[i].op = "retire" PROVE FALSE
      BY DEF RetiredAt
    <3>1. i \in 1..Len(s) /\ i < n
      OBVIOUS
    <3> QED
      BY <1>2, <3>1 DEF Regular, MayFollow
  <2>3. /\ m.st = s[c].op /\ m.revs \in Seq(WriteSet) /\ Sorted(m.revs)
        /\ ToSet(m.revs) = Uncovered(W, latest)
    BY <2>2 DEF Remembers
  <2>4. w.op \in Stored => \A v \in W : Before(v, w) /\ ~Before(w, v)
    BY RecordedBefore
  <2>5. ~Before(w, w) /\ <<>> \in Seq(WriteSet) /\ Sorted(<<>>) /\ ToSet(<<>>) = {}
    BY <2>1, BeforeOrder DEF Sorted, ToSet
  <2>6. w.op = "retire" => Recorded(s, d, n) = W /\ RetiredAt(s, d, n)
    BY <1>2, RecordedStep DEF Stored, Creates
  <2>7. w.op # "retire" => Recorded(s, d, n) = W \cup {w} /\ ~RetiredAt(s, d, n) /\ w.op \in Stored
    BY <1>2, <2>1, <2>2, RecordedStep DEF Stored, Changes
  <2> DEFINE x == Became(m, w)
  <2>8. /\ Remembers(x, s, c, n) <=>
             /\ x.st = IF RetiredAt(s, d, n) THEN "retired" ELSE s[c].op
             /\ x.revs \in Seq(WriteSet) /\ Sorted(x.revs)
             /\ ToSet(x.revs) =
                  IF latest /\ RetiredAt(s, d, n) THEN {} ELSE Uncovered(Recorded(s, d, n), latest)
        /\ latest <=> m.st = "createLatest"
    BY <2>3 DEF Remembers
  <2> HIDE DEF w, W, d, latest, x
  <2>9. Uncovered(W, latest) \subseteq W
    BY DEF Uncovered
  <2>10. ASSUME w.op = "retire" PROVE Remembers(x, s, c, n)
    <3>1. x.st = "retired" /\ x.revs = (IF latest THEN <<>> ELSE m.revs)
      BY <2>8, <2>10 DEF Became, Creates, x
    <3> QED
      BY <2>3, <2>5, <2>6, <2>8, <2>10, <3>1
  <2>11. ASSUME w.op = "delta" PROVE Remembers(x, s, c, n)
    <3>1. x.st = m.st /\ x.revs = (Append(m.revs, w))
      BY <2>11 DEF Became, Creates, x
    <3>2. \A v \in ToSet(m.revs) : Before(v, w)
      BY <2>3, <2>4, <2>7, <2>9, <2>11
    <3>3. /\ Append(m.revs, w) \in Seq(WriteSet) /\ Sorted(Append(m.revs, w))
          /\ ToSet(Append(m.revs, w)) = Uncovered(W, latest) \cup {w}
      BY <2>1, <2>3, <3>2, AppendSorted
    <3>4. Uncovered(W \cup {w}, latest) = Uncovered(W, latest) \cup {w}
      <4>1. w.op \notin HasBase
        BY <2>11 DEF HasBase, Creates
      <4> QED
        BY <2>4, <2>7, <2>11, <4>1 DEF Uncovered
    <3> QED
      BY <2>3, <2>7, <2>8, <2>11, <3>1, <3>3, <3>4
  <2>12. ASSUME w.op = "base", latest PROVE Remembers(x, s, c, n)
    <3>1. x.st = m.st /\ x.revs = (Append(<<>>, w))
      BY <2>8, <2>12 DEF Became, Creates, x
    <3>2. /\ Append(<<>>, w) = <<w>>
          /\ <<w>> \in Seq(WriteSet) /\ Sorted(<<w>>) /\ ToSet(<<w>>) = {w}
      BY <2>1, SingleSorted
    <3>3. Uncovered(W \cup {w}, latest) = {w}
      <4>1. w.op \in HasBase
        BY <2>12 DEF HasBase
      <4> QED
        BY <2>4, <2>5, <2>7, <2>12, <4>1 DEF Uncovered
    <3> QED
      BY <2>3, <2>7, <2>8, <2>12, <3>1, <3>2, <3>3
  <2>13. ASSUME w.op = "base", ~latest PROVE Remembers(x, s, c, n)
    <3>1. x.st = m.st /\ x.revs = (Append(m.revs, w))
      BY <2>8, <2>13 DEF Became, Creates, x
    <3>2. \A v \in ToSet(m.revs) : Before(v, w)
      BY <2>3, <2>4, <2>7, <2>9, <2>13
    <3>3. /\ Append(m.revs, w) \in Seq(WriteSet) /\ Sorted(Append(m.revs, w))
          /\ ToSet(Append(m.revs, w)) = Uncovered(W, latest) \cup {w}
      BY <2>1, <2>3, <3>2, AppendSorted
    <3>4. Uncovered(W \cup {w}, latest) = Uncovered(W, latest) \cup {w}
      BY <2>13 DEF Uncovered
    <3> QED
      BY <2>3, <2>7, <2>8, <2>13, <3>1, <3>3, <3>4
  <2> QED
    BY <2>1, <2>10, <2>11, <2>12, <2>13 DEF Changes, x
<1> QED
  BY <1>1, <1>2

LEMMA DocRemembered ==
  ASSUME NEW store \in MemSet, NEW s \in Seq(WriteSet), Regular(s), Ordered(s),
         NEW c \in 1..Len(s), s[c].op \in Creates
  PROVE Remembers(Replay(store, s)[s[c].file], s, c, Len(s))
<1>1. PICK g \in [0..Len(s) -> MemSet] : ReplaySteps(g, store, s)
  BY ReplayRecursion
<1> DEFINE N == Len(s)
           f == s[c].file
           S == {n \in 0..N : c <= n => Remembers(g[n][f], s, c, n)}
<1>2. N \in Nat /\ N \in 0..N /\ 0 \in 0..N /\ f \in Files /\ ~(c <= 0) /\ c <= N
  <2>1. s[c] \in WriteSet
    OBVIOUS
  <2>2. f \in Files
    BY <2>1 DEF WriteSet
  <2> HIDE DEF f
  <2> QED
    BY <2>2
<1>3. 0 \in S
  BY <1>2
<1>4. ASSUME NEW n \in 1..N, n - 1 \in S PROVE n \in S
  <2>1. n \in 0..N /\ n - 1 \in 0..N
    OBVIOUS
  <2>2. /\ s[n].file = f => g[n][f] = Became(g[n - 1][f], s[n])
        /\ s[n].file # f => g[n][f] = g[n - 1][f]
    BY <1>1, <1>2, ReplayStep
  <2>3. CASE n = c
    BY <2>1, <2>2, <2>3, RemembersFirst
  <2>4. CASE n # c /\ c <= n
    <3>1. c <= n - 1 /\ c < n
      BY <2>4
    <3>2. Remembers(g[n - 1][f], s, c, n - 1)
      BY <1>4, <2>1, <3>1
    <3>3. Remembers(g[n][f], s, c, n)
      BY <2>2, <3>1, <3>2, RemembersNext
    <3> QED
      BY <2>1, <3>3
  <2>5. CASE ~(c <= n)
    BY <2>1, <2>5
  <2> QED
    BY <2>3, <2>4, <2>5
<1>5. N \in S
  <2> HIDE DEF S
  <2>1. \A n \in 0..N : n \in S
    BY <1>2, <1>3, <1>4, UpTo
  <2> QED
    BY <1>2, <2>1
<1> QED
  BY <1>1, <1>2, <1>5 DEF ReplaySteps

-----------------------------------------------------------------------------
(* What memory has of a log *)

LEMMA LogOrdered ==
  ASSUME NEW log, LogOK(log)
  PROVE /\ WritesOf(log) \in Seq(WriteSet) /\ Ordered(WritesOf(log))
        /\ ToSet(WritesOf(log)) = WritesIn(log)
        /\ \A x : x \in WritesIn(log) <=> \E i \in 1..Len(WritesOf(log)) : x = WritesOf(log)[i]
<1>1. WritesOf(log) \in Seq(WriteSet) /\ ToSet(WritesOf(log)) = WritesIn(log)
  BY ListedSet DEF LogOK
<1>2. Ordered(WritesOf(log))
  BY ListedOrder DEF Ordered
<1> QED
  BY <1>1, <1>2, InSeq

(* A document is created before anything else of it is written.            *)
LEMMA Created ==
  ASSUME NEW s \in Seq(WriteSet), Regular(s), NEW k \in 1..Len(s), s[k].file \in Docs
  PROVE \E c \in 1..Len(s) : /\ s[c].file = s[k].file /\ s[c].op \in Creates
                             /\ \A j \in 1..Len(s) : s[j].file = s[k].file => c <= j
                             /\ \A j \in 1..Len(s) : s[j].file = s[k].file /\ s[j].op \in Creates => j = c
<1>1. s[k].op \in Creates \cup Changes
  <2>1. s[k].file \notin Tasks
    BY FilesAssumption
  <2> QED
    BY <2>1 DEF Regular
<1>2. PICK c \in 1..Len(s) : s[c].file = s[k].file /\ s[c].op \in Creates
  BY <1>1 DEF Regular
<1>3. ASSUME NEW j \in 1..Len(s), s[j].file = s[k].file PROVE c <= j
  <2>1. ~(j < c)
    BY <1>2, <1>3 DEF Regular, MayFollow
  <2> QED
    BY <2>1
<1>4. ASSUME NEW j \in 1..Len(s), s[j].file = s[k].file, s[j].op \in Creates PROVE j = c
  <2>1. ~(c < j)
    BY <1>2, <1>4 DEF Regular, MayFollow
  <2> QED
    BY <1>3, <1>4, <2>1
<1> QED
  BY <1>2, <1>3, <1>4

Retires(log, d) == \E r \in Of(log, d) : r.op = "retire"

DocIs(m, log, d) ==
  /\ m.st = IF Retires(log, d) THEN "retired" ELSE IF Current(log, d) THEN "createLatest" ELSE "create"
  /\ m.revs \in Seq(WriteSet) /\ Sorted(m.revs) /\ ToSet(m.revs) = Needed(log, d)

LEMMA NothingType == Nothing \in MemSet /\ \A f \in Files : Nothing[f] = [st |-> "none", revs |-> <<>>]
BY DEF Nothing, MemSet, Statuses

LEMMA DocState ==
  ASSUME NEW log, LogOK(log), Regular(WritesOf(log)), NEW d \in Docs, Of(log, d) # {}
  PROVE DocIs(StateOf(log)[d], log, d)
<1> DEFINE s == WritesOf(log)
           N == Len(s)
           m == StateOf(log)[d]
<1>1. /\ s \in Seq(WriteSet) /\ Ordered(s) /\ Regular(s)
      /\ \A x : x \in WritesIn(log) <=> \E i \in 1..N : x = s[i]
  BY LogOrdered
<1>2. m = Replay(Nothing, s)[d]
  BY DEF StateOf
<1> HIDE DEF s, m
<1>3. \A x : x \in Of(log, d) <=> \E i \in 1..N : x = s[i] /\ s[i].file = d
  BY <1>1 DEF Of
<1>4. PICK k \in 1..N : s[k].file = d
  BY <1>3
<1>5. PICK c \in 1..N : /\ s[c].file = d /\ s[c].op \in Creates
                        /\ \A j \in 1..N : s[j].file = d /\ s[j].op \in Creates => j = c
  <2>1. s[k].file \in Docs
    BY <1>4
  <2> QED
    BY <1>1, <1>4, <2>1, Created
<1> DEFINE latest == s[c].op = "createLatest"
<1>6. Remembers(m, s, c, N)
  BY <1>1, <1>2, <1>5, NothingType, DocRemembered
<1>7. Recorded(s, d, N) = StoredIn(log, d)
  BY <1>3 DEF Recorded, StoredIn
<1>8. RetiredAt(s, d, N) <=> Retires(log, d)
  BY <1>3 DEF RetiredAt, Retires
<1>9. latest <=> Current(log, d)
  BY <1>3, <1>5 DEF Current, Creates
<1>10. ~EndedIn(log, d) /\ (RetiredIn(log, d) <=> latest /\ Retires(log, d))
  BY <1>9, FilesAssumption DEF EndedIn, RetiredIn, Retires
<1>11. Uncovered(StoredIn(log, d), latest) = {w \in StoredIn(log, d) : ~Covered(log, d, w)}
  BY <1>9 DEF Uncovered, Covered
<1>12. Needed(log, d) = IF latest /\ Retires(log, d) THEN {} ELSE Uncovered(StoredIn(log, d), latest)
  BY <1>10, <1>11 DEF Needed
<1>13. /\ m.st = IF Retires(log, d) THEN "retired" ELSE s[c].op
       /\ m.revs \in Seq(WriteSet) /\ Sorted(m.revs)
       /\ ToSet(m.revs) = IF latest /\ Retires(log, d) THEN {} ELSE Uncovered(StoredIn(log, d), latest)
  BY <1>5, <1>6, <1>7, <1>8 DEF Remembers
<1>14. s[c].op = IF Current(log, d) THEN "createLatest" ELSE "create"
  BY <1>5, <1>9 DEF Creates
<1> QED
  BY <1>12, <1>13, <1>14 DEF DocIs, m

(* The last write of a file in a sequence.                                 *)
LEMMA LastWrite ==
  ASSUME NEW s \in Seq(WriteSet), NEW f \in Files, NEW k \in 1..Len(s), s[k].file = f
  PROVE \E l \in 1..Len(s) : s[l].file = f /\ \A j \in 1..Len(s) : l < j => s[j].file # f
<1> DEFINE S == {j \in 1..Len(s) : s[j].file = f}
<1>1. S \in SUBSET (1..Len(s)) /\ S # {} /\ Len(s) \in Nat
  OBVIOUS
<1>2. PICK l \in S : \A j \in S : j <= l
  <2> HIDE DEF S
  <2> QED
    BY <1>1, Greatest
<1>3. ASSUME NEW j \in 1..Len(s), l < j PROVE s[j].file # f
  <2>1. ~(j <= l)
    BY <1>2, <1>3
  <2> QED
    BY <1>2, <2>1
<1> QED
  BY <1>2, <1>3

LEMMA TaskState ==
  ASSUME NEW log, LogOK(log), Regular(WritesOf(log)), NEW t \in Tasks, Of(log, t) # {}
  PROVE /\ StateOf(log)[t].st = IF EndedIn(log, t) THEN "end" ELSE "live"
        /\ ~Current(log, t) /\ ~Retires(log, t)
<1> DEFINE s == WritesOf(log)
           N == Len(s)
<1>1. /\ s \in Seq(WriteSet) /\ Regular(s)
      /\ \A x : x \in WritesIn(log) <=> \E i \in 1..N : x = s[i]
  BY LogOrdered
<1>2. StateOf(log)[t] = Replay(Nothing, s)[t]
  BY DEF StateOf
<1> HIDE DEF s
<1>3. \A x : x \in Of(log, t) <=> \E i \in 1..N : x = s[i] /\ s[i].file = t
  BY <1>1 DEF Of
<1>4. PICK k \in 1..N : s[k].file = t
  BY <1>3
<1>5. PICK l \in 1..N : s[l].file = t /\ \A j \in 1..N : l < j => s[j].file # t
  <2>1. s \in Seq(WriteSet)
    BY <1>1
  <2> QED
    BY <1>4, <2>1, LastWrite DEF Files
<1>6. \A i \in 1..N : s[i].file = t => s[i].op \in {"live", "end"}
  BY <1>1 DEF Regular
<1>7. StateOf(log)[t].st = s[l].op
  <2>1. Replay(Nothing, s)[s[l].file] = [st |-> s[l].op, revs |-> <<s[l]>>]
    BY <1>1, <1>5, <1>6, NothingType, LastOfTask
  <2> QED
    BY <1>2, <1>5, <2>1
<1>8. EndedIn(log, t) <=> s[l].op = "end"
  <2>1. ASSUME NEW i \in 1..N, s[i].file = t, s[i].op = "end" PROVE i = l
    <3>1. ~(i < l)
      BY <1>1, <1>5, <2>1 DEF Regular, MayFollow
    <3>2. ~(l < i)
      BY <1>5, <2>1
    <3> QED
      BY <3>1, <3>2
  <2> QED
    BY <1>3, <1>5, <2>1 DEF EndedIn
<1>9. s[l].op \in {"live", "end"}
  BY <1>5, <1>6
<1> QED
  BY <1>3, <1>6, <1>7, <1>8, <1>9 DEF Current, Retires

LEMMA NoState ==
  ASSUME NEW log, LogOK(log), NEW f \in Files, Of(log, f) = {}
  PROVE StateOf(log)[f] = [st |-> "none", revs |-> <<>>]
<1>1. WritesOf(log) \in Seq(WriteSet) /\ \A w \in ToSet(WritesOf(log)) : w.file # f
  BY LogOrdered DEF Of
<1> QED
  BY <1>1, NothingType, ReplayOthers DEF StateOf

-----------------------------------------------------------------------------
(* Recovery replays some of the writes only, and gets the same *)

(* What a selection of the writes keeps, when it keeps the creations.      *)
LEMMA SelectRegular ==
  ASSUME NEW s \in Seq(WriteSet), Regular(s), Ordered(s), NEW set,
         \A w \in ToSet(s) : w.op \in Creates => w \in set
  PROVE Regular(Only(s, set)) /\ Ordered(Only(s, set))
<1> DEFINE t == Only(s, set)
           N == Len(s)
           M == Len(t)
<1>1. PICK at : Selects(at, t, s, set, N)
  BY OnlySelects
<1> HIDE DEF t
<1>2. /\ \A i \in 1..M : at[i] \in 1..N /\ t[i] = s[at[i]]
      /\ \A i, j \in 1..M : i < j => at[i] < at[j]
      /\ \A k \in 1..N : s[k] \in set => \E i \in 1..M : at[i] = k
  BY <1>1 DEF Selects
<1>3. t \in Seq(WriteSet) /\ M \in Nat
  BY OnlySelects DEF t
<1>4. /\ \A i \in 1..N : s[i].op \in (IF s[i].file \in Tasks THEN {"live", "end"} ELSE Creates \cup Changes)
      /\ \A i, j \in 1..N : i < j => MayFollow(s[i], s[j])
      /\ \A j \in 1..N : s[j].op \in Changes =>
           \E i \in 1..N : i < j /\ s[i].file = s[j].file /\ s[i].op \in Creates
  BY DEF Regular
<1>5. \A i \in 1..N : s[i] \in ToSet(s)
  BY InSeq
<1> HIDE DEF N, M
<1>6. ASSUME NEW j \in 1..M, t[j].op \in Changes
      PROVE \E i \in 1..M : i < j /\ t[i].file = t[j].file /\ t[i].op \in Creates
  <2>1. PICK k \in 1..N : k < at[j] /\ s[k].file = t[j].file /\ s[k].op \in Creates
    BY <1>2, <1>4, <1>6
  <2>2. PICK i \in 1..M : at[i] = k
    BY <1>2, <1>5, <2>1
  <2>3. t[i] = s[k]
    BY <1>2, <2>2
  <2>4. i < j
    <3>1. ASSUME j < i PROVE FALSE
      <4>1. at[j] < at[i]
        BY <1>2, <3>1
      <4>2. at[j] \in Nat /\ k \in Nat
        BY <1>2 DEF N
      <4> QED
        BY <2>1, <2>2, <4>1, <4>2
    <3>2. i # j
      <4>2. at[j] \in Nat /\ k \in Nat
        BY <1>2 DEF N
      <4> QED
        BY <2>1, <2>2, <4>2
    <3>3. i \in Nat /\ j \in Nat
      BY DEF M
    <3> QED
      BY <3>1, <3>2, <3>3
  <2> QED
    BY <2>1, <2>3, <2>4
<1>7. Regular(t)
  <2>1. \A i \in 1..M : t[i].op \in (IF t[i].file \in Tasks THEN {"live", "end"} ELSE Creates \cup Changes)
    BY <1>2, <1>4
  <2>2. \A i, j \in 1..M : i < j => MayFollow(t[i], t[j])
    BY <1>2, <1>4
  <2> QED
    BY <1>6, <2>1, <2>2 DEF Regular, M
<1>8. Ordered(t)
  BY <1>2 DEF Ordered, N, M
<1> QED
  BY <1>7, <1>8 DEF t

LEMMA KeptDocument ==
  ASSUME FilesOK, Regular(Listed), NEW d \in Docs, Of(Log, d) # {}
  PROVE Replay(Nothing, Only(Listed, Kept))[d] = Replay(Nothing, Listed)[d]
<1> DEFINE s == Listed
           t == Only(s, Kept)
           N == Len(s)
           M == Len(t)
           W == StoredIn(Log, d)
<1>1. LogOK(Log) /\ d \in Files /\ d \notin Tasks
  BY FilesAssumption DEF FilesOK, Files
<1>2. s = WritesOf(Log)
  BY DEF Listed, Log
<1>3. /\ s \in Seq(WriteSet) /\ Ordered(s) /\ Regular(s) /\ ToSet(s) = WritesIn(Log)
      /\ \A x : x \in WritesIn(Log) <=> \E i \in 1..N : x = s[i]
  BY <1>1, <1>2, LogOrdered
<1>4. \A w \in ToSet(s) : w.op \notin {"live", "base", "delta"} => w \in Kept
  BY DEF Kept
<1>5. \A w \in ToSet(s) : w \in Kept <=> (w.op \in {"live", "base", "delta"} => ~Optional(w))
  BY DEF Kept
<1> HIDE DEF s
<1>6. Regular(t) /\ Ordered(t)
  BY <1>3, <1>4, SelectRegular DEF Creates
<1>7. t \in Seq(WriteSet) /\ ToSet(t) = ToSet(s) \cap Kept
  BY <1>3, OnlySelects, OnlyFacts
<1> HIDE DEF t
<1>8. \A x : x \in ToSet(t) <=> \E i \in 1..M : x = t[i]
  BY <1>7, InSeq
<1> HIDE DEF N, M
<1>9. \A x : x \in Of(Log, d) <=> \E i \in 1..N : x = s[i] /\ s[i].file = d
  BY <1>3 DEF Of
<1>10. \A x : x \in Of(Log, d) /\ x \in Kept <=> \E i \in 1..M : x = t[i] /\ t[i].file = d
  BY <1>3, <1>7, <1>8 DEF Of
<1>11. PICK c \in 1..N : /\ s[c].file = d /\ s[c].op \in Creates
                         /\ \A j \in 1..N : s[j].file = d /\ s[j].op \in Creates => j = c
  <2>1. PICK k \in 1..N : s[k].file = d /\ s[k].file \in Docs
    BY <1>9
  <2> QED
    BY <1>3, <2>1, Created DEF N
<1>12. PICK e \in 1..M : t[e] = s[c]
  <2>1. s[c] \in ToSet(s) /\ s[c] \in Kept
    BY <1>3, <1>4, <1>11 DEF Creates
  <2> QED
    BY <1>7, <1>8, <2>1
<1> DEFINE latest == s[c].op = "createLatest"
           retired == Retires(Log, d)
           m == Replay(Nothing, s)[d]
           n == Replay(Nothing, t)[d]
<1>13. Remembers(m, s, c, N)
  <2>1. Remembers(Replay(Nothing, s)[s[c].file], s, c, Len(s))
    BY <1>3, <1>11, NothingType, DocRemembered DEF N
  <2> QED
    BY <1>11, <2>1 DEF N
<1>14. Remembers(n, t, e, M)
  <2>1. t[e].op \in Creates /\ t[e].file = d
    BY <1>11, <1>12
  <2>2. Remembers(Replay(Nothing, t)[t[e].file], t, e, Len(t))
    BY <1>6, <1>7, <2>1, NothingType, DocRemembered DEF M
  <2> QED
    BY <2>1, <2>2 DEF M
<1> HIDE DEF m, n
<1>15. Recorded(s, d, N) = W /\ Recorded(t, d, M) = W \cap Kept
  BY <1>9, <1>10 DEF Recorded, StoredIn
<1>16. (RetiredAt(s, d, N) <=> retired) /\ (RetiredAt(t, d, M) <=> retired)
  <2>1. \A r \in Of(Log, d) : r.op = "retire" => r \in Kept
    BY <1>3, <1>4 DEF Of
  <2> QED
    BY <1>9, <1>10, <2>1 DEF RetiredAt, Retires
<1>17. latest <=> Current(Log, d)
  BY <1>9, <1>11 DEF Current, Creates
<1>18. Optional(s[c]) \/ ~Optional(s[c])
  OBVIOUS
<1>19. \A w \in W : w \in Needed(Log, d) => w \in Kept
  <2> TAKE w \in W
  <2> HAVE w \in Needed(Log, d)
  <2>1. ~Optional(w)
    BY <1>1, OptionalFacts
  <2>2. w \in ToSet(s)
    BY <1>3 DEF StoredIn, Of
  <2> QED
    BY <1>5, <2>1, <2>2
<1>20. ASSUME ~(latest /\ retired) PROVE Uncovered(W \cap Kept, latest) = Uncovered(W, latest)
  <2>1. ~EndedIn(Log, d) /\ ~RetiredIn(Log, d)
    BY <1>1, <1>17, <1>20 DEF EndedIn, RetiredIn, Retires
  <2>2. \A w \in W : w \in Needed(Log, d) <=> ~Covered(Log, d, w)
    BY <2>1 DEF Needed
  <2>3. CASE ~latest
    <3>1. \A w \in W : w \in Kept
      BY <1>17, <1>19, <2>2, <2>3 DEF Covered
    <3> QED
      BY <3>1 DEF Uncovered
  <2>4. CASE latest
    <3>1. ASSUME NEW w \in W, NEW b \in W, b.op \in HasBase, Before(w, b)
          PROVE \E a \in W \cap Kept : a.op \in HasBase /\ Before(w, a)
      <4>1. Covered(Log, d, w)
        BY <1>17, <2>4, <3>1 DEF Covered
      <4>2. PICK a \in Needed(Log, d) : a.op \in HasBase /\ Before(w, a)
        BY <1>1, <2>1, <4>1, LastBase
      <4> QED
        BY <1>19, <4>2 DEF Needed
    <3>2. \A w \in W : (~\E b \in W : b.op \in HasBase /\ Before(w, b)) => w \in Kept
      BY <1>19, <2>2 DEF Covered
    <3> HIDE DEF W, latest
    <3> QED
      BY <2>4, <3>1, <3>2 DEF Uncovered
  <2> QED
    BY <2>3, <2>4
<1>21. /\ m.st = IF retired THEN "retired" ELSE s[c].op
       /\ m.revs \in Seq(WriteSet) /\ Sorted(m.revs)
       /\ ToSet(m.revs) = IF latest /\ retired THEN {} ELSE Uncovered(W, latest)
  BY <1>11, <1>13, <1>15, <1>16 DEF Remembers
<1>22. /\ n.st = IF retired THEN "retired" ELSE s[c].op
       /\ n.revs \in Seq(WriteSet) /\ Sorted(n.revs)
       /\ ToSet(n.revs) = IF latest /\ retired THEN {} ELSE Uncovered(W \cap Kept, latest)
  BY <1>11, <1>12, <1>14, <1>15, <1>16 DEF Remembers
<1>23. m.revs = n.revs
  BY <1>20, <1>21, <1>22, SortedUnique
<1>24. m = [st |-> m.st, revs |-> m.revs] /\ n = [st |-> n.st, revs |-> n.revs]
  <2>1. Replay(Nothing, s) \in MemSet /\ Replay(Nothing, t) \in MemSet
    BY <1>3, <1>7, NothingType, ReplayType
  <2>2. m \in [st : Statuses, revs : Seq(WriteSet)] /\ n \in [st : Statuses, revs : Seq(WriteSet)]
    BY <1>1, <2>1 DEF m, n, MemSet
  <2> QED
    BY <2>2
<1>25. m = n
  BY <1>21, <1>22, <1>23, <1>24
<1> QED
  BY <1>25 DEF m, n, s, t

LEMMA KeptTask ==
  ASSUME FilesOK, Regular(Listed), NEW f \in Tasks, Of(Log, f) # {}
  PROVE Replay(Nothing, Only(Listed, Kept))[f] = Replay(Nothing, Listed)[f]
<1> DEFINE s == Listed
           t == Only(s, Kept)
           N == Len(s)
           M == Len(t)
<1>1. LogOK(Log) /\ f \in Files
  BY DEF FilesOK, Files
<1>2. s = WritesOf(Log)
  BY DEF Listed, Log
<1>3. /\ s \in Seq(WriteSet) /\ Regular(s) /\ ToSet(s) = WritesIn(Log)
      /\ \A x : x \in WritesIn(Log) <=> \E i \in 1..N : x = s[i]
  BY <1>1, <1>2, LogOrdered
<1>4. \A w \in ToSet(s) : w \in Kept <=> (w.op \in {"live", "base", "delta"} => ~Optional(w))
  BY DEF Kept
<1>5. PICK at : Selects(at, t, s, Kept, N)
  BY <1>3, OnlySelects
<1> HIDE DEF s
<1>6. t \in Seq(WriteSet)
  BY <1>3, OnlySelects
<1> HIDE DEF t
<1>7. \A x : x \in Of(Log, f) <=> \E i \in 1..N : x = s[i] /\ s[i].file = f
  BY <1>3 DEF Of
<1>8. PICK l \in 1..N : s[l].file = f /\ \A j \in 1..N : l < j => s[j].file # f
  <2>1. PICK k \in 1..Len(s) : s[k].file = f
    BY <1>7
  <2>2. s \in Seq(WriteSet)
    BY <1>3
  <2> QED
    BY <1>1, <2>1, <2>2, LastWrite
<1>9. \A i \in 1..N : s[i].file = f => s[i].op \in {"live", "end"}
  BY <1>3 DEF Regular
<1>10. ASSUME s[l].op = "live" PROVE ~Optional(s[l])
  <2>1. s[l] \in StoredIn(Log, f)
    BY <1>7, <1>8, <1>10 DEF StoredIn, Stored
  <2>2. ~EndedIn(Log, f)
    <3> SUFFICES ASSUME NEW i \in 1..N, s[i].file = f, s[i].op = "end" PROVE FALSE
      BY <1>7 DEF EndedIn
    <3>1. ~(i < l)
      BY <1>3, <1>8 DEF Regular, MayFollow
    <3>2. ~(l < i) /\ i # l
      BY <1>8, <1>10
    <3> QED
      BY <3>1, <3>2
  <2>3. ~Current(Log, f)
    BY <1>7, <1>9 DEF Current
  <2>4. s[l] \in Needed(Log, f)
    BY <2>1, <2>2, <2>3 DEF Needed, RetiredIn, Covered
  <2> QED
    BY <1>1, <2>1, <2>4, OptionalFacts
<1>11. s[l] \in Kept
  <2>1. s[l] \in ToSet(s)
    BY <1>3
  <2> QED
    BY <1>4, <1>8, <1>9, <1>10, <2>1
<1>12. PICK i \in 1..M : at[i] = l /\ t[i] = s[l]
  BY <1>5, <1>11 DEF Selects
<1>13. \A j \in 1..M : i < j => t[j].file # f
  BY <1>5, <1>8, <1>12 DEF Selects
<1>14. Replay(Nothing, s)[f] = [st |-> s[l].op, revs |-> <<s[l]>>]
  BY <1>3, <1>8, <1>9, NothingType, LastOfTask
<1>15. Replay(Nothing, t)[f] = [st |-> s[l].op, revs |-> <<s[l]>>]
  <2>1. t[i].file = f /\ t[i].op \in {"live", "end"} /\ t[i] = s[l]
    BY <1>8, <1>9, <1>12
  <2>2. Replay(Nothing, t)[t[i].file] = [st |-> t[i].op, revs |-> <<t[i]>>]
    BY <1>6, <1>13, <2>1, NothingType, LastOfTask
  <2> QED
    BY <2>1, <2>2
<1> QED
  BY <1>14, <1>15 DEF s, t

(* Replay of what recovery keeps gives what replay of the whole log gives. *)
LEMMA KeptState ==
  ASSUME FilesOK, Regular(WritesOf(Log))
  PROVE Replay(Nothing, Replayed) = StateOf(Log)
<1> DEFINE t == Only(Listed, Kept)
<1>1. LogOK(Log) /\ Listed = WritesOf(Log)
  BY DEF FilesOK, Listed, Log
<1>2. Replayed = t /\ t \in Seq(WriteSet)
  BY ReplayedFacts
<1>3. Listed \in Seq(WriteSet) /\ ToSet(Listed) = WritesIn(Log) /\ ToSet(t) \subseteq ToSet(Listed)
  <2>1. Listed \in Seq(WriteSet) /\ ToSet(Listed) = WritesIn(Log)
    BY <1>1, LogOrdered
  <2> QED
    BY <2>1, OnlyFacts
<1>4. ASSUME NEW f \in Files PROVE Replay(Nothing, t)[f] = Replay(Nothing, Listed)[f]
  <2>1. CASE Of(Log, f) = {}
    <3>1. \A w \in ToSet(Listed) : w.file # f
      BY <1>3, <2>1 DEF Of
    <3> HIDE DEF t
    <3>2. Replay(Nothing, Listed)[f] = Nothing[f]
      BY <1>3, <3>1, NothingType, ReplayOthers
    <3>3. Replay(Nothing, t)[f] = Nothing[f]
      BY <1>2, <1>3, <3>1, NothingType, ReplayOthers
    <3> QED
      BY <3>2, <3>3
  <2>2. CASE Of(Log, f) # {} /\ f \in Docs
    BY <1>1, <2>2, KeptDocument
  <2>3. CASE Of(Log, f) # {} /\ f \in Tasks
    BY <1>1, <2>3, KeptTask
  <2> QED
    BY <2>1, <2>2, <2>3 DEF Files
<1> HIDE DEF t
<1>5. Replay(Nothing, t) \in MemSet /\ Replay(Nothing, Listed) \in MemSet
  BY <1>2, <1>3, NothingType, ReplayType
<1>6. Replay(Nothing, t) = Replay(Nothing, Listed)
  BY <1>4, <1>5 DEF MemSet
<1> QED
  BY <1>1, <1>2, <1>6 DEF StateOf

-----------------------------------------------------------------------------
(* A commit continues the log *)

Fresh(t, k, s) ==
  /\ t[k].op \in (IF t[k].file \in Tasks THEN {"live", "end"} ELSE Creates \cup Changes)
  /\ \A j \in 1..Len(t) : j < k => MayFollow(t[j], t[k])
  /\ \A v \in ToSet(s) : MayFollow(v, t[k])
  /\ t[k].op \in Changes =>
       \/ \E j \in 1..Len(t) : j < k /\ t[j].file = t[k].file /\ t[j].op \in Creates
       \/ \E v \in ToSet(s) : v.file = t[k].file /\ v.op \in Creates

LEMMA RegularMore ==
  ASSUME NEW s \in Seq(WriteSet), Regular(s), NEW t \in Seq(WriteSet), \A k \in 1..Len(t) : Fresh(t, k, s)
  PROVE Regular(s \o t)
<1> DEFINE u == s \o t
           N == Len(s)
           M == Len(t)
<1>1. N \in Nat /\ M \in Nat
  OBVIOUS
<1>2. /\ u \in Seq(WriteSet) /\ Len(u) = N + M
      /\ \A i \in 1..N + M : u[i] = IF i <= N THEN s[i] ELSE t[i - N]
  BY ConcatProperties
<1>3. \A x : x \in ToSet(s) <=> \E i \in 1..N : x = s[i]
  BY InSeq
<1>4. /\ \A i \in 1..N : s[i].op \in (IF s[i].file \in Tasks THEN {"live", "end"} ELSE Creates \cup Changes)
      /\ \A i, j \in 1..N : i < j => MayFollow(s[i], s[j])
      /\ \A j \in 1..N : s[j].op \in Changes =>
           \E i \in 1..N : i < j /\ s[i].file = s[j].file /\ s[i].op \in Creates
  BY DEF Regular
<1>5. \A k \in 1..M :
           /\ t[k].op \in (IF t[k].file \in Tasks THEN {"live", "end"} ELSE Creates \cup Changes)
           /\ \A j \in 1..M : j < k => MayFollow(t[j], t[k])
           /\ \A i \in 1..N : MayFollow(s[i], t[k])
           /\ t[k].op \in Changes =>
                \/ \E j \in 1..M : j < k /\ t[j].file = t[k].file /\ t[j].op \in Creates
                \/ \E i \in 1..N : s[i].file = t[k].file /\ s[i].op \in Creates
  <2> TAKE k \in 1..M
  <2>1. Fresh(t, k, s)
    OBVIOUS
  <2>2. \A i \in 1..N : s[i] \in ToSet(s)
    BY <1>3
  <2>3. \A v \in ToSet(s) : \E i \in 1..N : v = s[i]
    BY <1>3
  <2> QED
    BY <2>1, <2>2, <2>3 DEF Fresh
<1> HIDE DEF u, N, M
<1>6. /\ \A i \in 1..N : i \in 1..N + M /\ u[i] = s[i]
      /\ \A k \in 1..M : k + N \in 1..N + M /\ u[k + N] = t[k]
  <2>1. \A i \in 1..N : i \in 1..N + M /\ i <= N
    BY <1>1
  <2>2. \A k \in 1..M : k + N \in 1..N + M /\ ~(k + N <= N) /\ (k + N) - N = k
    BY <1>1
  <2> QED
    BY <1>2, <2>1, <2>2
<1>7. \A i \in 1..N + M : i \in 1..N \/ \E k \in 1..M : i = k + N
  <2> TAKE i \in 1..N + M
  <2>1. CASE i <= N
    BY <1>1, <2>1
  <2>2. CASE ~(i <= N)
    <3>1. i - N \in 1..M /\ i = (i - N) + N
      BY <1>1, <2>2
    <3> QED
      BY <3>1
  <2> QED
    BY <2>1, <2>2
<1>8. \A i \in 1..N + M :
        u[i].op \in (IF u[i].file \in Tasks THEN {"live", "end"} ELSE Creates \cup Changes)
  BY <1>4, <1>5, <1>6, <1>7
<1>9. ASSUME NEW i \in 1..N + M, NEW j \in 1..N + M, i < j PROVE MayFollow(u[i], u[j])
  <2>1. CASE j \in 1..N
    <3>1. i \in 1..N
      BY <1>1, <1>9, <2>1
    <3> QED
      BY <1>4, <1>6, <1>9, <2>1, <3>1
  <2>2. ASSUME NEW k \in 1..M, j = k + N PROVE MayFollow(u[i], u[j])
    <3>1. CASE i \in 1..N
      BY <1>5, <1>6, <2>2, <3>1
    <3>2. ASSUME NEW l \in 1..M, i = l + N PROVE MayFollow(u[i], u[j])
      <4>1. l < k
        BY <1>1, <1>9, <2>2, <3>2
      <4> QED
        BY <1>5, <1>6, <2>2, <3>2, <4>1
    <3> QED
      BY <1>7, <3>1, <3>2
  <2> QED
    BY <1>7, <2>1, <2>2
<1>10. ASSUME NEW j \in 1..N + M, u[j].op \in Changes
       PROVE \E i \in 1..N + M : i < j /\ u[i].file = u[j].file /\ u[i].op \in Creates
  <2>1. CASE j \in 1..N
    BY <1>4, <1>6, <1>10, <2>1
  <2>2. ASSUME NEW k \in 1..M, j = k + N
        PROVE \E i \in 1..N + M : i < j /\ u[i].file = u[j].file /\ u[i].op \in Creates
    <3>1. ASSUME NEW l \in 1..M, l < k, t[l].file = t[k].file, t[l].op \in Creates
          PROVE \E i \in 1..N + M : i < j /\ u[i].file = u[j].file /\ u[i].op \in Creates
      <4>1. l + N < j
        BY <1>1, <2>2, <3>1
      <4> QED
        BY <1>6, <2>2, <3>1, <4>1
    <3>2. ASSUME NEW i \in 1..N, s[i].file = t[k].file, s[i].op \in Creates
          PROVE \E h \in 1..N + M : h < j /\ u[h].file = u[j].file /\ u[h].op \in Creates
      <4>1. i < j
        BY <1>1, <2>2
      <4> QED
        BY <1>6, <2>2, <3>2, <4>1
    <3>3. t[k].op \in Changes
      BY <1>6, <1>10, <2>2
    <3> QED
      BY <1>5, <3>1, <3>2, <3>3
  <2> QED
    BY <1>7, <2>1, <2>2
<1>11. Regular(u)
  BY <1>2, <1>8, <1>9, <1>10 DEF Regular
<1> QED
  BY <1>11 DEF u

Closed(f) == IF f \in Tasks THEN "end" ELSE "retired"

(* What is legal for one file, from what memory has of it.                 *)
LegalOps(f, ops) ==
  /\ \A i \in 1..Len(ops) :
       /\ ops[i] \in (IF f \in Tasks THEN {"live", "end"} ELSE Creates \cup Changes)
       /\ mem[f].st # Closed(f)
       /\ ops[i] \in Creates => mem[f].st = "none"
       /\ ops[i] \in Changes /\ mem[f].st = "none" => \E j \in 1..Len(ops) : j < i /\ ops[j] \in Creates
  /\ \A i, j \in 1..Len(ops) : i < j =>
       /\ ops[i] \notin {"end", "retire"} /\ ops[j] \notin Creates
       /\ f \in Docs => ~(ops[i] \in Stored /\ ops[j] \in Stored)

LEMMA LegalFacts ==
  ASSUME NEW f \in Files, NEW ops \in Legal(f), f \in Docs => mem[f].st \in {"none", "retired"} \cup Creates
  PROVE LegalOps(f, ops)
<1> USE DEF Creates, Changes, Stored
<1>0. ASSUME ops = <<>> PROVE LegalOps(f, ops)
  <2>1. 1..Len(ops) = {}
    BY <1>0
  <2> QED
    BY <2>1 DEF LegalOps
<1>1. ASSUME NEW a, ops = <<a>>, a \in (IF f \in Tasks THEN {"live", "end"} ELSE Creates \cup Changes),
             mem[f].st # Closed(f), a \in Creates => mem[f].st = "none", a \in Changes => mem[f].st # "none"
      PROVE LegalOps(f, ops)
  <2>1. Len(ops) = 1 /\ ops[1] = a
    BY <1>1
  <2>2. \A i \in 1..Len(ops) : i = 1
    BY <2>1
  <2>3. \A i, j \in 1..Len(ops) : ~(i < j)
    BY <2>1
  <2> HIDE DEF Creates, Changes, Stored
  <2> QED
    BY <1>1, <2>1, <2>2, <2>3 DEF LegalOps
<1>2. ASSUME NEW a, NEW b, ops = <<a, b>>,
             a \in (IF f \in Tasks THEN {"live", "end"} ELSE Creates \cup Changes),
             b \in (IF f \in Tasks THEN {"live", "end"} ELSE Creates \cup Changes),
             mem[f].st # Closed(f), a \in Creates => mem[f].st = "none", a \in Changes => mem[f].st # "none",
             a \notin {"end", "retire"}, b \notin Creates, b \in Changes => a \in Creates \/ mem[f].st # "none",
             f \in Docs => b \notin Stored
      PROVE LegalOps(f, ops)
  <2>1. Len(ops) = 2 /\ ops[1] = a /\ ops[2] = b
    BY <1>2
  <2>2. \A i \in 1..Len(ops) : i = 1 \/ i = 2
    BY <2>1
  <2>3. \A i, j \in 1..Len(ops) : i < j => i = 1 /\ j = 2
    BY <2>1
  <2>4. 1 \in 1..Len(ops) /\ 1 < 2
    BY <2>1
  <2> HIDE DEF Creates, Changes, Stored
  <2> QED
    BY <1>2, <2>1, <2>2, <2>3, <2>4 DEF LegalOps
<1>3. CASE f \in Tasks
  <2>0. f \notin Docs
    BY <1>3, FilesAssumption
  <2>1. CASE mem[f].st = "end"
    BY <1>0, <1>3, <2>1 DEF Legal
  <2>2. CASE mem[f].st # "end"
    <3>1. ops \in {<<>>, <<"live">>, <<"live", "live">>, <<"end">>, <<"live", "end">>}
      BY <1>3, <2>2 DEF Legal
    <3> QED
      BY <1>0, <1>1, <1>2, <1>3, <2>0, <2>2, <3>1 DEF Closed
  <2> QED
    BY <2>1, <2>2
<1>4. CASE f \in Docs
  <2>0. f \notin Tasks
    BY <1>4, FilesAssumption
  <2>1. CASE mem[f].st = "none"
    <3>1. ops \in {<<>>} \cup {<<c>> : c \in Creates} \cup {<<c, "retire">> : c \in Creates}
      BY <2>0, <2>1 DEF Legal
    <3>2. CASE ops = <<>>
      BY <1>0, <3>2
    <3>3. ASSUME NEW c \in Creates, ops = <<c>> PROVE LegalOps(f, ops)
      BY <1>1, <2>0, <2>1, <3>3 DEF Closed
    <3>4. ASSUME NEW c \in Creates, ops = <<c, "retire">> PROVE LegalOps(f, ops)
      BY <1>2, <2>0, <2>1, <3>4 DEF Closed
    <3> QED
      BY <3>1, <3>2, <3>3, <3>4
  <2>2. CASE mem[f].st \in Creates
    <3>1. ops \in {<<>>, <<"base">>, <<"delta">>, <<"retire">>, <<"base", "retire">>, <<"delta", "retire">>}
      BY <2>0, <2>2 DEF Legal
    <3> QED
      BY <1>0, <1>1, <1>2, <2>0, <2>2, <3>1 DEF Closed
  <2>3. CASE mem[f].st = "retired"
    <3>1. ops = <<>>
      BY <2>0, <2>3 DEF Legal
    <3> QED
      BY <1>0, <3>1
  <2> QED
    BY <1>4, <2>1, <2>2, <2>3
<1> QED
  BY <1>3, <1>4 DEF Files

(* Where the writes of one file are in the commit.                         *)
Places(at, b, f, n, ops) ==
  /\ \A i \in 1..Len(ops) : at[i] \in 1..n /\ b[at[i]][1] = f /\ b[at[i]][2] = ops[i]
  /\ \A i, j \in 1..Len(ops) : i < j => at[i] < at[j]
  /\ \A k \in 1..n : b[k][1] = f => \E i \in 1..Len(ops) : at[i] = k

LEMMA OpsPlaces ==
  ASSUME NEW n \in Nat, NEW b \in [1..n -> Files \X Ops], NEW f \in Files
  PROVE \E at : Places(at, b, f, n, OpsOn(f, b)) /\ Len(OpsOn(f, b)) \in Nat
<1> DEFINE set == {f} \X Ops
           own == Only(b, set)
           ops == OpsOn(f, b)
<1>1. b \in Seq(Files \X Ops) /\ Len(b) = n
  OBVIOUS
<1>2. own \in Seq(Files \X Ops)
  BY <1>1, OnlySelects
<1>3. PICK at : Selects(at, own, b, set, n)
  BY <1>1, OnlySelects
<1>4. ops = [i \in 1..Len(own) |-> own[i][2]]
  BY <1>2 DEF OpsOn
<1>5. Len(own) \in Nat
  BY <1>2
<1>6. \A j \in 1..n : b[j][1] = f => b[j] \in set
  <2> TAKE j \in 1..n
  <2>1. b[j] \in Files \X Ops
    OBVIOUS
  <2> QED
    BY <2>1
<1>7. \A x \in set : x[1] = f
  OBVIOUS
<1> HIDE DEF own, ops, set
<1>8. Len(ops) = Len(own) /\ \A i \in 1..Len(own) : ops[i] = own[i][2]
  BY <1>4, <1>5
<1>9. Places(at, b, f, n, ops)
  BY <1>3, <1>6, <1>7, <1>8 DEF Places, Selects
<1> QED
  BY <1>5, <1>8, <1>9 DEF ops

(* What memory tells of the log.                                           *)
Tells(f) ==
  /\ f \in Docs => mem[f].st \in {"none", "retired"} \cup Creates
  /\ mem[f].st = "none" => Of(Log, f) = {}
  /\ Of(Log, f) = {} => mem[f].st = "none"
  /\ \A w \in Of(Log, f) : w.op \in {"end", "retire"} => mem[f].st = Closed(f)

LEMMA MemTells ==
  ASSUME LogOK(Log), Regular(WritesOf(Log)), mem = StateOf(Log), NEW f \in Files
  PROVE Tells(f)
<1> USE DEF Creates
<1>1. CASE Of(Log, f) = {}
  BY <1>1, NoState DEF Tells
<1>2. CASE Of(Log, f) # {} /\ f \in Docs
  <2>1. DocIs(mem[f], Log, f)
    BY <1>2, DocState
  <2>2. f \notin Tasks
    BY <1>2, FilesAssumption
  <2>3. \A w \in Of(Log, f) : w.op # "end"
    <3> SUFFICES ASSUME NEW w \in Of(Log, f), w.op = "end" PROVE FALSE
      OBVIOUS
    <3>1. w \in WritesIn(Log) /\ w.file = f
      BY DEF Of
    <3>2. PICK i \in 1..Len(WritesOf(Log)) : w = WritesOf(Log)[i]
      BY <3>1, LogOrdered
    <3> QED
      BY <2>2, <3>1, <3>2 DEF Regular, Changes
  <2> QED
    BY <1>2, <2>1, <2>2, <2>3 DEF DocIs, Tells, Closed, Retires
<1>3. CASE Of(Log, f) # {} /\ f \in Tasks
  <2>1. f \notin Docs
    BY <1>3, FilesAssumption
  <2>2. mem[f].st = (IF EndedIn(Log, f) THEN "end" ELSE "live") /\ ~Retires(Log, f)
    BY <1>3, TaskState
  <2> QED
    BY <1>3, <2>1, <2>2 DEF Tells, Closed, EndedIn, Retires
<1> QED
  BY <1>1, <1>2, <1>3 DEF Files

(* A commit has one record at most of a document.                          *)
Single(m) == \A v, w \in ToSet(m.writes) :
  v.file \in Docs /\ w.file = v.file /\ v.op \in Stored /\ w.op \in Stored => v = w

LEMMA BatchRegular ==
  ASSUME LogOK(Log), Regular(WritesOf(Log)), mem = StateOf(Log),
         NEW b \in Batches, NEW seq \in Nat, NEW by \in Nat
  PROVE Single(Marker(seq, by, b)) /\ Regular(WritesOf(Append(Log, Marker(seq, by, b))))
<1>1. PICK n \in 1..MaxWrites : b \in [1..n -> Files \X Ops]
  BY DEF Batches
<1>2. \A f \in Files : OpsOn(f, b) \in Legal(f)
  BY DEF Batches
<1> DEFINE m == Marker(seq, by, b)
           t == m.writes
           s == WritesOf(Log)
<1>3. n \in Nat /\ DOMAIN b = 1..n
  BY <1>1, BoundsAssumption
<1>4. m \in MarkerSet
  BY NewMarker
<1>5. Len(t) = n /\ \A k \in 1..n : t[k].file = b[k][1] /\ t[k].op = b[k][2]
  BY <1>3 DEF Marker
<1> HIDE DEF m
<1>6. t \in Seq(WriteSet)
  BY <1>4 DEF MarkerSet
<1>7. \A k \in 1..n : b[k][1] \in Files
  BY <1>1
<1>8. \A f \in Files : Tells(f)
  BY MemTells
<1>9. \A f \in Files : LegalOps(f, OpsOn(f, b))
  BY <1>2, <1>8, LegalFacts DEF Tells
<1>10. /\ s \in Seq(WriteSet) /\ Regular(s)
       /\ \A x : x \in ToSet(s) <=> x \in WritesIn(Log)
       /\ \A x : x \in WritesIn(Log) <=> \E i \in 1..Len(s) : x = s[i]
  BY LogOrdered
<1> HIDE DEF t, s
<1>11. ASSUME NEW k \in 1..n
       PROVE /\ t[k].op \in (IF t[k].file \in Tasks THEN {"live", "end"} ELSE Creates \cup Changes)
             /\ \A v \in ToSet(s) : MayFollow(v, t[k])
             /\ t[k].op \in Changes =>
                  \/ \E j \in 1..n : j < k /\ t[j].file = t[k].file /\ t[j].op \in Creates
                  \/ \E v \in ToSet(s) : v.file = t[k].file /\ v.op \in Creates
  <2> DEFINE f == b[k][1]
             ops == OpsOn(f, b)
  <2>1. f \in Files /\ t[k].file = f /\ t[k].op = b[k][2]
    BY <1>5, <1>7
  <2>2. PICK at : Places(at, b, f, n, ops)
    BY <1>1, <1>3, <2>1, OpsPlaces
  <2>3. LegalOps(f, ops) /\ Tells(f)
    BY <1>8, <1>9, <2>1
  <2>4. b[k][1] = f
    OBVIOUS
  <2> HIDE DEF f, ops
  <2>5. PICK i \in 1..Len(ops) : at[i] = k /\ ops[i] = t[k].op
    BY <2>1, <2>2, <2>4 DEF Places
  <2>6. /\ t[k].op \in (IF f \in Tasks THEN {"live", "end"} ELSE Creates \cup Changes)
        /\ mem[f].st # Closed(f)
        /\ t[k].op \in Creates => mem[f].st = "none"
    BY <2>3, <2>5 DEF LegalOps
  <2>7. ASSUME NEW v \in ToSet(s) PROVE MayFollow(v, t[k])
    <3>1. CASE v.file = f
      <4>1. v \in Of(Log, f)
        BY <1>10, <3>1 DEF Of
      <4>2. v.op \notin {"end", "retire"} /\ mem[f].st # "none"
        BY <2>3, <2>6, <4>1 DEF Tells
      <4> QED
        BY <2>6, <4>2 DEF MayFollow
    <3>2. CASE v.file # f
      BY <2>1, <3>2 DEF MayFollow
    <3> QED
      BY <3>1, <3>2
  <2>8. ASSUME t[k].op \in Changes
        PROVE \/ \E j \in 1..n : j < k /\ t[j].file = t[k].file /\ t[j].op \in Creates
              \/ \E v \in ToSet(s) : v.file = t[k].file /\ v.op \in Creates
    <3>1. CASE mem[f].st = "none"
      <4>1. PICK l \in 1..Len(ops) : l < i /\ ops[l] \in Creates
        BY <2>3, <2>5, <2>8, <3>1 DEF LegalOps
      <4>2. at[l] \in 1..n /\ at[l] < k /\ b[at[l]][1] = f /\ b[at[l]][2] = ops[l]
        BY <2>2, <2>5, <4>1 DEF Places
      <4> QED
        BY <1>5, <2>1, <4>1, <4>2
    <3>2. CASE mem[f].st # "none"
      <4>1. PICK v \in Of(Log, f) : TRUE
        BY <2>3, <3>2 DEF Tells
      <4>2. PICK h \in 1..Len(s) : s[h].file = f
        BY <1>10, <4>1 DEF Of
      <4>3. f \in Docs
        BY <2>1, <2>6, <2>8 DEF Changes, Files
      <4>4. PICK c \in 1..Len(s) : s[c].file = f /\ s[c].op \in Creates
        BY <1>10, <4>2, <4>3, Created
      <4> QED
        BY <1>10, <2>1, <4>4
    <3> QED
      BY <3>1, <3>2
  <2> QED
    BY <2>1, <2>6, <2>7, <2>8
<1>12. ASSUME NEW j \in 1..n, NEW k \in 1..n, j < k, t[j].file = t[k].file
       PROVE /\ t[j].op \notin {"end", "retire"} /\ t[k].op \notin Creates
             /\ t[k].file \in Docs => ~(t[j].op \in Stored /\ t[k].op \in Stored)
  <2> DEFINE f == b[k][1]
             ops == OpsOn(f, b)
  <2>1. f \in Files /\ t[k].file = f /\ t[k].op = b[k][2] /\ t[j].op = b[j][2] /\ b[j][1] = f /\ b[k][1] = f
    BY <1>5, <1>7, <1>12
  <2>2. PICK at : Places(at, b, f, n, ops) /\ Len(ops) \in Nat
    BY <1>1, <1>3, <2>1, OpsPlaces
  <2>3. LegalOps(f, ops)
    BY <1>9, <2>1
  <2> HIDE DEF f, ops
  <2>4. PICK i \in 1..Len(ops) : at[i] = k /\ ops[i] = t[k].op
    BY <2>1, <2>2 DEF Places
  <2>5. PICK h \in 1..Len(ops) : at[h] = j /\ ops[h] = t[j].op
    BY <2>1, <2>2 DEF Places
  <2>6. h < i
    <3>1. ~(i < h)
      BY <1>12, <2>2, <2>4, <2>5 DEF Places
    <3>2. i # h
      BY <1>12, <2>4, <2>5
    <3> QED
      BY <2>2, <3>1, <3>2
  <2> QED
    BY <2>1, <2>3, <2>4, <2>5, <2>6 DEF LegalOps
<1>13. Regular(s \o t)
  <2>1. \A k \in 1..n : \A j \in 1..n : j < k => MayFollow(t[j], t[k])
    BY <1>12 DEF MayFollow
  <2>2. \A k \in 1..n : Fresh(t, k, s)
    BY <1>5, <1>11, <2>1 DEF Fresh
  <2> QED
    BY <1>5, <1>6, <1>10, <2>2, RegularMore
<1>14. WritesOf(Append(Log, m)) = s \o t
  BY <1>4, WritesOfMore DEF s, t, LogOK
<1>15. Single(m)
  <2> SUFFICES ASSUME NEW v \in ToSet(t), NEW w \in ToSet(t), v.file \in Docs, w.file = v.file,
                      v.op \in Stored, w.op \in Stored
               PROVE v = w
    BY DEF Single, t
  <2>1. PICK j \in 1..n : v = t[j]
    BY <1>5, <1>6, InSeq
  <2>2. PICK k \in 1..n : w = t[k]
    BY <1>5, <1>6, InSeq
  <2>3. ~(j < k) /\ ~(k < j)
    BY <1>12, <2>1, <2>2
  <2> QED
    BY <1>3, <2>1, <2>2, <2>3
<1> QED
  BY <1>13, <1>14, <1>15 DEF m

-----------------------------------------------------------------------------
(* Types *)

(* What the process holds, and that it holds nothing more once a commit, a *)
(* replacement or a recovery has ended.                                    *)
Counted == /\ faults \in 0..MaxFaults /\ tried \in 0..MaxCommits /\ acked \subseteq 1..tried
           /\ tidy \in BOOLEAN /\ pc \in Steps

BatchKept == /\ batch \in MarkerSet /\ (pc \in Early => batch.by \in 1..tried)
             /\ batch # NoMarker => pc \in Early \cup Working /\ batch.by \in 1..tried
             /\ pc \notin {"append", "flush"} => rest = {}

PlanKept == /\ plan = [f \in DOMAIN plan |-> plan[f]] /\ \A f \in DOMAIN plan : plan[f] \in Seq(WriteSet)
            /\ pc \notin Working \cup {"tails"} => plan = NoPlan
            /\ pc \notin {"flushTemp", "rename"} => target = Main
            /\ pc \in {"flushTemp", "rename"} => target \in DOMAIN plan /\ target \in temps
            /\ temps \subseteq Files

ProcessOK == Counted /\ BatchKept /\ PlanKept /\ mem \in MemSet

(* A file that is not there has no lines, and what may be left of one is   *)
(* made of records, or of markers.                                         *)
Plain(c) == c.there \/ c.lines = <<>>
PlainContents(lines) == {c \in Contents(lines) : Plain(c)}

ContentsOK ==
  /\ disk[Main] \in Contents(MarkerSet) /\ past[Main] \subseteq Contents(MarkerSet)
  /\ \A f \in Files : disk[f] \in PlainContents(WriteSet) /\ past[f] \subseteq PlainContents(WriteSet)
  /\ past[Temp] \subseteq PlainContents(WriteSet)
  /\ \A f \in Files \cup {Main} : fsync => disk[f] \in past[f]

LEMMA InitTypes == Init => ProcessOK /\ ContentsOK
<1> SUFFICES ASSUME Init PROVE ProcessOK /\ ContentsOK
  OBVIOUS
<1>1. Counted
  BY BoundsAssumption DEF Init, Counted, Steps
<1>2. BatchKept
  BY DEF Init, BatchKept, Early, NoMarker, MarkerSet
<1>3. PlanKept
  BY DEF Init, PlanKept, NoPlan
<1>4. Absent \in Contents(MarkerSet) /\ Absent \in PlainContents(WriteSet)
  BY DEF Absent, Contents, PlainContents, Plain
<1>5. ContentsOK
  BY <1>4, NamesDiffer DEF Init, ContentsOK
<1> QED
  BY <1>1, <1>2, <1>3, <1>5, NothingType DEF Init, ProcessOK

LEMMA NoMarkerType == NoMarker \in MarkerSet
BY DEF NoMarker, MarkerSet

LEMMA CountedStep ==
  ASSUME ProcessOK, Shape, [Next]_vars
  PROVE Counted'
<1>1. /\ faults \in 0..MaxFaults /\ tried \in 0..MaxCommits /\ acked \subseteq 1..tried
      /\ tidy \in BOOLEAN /\ pc \in Steps
  BY DEF ProcessOK, Counted
<1>2. MaxFaults \in Nat /\ MaxCommits \in Nat
  BY BoundsAssumption
<1>3. Fault => faults' \in 0..MaxFaults
  BY <1>1, <1>2 DEF Fault
<1>4. batch # NoMarker => batch.by \in 1..tried
  BY DEF ProcessOK, BatchKept
<1>5. Done => acked' \subseteq 1..tried
  BY <1>1, <1>4 DEF Done
<1>6. CASE Begin
  <2>1. tried' = tried + 1 /\ tried < MaxCommits
    BY <1>6 DEF Begin
  <2>2. tried' \in 0..MaxCommits /\ 1..tried \subseteq 1..tried'
    BY <1>1, <1>2, <2>1
  <2> QED
    BY <1>1, <1>6, <2>2 DEF Begin, Counted, Steps
<1>7. CASE Stops /\ (Fault \/ UNCHANGED faults)
  BY <1>1, <1>3, <1>7 DEF Stops, Counted, Steps
<1>8. CASE FlushSidecarFails \/ AppendMainFails \/ Close \/ Crash \/ \E f \in rest : AppendSidecarFails(f)
  BY <1>7, <1>8 DEF FlushSidecarFails, AppendMainFails, Close, Crash, AppendSidecarFails
<1>9. CASE \E f \in rest : AppendSidecar(f) \/ FlushSidecar(f)
  BY <1>1, <1>9 DEF AppendSidecar, FlushSidecar, AfterAppend, Counted, Steps
<1>10. CASE AppendMain \/ EndRecovery
  BY <1>1, <1>5, <1>10 DEF AppendMain, EndRecovery, Reclaim, Done, Counted, Steps
<1>11. CASE FlushMain \/ FlushTemp \/ Open \/ Confirm
  BY <1>1, <1>11 DEF FlushMain, FlushTemp, Open, Confirm, Counted, Steps
<1>12. CASE FlushMainFails
  BY <1>1, <1>3, <1>5, <1>12 DEF FlushMainFails, Done, Counted, Steps
<1>13. \A f : Replaced(f) => acked' \subseteq 1..tried /\ pc' \in Steps
  BY <1>1, <1>5 DEF Replaced, Done, Steps
<1>14. CASE RenameTemp
  BY <1>1, <1>13, <1>14 DEF RenameTemp, Counted
<1>15. CASE \E f \in DOMAIN plan : RemoveSidecar(f) \/ WriteTemp(f) \/ ReplaceFails(f)
  BY <1>1, <1>3, <1>13, <1>15 DEF RemoveSidecar, WriteTemp, ReplaceFails, Counted, Steps
<1>16. CASE RemoveTemps \/ PowerLoss
  BY <1>1, <1>3, <1>16 DEF RemoveTemps, PowerLoss, Counted, Steps
<1>17. CASE \/ \E f \in Files : ReadSidecar(f) \/ TruncateTail(f)
            \/ \E f \in Undecided : \E content \in past[f] : Survives(f, content)
  BY <1>1, <1>17 DEF ReadSidecar, TruncateTail, Survives, Counted
<1>18. CASE UNCHANGED vars
  BY <1>1, <1>18 DEF vars, Counted
<1> QED
  BY <1>6, <1>8, <1>9, <1>10, <1>11, <1>12, <1>14, <1>15, <1>16, <1>17, <1>18 DEF Next

LEMMA BatchKeptStep ==
  ASSUME ProcessOK, Inv, [Next]_vars
  PROVE BatchKept'
<1> USE DEF Early, Working
<1>1. BatchKept /\ tried \in Nat
  BY DEF ProcessOK, Inv, Shape
<1>2. CASE Begin
  <2>1. PICK b \in Batches : batch' = Marker(NextSeq, tried + 1, b)
    BY <1>2 DEF Begin
  <2>2. NextSeq \in Nat
    BY NextSeqIsNew DEF Inv
  <2>3. batch' \in MarkerSet
    BY <1>1, <2>1, <2>2, NewMarker
  <2>4. batch'.by = tried + 1 /\ tried' = tried + 1
    BY <1>2, <2>1 DEF Marker, Begin
  <2>5. pc' = (IF rest' = {} THEN "publish" ELSE "append")
    BY <1>2 DEF Begin
  <2> QED
    BY <1>1, <2>3, <2>4, <2>5 DEF BatchKept
<1>3. CASE FlushSidecarFails \/ AppendMainFails \/ Close \/ Crash \/ \E f \in rest : AppendSidecarFails(f)
  BY <1>3, NoMarkerType DEF FlushSidecarFails, AppendMainFails, Close, Crash, AppendSidecarFails, Stops, BatchKept
<1>4. CASE \E f \in rest : AppendSidecar(f) \/ FlushSidecar(f)
  <2>1. PICK f \in rest : AppendSidecar(f) \/ FlushSidecar(f)
    BY <1>4
  <2>2. CASE AppendSidecar(f)
    BY <1>1, <2>2 DEF AppendSidecar, AfterAppend, BatchKept
  <2>3. CASE FlushSidecar(f)
    BY <1>1, <2>3 DEF FlushSidecar, BatchKept
  <2> QED
    BY <2>1, <2>2, <2>3
<1>5. CASE AppendMain \/ EndRecovery
  BY <1>1, <1>5, NoMarkerType DEF AppendMain, EndRecovery, Reclaim, Done, BatchKept
<1>6. CASE FlushMain \/ FlushTemp \/ Open \/ Confirm \/ RemoveTemps
  BY <1>1, <1>6 DEF FlushMain, FlushTemp, Open, Confirm, RemoveTemps, BatchKept
<1>7. CASE FlushMainFails
  BY <1>1, <1>7, NoMarkerType DEF FlushMainFails, Done, BatchKept
<1>8. CASE RenameTemp
  BY <1>1, <1>8, NoMarkerType DEF RenameTemp, Replaced, Done, BatchKept
<1>9. CASE \E f \in DOMAIN plan : RemoveSidecar(f) \/ WriteTemp(f) \/ ReplaceFails(f)
  BY <1>1, <1>9, NoMarkerType DEF RemoveSidecar, WriteTemp, ReplaceFails, Replaced, Done, BatchKept
<1>10. CASE PowerLoss
  BY <1>10, NoMarkerType DEF PowerLoss, BatchKept
<1>11. CASE \/ \E f \in Files : ReadSidecar(f) \/ TruncateTail(f)
            \/ \E f \in Undecided : \E content \in past[f] : Survives(f, content)
  BY <1>1, <1>11 DEF ReadSidecar, TruncateTail, Survives, BatchKept
<1>12. CASE UNCHANGED vars
  BY <1>1, <1>12 DEF vars, BatchKept
<1> QED
  BY <1>2, <1>3, <1>4, <1>5, <1>6, <1>7, <1>8, <1>9, <1>10, <1>11, <1>12 DEF Next

LEMMA EmptyPlan ==
  ASSUME NEW h, h = [f \in DOMAIN h |-> h[f]], DOMAIN h = {}
  PROVE h = NoPlan
BY DEF NoPlan

LEMMA ReplacedPlan ==
  ASSUME PlanKept, NEW f, Replaced(f)
  PROVE /\ plan' = [g \in DOMAIN plan' |-> plan'[g]] /\ \A g \in DOMAIN plan' : plan'[g] \in Seq(WriteSet)
        /\ pc' \in {"open", "replace"} /\ (pc' = "open" => plan' = NoPlan)
<1>1. plan' = [g \in DOMAIN plan \ {f} |-> plan[g]] /\ \A g \in DOMAIN plan : plan[g] \in Seq(WriteSet)
  BY DEF Replaced, PlanKept
<1>2. plan' = [g \in DOMAIN plan' |-> plan'[g]] /\ \A g \in DOMAIN plan' : plan'[g] \in Seq(WriteSet)
  BY <1>1
<1>3. pc' \in {"open", "replace"} /\ (pc' = "open" => DOMAIN plan' = {})
  BY DEF Replaced, Done
<1> QED
  BY <1>2, <1>3, EmptyPlan

LEMMA ReclaimPlan ==
  ASSUME NEW h, h = [f \in DOMAIN h |-> h[f]], \A f \in DOMAIN h : h[f] \in Seq(WriteSet), Reclaim(h)
  PROVE /\ plan' = [g \in DOMAIN plan' |-> plan'[g]] /\ \A g \in DOMAIN plan' : plan'[g] \in Seq(WriteSet)
        /\ pc' \in {"open", "authorize", "replace"} /\ (pc' = "open" => plan' = NoPlan)
<1>1. plan' = h /\ pc' \in {"open", "authorize", "replace"} /\ (pc' = "open" => DOMAIN plan' = {})
  BY DEF Reclaim, Done
<1> QED
  BY <1>1, EmptyPlan

LEMMA PlanKeptStep ==
  ASSUME ProcessOK, RInv, [Next]_vars
  PROVE PlanKept'
<1> USE DEF Working
<1>1. /\ PlanKept /\ DOMAIN plan \subseteq Files
      /\ plan = [f \in DOMAIN plan |-> plan[f]] /\ \A f \in DOMAIN plan : plan[f] \in Seq(WriteSet)
  BY DEF ProcessOK, RInv, Inv, Shape, PlanKept
<1>2. NoPlan = [f \in DOMAIN NoPlan |-> NoPlan[f]] /\ DOMAIN NoPlan = {}
  BY DEF NoPlan
<1>3. CASE Begin
  BY <1>1, <1>3 DEF Begin, files, PlanKept
<1>4. CASE FlushSidecarFails \/ AppendMainFails \/ Close \/ Crash \/ \E f \in rest : AppendSidecarFails(f)
  BY <1>1, <1>2, <1>4 DEF FlushSidecarFails, AppendMainFails, Close, Crash, AppendSidecarFails, Stops, files, PlanKept
<1>5. CASE \E f \in rest : AppendSidecar(f) \/ FlushSidecar(f)
  BY <1>1, <1>5 DEF AppendSidecar, FlushSidecar, AfterAppend, PlanKept
<1>6. CASE AppendMain
  <2> DEFINE h == planReclamations(batch)
  <2>1. batch \in MarkerSet
    BY DEF ProcessOK, BatchKept
  <2>2. \A f : Records(batch, f) \in Seq(WriteSet)
    BY <2>1, RecordsFacts
  <2>3. h = [f \in DOMAIN h |-> h[f]] /\ \A f \in DOMAIN h : h[f] \in Seq(WriteSet)
    BY <2>2 DEF planReclamations
  <2>4. Reclaim(h) /\ target' = target /\ temps' = temps /\ pc = "publish"
    BY <1>6 DEF AppendMain
  <2> HIDE DEF h
  <2>5. /\ plan' = [g \in DOMAIN plan' |-> plan'[g]] /\ \A g \in DOMAIN plan' : plan'[g] \in Seq(WriteSet)
        /\ pc' \in {"open", "authorize", "replace"} /\ (pc' = "open" => plan' = NoPlan)
    BY <2>3, <2>4, ReclaimPlan
  <2> QED
    BY <1>1, <2>4, <2>5 DEF PlanKept
<1>7. CASE EndRecovery
  <2>1. Reclaim(plan) /\ target' = target /\ temps' = temps /\ pc = "tails"
    BY <1>7 DEF EndRecovery, files
  <2>2. /\ plan' = [g \in DOMAIN plan' |-> plan'[g]] /\ \A g \in DOMAIN plan' : plan'[g] \in Seq(WriteSet)
        /\ pc' \in {"open", "authorize", "replace"} /\ (pc' = "open" => plan' = NoPlan)
    BY <1>1, <2>1, ReclaimPlan
  <2> QED
    BY <1>1, <2>1, <2>2 DEF PlanKept
<1>8. CASE FlushMain \/ FlushTemp
  BY <1>1, <1>8 DEF FlushMain, FlushTemp, PlanKept
<1>9. CASE Open \/ RemoveTemps
  BY <1>1, <1>9 DEF Open, RemoveTemps, PlanKept
<1>10. CASE Confirm
  <2>1. FilesOK
    BY FilesOKNow DEF RInv
  <2>2. plan' = [f \in Reclaimable |-> Retained(f)] /\ pc' = "tails" /\ pc = "read" /\ UNCHANGED <<target, temps>>
    BY <1>10, <2>1, NotCorrupt DEF Confirm, files
  <2>3. \A f \in Reclaimable : Retained(f) \in Seq(WriteSet)
    BY <2>1, RetainedFacts DEF Reclaimable, Fits
  <2> QED
    BY <1>1, <2>2, <2>3 DEF PlanKept
<1>11. CASE FlushMainFails
  BY <1>1, <1>2, <1>11 DEF FlushMainFails, Done, files, PlanKept
<1>12. CASE RenameTemp
  <2>1. Replaced(target) /\ temps' = temps \ {target} /\ target' = Main
    BY <1>12 DEF RenameTemp
  <2> QED
    BY <1>1, <2>1, ReplacedPlan DEF PlanKept
<1>13. CASE \E f \in DOMAIN plan : RemoveSidecar(f)
  <2>1. PICK f \in DOMAIN plan : RemoveSidecar(f)
    BY <1>13
  <2>2. Replaced(f) /\ temps' = temps /\ target' = target /\ pc = "replace"
    BY <2>1 DEF RemoveSidecar
  <2> QED
    BY <1>1, <2>2, ReplacedPlan DEF PlanKept
<1>14. CASE \E f \in DOMAIN plan : WriteTemp(f)
  BY <1>1, <1>14 DEF WriteTemp, PlanKept
<1>15. CASE \E f \in DOMAIN plan : ReplaceFails(f)
  <2>1. PICK f \in DOMAIN plan : ReplaceFails(f)
    BY <1>15
  <2>2. Replaced(f) /\ temps' \subseteq Files /\ target' = Main
    BY <1>1, <2>1 DEF ReplaceFails, PlanKept
  <2> QED
    BY <1>1, <2>2, ReplacedPlan DEF PlanKept
<1>16. CASE PowerLoss
  BY <1>1, <1>2, <1>16 DEF PowerLoss, PlanKept
<1>17. CASE \/ \E f \in Files : ReadSidecar(f) \/ TruncateTail(f)
            \/ \E f \in Undecided : \E content \in past[f] : Survives(f, content)
  BY <1>1, <1>17 DEF ReadSidecar, TruncateTail, Survives, PlanKept
<1>18. CASE UNCHANGED vars
  BY <1>1, <1>18 DEF vars, files, PlanKept
<1> QED
  BY <1>3, <1>4, <1>5, <1>6, <1>7, <1>8, <1>9, <1>10, <1>11, <1>12, <1>13, <1>14, <1>15, <1>16, <1>17, <1>18 DEF Next

LEMMA MemTypeStep ==
  ASSUME ProcessOK, RInv, [Next]_vars
  PROVE mem' \in MemSet
<1>1. mem \in MemSet /\ Nothing \in MemSet
  BY NothingType DEF ProcessOK
<1>2. CASE AppendMain
  <2>1. batch.writes \in Seq(WriteSet)
    BY DEF ProcessOK, BatchKept, MarkerSet
  <2> QED
    BY <1>1, <1>2, <2>1, ReplayType DEF AppendMain
<1>3. CASE Confirm
  <2>1. FilesOK
    BY FilesOKNow DEF RInv
  <2>2. Replayed \in Seq(WriteSet)
    BY <2>1, ReplayedFacts
  <2>3. mem' = Replay(Nothing, Replayed)
    BY <1>3, <2>1, NotCorrupt DEF Confirm
  <2> QED
    BY <1>1, <2>2, <2>3, ReplayType
<1>4. mem' = mem \/ mem' = Nothing \/ AppendMain \/ Confirm
  BY DEF Next, vars, Begin, FlushSidecarFails, Stops, AppendSidecar, AppendSidecarFails, FlushSidecar,
     AppendMainFails, FlushMain, FlushMainFails, FlushTemp, RenameTemp, RemoveSidecar, WriteTemp,
     ReplaceFails, Open, RemoveTemps, EndRecovery, ReadSidecar, TruncateTail, Close, Crash, PowerLoss, Survives
<1> QED
  BY <1>1, <1>2, <1>3, <1>4

LEMMA ProcessStep ==
  ASSUME ProcessOK, RInv, [Next]_vars
  PROVE ProcessOK'
<1>1. Inv /\ Shape
  BY DEF RInv, Inv
<1> QED
  BY <1>1, CountedStep, BatchKeptStep, PlanKeptStep, MemTypeStep DEF ProcessOK

LEMMA AppendingTypes ==
  ASSUME NEW T, NEW content \in Contents(T), NEW lines \in Seq(T), NEW c \in Appending(content, lines)
  PROVE c \in Contents(T) /\ (Plain(content) => Plain(c))
<1>1. content.lines \in Seq(T)
  BY DEF Contents
<1>2. \A n \in 0..Len(lines) : SubSeq(lines, 1, n) \in Seq(T)
  OBVIOUS
<1>3. \A n \in 0..Len(lines) : content.lines \o SubSeq(lines, 1, n) \in Seq(T)
  BY <1>1, <1>2
<1>4. CASE c = content
  BY <1>4
<1>5. CASE c \in {Holding(content.lines \o SubSeq(lines, 1, n)) : n \in 1..Len(lines)}
  <2>1. PICK n \in 1..Len(lines) : c = Holding(content.lines \o SubSeq(lines, 1, n))
    BY <1>5
  <2>2. n \in 0..Len(lines)
    BY <2>1
  <2> QED
    BY <1>3, <2>1, <2>2 DEF Holding, Contents, Plain
<1>6. CASE c \in {[Holding(content.lines \o SubSeq(lines, 1, n)) EXCEPT !.torn = TRUE] : n \in 0..Len(lines) - 1}
  <2>1. PICK n \in 0..Len(lines) - 1 : c = [Holding(content.lines \o SubSeq(lines, 1, n)) EXCEPT !.torn = TRUE]
    BY <1>6
  <2>2. n \in 0..Len(lines)
    BY <2>1
  <2> QED
    BY <1>3, <2>1, <2>2 DEF Holding, Contents, Plain
<1> QED
  BY <1>4, <1>5, <1>6, Zenon DEF Appending

LEMMA HoldingType ==
  ASSUME NEW T, NEW lines \in Seq(T)
  PROVE Holding(lines) \in Contents(T) /\ Holding(lines) \in PlainContents(T)
BY DEF Holding, Contents, PlainContents, Plain

LEMMA PutContents ==
  ASSUME ContentsOK, Shape, UNCHANGED fsync, NEW f \in Files, NEW content \in PlainContents(WriteSet),
         NEW between, between \subseteq PlainContents(WriteSet), Put(f, content, between)
  PROVE ContentsOK'
<1>1. /\ disk'[Main] = disk[Main] /\ past'[Main] = past[Main] /\ past'[Temp] = past[Temp]
      /\ \A g \in Files \ {f} : disk'[g] = disk[g] /\ past'[g] = past[g]
      /\ disk'[f] = content
      /\ IF fsync THEN past'[f] = past[f] \cup between \cup {content} ELSE past'[f] = past[f]
  BY NamesDiffer DEF Put, Shape
<1>2. /\ disk'[Main] \in Contents(MarkerSet) /\ past'[Main] \subseteq Contents(MarkerSet)
      /\ past'[Temp] \subseteq PlainContents(WriteSet)
      /\ fsync => disk'[Main] \in past'[Main]
  BY <1>1 DEF ContentsOK
<1>3. ASSUME NEW g \in Files
      PROVE /\ disk'[g] \in PlainContents(WriteSet) /\ past'[g] \subseteq PlainContents(WriteSet)
            /\ fsync => disk'[g] \in past'[g]
  <2>1. /\ disk[g] \in PlainContents(WriteSet) /\ past[g] \subseteq PlainContents(WriteSet)
        /\ fsync => disk[g] \in past[g]
    BY DEF ContentsOK
  <2>2. CASE g = f
    <3>1. CASE fsync
      BY <1>1, <2>1, <2>2, <3>1
    <3>2. CASE ~fsync
      BY <1>1, <2>1, <2>2, <3>2
    <3> QED
      BY <3>1, <3>2
  <2>3. CASE g # f
    BY <1>1, <2>1, <2>3
  <2> QED
    BY <2>2, <2>3
<1> QED
  BY <1>2, <1>3 DEF ContentsOK

LEMMA PutMain ==
  ASSUME ContentsOK, Shape, UNCHANGED fsync, NEW content \in Contents(MarkerSet),
         NEW between, between \subseteq Contents(MarkerSet), Put(Main, content, between)
  PROVE ContentsOK'
<1>1. /\ past'[Temp] = past[Temp]
      /\ \A g \in Files : disk'[g] = disk[g] /\ past'[g] = past[g]
      /\ disk'[Main] = content
      /\ IF fsync THEN past'[Main] = past[Main] \cup between \cup {content} ELSE past'[Main] = past[Main]
  BY NamesDiffer DEF Put, Shape
<1>2. /\ disk[Main] \in Contents(MarkerSet) /\ past[Main] \subseteq Contents(MarkerSet)
      /\ past[Temp] \subseteq PlainContents(WriteSet)
      /\ fsync => disk[Main] \in past[Main]
  BY DEF ContentsOK
<1>3. /\ disk'[Main] \in Contents(MarkerSet) /\ past'[Main] \subseteq Contents(MarkerSet)
      /\ fsync => disk'[Main] \in past'[Main]
  <2>1. CASE fsync
    BY <1>1, <1>2, <2>1
  <2>2. CASE ~fsync
    BY <1>1, <1>2, <2>2
  <2> QED
    BY <2>1, <2>2
<1>4. \A g \in Files : /\ disk'[g] \in PlainContents(WriteSet) /\ past'[g] \subseteq PlainContents(WriteSet)
                       /\ fsync => disk'[g] \in past'[g]
  BY <1>1 DEF ContentsOK
<1> QED
  BY <1>1, <1>2, <1>3, <1>4 DEF ContentsOK

(* Only the contents of the temporary file change, or those that a file    *)
(* may have after a power loss shrink to what it holds.                    *)
LEMMA SameContents ==
  ASSUME ContentsOK, Shape, UNCHANGED <<fsync, disk>>, past'[Temp] \subseteq PlainContents(WriteSet),
         \A f \in Files \cup {Main} : past'[f] = past[f] \/ past'[f] = {disk[f]}
  PROVE ContentsOK'
<1>1. /\ disk[Main] \in Contents(MarkerSet) /\ past[Main] \subseteq Contents(MarkerSet)
      /\ \A f \in Files : disk[f] \in PlainContents(WriteSet) /\ past[f] \subseteq PlainContents(WriteSet)
      /\ \A f \in Files \cup {Main} : fsync => disk[f] \in past[f]
  BY DEF ContentsOK
<1>2. past'[Main] = past[Main] \/ past'[Main] = {disk[Main]}
  OBVIOUS
<1>3. past'[Main] \subseteq Contents(MarkerSet)
  BY <1>1, <1>2
<1>4. \A f \in Files : past'[f] \subseteq PlainContents(WriteSet)
  BY <1>1
<1>5. \A f \in Files \cup {Main} : fsync => disk[f] \in past'[f]
  BY <1>1
<1> QED
  BY <1>1, <1>3, <1>4, <1>5 DEF ContentsOK

LEMMA ContentsStep ==
  ASSUME ProcessOK, ContentsOK, RInv, [Next]_vars
  PROVE ContentsOK'
<1>1. /\ Shape /\ past[Temp] \subseteq PlainContents(WriteSet)
      /\ disk[Main] \in Contents(MarkerSet)
      /\ \A f \in Files : disk[f] \in Contents(WriteSet) /\ Plain(disk[f]) /\ disk[f].lines \in Seq(WriteSet)
  BY DEF RInv, Inv, ContentsOK, PlainContents, Contents
<1>2. batch \in MarkerSet /\ \A f : Records(batch, f) \in Seq(WriteSet)
  BY RecordsFacts DEF ProcessOK, BatchKept
<1>3. CASE UNCHANGED <<fsync, disk, past>>
  BY <1>1, <1>3, SameContents
<1>4. CASE Begin \/ FlushSidecarFails \/ FlushMainFails \/ RemoveTemps \/ Confirm \/ EndRecovery \/ Close \/ Crash
  BY <1>3, <1>4 DEF Begin, FlushSidecarFails, FlushMainFails, RemoveTemps, Confirm, EndRecovery, Close, Crash, Stops, files
<1>5. ASSUME NEW f \in rest, AppendSidecar(f) PROVE ContentsOK'
  <2> DEFINE lines == Records(batch, f)
             new == Holding(disk[f].lines \o lines)
             between == Appending(disk[f], lines)
  <2>1. f \in Files /\ lines \in Seq(WriteSet)
    BY <1>1, <1>2 DEF Shape
  <2>2. disk[f].lines \o lines \in Seq(WriteSet)
    BY <1>1, <2>1
  <2>3. new \in PlainContents(WriteSet)
    BY <2>2, HoldingType
  <2>4. \A c \in between : c \in Contents(WriteSet) /\ Plain(c)
    BY <1>1, <2>1, AppendingTypes
  <2>5. between \subseteq PlainContents(WriteSet)
    BY <2>4 DEF PlainContents
  <2>6. Put(f, new, between) /\ UNCHANGED fsync
    BY <1>5 DEF AppendSidecar
  <2> HIDE DEF new, between
  <2> QED
    BY <1>1, <2>1, <2>3, <2>5, <2>6, PutContents
<1>6. ASSUME NEW f \in rest, AppendSidecarFails(f) PROVE ContentsOK'
  <2> DEFINE lines == Records(batch, f)
             left == Appending(disk[f], lines)
  <2>1. f \in Files /\ lines \in Seq(WriteSet)
    BY <1>1, <1>2 DEF Shape
  <2>2. \A c \in left : c \in Contents(WriteSet) /\ Plain(c)
    BY <1>1, <2>1, AppendingTypes
  <2>3. left \subseteq PlainContents(WriteSet)
    BY <2>2 DEF PlainContents
  <2>4. PICK content \in left : Put(f, content, Shorter(left, content))
    BY <1>6 DEF AppendSidecarFails
  <2>5. UNCHANGED fsync
    BY <1>6 DEF AppendSidecarFails, Stops
  <2> HIDE DEF left
  <2>6. Shorter(left, content) \subseteq PlainContents(WriteSet)
    BY <2>3 DEF Shorter
  <2> QED
    BY <1>1, <2>1, <2>3, <2>4, <2>5, <2>6, PutContents
<1>7. ASSUME NEW f \in rest, FlushSidecar(f) PROVE ContentsOK'
  <2>1. /\ UNCHANGED <<fsync, disk>> /\ past'[Temp] = past[Temp]
        /\ \A g \in Files \cup {Main} : past'[g] = past[g] \/ past'[g] = {disk[g]}
    BY <1>1, <1>7, NamesDiffer DEF FlushSidecar, Flush, Shape
  <2> QED
    BY <1>1, <2>1, SameContents
<1>8. ASSUME NEW c \in Appending(disk[Main], <<batch>>) PROVE c \in Contents(MarkerSet)
  <2>1. <<batch>> \in Seq(MarkerSet)
    BY <1>2
  <2> QED
    BY <1>1, <1>8, <2>1, AppendingTypes
<1>9. CASE AppendMain
  <2> DEFINE new == Holding(Append(disk[Main].lines, batch))
             between == Appending(disk[Main], <<batch>>)
  <2>1. Append(disk[Main].lines, batch) \in Seq(MarkerSet)
    BY <1>1, <1>2 DEF Contents
  <2>2. new \in Contents(MarkerSet)
    BY <2>1, HoldingType
  <2>3. between \subseteq Contents(MarkerSet)
    BY <1>8
  <2>4. Put(Main, new, between) /\ UNCHANGED fsync
    BY <1>9 DEF AppendMain
  <2> HIDE DEF new, between
  <2> QED
    BY <1>1, <2>2, <2>3, <2>4, PutMain
<1>10. CASE AppendMainFails
  <2> DEFINE left == Appending(disk[Main], <<batch>>)
  <2>1. left \subseteq Contents(MarkerSet)
    BY <1>8
  <2>2. PICK content \in left : Put(Main, content, Shorter(left, content))
    BY <1>10 DEF AppendMainFails
  <2>3. UNCHANGED fsync
    BY <1>10 DEF AppendMainFails, Stops
  <2> HIDE DEF left
  <2>4. Shorter(left, content) \subseteq Contents(MarkerSet)
    BY <2>1 DEF Shorter
  <2> QED
    BY <1>1, <2>1, <2>2, <2>3, <2>4, PutMain
<1>11. CASE FlushMain
  <2>1. /\ UNCHANGED <<fsync, disk>> /\ past'[Temp] = past[Temp]
        /\ \A g \in Files \cup {Main} : past'[g] = past[g] \/ past'[g] = {disk[g]}
    BY <1>1, <1>11, NamesDiffer DEF FlushMain, Flush, Shape
  <2> QED
    BY <1>1, <2>1, SameContents
<1>12. CASE FlushTemp
  <2>1. plan[target] \in Seq(WriteSet)
    BY <1>12 DEF FlushTemp, ProcessOK, PlanKept
  <2>2. Holding(plan[target]) \in PlainContents(WriteSet)
    BY <2>1, HoldingType
  <2>3. /\ UNCHANGED <<fsync, disk>> /\ past'[Temp] = {Holding(plan[target])}
        /\ \A g \in Files \cup {Main} : past'[g] = past[g]
    BY <1>1, <1>12, NamesDiffer DEF FlushTemp, Shape
  <2> QED
    BY <1>1, <2>2, <2>3, SameContents
<1>13. CASE RenameTemp
  <2> DEFINE new == Holding(plan[target])
  <2>1. target \in DOMAIN plan /\ target \in Files /\ plan[target] \in Seq(WriteSet)
    BY <1>1, <1>13 DEF RenameTemp, ProcessOK, PlanKept, Shape
  <2>2. new \in PlainContents(WriteSet)
    BY <2>1, HoldingType
  <2>3. fsync => past[Temp] = {new}
    BY <1>13 DEF RenameTemp, RInv, Progress, TempOK
  <2> HIDE DEF new
  <2>4. /\ UNCHANGED fsync /\ disk' = [disk EXCEPT ![target] = new]
        /\ past' = IF fsync THEN [past EXCEPT ![target] = @ \cup past[Temp], ![Temp] = {}] ELSE past
    BY <1>13 DEF RenameTemp, new
  <2>5. /\ disk'[Main] = disk[Main] /\ past'[Main] = past[Main] /\ (past'[Temp] = past[Temp] \/ past'[Temp] = {})
        /\ \A g \in Files \ {target} : disk'[g] = disk[g] /\ past'[g] = past[g]
        /\ disk'[target] = new
        /\ IF fsync THEN past'[target] = past[target] \cup {new} ELSE past'[target] = past[target]
    BY <1>1, <2>1, <2>3, <2>4, NamesDiffer DEF Shape
  <2>6. ASSUME NEW g \in Files
        PROVE /\ disk'[g] \in PlainContents(WriteSet) /\ past'[g] \subseteq PlainContents(WriteSet)
              /\ fsync => disk'[g] \in past'[g]
    <3>1. /\ disk[g] \in PlainContents(WriteSet) /\ past[g] \subseteq PlainContents(WriteSet)
          /\ fsync => disk[g] \in past[g]
      BY DEF ContentsOK
    <3>2. CASE g = target /\ fsync
      BY <2>2, <2>5, <3>1, <3>2
    <3>3. CASE g = target /\ ~fsync
      BY <2>2, <2>5, <3>1, <3>3
    <3>4. CASE g # target
      BY <2>5, <3>1, <3>4
    <3> QED
      BY <3>2, <3>3, <3>4
  <2>7. /\ disk'[Main] \in Contents(MarkerSet) /\ past'[Main] \subseteq Contents(MarkerSet)
        /\ past'[Temp] \subseteq PlainContents(WriteSet)
        /\ fsync => disk'[Main] \in past'[Main]
    BY <1>1, <2>5 DEF ContentsOK
  <2> QED
    BY <2>4, <2>6, <2>7 DEF ContentsOK
<1>14. ASSUME NEW f \in DOMAIN plan, RemoveSidecar(f) PROVE ContentsOK'
  <2>1. f \in Files /\ Put(f, Absent, {}) /\ UNCHANGED fsync
    BY <1>1, <1>14 DEF RemoveSidecar, Shape
  <2>2. Absent \in PlainContents(WriteSet)
    BY DEF Absent, PlainContents, Contents, Plain
  <2> QED
    BY <1>1, <2>1, <2>2, PutContents
<1>15. ASSUME NEW f \in DOMAIN plan, WriteTemp(f) PROVE ContentsOK'
  <2> DEFINE between == Appending(Holding(<<>>), plan[f])
  <2>1. plan[f] \in Seq(WriteSet) /\ Holding(<<>>) \in Contents(WriteSet) /\ Plain(Holding(<<>>))
    BY DEF ProcessOK, PlanKept, Holding, Contents, Plain
  <2>2. \A c \in between : c \in Contents(WriteSet) /\ Plain(c)
    BY <2>1, AppendingTypes
  <2>3. between \subseteq PlainContents(WriteSet)
    BY <2>2 DEF PlainContents
  <2>4. past' = IF fsync THEN [past EXCEPT ![Temp] = between] ELSE past
    BY <1>15 DEF WriteTemp
  <2> HIDE DEF between
  <2>5. /\ UNCHANGED <<fsync, disk>> /\ (past'[Temp] = between \/ past'[Temp] = past[Temp])
        /\ \A g \in Files \cup {Main} : past'[g] = past[g]
    BY <1>1, <1>15, <2>4, NamesDiffer DEF WriteTemp, Shape
  <2> QED
    BY <1>1, <2>3, <2>5, SameContents
<1>16. ASSUME NEW f \in DOMAIN plan, ReplaceFails(f) PROVE ContentsOK'
  <2>1. /\ UNCHANGED <<fsync, disk>> /\ (past'[Temp] = {} \/ past'[Temp] = past[Temp])
        /\ \A g \in Files \cup {Main} : past'[g] = past[g]
    BY <1>1, <1>16, NamesDiffer DEF ReplaceFails, Shape
  <2> QED
    BY <1>1, <2>1, SameContents
<1>17. CASE Open
  <2>1. CASE disk[Main].torn
    <3>1. Put(Main, Untorn(disk[Main]), {}) /\ UNCHANGED fsync
      BY <1>17, <2>1 DEF Open
    <3>2. Untorn(disk[Main]) \in Contents(MarkerSet)
      BY <1>1 DEF Untorn, Contents
    <3> QED
      BY <1>1, <3>1, <3>2, PutMain
  <2>2. CASE ~disk[Main].torn
    BY <1>3, <1>17, <2>2 DEF Open
  <2> QED
    BY <2>1, <2>2
<1>18. ASSUME NEW f \in Files, ReadSidecar(f) PROVE ContentsOK'
  <2>1. Put(f, Untorn(disk[f]), {}) /\ UNCHANGED fsync
    BY <1>18 DEF ReadSidecar
  <2>2. Untorn(disk[f]) \in PlainContents(WriteSet)
    BY <1>1 DEF Untorn, PlainContents, Contents, Plain
  <2> QED
    BY <1>1, <2>1, <2>2, PutContents
<1>19. ASSUME NEW f \in Files, TruncateTail(f) PROVE ContentsOK'
  <2>1. Put(f, Holding(ConfirmedLines(f)), {}) /\ UNCHANGED fsync
    BY <1>19 DEF TruncateTail
  <2>2. ConfirmedLines(f) \in Seq(WriteSet)
    BY FilesOKNow, ConfirmedFacts DEF RInv
  <2>3. Holding(ConfirmedLines(f)) \in PlainContents(WriteSet)
    BY <2>2, HoldingType
  <2> QED
    BY <1>1, <2>1, <2>3, PutContents
<1>20. CASE PowerLoss
  <2>1. /\ UNCHANGED <<fsync, disk>> /\ past'[Temp] = {}
        /\ \A g \in Files \cup {Main} : past'[g] = past[g]
    BY <1>1, <1>20, NamesDiffer DEF PowerLoss, Shape
  <2> QED
    BY <1>1, <2>1, SameContents
<1>21. ASSUME NEW f \in Undecided, NEW content \in past[f], Survives(f, content) PROVE ContentsOK'
  <2>1. /\ UNCHANGED fsync /\ f \in Files \cup {Main} /\ f # Temp
        /\ disk' = [disk EXCEPT ![f] = content] /\ past' = [past EXCEPT ![f] = {content}]
    BY <1>21, NamesDiffer DEF Survives, Undecided
  <2>2. /\ disk'[f] = content /\ past'[f] = {content} /\ past'[Temp] = past[Temp]
        /\ \A g \in (Files \cup {Main}) \ {f} : disk'[g] = disk[g] /\ past'[g] = past[g]
    BY <1>1, <2>1 DEF Shape
  <2>3. CASE f = Main
    BY <2>1, <2>2, <2>3, NamesDiffer DEF ContentsOK
  <2>4. CASE f \in Files
    <3>1. content \in PlainContents(WriteSet)
      BY <2>4 DEF ContentsOK
    <3>2. ASSUME NEW g \in Files
          PROVE /\ disk'[g] \in PlainContents(WriteSet) /\ past'[g] \subseteq PlainContents(WriteSet)
                /\ fsync => disk'[g] \in past'[g]
      <4>1. CASE g = f
        BY <2>2, <3>1, <4>1
      <4>2. CASE g # f
        BY <2>2, <4>2 DEF ContentsOK
      <4> QED
        BY <4>1, <4>2
    <3>3. disk'[Main] = disk[Main] /\ past'[Main] = past[Main]
      BY <2>2, <2>4, NamesDiffer
    <3> QED
      BY <2>1, <2>2, <3>2, <3>3 DEF ContentsOK
  <2> QED
    BY <2>1, <2>3, <2>4
<1>22. CASE UNCHANGED vars
  BY <1>3, <1>22 DEF vars, files
<1> QED
  BY <1>4, <1>5, <1>6, <1>7, <1>9, <1>10, <1>11, <1>12, <1>13, <1>14, <1>15, <1>16, <1>17, <1>18,
     <1>19, <1>20, <1>21, <1>22 DEF Next

TInv == RInv /\ ProcessOK /\ ContentsOK

LEMMA TInvHolds == Spec => []TInv
<1>1. Init => TInv
  BY InitInv, InitStable, InitTypes DEF RInv, TInv
<1>2. TInv /\ [Next]_vars => TInv'
  BY NextRInv, ProcessStep, ContentsStep DEF TInv
<1> QED
  BY <1>1, <1>2, PTL DEF Spec

(* The files hold markers and records, with fsync every file may be left   *)
(* as it is, and whichever way a commit, a replacement or a recovery ends, *)
(* nothing of its batch, its plan or its target stays behind for the next  *)
(* one (storage.ts:278-307, 508-533).                                      *)
THEOREM Typing == Spec => []TypeOK
<1>1. TInv => TypeOK
  <2> SUFFICES ASSUME TInv PROVE TypeOK
    OBVIOUS
  <2>1. /\ fsync \in BOOLEAN /\ tidy \in BOOLEAN /\ faults \in 0..MaxFaults
        /\ tried \in 0..MaxCommits /\ acked \subseteq 1..tried
        /\ rest \subseteq Files /\ DOMAIN plan \subseteq Files /\ pc \in Steps
    BY DEF TInv, RInv, Inv, Shape, ProcessOK, Counted
  <2>2. /\ disk[Main] \in Contents(MarkerSet)
        /\ \A f \in Files : disk[f] \in Contents(WriteSet)
    BY DEF TInv, ContentsOK, PlainContents
  <2>3. /\ \A f \in Files \cup {Main} : past[f] # {} <=> fsync
        /\ fsync => \A f \in Files \cup {Main} : disk[f] \in past[f] \/ pc = "lost"
    BY <2>1 DEF TInv, RInv, Stable, NoPast, ContentsOK
  <2>4. /\ temps \subseteq Files /\ batch \in MarkerSet
        /\ \A f \in DOMAIN plan : plan[f] \in Seq(WriteSet)
        /\ pc \in {"open", "closed", "lost", "list", "read"} =>
             batch = NoMarker /\ rest = {} /\ plan = NoPlan /\ target = Main
        /\ pc \in {"flushTemp", "rename"} => target \in DOMAIN plan /\ target \in temps
    BY DEF TInv, ProcessOK, BatchKept, PlanKept, Early, Working
  <2>5. mem \in [Files -> [st : Statuses, revs : Seq(WriteSet)]]
    BY DEF TInv, ProcessOK, MemSet
  <2> QED
    BY <2>1, <2>2, <2>3, <2>4, <2>5 DEF TypeOK
<1> QED
  BY <1>1, TInvHolds, PTL

-----------------------------------------------------------------------------
(* What reads return *)

(* Every log that a power loss may leave is one a Session can have written.*)
Orderly == \A log \in Logs : Regular(WritesOf(log))

(* So is the log that the commit underway will make.                       *)
Prepared == pc \in Early => Single(batch) /\ Regular(WritesOf(Append(Log, batch)))

(* Memory is the log replayed.                                             *)
Faithful == pc \in Operating \cup {"tails"} => mem = StateOf(Log)

SInv == TInv /\ Orderly /\ Prepared /\ Faithful

LEMMA NoWrites == WritesOf(<<>>) = <<>> /\ Regular(<<>>) /\ StateOf(<<>>) = Nothing
<1>1. WritesOf(<<>>) \in Seq(WriteSet) /\ ToSet(WritesOf(<<>>)) = WritesIn(<<>>)
  <2>1. LogOK(<<>>)
    BY DEF LogOK, InOrder
  <2> QED
    BY <2>1, LogOrdered
<1>2. WritesIn(<<>>) = {}
  BY DEF WritesIn
<1>3. WritesOf(<<>>) = <<>>
  <2> DEFINE s == WritesOf(<<>>)
  <2>1. s \in Seq(WriteSet) /\ ToSet(s) = {}
    BY <1>1, <1>2
  <2> HIDE DEF s
  <2>2. s = <<>>
    <3>1. \A i \in 1..Len(s) : FALSE
      BY <2>1 DEF ToSet
    <3> QED
      BY <2>1, <3>1
  <2> QED
    BY <2>2 DEF s
<1>4. Regular(<<>>)
  BY DEF Regular
<1>5. Replay(Nothing, <<>>) = Nothing
  <2> DEFINE s == <<>>
  <2>0. s \in Seq(WriteSet) /\ Len(s) = 0
    OBVIOUS
  <2> HIDE DEF s
  <2>1. PICK g \in [0..Len(s) -> MemSet] : ReplaySteps(g, Nothing, s)
    BY <2>0, NothingType, ReplayRecursion
  <2> QED
    BY <2>0, <2>1 DEF ReplaySteps, s
<1> QED
  BY <1>3, <1>4, <1>5 DEF StateOf

LEMMA SInvInit == Init => SInv
<1> SUFFICES ASSUME Init PROVE SInv
  OBVIOUS
<1>1. TInv
  BY InitInv, InitStable, InitTypes DEF RInv, TInv
<1>2. Logs = {<<>>}
  BY NamesDiffer DEF Init, Logs, Log, Absent
<1>3. Orderly
  BY <1>2, NoWrites DEF Orderly
<1> QED
  BY <1>1, <1>3 DEF Init, SInv, Prepared, Faithful, Early, Operating, Working

LEMMA OrderlyStep ==
  ASSUME SInv, [Next]_vars
  PROVE Orderly'
<1>1. MainStep
  BY EveryStep DEF SInv, TInv, RInv, Inv
<1>2. Orderly /\ Log \in Logs
  BY DEF SInv, Logs
<1>3. CASE SameLog
  <2>1. Logs' \subseteq Logs
    BY <1>3 DEF SameLog, Logs
  <2> QED
    BY <1>2, <2>1 DEF Orderly
<1>4. CASE Published
  <2>1. Regular(WritesOf(Append(Log, batch)))
    BY <1>4 DEF Published, SInv, Prepared, Early
  <2>2. Logs' \subseteq Logs \cup {Append(Log, batch)}
    BY <1>4 DEF Published, Logs
  <2> QED
    BY <1>2, <2>1, <2>2 DEF Orderly
<1>5. CASE Cut
  <2>1. Logs' \subseteq Logs
    BY <1>5 DEF Cut, Logs
  <2> QED
    BY <1>2, <2>1 DEF Orderly
<1> QED
  BY <1>1, <1>3, <1>4, <1>5 DEF MainStep

(* How a step leads to a state in which the storage has a memory.          *)
Keeps == /\ pc \in Operating \cup {"tails"} /\ UNCHANGED mem
         /\ pc' \in Early => pc \in Early /\ UNCHANGED batch

LEMMA Course ==
  ASSUME RInv, [Next]_vars, pc' \in Operating \cup {"tails"}
  PROVE Begin \/ AppendMain \/ Confirm \/ (Keeps /\ Log' = Log)
<1> USE DEF Operating, Early, Working
<1>1. ~(FlushSidecarFails \/ AppendMainFails \/ Close \/ Crash \/ \E f \in rest : AppendSidecarFails(f))
  BY DEF FlushSidecarFails, AppendMainFails, Close, Crash, AppendSidecarFails, Stops
<1>2. ~(\/ Open \/ RemoveTemps \/ PowerLoss
        \/ \E f \in Files : ReadSidecar(f)
        \/ \E f \in Undecided : \E content \in past[f] : Survives(f, content))
  BY DEF Open, RemoveTemps, PowerLoss, ReadSidecar, Survives
<1>3. CASE UNCHANGED vars
  BY <1>3 DEF vars, files, Keeps, Log
<1>5. ASSUME Next, ~Begin, ~AppendMain, ~Confirm
      PROVE Keeps
  BY <1>1, <1>2, <1>5 DEF Next, FlushMain, FlushMainFails, FlushTemp, RenameTemp, RemoveSidecar, WriteTemp,
     ReplaceFails, Replaced, Done, EndRecovery, Reclaim, TruncateTail, Keeps, AppendSidecar, FlushSidecar
<1>6. Inv /\ Shape /\ MainStep
  BY EveryStep DEF RInv, Inv
<1>7. ASSUME Next, ~AppendMain, pc \in Operating \cup {"tails"} PROVE Log' = Log
  <2>1. pc = "publish" => FALSE
    BY <1>1, <1>7 DEF Next, Begin, AppendSidecar, FlushSidecar, FlushMain, FlushMainFails, FlushTemp, RenameTemp,
       RemoveSidecar, WriteTemp, ReplaceFails, Confirm, EndRecovery, TruncateTail, Open, RemoveTemps, PowerLoss,
       ReadSidecar, Survives
  <2> QED
    BY <1>6, <1>7, <2>1 DEF MainStep, SameLog, Published, Cut
<1> QED
  BY <1>3, <1>5, <1>7 DEF Keeps

LEMMA PreparedStep ==
  ASSUME SInv, [Next]_vars
  PROVE Prepared'
<1> SUFFICES ASSUME pc' \in Early PROVE Single(batch') /\ Regular(WritesOf(Append(Log', batch')))
  BY DEF Prepared
<1>1. RInv /\ ProcessOK /\ Inv /\ Stable
  BY DEF SInv, TInv, RInv
<1>2. CASE Begin
  <2>1. PICK b \in Batches : batch' = Marker(NextSeq, tried + 1, b)
    BY <1>2 DEF Begin
  <2>2. Log' = Log /\ pc = "open"
    BY <1>2 DEF Begin, files, Log
  <2>3. NextSeq \in Nat /\ tried + 1 \in Nat
    BY <1>1, NextSeqIsNew DEF Inv, Shape
  <2>4. LogOK(Log) /\ Regular(WritesOf(Log)) /\ mem = StateOf(Log)
    BY <1>1, <2>2 DEF Stable, SInv, Orderly, Logs, Faithful, Operating
  <2> HIDE DEF Log
  <2> QED
    BY <2>1, <2>2, <2>3, <2>4, BatchRegular
<1>3. CASE AppendMain \/ Confirm
  BY <1>3 DEF AppendMain, Reclaim, Done, Confirm, Early
<1>4. CASE Keeps /\ Log' = Log
  BY <1>4 DEF Keeps, SInv, Prepared
<1> QED
  BY <1>1, <1>2, <1>3, <1>4, Course DEF Operating

LEMMA FaithfulStep ==
  ASSUME SInv, [Next]_vars
  PROVE Faithful'
<1> SUFFICES ASSUME pc' \in Operating \cup {"tails"} PROVE mem' = StateOf(Log')
  BY DEF Faithful, StateOf
<1>1. RInv /\ ProcessOK /\ Inv /\ Stable /\ LogOK(Log) /\ Regular(WritesOf(Log))
  BY DEF SInv, TInv, RInv, Stable, Orderly, Logs
<1>2. CASE Begin
  BY <1>2 DEF Begin, files, SInv, Faithful, Operating, Log
<1>3. CASE AppendMain
  <2>1. Log' = Append(Log, batch) /\ mem' = Replay(mem, batch.writes) /\ pc = "publish"
    BY <1>1, <1>3 DEF AppendMain, Put, Holding, Log, Inv, Shape
  <2>2. mem = StateOf(Log)
    BY <2>1 DEF SInv, Faithful, Operating, Early
  <2>3. batch \in MarkerSet /\ batch.writes \in Seq(WriteSet) /\ Log \in Seq(MarkerSet)
    BY <1>1 DEF ProcessOK, BatchKept, MarkerSet, LogOK
  <2>4. WritesOf(Log) \in Seq(WriteSet)
    BY <1>1, LogOrdered
  <2>5. WritesOf(Append(Log, batch)) = WritesOf(Log) \o batch.writes
    BY <2>3, WritesOfMore
  <2>6. Replay(Nothing, WritesOf(Log) \o batch.writes) = Replay(Replay(Nothing, WritesOf(Log)), batch.writes)
    BY <2>3, <2>4, NothingType, ReplayMore
  <2> QED
    BY <2>1, <2>2, <2>5, <2>6 DEF StateOf
<1>4. CASE Confirm
  <2>1. FilesOK
    BY <1>1, FilesOKNow
  <2>2. mem' = Replay(Nothing, Replayed) /\ Log' = Log
    BY <1>4, <2>1, NotCorrupt DEF Confirm, files, Log
  <2> QED
    BY <1>1, <2>1, <2>2, KeptState
<1>5. CASE Keeps /\ Log' = Log
  BY <1>5 DEF Keeps, SInv, Faithful
<1> QED
  BY <1>1, <1>2, <1>3, <1>4, <1>5, Course

LEMMA NextSInv == SInv /\ [Next]_vars => SInv'
<1>1. TInv /\ [Next]_vars => TInv'
  BY NextRInv, ProcessStep, ContentsStep DEF TInv
<1> QED
  BY <1>1, OrderlyStep, PreparedStep, FaithfulStep DEF SInv

LEMMA SInvHolds == Spec => []SInv
BY SInvInit, NextSInv, PTL DEF Spec

(* The abstract store, as ImplementsAtomicStore maps it.                   *)
Read == IF Serving THEN mem ELSE Nothing

LEMMA ReadsLog ==
  ASSUME SInv
  PROVE Read = IF Serving THEN StateOf(Log) ELSE StateOf(<<>>)
<1>1. Serving => pc \in Operating
  BY DEF SInv, TInv, ProcessOK, BatchKept, Serving, Operating
<1>2. Serving => mem = StateOf(Log)
  BY <1>1 DEF SInv, Faithful
<1> QED
  BY <1>2, NoWrites DEF Read

LEMMA OptionKept ==
  ASSUME [Next]_vars
  PROVE fsync' = fsync
BY DEF Next, vars, Begin, FlushSidecarFails, Stops, AppendSidecar, AppendSidecarFails, FlushSidecar,
   AppendMain, AppendMainFails, FlushMain, FlushMainFails, FlushTemp, RenameTemp, RemoveSidecar, WriteTemp,
   ReplaceFails, Open, RemoveTemps, Confirm, EndRecovery, ReadSidecar, TruncateTail, Close, Crash, PowerLoss, Survives

LEMMA StillLost ==
  ASSUME [Next]_vars, pc = "lost"
  PROVE pc' \in {"lost", "list"}
BY DEF Next, vars, Begin, FlushSidecarFails, Stops, AppendSidecar, AppendSidecarFails, FlushSidecar,
   AppendMain, AppendMainFails, FlushMain, FlushMainFails, FlushTemp, RenameTemp, RemoveSidecar, WriteTemp,
   ReplaceFails, Open, RemoveTemps, Confirm, EndRecovery, ReadSidecar, TruncateTail, Close, Crash, PowerLoss, Survives

LEMMA AtomicInit ==
  ASSUME Init
  PROVE Atomic!Init
<1>1. disk[Main].lines = <<>> /\ ~Serving
  BY DEF Init, Absent, Serving
<1>2. fsync \in BOOLEAN
  BY BoundsAssumption DEF Init
<1> QED
  BY <1>1, <1>2, NoWrites DEF Atomic!Init

LEMMA AtomicStep ==
  ASSUME SInv, SInv', [Next]_vars
  PROVE [Atomic!Next]_<<Log, Serving, Read, fsync>>
<1>1. MainStep
  BY EveryStep DEF SInv, TInv, RInv, Inv
<1>2. Read = IF Serving THEN StateOf(Log) ELSE StateOf(<<>>)
  BY ReadsLog
<1>3. Read' = IF Serving' THEN StateOf(Log') ELSE StateOf(<<>>)
  <2>1. (SInv => Read = IF Serving THEN StateOf(Log) ELSE StateOf(<<>>))'
    BY ReadsLog, PTL
  <2> QED
    BY <2>1 DEF StateOf
<1>4. fsync' = fsync /\ Log \in Seq(MarkerSet)
  BY OptionKept DEF SInv, TInv, RInv, Inv, LogInv
<1> USE DEF Atomic!Next
<1>5. ASSUME Log' = Log PROVE [Atomic!Next]_<<Log, Serving, Read, fsync>>
  <2>1. CASE Serving <=> Serving'
    BY <1>2, <1>3, <1>4, <1>5, <2>1
  <2>2. CASE Serving /\ ~Serving'
    <3>1. Atomic!Stop
      BY <1>3, <1>5, <2>2 DEF Atomic!Stop, Log, Read
    <3> QED
      BY <1>4, <3>1
  <2>3. CASE ~Serving /\ Serving'
    <3>1. Atomic!Open
      BY <1>3, <1>5, <2>3 DEF Atomic!Open, Log, Read
    <3> QED
      BY <1>4, <3>1
  <2> QED
    BY <2>1, <2>2, <2>3
<1>6. CASE Published
  <2>1. Log' = Append(Log, batch) /\ pc = "publish"
    BY <1>6 DEF Published
  <2>2. Serving
    <3>1. batch.by \in 1..tried /\ NoMarker.by = 0
      BY <2>1 DEF SInv, TInv, ProcessOK, BatchKept, Early, NoMarker
    <3> QED
      BY <3>1 DEF Serving
  <2>3. Len(Log') = Len(Log) + 1 /\ SubSeq(Log', 1, Len(Log)) = Log
    BY <1>4, <2>1
  <2>4. Atomic!Extended
    BY <2>3 DEF Atomic!Extended, Log
  <2>5. CASE Serving'
    <3>1. Atomic!Commit
      BY <1>3, <2>2, <2>4, <2>5 DEF Atomic!Commit, Log, Read
    <3> QED
      BY <1>4, <3>1
  <2>6. CASE ~Serving'
    <3>1. Atomic!Stop
      BY <1>3, <2>2, <2>4, <2>6 DEF Atomic!Stop, Read
    <3> QED
      BY <1>4, <3>1
  <2> QED
    BY <2>5, <2>6
<1>7. CASE Cut
  <2>1. pc = "lost" /\ pc' \in {"lost", "list"}
    BY <1>7, StillLost DEF Cut
  <2>2. ~Serving /\ ~Serving'
    BY <2>1 DEF Serving, SInv, TInv, ProcessOK, BatchKept, Early, Working
  <2>3. fsync
    BY <2>1 DEF SInv, TInv, RInv, Inv, Shape
  <2>4. \E n \in 0..Len(Log) : Log' = SubSeq(Log, 1, n)
    BY <1>7 DEF Cut, SInv, TInv, RInv, Inv, PastInv
  <2>5. Read' = Read /\ Serving' = Serving
    BY <1>2, <1>3, <2>2 DEF Serving
  <2>6. Atomic!Lose
    BY <2>2, <2>3, <2>4, <2>5 DEF Atomic!Lose, Log, Read
  <2> QED
    BY <1>4, <2>6
<1> QED
  BY <1>1, <1>5, <1>6, <1>7 DEF MainStep, SameLog

(* Every step of the storage is a commit, a stop, a loss or an opening of  *)
(* an atomic store, or changes nothing of it: reads return the whole log   *)
(* replayed, also after a recovery that had only the records reclamation   *)
(* left; a commit that failed is in it or not; and only a power loss takes *)
(* commits away, the last ones (storage.ts:278-307, 717-759,               *)
(* spec.md:5423-5451).                                                     *)
THEOREM StorageIsAtomic == Spec => ImplementsAtomicStore
<1>1. Init => Atomic!Init
  BY AtomicInit
<1>2. SInv /\ SInv' /\ [Next]_vars => [Atomic!Next]_<<disk[Main].lines, Serving, IF Serving THEN mem ELSE Nothing, fsync>>
  BY AtomicStep DEF Log, Read
<1> QED
  BY <1>1, <1>2, SInvHolds, PTL DEF Spec, ImplementsAtomicStore, Atomic!Spec

-----------------------------------------------------------------------------
(* What a commit makes superfluous *)

Own(f) == {w \in ToSet(batch.writes) : w.file = f}
New(f) == ToSet(Records(batch, f))

(* What the marker of a commit adds to the log p, of one file.             *)
Adds(p, f) ==
  /\ Of(p, f) = Of(Log, f) \cup Own(f) /\ StoredIn(p, f) = StoredIn(Log, f) \cup New(f)
  /\ New(f) = {w \in Own(f) : w.op \in Stored}
  /\ \A v \in Of(Log, f), w \in Own(f) : v.op \notin {"end", "retire"} /\ w.op \notin Creates
  /\ \A w \in Of(p, f) : w.op \in (IF f \in Tasks THEN {"live", "end"} ELSE Creates \cup Changes)
  /\ \A v \in StoredIn(Log, f), w \in New(f) : Before(v, w)
  /\ f \in Docs => \A v, w \in New(f) : v = w
  /\ StoredIn(p, f) \subseteq WriteSet

LEMMA BatchAdds ==
  ASSUME SInv, pc = "publish", NEW f \in Files
  PROVE Adds(Append(Log, batch), f)
<1> DEFINE p == Append(Log, batch)
<1>0. RInv /\ Inv /\ Single(batch) /\ Regular(WritesOf(p)) /\ LogOK(Log)
  BY DEF SInv, TInv, RInv, Stable, Prepared, Early
<1>1. Follows(batch, Log) /\ batch \in MarkerSet /\ Log \in Seq(MarkerSet)
  BY <1>0, BatchFollows DEF Early
<1>2. Of(p, f) = Of(Log, f) \cup Own(f) /\ StoredIn(p, f) = StoredIn(Log, f) \cup New(f)
  BY <1>1, InMore DEF Own, New
<1>3. New(f) = {w \in Own(f) : w.op \in Stored}
  BY <1>1, RecordsFacts DEF New, Own
<1>4. LogOK(p)
  BY <1>0, <1>1, LogOKMore
<1>5. WritesOf(p) = WritesOf(Log) \o batch.writes
  BY <1>1, WritesOfMore
<1>6. WritesOf(Log) \in Seq(WriteSet) /\ batch.writes \in Seq(WriteSet)
  BY <1>0, <1>1, LogOrdered DEF MarkerSet
<1>7. \A v \in Of(Log, f) : \E i \in 1..Len(WritesOf(Log)) : v = WritesOf(Log)[i]
  BY <1>0, LogOrdered DEF Of
<1>8. \A w \in Own(f) : \E j \in 1..Len(batch.writes) : w = batch.writes[j]
  BY <1>6, InSeq DEF Own
<1>9. \A x : x \in WritesIn(p) => \E i \in 1..Len(WritesOf(p)) : x = WritesOf(p)[i]
  BY <1>4, LogOrdered
<1> HIDE DEF p
<1>10. ASSUME NEW v \in Of(Log, f), NEW w \in Own(f) PROVE v.op \notin {"end", "retire"} /\ w.op \notin Creates
  <2> DEFINE s == WritesOf(Log)
             t == batch.writes
  <2>1. PICK i \in 1..Len(s) : v = s[i]
    BY <1>7
  <2>2. PICK j \in 1..Len(t) : w = t[j]
    BY <1>8
  <2> HIDE DEF s, t
  <2>3. s \in Seq(WriteSet) /\ t \in Seq(WriteSet)
    BY <1>6 DEF s, t
  <2>4. (s \o t)[i] = v /\ (s \o t)[Len(s) + j] = w /\ Len(s \o t) = Len(s) + Len(t) /\ Len(s) \in Nat /\ Len(t) \in Nat
    BY <2>1, <2>2, <2>3
  <2>5. i \in 1..Len(s \o t) /\ Len(s) + j \in 1..Len(s \o t) /\ i < Len(s) + j
    BY <2>1, <2>2, <2>4
  <2>6. MayFollow(v, w)
    BY <1>0, <1>5, <2>4, <2>5 DEF Regular, s, t
  <2> QED
    BY <2>6 DEF MayFollow, Of, Own
<1>11. ASSUME NEW w \in Of(p, f) PROVE w.op \in (IF f \in Tasks THEN {"live", "end"} ELSE Creates \cup Changes)
  <2>1. PICK i \in 1..Len(WritesOf(p)) : w = WritesOf(p)[i]
    BY <1>9 DEF Of
  <2>2. w.file = f
    BY DEF Of
  <2> QED
    BY <1>0, <2>1, <2>2 DEF Regular
<1>12. ASSUME NEW v \in StoredIn(Log, f), NEW w \in New(f) PROVE Before(v, w)
  <2>1. v.seq < batch.seq
    BY <1>0, Older DEF Early
  <2>2. PICK j \in 1..Len(batch.writes) : w = batch.writes[j]
    BY <1>3, <1>8
  <2>3. w.seq = batch.seq
    BY <1>1, <2>2 DEF Follows, MarkerOK
  <2> QED
    BY <2>1, <2>3 DEF Before
<1>13. f \in Docs => \A v, w \in New(f) : v = w
  BY <1>0, <1>3 DEF Single, Own
<1>14. StoredIn(p, f) \subseteq WriteSet
  BY <1>4, OfTypes
<1> QED
  BY <1>2, <1>3, <1>10, <1>11, <1>12, <1>13, <1>14 DEF Adds, p

LEMMA NothingNew ==
  ASSUME NEW p, NEW f, Adds(p, f), Own(f) = {}
  PROVE New(f) = {} /\ Needed(p, f) = Needed(Log, f)
<1>1. New(f) = {} /\ Of(p, f) = Of(Log, f) /\ StoredIn(p, f) = StoredIn(Log, f)
  BY DEF Adds
<1> QED
  BY <1>1 DEF Needed, EndedIn, RetiredIn, Covered, Current

(* A file all of whose records are needed.                                 *)
LEMMA AllNew ==
  ASSUME NEW p, NEW f, Adds(p, f), ~Current(p, f), ~EndedIn(p, f)
  PROVE Needed(p, f) = Needed(Log, f) \cup New(f)
<1>1. ~Current(Log, f) /\ ~EndedIn(Log, f)
  BY DEF Adds, Current, EndedIn
<1>2. Needed(p, f) = StoredIn(p, f) /\ Needed(Log, f) = StoredIn(Log, f)
  BY <1>1 DEF Needed, RetiredIn, Covered
<1> QED
  BY <1>2 DEF Adds

LEMMA NewUncovered ==
  ASSUME NEW p, NEW f \in Docs, Adds(p, f), NEW w \in New(f)
  PROVE ~Covered(p, f, w)
<1> SUFFICES ASSUME NEW b \in StoredIn(p, f), Before(w, b) PROVE FALSE
  BY DEF Covered
<1>1. w \in WriteSet /\ b \in WriteSet
  BY DEF Adds
<1>2. CASE b \in New(f)
  <2>1. b = w
    BY <1>2 DEF Adds
  <2> QED
    BY <1>1, <2>1, BeforeOrder
<1>3. CASE b \in StoredIn(Log, f)
  <2>1. Before(b, w)
    BY <1>3 DEF Adds
  <2> QED
    BY <1>1, <2>1, BeforeOrder
<1> QED
  BY <1>2, <1>3 DEF Adds

(* A document without history that is not retired: a base makes all that   *)
(* is older superfluous, anything else nothing.                            *)
LEMMA CurrentNeeds ==
  ASSUME NEW p, NEW f \in Docs, Adds(p, f), Current(p, f), ~Retires(p, f)
  PROVE IF \E b \in Own(f) : b.op = "base" THEN Needed(p, f) = New(f)
        ELSE Needed(p, f) = Needed(Log, f) \cup New(f)
<1>1. ~EndedIn(p, f) /\ ~EndedIn(Log, f) /\ ~RetiredIn(p, f) /\ ~RetiredIn(Log, f)
  BY FilesAssumption DEF EndedIn, RetiredIn, Retires, Adds
<1>2. \A w \in New(f) : w \in Needed(p, f)
  BY <1>1, NewUncovered DEF Needed, Adds
<1>3. Needed(p, f) \subseteq StoredIn(Log, f) \cup New(f)
  BY DEF Needed, Adds
<1>4. ASSUME NEW b \in Own(f), b.op = "base", NEW w \in StoredIn(Log, f) PROVE w \notin Needed(p, f)
  <2>1. b \in New(f) /\ b.op \in HasBase
    BY <1>4 DEF Adds, Stored, HasBase
  <2>2. Covered(p, f, w)
    BY <2>1 DEF Covered, Adds
  <2> QED
    BY <2>2 DEF Needed
<1>5. ASSUME ~ \E b \in Own(f) : b.op = "base", NEW w \in StoredIn(Log, f)
      PROVE Covered(p, f, w) <=> Covered(Log, f, w)
  <2>1. w \in Of(Log, f)
    BY DEF StoredIn
  <2>2. \A b \in New(f) : b.op \notin HasBase
    BY <1>5, <2>1 DEF Adds, HasBase
  <2>3. Current(Log, f)
    BY <2>1 DEF Current, Adds, Creates
  <2> QED
    BY <2>2, <2>3 DEF Covered, Adds
<1>6. ASSUME ~ \E b \in Own(f) : b.op = "base" PROVE Needed(p, f) = Needed(Log, f) \cup New(f)
  <2>1. \A w \in StoredIn(Log, f) : w \in Needed(p, f) <=> w \in Needed(Log, f)
    BY <1>1, <1>5, <1>6 DEF Needed, Adds
  <2>2. Needed(Log, f) \subseteq StoredIn(Log, f)
    BY DEF Needed
  <2> QED
    BY <1>2, <1>3, <2>1, <2>2
<1> QED
  BY <1>2, <1>3, <1>4, <1>6

(* The plan of a commit is what its log needs, of the files it replaces;   *)
(* of the others, it needs what it needed and what is new.                 *)
PlansNeeded(p, f) ==
  /\ f \in Superseded(batch) => ToSet(planReclamations(batch)[f]) = Needed(p, f)
  /\ f \notin Superseded(batch) => Needed(p, f) = Needed(Log, f) \cup New(f)

LEMMA PlanOfTask ==
  ASSUME SInv, pc = "publish", NEW f \in Tasks
  PROVE PlansNeeded(Append(Log, batch), f)
<1> DEFINE p == Append(Log, batch)
<1>0. f \in Files /\ f \notin Docs
  BY FilesAssumption DEF Files
<1>1. Adds(p, f) /\ LogOK(Log) /\ Regular(WritesOf(Log)) /\ mem = StateOf(Log)
  BY <1>0, BatchAdds DEF SInv, TInv, RInv, Stable, Orderly, Logs, Faithful, Operating, Early
<1>2. batch \in MarkerSet
  BY DEF SInv, TInv, ProcessOK, BatchKept
<1>3. Has(batch, f, "end") <=> \E w \in Own(f) : w.op = "end"
  BY <1>2, HasFacts DEF Own
<1>4. f \in Superseded(batch) <=> Has(batch, f, "end") /\ (mem[f].st = "live" \/ Records(batch, f) # <<>>)
  BY <1>0 DEF Superseded
<1> HIDE DEF p
<1>5. CASE Has(batch, f, "end")
  <2>1. Needed(p, f) = {}
    BY <1>1, <1>3, <1>5 DEF Needed, EndedIn, Adds
  <2>2. f \in Superseded(batch) => ToSet(planReclamations(batch)[f]) = {}
    BY <1>0 DEF planReclamations, ToSet
  <2>3. ASSUME f \notin Superseded(batch) PROVE Needed(Log, f) = {} /\ New(f) = {}
    <3>1. mem[f].st # "live" /\ Records(batch, f) = <<>>
      BY <1>4, <1>5, <2>3
    <3>2. New(f) = {}
      BY <3>1 DEF New, ToSet
    <3>3. CASE Of(Log, f) = {}
      BY <3>2, <3>3 DEF Needed, StoredIn
    <3>4. CASE Of(Log, f) # {}
      <4>1. EndedIn(Log, f)
        BY <1>1, <3>1, <3>4, TaskState
      <4> QED
        BY <3>2, <4>1 DEF Needed
    <3> QED
      BY <3>3, <3>4
  <2> QED
    BY <2>1, <2>2, <2>3 DEF PlansNeeded, p
<1>6. CASE ~Has(batch, f, "end")
  <2>1. f \notin Superseded(batch)
    BY <1>4, <1>6
  <2>2. CASE EndedIn(Log, f)
    <3>1. Own(f) = {}
      BY <1>1, <2>2 DEF EndedIn, Adds
    <3> QED
      BY <1>1, <2>1, <3>1, NothingNew DEF PlansNeeded, p
  <2>3. CASE ~EndedIn(Log, f)
    <3>1. ~EndedIn(p, f)
      BY <1>1, <1>3, <1>6, <2>3 DEF EndedIn, Adds
    <3>2. ~Current(p, f)
      BY <1>1 DEF Current, Adds
    <3> QED
      BY <1>1, <2>1, <3>1, <3>2, AllNew DEF PlansNeeded, p
  <2> QED
    BY <2>2, <2>3
<1> QED
  BY <1>5, <1>6

LEMMA PlanOfDocument ==
  ASSUME SInv, pc = "publish", NEW f \in Docs
  PROVE PlansNeeded(Append(Log, batch), f)
<1> DEFINE p == Append(Log, batch)
<1>0. f \in Files /\ f \notin Tasks
  BY FilesAssumption DEF Files
<1>1. Adds(p, f) /\ LogOK(Log) /\ Regular(WritesOf(Log)) /\ mem = StateOf(Log)
  BY <1>0, BatchAdds DEF SInv, TInv, RInv, Stable, Orderly, Logs, Faithful, Operating, Early
<1>2. batch \in MarkerSet
  BY DEF SInv, TInv, ProcessOK, BatchKept
<1>3. \A op : Has(batch, f, op) <=> \E w \in Own(f) : w.op = op
  BY <1>2, HasFacts DEF Own
<1>4. f \in Superseded(batch) <=> isCurrentOnlyDocument(f, batch) /\ (Has(batch, f, "retire") \/ Has(batch, f, "base"))
  BY <1>0 DEF Superseded
<1>5. f \in Superseded(batch) =>
        planReclamations(batch)[f] = IF Has(batch, f, "retire") THEN <<>> ELSE Records(batch, f)
  BY DEF planReclamations
<1>6. /\ Of(Log, f) = {} => mem[f].st = "none"
      /\ Of(Log, f) # {} =>
           mem[f].st = IF Retires(Log, f) THEN "retired" ELSE IF Current(Log, f) THEN "createLatest" ELSE "create"
  <2>1. CASE Of(Log, f) = {}
    BY <1>0, <1>1, <2>1, NoState
  <2>2. CASE Of(Log, f) # {}
    BY <1>1, <2>2, DocState DEF DocIs
  <2> QED
    BY <2>1, <2>2
<1>7. ~EndedIn(p, f)
  BY <1>0 DEF EndedIn
<1> HIDE DEF p
<1>8. CASE Retires(Log, f)
  <2>1. Own(f) = {}
    BY <1>1, <1>8 DEF Retires, Adds
  <2>2. mem[f].st = "retired"
    BY <1>6, <1>8 DEF Retires
  <2>3. f \notin Superseded(batch)
    BY <1>3, <1>4, <2>1
  <2> QED
    BY <1>1, <2>1, <2>3, NothingNew DEF PlansNeeded, p
<1>9. ASSUME ~Retires(Log, f) PROVE isCurrentOnlyDocument(f, batch) <=> Current(p, f)
  <2>1. Current(p, f) <=> Current(Log, f) \/ Has(batch, f, "createLatest")
    BY <1>1, <1>3 DEF Current, Adds
  <2>2. Current(Log, f) <=> mem[f].st = "createLatest"
    BY <1>6, <1>9 DEF Current
  <2> QED
    BY <2>1, <2>2 DEF isCurrentOnlyDocument
<1>10. CASE ~Retires(Log, f) /\ ~Current(p, f)
  <2>1. f \notin Superseded(batch)
    BY <1>4, <1>9, <1>10
  <2> QED
    BY <1>1, <1>7, <1>10, <2>1, AllNew DEF PlansNeeded, p
<1>11. CASE ~Retires(Log, f) /\ Current(p, f) /\ Has(batch, f, "retire")
  <2>1. f \in Superseded(batch)
    BY <1>4, <1>9, <1>11
  <2>2. Needed(p, f) = {}
    BY <1>1, <1>3, <1>11 DEF Needed, RetiredIn, Adds
  <2>3. ToSet(planReclamations(batch)[f]) = {}
    BY <1>5, <1>11, <2>1 DEF ToSet
  <2> QED
    BY <2>1, <2>2, <2>3 DEF PlansNeeded, p
<1>12. CASE ~Retires(Log, f) /\ Current(p, f) /\ ~Has(batch, f, "retire")
  <2>1. ~Retires(p, f)
    BY <1>1, <1>3, <1>12 DEF Retires, Adds
  <2>2. IF Has(batch, f, "base") THEN Needed(p, f) = New(f) ELSE Needed(p, f) = Needed(Log, f) \cup New(f)
    BY <1>1, <1>3, <1>12, <2>1, CurrentNeeds
  <2>3. f \in Superseded(batch) <=> Has(batch, f, "base")
    BY <1>4, <1>9, <1>12
  <2>4. f \in Superseded(batch) => ToSet(planReclamations(batch)[f]) = New(f)
    BY <1>5, <1>12 DEF New
  <2> QED
    BY <2>2, <2>3, <2>4 DEF PlansNeeded, p
<1> QED
  BY <1>8, <1>10, <1>11, <1>12

LEMMA CommitPlans ==
  ASSUME SInv, pc = "publish", NEW f \in Files
  PROVE PlansNeeded(Append(Log, batch), f)
BY PlanOfTask, PlanOfDocument DEF Files

(* What recovery plans.                                                    *)
LEMMA RecoveryPlans ==
  ASSUME FilesOK, NEW f \in Files, Plain(disk[f])
  PROVE /\ f \in Reclaimable => ToSet(Retained(f)) = Needed(Log, f)
        /\ f \notin Reclaimable => ToSet(disk[f].lines) \cap StoredIn(Log, f) = Needed(Log, f)
<1> DEFINE c == ConfirmedLines(f)
           set == {r \in ToSet(c) : ~isBeforeLatestBase(r)}
<1>1. LogOK(Log) /\ Needed(Log, f) \subseteq ToSet(disk[f].lines) /\ Needed(Log, f) \subseteq StoredIn(Log, f)
  BY DEF FilesOK, Fits, Needed
<1>2. Superfluous(f) <=> EndedIn(Log, f) \/ RetiredIn(Log, f)
  BY <1>1, ListedFacts
<1>3. c \in Seq(WriteSet) /\ ToSet(c) = ToSet(disk[f].lines) \cap StoredIn(Log, f)
  BY ConfirmedFacts
<1>4. CASE Superfluous(f)
  <2>1. Retained(f) = <<>> /\ ToSet(<<>>) = {} /\ Needed(Log, f) = {}
    BY <1>2, <1>4 DEF Retained, ToSet, Needed
  <2>2. f \notin Reclaimable => disk[f].lines = <<>>
    BY <1>4 DEF Reclaimable, Plain
  <2> QED
    BY <2>1, <2>2
<1>5. CASE ~Superfluous(f)
  <2>1. Retained(f) = Only(c, set)
    BY <1>5 DEF Retained
  <2>2. \A r \in StoredIn(Log, f) : r \in Needed(Log, f) <=> ~isBeforeLatestBase(r)
    BY <1>5, OptionalFacts DEF Optional
  <2>3. set = Needed(Log, f) /\ set \subseteq ToSet(c)
    BY <1>1, <1>3, <2>2
  <2> HIDE DEF set, c
  <2>4. ToSet(Only(c, set)) = ToSet(c) \cap set
    BY <1>3, OnlySelects, OnlyFacts
  <2>5. ASSUME f \notin Reclaimable, NEW x \in ToSet(c), x \notin set PROVE FALSE
    <3>1. Len(Only(c, set)) < Len(c)
      BY <1>3, <2>5, OnlyShorter
    <3>2. disk[f].there => ~(Len(Only(c, set)) < Len(c))
      BY <2>1, <2>5 DEF Reclaimable, c
    <3>3. disk[f].lines = <<>>
      BY <3>1, <3>2 DEF Plain
    <3>4. ToSet(c) = {}
      BY <1>3, <3>3 DEF ToSet
    <3> QED
      BY <2>5, <3>4
  <2> QED
    BY <1>3, <2>1, <2>3, <2>4, <2>5
<1> QED
  BY <1>4, <1>5

-----------------------------------------------------------------------------
(* No more is kept than what is needed *)

(* What a sidecar holds once the replacements that are planned are made.   *)
Planned(f) ==
  IF f \in DOMAIN plan THEN ToSet(plan[f]) ELSE ToSet(disk[f].lines) \cap StoredIn(Log, f)

(* The plan is exact: nothing needed is given up, nothing else is kept.    *)
Settled == pc \in Operating \cup {"tails"} => \A f \in Files : Planned(f) = Needed(Log, f)

(* No temporary file is left but the one that is being written.            *)
Swept ==
  pc \in Operating \cup {"read", "tails"} =>
    temps = IF pc \in {"flushTemp", "rename"} THEN {target} ELSE {}

Exact == tidy => Settled /\ Swept

LEMMA SweptStep ==
  ASSUME SInv, Exact, [Next]_vars, tidy'
  PROVE Swept'
<1> USE DEF Operating, Early, Working
<1>1. CASE Open \/ Close \/ Crash \/ FlushSidecarFails \/ AppendMainFails \/ PowerLoss \/ \E f \in rest : AppendSidecarFails(f)
  BY <1>1 DEF Open, Close, Crash, FlushSidecarFails, AppendMainFails, PowerLoss, AppendSidecarFails, Stops, Swept
<1>2. CASE RemoveTemps
  BY <1>2 DEF RemoveTemps, Swept
<1>3. CASE FlushMainFails \/ \E f \in DOMAIN plan : ReplaceFails(f)
  BY <1>3 DEF FlushMainFails, ReplaceFails
<1>4. ASSUME tidy' = tidy PROVE Swept
  BY <1>4 DEF Exact
<1>5. CASE \E f \in DOMAIN plan : WriteTemp(f)
  BY <1>4, <1>5 DEF WriteTemp, Swept
<1>6. CASE RenameTemp
  BY <1>4, <1>6 DEF RenameTemp, Replaced, Done, Swept
<1>7. CASE FlushTemp
  BY <1>4, <1>7 DEF FlushTemp, Swept
<1>8. CASE \/ Begin \/ AppendMain \/ FlushMain \/ Confirm \/ EndRecovery \/ UNCHANGED vars
           \/ \E f \in rest : AppendSidecar(f) \/ FlushSidecar(f)
           \/ \E f \in DOMAIN plan : RemoveSidecar(f)
           \/ \E f \in Files : ReadSidecar(f) \/ TruncateTail(f)
  BY <1>4, <1>8 DEF Begin, AppendMain, FlushMain, Confirm, EndRecovery, vars, files, AppendSidecar, AfterAppend,
     FlushSidecar, RemoveSidecar, ReadSidecar, TruncateTail, Reclaim, Replaced, Done, Swept
<1>9. CASE \E f \in Undecided : \E content \in past[f] : Survives(f, content)
  BY <1>9 DEF Survives, Swept
<1> QED
  BY <1>1, <1>2, <1>3, <1>5, <1>6, <1>7, <1>8, <1>9 DEF Next

(* A step that changes neither the plan nor a file.                        *)
LEMMA SettledSame ==
  ASSUME Settled, pc \in Operating \cup {"tails"}, UNCHANGED <<disk, plan>>
  PROVE Settled'
BY DEF Settled, Planned, Log

LEMMA SettledAppendSidecar ==
  ASSUME SInv, Settled, NEW f \in rest, AppendSidecar(f)
  PROVE Settled'
<1> DEFINE lines == disk[f].lines
           R == Records(batch, f)
<1>0. RInv /\ Shape
  BY DEF SInv, TInv, RInv, Inv
<1>1. f \in Files /\ pc = "append" /\ plan' = plan /\ plan = NoPlan /\ batch \in MarkerSet
  BY <1>0 DEF AppendSidecar, SInv, TInv, ProcessOK, BatchKept, PlanKept, Working, Shape
<1>2. /\ disk'[f].lines = lines \o R /\ Log' = Log
      /\ \A g \in Files \ {f} : disk'[g] = disk[g]
  BY <1>0, <1>1, NamesDiffer DEF AppendSidecar, Put, Shape, Log, Holding
<1>3. lines \in Seq(WriteSet) /\ R \in Seq(WriteSet)
  <2>1. Fits(lines, f, Log)
    BY <1>0, <1>1, FilesOKNow DEF RInv, FilesOK
  <2> QED
    BY <1>1, <2>1, RecordsFacts DEF Fits
<1>4. ToSet(lines \o R) = ToSet(lines) \cup ToSet(R)
  <2> HIDE DEF lines, R
  <2>1. 0 \in 0..Len(R)
    BY <1>3
  <2> QED
    BY <1>3, <2>1, JoinedFacts
<1>5. ASSUME NEW w \in ToSet(R), w \in StoredIn(Log, f) PROVE FALSE
  <2>1. w.seq < batch.seq
    BY <1>0, <1>1, <1>5, Older DEF Early
  <2>2. w \in ToSet(batch.writes)
    BY <1>1, RecordsFacts
  <2>3. MarkerOK(batch) /\ batch.writes \in Seq(WriteSet)
    BY <1>0, <1>1 DEF RInv, Progress, BatchOK, Early, MarkerSet
  <2>4. w.seq = batch.seq /\ batch.seq \in Nat
    BY <1>1, <2>2, <2>3, InSeq DEF MarkerOK, MarkerSet
  <2> QED
    BY <2>1, <2>4
<1> HIDE DEF lines, R
<1>6. DOMAIN plan = {}
  BY <1>1 DEF NoPlan
<1>7. \A g \in Files : ToSet(disk'[g].lines) \cap StoredIn(Log, g) = ToSet(disk[g].lines) \cap StoredIn(Log, g)
  <2> TAKE g \in Files
  <2>1. CASE g = f
    BY <1>2, <1>4, <1>5, <2>1 DEF lines
  <2>2. CASE g # f
    BY <1>2, <2>2
  <2> QED
    BY <2>1, <2>2
<1>8. \A g \in Files : ToSet(disk[g].lines) \cap StoredIn(Log, g) = Needed(Log, g)
  BY <1>1, <1>6 DEF Settled, Planned, Operating, Early
<1> QED
  BY <1>1, <1>2, <1>6, <1>7, <1>8 DEF Settled, Planned

LEMMA SettledAppendMain ==
  ASSUME SInv, Settled, AppendMain
  PROVE Settled'
<1>0. RInv /\ Shape
  BY DEF SInv, TInv, RInv, Inv
<1>1. pc = "publish" /\ plan' = planReclamations(batch) /\ plan = NoPlan /\ batch \in MarkerSet
  BY DEF AppendMain, Reclaim, SInv, TInv, ProcessOK, BatchKept, PlanKept, Working
<1>2. Log' = Append(Log, batch) /\ \A g \in Files : disk'[g] = disk[g]
  BY <1>0, <1>1, NamesDiffer DEF AppendMain, Put, Shape, Log, Holding
<1>3. DOMAIN plan' = Superseded(batch) /\ DOMAIN plan = {}
  BY <1>1 DEF planReclamations, NoPlan
<1>4. Log \in Seq(MarkerSet)
  BY <1>0 DEF RInv, Inv, LogInv
<1>5. ASSUME NEW f \in Files
      PROVE IF f \in DOMAIN plan' THEN ToSet(plan'[f]) = Needed(Log', f)
            ELSE ToSet(disk[f].lines) \cap StoredIn(Log', f) = Needed(Log', f)
  <2>1. PlansNeeded(Log', f)
    BY <1>1, <1>2, CommitPlans
  <2>2. CASE f \in Superseded(batch)
    BY <1>1, <1>3, <2>1, <2>2 DEF PlansNeeded
  <2>3. CASE f \notin Superseded(batch)
    <3>1. ToSet(disk[f].lines) \cap StoredIn(Log, f) = Needed(Log, f)
      BY <1>1, <1>3 DEF Settled, Planned, Operating, Early
    <3>2. StoredIn(Log', f) = StoredIn(Log, f) \cup New(f)
      BY <1>1, <1>2, <1>4, InMore DEF New
    <3>3. Written(f)
      BY <1>1 DEF Written, Early
    <3>4. New(f) \subseteq ToSet(disk[f].lines)
      BY <1>0, <3>3 DEF RInv, Progress, WrittenOK, New
    <3>5. Needed(Log', f) = Needed(Log, f) \cup New(f)
      BY <2>1, <2>3 DEF PlansNeeded
    <3> QED
      BY <1>3, <2>3, <3>1, <3>2, <3>4, <3>5
  <2> QED
    BY <2>2, <2>3
<1> QED
  BY <1>2, <1>5 DEF Settled, Planned

LEMMA SettledConfirm ==
  ASSUME SInv, Confirm
  PROVE Settled'
<1>1. FilesOK /\ \A f \in Files : Plain(disk[f])
  BY FilesOKNow DEF SInv, TInv, RInv, ContentsOK, PlainContents
<1>2. plan' = [f \in Reclaimable |-> Retained(f)] /\ disk' = disk /\ Log' = Log
  BY <1>1, NotCorrupt DEF Confirm, files, Log
<1>3. \A f \in Files : /\ f \in Reclaimable => ToSet(Retained(f)) = Needed(Log, f)
                       /\ f \notin Reclaimable => ToSet(disk[f].lines) \cap StoredIn(Log, f) = Needed(Log, f)
  BY <1>1, RecoveryPlans
<1> QED
  BY <1>2, <1>3 DEF Settled, Planned

LEMMA SettledTruncate ==
  ASSUME SInv, Settled, NEW f \in Files, TruncateTail(f)
  PROVE Settled'
<1>0. RInv /\ Shape
  BY DEF SInv, TInv, RInv, Inv
<1>1. pc = "tails" /\ plan' = plan
  BY DEF TruncateTail
<1>2. disk'[f].lines = ConfirmedLines(f) /\ Log' = Log /\ \A g \in Files \ {f} : disk'[g] = disk[g]
  BY <1>0, NamesDiffer DEF TruncateTail, Put, Shape, Log, Holding
<1>3. ToSet(ConfirmedLines(f)) = ToSet(disk[f].lines) \cap StoredIn(Log, f)
  BY <1>0, FilesOKNow, ConfirmedFacts DEF RInv
<1>4. \A g \in Files : ToSet(disk'[g].lines) \cap StoredIn(Log, g) = ToSet(disk[g].lines) \cap StoredIn(Log, g)
  <2> TAKE g \in Files
  <2>1. CASE g = f
    BY <1>2, <1>3, <2>1
  <2>2. CASE g # f
    BY <1>2, <2>2
  <2> QED
    BY <2>1, <2>2
<1> QED
  BY <1>1, <1>2, <1>4 DEF Settled, Planned

(* A sidecar gets the contents that are planned for it.                    *)
LEMMA SettledReplaced ==
  ASSUME SInv, Settled, pc \in Working, NEW f \in DOMAIN plan, Replaced(f),
         disk'[f].lines = plan[f], Log' = Log, \A g \in Files \ {f} : disk'[g] = disk[g]
  PROVE Settled'
<1>1. f \in Files /\ DOMAIN plan \subseteq Files
  BY DEF SInv, TInv, RInv, Inv, Shape
<1>2. DOMAIN plan' = DOMAIN plan \ {f} /\ \A g \in DOMAIN plan' : plan'[g] = plan[g]
  BY DEF Replaced
<1>3. ToSet(plan[f]) \subseteq StoredIn(Log, f)
  BY DEF SInv, TInv, RInv, Progress, PlanOK
<1>4. \A g \in Files : Planned(g) = Needed(Log, g)
  BY DEF Settled, Operating
<1>5. ASSUME NEW g \in Files
      PROVE IF g \in DOMAIN plan' THEN ToSet(plan'[g]) = Needed(Log, g)
            ELSE ToSet(disk'[g].lines) \cap StoredIn(Log, g) = Needed(Log, g)
  <2>1. CASE g = f
    BY <1>2, <1>3, <1>4, <2>1 DEF Planned
  <2>2. CASE g # f
    BY <1>2, <1>4, <2>2 DEF Planned
  <2> QED
    BY <2>1, <2>2
<1> QED
  BY <1>5 DEF Settled, Planned

LEMMA SettledStep ==
  ASSUME SInv, Exact, [Next]_vars, tidy'
  PROVE Settled'
<1> SUFFICES ASSUME pc' \in Operating \cup {"tails"} PROVE Settled'
  BY DEF Settled
<1>0. RInv /\ Shape /\ DOMAIN plan \subseteq Files
  BY DEF SInv, TInv, RInv, Inv, Shape
<1>1. ASSUME tidy' = tidy PROVE Settled
  BY <1>1 DEF Exact
<1>2. CASE Confirm
  BY <1>2, SettledConfirm
<1>3. CASE Begin \/ FlushMain \/ FlushTemp \/ EndRecovery \/ UNCHANGED vars
           \/ (\E f \in rest : FlushSidecar(f)) \/ (\E f \in DOMAIN plan : WriteTemp(f))
  <2>1. tidy' = tidy /\ UNCHANGED <<disk, plan>>
    BY <1>3 DEF Begin, FlushMain, FlushTemp, EndRecovery, Reclaim, vars, files, FlushSidecar, WriteTemp
  <2>2. pc \in Operating \cup {"tails"}
    BY <1>3 DEF Begin, FlushMain, FlushTemp, EndRecovery, vars, FlushSidecar, WriteTemp, Operating, Early, Working
  <2> QED
    BY <1>1, <2>1, <2>2, SettledSame
<1>4. CASE \E f \in rest : AppendSidecar(f)
  BY <1>1, <1>4, SettledAppendSidecar DEF AppendSidecar
<1>5. CASE AppendMain
  BY <1>1, <1>5, SettledAppendMain DEF AppendMain
<1>6. CASE \E f \in Files : TruncateTail(f)
  BY <1>1, <1>6, SettledTruncate DEF TruncateTail
<1>7. ASSUME NEW f \in DOMAIN plan, RemoveSidecar(f) PROVE Settled'
  <2>1. tidy' = tidy /\ pc \in Working /\ Replaced(f) /\ plan[f] = <<>> /\ Put(f, Absent, {}) /\ f \in Files
    BY <1>0, <1>7 DEF RemoveSidecar, Working
  <2>2. disk'[f].lines = plan[f] /\ Log' = Log /\ \A g \in Files \ {f} : disk'[g] = disk[g]
    BY <1>0, <2>1, NamesDiffer DEF Put, Shape, Log, Absent
  <2> QED
    BY <1>1, <2>1, <2>2, SettledReplaced
<1>8. CASE RenameTemp
  <2>1. /\ tidy' = tidy /\ pc \in Working /\ Replaced(target)
        /\ disk' = [disk EXCEPT ![target] = Holding(plan[target])]
    BY <1>8 DEF RenameTemp, Working
  <2>2. target \in DOMAIN plan /\ target \in Files
    BY <1>0, <1>8 DEF RenameTemp, RInv, Progress, TempOK
  <2>3. disk'[target].lines = plan[target] /\ Log' = Log /\ \A g \in Files \ {target} : disk'[g] = disk[g]
    BY <1>0, <2>1, <2>2, NamesDiffer DEF Shape, Log, Holding
  <2> QED
    BY <1>1, <2>1, <2>2, <2>3, SettledReplaced
<1>9. CASE FlushMainFails \/ \E f \in DOMAIN plan : ReplaceFails(f)
  BY <1>9 DEF FlushMainFails, ReplaceFails
<1>10. CASE \/ Open \/ Close \/ Crash \/ FlushSidecarFails \/ AppendMainFails \/ PowerLoss \/ RemoveTemps
            \/ \E f \in rest : AppendSidecarFails(f)
            \/ \E f \in Files : ReadSidecar(f)
            \/ \E f \in Undecided : \E content \in past[f] : Survives(f, content)
  BY <1>10 DEF Open, Close, Crash, FlushSidecarFails, AppendMainFails, PowerLoss, AppendSidecarFails, Stops,
     RemoveTemps, ReadSidecar, Survives, Operating, Early, Working
<1> QED
  BY <1>2, <1>3, <1>4, <1>5, <1>6, <1>7, <1>8, <1>9, <1>10 DEF Next

LEMMA ExactHolds == Spec => []Exact
<1>1. Init => Exact
  BY DEF Init, Exact, Settled, Swept, Operating, Early, Working
<1>2. SInv /\ Exact /\ [Next]_vars => Exact'
  BY SettledStep, SweptStep DEF Exact
<1> QED
  BY <1>1, <1>2, SInvHolds, PTL DEF Spec

(* An open storage has nothing planned: its files hold what is needed.     *)
LEMMA OpenIsTight ==
  ASSUME SInv, Exact, pc = "open", tidy
  PROVE temps = {} /\ \A f \in Files : disk[f].lines \in Seq(WriteSet) /\ Sorted(disk[f].lines)
                                       /\ ToSet(disk[f].lines) = Needed(Log, f)
<1>1. RInv /\ FilesOK /\ plan = NoPlan
  BY FilesOKNow DEF SInv, TInv, RInv, ProcessOK, PlanKept, Working
<1>2. temps = {}
  BY DEF Exact, Swept, Operating
<1>3. \A f \in Files : ToSet(disk[f].lines) \subseteq StoredIn(Log, f)
  BY <1>1, OnlyStored
<1>4. \A f \in Files : Planned(f) = Needed(Log, f)
  BY DEF Exact, Settled, Operating
<1>5. DOMAIN plan = {}
  BY <1>1 DEF NoPlan
<1>6. \A f \in Files : ToSet(disk[f].lines) = Needed(Log, f)
  BY <1>3, <1>4, <1>5 DEF Planned
<1> QED
  BY <1>1, <1>2, <1>6 DEF FilesOK, Fits

(* As long as no replacement has failed since it was opened, an open       *)
(* storage has no record more than the log needs: what commits plan from   *)
(* memory and recovery from the files comes to the same (storage.ts:       *)
(* 451-494, 717-759).                                                      *)
THEOREM NothingKeptTooLong == Spec => []NothingLeaks
<1>1. SInv /\ Exact => NothingLeaks
  <2> SUFFICES ASSUME SInv, Exact, pc = "open", tidy PROVE NothingLeaks
    BY DEF NothingLeaks
  <2>1. temps = {} /\ \A f \in Files : disk[f].lines \in Seq(WriteSet) /\ Sorted(disk[f].lines)
                                       /\ ToSet(disk[f].lines) = Needed(Log, f)
    BY OpenIsTight
  <2>2. LogOK(Log) /\ Regular(WritesOf(Log)) /\ mem = StateOf(Log)
    BY DEF SInv, TInv, RInv, Stable, Orderly, Logs, Faithful, Operating
  <2>3. ASSUME NEW f \in Files, ToSet(disk[f].lines) = {} PROVE disk[f].lines = <<>>
    <3>1. \A i \in 1..Len(disk[f].lines) : FALSE
      BY <2>1, <2>3, InSeq
    <3> QED
      BY <2>1, <3>1
  <2>4. ASSUME NEW t \in Tasks, mem[t].st = "end" PROVE disk[t].lines = <<>>
    <3>1. t \in Files
      BY DEF Files
    <3>2. Of(Log, t) # {}
      BY <2>2, <2>4, <3>1, NoState
    <3>3. EndedIn(Log, t)
      BY <2>2, <2>4, <3>2, TaskState
    <3>4. Needed(Log, t) = {}
      BY <3>3 DEF Needed
    <3> QED
      BY <2>1, <2>3, <3>1, <3>4
  <2>5. ASSUME NEW d \in Docs, mem[d].st # "none"
        PROVE /\ mem[d].revs \in Seq(WriteSet) /\ Sorted(mem[d].revs) /\ ToSet(mem[d].revs) = Needed(Log, d)
    <3>1. d \in Files
      BY DEF Files
    <3>2. Of(Log, d) # {}
      BY <2>2, <2>5, <3>1, NoState
    <3> QED
      BY <2>2, <3>2, DocState DEF DocIs
  <2>6. ASSUME NEW d \in Docs, mem[d] = [st |-> "retired", revs |-> <<>>] PROVE disk[d].lines = <<>>
    <3>1. d \in Files /\ mem[d].st # "none" /\ mem[d].revs = <<>>
      BY <2>6 DEF Files
    <3>2. ToSet(<<>>) = Needed(Log, d)
      BY <2>5, <3>1
    <3>3. ToSet(<<>>) = {}
      BY DEF ToSet
    <3> QED
      BY <2>1, <2>3, <3>1, <3>2, <3>3
  <2>7. ASSUME NEW d \in Docs, mem[d].st \in Creates PROVE disk[d].lines = mem[d].revs
    <3>1. d \in Files /\ mem[d].st # "none"
      BY <2>7 DEF Files, Creates
    <3> QED
      BY <2>1, <2>5, <3>1, SortedUnique
  <2> QED
    BY <2>1, <2>4, <2>6, <2>7 DEF NothingLeaks
<1> QED
  BY <1>1, SInvHolds, ExactHolds, PTL

=============================================================================
