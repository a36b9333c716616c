------------------------------- MODULE NameProofs -------------------------------
(***************************************************************************)
(* That an entity is stored under the name the file has in its span,       *)
(* proved for every text and labelling, and for every vocabulary and merge *)
(* table in which the result of a merge is spelt by its parts.             *)
(*                                                                         *)
(* A vocabulary writes text in an alphabet of its own (Written).  The      *)
(* binary search finds the merges the file has (LookupFinds), so whatever  *)
(* is merged, the nodes of a word cover its text (WordInv), and the tokens *)
(* of the text follow one another (ChainInv); the tokens of a span are     *)
(* then its text (TextsJoin, NameIs).                                      *)
(***************************************************************************)
EXTENDS ExtractProofs

-----------------------------------------------------------------------------
(* The table of merges. *)

\* Its entries.
MergeIndex == [left : Nat, right : Nat, rank : Nat, result : Nat]

\* There is an order by pairs for every table, and SortMerges chooses one.
LEMMA SortedIs ==
    ASSUME NEW ms \in Seq(MergeIndex)
    PROVE  LET t == SortMerges(ms) IN
           /\ t \in Seq(MergeIndex) /\ Len(t) = Len(ms) /\ Range(t) = Range(ms)
           /\ \A j, k \in 1..Len(t) : j < k => ~merge_less(t[k], t[j])
<1> DEFINE N == Len(ms)
           Before(j, h) == merge_less(ms[j], ms[h]) \/ (~merge_less(ms[h], ms[j]) /\ j < h)
           Below(h) == {j \in 1..N : Before(j, h)}
           r == [h \in 1..N |-> Cardinality(Below(h)) + 1]
           q == [v \in 1..N |-> CHOOSE h \in 1..N : r[h] = v]
           t == [v \in 1..N |-> ms[q[v]]]
           Good(u) == /\ Range(u) = Range(ms)
                      /\ \A j, k \in DOMAIN u : j < k => ~merge_less(u[k], u[j])
<1>1. N \in Nat /\ DOMAIN ms = 1..N /\ \A k \in 1..N : ms[k] \in MergeIndex
    BY LenProperties, ElementOfSeq
<1>2. /\ \A h, j \in 1..N : h # j => Before(h, j) \/ Before(j, h)
      /\ \A h, j \in 1..N : Before(h, j) => ~Before(j, h)
      /\ \A h, j, k \in 1..N : Before(h, j) /\ Before(j, k) => Before(h, k)
    <2>1. \A k \in 1..N : ms[k].left \in Nat /\ ms[k].right \in Nat
        BY <1>1 DEF MergeIndex
    <2> HIDE DEF N
    <2>2. \A h, j \in 1..N : h # j => Before(h, j) \/ Before(j, h)
        BY <1>1, <2>1 DEF merge_less
    <2>3. \A h, j \in 1..N : Before(h, j) => ~Before(j, h)
        BY <1>1, <2>1 DEF merge_less
    <2>4. \A h, j, k \in 1..N : Before(h, j) /\ Before(j, k) => Before(h, k)
        <3> SUFFICES ASSUME NEW h \in 1..N, NEW j \in 1..N, NEW k \in 1..N, Before(h, j), Before(j, k)
                     PROVE  Before(h, k)
            OBVIOUS
        <3> DEFINE x == ms[h]
                   y == ms[j]
                   z == ms[k]
        <3>1. /\ x.left \in Nat /\ x.right \in Nat /\ y.left \in Nat
              /\ y.right \in Nat /\ z.left \in Nat /\ z.right \in Nat
            BY <2>1
        <3>2. merge_less(x, y) \/ (~merge_less(y, x) /\ h < j)
            OBVIOUS
        <3>3. merge_less(y, z) \/ (~merge_less(z, y) /\ j < k)
            OBVIOUS
        <3>4. h \in Nat /\ j \in Nat /\ k \in Nat
            BY <1>1
        <3> SUFFICES merge_less(x, z) \/ (~merge_less(z, x) /\ h < k)
            OBVIOUS
        <3> HIDE DEF x, y, z
        <3> QED BY <3>1, <3>2, <3>3, <3>4, SMTT(30) DEF merge_less
    <2> HIDE DEF Before
    <2> QED BY <2>2, <2>3, <2>4
<1> HIDE DEF Before
<1>3. IsFiniteSet(1..N) /\ Cardinality(1..N) = N
    <2> HIDE DEF N
    <2>1. Cardinality(1..N) = IF 1 > N THEN 0 ELSE N - 1 + 1
        BY <1>1, FS_Interval
    <2> QED BY <1>1, <2>1, FS_Interval
<1>4. \A h \in 1..N : IsFiniteSet(Below(h)) /\ Cardinality(Below(h)) \in 0..N - 1
    <2> SUFFICES ASSUME NEW h \in 1..N
                 PROVE  IsFiniteSet(Below(h)) /\ Cardinality(Below(h)) \in 0..N - 1
        OBVIOUS
    <2>1. Below(h) \subseteq 1..N /\ h \notin Below(h)
        BY <1>2
    <2> HIDE DEF Below, N
    <2>2. IsFiniteSet(Below(h)) /\ Cardinality(Below(h)) <= N
        BY <1>3, <2>1, FS_Subset
    <2>3. Cardinality(Below(h)) # N
        BY <1>3, <2>1, FS_Subset
    <2>4. Cardinality(Below(h)) \in Nat
        BY <2>2, FS_CardinalityType
    <2> QED BY <1>1, <2>2, <2>3, <2>4
<1>5. \A h, j \in 1..N : Before(h, j) => r[h] < r[j]
    <2> SUFFICES ASSUME NEW h \in 1..N, NEW j \in 1..N, Before(h, j)
                 PROVE  r[h] < r[j]
        OBVIOUS
    <2>1. Below(h) \subseteq Below(j) /\ h \in Below(j) /\ h \notin Below(h)
        BY <1>2
    <2>2. IsFiniteSet(Below(j)) /\ Cardinality(Below(h)) \in Nat /\ Cardinality(Below(j)) \in Nat
        <3> HIDE DEF Below, N
        <3> QED BY <1>4
    <2>3. Cardinality(Below(h)) < Cardinality(Below(j))
        <3> HIDE DEF Below
        <3>1. Cardinality(Below(h)) <= Cardinality(Below(j))
            BY <2>1, <2>2, FS_Subset
        <3>2. Cardinality(Below(j)) # Cardinality(Below(h))
            BY <2>1, <2>2, FS_Subset
        <3> QED BY <2>2, <3>1, <3>2
    <2> HIDE DEF Below
    <2> QED BY <2>2, <2>3
<1>6. r \in [1..N -> 1..N]
    <2> HIDE DEF Below, N
    <2>1. \A h \in 1..N : Cardinality(Below(h)) + 1 \in 1..N
        BY <1>1, <1>4
    <2> QED BY <2>1
<1> HIDE DEF r, Below
<1>7. \A h, j \in 1..N : r[h] = r[j] => h = j
    <2> SUFFICES ASSUME NEW h \in 1..N, NEW j \in 1..N, h # j PROVE r[h] # r[j]
        OBVIOUS
    <2>1. r[h] \in 1..N /\ r[j] \in 1..N
        BY <1>6
    <2>2. r[h] < r[j] \/ r[j] < r[h]
        BY <1>2, <1>5
    <2> QED BY <2>1, <2>2
<1>8. \A v \in 1..N : \E h \in 1..N : r[h] = v
    <2> HIDE DEF N
    <2>1. r \in Injection(1..N, 1..N)
        BY <1>6, <1>7 DEF Injection, IsInjective
    <2>2. r \in Surjection(1..N, 1..N)
        BY <1>3, <2>1, FS_Injection
    <2> QED BY <2>2 DEF Surjection
<1>9. \A v \in 1..N : q[v] \in 1..N /\ r[q[v]] = v
    BY <1>8
<1>10. \A h \in 1..N : q[r[h]] = h
    <2> HIDE DEF q, N
    <2> QED BY <1>6, <1>7, <1>9
<1> HIDE DEF q
<1>11. t \in [1..N -> Range(ms)] /\ Range(t) = Range(ms)
    <2> HIDE DEF N
    <2>1. Range(ms) = {ms[k] : k \in 1..N}
        BY <1>1 DEF Range
    <2>2. Range(t) = {t[k] : k \in 1..N}
        BY DEF Range
    <2>3. \A k \in 1..N : t[k] \in Range(ms)
        BY <1>9, <2>1
    <2>4. \A k \in 1..N : ms[k] = t[r[k]] /\ r[k] \in 1..N
        BY <1>6, <1>10
    <2> HIDE DEF t
    <2>5. DOMAIN t = 1..N
        BY DEF t
    <2>6. t \in [1..N -> Range(ms)]
        BY <2>3 DEF t
    <2>7. Range(t) = Range(ms)
        BY <2>1, <2>2, <2>3, <2>4
    <2> QED BY <2>6, <2>7
<1>12. \A j, k \in 1..N : j < k => ~merge_less(t[k], t[j])
    <2> SUFFICES ASSUME NEW j \in 1..N, NEW k \in 1..N, j < k, merge_less(t[k], t[j]) PROVE FALSE
        OBVIOUS
    <2>1. Before(q[k], q[j])
        BY DEF Before
    <2>2. r[q[k]] < r[q[j]]
        BY <1>5, <1>9, <2>1
    <2> HIDE DEF N, t
    <2>3. k < j
        BY <1>9, <2>2
    <2> QED BY <2>3
<1> HIDE DEF t
<1>13. Good(t)
    <2>1. DOMAIN t = 1..N
        BY <1>11
    <2> QED BY <1>11, <1>12, <2>1
<1>14. \E u \in [DOMAIN ms -> Range(ms)] : Good(u)
    BY <1>1, <1>11, <1>13
<1> DEFINE s == SortMerges(ms)
<1>15. s \in [DOMAIN ms -> Range(ms)] /\ Good(s)
    <2>1. s = CHOOSE u \in [DOMAIN ms -> Range(ms)] : Good(u)
        BY DEF SortMerges
    <2> HIDE DEF Good, s
    <2> QED BY <1>14, <2>1
<1> HIDE DEF s
<1>16. Range(ms) \subseteq MergeIndex
    BY <1>1 DEF Range
<1>17. s \in [1..N -> MergeIndex]
    <2> HIDE DEF N
    <2> QED BY <1>1, <1>15, <1>16
<1>18. s \in Seq(MergeIndex) /\ Len(s) = N
    <2> HIDE DEF N
    <2>1. s \in Seq(MergeIndex)
        BY <1>1, <1>17, SeqDef
    <2> QED BY <1>1, <1>17, <2>1, LenProperties
<1>19. DOMAIN s = 1..N
    BY <1>17
<1> QED BY <1>15, <1>18, <1>19 DEF s

\* The halves of an interval are intervals, and shorter.
LEMMA Halves ==
    ASSUME NEW idx, Len(idx) \in Nat, NEW r \in Intervals(idx), r[1] <= r[2]
    PROVE  LET mid == (r[1] + r[2]) \div 2 IN
           /\ mid \in r[1]..r[2] /\ mid + 1 \in 1..Len(idx)
           /\ <<mid + 1, r[2]>> \in Intervals(idx) /\ <<r[1], mid - 1>> \in Intervals(idx)
<1> DEFINE mid == (r[1] + r[2]) \div 2
<1>1. r[1] \in 0..Len(idx) /\ r[2] \in -1..Len(idx) - 1
    BY DEF Intervals
<1>2. mid \in r[1]..r[2]
    BY <1>1
<1> HIDE DEF mid
<1>3. mid + 1 \in 1..Len(idx) /\ mid + 1 \in 0..Len(idx) /\ mid - 1 \in -1..Len(idx) - 1
    BY <1>1, <1>2
<1>4. <<mid + 1, r[2]>> \in Intervals(idx) /\ <<r[1], mid - 1>> \in Intervals(idx)
    BY <1>1, <1>3 DEF Intervals
<1> QED BY <1>2, <1>3, <1>4 DEF mid

\* The round of the search for a pair on an interval.
Middle(r) == (r[1] + r[2]) \div 2
Probes(g, idx, left, right) ==
    \A r \in Intervals(idx) :
        g[r] = IF r[1] > r[2] THEN 0
               ELSE LET m == idx[Middle(r) + 1] IN
                    IF m.left = left /\ m.right = right THEN Middle(r) + 1
                    ELSE IF merge_less(m, [left |-> left, right |-> right])
                         THEN g[<<Middle(r) + 1, r[2]>>] ELSE g[<<r[1], Middle(r) - 1>>]

\* The search is one on the whole table.
LEMMA LookupProbes ==
    ASSUME NEW idx, Len(idx) \in Nat, NEW left, NEW right
    PROVE  \E g : Probes(g, idx, left, right) /\ merge_lookup(idx, left, right) = g[<<0, Len(idx) - 1>>]
<1> DEFINE I == Intervals(idx)
           mid(r) == (r[1] + r[2]) \div 2
           m(r) == idx[mid(r) + 1]
           Hit(r) == m(r).left = left /\ m(r).right = right
           Low(r) == merge_less(m(r), [left |-> left, right |-> right])
           Body(g, r) ==
               IF r[1] > r[2] THEN 0
               ELSE IF Hit(r) THEN mid(r) + 1
               ELSE IF Low(r) THEN g[<<mid(r) + 1, r[2]>>] ELSE g[<<r[1], mid(r) - 1>>]
           Eq(g) == g = [r \in I |-> Body(g, r)]
           V == [I -> Nat]
           N == Len(idx) + 1
           base == [r \in I |-> 0]
           step == [n \in 1..N |-> [g \in V |-> [r \in I |-> Body(g, r)]]]
           Probe == CHOOSE g : Eq(g)
           Size(r) == r[2] - r[1] + 1
<1>1. \A r \in I : /\ r[1] \in 0..Len(idx) /\ r[2] \in -1..Len(idx) - 1
                   /\ Size(r) \in Int /\ Size(r) <= N
    BY DEF Intervals
<1>2. \A r \in I : r[1] <= r[2] =>
          /\ mid(r) + 1 \in 1..Len(idx)
          /\ <<mid(r) + 1, r[2]>> \in I /\ Size(<<mid(r) + 1, r[2]>>) < Size(r)
          /\ <<r[1], mid(r) - 1>> \in I /\ Size(<<r[1], mid(r) - 1>>) < Size(r)
    <2> SUFFICES ASSUME NEW r \in I, r[1] <= r[2]
                 PROVE  /\ mid(r) + 1 \in 1..Len(idx)
                        /\ <<mid(r) + 1, r[2]>> \in I /\ Size(<<mid(r) + 1, r[2]>>) < Size(r)
                        /\ <<r[1], mid(r) - 1>> \in I /\ Size(<<r[1], mid(r) - 1>>) < Size(r)
        OBVIOUS
    <2>1. /\ mid(r) \in r[1]..r[2] /\ mid(r) + 1 \in 1..Len(idx)
          /\ <<mid(r) + 1, r[2]>> \in I /\ <<r[1], mid(r) - 1>> \in I
        BY Halves
    <2> HIDE DEF mid
    <2>2. r[1] \in Int /\ r[2] \in Int
        BY <1>1
    <2>3. Size(<<mid(r) + 1, r[2]>>) < Size(r) /\ Size(<<r[1], mid(r) - 1>>) < Size(r)
        BY <2>1, <2>2
    <2> QED BY <2>1, <2>3
<1> HIDE DEF mid, Hit, Low, I, Size
<1>3. \A g \in V, r \in I : Body(g, r) \in Nat
    <2> SUFFICES ASSUME NEW g \in V, NEW r \in I PROVE Body(g, r) \in Nat
        OBVIOUS
    <2>1. r[1] > r[2] \/ r[1] <= r[2]
        BY <1>1
    <2> HIDE DEF N
    <2>2. r[1] <= r[2] => mid(r) + 1 \in Nat
        <3>1. r[1] <= r[2] => mid(r) + 1 \in 1..Len(idx)
            BY <1>2
        <3>2. 1..Len(idx) \subseteq Nat
            OBVIOUS
        <3> QED BY <3>1, <3>2
    <2> QED BY <1>2, <2>1, <2>2
<1>4. N \in Nat /\ base \in V /\ step \in [1..N -> [V -> V]]
    <2>1. N \in Nat
        OBVIOUS
    <2> HIDE DEF Body, N
    <2>2. base \in V
        OBVIOUS
    <2>3. \A g \in V : [r \in I |-> Body(g, r)] \in V
        BY <1>3
    <2> HIDE DEF V
    <2>4. step \in [1..N -> [V -> V]]
        BY <2>3
    <2> QED BY <2>1, <2>2, <2>4
<1>5. PICK f : Recursion(f, N, V, base, step)
    <2> HIDE DEF N, V, base, step
    <2> QED BY <1>4, RecursionUpTo DEF Steps
<1>6. /\ f \in [0..N -> V]
      /\ \A n \in 1..N : f[n] = [r \in I |-> Body(f[n - 1], r)]
    <2>1. f \in [0..N -> V] /\ \A n \in 1..N : f[n] = step[n][f[n - 1]]
        <3> HIDE DEF N, V, base, step
        <3> QED BY <1>5 DEF Recursion
    <2>2. \A n \in 1..N : n - 1 \in 0..N
        BY <1>4
    <2> HIDE DEF V, N, Body
    <2> QED BY <2>1, <2>2

\* The longest intervals take the longest; the others are settled before.
<1> DEFINE Settled(n) == \A r \in I : Size(r) <= n => f[N][r] = f[n][r]
           S == {n \in 0..N : \A k \in n..N, r \in I : Size(r) <= n => f[k][r] = f[n][r]}
<1>7. 0..N \subseteq S
    <2>1. 0 \in S
        <3>1. \A k \in 1..N, r \in I : Size(r) <= 0 => f[k][r] = 0
            <4>1. \A r \in I : Size(r) <= 0 => r[1] > r[2]
                BY <1>1 DEF Size
            <4>2. \A k \in 1..N, r \in I : f[k][r] = Body(f[k - 1], r)
                <5> HIDE DEF N, Body
                <5> QED BY <1>6
            <4> HIDE DEF N
            <4> QED BY <4>1, <4>2
        <3>2. f[0] = base
            <4> HIDE DEF N, V, base, step
            <4> QED BY <1>5 DEF Recursion
        <3>3. \A r \in I : f[0][r] = 0
            BY <3>2
        <3>4. \A k \in 0..N : k = 0 \/ k \in 1..N
            BY <1>4
        <3>5. 0 \in 0..N
            BY <1>4
        <3> HIDE DEF N, Body, base
        <3> QED BY <3>1, <3>3, <3>4, <3>5
    <2>2. ASSUME NEW n \in 0..N - 1, n \in S
          PROVE  n + 1 \in S
        <3>1. n \in Int /\ n + 1 \in 0..N /\ n + 1 \in 1..N
            BY <1>4
        <3> SUFFICES ASSUME NEW k \in n + 1..N, NEW r \in I, Size(r) <= n + 1
                     PROVE  f[k][r] = f[n + 1][r]
            BY <3>1
        <3>2. k \in 1..N /\ k - 1 \in n..N
            BY <1>4
        <3>3. f[k][r] = Body(f[k - 1], r)
            <4> HIDE DEF Body, N
            <4> QED BY <1>6, <3>2
        <3>4. f[n + 1][r] = Body(f[n], r)
            <4>1. (n + 1) - 1 = n
                OBVIOUS
            <4> HIDE DEF Body, N
            <4>2. f[n + 1] = [q \in I |-> Body(f[(n + 1) - 1], q)]
                BY <1>6, <3>1
            <4> QED BY <4>1, <4>2
        <3>5. \A q \in I : Size(q) < Size(r) => f[k - 1][q] = f[n][q]
            <4>1. \A q \in I : Size(q) < Size(r) => Size(q) <= n
                <5>1. \A q \in I : Size(q) \in Int
                    BY <1>1
                <5> HIDE DEF N
                <5> QED BY <3>1, <5>1
            <4> HIDE DEF N
            <4> QED BY <2>2, <3>2, <4>1
        <3>6. Body(f[k - 1], r) = Body(f[n], r)
            <4>1. r[1] > r[2] \/ r[1] <= r[2]
                BY <1>1
            <4> HIDE DEF N
            <4> QED BY <1>2, <3>5, <4>1
        <3> QED BY <3>3, <3>4, <3>6
    <2> HIDE DEF S, N
    <2> QED BY <1>4, <2>1, <2>2, UpToInduction
<1>8. Eq(f[N])
    <2> DEFINE n == Len(idx)
    <2>1. n \in 0..N /\ N \in n..N /\ N - 1 = n /\ N \in 1..N
        OBVIOUS
    <2>2. f[N] = [r \in I |-> Body(f[n], r)]
        <3> HIDE DEF Body, N
        <3> QED BY <1>6, <2>1
    <2>3. \A r \in I : Size(r) <= n => f[N][r] = f[n][r]
        <3>1. n \in S
            BY <1>7, <2>1
        <3> QED BY <2>1, <3>1
    <2>4. \A r \in I, q \in I : Size(q) < Size(r) => f[N][q] = f[n][q]
        <3>1. \A r \in I, q \in I : Size(q) < Size(r) => Size(q) <= n
            BY <1>1
        <3> HIDE DEF N
        <3> QED BY <2>3, <3>1
    <2>5. \A r \in I : Body(f[n], r) = Body(f[N], r)
        <3>1. \A r \in I : r[1] > r[2] \/ r[1] <= r[2]
            BY <1>1
        <3> HIDE DEF N, n
        <3> QED BY <1>2, <2>4, <3>1
    <2> HIDE DEF Body, N, n
    <2>6. f[N] = [r \in I |-> Body(f[N], r)]
        BY <2>2, <2>5
    <2> QED BY <2>6
<1>9. Eq(Probe)
    <2>1. \E g : Eq(g)
        BY <1>8
    <2> HIDE DEF Eq
    <2> QED BY <2>1
<1>10. merge_lookup(idx, left, right) = Probe[<<0, Len(idx) - 1>>]
    BY DEF merge_lookup, Probe, Eq, Body, I, Hit, Low, m, mid
<1> HIDE DEF Probe
<1>11. Probe = [r \in I |-> Body(Probe, r)]
    BY <1>9
<1>12. Probes(Probe, idx, left, right)
    <2>1. \A r \in I : Probe[r] = Body(Probe, r)
        <3> HIDE DEF Body
        <3> QED BY <1>11
    <2> QED BY <2>1 DEF Probes, Middle, Body, I, Hit, Low, m, mid
<1> QED BY <1>10, <1>12

\* What holds of an interval when it holds of its halves holds of all.
LEMMA IntervalInduction ==
    ASSUME NEW idx, Len(idx) \in Nat, NEW S,
           \A r \in Intervals(idx) : r[1] > r[2] => r \in S,
           \A r \in Intervals(idx) :
               r[1] <= r[2] /\ <<Middle(r) + 1, r[2]>> \in S /\ <<r[1], Middle(r) - 1>> \in S => r \in S
    PROVE  Intervals(idx) \subseteq S
<1> DEFINE I == Intervals(idx)
           N == Len(idx) + 1
           Size(r) == r[2] - r[1] + 1
           T == {n \in 0..N : \A r \in I : Size(r) <= n => r \in S}
<1>1. \A r \in I : r[1] \in 0..Len(idx) /\ r[2] \in -1..Len(idx) - 1 /\ Size(r) \in Int /\ Size(r) <= N
    BY DEF Intervals
<1>2. N \in Nat
    OBVIOUS
<1> HIDE DEF I
<1>3. 0 \in T
    <2>1. \A r \in I : Size(r) <= 0 => r[1] > r[2]
        BY <1>1
    <2> HIDE DEF N, Size
    <2> QED BY <1>2, <2>1 DEF I
<1>4. ASSUME NEW n \in 0..N - 1, n \in T
      PROVE  n + 1 \in T
    <2>1. n \in Int /\ n + 1 \in 0..N
        BY <1>2
    <2> SUFFICES ASSUME NEW r \in I, Size(r) <= n + 1 PROVE r \in S
        BY <2>1
    <2>2. CASE r[1] > r[2]
        BY <2>2 DEF I
    <2>3. CASE r[1] <= r[2]
        <3> DEFINE x == <<Middle(r) + 1, r[2]>>
                   y == <<r[1], Middle(r) - 1>>
        <3>1. Middle(r) \in r[1]..r[2] /\ x \in I /\ y \in I
            BY <2>3, Halves DEF I, Middle
        <3>2. Size(x) <= n /\ Size(y) <= n
            <4>1. r[1] \in Int /\ r[2] \in Int
                BY <1>1
            <4> HIDE DEF N
            <4> QED BY <2>1, <3>1, <4>1, SMTT(60)
        <3>3. x \in S /\ y \in S
            <4> HIDE DEF x, y, Size, N
            <4> QED BY <1>4, <3>1, <3>2
        <3> QED BY <2>3, <3>3 DEF I
    <2> QED BY <1>1, <2>2, <2>3
<1>5. 0..N \subseteq T
    <2> HIDE DEF T, N
    <2> QED BY <1>2, <1>3, <1>4, UpToInduction
<1>6. N \in T
    BY <1>2, <1>5
<1> HIDE DEF N, Size
<1> QED BY <1>1, <1>6 DEF I

\* What the search finds at a place of the table is the pair.
LEMMA LookupFinds ==
    ASSUME NEW idx, Len(idx) \in Nat, NEW left, NEW right
    PROVE  LET k == merge_lookup(idx, left, right) IN
           k # 0 => k \in 1..Len(idx) /\ idx[k].left = left /\ idx[k].right = right
<1> DEFINE Found(k) == k = 0 \/ (k \in 1..Len(idx) /\ idx[k].left = left /\ idx[k].right = right)
<1>1. PICK g : Probes(g, idx, left, right) /\ merge_lookup(idx, left, right) = g[<<0, Len(idx) - 1>>]
    BY LookupProbes
<1> DEFINE S == {r \in Intervals(idx) : Found(g[r])}
<1>2. \A r \in Intervals(idx) : r[1] > r[2] => r \in S
    BY <1>1 DEF Probes
<1>3. ASSUME NEW r \in Intervals(idx), r[1] <= r[2],
             <<Middle(r) + 1, r[2]>> \in S, <<r[1], Middle(r) - 1>> \in S
      PROVE  r \in S
    <2> DEFINE m == idx[Middle(r) + 1]
    <2>1. Middle(r) + 1 \in 1..Len(idx) /\ ~(r[1] > r[2])
        <3>1. r[1] \in Int /\ r[2] \in Int
            BY DEF Intervals
        <3>2. Middle(r) + 1 \in 1..Len(idx)
            BY <1>3, Halves DEF Middle
        <3> QED BY <1>3, <3>1, <3>2
    <2>2. g[r] = IF m.left = left /\ m.right = right THEN Middle(r) + 1
                 ELSE IF merge_less(m, [left |-> left, right |-> right])
                      THEN g[<<Middle(r) + 1, r[2]>>] ELSE g[<<r[1], Middle(r) - 1>>]
        BY <1>1, <2>1 DEF Probes
    <2>3. Found(g[<<Middle(r) + 1, r[2]>>]) /\ Found(g[<<r[1], Middle(r) - 1>>])
        BY <1>3
    <2>4. Found(g[r])
        <3>1. CASE m.left = left /\ m.right = right
            BY <2>1, <2>2, <3>1
        <3>2. CASE ~(m.left = left /\ m.right = right)
            <4> HIDE DEF Found
            <4> QED BY <2>2, <2>3, <3>2
        <3> QED BY <3>1, <3>2
    <2> QED BY <2>4
<1>4. Intervals(idx) \subseteq S
    <2> HIDE DEF S
    <2> QED BY <1>2, <1>3, IntervalInduction
<1>5. <<0, Len(idx) - 1>> \in Intervals(idx)
    BY DEF Intervals
<1> QED BY <1>1, <1>4, <1>5

\* In a sorted table it misses no pair.
LEMMA LookupComplete ==
    ASSUME NEW idx, Len(idx) \in Nat, \A k \in 1..Len(idx) : idx[k].left \in Nat /\ idx[k].right \in Nat,
           \A j, k \in 1..Len(idx) : j < k => ~merge_less(idx[k], idx[j]),
           NEW n \in 1..Len(idx)
    PROVE  merge_lookup(idx, idx[n].left, idx[n].right) # 0
<1> DEFINE left == idx[n].left
           right == idx[n].right
<1>1. PICK g : Probes(g, idx, left, right) /\ merge_lookup(idx, left, right) = g[<<0, Len(idx) - 1>>]
    BY LookupProbes
<1>2. left \in Nat /\ right \in Nat
    OBVIOUS
<1> DEFINE S == {r \in Intervals(idx) : n - 1 \in r[1]..r[2] => g[r] # 0}
<1>3. ASSUME NEW r \in Intervals(idx), r[1] > r[2] PROVE r \in S
    <2>1. r[1] \in Int /\ r[2] \in Int
        BY DEF Intervals
    <2> QED BY <1>3, <2>1
<1>4. ASSUME NEW r \in Intervals(idx), r[1] <= r[2],
             <<Middle(r) + 1, r[2]>> \in S, <<r[1], Middle(r) - 1>> \in S
      PROVE  r \in S
    <2> DEFINE m == idx[Middle(r) + 1]
               c == Middle(r)
    <2>1. r[1] \in 0..Len(idx) /\ r[2] \in -1..Len(idx) - 1 /\ ~(r[1] > r[2])
        BY <1>4 DEF Intervals
    <2>2. c + 1 \in 1..Len(idx) /\ c \in r[1]..r[2]
        BY <1>4, Halves DEF Middle
    <2> SUFFICES ASSUME n - 1 \in r[1]..r[2] PROVE g[r] # 0
        OBVIOUS
    <2>3. g[r] = IF m.left = left /\ m.right = right THEN c + 1
                 ELSE IF merge_less(m, [left |-> left, right |-> right])
                      THEN g[<<c + 1, r[2]>>] ELSE g[<<r[1], c - 1>>]
        BY <1>1, <2>1 DEF Probes
    <2>4. /\ n - 1 \in c + 1..r[2] => g[<<c + 1, r[2]>>] # 0
          /\ n - 1 \in r[1]..c - 1 => g[<<r[1], c - 1>>] # 0
        BY <1>4
    <2>5. m.left \in Nat /\ m.right \in Nat
        BY <2>2
    <2>6. (n < c + 1 => ~merge_less(m, idx[n])) /\ (c + 1 < n => ~merge_less(idx[n], m))
        BY <2>2
    <2> HIDE DEF c, left, right, m
    <2>7. CASE m.left = left /\ m.right = right
        BY <2>2, <2>3, <2>7
    <2>8. CASE ~(m.left = left /\ m.right = right)
        <3> DEFINE pair == [left |-> left, right |-> right]
        <3>1. merge_less(m, pair) <=> m.left < left \/ (m.left = left /\ m.right < right)
            BY DEF merge_less
        <3>2. merge_less(m, idx[n]) <=> merge_less(m, pair)
            BY DEF merge_less, left, right
        <3>3. merge_less(idx[n], m) <=> left < m.left \/ (left = m.left /\ right < m.right)
            BY DEF merge_less, left, right
        <3>4. c + 1 # n
            <4>1. c + 1 = n => m = idx[n]
                BY DEF c, m
            <4>2. m # idx[n]
                BY <2>8 DEF left, right
            <4> QED BY <4>1, <4>2
        <3>5. merge_less(m, pair) <=> ~merge_less(idx[n], m)
            BY <1>2, <2>5, <2>8, <3>1, <3>3
        <3>6. CASE merge_less(m, pair)
            <4>1. c + 1 < n
                BY <2>2, <2>6, <3>2, <3>4, <3>6
            <4>2. n - 1 \in c + 1..r[2]
                BY <2>1, <2>2, <4>1
            <4> QED BY <2>3, <2>4, <2>8, <3>6, <4>2
        <3>7. CASE ~merge_less(m, pair)
            <4>1. n < c + 1
                BY <2>2, <2>6, <3>4, <3>5, <3>7
            <4>2. n - 1 \in r[1]..c - 1
                BY <2>1, <2>2, <4>1
            <4> QED BY <2>3, <2>4, <2>8, <3>7, <4>2
        <3> QED BY <3>6, <3>7
    <2> QED BY <2>7, <2>8
<1>5. Intervals(idx) \subseteq S
    <2> HIDE DEF S
    <2> QED BY <1>3, <1>4, IntervalInduction
<1>6. <<0, Len(idx) - 1>> \in Intervals(idx)
    BY DEF Intervals
<1>7. g[<<0, Len(idx) - 1>>] # 0
    <2>1. <<0, Len(idx) - 1>> \in S
        BY <1>5, <1>6
    <2>2. n - 1 \in 0..Len(idx) - 1
        OBVIOUS
    <2> QED BY <2>1, <2>2
<1> QED BY <1>1, <1>7

-----------------------------------------------------------------------------
(* The alphabet of the tokens. *)

\* How a byte is written in the alphabet of the tokens: printable ASCII as it is,
\* another byte as two, and only the space as the marker.
LEMMA PlainLetter == \A b \in 33..126 : ByteString[b] = <<b>>
<1> SUFFICES ASSUME NEW b \in 33..126 PROVE ByteString[b] = <<b>>
    OBVIOUS
<1>1. byte_to_unicode[b] = b
    BY DEF byte_to_unicode
<1>2. ByteString[b] = cp_to_utf8(byte_to_unicode[b])
    BY DEF ByteString
<1> QED BY <1>1, <1>2 DEF cp_to_utf8

\* Not in ASCII, and the marker only if the byte is a space.
TwoBytes(s, b) == \E x \in 192..255, y \in 128..191 : s = <<x, y>> /\ (x = 196 /\ y = 160 => b = 32)

\* All the others are such.
LEMMA OtherLetter ==
    ASSUME NEW b \in Byte, b \notin 33..126
    PROVE  TwoBytes(ByteString[b], b)
<1> DEFINE P == 33..126 \cup 161..172 \cup 174..255
           Others(k) == (0..k - 1) \ P
           cp == byte_to_unicode[b]
<1>1. ByteString[b] = cp_to_utf8(cp)
    BY DEF ByteString, Byte
<1>2. cp = IF b \in P THEN b ELSE 256 + Cardinality(Others(b))
    BY DEF byte_to_unicode, Byte
<1>3. \A k \in Byte : IsFiniteSet(Others(k)) /\ Cardinality(Others(k)) \in 0..255
    <2> SUFFICES ASSUME NEW k \in Byte
                 PROVE  IsFiniteSet(Others(k)) /\ Cardinality(Others(k)) \in 0..255
        OBVIOUS
    <2>1. k \in Int /\ k >= 0 /\ k <= 255
        BY DEF Byte
    <2>2. IsFiniteSet(0..k - 1) /\ Cardinality(0..k - 1) <= 255 /\ Others(k) \subseteq 0..k - 1
        <3>1. Cardinality(0..k - 1) = IF 0 > k - 1 THEN 0 ELSE (k - 1) - 0 + 1
            BY <2>1, FS_Interval
        <3>2. IsFiniteSet(0..k - 1)
            BY <2>1, FS_Interval
        <3> QED BY <2>1, <3>1, <3>2
    <2> HIDE DEF Others
    <2>3. IsFiniteSet(Others(k)) /\ Cardinality(Others(k)) <= Cardinality(0..k - 1)
        BY <2>2, FS_Subset
    <2>4. Cardinality(Others(k)) \in Nat /\ Cardinality(0..k - 1) \in Nat
        BY <2>2, <2>3, FS_CardinalityType
    <2> DEFINE c == Cardinality(Others(k))
               d == Cardinality(0..k - 1)
    <2>5. c \in Nat /\ d \in Nat /\ c <= d /\ d <= 255
        BY <2>2, <2>3, <2>4
    <2> HIDE DEF c, d
    <2>6. c \in 0..255
        BY <2>5
    <2> QED BY <2>3, <2>6 DEF c
<1>4. ASSUME b \notin P, Cardinality(Others(b)) = 32
      PROVE  b = 32
    <2>1. ASSUME NEW j \in Byte, NEW k \in Byte, j < k, j \notin P
          PROVE  Cardinality(Others(j)) < Cardinality(Others(k))
        <3>1. Others(j) \subseteq Others(k) /\ j \in Others(k) /\ j \notin Others(j)
            BY <2>1 DEF Byte
        <3>2. IsFiniteSet(Others(k)) /\ Cardinality(Others(j)) \in Nat /\ Cardinality(Others(k)) \in Nat
            <4> HIDE DEF Others
            <4> QED BY <1>3
        <3> HIDE DEF Others
        <3>3. Cardinality(Others(j)) <= Cardinality(Others(k))
            BY <3>1, <3>2, FS_Subset
        <3>4. Cardinality(Others(k)) # Cardinality(Others(j))
            BY <3>1, <3>2, FS_Subset
        <3> QED BY <3>2, <3>3, <3>4
    <2>2. Cardinality(Others(32)) = 32
        <3>1. Others(32) = 0..31
            OBVIOUS
        <3>2. Cardinality(0..31) = 32
            <4>1. \A n \in Nat : Cardinality(0..n) = n + 1
                <5> SUFFICES ASSUME NEW n \in Nat PROVE Cardinality(0..n) = n + 1
                    OBVIOUS
                <5>1. Cardinality(0..n) = IF 0 > n THEN 0 ELSE n - 0 + 1
                    BY FS_Interval
                <5> QED BY <5>1
            <4> DEFINE n == 31
            <4>2. n \in Nat
                OBVIOUS
            <4> HIDE DEF n
            <4>3. Cardinality(0..n) = n + 1
                BY <4>1, <4>2
            <4> QED BY <4>3 DEF n
        <3> QED BY <3>1, <3>2
    <2>3. 32 \in Byte /\ 32 \notin P
        BY DEF Byte
    <2>4. ~(b < 32) /\ ~(32 < b)
        <3> HIDE DEF P, Others
        <3> QED BY <1>4, <2>1, <2>2, <2>3
    <2> QED BY <2>4 DEF Byte
<1> DEFINE x == 192 + cp \div 64
           y == 128 + (cp % 64)
<1>5. CASE b \in P
    <2>1. cp = b /\ b >= 161 /\ b <= 255 /\ b \in Int
        BY <1>2, <1>5
    <2>2. ByteString[b] = <<x, y>>
        BY <1>1, <2>1 DEF cp_to_utf8
    <2>3. x \in 192..255 /\ y \in 128..191 /\ x # 196
        <3>1. cp \in Int /\ cp >= 161 /\ cp <= 255
            BY <2>1
        <3> HIDE DEF cp, P
        <3>2. cp \div 64 \in 2..3 /\ cp % 64 \in 0..63
            BY <3>1
        <3>3. x \in 192..255 /\ x # 196
            BY <3>2
        <3>4. y \in 128..191
            BY <3>2
        <3> QED BY <3>3, <3>4
    <2> HIDE DEF x, y, P
    <2> QED BY <2>2, <2>3 DEF TwoBytes
<1>6. CASE b \notin P
    <2> DEFINE c == Cardinality(Others(b))
    <2>1. cp = 256 + c /\ c \in 0..255
        <3> HIDE DEF P, Others, cp
        <3> QED BY <1>2, <1>3, <1>6
    <2>2. c = 32 => b = 32
        BY <1>4, <1>6
    <2> HIDE DEF cp, c
    <2>3. ByteString[b] = <<x, y>>
        BY <1>1, <2>1 DEF cp_to_utf8
    <2>4. x \in 192..255 /\ y \in 128..191
        BY <2>1
    <2>5. x = 196 /\ y = 160 => c = 32
        BY <2>1
    <2> HIDE DEF x, y
    <2> QED BY <2>2, <2>3, <2>4, <2>5 DEF TwoBytes
<1> QED BY <1>5, <1>6

-----------------------------------------------------------------------------
(* The tokens of a vocabulary. *)

\* A loaded tokenizer whose strings are those of the text: of the letters, and
\* of what is merged.
Ordinary(t, id) == id \in Nat /\ id > KRL_TOK_UNK /\ id \in DOMAIN t.id_to_str
Spells(t) ==
    /\ \A b \in Byte :
          LET id == ht_lookup(t, ByteString[b]) IN
          id = KRL_TOK_UNK \/ (Ordinary(t, id) /\ t.id_to_str[id] = ByteString[b])
    /\ Len(t.merges) \in Nat
    /\ \A k \in 1..Len(t.merges) :
          LET m == t.merges[k] IN
          /\ Ordinary(t, m.left) /\ Ordinary(t, m.right) /\ Ordinary(t, m.result)
          /\ t.id_to_str[m.result] = t.id_to_str[m.left] \o t.id_to_str[m.right]

\* The tokenizer of files as the training makes them does.
LEMMA LoadedSpells ==
    ASSUME Spelling, NEW in \in Inputs, krl_tok_load(in.vocab, in.merges).loaded
    PROVE  Spells(krl_tok_load(in.vocab, in.merges))
<1> DEFINE vf == in.vocab
           mf == in.merges
           t == krl_tok_load(vf, mf)
           With(d) == {k \in 1..vf.count : vf.entries[k].id = d}
           Spelt(str) == {k \in 1..vf.count : vf.entries[k].str = str}
           ms == [k \in 1..mf.count |->
                     [left |-> mf.entries[k][1], right |-> mf.entries[k][2],
                      rank |-> k - 1, result |-> mf.entries[k][3]]]
<1>1. /\ vf.count \in Nat /\ mf.count \in Nat /\ Len(mf.entries) \in Nat /\ mf.count <= Len(mf.entries)
      /\ vf.entries \in Seq([id : Nat, str : Seq(Byte)]) /\ mf.entries \in Seq(Nat \X Nat \X Nat)
      /\ vf.count <= Len(vf.entries)
    <2>1. vf \in VocabFiles /\ mf \in MergesFiles /\ mf.count <= Len(mf.entries) /\ vf.count <= Len(vf.entries)
        BY InputsAssumption DEF krl_tok_load, NoTok, Readable
    <2>2. /\ vf.count \in Nat /\ mf.count \in Nat
          /\ vf.entries \in Seq([id : Nat, str : Seq(Byte)]) /\ mf.entries \in Seq(Nat \X Nat \X Nat)
        BY <2>1 DEF VocabFiles, MergesFiles
    <2> QED BY <2>1, <2>2, LenProperties
<1>2. /\ DOMAIN t.id_to_str = {vf.entries[k].id : k \in 1..vf.count}
      /\ \A d \in DOMAIN t.id_to_str : t.id_to_str[d] = vf.entries[Max(With(d))].str
      /\ DOMAIN t.ids = {vf.entries[k].str : k \in 1..vf.count}
      /\ \A str \in DOMAIN t.ids : t.ids[str] = vf.entries[Max(Spelt(str))].id
      /\ t.merges = SortMerges(ms)
    BY DEF krl_tok_load, NoTok
<1>3. /\ \A j, k \in 1..vf.count : vf.entries[j].id = vf.entries[k].id => j = k
      /\ \A k \in 1..vf.count : vf.entries[k].str \in Range(ByteString) => vf.entries[k].id > KRL_TOK_UNK
      /\ \A k \in 1..mf.count : \E l, r, m \in {vf.entries[j] : j \in 1..vf.count} :
            /\ mf.entries[k] = <<l.id, r.id, m.id>>
            /\ KRL_TOK_UNK < Min({l.id, r.id, m.id})
            /\ m.str = l.str \o r.str
    <2> DEFINE entries == {vf.entries[k] : k \in 1..vf.count}
    <2>1. /\ \A j, k \in 1..vf.count : vf.entries[j].id = vf.entries[k].id => j = k
          /\ \A e \in entries : e.str \in Range(ByteString) => e.id > KRL_TOK_UNK
          /\ \A k \in 1..mf.count : \E l, r, m \in entries :
                /\ mf.entries[k] = <<l.id, r.id, m.id>>
                /\ KRL_TOK_UNK < Min({l.id, r.id, m.id})
                /\ m.str = l.str \o r.str
        BY DEF Spelling
    <2>2. \A k \in 1..vf.count : vf.entries[k] \in entries
        OBVIOUS
    <2> HIDE DEF vf, mf
    <2> QED BY <2>1, <2>2
<1>4. \A k \in 1..vf.count : vf.entries[k].id \in Nat
    <2> SUFFICES ASSUME NEW k \in 1..vf.count PROVE vf.entries[k].id \in Nat
        OBVIOUS
    <2>1. k \in 1..Len(vf.entries)
        BY <1>1, LenProperties
    <2>2. vf.entries[k] \in [id : Nat, str : Seq(Byte)]
        BY <1>1, <2>1, ElementOfSeq
    <2> QED BY <2>2
<1> HIDE DEF t, vf, mf, ms
<1>5. \A k \in 1..vf.count : vf.entries[k].id \in DOMAIN t.id_to_str /\ t.id_to_str[vf.entries[k].id] = vf.entries[k].str
    <2> SUFFICES ASSUME NEW k \in 1..vf.count
                 PROVE  t.id_to_str[vf.entries[k].id] = vf.entries[k].str
        BY <1>2
    <2> DEFINE d == vf.entries[k].id
               S == With(d)
    <2>1. S \subseteq 0..vf.count /\ k \in S
        BY <1>1
    <2>2. Max(S) \in S
        <3> HIDE DEF S
        <3> QED BY <1>1, <2>1, MaxUpTo
    <2>3. Max(S) = k
        <3> DEFINE m == Max(S)
        <3>1. m \in 1..vf.count /\ vf.entries[m].id = vf.entries[k].id
            BY <2>2
        <3> HIDE DEF m, S
        <3>2. m = k
            BY <1>3, <3>1
        <3> QED BY <3>2 DEF m
    <2>4. d \in DOMAIN t.id_to_str
        BY <1>2
    <2> QED BY <1>2, <2>3, <2>4
<1>6. ASSUME NEW b \in Byte
      PROVE  LET id == ht_lookup(t, ByteString[b]) IN
             id = KRL_TOK_UNK \/ (Ordinary(t, id) /\ t.id_to_str[id] = ByteString[b])
    <2> DEFINE str == ByteString[b]
               S == Spelt(str)
               m == Max(S)
               id == ht_lookup(t, str)
    <2>1. CASE str \notin DOMAIN t.ids
        BY <2>1 DEF ht_lookup
    <2>2. CASE str \in DOMAIN t.ids
        <3>1. id = vf.entries[m].id
            BY <1>2, <2>2 DEF ht_lookup
        <3>2. S \subseteq 0..vf.count /\ S # {}
            <4>1. PICK k \in 1..vf.count : str = vf.entries[k].str
                BY <1>2, <2>2
            <4>2. S \subseteq 0..vf.count
                BY <1>1
            <4> QED BY <4>1, <4>2
        <3>3. m \in S
            <4> HIDE DEF S
            <4> QED BY <1>1, <3>2, MaxUpTo
        <3>4. m \in 1..vf.count /\ vf.entries[m].str = str
            BY <3>3
        <3>5. str \in Range(ByteString)
            BY DEF Range, ByteString, Byte
        <3> HIDE DEF m, str, id
        <3>6. Ordinary(t, id) /\ t.id_to_str[id] = str
            BY <1>3, <1>4, <1>5, <3>1, <3>4, <3>5 DEF Ordinary
        <3> QED BY <3>6 DEF str, id
    <2> QED BY <2>1, <2>2
<1>7. ms \in Seq(MergeIndex) /\ Range(ms) = {ms[k] : k \in 1..mf.count}
    <2>1. ASSUME NEW k \in 1..mf.count PROVE ms[k] \in MergeIndex
        <3>1. k \in 1..Len(mf.entries)
            BY <1>1
        <3>2. mf.entries[k] \in Nat \X Nat \X Nat
            BY <1>1, <3>1, ElementOfSeq
        <3>3. /\ ms[k] = [left |-> mf.entries[k][1], right |-> mf.entries[k][2],
                          rank |-> k - 1, result |-> mf.entries[k][3]]
              /\ k - 1 \in Nat
            BY <1>1 DEF ms
        <3> QED BY <3>2, <3>3 DEF MergeIndex
    <2>2. DOMAIN ms = 1..mf.count /\ ms \in [1..mf.count -> MergeIndex]
        BY <2>1 DEF ms
    <2>3. ms \in Seq(MergeIndex)
        <3>1. mf.count \in Nat
            BY <1>1
        <3> DEFINE N == mf.count
        <3> HIDE DEF ms, N
        <3>2. N \in Nat /\ ms \in [1..N -> MergeIndex]
            BY <2>2, <3>1 DEF N
        <3> QED BY <3>2, SeqDef
    <2>4. Range(ms) = {ms[k] : k \in 1..mf.count}
        BY <2>2 DEF Range
    <2> QED BY <2>3, <2>4
<1>8. /\ t.merges \in Seq(MergeIndex) /\ Range(t.merges) = Range(ms)
    BY <1>2, <1>7, SortedIs
<1>9. ASSUME NEW j \in 1..mf.count
      PROVE  /\ Ordinary(t, ms[j].left) /\ Ordinary(t, ms[j].right) /\ Ordinary(t, ms[j].result)
             /\ t.id_to_str[ms[j].result] = t.id_to_str[ms[j].left] \o t.id_to_str[ms[j].right]
    <2>1. PICK x, y, z \in 1..vf.count :
              /\ mf.entries[j] = <<vf.entries[x].id, vf.entries[y].id, vf.entries[z].id>>
              /\ KRL_TOK_UNK < Min({vf.entries[x].id, vf.entries[y].id, vf.entries[z].id})
              /\ vf.entries[z].str = vf.entries[x].str \o vf.entries[y].str
        <3>1. PICK l, r, m \in {vf.entries[k] : k \in 1..vf.count} :
                  /\ mf.entries[j] = <<l.id, r.id, m.id>>
                  /\ KRL_TOK_UNK < Min({l.id, r.id, m.id})
                  /\ m.str = l.str \o r.str
            BY <1>3
        <3>2. PICK x, y, z \in 1..vf.count : l = vf.entries[x] /\ r = vf.entries[y] /\ m = vf.entries[z]
            BY <3>1
        <3> QED BY <3>1, <3>2
    <2> DEFINE l == vf.entries[x].id
               r == vf.entries[y].id
               m == vf.entries[z].id
               S == {l, r, m}
    <2>2. ms[j].left = l /\ ms[j].right = r /\ ms[j].result = m
        BY <2>1 DEF ms
    <2>3. S \subseteq Nat /\ S # {}
        BY <1>4
    <2>4. l > KRL_TOK_UNK /\ r > KRL_TOK_UNK /\ m > KRL_TOK_UNK
        <3>1. \A e \in S : Min(S) <= e
            <4> HIDE DEF S
            <4> QED BY <2>3, MinOf
        <3>2. Min(S) \in Nat
            <4> HIDE DEF S
            <4> QED BY <2>3, MinOf
        <3>3. KRL_TOK_UNK < Min(S)
            BY <2>1
        <3>4. l \in S /\ r \in S /\ m \in S
            OBVIOUS
        <3>5. \A e \in S : e > KRL_TOK_UNK
            <4> HIDE DEF S
            <4> QED BY <2>3, <3>1, <3>2, <3>3 DEF KRL_TOK_UNK
        <3> HIDE DEF S
        <3> QED BY <3>4, <3>5
    <2> QED BY <1>4, <1>5, <2>1, <2>2, <2>4 DEF Ordinary
<1>10. ASSUME NEW k \in 1..Len(t.merges)
       PROVE  LET m == t.merges[k] IN
              /\ Ordinary(t, m.left) /\ Ordinary(t, m.right) /\ Ordinary(t, m.result)
              /\ t.id_to_str[m.result] = t.id_to_str[m.left] \o t.id_to_str[m.right]
    <2>1. t.merges[k] \in Range(t.merges)
        BY <1>8, LenProperties DEF Range
    <2>2. PICK j \in 1..mf.count : t.merges[k] = ms[j]
        BY <1>7, <1>8, <2>1
    <2> QED BY <1>9, <2>2
<1>11. Len(t.merges) \in Nat
    BY <1>8, LenProperties
<1>12. Spells(t)
    <2> HIDE DEF Ordinary
    <2> QED BY <1>6, <1>10, <1>11 DEF Spells
<1> QED BY <1>12 DEF t, vf, mf

-----------------------------------------------------------------------------
(* Text in the alphabet. *)

\* The text from a to before m in the alphabet of the tokens.
Written(text, a, m) == Spelled(SubSeq(text, a, m - 1))

\* A letter is one byte or two.
LEMMA LetterTyped == \A b \in Byte : ByteString[b] \in Seq(Byte) /\ Len(ByteString[b]) \in 1..2
<1> SUFFICES ASSUME NEW b \in Byte PROVE ByteString[b] \in Seq(Byte) /\ Len(ByteString[b]) \in 1..2
    OBVIOUS
<1>1. CASE b \in 33..126
    <2>1. ByteString[b] = <<b>>
        BY <1>1, PlainLetter
    <2> QED BY <2>1
<1>2. CASE b \notin 33..126
    <2> DEFINE l == ByteString[b]
    <2>0. TwoBytes(l, b)
        BY <1>2, OtherLetter
    <2> HIDE DEF l
    <2>1. PICK x \in 192..255, y \in 128..191 : l = <<x, y>>
        BY <2>0 DEF TwoBytes
    <2>2. x \in Byte /\ y \in Byte
        BY DEF Byte
    <2>3. <<x, y>> \in Seq(Byte) /\ Len(<<x, y>>) = 2
        BY <2>2
    <2> QED BY <2>1, <2>3 DEF l
<1> QED BY <1>1, <1>2

\* It begins with nothing and goes on by letters.
LEMMA WrittenStep ==
    ASSUME NEW text \in Seq(Byte), NEW a \in 1..Len(text) + 1
    PROVE  /\ Written(text, a, a) = <<>>
           /\ \A m \in a..Len(text) :
                Written(text, a, m + 1) = Written(text, a, m) \o ByteString[text[m]]
<1> DEFINE Names(s) == [k \in DOMAIN s |-> ByteString[s[k]]]
<1>1. Len(text) \in Nat /\ \A k \in 1..Len(text) : text[k] \in Byte
    BY LenProperties, ElementOfSeq
<1>2. ASSUME NEW s \in Seq(Byte)
      PROVE  /\ Names(s) \in Seq(Seq(Byte)) /\ Len(Names(s)) = Len(s)
             /\ \A k \in 1..Len(s) : Names(s)[k] = ByteString[s[k]]
    <2>1. Len(s) \in Nat /\ DOMAIN s = 1..Len(s) /\ \A k \in 1..Len(s) : s[k] \in Byte
        BY LenProperties, ElementOfSeq
    <2>2. \A k \in 1..Len(s) : ByteString[s[k]] \in Seq(Byte)
        BY <2>1, LetterTyped
    <2>3. [k \in 1..Len(s) |-> ByteString[s[k]]] \in Seq(Seq(Byte))
        BY <2>1, <2>2, IsASeq
    <2> DEFINE L == Names(s)
    <2>4. L = [k \in 1..Len(s) |-> ByteString[s[k]]]
        BY <2>1
    <2> HIDE DEF L
    <2>5. L \in Seq(Seq(Byte)) /\ DOMAIN L = 1..Len(s) /\ \A k \in 1..Len(s) : L[k] = ByteString[s[k]]
        BY <2>3, <2>4
    <2>6. Len(L) = Len(s)
        BY <2>1, <2>5, LenProperties
    <2> QED BY <2>5, <2>6 DEF L
<1>3. \A k, m \in 1..Len(text) + 1 : k <= m =>
          /\ SubSeq(text, k, m - 1) \in Seq(Byte) /\ Len(SubSeq(text, k, m - 1)) = m - k
          /\ \A j \in 1..m - k : SubSeq(text, k, m - 1)[j] = text[k + j - 1]
    <2> SUFFICES ASSUME NEW k \in 1..Len(text) + 1, NEW m \in 1..Len(text) + 1, k <= m
                 PROVE  /\ SubSeq(text, k, m - 1) \in Seq(Byte) /\ Len(SubSeq(text, k, m - 1)) = m - k
                        /\ \A j \in 1..m - k : SubSeq(text, k, m - 1)[j] = text[k + j - 1]
        OBVIOUS
    <2>1. k \in Int /\ m - 1 \in Int /\ \A j \in k..m - 1 : text[j] \in Byte
        BY <1>1
    <2>2. /\ SubSeq(text, k, m - 1) \in Seq(Byte)
          /\ Len(SubSeq(text, k, m - 1)) = IF k <= m - 1 THEN (m - 1) - k + 1 ELSE 0
          /\ \A j \in 1..(m - 1) - k + 1 : SubSeq(text, k, m - 1)[j] = text[k + j - 1]
        BY <2>1, SubSeqProperties
    <2>3. (m - 1) - k + 1 = m - k /\ (k <= m - 1 \/ m - k = 0)
        BY <1>1
    <2> QED BY <2>2, <2>3
<1>4. Written(text, a, a) = <<>>
    <2> DEFINE s == SubSeq(text, a, a - 1)
    <2>1. s \in Seq(Byte) /\ Len(s) = 0
        <3>1. a <= a /\ a - a = 0
            BY <1>1
        <3> QED BY <1>3, <3>1
    <2> HIDE DEF s
    <2>2. Names(s) \in Seq(Seq(Byte)) /\ Len(Names(s)) = 0
        BY <1>2, <2>1
    <2>3. Names(s) = <<>>
        <3> HIDE DEF Names
        <3> QED BY <2>2, EmptySeq
    <2>4. FlattenSeq(<<>>) = <<>>
        BY EmptySeq DEF FlattenSeq
    <2>5. Spelled(s) = FlattenSeq(Names(s))
        BY DEF Spelled
    <2> HIDE DEF Names
    <2> QED BY <2>3, <2>4, <2>5 DEF Written, s
<1>5. ASSUME NEW m \in a..Len(text)
      PROVE  Written(text, a, m + 1) = Written(text, a, m) \o ByteString[text[m]]
    <2> DEFINE s == SubSeq(text, a, m)
               u == SubSeq(text, a, m - 1)
               n == m + 1 - a
               L == Names(s)
               K == Names(u)
    <2>1. m \in Int /\ a \in Int /\ m \in 1..Len(text) + 1 /\ m + 1 \in 1..Len(text) + 1 /\ a <= m
          /\ a <= m + 1 /\ (m + 1) - 1 = m /\ m - a = n - 1 /\ n \in Nat /\ n >= 1 /\ n - 1 \in Nat
          /\ a + n - 1 = m
        BY <1>1
    <2>2. s \in Seq(Byte) /\ Len(s) = n /\ \A j \in 1..n : s[j] = text[a + j - 1]
        <3> HIDE DEF n
        <3>1. (m + 1) - a = n
            BY DEF n
        <3> QED BY <1>3, <2>1, <3>1
    <2>3. u \in Seq(Byte) /\ Len(u) = n - 1 /\ \A j \in 1..n - 1 : u[j] = text[a + j - 1]
        <3> HIDE DEF n
        <3> QED BY <1>3, <2>1
    <2> HIDE DEF s, u, n
    <2>4. L \in Seq(Seq(Byte)) /\ Len(L) = n /\ \A k \in 1..n : L[k] = ByteString[s[k]]
        BY <1>2, <2>2
    <2>5. K \in Seq(Seq(Byte)) /\ Len(K) = n - 1 /\ \A k \in 1..n - 1 : K[k] = ByteString[u[k]]
        BY <1>2, <2>3
    <2>6. Spelled(s) = FlattenSeq(L) /\ Spelled(u) = FlattenSeq(K)
        BY DEF Spelled
    <2> HIDE DEF L, K, Names
    <2>7. SubSeq(L, 1, n) = L
        BY <2>4, SubSeqFull
    <2>8. SubSeq(L, 1, n - 1) = K
        <3>1. /\ SubSeq(L, 1, n - 1) \in Seq(Seq(Byte)) /\ Len(SubSeq(L, 1, n - 1)) = n - 1
              /\ \A k \in 1..n - 1 : SubSeq(L, 1, n - 1)[k] = L[k]
            <4>1. \A k \in 1..n - 1 : L[k] \in Seq(Byte)
                BY <2>1, <2>4, ElementOfSeq
            <4>2. n - 1 \in Int /\ (n - 1) - 1 + 1 = n - 1 /\ (1 <= n - 1 \/ n - 1 = 0)
                BY <2>1
            <4>3. \A k \in 1..n - 1 : 1 + k - 1 = k
                BY <2>1
            <4> QED BY <4>1, <4>2, <4>3, SubSeqProperties
        <3>2. \A k \in 1..n - 1 : L[k] = K[k]
            <4>1. \A k \in 1..n - 1 : k \in 1..n
                BY <2>1
            <4>2. \A k \in 1..n - 1 : s[k] = u[k]
                BY <2>2, <2>3, <4>1
            <4> SUFFICES ASSUME NEW k \in 1..n - 1 PROVE L[k] = K[k]
                OBVIOUS
            <4>3. L[k] = ByteString[s[k]]
                BY <2>4, <4>1
            <4>4. K[k] = ByteString[u[k]]
                BY <2>5
            <4> QED BY <4>2, <4>3, <4>4
        <3> QED BY <2>5, <3>1, <3>2, SeqEqual
    <2>9. n \in 1..Len(L) /\ L[n] = ByteString[text[m]]
        <3>1. n \in 1..n
            BY <2>1
        <3> QED BY <2>1, <2>2, <2>4, <3>1
    <2>10. FlattenSeq(SubSeq(L, 1, n)) = FlattenSeq(SubSeq(L, 1, n - 1)) \o L[n]
        BY <2>4, <2>9, FlattenSeqStep
    <2>11. Spelled(s) = Spelled(u) \o ByteString[text[m]]
        BY <2>6, <2>7, <2>8, <2>9, <2>10
    <2> QED BY <2>1, <2>11 DEF Written, s, u
<1> QED BY <1>4, <1>5

\* Texts may be grouped either way.
LEMMA Grouped == \A u, v, w \in Seq(Byte) : (u \o v) \o w = u \o (v \o w)
<1> SUFFICES ASSUME NEW u \in Seq(Byte), NEW v \in Seq(Byte), NEW w \in Seq(Byte)
             PROVE  (u \o v) \o w = u \o (v \o w)
    OBVIOUS
<1> QED BY ConcatAssociative, SMTT(30)

\* It is a text, no shorter than what it spells, and is put together where it was
\* cut.
LEMMA WrittenJoins ==
    ASSUME NEW text \in Seq(Byte), NEW a \in 1..Len(text) + 1, NEW b \in a..Len(text) + 1
    PROVE  /\ Written(text, a, b) \in Seq(Byte) /\ Len(Written(text, a, b)) >= b - a
           /\ \A c \in b..Len(text) + 1 :
                Written(text, a, c) = Written(text, a, b) \o Written(text, b, c)
<1>1. Len(text) \in Nat /\ \A k \in 1..Len(text) : text[k] \in Byte
    BY LenProperties, ElementOfSeq
<1> DEFINE N == Len(text) + 1
<1>2. ASSUME NEW x \in 1..N, NEW y \in x..N
      PROVE  Written(text, x, y) \in Seq(Byte) /\ Len(Written(text, x, y)) >= y - x
    <2> DEFINE M == N - x
               S == {n \in 0..M : /\ Written(text, x, x + n) \in Seq(Byte)
                                  /\ Len(Written(text, x, x + n)) >= n}
    <2>1. M \in Nat
        BY <1>1
    <2>2. 0 \in S
        <3>1. x + 0 = x
            BY <1>1
        <3>2. Written(text, x, x + 0) = <<>>
            BY <3>1, WrittenStep
        <3> HIDE DEF M
        <3> QED BY <2>1, <3>2, EmptySeq
    <2>3. ASSUME NEW n \in 0..M - 1, n \in S
          PROVE  n + 1 \in S
        <3>1. n + 1 \in 0..M /\ x + n \in x..Len(text) /\ x + n \in 1..Len(text) /\ x + (n + 1) = (x + n) + 1
            BY <1>1
        <3> DEFINE w == Written(text, x, x + n)
                   l == ByteString[text[x + n]]
        <3>2. Written(text, x, x + (n + 1)) = w \o l
            BY <3>1, WrittenStep
        <3>3. w \in Seq(Byte) /\ Len(w) >= n
            BY <2>3
        <3>4. l \in Seq(Byte) /\ Len(l) \in 1..2
            BY <1>1, <3>1, LetterTyped
        <3> HIDE DEF w, l
        <3>5. w \o l \in Seq(Byte) /\ Len(w \o l) = Len(w) + Len(l) /\ Len(w) \in Nat
            BY <3>3, <3>4, ConcatProperties, LenProperties
        <3>6. Len(w \o l) >= n + 1
            <4> DEFINE lw == Len(w)
                       ll == Len(l)
            <4>1. lw \in Nat /\ lw >= n /\ ll \in Nat /\ ll >= 1 /\ n \in Int
                <5>1. n \in Int
                    BY <2>1
                <5>2. ll \in Nat /\ ll >= 1
                    <6>1. ll \in 1..2
                        BY <3>4
                    <6> HIDE DEF ll
                    <6> QED BY <6>1
                <5> QED BY <3>3, <3>5, <5>1, <5>2
            <4>2. Len(w \o l) = lw + ll
                BY <3>5
            <4> HIDE DEF lw, ll
            <4> QED BY <4>1, <4>2
        <3> HIDE DEF M
        <3> QED BY <3>1, <3>2, <3>5, <3>6
    <2>4. y - x \in 0..M /\ x + (y - x) = y
        BY <1>1
    <2> HIDE DEF S, M
    <2>5. y - x \in S
        BY <2>1, <2>2, <2>3, <2>4, UpToInduction
    <2> QED BY <2>4, <2>5 DEF S
<1>3. ASSUME NEW c \in b..N
      PROVE  Written(text, a, c) = Written(text, a, b) \o Written(text, b, c)
    <2> DEFINE M == N - b
               S == {n \in 0..M : Written(text, a, b + n) = Written(text, a, b) \o Written(text, b, b + n)}
    <2>1. M \in Nat /\ b \in 1..N
        BY <1>1
    <2> DEFINE ab == Written(text, a, b)
    <2>2. 0 \in S
        <3>1. b + 0 = b
            BY <1>1
        <3>2. Written(text, b, b + 0) = <<>>
            BY <2>1, <3>1, WrittenStep
        <3>3. ab \in Seq(Byte)
            BY <1>2
        <3> HIDE DEF M, ab
        <3>4. ab \o <<>> = ab
            BY <3>3, ConcatEmptySeq
        <3>5. 0 \in 0..M
            BY <2>1
        <3> QED BY <3>1, <3>2, <3>4, <3>5 DEF ab
    <2>3. ASSUME NEW n \in 0..M - 1, n \in S
          PROVE  n + 1 \in S
        <3>1. /\ n + 1 \in 0..M /\ b + n \in b..Len(text) /\ b + n \in a..Len(text) /\ b + n \in b..N
              /\ b + n \in 1..Len(text) /\ b + (n + 1) = (b + n) + 1
            BY <1>1
        <3> DEFINE w == Written(text, b, b + n)
                   l == ByteString[text[b + n]]
        <3>2. Written(text, b, b + (n + 1)) = w \o l
            BY <2>1, <3>1, WrittenStep
        <3>3. Written(text, a, b + (n + 1)) = Written(text, a, b + n) \o l
            BY <3>1, WrittenStep
        <3>4. ab \in Seq(Byte) /\ w \in Seq(Byte) /\ l \in Seq(Byte)
            <4>1. ab \in Seq(Byte)
                BY <1>2
            <4>2. w \in Seq(Byte)
                BY <1>2, <2>1, <3>1
            <4>3. l \in Seq(Byte)
                BY <1>1, <3>1, LetterTyped
            <4> QED BY <4>1, <4>2, <4>3
        <3>5. Written(text, a, b + n) = ab \o w
            BY <2>3
        <3> HIDE DEF w, l, M, ab
        <3>6. (ab \o w) \o l = ab \o (w \o l)
            <4> HIDE DEF S
            <4> QED BY <3>4, Grouped
        <3> QED BY <3>1, <3>2, <3>3, <3>5, <3>6 DEF ab
    <2>4. c - b \in 0..M /\ b + (c - b) = c
        BY <1>1
    <2> HIDE DEF S, M
    <2>5. c - b \in S
        BY <2>1, <2>2, <2>3, <2>4, UpToInduction
    <2> QED BY <2>4, <2>5 DEF S
<1> QED BY <1>2, <1>3

\* A quote or a backslash comes from nothing else.
LEMMA ClearLetter ==
    ASSUME NEW b \in Byte, b \notin {Quote, Backslash}
    PROVE  \A k \in 1..Len(ByteString[b]) : ByteString[b][k] \notin {Quote, Backslash}
<1> DEFINE l == ByteString[b]
<1>1. CASE b \in 33..126
    <2>1. l = <<b>>
        BY <1>1, PlainLetter
    <2> HIDE DEF l
    <2>2. Len(l) = 1 /\ l[1] = b
        BY <2>1
    <2>3. \A k \in 1..Len(l) : k = 1
        BY <2>2
    <2> QED BY <2>2, <2>3 DEF l
<1>2. CASE b \notin 33..126
    <2>0. TwoBytes(l, b)
        BY <1>2, OtherLetter
    <2> HIDE DEF l
    <2>1. PICK x \in 192..255, y \in 128..191 : l = <<x, y>>
        BY <2>0 DEF TwoBytes
    <2>2. Len(l) = 2 /\ l[1] = x /\ l[2] = y
        BY <2>1
    <2>3. \A k \in 1..Len(l) : k = 1 \/ k = 2
        BY <2>2
    <2>4. x \notin {Quote, Backslash} /\ y \notin {Quote, Backslash}
        BY DEF Quote, Backslash
    <2> QED BY <2>2, <2>3, <2>4 DEF l
<1> QED BY <1>1, <1>2 DEF l

\* What is put in front is a prefix, what comes behind it is the rest.
LEMMA PrefixJoined ==
    ASSUME NEW V, NEW s \in Seq(V), NEW t \in Seq(V)
    PROVE  IsPrefix(s, s \o t) /\ SubSeq(s \o t, Len(s) + 1, Len(s \o t)) = t
<1> DEFINE u == s \o t
           n == Len(s)
           m == Len(t)
<1>1. /\ n \in Nat /\ m \in Nat /\ u \in Seq(V) /\ Len(u) = n + m
      /\ \A k \in 1..n : u[k] = s[k] /\ s[k] \in V
      /\ \A k \in 1..m : u[n + k] = t[k] /\ t[k] \in V
    <2>1. n \in Nat /\ m \in Nat
        BY LenProperties
    <2>2. u \in Seq(V) /\ Len(u) = n + m /\ \A k \in 1..n + m : u[k] = IF k <= n THEN s[k] ELSE t[k - n]
        BY ConcatProperties
    <2>3. (\A k \in 1..n : s[k] \in V) /\ \A k \in 1..m : t[k] \in V
        BY ElementOfSeq
    <2> HIDE DEF u, n, m
    <2>4. \A k \in 1..n : k \in 1..n + m /\ k <= n
        BY <2>1
    <2>5. \A k \in 1..m : n + k \in 1..n + m /\ ~(n + k <= n) /\ (n + k) - n = k
        BY <2>1
    <2> QED BY <2>1, <2>2, <2>3, <2>4, <2>5
<1> HIDE DEF u, n, m
<1>2. SubSeq(u, 1, n) = s /\ SubSeq(s, 1, n) = s
    <2>1. n \in Int /\ n - 1 + 1 = n /\ (1 <= n \/ n = 0) /\ \A k \in 1..n : u[k] \in V /\ 1 + k - 1 = k
        BY <1>1
    <2>2. /\ SubSeq(u, 1, n) \in Seq(V) /\ Len(SubSeq(u, 1, n)) = n
          /\ \A k \in 1..n : SubSeq(u, 1, n)[k] = u[k]
        BY <2>1, SubSeqProperties
    <2>3. \A k \in 1..n : SubSeq(u, 1, n)[k] = s[k]
        BY <1>1, <2>2
    <2>4. SubSeq(u, 1, n) = s
        BY <2>2, <2>3, SeqEqual DEF n
    <2> QED BY <2>4, SubSeqFull DEF n
<1>3. SubSeq(u, n + 1, Len(u)) = t
    <2> DEFINE e == n + m
               v == SubSeq(u, n + 1, e)
    <2>1. /\ n + 1 \in Int /\ e \in Int /\ e - (n + 1) + 1 = m /\ (n + 1 <= e \/ m = 0)
          /\ \A k \in 1..m : n + 1 + k - 1 = n + k
        BY <1>1
    <2>2. \A k \in n + 1..e : u[k] \in V
        <3> SUFFICES ASSUME NEW k \in n + 1..e PROVE u[k] \in V
            OBVIOUS
        <3>1. k - n \in 1..m /\ n + (k - n) = k
            BY <1>1
        <3> QED BY <1>1, <3>1
    <2> HIDE DEF e
    <2>3. v \in Seq(V) /\ Len(v) = m /\ \A k \in 1..m : v[k] = u[n + 1 + k - 1]
        BY <2>1, <2>2, SubSeqProperties
    <2> HIDE DEF v
    <2>4. \A k \in 1..m : v[k] = t[k]
        BY <1>1, <2>1, <2>3
    <2>5. v = t
        BY <2>3, <2>4, SeqEqual DEF m
    <2> QED BY <1>1, <2>5 DEF v, e
<1>4. n <= Len(u)
    BY <1>1
<1> QED BY <1>2, <1>3, <1>4 DEF IsPrefix, u, n

\* The text of a token is its string, without the marker in front.
LEMMA OrdinaryText ==
    ASSUME NEW t, NEW id, Ordinary(t, id)
    PROVE  /\ ~IsPrefix(SpaceMarker, t.id_to_str[id]) => TokenText(t, id) = t.id_to_str[id]
           /\ \A v \in Seq(Byte) : t.id_to_str[id] = SpaceMarker \o v => TokenText(t, id) = v
<1> DEFINE s == t.id_to_str[id]
<1>1. TokenText(t, id) = IF IsPrefix(SpaceMarker, s) THEN SubSeq(s, 3, Len(s)) ELSE s
    BY DEF Ordinary, TokenText, KRL_TOK_BOS, KRL_TOK_PAD, KRL_TOK_EOS, KRL_TOK_UNK
<1>2. SpaceMarker \in Seq(Byte) /\ Len(SpaceMarker) = 2
    BY DEF SpaceMarker, Byte
<1> HIDE DEF s
<1>3. ASSUME NEW v \in Seq(Byte), s = SpaceMarker \o v PROVE TokenText(t, id) = v
    <2>1. IsPrefix(SpaceMarker, s) /\ SubSeq(s, 2 + 1, Len(s)) = v
        BY <1>2, <1>3, PrefixJoined
    <2>2. 2 + 1 = 3
        OBVIOUS
    <2> QED BY <1>1, <2>1, <2>2
<1> QED BY <1>1, <1>3 DEF s

\* The marker is how a space is written.
LEMMA SpaceLetter == ByteString[32] = SpaceMarker
<1> DEFINE P == 33..126 \cup 161..172 \cup 174..255
           c == Cardinality((0..31) \ P)
<1>1. c = 32
    <2>1. (0..31) \ P = 0..31
        OBVIOUS
    <2>2. Cardinality(0..31) = 32
        <3>1. \A n \in Nat : Cardinality(0..n) = n + 1
            <4> SUFFICES ASSUME NEW n \in Nat PROVE Cardinality(0..n) = n + 1
                OBVIOUS
            <4>1. Cardinality(0..n) = IF 0 > n THEN 0 ELSE n - 0 + 1
                BY FS_Interval
            <4> QED BY <4>1
        <3> DEFINE n == 31
        <3>2. n \in Nat
            OBVIOUS
        <3> HIDE DEF n
        <3>3. Cardinality(0..n) = n + 1
            BY <3>1, <3>2
        <3> QED BY <3>3 DEF n
    <2> QED BY <2>1, <2>2
<1>2. byte_to_unicode[32] = 256 + c
    <2>1. 32 \in 0..255 /\ 32 \notin P /\ 32 - 1 = 31
        OBVIOUS
    <2> HIDE DEF P
    <2>2. byte_to_unicode[32] = 256 + Cardinality((0..32 - 1) \ P)
        BY <2>1 DEF byte_to_unicode, P
    <2> QED BY <2>1, <2>2
<1> HIDE DEF c
<1>3. ByteString[32] = cp_to_utf8(288)
    BY <1>1, <1>2 DEF ByteString
<1>4. 288 \div 64 = 4 /\ 288 % 64 = 32
    OBVIOUS
<1> QED BY <1>3, <1>4 DEF cp_to_utf8, SpaceMarker

\* A text that begins with a byte other than the space does not begin with the
\* marker.
LEMMA WrittenFirst ==
    ASSUME NEW text \in Seq(Byte), NEW a \in 1..Len(text), text[a] # 32, NEW m \in a + 1..Len(text) + 1
    PROVE  Written(text, a, m) # <<>> /\ ~IsPrefix(SpaceMarker, Written(text, a, m))
<1> DEFINE b == text[a]
           l == ByteString[b]
           v == Written(text, a + 1, m)
           w == Written(text, a, m)
<1>1. Len(text) \in Nat /\ b \in Byte
    BY LenProperties, ElementOfSeq
<1>2. a \in 1..Len(text) + 1 /\ a + 1 \in 1..Len(text) + 1 /\ a + 1 \in a..Len(text) + 1 /\ a \in a..Len(text)
    BY <1>1
<1>3. w = l \o v /\ v \in Seq(Byte) /\ l \in Seq(Byte) /\ Len(l) \in 1..2
    <2>1. l \in Seq(Byte) /\ Len(l) \in 1..2
        BY <1>1, LetterTyped
    <2>2. Written(text, a, a + 1) = Written(text, a, a) \o l /\ Written(text, a, a) = <<>>
        BY <1>2, WrittenStep
    <2>3. Written(text, a, a + 1) = l
        <3> HIDE DEF l
        <3> QED BY <2>1, <2>2, ConcatEmptySeq
    <2>4. w = Written(text, a, a + 1) \o v
        BY <1>2, WrittenJoins
    <2>5. v \in Seq(Byte)
        BY <1>2, WrittenJoins
    <2> QED BY <2>1, <2>3, <2>4, <2>5
<1> DEFINE n == Len(l)
<1>4. /\ w \in Seq(Byte) /\ Len(w) = n + Len(v) /\ Len(v) \in Nat /\ n \in 1..2
      /\ \A k \in 1..n : w[k] = l[k]
    <2> HIDE DEF w, l, v
    <2>1. w \in Seq(Byte) /\ Len(w) = n + Len(v) /\ Len(v) \in Nat /\ n \in 1..2
          /\ \A k \in 1..n + Len(v) : w[k] = IF k <= n THEN l[k] ELSE v[k - n]
        BY <1>3, ConcatProperties, LenProperties
    <2> HIDE DEF n
    <2>2. \A k \in 1..n : k \in 1..n + Len(v) /\ k <= n
        BY <2>1
    <2> QED BY <2>1, <2>2
<1>5. ASSUME b \in 33..126 PROVE l[1] # 196
    <2>1. l = <<b>>
        BY <1>1, <1>5, PlainLetter
    <2> HIDE DEF b, l
    <2>2. l[1] = b
        BY <2>1
    <2> QED BY <1>5, <2>2
<1>6. ASSUME b \notin 33..126 PROVE n = 2 /\ ~(l[1] = 196 /\ l[2] = 160)
    <2>1. n = 2 /\ (l[1] = 196 /\ l[2] = 160 => b = 32)
        <3>1. b \in Byte
            BY <1>1
        <3> HIDE DEF b
        <3>0. TwoBytes(l, b)
            BY <1>6, <3>1, OtherLetter
        <3> HIDE DEF l
        <3>2. PICK x \in 192..255, y \in 128..191 : l = <<x, y>> /\ (x = 196 /\ y = 160 => b = 32)
            BY <3>0 DEF TwoBytes
        <3>3. Len(l) = 2 /\ l[1] = x /\ l[2] = y
            BY <3>2
        <3> QED BY <3>2, <3>3
    <2>2. b # 32
        OBVIOUS
    <2> HIDE DEF n, l, b
    <2> QED BY <2>1, <2>2
<1> HIDE DEF w, l, v, n, b
<1>7. w # <<>>
    <2>1. Len(w) # 0
        BY <1>4
    <2> QED BY <2>1, EmptySeq
<1>8. ASSUME IsPrefix(SpaceMarker, w) PROVE FALSE
    <2>1. Len(SpaceMarker) = 2 /\ SpaceMarker[1] = 196 /\ SpaceMarker[2] = 160
          /\ SpaceMarker \in Seq(Byte)
        BY DEF SpaceMarker, Byte
    <2>2. 2 <= Len(w) /\ SubSeq(w, 1, 2) = SubSeq(SpaceMarker, 1, 2)
        BY <1>8, <2>1 DEF IsPrefix
    <2>3. SubSeq(SpaceMarker, 1, 2) = SpaceMarker
        BY <2>1, SubSeqFull
    <2>4. \A k \in 1..2 : SubSeq(w, 1, 2)[k] = w[k]
        <3>1. \A k \in 1..2 : k \in 1..Len(w) /\ 1 + k - 1 = k
            BY <1>4, <2>2
        <3>2. \A k \in 1..2 : w[k] \in Byte
            BY <1>4, <3>1, ElementOfSeq
        <3>3. 2 - 1 + 1 = 2
            OBVIOUS
        <3> QED BY <3>1, <3>2, <3>3, SubSeqProperties
    <2>5. 1 \in 1..2 /\ 2 \in 1..2
        OBVIOUS
    <2>6. w[1] = 196 /\ w[2] = 160
        BY <2>1, <2>2, <2>3, <2>4, <2>5
    <2>7. 1 \in 1..n
        BY <1>4
    <2>8. b \notin 33..126
        BY <1>4, <1>5, <2>6, <2>7
    <2>9. n = 2 /\ ~(l[1] = 196 /\ l[2] = 160)
        BY <1>6, <2>8
    <2>10. 1 \in 1..n /\ 2 \in 1..n
        BY <2>9
    <2>11. w[1] = l[1] /\ w[2] = l[2]
        BY <1>4, <2>10
    <2> QED BY <2>6, <2>9, <2>11
<1> QED BY <1>7, <1>8 DEF w

\* Printable ASCII is written as it is, and quotes and backslashes come from
\* nothing else.
LEMMA WrittenPlain ==
    ASSUME NEW text \in Seq(Byte), NEW a \in 1..Len(text) + 1, NEW m \in a..Len(text) + 1
    PROVE  /\ (\A k \in a..m - 1 : text[k] \in 33..126) =>
                Written(text, a, m) = SubSeq(text, a, m - 1)
           /\ (\A k \in a..m - 1 : text[k] \notin {Quote, Backslash}) =>
                \A k \in 1..Len(Written(text, a, m)) : Written(text, a, m)[k] \notin {Quote, Backslash}
<1> DEFINE N == Len(text) + 1
           M == m - a
           W(n) == Written(text, a, a + n)
           T(n) == SubSeq(text, a, a + n - 1)
<1>1. /\ Len(text) \in Nat /\ M \in Nat /\ a + M = m
      /\ \A k \in 1..Len(text) : text[k] \in Byte
    BY LenProperties, ElementOfSeq
<1>2. /\ \A n \in 0..M : W(n) \in Seq(Byte)
      /\ W(0) = <<>>
      /\ \A n \in 0..M - 1 : a + n \in 1..Len(text) /\ a + n \in a..m - 1 /\ W(n + 1) = W(n) \o ByteString[text[a + n]]
    <2>1. \A n \in 0..M : a + n \in a..N
        BY <1>1
    <2>2. \A n \in 0..M : W(n) \in Seq(Byte)
        BY <2>1, WrittenJoins
    <2>3. a + 0 = a /\ W(0) = <<>>
        <3>1. a + 0 = a
            BY <1>1
        <3> QED BY <3>1, WrittenStep
    <2>4. ASSUME NEW n \in 0..M - 1
          PROVE  a + n \in 1..Len(text) /\ a + n \in a..m - 1 /\ W(n + 1) = W(n) \o ByteString[text[a + n]]
        <3>1. a + n \in 1..Len(text) /\ a + n \in a..m - 1 /\ a + n \in a..Len(text) /\ a + (n + 1) = (a + n) + 1
            BY <1>1
        <3> QED BY <3>1, WrittenStep
    <2> QED BY <2>2, <2>3, <2>4
<1>3. ASSUME \A k \in a..m - 1 : text[k] \in 33..126
      PROVE  Written(text, a, m) = SubSeq(text, a, m - 1)
    <2> DEFINE S == {n \in 0..M : W(n) = T(n)}
    <2>1. 0 \in S
        <3>1. a \in Int /\ a + 0 - 1 \in Int /\ a + 0 - 1 < a
            BY <1>1
        <3>2. T(0) = <<>>
            BY <3>1, SubSeqEmpty
        <3> HIDE DEF W, T
        <3> QED BY <1>1, <1>2, <3>2
    <2>2. ASSUME NEW n \in 0..M - 1, n \in S
          PROVE  n + 1 \in S
        <3>1. /\ n + 1 \in 0..M /\ a \in 1..Len(text) /\ a + (n + 1) - 1 = a + n
              /\ a + n \in a..Len(text) /\ (a + n) - 1 = a + n - 1
            BY <1>1, <1>2
        <3>2. T(n + 1) = T(n) \o <<text[a + n]>>
            BY <3>1, SubSeqRecursiveSecond
        <3>3. ByteString[text[a + n]] = <<text[a + n]>>
            <4>1. text[a + n] \in Byte /\ text[a + n] \in 33..126
                BY <1>1, <1>2, <1>3
            <4> QED BY <4>1, PlainLetter
        <3> HIDE DEF W, T
        <3> QED BY <1>2, <2>2, <3>1, <3>2, <3>3
    <2> HIDE DEF S
    <2>3. M \in S
        <3> HIDE DEF M
        <3>1. M \in Nat /\ M \in 0..M
            BY <1>1
        <3>2. 0..M \subseteq S
            BY <2>1, <2>2, <3>1, UpToInduction
        <3> QED BY <3>1, <3>2
    <2>4. W(M) = T(M)
        <3> HIDE DEF W, T
        <3> QED BY <2>3 DEF S
    <2> QED BY <1>1, <2>4
<1>4. ASSUME \A k \in a..m - 1 : text[k] \notin {Quote, Backslash}
      PROVE  \A k \in 1..Len(Written(text, a, m)) : Written(text, a, m)[k] \notin {Quote, Backslash}
    <2> DEFINE Clear(s) == \A k \in 1..Len(s) : s[k] \notin {Quote, Backslash}
               S == {n \in 0..M : Clear(W(n))}
    <2>1. 0 \in S
        <3> HIDE DEF W
        <3>1. Len(W(0)) = 0
            BY <1>2, EmptySeq
        <3> QED BY <1>1, <3>1
    <2>2. ASSUME NEW n \in 0..M - 1, n \in S
          PROVE  n + 1 \in S
        <3> DEFINE b == text[a + n]
                   l == ByteString[b]
                   w == W(n)
        <3>1. b \in Byte /\ b \notin {Quote, Backslash} /\ l \in Seq(Byte) /\ w \in Seq(Byte)
            <4>1. b \in Byte /\ b \notin {Quote, Backslash}
                BY <1>1, <1>2, <1>4
            <4>2. n \in 0..M
                BY <1>1
            <4> QED BY <1>2, <4>1, <4>2, LetterTyped
        <3>2. W(n + 1) = w \o l
            BY <1>2
        <3>3. Clear(l)
            BY <3>1, ClearLetter
        <3>4. Clear(w)
            BY <2>2
        <3> HIDE DEF l, w, b
        <3>5. Clear(w \o l)
            <4>1. Len(w) \in Nat /\ Len(l) \in Nat
                BY <3>1, LenProperties
            <4>2. Len(w \o l) = Len(w) + Len(l)
                  /\ \A k \in 1..Len(w) + Len(l) : (w \o l)[k] = IF k <= Len(w) THEN w[k] ELSE l[k - Len(w)]
                BY <3>1, ConcatProperties
            <4> DEFINE x == Len(w)
                       y == Len(l)
            <4>3. \A k \in 1..x + y : IF k <= x THEN k \in 1..x ELSE k - x \in 1..y
                <5> HIDE DEF x, y
                <5> QED BY <4>1 DEF x, y
            <4> QED BY <3>3, <3>4, <4>2, <4>3
        <3>6. n + 1 \in 0..M
            BY <1>1
        <3> HIDE DEF W, M
        <3> QED BY <3>2, <3>5, <3>6
    <2> HIDE DEF S
    <2>3. M \in S
        <3> HIDE DEF M
        <3>1. M \in Nat /\ M \in 0..M
            BY <1>1
        <3>2. 0..M \subseteq S
            BY <2>1, <2>2, <3>1, UpToInduction
        <3> QED BY <3>1, <3>2
    <2>4. Clear(W(M))
        <3> HIDE DEF W, Clear
        <3> QED BY <2>3 DEF S
    <2> QED BY <1>1, <2>4
<1> QED BY <1>3, <1>4

\* A word has no whitespace in it, and ends in the same place wherever one is in
\* it.
LEMMA WordEndIs ==
    ASSUME NEW text \in Seq(Byte), NEW a \in 1..Len(text)
    PROVE  /\ WordEnd(text, a) \in a..Len(text) + 1
           /\ text[a] \notin Whitespace => a < WordEnd(text, a)
           /\ \A k \in a..WordEnd(text, a) - 1 :
                 k \in 1..Len(text) /\ text[k] \notin Whitespace /\ WordEnd(text, k) = WordEnd(text, a)
<1> DEFINE N == Len(text)
           Ends(b) == {k \in b..N : text[k] \in Whitespace} \cup {N + 1}
           end == WordEnd(text, a)
<1>1. N \in Nat
    BY LenProperties
<1>2. ASSUME NEW b \in 1..N
      PROVE  /\ WordEnd(text, b) \in Ends(b) /\ \A k \in Ends(b) : WordEnd(text, b) <= k
             /\ WordEnd(text, b) \in b..N + 1
    <2>1. WordEnd(text, b) = Min(Ends(b))
        BY DEF WordEnd
    <2>2. Ends(b) \subseteq b..N + 1 /\ Ends(b) \subseteq Nat /\ Ends(b) # {}
        BY <1>1
    <2> HIDE DEF Ends
    <2>3. Min(Ends(b)) \in Ends(b) /\ \A k \in Ends(b) : Min(Ends(b)) <= k
        BY <2>2, MinOf
    <2> QED BY <2>1, <2>2, <2>3
<1>3. end \in a..N + 1
    BY <1>2
<1>4. \A k \in a..end - 1 : k \in 1..N /\ text[k] \notin Whitespace
    <2> SUFFICES ASSUME NEW k \in a..end - 1 PROVE k \in 1..N /\ text[k] \notin Whitespace
        OBVIOUS
    <2>1. k \in 1..N /\ k \in a..N /\ k < end
        <3> HIDE DEF end
        <3> QED BY <1>1, <1>3
    <2>2. text[k] \in Whitespace => end <= k
        BY <1>2, <2>1
    <2>3. end \in Int
        BY <1>1, <1>3
    <2> HIDE DEF end
    <2> QED BY <2>1, <2>2, <2>3
<1>5. text[a] \notin Whitespace => a < end
    <2>1. ASSUME end = a PROVE text[a] \in Whitespace
        <3>1. a \in Ends(a) /\ a # N + 1
            BY <1>1, <1>2, <2>1
        <3> QED BY <3>1
    <2> HIDE DEF end
    <2> QED BY <1>1, <1>3, <2>1
<1>6. ASSUME NEW b \in a..end - 1 PROVE WordEnd(text, b) = end
    <2>1. b \in 1..N /\ b < end /\ end \in Int /\ a <= b
        <3> HIDE DEF end
        <3> QED BY <1>1, <1>3
    <2>2. end \in Ends(b)
        <3>1. end \in Ends(a)
            BY <1>2
        <3> HIDE DEF end
        <3> QED BY <1>1, <1>3, <2>1, <3>1
    <2>3. Ends(b) \subseteq Ends(a)
        BY <1>1, <2>1
    <2>4. WordEnd(text, b) <= end
        BY <1>2, <2>1, <2>2
    <2>5. end <= WordEnd(text, b)
        BY <1>2, <2>1, <2>3
    <2>6. WordEnd(text, b) \in Int
        BY <1>1, <1>2, <2>1
    <2> HIDE DEF end
    <2> QED BY <2>1, <2>4, <2>5, <2>6
<1> QED BY <1>3, <1>4, <1>5, <1>6

\* One letter.
LEMMA LetterWritten ==
    ASSUME NEW text \in Seq(Byte), NEW a \in 1..Len(text)
    PROVE  Written(text, a, a + 1) = ByteString[text[a]]
<1> DEFINE l == ByteString[text[a]]
<1>1. a \in 1..Len(text) + 1 /\ a \in a..Len(text) /\ text[a] \in Byte
    BY LenProperties, ElementOfSeq
<1>2. Written(text, a, a) = <<>> /\ Written(text, a, a + 1) = Written(text, a, a) \o l
    BY <1>1, WrittenStep
<1>3. l \in Seq(Byte)
    BY <1>1, LetterTyped
<1> HIDE DEF l
<1>4. <<>> \o l = l
    BY <1>3, ConcatEmptySeq
<1> QED BY <1>2, <1>4 DEF l

-----------------------------------------------------------------------------
(* What the tokens stand for. *)

\* Token x is the text up to m, unless the vocabulary lacks it.
Says(t, text, x, m) ==
    /\ x.at \in 1..Len(text) /\ m \in x.at..WordEnd(text, x.at)
    /\ \/ x.id = KRL_TOK_UNK
       \/ Ordinary(t, x.id) /\ TokenText(t, x.id) = Written(text, x.at, m)

\* A token within a word is not the marker alone.
Inner(t, x) == x.id = KRL_TOK_UNK \/ TokenText(t, x.id) # <<>>

\* y comes behind x: in the same word, where x ends, or in a later one.
Link(t, text, x, y) ==
    LET end == WordEnd(text, x.at) IN
    \E m \in x.at..end :
        /\ Says(t, text, x, m)
        /\ \/ y.at = m /\ m < end /\ Inner(t, y)
           \/ y.at >= end

\* The word of x is over at q.
Ended(t, text, x, q) ==
    (\E m \in x.at..WordEnd(text, x.at) : Says(t, text, x, m)) /\ WordEnd(text, x.at) <= q

\* The nodes of a word, s, are its text up to stop, with the marker in front.
Until(s, k, stop) == IF k = Len(s) THEN stop ELSE s[k + 1].at
Marker(k) == IF k = 1 THEN SpaceMarker ELSE <<>>
Covers(t, text, s, stop) ==
    \A k \in 1..Len(s) :
        LET from == s[k].at
            to == Until(s, k, stop) IN
        /\ s[1].at <= from /\ to <= stop /\ (from < to \/ (k = 1 /\ from = to))
        /\ \/ s[k].id = KRL_TOK_UNK
           \/ /\ Ordinary(t, s[k].id)
              /\ t.id_to_str[s[k].id] = Marker(k) \o Written(text, from, to)

\* Nodes are tokens of the word.
LEMMA NodeSays ==
    ASSUME NEW t, NEW text \in Seq(Byte), NEW s, Len(s) \in Nat,
           \A k \in 1..Len(s) : s[k].at \in Nat,
           s[1].at \in 1..Len(text), text[s[1].at] \notin Whitespace,
           NEW stop \in s[1].at..WordEnd(text, s[1].at), Covers(t, text, s, stop),
           NEW k \in 1..Len(s)
    PROVE  /\ Says(t, text, s[k], Until(s, k, stop))
           /\ WordEnd(text, s[k].at) = WordEnd(text, s[1].at)
           /\ k # 1 => Inner(t, s[k])
<1> DEFINE a == s[1].at
           end == WordEnd(text, a)
           from == s[k].at
           to == Until(s, k, stop)
           w == Written(text, from, to)
           str == t.id_to_str[s[k].id]
<1>1. /\ Len(text) \in Nat /\ end \in a..Len(text) + 1 /\ a < end
      /\ \A j \in a..end - 1 : j \in 1..Len(text) /\ text[j] \notin Whitespace /\ WordEnd(text, j) = end
    BY WordEndIs, LenProperties
<1>2. /\ a <= from /\ to <= stop /\ (from < to \/ (k = 1 /\ from = to))
      /\ \/ s[k].id = KRL_TOK_UNK
         \/ Ordinary(t, s[k].id) /\ str = Marker(k) \o w
    BY DEF Covers
<1>3. from \in Nat /\ to \in Nat /\ a \in Nat /\ stop \in Nat /\ end \in Nat /\ stop <= end
    <2>1. from \in Nat /\ a \in Nat /\ end \in Nat /\ stop \in Nat /\ stop <= end
        <3> HIDE DEF end, a
        <3>1. 1..Len(text) \subseteq Nat /\ a \in 1..Len(text)
            BY <1>1 DEF a
        <3>2. stop \in a..end
            BY DEF a, end
        <3> QED BY <1>1, <3>1, <3>2
    <2>2. to = stop \/ (to = s[k + 1].at /\ k + 1 \in 1..Len(s))
        <3>1. to = IF k = Len(s) THEN stop ELSE s[k + 1].at
            BY DEF Until
        <3>2. k # Len(s) => k + 1 \in 1..Len(s)
            OBVIOUS
        <3> HIDE DEF to
        <3> QED BY <3>1, <3>2
    <2> HIDE DEF from, to, a, end
    <2>3. \A j \in 1..Len(s) : s[j].at \in Nat
        OBVIOUS
    <2> QED BY <2>1, <2>2, <2>3
<1> HIDE DEF to, end
<1>4. from \in a..end - 1 /\ to \in from..end
    <2>1. k = 1 => from = a
        OBVIOUS
    <2> HIDE DEF from, a
    <2> QED BY <1>1, <1>2, <1>3, <2>1
<1>5. from \in 1..Len(text) /\ text[from] \notin Whitespace /\ WordEnd(text, from) = end
    <2> HIDE DEF from, a
    <2> QED BY <1>1, <1>4
<1>6. w \in Seq(Byte)
    <2>1. from \in 1..Len(text) + 1 /\ to \in from..Len(text) + 1
        <3> HIDE DEF from, a
        <3> QED BY <1>1, <1>3, <1>4, <1>5
    <2> QED BY <2>1, WrittenJoins
<1>7. CASE s[k].id = KRL_TOK_UNK
    BY <1>4, <1>5, <1>7 DEF Says, Inner, to, end
<1>8. CASE k = 1 /\ Ordinary(t, s[k].id) /\ str = Marker(k) \o w
    <2>1. str = SpaceMarker \o w
        BY <1>8 DEF Marker
    <2>2. TokenText(t, s[k].id) = w
        <3> HIDE DEF w
        <3> QED BY <1>6, <1>8, <2>1, OrdinaryText
    <2> QED BY <1>4, <1>5, <1>8, <2>2 DEF Says, to, end
<1>9. CASE k # 1 /\ Ordinary(t, s[k].id) /\ str = Marker(k) \o w
    <2>1. str = <<>> \o w
        BY <1>9 DEF Marker
    <2>2. str = w
        <3> HIDE DEF w, str
        <3> QED BY <1>6, <2>1, ConcatEmptySeq
    <2>3. w # <<>> /\ ~IsPrefix(SpaceMarker, w)
        <3>1. text[from] # 32
            BY <1>5 DEF Whitespace
        <3>2. to \in from + 1..Len(text) + 1
            <4>1. from < to
                BY <1>2, <1>9
            <4> HIDE DEF from, a
            <4> QED BY <1>1, <1>3, <1>4, <4>1
        <3> QED BY <1>5, <3>1, <3>2, WrittenFirst
    <2>4. TokenText(t, s[k].id) = w
        <3> HIDE DEF w
        <3> QED BY <1>9, <2>2, <2>3, OrdinaryText
    <2> QED BY <1>4, <1>5, <1>9, <2>3, <2>4 DEF Says, Inner, to, end
<1> QED BY <1>2, <1>7, <1>8, <1>9 DEF to, end

-----------------------------------------------------------------------------
(* The nodes of a word. *)

\* The nodes of a word that was just collected, of as much of it as the buffer
\* takes.
LEMMA CollectCovers ==
    ASSUME NEW t, Spells(t), NEW text \in Seq(Byte), NEW a \in 1..Len(text), text[a] \notin Whitespace
    PROVE  LET s == BpeNodes(t, text, a, WordEnd(text, a)) IN
           /\ Len(s) >= 1 /\ s[1].at = a
           /\ \E stop \in a..WordEnd(text, a) : Covers(t, text, s, stop)
<1> DEFINE end == WordEnd(text, a)
           n == Min({end - a, BpeMaxChars - 2})
           id(b) == ht_lookup(t, ByteString[b])
           h == [id |-> id(32), at |-> a]
           e(k) == [id |-> id(text[a + k - 1]), at |-> a + k - 1]
           rest == [k \in 1..n |-> e(k)]
           V == {h} \cup {e(k) : k \in 1..n}
           s == BpeNodes(t, text, a, end)
           stop == a + n
<1>1. Len(text) \in Nat /\ end \in a..Len(text) + 1
    BY LenProperties, WordEndIs
<1>2. n \in Nat /\ n <= end - a
    <2> HIDE DEF end
    <2> DEFINE S == {end - a, BpeMaxChars - 2}
    <2>1. S \subseteq Nat /\ S # {} /\ end - a \in S
        BY <1>1, TokenizerAssumption
    <2>2. Min(S) \in S /\ \A x \in S : Min(S) <= x
        <3> HIDE DEF S
        <3> QED BY <2>1, MinOf
    <2>3. Min(S) \in Nat /\ Min(S) <= end - a
        <3> HIDE DEF S
        <3> QED BY <2>1, <2>2
    <2> QED BY <2>3
<1>3. s = <<h>> \o rest
    BY DEF BpeNodes
<1> HIDE DEF n, end, id, s
<1>4. Len(s) = n + 1 /\ s[1] = h /\ \A k \in 1..n : s[k + 1] = e(k)
    <2>1. rest \in Seq(V)
        <3>1. \A k \in 1..n : e(k) \in V
            OBVIOUS
        <3> HIDE DEF V, e
        <3> QED BY <1>2, <3>1, IsASeq
    <2>2. Len(rest) = n /\ \A k \in 1..n : rest[k] = e(k)
        <3>1. DOMAIN rest = 1..n
            OBVIOUS
        <3>2. \A k \in 1..n : rest[k] = e(k)
            OBVIOUS
        <3> HIDE DEF V, rest, e
        <3> QED BY <1>2, <2>1, <3>1, <3>2, LenProperties
    <2>3. <<h>> \in Seq(V) /\ Len(<<h>>) = 1 /\ <<h>>[1] = h
        <3>1. h \in V
            OBVIOUS
        <3> HIDE DEF V, h
        <3> QED BY <3>1
    <2> HIDE DEF V, h, rest, e
    <2>4. /\ Len(<<h>> \o rest) = 1 + n
          /\ \A k \in 1..1 + n : (<<h>> \o rest)[k] = IF k <= 1 THEN <<h>>[k] ELSE rest[k - 1]
        BY <2>1, <2>2, <2>3, ConcatProperties
    <2>5. s[1] = h
        <3>1. 1 \in 1..1 + n /\ 1 <= 1
            BY <1>2
        <3> QED BY <1>3, <2>3, <2>4, <3>1
    <2>6. ASSUME NEW k \in 1..n PROVE s[k + 1] = e(k)
        <3>1. k + 1 \in 1..1 + n /\ ~(k + 1 <= 1) /\ (k + 1) - 1 = k
            BY <1>2
        <3> QED BY <1>3, <2>2, <2>4, <3>1
    <2>7. 1 + n = n + 1
        BY <1>2
    <2> QED BY <1>3, <2>4, <2>5, <2>6, <2>7
<1>5. /\ s[1].at = a /\ s[1].id = id(32)
      /\ \A k \in 1..n : s[k + 1].at = a + k - 1 /\ s[k + 1].id = id(text[a + k - 1])
    <2>1. h.at = a /\ h.id = id(32)
        OBVIOUS
    <2>2. \A k \in 1..n : e(k).at = a + k - 1 /\ e(k).id = id(text[a + k - 1])
        OBVIOUS
    <2> HIDE DEF h, e
    <2> QED BY <1>4, <2>1, <2>2
<1>6. \A b \in Byte : \/ id(b) = KRL_TOK_UNK
                      \/ Ordinary(t, id(b)) /\ t.id_to_str[id(b)] = ByteString[b]
    BY DEF Spells, id
<1> HIDE DEF h, e, rest, V, s
<1>7. stop \in a..end
    BY <1>1, <1>2
<1>8. ASSUME NEW k \in 1..Len(s)
      PROVE  LET from == s[k].at
                 to == Until(s, k, stop) IN
             /\ s[1].at <= from /\ to <= stop /\ (from < to \/ (k = 1 /\ from = to))
             /\ \/ s[k].id = KRL_TOK_UNK
                \/ /\ Ordinary(t, s[k].id)
                   /\ t.id_to_str[s[k].id] = Marker(k) \o Written(text, from, to)
    <2>1. CASE k = 1
        <3>1. Until(s, 1, stop) = a
            <4>1. CASE n = 0
                <5>1. 1 = Len(s) /\ stop = a
                    BY <1>4, <4>1
                <5> HIDE DEF stop
                <5> QED BY <5>1 DEF Until
            <4>2. CASE n # 0
                <5>1. 1 \in 1..n /\ a + 1 - 1 = a /\ Len(s) # 1
                    BY <1>2, <1>4, <4>2
                <5>2. s[1 + 1].at = a
                    BY <1>5, <5>1
                <5> HIDE DEF stop
                <5> QED BY <5>1, <5>2 DEF Until
            <4> QED BY <4>1, <4>2
        <3>2. Written(text, a, a) = <<>> /\ SpaceMarker \o <<>> = SpaceMarker
            <4>1. a \in 1..Len(text) + 1
                BY <1>1
            <4>2. SpaceMarker \in Seq(Byte)
                BY DEF SpaceMarker, Byte
            <4> QED BY <4>1, <4>2, WrittenStep, ConcatEmptySeq
        <3>3. 32 \in Byte /\ ByteString[32] = SpaceMarker
            BY SpaceLetter DEF Byte
        <3>4. id(32) = KRL_TOK_UNK \/ (Ordinary(t, id(32)) /\ t.id_to_str[id(32)] = SpaceMarker)
            BY <1>6, <3>3
        <3>5. a <= a /\ a <= stop
            BY <1>2
        <3> HIDE DEF stop
        <3> QED BY <1>5, <2>1, <3>1, <3>2, <3>4, <3>5 DEF Marker
    <2>2. CASE k # 1
        <3> DEFINE j == k - 1
                   at == a + j - 1
        <3>1. j \in 1..n /\ k = j + 1 /\ at \in a..Len(text) /\ at \in 1..Len(text) /\ at + 1 = a + j
              /\ at < a + j /\ a + j <= stop
            BY <1>1, <1>2, <1>4, <2>2
        <3>2. Until(s, k, stop) = a + j
            <4>1. CASE j = n
                <5>1. k = Len(s) /\ stop = a + j
                    BY <1>4, <3>1, <4>1
                <5> HIDE DEF stop, j
                <5> QED BY <5>1 DEF Until
            <4>2. CASE j # n
                <5>1. k \in 1..n /\ a + k - 1 = a + j /\ Len(s) # k
                    BY <1>2, <1>4, <3>1, <4>2
                <5>2. s[k + 1].at = a + j
                    <6> HIDE DEF j
                    <6> QED BY <1>5, <5>1
                <5> HIDE DEF stop, j
                <5> QED BY <5>1, <5>2 DEF Until
            <4> QED BY <4>1, <4>2
        <3> HIDE DEF j, at, stop
        <3>3. s[k].at = at /\ s[k].id = id(text[at])
            BY <1>5, <3>1 DEF at
        <3>4. text[at] \in Byte /\ Written(text, at, at + 1) = ByteString[text[at]]
            BY <3>1, LetterWritten, ElementOfSeq
        <3> DEFINE l == ByteString[text[at]]
        <3>5. id(text[at]) = KRL_TOK_UNK \/ (Ordinary(t, id(text[at])) /\ t.id_to_str[id(text[at])] = l)
            BY <1>6, <3>4
        <3>6. Marker(k) \o l = l
            <4>1. l \in Seq(Byte)
                BY <3>4, LetterTyped
            <4> HIDE DEF l
            <4>2. <<>> \o l = l
                BY <4>1, ConcatEmptySeq
            <4> QED BY <2>2, <4>2 DEF Marker
        <3>7. Written(text, at, a + j) = l
            BY <3>1, <3>4
        <3>8. a <= at
            BY <3>1
        <3> HIDE DEF l
        <3> QED BY <1>5, <3>1, <3>2, <3>3, <3>5, <3>6, <3>7, <3>8
    <2> QED BY <2>1, <2>2
<1>9. Covers(t, text, s, stop)
    <2> HIDE DEF stop
    <2> QED BY <1>8 DEF Covers
<1>10. Len(s) >= 1 /\ s[1].at = a
    BY <1>2, <1>4, <1>5
<1> HIDE DEF stop
<1> QED BY <1>7, <1>9, <1>10 DEF s, end

\* Behind a marker the parts of a text may be grouped either way.
LEMMA Regrouped ==
    \A u, v, w \in Seq(Byte) : (u \o v) \o (<<>> \o w) = u \o (v \o w)
<1>1. \A w \in Seq(Byte) : <<>> \o w = w
    BY ConcatEmptySeq
<1> SUFFICES ASSUME NEW u \in Seq(Byte), NEW v \in Seq(Byte), NEW w \in Seq(Byte)
             PROVE  (u \o v) \o (<<>> \o w) = u \o (v \o w)
    OBVIOUS
<1>2. <<>> \o w = w
    BY <1>1
<1>3. (u \o v) \o w = u \o (v \o w)
    BY Grouped
<1> QED BY <1>2, <1>3

\* They are the same text: the two that were merged are one, and say what both
\* said.
LEMMA MergeCovers ==
    ASSUME NEW I, NEW T, T \subseteq Nat, NEW t, Spells(t), NEW text \in Seq(Byte),
           NEW s \in Seq([id : I, at : T]), s[1].at \in 1..Len(text),
           NEW stop \in s[1].at..Len(text) + 1, Covers(t, text, s, stop),
           bpe_best_merge(t, s) # 0
    PROVE  LET new == MergeNodes(t, s, bpe_best_merge(t, s)) IN
           Len(new) >= 1 /\ new[1].at = s[1].at /\ Covers(t, text, new, stop)
<1> DEFINE N == Len(s)
           b == bpe_best_merge(t, s)
           m == t.merges[merge_lookup(t.merges, s[b].id, s[b + 1].id)]
           new == MergeNodes(t, s, b)
           a == s[1].at
<1>1. N \in Nat /\ Len(text) \in Nat /\ \A k \in 1..N : s[k].at \in Nat
    <2>1. \A k \in 1..N : s[k] \in [id : I, at : T]
        BY ElementOfSeq
    <2> QED BY <2>1, LenProperties
<1>2. b \in 1..N - 1 /\ merge_lookup(t.merges, s[b].id, s[b + 1].id) # 0
    BY <1>1, BestMerge
<1> DEFINE v == m.result
<1>3. /\ Len(new) = N - 1
      /\ \A k \in 1..N - 1 : /\ k < b => new[k] = s[k]
                             /\ k = b => new[k] = [id |-> v, at |-> s[b].at]
                             /\ k > b => new[k] = s[k + 1]
    <2>1. b = bpe_best_merge(t, s) /\ b # 0
          /\ v = t.merges[merge_lookup(t.merges, s[b].id, s[b + 1].id)].result
        OBVIOUS
    <2> HIDE DEF b, v
    <2>2. Fused(MergeNodes(t, s, b), s, b, v)
        BY <2>1, Merged
    <2> QED BY <2>2 DEF Fused
<1>4. /\ Ordinary(t, m.left) /\ Ordinary(t, m.right) /\ Ordinary(t, m.result)
      /\ t.id_to_str[m.result] = t.id_to_str[m.left] \o t.id_to_str[m.right]
      /\ m.left = s[b].id /\ m.right = s[b + 1].id
    <2> DEFINE k == merge_lookup(t.merges, s[b].id, s[b + 1].id)
    <2>1. Len(t.merges) \in Nat
        BY DEF Spells
    <2>2. k # 0
        BY <1>2
    <2>3. k \in 1..Len(t.merges) /\ t.merges[k].left = s[b].id /\ t.merges[k].right = s[b + 1].id
        <3> HIDE DEF b
        <3> QED BY <2>1, <2>2, LookupFinds
    <2> HIDE DEF k
    <2>4. LET x == t.merges[k] IN
          /\ Ordinary(t, x.left) /\ Ordinary(t, x.right) /\ Ordinary(t, x.result)
          /\ t.id_to_str[x.result] = t.id_to_str[x.left] \o t.id_to_str[x.right]
        BY <2>3 DEF Spells
    <2> QED BY <2>3, <2>4 DEF k
<1> HIDE DEF b, m, new, N
<1> DEFINE from(k) == s[k].at
           to(k) == Until(s, k, stop)
           w(k) == Written(text, from(k), to(k))
<1>5. \A k \in 1..N : /\ a <= from(k) /\ to(k) <= stop /\ (from(k) < to(k) \/ (k = 1 /\ from(k) = to(k)))
                      /\ \/ s[k].id = KRL_TOK_UNK
                         \/ Ordinary(t, s[k].id) /\ t.id_to_str[s[k].id] = Marker(k) \o w(k)
    BY DEF Covers, N
<1>6. \A k \in 1..N - 1 : k \in 1..N /\ k + 1 \in 1..N /\ to(k) = from(k + 1)
    <2>1. \A k \in 1..N - 1 : k # Len(s) /\ k \in 1..N /\ k + 1 \in 1..N
        BY <1>1 DEF N
    <2> QED BY <2>1 DEF Until
<1>7. ASSUME NEW k \in 1..N - 1
      PROVE  Until(new, k, stop) = IF k < b THEN to(k) ELSE to(k + 1)
    <2>1. Until(new, k, stop) = IF k = N - 1 THEN stop ELSE new[k + 1].at
        BY <1>3 DEF Until
    <2>2. k = N - 1 => ~(k < b) /\ to(k + 1) = stop
        <3>1. k = N - 1 => ~(k < b) /\ k + 1 = Len(s)
            BY <1>1, <1>2 DEF N
        <3> QED BY <3>1 DEF Until
    <2>3. k # N - 1 => k + 1 \in 1..N - 1
        BY <1>1
    <2>4. CASE k = N - 1
        BY <2>1, <2>2, <2>4
    <2>5. CASE k # N - 1 /\ k < b
        <3>1. new[k + 1].at = s[k + 1].at
            <4>1. k + 1 < b \/ k + 1 = b
                BY <1>1, <1>2, <2>5
            <4>2. CASE k + 1 < b
                BY <1>3, <2>3, <2>5, <4>2
            <4>3. CASE k + 1 = b
                <5>1. new[k + 1] = [id |-> m.result, at |-> s[b].at]
                    BY <1>3, <2>3, <2>5, <4>3
                <5>2. new[k + 1].at = s[b].at
                    BY <5>1
                <5> QED BY <4>3, <5>2
            <4> QED BY <4>1, <4>2, <4>3
        <3> QED BY <1>6, <2>1, <2>5, <3>1
    <2>6. CASE k # N - 1 /\ ~(k < b)
        <3>1. k + 1 > b
            BY <1>1, <1>2, <2>6
        <3>2. new[k + 1] = s[(k + 1) + 1]
            BY <1>3, <2>3, <2>6, <3>1
        <3>3. to(k + 1) = from((k + 1) + 1)
            BY <1>6, <2>3, <2>6
        <3> QED BY <2>1, <2>6, <3>2, <3>3
    <2> QED BY <2>4, <2>5, <2>6
<1>8. new[1].at = a
    <2>1. 1 \in 1..N - 1 /\ (1 < b \/ 1 = b)
        BY <1>1, <1>2
    <2>2. CASE 1 < b
        BY <1>3, <2>1, <2>2
    <2>3. CASE 1 = b
        <3>1. new[1] = [id |-> m.result, at |-> s[b].at]
            BY <1>3, <2>1, <2>3
        <3>2. new[1].at = s[b].at
            BY <3>1
        <3> QED BY <2>3, <3>2
    <2> QED BY <2>1, <2>2, <2>3
<1> DEFINE L(k) == new[k].at
           R(k) == Until(new, k, stop)
           Good(k) == /\ a <= L(k) /\ R(k) <= stop /\ (L(k) < R(k) \/ (k = 1 /\ L(k) = R(k)))
                      /\ \/ new[k].id = KRL_TOK_UNK
                         \/ /\ Ordinary(t, new[k].id)
                            /\ t.id_to_str[new[k].id] = Marker(k) \o Written(text, L(k), R(k))
<1>9. ASSUME NEW k \in 1..N - 1, k < b PROVE Good(k)
    <2>1. new[k] = s[k] /\ R(k) = to(k)
        BY <1>3, <1>7, <1>9
    <2> QED BY <1>5, <1>6, <2>1
<1>10. ASSUME NEW k \in 1..N - 1, k > b PROVE Good(k)
    <2>1. ~(k < b) /\ k # 1 /\ k + 1 # 1
        BY <1>1, <1>2, <1>10
    <2>2. new[k] = s[k + 1] /\ R(k) = to(k + 1)
        BY <1>3, <1>7, <1>10, <2>1
    <2>3. Marker(k) = Marker(k + 1)
        BY <2>1 DEF Marker
    <2> HIDE DEF from, to, w
    <2>4. /\ a <= from(k + 1) /\ to(k + 1) <= stop /\ from(k + 1) < to(k + 1)
          /\ \/ s[k + 1].id = KRL_TOK_UNK
             \/ Ordinary(t, s[k + 1].id) /\ t.id_to_str[s[k + 1].id] = Marker(k + 1) \o w(k + 1)
        <3>1. k + 1 \in 1..N
            BY <1>6
        <3> QED BY <1>5, <2>1, <3>1
    <2> QED BY <2>2, <2>3, <2>4 DEF from, to, w
<1>11. Good(b)
    <2> DEFINE c == b + 1
    <2>1. b \in 1..N - 1 /\ b \in 1..N /\ c \in 1..N /\ c # 1 /\ to(b) = from(c) /\ ~(b < b)
        <3> HIDE DEF from, to
        <3>1. b \in 1..N - 1 /\ c # 1 /\ ~(b < b)
            BY <1>1, <1>2
        <3> QED BY <1>6, <3>1
    <2>2. new[b] = [id |-> m.result, at |-> s[b].at] /\ R(b) = to(c)
        BY <1>3, <1>7, <2>1
    <2>3. new[b].id = m.result /\ L(b) = from(b)
        BY <2>2
    <2>4. a \in 1..Len(text) /\ a \in Nat /\ stop \in Nat /\ stop <= Len(text) + 1
        <3> HIDE DEF a
        <3>1. a \in 1..Len(text) /\ stop \in a..Len(text) + 1
            BY DEF a
        <3> QED BY <1>1, <3>1
    <2>5. from(b) \in Nat /\ from(c) \in Nat /\ to(c) \in Nat
        <3>1. to(c) = stop \/ (to(c) = s[c + 1].at /\ c + 1 \in 1..N)
            <4>1. c = Len(s) \/ c + 1 \in 1..N
                BY <1>1, <2>1 DEF N
            <4> QED BY <4>1 DEF Until
        <3> QED BY <1>1, <2>1, <2>4, <3>1
    <2> HIDE DEF from, to, c, a
    <2>6. a <= from(b) /\ from(b) <= from(c) /\ from(c) < to(c) /\ to(c) <= stop /\ from(b) < to(c)
        <3>1. a <= from(b) /\ (from(b) < to(b) \/ from(b) = to(b))
            BY <1>5, <2>1
        <3>2. to(c) <= stop /\ from(c) < to(c)
            BY <1>5, <2>1
        <3> QED BY <2>1, <2>5, <3>1, <3>2
    <2>7. t.id_to_str[s[b].id] = Marker(b) \o w(b) /\ t.id_to_str[s[c].id] = <<>> \o w(c)
        <3>1. s[b].id # KRL_TOK_UNK /\ s[c].id # KRL_TOK_UNK
            <4>1. \A x : Ordinary(t, x) => x # KRL_TOK_UNK
                BY DEF Ordinary, KRL_TOK_UNK
            <4> QED BY <1>4, <4>1 DEF c
        <3> HIDE DEF w
        <3>2. t.id_to_str[s[b].id] = Marker(b) \o w(b)
            BY <1>5, <2>1, <3>1
        <3>3. t.id_to_str[s[c].id] = Marker(c) \o w(c)
            BY <1>5, <2>1, <3>1
        <3>4. Marker(c) = <<>>
            BY <2>1 DEF Marker
        <3> QED BY <3>2, <3>3, <3>4
    <2>8. /\ w(b) \in Seq(Byte) /\ w(c) \in Seq(Byte)
          /\ Written(text, from(b), to(c)) = w(b) \o w(c)
        <3> DEFINE x == from(b)
                   y == from(c)
                   z == to(c)
                   M == Len(text) + 1
        <3>1. x \in 1..M /\ y \in x..M /\ y \in 1..M /\ z \in y..M
            <4> HIDE DEF x, y, z
            <4>1. x \in Nat /\ y \in Nat /\ z \in Nat /\ a <= x /\ x <= y /\ y < z /\ z <= stop
                BY <2>5, <2>6 DEF x, y, z
            <4> QED BY <1>1, <2>4, <4>1
        <3>2. w(b) = Written(text, x, y) /\ w(c) = Written(text, y, z)
            BY <2>1
        <3> HIDE DEF x, y, z, w, M
        <3>3. Written(text, x, y) \in Seq(Byte) /\ Written(text, x, z) = Written(text, x, y) \o Written(text, y, z)
            BY <3>1, WrittenJoins DEF M
        <3>4. Written(text, y, z) \in Seq(Byte)
            BY <3>1, WrittenJoins DEF M
        <3> QED BY <3>2, <3>3, <3>4 DEF x, y, z
    <2>9. t.id_to_str[m.result] = Marker(b) \o Written(text, from(b), to(c))
        <3>1. Marker(b) \in Seq(Byte)
            <4>1. SpaceMarker \in Seq(Byte) /\ <<>> \in Seq(Byte)
                BY DEF SpaceMarker, Byte
            <4> QED BY <4>1 DEF Marker
        <3>2. t.id_to_str[m.result] = t.id_to_str[s[b].id] \o t.id_to_str[s[c].id]
            BY <1>4 DEF c
        <3> HIDE DEF w
        <3> DEFINE x == Marker(b)
                   y == w(b)
                   z == w(c)
        <3>3. x \in Seq(Byte) /\ y \in Seq(Byte) /\ z \in Seq(Byte)
            BY <2>8, <3>1
        <3>4. t.id_to_str[m.result] = (x \o y) \o (<<>> \o z)
            BY <2>7, <3>2
        <3>5. Written(text, from(b), to(c)) = y \o z
            BY <2>8
        <3> HIDE DEF x, y, z
        <3>6. (x \o y) \o (<<>> \o z) = x \o (y \o z)
            BY <3>3, Regrouped
        <3> QED BY <3>4, <3>5, <3>6 DEF x
    <2>10. Ordinary(t, m.result)
        BY <1>4
    <2> QED BY <2>2, <2>3, <2>6, <2>9, <2>10
<1>12. \A k \in 1..N - 1 : Good(k)
    <2>1. \A k \in 1..N - 1 : k < b \/ k = b \/ k > b
        BY <1>1, <1>2
    <2> HIDE DEF Good
    <2> QED BY <1>9, <1>10, <1>11, <2>1
<1>13. Covers(t, text, new, stop)
    <2>1. \A k \in 1..Len(new) : Good(k)
        BY <1>3, <1>12
    <2> QED BY <1>8, <2>1 DEF Covers
<1>14. Len(new) >= 1
    BY <1>1, <1>2, <1>3
<1> QED BY <1>8, <1>13, <1>14 DEF new, b

-----------------------------------------------------------------------------
(* The invariant. *)

\* The word being merged is covered by its nodes, up to where the buffer ends.
WordInv ==
    pc = "merge" =>
        LET a == nodes[1].at IN
        /\ Len(nodes) >= 1 /\ a \in 1..Len(input.source) /\ input.source[a] \notin Whitespace
        /\ p = WordEnd(input.source, a)
        /\ \E stop \in a..p : Covers(tok, input.source, nodes, stop)

\* The tokens behind BOS are linked, and the next word begins behind the last.
Place == IF pc = "merge" THEN nodes[1].at ELSE p
ChainInv ==
    /\ \A k \in 2..Len(ids) - 1 : Link(tok, input.source, ids[k], ids[k + 1])
    /\ pc \in {"word", "merge"} /\ Len(ids) >= 2 => Ended(tok, input.source, ids[Len(ids)], Place)

\* The next word begins with a byte that is no whitespace.
LEMMA WordStartIs ==
    ASSUME NEW text \in Seq(Byte), NEW q \in Nat \ {0}, WordStart(text, q) # 0
    PROVE  /\ WordStart(text, q) \in 1..Len(text) /\ q <= WordStart(text, q)
           /\ text[WordStart(text, q)] \notin Whitespace
<1> DEFINE starts == {k \in q..Len(text) : text[k] \notin Whitespace}
           start == WordStart(text, q)
<1>1. Len(text) \in Nat
    BY LenProperties
<1>2. start = IF starts = {} THEN 0 ELSE Min(starts)
    BY DEF WordStart
<1>3. start # 0
    OBVIOUS
<1>4. starts \subseteq Nat
    BY <1>1
<1> HIDE DEF start, starts
<1>5. start \in starts
    BY <1>2, <1>3, <1>4, MinOf
<1>6. start \in q..Len(text) /\ text[start] \notin Whitespace
    BY <1>5 DEF starts
<1>7. start \in 1..Len(text) /\ q <= start
    BY <1>1, <1>6
<1> QED BY <1>6, <1>7 DEF start

\* The tokens after a word was emitted are those before and those of the word.
LEMMA Emitted ==
    ASSUME TextInv, pc = "merge"
    PROVE  LET all == Len(ids) + Len(nodes)
               s == SubSeq(ids \o nodes, 1, Min({all, MaxSeq - 1})) IN
           /\ Len(s) \in Len(ids)..all /\ Len(s) = Min({all, MaxSeq - 1}) /\ DOMAIN s = 1..Len(s)
           /\ \A k \in 1..Len(s) : s[k] = IF k <= Len(ids) THEN ids[k] ELSE nodes[k - Len(ids)]
<1> DEFINE T == 0..Len(input.source) + 1
           K == Len(ids)
           L == Len(nodes)
           n == Min({K + L, MaxSeq - 1})
<1>1. PICK I : ids \in Seq([id : I, at : T])
    BY DEF TextInv, Tokens
<1>2. PICK J : nodes \in Seq([id : J, at : T])
    BY DEF TextInv, Tokens
<1> DEFINE V == [id : I, at : T] \cup [id : J, at : T]
           all == ids \o nodes
<1>3. ids \in Seq(V) /\ nodes \in Seq(V)
    <2> DEFINE A == [id : I, at : T]
               B == [id : J, at : T]
    <2>1. ids \in Seq(A) /\ nodes \in Seq(B)
        BY <1>1, <1>2
    <2> HIDE DEF A, B
    <2>2. ids \in Seq(A \cup B) /\ nodes \in Seq(A \cup B)
        BY <2>1, SeqMonotonic
    <2> QED BY <2>2 DEF A, B
<1> HIDE DEF V
<1>4. K \in Nat /\ L \in Nat /\ K \in 1..MaxSeq - 1 /\ MaxSeq \in Nat
    BY <1>3, LenProperties, TokenizerAssumption DEF TextInv
<1>5. n \in K..K + L
    <2> DEFINE S == {K + L, MaxSeq - 1}
    <2>1. S \subseteq Nat /\ S # {} /\ K + L \in S /\ \A x \in S : K <= x
        BY <1>4
    <2>2. Min(S) \in S /\ \A x \in S : Min(S) <= x
        <3> HIDE DEF S
        <3> QED BY <2>1, MinOf
    <2>3. Min(S) \in Nat /\ K <= Min(S) /\ Min(S) <= K + L
        <3> HIDE DEF S
        <3> QED BY <2>1, <2>2
    <2> DEFINE m == Min(S)
    <2> HIDE DEF m
    <2>4. m \in K..K + L
        BY <1>4, <2>3 DEF m
    <2> QED BY <2>4 DEF m
<1> HIDE DEF n
<1>6. /\ all \in Seq(V) /\ Len(all) = K + L
      /\ \A k \in 1..K + L : all[k] = IF k <= K THEN ids[k] ELSE nodes[k - K]
    BY <1>3, ConcatProperties
<1> HIDE DEF all
<1> DEFINE s == SubSeq(all, 1, n)
<1>7. Len(s) = n /\ DOMAIN s = 1..n /\ \A k \in 1..n : s[k] = all[k]
    <2>1. /\ n \in Int /\ n - 1 + 1 = n /\ (1 <= n \/ n = 0)
          /\ \A k \in 1..n : k \in 1..Len(all) /\ 1 + k - 1 = k
        BY <1>4, <1>5, <1>6
    <2>2. \A k \in 1..n : all[k] \in V
        BY <1>6, <2>1, ElementOfSeq
    <2>3. s \in Seq(V) /\ Len(s) = n /\ \A k \in 1..n : s[k] = all[k]
        BY <2>1, <2>2, SubSeqProperties
    <2> HIDE DEF s
    <2> QED BY <2>3, LenProperties
<1> HIDE DEF s
<1>8. Len(s) \in K..K + L /\ \A k \in 1..Len(s) : s[k] = IF k <= K THEN ids[k] ELSE nodes[k - K]
    <2>1. \A k \in 1..n : k \in 1..K + L
        BY <1>4, <1>5
    <2> QED BY <1>5, <1>6, <1>7, <2>1
<1> QED BY <1>7, <1>8 DEF s, all, n

\* Steps that add no token.
LEMMA ChainStays ==
    ASSUME ChainInv, pc' # "merge",
           \/ UNCHANGED <<input, tok, ids>> /\ pc' # "word"
           \/ ids' = <<>>
           \/ Len(ids') = 1
    PROVE  WordInv' /\ ChainInv'
<1>1. WordInv'
    BY DEF WordInv
<1>2. CASE UNCHANGED <<input, tok, ids>> /\ pc' # "word"
    BY <1>1, <1>2 DEF ChainInv
<1>3. CASE ids' = <<>> \/ Len(ids') = 1
    <2>1. Len(ids') \in {0, 1}
        BY <1>3, EmptySeq
    <2> DEFINE l == Len(ids')
    <2> HIDE DEF l
    <2>2. 2..l - 1 = {} /\ ~(l >= 2)
        <3>1. l \in {0, 1}
            BY <2>1 DEF l
        <3> QED BY <3>1
    <2> QED BY <1>1, <2>2 DEF ChainInv, l
<1> QED BY <1>2, <1>3

\* The text is loaded and spelt.
LEMMA WordContext ==
    ASSUME Spelling, TextInv, pc \in {"word", "merge"}
    PROVE  /\ Spells(tok) /\ input.source \in Seq(Byte) /\ Len(input.source) \in Nat /\ p \in Nat \ {0}
           /\ Len(ids) \in Nat /\ Len(nodes) \in Nat
           /\ \A k \in 1..Len(ids) : ids[k].at \in Nat
           /\ \A k \in 1..Len(nodes) : nodes[k].at \in Nat
<1>1. tok = krl_tok_load(input.vocab, input.merges) /\ tok.loaded /\ input \in Inputs
    BY DEF TextInv
<1>2. Spells(tok)
    BY <1>1, LoadedSpells
<1>3. input.source \in Seq(Byte) /\ p \in Nat \ {0}
    BY DEF TextInv
<1>4. Len(input.source) \in Nat
    BY <1>3, LenProperties
<1>5. /\ Len(ids) \in Nat /\ Len(nodes) \in Nat
      /\ \A k \in 1..Len(ids) : ids[k].at \in 0..Len(input.source) + 1
      /\ \A k \in 1..Len(nodes) : nodes[k].at \in 0..Len(input.source) + 1
    BY TokensOf DEF TextInv
<1>6. \A x \in 0..Len(input.source) + 1 : x \in Nat
    BY <1>4
<1> QED BY <1>2, <1>3, <1>4, <1>5, <1>6

\* A word that is collected is behind the tokens there are.
LEMMA CollectStep ==
    ASSUME Spelling, TextInv, ChainInv, CollectWord
    PROVE  WordInv' /\ ChainInv'
<1> DEFINE text == input.source
           a == WordStart(text, p)
           end == WordEnd(text, a)
<1>1. /\ pc = "word" /\ a # 0 /\ nodes' = BpeNodes(tok, text, a, end) /\ p' = end
      /\ pc' = (IF tok.wild THEN "crashed" ELSE "merge")
      /\ input' = input /\ tok' = tok /\ ids' = ids
    BY DEF CollectWord, MoreWords
<1>2. /\ Spells(tok) /\ text \in Seq(Byte) /\ p \in Nat \ {0} /\ Len(text) \in Nat /\ Len(ids) \in Nat
      /\ \A k \in 1..Len(ids) : ids[k].at \in Nat
    BY <1>1, WordContext
<1>3. a \in 1..Len(text) /\ p <= a /\ text[a] \notin Whitespace
    BY <1>1, <1>2, WordStartIs
<1>4. CASE pc' = "crashed"
    BY <1>1, <1>4, ChainStays
<1>5. CASE pc' = "merge"
    <2>1. /\ Len(nodes') >= 1 /\ nodes'[1].at = a
          /\ \E stop \in a..end : Covers(tok, text, nodes', stop)
        <3> HIDE DEF a
        <3> QED BY <1>1, <1>2, <1>3, CollectCovers
    <2> HIDE DEF a
    <2>2. WordInv'
        BY <1>1, <1>3, <2>1 DEF WordInv
    <2>3. ASSUME Len(ids) >= 2
          PROVE  Ended(tok, text, ids[Len(ids)], a)
        <3>1. Ended(tok, text, ids[Len(ids)], p)
            BY <1>1, <2>3 DEF ChainInv, Place
        <3>2. Len(ids) \in 1..Len(ids)
            BY <1>2, <2>3
        <3> DEFINE at == ids[Len(ids)].at
                   e == WordEnd(text, at)
        <3>3. e <= p /\ e \in Nat
            <4>1. PICK m \in at..e : Says(tok, text, ids[Len(ids)], m)
                BY <3>1 DEF Ended
            <4>2. at \in 1..Len(text)
                BY <4>1 DEF Says
            <4>3. e \in at..Len(text) + 1
                <5> HIDE DEF at
                <5> QED BY <1>2, <4>2, WordEndIs
            <4>4. e <= p
                BY <3>1 DEF Ended
            <4> HIDE DEF e, at
            <4> QED BY <1>2, <4>2, <4>3, <4>4
        <3>4. e <= a
            <4> HIDE DEF e
            <4> QED BY <1>2, <1>3, <3>3
        <3> QED BY <3>1, <3>4 DEF Ended
    <2>4. Place' = a
        BY <1>5, <2>1 DEF Place
    <2>5. \A k \in 2..Len(ids) - 1 : Link(tok, text, ids[k], ids[k + 1])
        BY DEF ChainInv
    <2> QED BY <1>1, <2>2, <2>3, <2>4, <2>5 DEF ChainInv
<1> QED BY <1>1, <1>4, <1>5

\* A merge keeps the text of the word.
LEMMA MergeKeeps ==
    ASSUME Spelling, TextInv, WordInv, ChainInv, Merge
    PROVE  WordInv' /\ ChainInv'
<1> DEFINE text == input.source
           a == nodes[1].at
<1>1. /\ pc = "merge" /\ bpe_best_merge(tok, nodes) # 0
      /\ nodes' = MergeNodes(tok, nodes, bpe_best_merge(tok, nodes))
      /\ UNCHANGED <<input, pc, tok, p, ids>>
    BY DEF Merge
<1>2. Spells(tok) /\ text \in Seq(Byte) /\ Len(text) \in Nat
    BY <1>1, WordContext
<1>3. PICK stop \in a..p : Covers(tok, text, nodes, stop)
    BY <1>1 DEF WordInv
<1>4. a \in 1..Len(text) /\ text[a] \notin Whitespace /\ p = WordEnd(text, a)
    BY <1>1 DEF WordInv
<1>5. stop \in a..Len(text) + 1
    <2>1. p \in a..Len(text) + 1
        <3> HIDE DEF a
        <3> QED BY <1>2, <1>4, WordEndIs
    <2> HIDE DEF a
    <2> QED BY <1>2, <1>3, <1>4, <2>1
<1>6. PICK I : nodes \in Seq([id : I, at : 0..Len(text) + 1])
    BY DEF TextInv, Tokens
<1>7. Len(nodes') >= 1 /\ nodes'[1].at = a /\ Covers(tok, text, nodes', stop)
    <2> DEFINE T == 0..Len(text) + 1
    <2>1. T \subseteq Nat
        BY <1>2
    <2>2. nodes \in Seq([id : I, at : T])
        BY <1>6
    <2> HIDE DEF T, text
    <2> DEFINE new == MergeNodes(tok, nodes, bpe_best_merge(tok, nodes))
    <2>3. Len(new) >= 1 /\ new[1].at = nodes[1].at /\ Covers(tok, text, new, stop)
        BY <1>1, <1>2, <1>3, <1>4, <1>5, <2>1, <2>2, MergeCovers
    <2> QED BY <1>1, <2>3
<1>8. WordInv'
    <2> HIDE DEF a
    <2> QED BY <1>1, <1>3, <1>4, <1>7 DEF WordInv
<1>9. ChainInv'
    <2>1. Place' = Place
        BY <1>1, <1>7 DEF Place
    <2> QED BY <1>1, <2>1 DEF ChainInv
<1> QED BY <1>8, <1>9

\* The tokens of a word are linked with those before and with each other.
LEMMA EmitStep ==
    ASSUME Spelling, TextInv, WordInv, ChainInv, EmitWord
    PROVE  WordInv' /\ ChainInv'
<1> DEFINE text == input.source
           a == nodes[1].at
           K == Len(ids)
           L == Len(nodes)
           s == SubSeq(ids \o nodes, 1, Min({K + L, MaxSeq - 1}))
           n == Len(s)
           Node(k) == nodes[k - K]
<1>1. pc = "merge" /\ ids' = s /\ pc' = "word" /\ UNCHANGED <<input, tok, p>>
    BY DEF EmitWord
<1>2. /\ text \in Seq(Byte) /\ Len(text) \in Nat /\ K \in Nat /\ L \in Nat
      /\ \A k \in 1..L : nodes[k].at \in Nat
    BY <1>1, WordContext
<1>3. n \in K..K + L /\ \A k \in 1..n : s[k] = IF k <= K THEN ids[k] ELSE Node(k)
    BY <1>1, Emitted
<1>4. PICK stop \in a..p : Covers(tok, text, nodes, stop)
    BY <1>1 DEF WordInv
<1>5. L >= 1 /\ a \in 1..Len(text) /\ text[a] \notin Whitespace /\ p = WordEnd(text, a)
    BY <1>1 DEF WordInv
<1>6. p \in Nat /\ a \in Nat /\ stop \in Nat /\ stop <= p /\ a < p
    <2>1. p \in a..Len(text) + 1 /\ a < p
        <3> HIDE DEF a
        <3> QED BY <1>2, <1>5, WordEndIs
    <2> HIDE DEF a
    <2> QED BY <1>2, <1>4, <1>5, <2>1
<1>7. ASSUME NEW k \in 1..L
      PROVE  /\ Says(tok, text, nodes[k], Until(nodes, k, stop))
             /\ WordEnd(text, nodes[k].at) = p
             /\ k # 1 => Inner(tok, nodes[k])
    <2>1. nodes[1].at \in 1..Len(text) /\ text[nodes[1].at] \notin Whitespace
          /\ stop \in nodes[1].at..WordEnd(text, nodes[1].at) /\ p = WordEnd(text, nodes[1].at)
        BY <1>4, <1>5
    <2> HIDE DEF text
    <2> QED BY <1>2, <1>4, <2>1, NodeSays
<1>8. ASSUME K >= 2
      PROVE  Ended(tok, text, ids[K], a)
    BY <1>1, <1>8 DEF ChainInv, Place
<1> HIDE DEF text, s, n, a
<1>9. ASSUME NEW k \in 2..n - 1
      PROVE  Link(tok, text, s[k], s[k + 1])
    <2>1. k \in 1..n /\ k + 1 \in 1..n
        BY <1>2, <1>3
    <2>2. CASE k + 1 <= K
        <3>1. k <= K /\ k \in 2..K - 1
            BY <1>2, <1>3, <2>2
        <3>2. s[k] = ids[k] /\ s[k + 1] = ids[k + 1]
            BY <1>3, <2>1, <2>2, <3>1
        <3> QED BY <3>1, <3>2 DEF ChainInv, text
    <2>3. CASE k = K
        <3>1. K >= 2 /\ k <= K /\ ~(k + 1 <= K) /\ (k + 1) - K = 1
            BY <1>2, <2>3
        <3>2. s[k] = ids[K] /\ s[k + 1] = nodes[1]
            BY <1>3, <2>1, <2>3, <3>1
        <3>3. Ended(tok, text, ids[K], a)
            BY <1>8, <3>1
        <3>4. nodes[1].at >= WordEnd(text, ids[K].at)
            <4> DEFINE x == ids[K]
                       e == WordEnd(text, x.at)
            <4>1. PICK m \in x.at..e : Says(tok, text, x, m)
                BY <3>3 DEF Ended
            <4>2. x.at \in 1..Len(text)
                BY <4>1 DEF Says
            <4>3. e \in x.at..Len(text) + 1
                <5> HIDE DEF x
                <5> QED BY <1>2, <4>2, WordEndIs
            <4>4. e <= a
                BY <3>3 DEF Ended
            <4> HIDE DEF x, e
            <4>5. e \in Int
                BY <1>2, <4>2, <4>3
            <4>6. a >= e
                BY <1>6, <4>4, <4>5
            <4> QED BY <4>6 DEF a, e, x
        <3> QED BY <3>2, <3>3, <3>4 DEF Link, Ended
    <2>4. CASE k > K
        <3> DEFINE j == k - K
                   to == Until(nodes, j, stop)
        <3>1. j \in 1..L - 1 /\ j \in 1..L /\ j + 1 \in 1..L /\ j + 1 # 1 /\ (k + 1) - K = j + 1
              /\ ~(k <= K) /\ ~(k + 1 <= K) /\ j # L
            BY <1>2, <1>3, <2>4
        <3> HIDE DEF j
        <3>2. s[k] = nodes[j] /\ s[k + 1] = nodes[j + 1]
            BY <1>3, <2>1, <3>1 DEF j
        <3>3. to = nodes[j + 1].at
            BY <3>1 DEF Until
        <3>4. Says(tok, text, nodes[j], to) /\ WordEnd(text, nodes[j].at) = p
              /\ Inner(tok, nodes[j + 1])
            BY <1>7, <3>1
        <3>5. nodes[j + 1].at < p
            <4> DEFINE x == nodes[j + 1].at
                       y == Until(nodes, j + 1, stop)
            <4>1. y <= stop /\ x < y
                BY <1>2, <3>1, <1>4 DEF Covers
            <4>2. x \in Nat
                BY <1>2, <3>1
            <4>3. y \in Int
                <5>1. Says(tok, text, nodes[j + 1], y)
                    BY <1>7, <3>1
                <5>2. y \in x..WordEnd(text, x) /\ x \in 1..Len(text)
                    BY <5>1 DEF Says
                <5> HIDE DEF x, y
                <5>3. WordEnd(text, x) \in x..Len(text) + 1
                    BY <1>2, <5>2, WordEndIs
                <5> QED BY <1>2, <5>2, <5>3
            <4> HIDE DEF x, y
            <4>4. x < p
                BY <1>6, <4>1, <4>2, <4>3
            <4> QED BY <4>4 DEF x
        <3>6. to \in nodes[j].at..p
            BY <3>4 DEF Says
        <3> HIDE DEF to
        <3> QED BY <3>2, <3>3, <3>4, <3>5, <3>6 DEF Link
    <2>5. k + 1 <= K \/ k = K \/ k > K
        BY <1>2
    <2> QED BY <2>2, <2>3, <2>4, <2>5
<1>10. ASSUME n >= 2
       PROVE  Ended(tok, text, s[n], p)
    <2>1. n \in 1..n
        BY <1>2, <1>3, <1>10
    <2>2. CASE n = K
        <3>1. s[n] = ids[K] /\ Ended(tok, text, ids[K], a)
            BY <1>3, <1>8, <1>10, <2>1, <2>2
        <3> DEFINE x == ids[K]
                   e == WordEnd(text, x.at)
        <3>2. e <= p
            <4>1. PICK m \in x.at..e : Says(tok, text, x, m)
                BY <3>1 DEF Ended
            <4>2. x.at \in 1..Len(text)
                BY <4>1 DEF Says
            <4>3. e \in x.at..Len(text) + 1
                <5> HIDE DEF x
                <5> QED BY <1>2, <4>2, WordEndIs
            <4>4. e <= a
                BY <3>1 DEF Ended
            <4> HIDE DEF x, e
            <4> QED BY <1>2, <1>6, <4>2, <4>3, <4>4
        <3> QED BY <3>1, <3>2 DEF Ended
    <2>3. CASE n # K
        <3> DEFINE j == n - K
                   to == Until(nodes, j, stop)
        <3>1. j \in 1..L /\ ~(n <= K)
            BY <1>2, <1>3, <2>3
        <3>2. s[n] = nodes[j]
            BY <1>3, <2>1, <3>1
        <3> HIDE DEF j
        <3>3. Says(tok, text, nodes[j], to) /\ WordEnd(text, nodes[j].at) = p
            BY <1>7, <3>1
        <3>4. to \in nodes[j].at..p
            BY <3>3 DEF Says
        <3>5. p <= p
            BY <1>6
        <3> HIDE DEF to
        <3> QED BY <3>2, <3>3, <3>4, <3>5 DEF Ended
    <2> QED BY <2>2, <2>3
<1>11. WordInv'
    BY <1>1 DEF WordInv
<1>12. ChainInv'
    <2>1. Place' = p
        BY <1>1 DEF Place
    <2>2. text' = text
        BY <1>1 DEF text
    <2> QED BY <1>1, <1>9, <1>10, <2>1, <2>2 DEF ChainInv, text, n
<1> QED BY <1>11, <1>12

\* EOS is behind the last word.
LEMMA EosStep ==
    ASSUME Spelling, TextInv, ChainInv, Eos
    PROVE  WordInv' /\ ChainInv'
<1> DEFINE text == input.source
           K == Len(ids)
           eos == [id |-> KRL_TOK_EOS, at |-> Len(text) + 1]
<1>1. pc = "word" /\ ids' = Append(ids, eos) /\ pc' = "ner" /\ UNCHANGED <<input, tok, p>>
    BY DEF Eos
<1>2. text \in Seq(Byte) /\ Len(text) \in Nat /\ K \in Nat
    BY <1>1, WordContext
<1> HIDE DEF eos
<1>3. /\ Len(ids') = K + 1 /\ ids'[K + 1] = eos
      /\ \A k \in 1..K : ids'[k] = ids[k]
    <2>1. PICK I : ids \in Seq([id : I, at : 0..Len(text) + 1])
        BY DEF TextInv, Tokens
    <2> DEFINE S == [id : I, at : 0..Len(text) + 1]
    <2> HIDE DEF S
    <2>2. ids \in Seq(S)
        BY <2>1 DEF S
    <2>3. /\ Len(Append(ids, eos)) = Len(ids) + 1 /\ Append(ids, eos)[Len(ids) + 1] = eos
          /\ \A k \in 1..Len(ids) : Append(ids, eos)[k] = ids[k]
        BY <2>2, Appended
    <2> QED BY <1>1, <2>3
<1>4. ASSUME NEW k \in 2..K
      PROVE  Link(tok, text, ids'[k], ids'[k + 1])
    <2>1. k \in 1..K
        BY <1>2
    <2>2. CASE k # K
        <3>1. k \in 2..K - 1 /\ k + 1 \in 1..K
            BY <1>2, <2>2
        <3> QED BY <1>3, <2>1, <3>1 DEF ChainInv
    <2>3. CASE k = K
        <3> DEFINE x == ids[K]
                   e == WordEnd(text, x.at)
        <3>1. K >= 2
            BY <1>2, <2>3
        <3>2. Ended(tok, text, x, p)
            BY <1>1, <3>1 DEF ChainInv, Place
        <3>3. PICK m \in x.at..e : Says(tok, text, x, m)
            BY <3>2 DEF Ended
        <3>4. x.at \in 1..Len(text)
            BY <3>3 DEF Says
        <3>5. e \in x.at..Len(text) + 1
            <4> HIDE DEF x
            <4> QED BY <1>2, <3>4, WordEndIs
        <3>6. Len(text) + 1 >= e
            <4> HIDE DEF x, e
            <4> QED BY <1>2, <3>4, <3>5
        <3>7. eos.at = Len(text) + 1
            BY DEF eos
        <3>8. ids'[k] = x /\ ids'[k + 1] = eos
            BY <1>3, <2>1, <2>3
        <3>9. Link(tok, text, x, eos)
            BY <3>3, <3>6, <3>7 DEF Link
        <3> QED BY <3>8, <3>9
    <2> QED BY <2>2, <2>3
<1>5. WordInv'
    BY <1>1 DEF WordInv
<1>6. ChainInv'
    <2>1. (K + 1) - 1 = K
        BY <1>2
    <2>2. text' = text /\ tok' = tok /\ pc' \notin {"word", "merge"}
        BY <1>1
    <2>3. \A k \in 2..Len(ids') - 1 : Link(tok, text, ids'[k], ids'[k + 1])
        BY <1>3, <1>4, <2>1
    <2> QED BY <2>2, <2>3 DEF ChainInv
<1> QED BY <1>5, <1>6

\* Every step keeps the tokens in line with the text.
LEMMA TokensStep == Spelling /\ PluginInv /\ WordInv /\ ChainInv /\ [Next]_vars => WordInv' /\ ChainInv'
<1> SUFFICES ASSUME Spelling, PluginInv, WordInv, ChainInv, [Next]_vars
             PROVE  WordInv' /\ ChainInv'
    OBVIOUS
<1>0. TextInv
    BY DEF PluginInv
<1>1. CASE Start \/ OtherExtractor
    <2>1. ids' = <<>> /\ pc' # "merge"
        BY <1>0, <1>1 DEF Start, OtherExtractor, TextInv, tokVars
    <2> QED BY <2>1, ChainStays
<1>2. CASE Open
    <2>1. pc = "open" /\ pc' # "merge" /\ (ids' = ids \/ ids' = <<[id |-> KRL_TOK_BOS, at |-> 0]>>)
        BY <1>2 DEF Open
    <2>2. ids = <<>>
        BY <1>0, <2>1 DEF TextInv
    <2>3. Len(<<[id |-> KRL_TOK_BOS, at |-> 0]>>) = 1
        OBVIOUS
    <2> QED BY <2>1, <2>2, <2>3, ChainStays
<1>3. CASE CollectWord
    BY <1>0, <1>3, CollectStep
<1>4. CASE Merge
    BY <1>0, <1>4, MergeKeeps
<1>5. CASE EmitWord
    BY <1>0, <1>5, EmitStep
<1>6. CASE Eos
    BY <1>0, <1>6, EosStep
<1>7. CASE Ner \/ SkipToken \/ Exit
    <2>1. UNCHANGED <<input, tok, ids>> /\ pc' \notin {"word", "merge"}
        BY <1>7 DEF Ner, SkipToken, Exit, Spanning, tokVars
    <2> QED BY <2>1, ChainStays
<1>8. CASE PrintSpan
    <2>1. UNCHANGED <<input, tok, ids>> /\ pc' \notin {"word", "merge"}
        BY <1>8, PrintSpanIs
    <2> QED BY <2>1, ChainStays
<1>9. CASE Ingest \/ UNCHANGED vars
    <2>1. UNCHANGED <<input, pc, tok, p, nodes, ids>>
        BY <1>9 DEF Ingest, vars, tokVars
    <2> QED BY <2>1 DEF WordInv, ChainInv, Place
<1> QED BY <1>1, <1>2, <1>3, <1>4, <1>5, <1>6, <1>7, <1>8, <1>9 DEF Next, Plugin

\* With files as the training makes them it holds throughout.
LEMMA TokensInvariant ==
    ASSUME Shipped, Spelling
    PROVE  Spec => [](PluginInv /\ TakenInv /\ WordInv /\ ChainInv)
<1>1. Init => WordInv /\ ChainInv
    <2> SUFFICES ASSUME Init PROVE WordInv /\ ChainInv
        OBVIOUS
    <2>1. pc = "start" /\ Len(ids) = 0
        BY EmptySeq DEF Init
    <2> DEFINE l == Len(ids)
    <2> HIDE DEF l
    <2>2. 2..l - 1 = {}
        <3>1. l = 0
            BY <2>1 DEF l
        <3> QED BY <3>1
    <2> QED BY <2>1, <2>2 DEF WordInv, ChainInv, l
<1>2. PluginInv /\ WordInv /\ ChainInv /\ [Next]_vars => WordInv' /\ ChainInv'
    BY TokensStep
<1> QED BY <1>1, <1>2, Taken, PTL DEF Spec

-----------------------------------------------------------------------------
(* The names of spans. *)

\* A token never begins behind the next one.
LEMMA LinkIs ==
    ASSUME NEW t, NEW text \in Seq(Byte), NEW x, NEW y, y.at \in Nat, Link(t, text, x, y)
    PROVE  x.at \in 1..Len(text) /\ x.at <= y.at
<1> DEFINE end == WordEnd(text, x.at)
<1>1. PICK m \in x.at..end : Says(t, text, x, m) /\ ((y.at = m /\ m < end /\ Inner(t, y)) \/ y.at >= end)
    BY DEF Link
<1>2. x.at \in 1..Len(text) /\ Len(text) \in Nat
    BY <1>1, LenProperties DEF Says
<1>3. end \in x.at..Len(text) + 1
    BY <1>2, WordEndIs
<1> HIDE DEF end
<1> QED BY <1>1, <1>2, <1>3

\* The tokens c[s], ..., c[e - 1] are of one word, whose vocabulary has them all,
\* and c[e] is what follows.
SpanOf(t, text, c, s, e) ==
    /\ s \in Nat /\ e \in Nat /\ s < e
    /\ \A k \in s..e : c[k].at \in Nat
    /\ \A k \in s..e - 1 : c[k].id # KRL_TOK_UNK /\ Link(t, text, c[k], c[k + 1])
    /\ c[e - 1].at < WordEnd(text, c[s].at)

\* They are all in the word, each ends where the next begins, and the last ends in
\* the word too.
LEMMA SpanLinked ==
    ASSUME NEW t, NEW text \in Seq(Byte), NEW c, NEW s, NEW e, SpanOf(t, text, c, s, e)
    PROVE  LET end == WordEnd(text, c[s].at) IN
           /\ c[s].at \in 1..Len(text) /\ end \in c[s].at + 1..Len(text) + 1
           /\ \A k \in s..e - 1 : c[k].at \in c[s].at..end - 1
           /\ \A k \in s..e - 2 : /\ c[k].at <= c[k + 1].at
                                  /\ TokenText(t, c[k].id) = Written(text, c[k].at, c[k + 1].at)
                                  /\ TokenText(t, c[k + 1].id) # <<>>
           /\ \E m \in c[e - 1].at..end :
                 /\ TokenText(t, c[e - 1].id) = Written(text, c[e - 1].at, m)
                 /\ c[e].at = m \/ c[e].at >= end
<1> DEFINE from == c[s].at
           end == WordEnd(text, from)
<1>0. /\ s \in Nat /\ e \in Nat /\ s < e
      /\ \A k \in s..e : c[k].at \in Nat
      /\ \A k \in s..e - 1 : c[k].id # KRL_TOK_UNK /\ Link(t, text, c[k], c[k + 1])
      /\ c[e - 1].at < end
    BY DEF SpanOf
<1>1. \A k \in s..e - 1 : c[k].at \in 1..Len(text) /\ c[k].at <= c[k + 1].at
    <2> SUFFICES ASSUME NEW k \in s..e - 1
                 PROVE  c[k].at \in 1..Len(text) /\ c[k].at <= c[k + 1].at
        OBVIOUS
    <2>1. c[k + 1].at \in Nat
        <3>1. k + 1 \in s..e
            BY <1>0
        <3> QED BY <1>0, <3>1
    <2>2. Link(t, text, c[k], c[k + 1])
        BY <1>0
    <2> QED BY <2>1, <2>2, LinkIs
<1>2. from \in 1..Len(text) /\ Len(text) \in Nat
    <2>1. s \in s..e - 1
        BY <1>0
    <2> QED BY <1>1, <2>1, LenProperties
<1>3. /\ end \in from..Len(text) + 1
      /\ \A k \in from..end - 1 : WordEnd(text, k) = end
    BY <1>2, WordEndIs
<1> HIDE DEF end, from
<1>4. \A k \in s..e - 1 : from <= c[k].at
    <2> DEFINE S == {d \in 0..e - 1 - s : from <= c[s + d].at}
    <2>1. 0 \in S
        BY <1>0, <1>2 DEF from
    <2>2. ASSUME NEW d \in 0..(e - 1 - s) - 1, d \in S PROVE d + 1 \in S
        <3>1. s + d \in s..e - 1 /\ s + (d + 1) = (s + d) + 1 /\ s + d + 1 \in s..e /\ s + d \in s..e
              /\ d + 1 \in 0..e - 1 - s
            BY <1>0
        <3>2. c[s + d].at <= c[s + d + 1].at
            BY <1>1, <3>1
        <3>3. c[s + d].at \in Nat /\ c[s + d + 1].at \in Nat /\ from <= c[s + d].at
            BY <1>0, <2>2, <3>1
        <3>4. from <= c[s + d + 1].at
            BY <1>2, <3>2, <3>3
        <3> QED BY <3>1, <3>4
    <2> HIDE DEF S
    <2>3. 0..e - 1 - s \subseteq S
        <3>1. e - 1 - s \in Nat
            BY <1>0
        <3> QED BY <2>1, <2>2, <3>1, UpToInduction
    <2>4. ASSUME NEW k \in s..e - 1 PROVE from <= c[k].at
        <3>1. k - s \in 0..e - 1 - s /\ s + (k - s) = k
            BY <1>0
        <3> QED BY <2>3, <3>1 DEF S
    <2> QED BY <2>4
<1>5. \A k \in s..e - 1 : c[k].at < end
    <2> DEFINE S == {d \in 0..e - 1 - s : c[(e - 1) - d].at < end}
    <2>1. 0 \in S
        <3>1. (e - 1) - 0 = e - 1 /\ 0 \in 0..e - 1 - s
            BY <1>0
        <3> QED BY <1>0, <3>1
    <2>2. ASSUME NEW d \in 0..(e - 1 - s) - 1, d \in S PROVE d + 1 \in S
        <3> DEFINE k == (e - 1) - (d + 1)
        <3>1. k \in s..e - 1 /\ k + 1 = (e - 1) - d /\ k + 1 \in s..e /\ k \in s..e /\ d + 1 \in 0..e - 1 - s
            BY <1>0
        <3> HIDE DEF k
        <3>2. c[k].at <= c[k + 1].at /\ c[k + 1].at < end
            BY <1>1, <2>2, <3>1
        <3>3. c[k].at \in Nat /\ c[k + 1].at \in Nat
            BY <1>0, <3>1
        <3>4. c[k].at < end
            BY <1>2, <1>3, <3>2, <3>3
        <3> QED BY <3>1, <3>4 DEF k
    <2> HIDE DEF S
    <2>3. 0..e - 1 - s \subseteq S
        <3>1. e - 1 - s \in Nat
            BY <1>0
        <3> QED BY <2>1, <2>2, <3>1, UpToInduction
    <2>4. ASSUME NEW k \in s..e - 1 PROVE c[k].at < end
        <3>1. (e - 1) - k \in 0..e - 1 - s /\ (e - 1) - ((e - 1) - k) = k
            BY <1>0
        <3> QED BY <2>3, <3>1 DEF S
    <2> QED BY <2>4
<1>6. \A k \in s..e - 1 : c[k].at \in from..end - 1
    BY <1>1, <1>2, <1>3, <1>4, <1>5
<1>7. ASSUME NEW k \in s..e - 1
      PROVE  \E m \in c[k].at..end :
                /\ TokenText(t, c[k].id) = Written(text, c[k].at, m)
                /\ (c[k + 1].at = m /\ m < end /\ Inner(t, c[k + 1])) \/ c[k + 1].at >= end
    <2>1. WordEnd(text, c[k].at) = end
        BY <1>3, <1>6
    <2>2. PICK m \in c[k].at..end :
            /\ Says(t, text, c[k], m)
            /\ (c[k + 1].at = m /\ m < end /\ Inner(t, c[k + 1])) \/ c[k + 1].at >= end
        BY <1>0, <2>1 DEF Link
    <2>3. TokenText(t, c[k].id) = Written(text, c[k].at, m)
        BY <1>0, <2>2 DEF Says
    <2> QED BY <2>2, <2>3
<1>8. ASSUME NEW k \in s..e - 2
      PROVE  /\ c[k].at <= c[k + 1].at
             /\ TokenText(t, c[k].id) = Written(text, c[k].at, c[k + 1].at)
             /\ TokenText(t, c[k + 1].id) # <<>>
    <2>1. k \in s..e - 1 /\ k + 1 \in s..e - 1
        BY <1>0
    <2>2. ~(c[k + 1].at >= end)
        BY <1>2, <1>3, <1>6, <2>1
    <2>3. /\ TokenText(t, c[k].id) = Written(text, c[k].at, c[k + 1].at)
          /\ Inner(t, c[k + 1])
        BY <1>7, <2>1, <2>2
    <2>4. TokenText(t, c[k + 1].id) # <<>>
        BY <1>0, <2>1, <2>3 DEF Inner
    <2> QED BY <1>1, <2>1, <2>3, <2>4
<1>9. \E m \in c[e - 1].at..end :
        /\ TokenText(t, c[e - 1].id) = Written(text, c[e - 1].at, m)
        /\ c[e].at = m \/ c[e].at >= end
    <2>1. e - 1 \in s..e - 1 /\ (e - 1) + 1 = e
        BY <1>0
    <2> QED BY <1>7, <2>1
<1>10. end \in from + 1..Len(text) + 1
    <2>1. from < end
        <3>1. s \in s..e - 1
            BY <1>0
        <3> QED BY <1>5, <3>1 DEF from
    <2> QED BY <1>2, <1>3, <2>1
<1> QED BY <1>2, <1>6, <1>8, <1>9, <1>10 DEF from, end

\* The texts of a span's tokens, and where the text of the span ends.
TextsOf(t, c, s, e) == [k \in 1..e - s |-> TokenText(t, c[s + k - 1].id)]
StopOf(text, c, s, e) == Min({c[e].at, WordEnd(text, c[s].at)})

\* It is in the word of the span, behind its first token.
LEMMA StopIs ==
    ASSUME NEW t, NEW text \in Seq(Byte), NEW c, NEW s, NEW e, SpanOf(t, text, c, s, e)
    PROVE  LET end == WordEnd(text, c[s].at)
               stop == StopOf(text, c, s, e) IN
           /\ stop \in {c[e].at, end} /\ stop <= end /\ stop <= c[e].at
           /\ c[s].at <= stop /\ stop <= Len(text) + 1
<1> DEFINE end == WordEnd(text, c[s].at)
           S == {c[e].at, end}
<1>1. /\ c[s].at \in 1..Len(text) /\ end \in c[s].at + 1..Len(text) + 1
      /\ c[e - 1].at \in c[s].at..end - 1
      /\ \E m \in c[e - 1].at..end : c[e].at = m \/ c[e].at >= end
    <2>1. e - 1 \in s..e - 1
        BY DEF SpanOf
    <2> QED BY <2>1, SpanLinked
<1>2. c[e].at \in Nat /\ Len(text) \in Nat
    BY LenProperties DEF SpanOf
<1> HIDE DEF end
<1>3. c[s].at <= c[e].at
    BY <1>1, <1>2
<1>4. S \subseteq Nat /\ S # {}
    BY <1>1, <1>2
<1>5. Min(S) \in S /\ \A x \in S : Min(S) <= x
    <2> HIDE DEF S
    <2> QED BY <1>4, MinOf
<1>6. StopOf(text, c, s, e) = Min(S)
    BY DEF StopOf, end
<1> DEFINE stop == StopOf(text, c, s, e)
<1>7. stop \in S /\ stop <= c[e].at /\ stop <= end
    BY <1>5, <1>6
<1> HIDE DEF stop
<1>8. c[s].at <= stop /\ stop <= Len(text) + 1
    BY <1>1, <1>2, <1>3, <1>7
<1> QED BY <1>7, <1>8 DEF end, stop

\* Put one behind the other they are the text of the span up to an edge.
Edge(edge, t, text, c, s, e) ==
    LET from == c[s].at
        end == WordEnd(text, from)
        n == e - s IN
    /\ edge \in [0..n -> from..StopOf(text, c, s, e)]
    /\ \A k \in 0..n : FlattenSeq(SubSeq(TextsOf(t, c, s, e), 1, k)) = Written(text, from, edge[k])
    /\ edge[n] = StopOf(text, c, s, e) \/ c[e].at >= end
    /\ edge[n] > c[e - 1].at \/ edge[n] = from

\* There are such edges, whether the next token is of the same word or not.
LEMMA TextsJoin ==
    ASSUME NEW t, NEW text \in Seq(Byte), NEW c, NEW s, NEW e, SpanOf(t, text, c, s, e)
    PROVE  /\ TextsOf(t, c, s, e) \in Seq(Seq(Byte)) /\ Len(TextsOf(t, c, s, e)) = e - s
           /\ \E edge : Edge(edge, t, text, c, s, e)
<1> DEFINE from == c[s].at
           end == WordEnd(text, from)
           stop == StopOf(text, c, s, e)
           n == e - s
           strs == TextsOf(t, c, s, e)
<1>1. /\ from \in 1..Len(text) /\ end \in from + 1..Len(text) + 1
      /\ \A k \in s..e - 1 : c[k].at \in from..end - 1
      /\ \A k \in s..e - 2 : /\ c[k].at <= c[k + 1].at
                             /\ TokenText(t, c[k].id) = Written(text, c[k].at, c[k + 1].at)
                             /\ TokenText(t, c[k + 1].id) # <<>>
    BY SpanLinked
<1>2. PICK m \in c[e - 1].at..end :
            /\ TokenText(t, c[e - 1].id) = Written(text, c[e - 1].at, m)
            /\ c[e].at = m \/ c[e].at >= end
    BY SpanLinked
<1>3. stop \in {c[e].at, end} /\ stop <= end /\ stop <= c[e].at /\ from <= stop /\ stop <= Len(text) + 1
    BY StopIs
<1>4. s \in Nat /\ e \in Nat /\ s < e /\ n \in Nat /\ n >= 1 /\ c[e].at \in Nat /\ Len(text) \in Nat
    <2>1. s \in Nat /\ e \in Nat /\ s < e /\ e \in s..e
        BY DEF SpanOf
    <2>2. c[e].at \in Nat
        BY <2>1 DEF SpanOf
    <2> QED BY <2>1, <2>2, LenProperties
<1> HIDE DEF from, end, stop
<1>5. c[e - 1].at \in from..end - 1
    <2>1. e - 1 \in s..e - 1
        BY <1>4
    <2> QED BY <1>1, <2>1
<1>6. m \in from..stop /\ (m = stop \/ c[e].at >= end)
    <2> DEFINE last == c[e - 1].at
               next == c[e].at
    <2>1. last \in from..end - 1 /\ m \in last..end /\ (next = m \/ next >= end) /\ next \in Nat
        BY <1>2, <1>4, <1>5
    <2>2. stop \in {next, end} /\ stop <= end /\ stop <= next /\ from <= stop
        BY <1>3
    <2>3. from \in Nat /\ end \in Nat
        BY <1>1, <1>4
    <2> HIDE DEF last, next
    <2>4. m \in from..stop /\ (m = stop \/ next >= end)
        BY <2>1, <2>2, <2>3
    <2> QED BY <2>4 DEF next
<1>0. from \in Nat /\ 1 <= from /\ stop \in Nat /\ stop <= Len(text) + 1 /\ Len(text) \in Nat
    BY <1>1, <1>3, <1>4
<1> DEFINE edge == [k \in 0..n |-> IF k = n THEN m ELSE c[s + k].at]
<1>7. \A k \in 0..n - 1 : s + k \in s..e - 1 /\ edge[k] = c[s + k].at /\ c[s + k].at \in from..end - 1
    <2> SUFFICES ASSUME NEW k \in 0..n - 1
                 PROVE  s + k \in s..e - 1 /\ edge[k] = c[s + k].at /\ c[s + k].at \in from..end - 1
        OBVIOUS
    <2>1. s + k \in s..e - 1 /\ k \in 0..n /\ k # n
        BY <1>4
    <2> HIDE DEF n
    <2> QED BY <1>1, <2>1
<1>8. edge[n] = m /\ edge[0] = from
    <2>1. n \in 0..n /\ 0 \in 0..n /\ 0 # n /\ s + 0 = s
        BY <1>4
    <2> HIDE DEF n
    <2> QED BY <2>1 DEF from
<1>9. \A k \in 1..n : /\ edge[k - 1] \in from..stop /\ edge[k] \in from..stop /\ edge[k - 1] <= edge[k]
                      /\ strs[k] = Written(text, edge[k - 1], edge[k])
    <2>0. \A k \in 1..n : strs[k] = TokenText(t, c[s + k - 1].id)
        BY DEF TextsOf
    <2> HIDE DEF strs, edge
    <2>1. CASE n = 1
        <3>1. \A k \in 1..n : k = 1 /\ k - 1 = 0 /\ s + k - 1 = s /\ e - 1 = s
            BY <2>1, <1>4
        <3>2. edge[0] = from /\ edge[1] = m /\ c[e - 1].at = from
            <4>1. edge[1] = m
                BY <1>8, <2>1
            <4>2. e - 1 = s
                BY <1>4, <2>1
            <4>3. c[e - 1].at = from
                BY <4>2 DEF from
            <4> QED BY <1>8, <4>1, <4>3
        <3>3. strs[1] = Written(text, from, m)
            <4>1. 1 \in 1..n /\ s + 1 - 1 = e - 1 /\ s = e - 1
                BY <1>4, <2>1
            <4> QED BY <1>2, <2>0, <3>2, <4>1
        <3>4. from \in from..stop /\ m \in from..stop /\ from <= m
            BY <1>1, <1>3, <1>4, <1>6
        <3> QED BY <3>1, <3>2, <3>3, <3>4
    <2>2. CASE n # 1
        <3> SUFFICES ASSUME NEW k \in 1..n
                     PROVE  /\ edge[k - 1] \in from..stop /\ edge[k] \in from..stop /\ edge[k - 1] <= edge[k]
                            /\ strs[k] = Written(text, edge[k - 1], edge[k])
            OBVIOUS
        <3> DEFINE j == s + k - 1
        <3>1. k - 1 \in 0..n - 1 /\ j = s + (k - 1) /\ j \in s..e - 1
            BY <1>4
        <3>2. edge[k - 1] = c[j].at /\ c[j].at \in from..end - 1
            BY <1>7, <3>1
        <3>3. strs[k] = TokenText(t, c[j].id)
            BY <2>0
        <3>4. CASE k = n
            <4>1. j = e - 1
                BY <1>4, <3>4
            <4>2. edge[k] = m
                BY <1>8, <3>4
            <4> HIDE DEF j, n
            <4>3. m \in c[j].at..end /\ TokenText(t, c[j].id) = Written(text, c[j].at, m)
                BY <1>2, <4>1
            <4>4. c[j].at \in from..stop /\ c[j].at <= m
                BY <1>1, <1>3, <1>4, <1>6, <3>2, <4>3
            <4> QED BY <1>6, <3>2, <3>3, <4>2, <4>3, <4>4
        <3>5. CASE k # n
            <4>1. j \in s..e - 2 /\ k \in 0..n - 1 /\ j + 1 = s + k
                BY <1>4, <3>5
            <4>2. edge[k] = c[j + 1].at /\ c[j + 1].at \in from..end - 1
                BY <1>7, <4>1
            <4>3. c[j].at <= c[j + 1].at /\ TokenText(t, c[j].id) = Written(text, c[j].at, c[j + 1].at)
                BY <1>1, <4>1
            <4>4. c[j + 1].at <= c[e - 1].at
                <5> DEFINE S == {d \in 0..e - 1 - (j + 1) : c[j + 1].at <= c[j + 1 + d].at}
                <5>1. 0 \in S
                    <6>1. j + 1 + 0 = j + 1 /\ 0 \in 0..e - 1 - (j + 1)
                        BY <1>4, <4>1
                    <6> HIDE DEF j
                    <6> QED BY <1>1, <1>4, <4>2, <6>1
                <5>2. ASSUME NEW d \in 0..(e - 1 - (j + 1)) - 1, d \in S PROVE d + 1 \in S
                    <6> DEFINE l == j + 1 + d
                    <6>1. l \in s..e - 2 /\ l + 1 = j + 1 + (d + 1) /\ l \in s..e - 1 /\ l + 1 \in s..e - 1
                          /\ d + 1 \in 0..e - 1 - (j + 1)
                        BY <1>4, <4>1
                    <6>2. c[l].at <= c[l + 1].at /\ c[j + 1].at <= c[l].at
                        <7> HIDE DEF j
                        <7> QED BY <1>1, <5>2, <6>1
                    <6> HIDE DEF l, j
                    <6>3. c[l].at \in from..end - 1 /\ c[l + 1].at \in from..end - 1
                        BY <1>1, <6>1
                    <6> DEFINE u == c[j + 1].at
                               v == c[l].at
                               w == c[l + 1].at
                    <6>4. u \in Nat /\ v \in Nat /\ w \in Nat /\ v <= w /\ u <= v
                        <7>1. \A x \in from..end - 1 : x \in Nat
                            BY <1>1, <1>4
                        <7> QED BY <4>2, <6>2, <6>3, <7>1
                    <6> HIDE DEF u, v, w
                    <6>5. u <= w
                        BY <6>4
                    <6> QED BY <6>1, <6>5 DEF u, w
                <5>3. e - 1 - (j + 1) \in S
                    <6>1. e - 1 - (j + 1) \in Nat
                        BY <1>4, <4>1
                    <6> HIDE DEF S, j
                    <6>2. 0..e - 1 - (j + 1) \subseteq S
                        BY <5>1, <5>2, <6>1, UpToInduction
                    <6> QED BY <6>1, <6>2
                <5>4. j + 1 + (e - 1 - (j + 1)) = e - 1
                    BY <1>4, <4>1
                <5> QED BY <5>3, <5>4
            <4> HIDE DEF j, n
            <4>5. c[j].at \in from..stop /\ c[j + 1].at \in from..stop
                <5>1. c[e - 1].at <= m
                    BY <1>1, <1>2, <1>4, <1>5
                <5> DEFINE x == c[j].at
                           y == c[j + 1].at
                           z == c[e - 1].at
                <5>2. x \in from..end - 1 /\ y \in from..end - 1 /\ z \in from..end - 1 /\ m \in from..stop
                      /\ x <= y /\ y <= z /\ z <= m
                      /\ from \in Nat /\ end \in Nat /\ stop \in Nat
                    <6>1. from \in Nat /\ stop \in Nat /\ end \in Nat
                        BY <1>0, <1>1
                    <6> QED BY <1>5, <1>6, <3>2, <4>2, <4>3, <4>4, <5>1, <6>1
                <5> HIDE DEF x, y, z
                <5>3. x \in from..stop /\ y \in from..stop
                    BY <5>2
                <5> QED BY <5>3 DEF x, y
            <4> QED BY <3>2, <3>3, <4>2, <4>3, <4>5
        <3> QED BY <3>4, <3>5
    <2> QED BY <2>1, <2>2
<1>10. strs \in Seq(Seq(Byte)) /\ Len(strs) = n
    <2>1. \A k \in 1..n : strs[k] \in Seq(Byte)
        <3> SUFFICES ASSUME NEW k \in 1..n PROVE strs[k] \in Seq(Byte)
            OBVIOUS
        <3> DEFINE a == edge[k - 1]
                   b == edge[k]
        <3>1. a \in from..stop /\ b \in from..stop /\ a <= b /\ strs[k] = Written(text, a, b)
            BY <1>9
        <3> HIDE DEF a, b, strs, n
        <3>2. a \in 1..Len(text) + 1 /\ b \in a..Len(text) + 1
            BY <1>0, <3>1
        <3> QED BY <3>1, <3>2, WrittenJoins
    <2> DEFINE g(k) == TokenText(t, c[s + k - 1].id)
    <2>2. strs = [k \in 1..n |-> g(k)]
        BY DEF TextsOf
    <2>3. \A k \in 1..n : g(k) \in Seq(Byte)
        BY <2>1, <2>2
    <2>4. DOMAIN strs = 1..n
        BY <2>2
    <2> HIDE DEF g, strs, n
    <2>5. strs \in Seq(Seq(Byte))
        BY <1>4, <2>2, <2>3, IsASeq
    <2> QED BY <1>4, <2>4, <2>5, LenProperties
<1>11. \A k \in 0..n : FlattenSeq(SubSeq(strs, 1, k)) = Written(text, from, edge[k])
    <2> DEFINE S == {k \in 0..n : FlattenSeq(SubSeq(strs, 1, k)) = Written(text, from, edge[k])}
    <2>1. 0 \in S
        <3>1. SubSeq(strs, 1, 0) = <<>>
            <4> HIDE DEF strs, n
            <4>1. SubSeq(strs, 1, 0) \in Seq(Seq(Byte)) /\ Len(SubSeq(strs, 1, 0)) = 0
                BY <1>4, <1>10, SubSeqProperties
            <4> QED BY <4>1, EmptySeq
        <3>2. FlattenSeq(<<>>) = <<>>
            BY EmptySeq DEF FlattenSeq
        <3>3. Written(text, from, from) = <<>>
            <4>1. from \in 1..Len(text) + 1
                BY <1>1, <1>4
            <4> QED BY <4>1, WrittenStep
        <3>4. edge[0] = from /\ 0 \in 0..n
            BY <1>4, <1>8
        <3> HIDE DEF strs, n, edge
        <3> QED BY <3>1, <3>2, <3>3, <3>4
    <2>2. ASSUME NEW j \in 0..n - 1, j \in S PROVE j + 1 \in S
        <3> DEFINE k == j + 1
        <3>1. k \in 1..n /\ k - 1 = j /\ k \in 0..n
            BY <1>4
        <3>2. edge[j] \in from..stop /\ edge[k] \in from..stop /\ edge[j] <= edge[k]
              /\ strs[k] = Written(text, edge[j], edge[k])
            BY <1>9, <3>1
        <3>3. FlattenSeq(SubSeq(strs, 1, j)) = Written(text, from, edge[j])
            BY <2>2
        <3> HIDE DEF k, n, strs, edge
        <3>4. FlattenSeq(SubSeq(strs, 1, k)) = FlattenSeq(SubSeq(strs, 1, j)) \o strs[k]
            BY <1>10, <3>1, FlattenSeqStep
        <3>5. from \in 1..Len(text) + 1 /\ edge[j] \in from..Len(text) + 1 /\ edge[k] \in edge[j]..Len(text) + 1
            <4> DEFINE a == edge[j]
                       b == edge[k]
            <4>1. a \in from..stop /\ b \in from..stop /\ a <= b
                BY <3>2
            <4> HIDE DEF a, b
            <4>2. from \in 1..Len(text) + 1 /\ a \in from..Len(text) + 1 /\ b \in a..Len(text) + 1
                BY <1>0, <4>1
            <4> QED BY <4>2 DEF a, b
        <3>6. Written(text, from, edge[k]) = Written(text, from, edge[j]) \o Written(text, edge[j], edge[k])
            BY <3>5, WrittenJoins
        <3> QED BY <3>1, <3>2, <3>3, <3>4, <3>6 DEF k
    <2> HIDE DEF S
    <2>3. 0..n \subseteq S
        BY <1>4, <2>1, <2>2, UpToInduction
    <2> QED BY <2>3 DEF S
<1>12. edge[n] > c[e - 1].at \/ edge[n] = from
    <2>1. CASE n = 1
        <3>1. e - 1 = s
            BY <1>4, <2>1
        <3>2. c[e - 1].at = from
            BY <3>1 DEF from
        <3> QED BY <1>1, <1>4, <1>6, <1>8, <3>2
    <2>2. CASE n # 1
        <3>1. e - 2 \in s..e - 2 /\ (e - 2) + 1 = e - 1
            BY <1>4, <2>2
        <3>2. TokenText(t, c[e - 1].id) # <<>>
            BY <1>1, <3>1
        <3>3. m # c[e - 1].at
            <4> SUFFICES ASSUME m = c[e - 1].at PROVE FALSE
                OBVIOUS
            <4>1. m \in 1..Len(text) + 1
                BY <1>1, <1>4, <1>5
            <4>2. Written(text, m, m) = <<>>
                BY <4>1, WrittenStep
            <4> QED BY <1>2, <3>2, <4>2
        <3> QED BY <1>1, <1>2, <1>4, <1>5, <1>8, <3>3
    <2> QED BY <2>1, <2>2
<1>13. edge \in [0..n -> from..stop]
    <2>1. \A k \in 0..n : edge[k] \in from..stop
        <3> SUFFICES ASSUME NEW k \in 0..n PROVE edge[k] \in from..stop
            OBVIOUS
        <3> HIDE DEF edge
        <3>1. CASE k = n
            BY <1>6, <1>8, <3>1
        <3>2. CASE k # n
            <4>1. k + 1 \in 1..n /\ (k + 1) - 1 = k
                BY <1>4, <3>2
            <4> QED BY <1>9, <4>1
        <3> QED BY <3>1, <3>2
    <2>2. edge = [k \in 0..n |-> edge[k]]
        OBVIOUS
    <2> HIDE DEF edge, n
    <2> QED BY <2>1, <2>2
<1>14. edge[n] = stop \/ c[e].at >= end
    BY <1>6, <1>8
<1> HIDE DEF edge
<1>15. Edge(edge, t, text, c, s, e)
    BY <1>11, <1>12, <1>13, <1>14 DEF Edge, from, end, stop
<1> QED BY <1>10, <1>15

\* What the plugin decodes.
SpanIds(c, s, e) == [k \in 1..e - s |-> c[s + k - 1].id]

\* The name of a span is its text, up to an edge that is the end of the span if
\* the buffer takes it all.
LEMMA NameIs ==
    ASSUME NEW t, NEW text \in Seq(Byte), NEW c, NEW s, NEW e, SpanOf(t, text, c, s, e),
           NEW size \in Nat \ {0, 1}, NEW name, name # <<>>,
           name = krl_tok_decode(t, SpanIds(c, s, e), size)
    PROVE  LET from == c[s].at
               stop == StopOf(text, c, s, e) IN
           \E q \in from + 1..stop :
              /\ name = Written(text, from, q)
              /\ Len(Written(text, from, stop)) < size - 1 =>
                    q > c[e - 1].at /\ (c[e].at < WordEnd(text, from) => q = stop)
<1> DEFINE from == c[s].at
           end == WordEnd(text, from)
           stop == StopOf(text, c, s, e)
           n == e - s
           toks == SpanIds(c, s, e)
           strs == TextsOf(t, c, s, e)
           Fit == {k \in 0..n : k = 0 \/ Total(strs, k) < size - 1}
           last == Max(Fit)
<1>1. s \in Nat /\ e \in Nat /\ n \in Nat /\ n >= 1 /\ Len(text) \in Nat
    <2>1. s \in Nat /\ e \in Nat /\ s < e
        BY DEF SpanOf
    <2> QED BY <2>1, LenProperties
<1>2. strs \in Seq(Seq(Byte)) /\ Len(strs) = n
    BY TextsJoin
<1>3. PICK edge : Edge(edge, t, text, c, s, e)
    BY TextsJoin
<1>4. /\ edge \in [0..n -> from..stop]
      /\ \A k \in 0..n : FlattenSeq(SubSeq(strs, 1, k)) = Written(text, from, edge[k])
      /\ edge[n] = stop \/ c[e].at >= end
      /\ edge[n] > c[e - 1].at \/ edge[n] = from
    BY <1>3 DEF Edge
<1>5. from \in 1..Len(text) /\ end \in from + 1..Len(text) + 1 /\ c[e].at \in Nat
    <2>1. e \in s..e
        BY <1>1
    <2>2. c[e].at \in Nat
        BY <2>1 DEF SpanOf
    <2> QED BY <2>2, SpanLinked
<1>6. from <= stop /\ stop <= Len(text) + 1 /\ stop \in {c[e].at, end} /\ stop <= c[e].at
    BY StopIs
<1>7. name = FlattenSeq(SubSeq(strs, 1, last))
    <2>1. DOMAIN toks = 1..n /\ Len(toks) = n
        <3> DEFINE I == {toks[k] : k \in 1..n}
        <3>1. toks \in [1..n -> I] /\ DOMAIN toks = 1..n
            BY DEF SpanIds
        <3> HIDE DEF toks, I, n
        <3>2. toks \in Seq(I)
            BY <1>1, <3>1, SeqDef
        <3> QED BY <1>1, <3>1, <3>2, LenProperties
    <2>2. strs = [k \in DOMAIN toks |-> TokenText(t, toks[k])]
        <3>1. \A k \in 1..n : TokenText(t, toks[k]) = TokenText(t, c[s + k - 1].id)
            BY DEF SpanIds
        <3>2. strs = [k \in 1..n |-> TokenText(t, c[s + k - 1].id)]
            BY DEF TextsOf
        <3>3. DOMAIN toks = 1..n
            BY <2>1
        <3> HIDE DEF toks, strs, n
        <3> QED BY <3>1, <3>2, <3>3
    <2>3. name = krl_tok_decode(t, toks, size)
        OBVIOUS
    <2> HIDE DEF toks, strs, n
    <2> QED BY <2>1, <2>2, <2>3 DEF krl_tok_decode
<1> HIDE DEF n, strs, from, end, stop
<1>8. last \in Fit /\ \A k \in Fit : k <= last
    <2>1. Fit \subseteq 0..n /\ 0 \in Fit
        BY <1>1
    <2> HIDE DEF Fit
    <2> QED BY <1>1, <2>1, MaxUpTo
<1> HIDE DEF last
<1> DEFINE q == edge[last]
<1>9. last \in 0..n /\ q \in from..stop /\ name = Written(text, from, q)
    BY <1>4, <1>7, <1>8
<1>10. q # from
    <2> SUFFICES ASSUME q = from PROVE FALSE
        OBVIOUS
    <2>1. from \in 1..Len(text) + 1
        BY <1>1, <1>5
    <2> QED BY <1>9, <2>1, WrittenStep
<1>11. q \in from + 1..stop
    <2>1. from \in Nat /\ stop \in Nat
        BY <1>1, <1>5, <1>6
    <2> HIDE DEF q
    <2> QED BY <1>9, <1>10, <2>1
<1>12. ASSUME Len(Written(text, from, stop)) < size - 1
       PROVE  q > c[e - 1].at /\ (c[e].at < end => q = stop)
    <2> DEFINE m == edge[n]
    <2>1. m \in from..stop
        BY <1>1, <1>4
    <2>2. Len(Written(text, from, m)) <= Len(Written(text, from, stop))
        <3> HIDE DEF m
        <3>1. from \in 1..Len(text) + 1 /\ m \in from..Len(text) + 1 /\ stop \in m..Len(text) + 1
              /\ m \in 1..Len(text) + 1
            BY <1>1, <1>5, <1>6, <2>1
        <3> DEFINE u == Written(text, from, m)
                   v == Written(text, m, stop)
                   w == Written(text, from, stop)
        <3>2. u \in Seq(Byte) /\ w = u \o v
            BY <3>1, WrittenJoins
        <3>3. v \in Seq(Byte)
            BY <3>1, WrittenJoins
        <3> HIDE DEF u, v, w
        <3>4. Len(w) = Len(u) + Len(v) /\ Len(u) \in Nat /\ Len(v) \in Nat
            BY <3>2, <3>3, ConcatProperties, LenProperties
        <3>5. Len(u) <= Len(w)
            BY <3>4
        <3> QED BY <3>5 DEF u, w
    <2>3. Total(strs, n) = Len(Written(text, from, m)) /\ n \in 0..n
        <3>1. n \in 0..Len(strs) /\ n \in 0..n
            BY <1>1, <1>2
        <3>2. Len(FlattenSeq(SubSeq(strs, 1, n))) = Total(strs, n)
            BY <1>2, <3>1, FirstStrings
        <3> QED BY <1>4, <3>1, <3>2
    <2>4. Total(strs, n) \in Nat /\ Len(Written(text, from, stop)) \in Nat
        <3>1. from \in 1..Len(text) + 1 /\ stop \in from..Len(text) + 1
            BY <1>1, <1>5, <1>6
        <3>2. Written(text, from, stop) \in Seq(Byte)
            BY <3>1, WrittenJoins
        <3> QED BY <1>2, <2>3, <3>2, TotalIs, LenProperties
    <2>5. n \in Fit
        <3>1. Total(strs, n) < size - 1
            BY <1>12, <2>2, <2>3, <2>4
        <3> QED BY <2>3, <3>1
    <2>6. last = n
        <3>1. n <= last
            BY <1>8, <2>5
        <3> QED BY <1>1, <1>9, <3>1
    <2>7. q = m
        BY <2>6
    <2>8. q > c[e - 1].at
        BY <1>4, <1>10, <2>7
    <2>9. c[e].at < end => q = stop
        BY <1>1, <1>4, <1>5, <2>7
    <2> QED BY <2>8, <2>9
<1> HIDE DEF q
<1> QED BY <1>9, <1>11, <1>12 DEF from, stop, end

\* The line of a name is not below a place of the text that has it.
LEMMA FoundBefore ==
    ASSUME NEW text \in Seq(Byte), NEW a \in 1..Len(text), NEW q \in a + 1..Len(text) + 1
    PROVE  find_line(text, SubSeq(text, a, q - 1)) <= 1 + Cardinality({j \in 1..a - 1 : text[j] = 10})
<1> DEFINE needle == SubSeq(text, a, q - 1)
           found == {k \in 1..Len(text) - Len(needle) + 1 :
                        SubSeq(text, k, k + Len(needle) - 1) = needle}
           first == Min(found)
           above == {j \in 1..first - 1 : text[j] = 10}
           before == {j \in 1..a - 1 : text[j] = 10}
<1>1. Len(text) \in Nat /\ Len(needle) = q - a
    <2>1. Len(text) \in Nat
        BY LenProperties
    <2>2. a \in Int /\ q - 1 \in Int /\ a <= q - 1 /\ 1 <= a /\ q - 1 <= Len(text)
        BY <2>1
    <2>3. Len(needle) = (q - 1) - a + 1
        BY <2>2, SubSeqProperties
    <2> HIDE DEF needle
    <2> QED BY <2>1, <2>3
<1>2. a \in found
    <2>1. a \in 1..Len(text) - Len(needle) + 1
        <3> HIDE DEF needle
        <3> QED BY <1>1
    <2>2. a + Len(needle) - 1 = q - 1
        <3> HIDE DEF needle
        <3> QED BY <1>1
    <2> QED BY <2>1, <2>2
<1>3. found \subseteq Nat
    OBVIOUS
<1> HIDE DEF needle, found
<1>4. first \in Nat /\ first <= a
    BY <1>2, <1>3, MinOf
<1>5. find_line(text, needle) = 1 + Cardinality(above)
    BY <1>2 DEF find_line, found
<1> HIDE DEF first
<1>6. IsFiniteSet(before)
    <2>1. a - 1 \in Int
        BY <1>1
    <2>2. IsFiniteSet(1..a - 1)
        BY <2>1, FS_Interval
    <2>3. before \subseteq 1..a - 1
        OBVIOUS
    <2> HIDE DEF before
    <2> QED BY <2>2, <2>3, FS_Subset
<1>7. above \subseteq before
    BY <1>4
<1>8. Cardinality(above) <= Cardinality(before) /\ Cardinality(before) \in Nat /\ Cardinality(above) \in Nat
    <2> HIDE DEF above, before
    <2> QED BY <1>6, <1>7, FS_Subset, FS_CardinalityType
<1> HIDE DEF above, before
<1>9. find_line(text, needle) <= 1 + Cardinality(before)
    BY <1>5, <1>8
<1> QED BY <1>9 DEF needle, before

-----------------------------------------------------------------------------
(* The theorem. *)

\* The tokens of a plain span are of one word.
LEMMA PlainSpan ==
    ASSUME PluginInv, ChainInv, input.lines = <<>>, NEW k \in 1..read, Plain(k)
    PROVE  SpanOf(tok, input.source, ids, spans[k][1], spans[k][2])
<1> DEFINE s == spans[k][1]
           e == spans[k][2]
<1>1. Len(ids) \in Nat /\ \A j \in 1..Len(ids) : ids[j].at \in 0..Len(input.source) + 1
    BY TokensOf DEF PluginInv, TextInv
<1>2. s \in 2..Len(ids) - 1 /\ e \in 3..Len(ids) /\ s < e
    <2>1. spans[k] \in Kept
        BY ReadSpan
    <2> QED BY <2>1 DEF Kept, Runs
<1>3. \A j \in s..e - 1 : ids[j].id # KRL_TOK_UNK
    BY DEF Plain
<1>4. ids[e - 1].at < WordEnd(input.source, ids[s].at)
    BY DEF Plain
<1> HIDE DEF s, e
<1>5. \A j \in s..e : ids[j].at \in Nat
    <2> SUFFICES ASSUME NEW j \in s..e PROVE ids[j].at \in Nat
        OBVIOUS
    <2>1. j \in 1..Len(ids)
        BY <1>1, <1>2
    <2>2. ids[j].at \in 0..Len(input.source) + 1
        BY <1>1, <2>1
    <2> QED BY <2>2
<1>6. \A j \in s..e - 1 : Link(tok, input.source, ids[j], ids[j + 1])
    <2> SUFFICES ASSUME NEW j \in s..e - 1 PROVE Link(tok, input.source, ids[j], ids[j + 1])
        OBVIOUS
    <2>1. j \in 2..Len(ids) - 1
        BY <1>1, <1>2
    <2> QED BY <2>1 DEF ChainInv
<1>7. s \in Nat /\ e \in Nat
    BY <1>1, <1>2
<1>8. SpanOf(tok, input.source, ids, s, e)
    BY <1>2, <1>3, <1>4, <1>5, <1>6, <1>7 DEF SpanOf
<1> QED BY <1>8 DEF s, e

\* The row of a plain span.
LEMMA PlainRow ==
    ASSUME Shipped, PluginInv, TakenInv, ChainInv, input.lines = <<>>, NEW k \in 1..read, Plain(k)
    PROVE  LET s == spans[k][1]
               e == spans[k][2]
               from == ids[s].at
               name == Spelled(SpanText(k)) IN
           \E r \in store :
            /\ r.kind = label_kind(labels[s])
            /\ IsPrefix(r.name, name)
            /\ Len(name) < NameSize - 1 =>
                  /\ Len(r.name) > ids[e - 1].at - from
                  /\ ids[e].at < WordEnd(input.source, from) => r.name = name
            /\ Range(SpanText(k)) \subseteq 33..126 =>
                  r.line <= 1 + Cardinality({j \in 1..from - 1 : input.source[j] = 10})
<1> DEFINE s == spans[k][1]
           e == spans[k][2]
           text == input.source
           from == ids[s].at
           end == WordEnd(text, from)
           stop == StopOf(text, ids, s, e)
           name == NameOf(spans[k])
           row == RowOf(out[k])
           l == find_line(text, name)
           file == UpToQuote(json_escape(FilePath, 4096))
<1>1. labels # <<>> /\ spans[k] \in Kept /\ out[k] = Printed(spans[k])
    BY ReadSpan
<1>2. SpanOf(tok, text, ids, s, e)
    BY PlainSpan
<1>3. text \in Seq(Byte) /\ Len(text) \in Nat
    <2>1. text \in Seq(Byte)
        BY <1>1 DEF PluginInv, SpanInv
    <2> QED BY <2>1, LenProperties
<1>4. /\ from \in 1..Len(text) /\ stop <= Len(text) + 1 /\ from <= stop
      /\ stop \in {ids[e].at, end} /\ ids[e].at \in Nat /\ end \in Nat
      /\ ids[e - 1].at \in Nat
    <2>1. from \in 1..Len(text) /\ end \in from + 1..Len(text) + 1
        BY <1>2, <1>3, SpanLinked
    <2>2. e \in s..e /\ e - 1 \in s..e
        BY <1>2 DEF SpanOf
    <2>3. ids[e].at \in Nat /\ ids[e - 1].at \in Nat
        BY <1>2, <2>2 DEF SpanOf
    <2>4. stop \in {ids[e].at, end} /\ from <= stop /\ stop <= Len(text) + 1
        BY <1>2, <1>3, StopIs
    <2> HIDE DEF end
    <2> QED BY <1>3, <2>1, <2>3, <2>4
<1>5. Spelled(SpanText(k)) = Written(text, from, stop) /\ SpanText(k) = SubSeq(text, from, stop - 1)
    BY DEF Written, SpanText, StopOf
<1>6. name # <<>> /\ name = krl_tok_decode(tok, SpanIds(ids, s, e), NameSize)
    BY <1>1 DEF Kept, NameOf, IdsOf, SpanIds
<1>7. PICK q \in from + 1..stop :
            /\ name = Written(text, from, q)
            /\ Len(Written(text, from, stop)) < NameSize - 1 =>
                  q > ids[e - 1].at /\ (ids[e].at < end => q = stop)
    <2> HIDE DEF name, s, e
    <2> QED BY <1>2, <1>3, <1>6, NameIs, SizesAssumption
<1>8. \A v : v \notin Range(SpanText(k)) => \A j \in from..stop - 1 : text[j] # v
    <2> SUFFICES ASSUME NEW j \in from..stop - 1 PROVE text[j] \in Range(SpanText(k))
        OBVIOUS
    <2> HIDE DEF from, stop, text, end, s, e
    <2>0. from \in Int /\ stop - 1 \in Int /\ from <= stop - 1 /\ 1 <= from /\ stop - 1 <= Len(text)
        <3>1. from \in Int /\ 1 <= from
            BY <1>3, <1>4
        <3>2. stop \in Int /\ stop <= Len(text) + 1
            BY <1>3, <1>4
        <3> QED BY <1>3, <3>1, <3>2
    <2> DEFINE part == SubSeq(text, from, stop - 1)
               x == j - from + 1
    <2>1. /\ part \in Seq(Byte) /\ Len(part) = (stop - 1) - from + 1
          /\ \A y \in 1..(stop - 1) - from + 1 : part[y] = text[from + y - 1]
        BY <1>3, <2>0, SubSeqProperties
    <2>2. x \in 1..(stop - 1) - from + 1 /\ from + x - 1 = j
        BY <2>0
    <2> HIDE DEF part, x
    <2>3. part[x] = text[j] /\ x \in DOMAIN part
        <3>1. x \in 1..Len(part)
            BY <2>1, <2>2
        <3>2. DOMAIN part = 1..Len(part)
            BY <2>1, LenProperties
        <3> QED BY <2>1, <2>2, <3>1, <3>2
    <2>4. text[j] \in Range(part)
        BY <2>3 DEF Range
    <2> QED BY <1>5, <2>4 DEF part
<1> HIDE DEF name, from, stop, s, e, end, row, file
<1>9. from \in 1..Len(text) + 1 /\ q \in from..Len(text) + 1 /\ stop \in q..Len(text) + 1 /\ q \in 1..Len(text) + 1
      /\ stop \in Nat
    <2> HIDE DEF text
    <2> QED BY <1>3, <1>4
<1>10. \A j \in 1..Len(name) : name[j] \notin {Quote, Backslash}
    <2>1. Range(SpanText(k)) \cap {Quote, Backslash} = {}
        BY DEF Plain
    <2>2. \A j \in from..q - 1 : text[j] \notin {Quote, Backslash}
        <3> SUFFICES ASSUME NEW j \in from..q - 1 PROVE text[j] \notin {Quote, Backslash}
            OBVIOUS
        <3>1. j \in from..stop - 1
            <4> HIDE DEF text
            <4> QED BY <1>3, <1>9
        <3> QED BY <1>8, <2>1, <3>1
    <2> QED BY <1>3, <1>7, <1>9, <2>2, WrittenPlain
<1>11. row = [kind |-> label_kind(labels[s]), name |-> name, file |-> file, line |-> l]
    <2>1. TextInv /\ SpanInv
        BY DEF PluginInv
    <2>2. \A j \in 1..Len(NameOf(spans[k])) : NameOf(spans[k])[j] \notin {Quote, Backslash}
        BY <1>10 DEF name
    <2>3. RowOf(Printed(spans[k])) =
               [kind |-> label_kind(labels[spans[k][1]]), name |-> NameOf(spans[k]),
                file |-> UpToQuote(json_escape(FilePath, 4096)),
                line |-> find_line(input.source, NameOf(spans[k]))]
        BY <1>1, <2>1, <2>2, RowOfPrinted
    <2> QED BY <1>1, <2>3 DEF row, s, name, file
<1>12. row \in store
    <2>1. store = {RowOf(out[j]) : j \in 1..read}
        BY DEF TakenInv
    <2> QED BY <2>1 DEF row
<1>13. IsPrefix(name, Written(text, from, stop)) /\ Len(name) >= q - from
    <2> DEFINE rest == Written(text, q, stop)
    <2>1. name \in Seq(Byte) /\ Len(name) >= q - from
        BY <1>3, <1>7, <1>9, WrittenJoins
    <2>2. Written(text, from, stop) = name \o rest
        BY <1>3, <1>7, <1>9, WrittenJoins
    <2>3. rest \in Seq(Byte)
        BY <1>3, <1>9, WrittenJoins
    <2> HIDE DEF rest
    <2> QED BY <2>1, <2>2, <2>3, PrefixJoined
<1>14. ASSUME Len(Written(text, from, stop)) < NameSize - 1
       PROVE  /\ Len(name) > ids[e - 1].at - from
              /\ ids[e].at < end => name = Written(text, from, stop)
    <2>1. q > ids[e - 1].at /\ (ids[e].at < end => q = stop)
        BY <1>7, <1>14
    <2>2. Len(name) \in Nat
        <3>1. name \in Seq(Byte)
            BY <1>3, <1>7, <1>9, WrittenJoins
        <3> QED BY <3>1, LenProperties
    <2>3. Len(name) > ids[e - 1].at - from
        <3> HIDE DEF text
        <3> QED BY <1>4, <1>9, <1>13, <2>1, <2>2
    <2> QED BY <1>7, <2>1, <2>3
<1>15. ASSUME Range(SpanText(k)) \subseteq 33..126
       PROVE  l <= 1 + Cardinality({j \in 1..from - 1 : text[j] = 10})
    <2>1. \A j \in from..q - 1 : text[j] \in 33..126
        <3> SUFFICES ASSUME NEW j \in from..q - 1 PROVE text[j] \in 33..126
            OBVIOUS
        <3>1. j \in from..stop - 1
            <4> HIDE DEF text
            <4> QED BY <1>3, <1>9
        <3>2. text[j] \in Range(SpanText(k))
            BY <1>8, <3>1
        <3> QED BY <1>15, <3>2
    <2>2. name = SubSeq(text, from, q - 1)
        BY <1>3, <1>7, <1>9, <2>1, WrittenPlain
    <2>3. from \in 1..Len(text) /\ q \in from + 1..Len(text) + 1
        <3> HIDE DEF text
        <3> QED BY <1>3, <1>4, <1>7, <1>9
    <2> QED BY <1>3, <2>2, <2>3, FoundBefore
<1>16. row.kind = label_kind(labels[s]) /\ row.name = name /\ row.line = l
    <2> HIDE DEF l
    <2> QED BY <1>11
<1> HIDE DEF l
<1>17. /\ row.kind = label_kind(labels[s])
       /\ IsPrefix(row.name, Spelled(SpanText(k)))
       /\ Len(Spelled(SpanText(k))) < NameSize - 1 =>
             /\ Len(row.name) > ids[e - 1].at - from
             /\ ids[e].at < end => row.name = Spelled(SpanText(k))
       /\ Range(SpanText(k)) \subseteq 33..126 =>
             row.line <= 1 + Cardinality({j \in 1..from - 1 : text[j] = 10})
    BY <1>5, <1>13, <1>14, <1>15, <1>16
<1> QED BY <1>12, <1>17 DEF s, e, from, end

\* The entity of a plain span is stored under the text of the span, to its last
\* token unless name[128] is too small and to no later one, and its line is not
\* below the span: tok.c, the span loop of plugin_main.c, json_escape, find_line
\* and the daemon's db_json_str change nothing, whatever the labels.
THEOREM NamesAsWritten ==
    ASSUME Shipped, Spelling
    PROVE  Spec => []EntityAsWritten
<1>1. PluginInv /\ TakenInv /\ ChainInv => EntityAsWritten
    <2> SUFFICES ASSUME PluginInv, TakenInv, ChainInv, input.lines = <<>>, NEW k \in 1..read, Plain(k)
                 PROVE  LET s == spans[k][1]
                            e == spans[k][2]
                            from == ids[s].at
                            name == Spelled(SpanText(k)) IN
                        \E r \in store :
                            /\ r.kind = label_kind(labels[s])
                            /\ IsPrefix(r.name, name)
                            /\ Len(name) < NameSize - 1 =>
                                  /\ Len(r.name) > ids[e - 1].at - from
                                  /\ ids[e].at < WordEnd(input.source, from) => r.name = name
                            /\ Range(SpanText(k)) \subseteq 33..126 =>
                                  r.line <= 1 + Cardinality({j \in 1..from - 1 : input.source[j] = 10})
        BY DEF EntityAsWritten
    <2> QED BY PlainRow
<1> QED BY <1>1, TokensInvariant, PTL
=================================================================================
