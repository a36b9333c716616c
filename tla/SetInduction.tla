------------------------------- MODULE SetInduction -------------------------------
(***************************************************************************)
(* Induction over the natural numbers without an operator parameter: what  *)
(* is proved of a number is its membership in a set.  From it follows that *)
(* a function defined by recursion over 0..N is what its equation says.    *)
(***************************************************************************)
EXTENDS Integers, SequencesExt, SequenceTheorems, TLAPS, WellFoundedInduction

\* A set that holds zero, and with every number the next, holds them all.
LEMMA NatSetInduction ==
    ASSUME NEW S, 0 \in S, \A n \in Nat : n \in S => n + 1 \in S
    PROVE  Nat \subseteq S
<1> DEFINE Less == {ss \in Nat \X Nat : ss[1] < ss[2]}
           Rest == Nat \ S
<1> SUFFICES ASSUME Rest # {} PROVE FALSE
    OBVIOUS
<1>1. IsWellFoundedOn(Less, Nat)
    BY NatLessThanWellFounded DEF OpToRel
<1>2. PICK x \in Rest : \A y \in Rest : <<y, x>> \notin Less
    <2> Rest \subseteq Nat
        OBVIOUS
    <2> HIDE DEF Less, Rest
    <2> QED BY <1>1, WFMin, Zenon
<1>3. x \in Nat /\ x - 1 \in Nat
    BY x # 0
<1>4. x - 1 \in Rest
    BY <1>3, x = (x - 1) + 1
<1>5. <<x - 1, x>> \in Less
    BY <1>3
<1> QED BY <1>2, <1>4, <1>5

\* The same up to a number.
LEMMA UpToInduction ==
    ASSUME NEW N \in Nat, NEW S, 0 \in S, \A n \in 0..N - 1 : n \in S => n + 1 \in S
    PROVE  0..N \subseteq S
<1> DEFINE T == {n \in Nat : n <= N => n \in S}
<1>1. 0 \in T
    OBVIOUS
<1>2. \A n \in Nat : n \in T => n + 1 \in T
    OBVIOUS
<1>3. Nat \subseteq T
    <2> HIDE DEF T
    <2> QED BY <1>1, <1>2, NatSetInduction
<1> QED BY <1>3

\* A function on 0..N given by its value for 0 and a step to each next number.
Steps(N, V) == [1..N -> [V -> V]]
Recursion(f, N, V, base, step) ==
    f \in [0..N -> V] /\ f[0] = base /\ \A n \in 1..N : f[n] = step[n][f[n - 1]]

\* There is one.
THEOREM RecursionUpTo ==
    ASSUME NEW V, NEW N \in Nat, NEW base \in V, NEW step \in Steps(N, V)
    PROVE  \E f : Recursion(f, N, V, base, step)
<1> USE DEF Steps
<1> DEFINE Makes(f, n) == f[0] = base /\ \A m \in 1..n : f[m] = step[m][f[m - 1]]
           S == {n \in 0..N : \E f \in [0..n -> V] : Makes(f, n)}
<1>1. 0 \in S
    <2> DEFINE f == [m \in 0..0 |-> base]
    <2>1. f \in [0..0 -> V] /\ Makes(f, 0)
        OBVIOUS
    <2> HIDE DEF f, Makes
    <2> QED BY <2>1
<1>2. ASSUME NEW n \in 0..N - 1, n \in S
      PROVE  n + 1 \in S
    <2>1. PICK f \in [0..n -> V] : Makes(f, n)
        BY <1>2
    <2> DEFINE v == step[n + 1][f[n]]
               g == [m \in 0..n + 1 |-> IF m = n + 1 THEN v ELSE f[m]]
    <2>2. v \in V
        <3>1. n + 1 \in 1..N /\ f[n] \in V
            OBVIOUS
        <3> QED BY <3>1
    <2>3. g \in [0..n + 1 -> V]
        <3> HIDE DEF v
        <3> SUFFICES ASSUME NEW m \in 0..n + 1 PROVE (IF m = n + 1 THEN v ELSE f[m]) \in V
            OBVIOUS
        <3> QED BY <2>2, m # n + 1 => m \in 0..n
    <2>4. g[n + 1] = v /\ \A m \in 0..n : g[m] = f[m]
        <3> HIDE DEF v, Makes
        <3> QED OBVIOUS
    <2>5. Makes(g, n + 1)
        <3> HIDE DEF g
        <3>1. ASSUME NEW m \in 1..n + 1 PROVE g[m] = step[m][g[m - 1]]
            <4>1. CASE m = n + 1
                <5>1. m - 1 = n /\ n \in 0..n
                    BY <4>1
                <5>2. g[m] = v /\ g[m - 1] = f[n]
                    BY <4>1, <5>1, <2>4
                <5> QED BY <4>1, <5>1, <5>2
            <4>2. CASE m # n + 1
                <5>1. m \in 1..n /\ m \in 0..n /\ m - 1 \in 0..n
                    BY <4>2
                <5> QED BY <5>1, <2>1, <2>4
            <4> QED BY <4>1, <4>2
        <3>2. g[0] = base
            BY 0 \in 0..n, <2>1, <2>4
        <3> QED BY <3>1, <3>2
    <2> HIDE DEF g, v, Makes
    <2> QED BY <2>3, <2>5
<1>3. N \in S
    <2> HIDE DEF S
    <2>1. \A n \in 0..N - 1 : n \in S => n + 1 \in S
        BY <1>2
    <2>2. 0..N \subseteq S
        BY <1>1, <2>1, UpToInduction
    <2> QED BY <2>2
<1> QED BY <1>3 DEF Recursion

-----------------------------------------------------------------------------
(* Least and greatest numbers.                                             *)

\* Min and Max choose what they should.
LEMMA MinOf ==
    ASSUME NEW S, S \subseteq Nat, S # {}
    PROVE  Min(S) \in S /\ \A x \in S : Min(S) <= x
<1> DEFINE Less == {ss \in Nat \X Nat : ss[1] < ss[2]}
<1>1. IsWellFoundedOn(Less, Nat)
    BY NatLessThanWellFounded DEF OpToRel
<1>2. PICK x \in S : \A y \in S : <<y, x>> \notin Less
    <2> HIDE DEF Less
    <2> QED BY <1>1, WFMin, Zenon
<1>3. \A y \in S : x <= y
    <2> SUFFICES ASSUME NEW y \in S PROVE x <= y
        OBVIOUS
    <2>1. ~(y < x)
        BY <1>2
    <2> QED BY <2>1
<1> QED BY <1>3 DEF Min

LEMMA MaxUpTo ==
    ASSUME NEW n \in Nat, NEW S, S \subseteq 0..n, S # {}
    PROVE  Max(S) \in S /\ \A x \in S : x <= Max(S)
<1> DEFINE T == {n - x : x \in S}
<1>1. T \subseteq Nat /\ T # {}
    <2>1. \A x \in S : n - x \in Nat
        OBVIOUS
    <2>2. PICK x \in S : TRUE
        OBVIOUS
    <2>3. n - x \in T
        OBVIOUS
    <2> QED BY <2>1, <2>3
<1>2. Min(T) \in T /\ \A y \in T : Min(T) <= y
    <2> HIDE DEF T
    <2> QED BY <1>1, MinOf
<1>3. PICK m \in S : Min(T) = n - m
    BY <1>2
<1>4. \A x \in S : m >= x
    <2> SUFFICES ASSUME NEW x \in S PROVE m >= x
        OBVIOUS
    <2>1. n - m <= n - x
        BY <1>2, <1>3
    <2> QED BY <2>1
<1>5. Max(S) \in S /\ \A x \in S : Max(S) >= x
    <2> HIDE DEF T
    <2> QED BY <1>4 DEF Max
<1>6. Max(S) \in Int /\ \A x \in S : x \in Int
    <2>1. \A x \in S : x \in Int
        OBVIOUS
    <2> HIDE DEF T
    <2> QED BY <1>5, <2>1
<1> HIDE DEF T
<1> QED
    <2> SUFFICES ASSUME NEW x \in S PROVE x <= Max(S)
        BY <1>5
    <2>1. Max(S) >= x /\ x \in Int /\ Max(S) \in Int
        BY <1>5, <1>6
    <2> QED BY <2>1

-----------------------------------------------------------------------------
(* Sequences of sequences.                                                 *)

\* What the first n of them make when they are put one behind the other.
Joins(f, seqs, V) ==
    /\ f \in [0..Len(seqs) -> Seq(V)] /\ f[0] = <<>>
    /\ \A n \in 1..Len(seqs) : f[n] = f[n - 1] \o seqs[n]

\* There is such a function.
LEMMA Joined ==
    ASSUME NEW V, NEW seqs \in Seq(Seq(V))
    PROVE  \E f : Joins(f, seqs, V)
<1> DEFINE N == Len(seqs)
           step == [n \in 1..N |-> [s \in Seq(V) |-> s \o seqs[n]]]
<1>1. N \in Nat /\ \A n \in 1..N : seqs[n] \in Seq(V)
    BY LenProperties, ElementOfSeq
<1>2. step \in Steps(N, Seq(V))
    <2> HIDE DEF N
    <2> QED BY <1>1, ConcatProperties DEF Steps
<1>3. PICK f : Recursion(f, N, Seq(V), <<>>, step)
    <2> HIDE DEF step, N
    <2>1. <<>> \in Seq(V) /\ N \in Nat
        BY <1>1
    <2> QED BY <1>2, <2>1, RecursionUpTo
<1>4. \A n \in 1..N : f[n] = f[n - 1] \o seqs[n]
    <2> HIDE DEF N
    <2> SUFFICES ASSUME NEW n \in 1..N PROVE f[n] = f[n - 1] \o seqs[n]
        OBVIOUS
    <2>1. f[n - 1] \in Seq(V)
        BY <1>1, <1>3 DEF Recursion
    <2> QED BY <1>3, <2>1 DEF Recursion
<1> HIDE DEF step
<1> QED BY <1>3, <1>4 DEF Recursion, Joins

\* FlattenSeq, whose recursion begins at one, makes just that.
LEMMA FlattenSeqJoins ==
    ASSUME NEW V, NEW seqs \in Seq(Seq(V)), NEW f, Joins(f, seqs, V)
    PROVE  FlattenSeq(seqs) = f[Len(seqs)]
<1> DEFINE N == Len(seqs)
           Eq(g) == g = [i \in 1..N |-> IF i = 1 THEN seqs[i] ELSE g[i - 1] \o seqs[i]]
           flatten == CHOOSE g : Eq(g)
           h == [n \in 1..N |-> f[n]]
<1>1. /\ N \in Nat /\ \A n \in 1..N : seqs[n] \in Seq(V)
      /\ f[0] = <<>> /\ \A n \in 1..N : f[n] = f[n - 1] \o seqs[n]
    BY LenProperties, ElementOfSeq DEF Joins
<1>2. CASE N = 0
    <2>1. FlattenSeq(seqs) = <<>>
        BY <1>2, EmptySeq DEF FlattenSeq
    <2> QED BY <1>1, <1>2, <2>1
<1>3. CASE N # 0
    <2>1. f[1] = seqs[1]
        <3> HIDE DEF N
        <3>1. 1 \in 1..N /\ 1 - 1 = 0
            BY <1>1, <1>3
        <3>2. f[1] = f[0] \o seqs[1]
            BY <1>1, <3>1
        <3> QED BY <1>1, <3>1, <3>2, ConcatEmptySeq
    <2>2. Eq(h)
        <3> SUFFICES ASSUME NEW i \in 1..N
                     PROVE  f[i] = IF i = 1 THEN seqs[i] ELSE h[i - 1] \o seqs[i]
            BY Zenon
        <3> HIDE DEF N
        <3>1. CASE i = 1
            BY <2>1, <3>1
        <3>2. CASE i # 1
            <4>1. i - 1 \in 1..N
                BY <1>1, <3>2
            <4>2. h[i - 1] = f[i - 1]
                BY <4>1
            <4> HIDE DEF h
            <4> QED BY <1>1, <3>2, <4>2
        <3> QED BY <3>1, <3>2
    <2>3. Eq(flatten)
        <3> HIDE DEF Eq, h
        <3> QED BY <2>2
    <2> DEFINE S == {n \in 0..N : n = 0 \/ flatten[n] = f[n]}
    <2>4. N \in S
        <3>1. ASSUME NEW n \in 0..N - 1, n \in S
              PROVE  n + 1 \in S
            <4> HIDE DEF N, flatten
            <4>1. n + 1 \in 1..N /\ n + 1 \in 0..N /\ (n + 1) - 1 = n
                BY <1>1
            <4>2. flatten[n + 1] = IF n + 1 = 1 THEN seqs[n + 1] ELSE flatten[n] \o seqs[n + 1]
                BY <2>3, <4>1
            <4>3. flatten[n + 1] = f[n + 1]
                <5>1. CASE n = 0
                    BY <2>1, <4>2, <5>1
                <5>2. CASE n # 0
                    <6>1. flatten[n] = f[n]
                        BY <3>1, <5>2
                    <6>2. f[n + 1] = f[n] \o seqs[n + 1]
                        BY <1>1, <4>1
                    <6>3. n + 1 # 1
                        BY <1>1, <5>2
                    <6> QED BY <4>2, <6>1, <6>2, <6>3
                <5> QED BY <5>1, <5>2
            <4> QED BY <4>1, <4>3
        <3>2. 0 \in S
            <4> HIDE DEF N, flatten
            <4> QED BY <1>1
        <3> HIDE DEF S, N
        <3>3. 0..N \subseteq S
            BY <1>1, <3>1, <3>2, UpToInduction
        <3> QED BY <1>1, <3>3
    <2>5. FlattenSeq(seqs) = flatten[N]
        BY <1>3 DEF FlattenSeq
    <2> HIDE DEF flatten, N
    <2>6. FlattenSeq(seqs) = f[N]
        BY <1>3, <2>4, <2>5
    <2> QED BY <2>6 DEF N
<1> QED BY <1>2, <1>3

\* A sequence of sequences, flattened, is a sequence of their elements.
LEMMA FlattenSeqTyped ==
    ASSUME NEW V, NEW seqs \in Seq(Seq(V))
    PROVE  FlattenSeq(seqs) \in Seq(V)
<1>1. PICK f : Joins(f, seqs, V)
    BY Joined
<1>2. Len(seqs) \in Nat
    BY LenProperties
<1> QED BY <1>1, <1>2, FlattenSeqJoins DEF Joins

\* The same of the first of them.
LEMMA FlattenSeqFirst ==
    ASSUME NEW V, NEW seqs \in Seq(Seq(V)), NEW f, Joins(f, seqs, V), NEW n \in 0..Len(seqs)
    PROVE  FlattenSeq(SubSeq(seqs, 1, n)) = f[n]
<1> DEFINE first == SubSeq(seqs, 1, n)
           g == [k \in 0..n |-> f[k]]
<1>1. Len(seqs) \in Nat
    BY LenProperties
<1>2. first \in Seq(Seq(V)) /\ Len(first) = n /\ \A k \in 1..n : first[k] = seqs[k]
    BY <1>1, SubSeqProperties
<1>3. Joins(g, first, V)
    <2> HIDE DEF first
    <2>1. g \in [0..n -> Seq(V)]
        BY <1>1, SMTT(20) DEF Joins
    <2>2. g[0] = <<>>
        BY <1>1 DEF Joins
    <2>3. ASSUME NEW k \in 1..n PROVE g[k] = g[k - 1] \o first[k]
        <3>1. k \in 1..Len(seqs) /\ k \in 0..n /\ k - 1 \in 0..n
            BY <1>1
        <3>2. g[k] = f[k] /\ g[k - 1] = f[k - 1]
            BY <3>1
        <3>3. f[k] = f[k - 1] \o seqs[k]
            BY <3>1 DEF Joins
        <3> QED BY <1>2, <3>2, <3>3
    <2> HIDE DEF g
    <2> QED BY <1>2, <2>1, <2>2, <2>3 DEF Joins
<1>4. FlattenSeq(first) = g[n]
    <2> HIDE DEF first, g
    <2> QED BY <1>2, <1>3, FlattenSeqJoins
<1> QED BY <1>1, <1>4

\* One sequence more.
LEMMA FlattenSeqStep ==
    ASSUME NEW V, NEW seqs \in Seq(Seq(V)), NEW n \in 1..Len(seqs)
    PROVE  FlattenSeq(SubSeq(seqs, 1, n)) = FlattenSeq(SubSeq(seqs, 1, n - 1)) \o seqs[n]
<1>1. PICK f : Joins(f, seqs, V)
    BY Joined
<1>2. n \in 0..Len(seqs) /\ n - 1 \in 0..Len(seqs)
    BY LenProperties
<1>3. FlattenSeq(SubSeq(seqs, 1, n)) = f[n] /\ FlattenSeq(SubSeq(seqs, 1, n - 1)) = f[n - 1]
    BY <1>1, <1>2, FlattenSeqFirst
<1> QED BY <1>1, <1>3 DEF Joins

\* The head of the first sequence is that of them all.
LEMMA FlattenSeqHead ==
    ASSUME NEW V, NEW seqs \in Seq(Seq(V)), NEW n \in 1..Len(seqs), seqs[1] # <<>>
    PROVE  /\ FlattenSeq(SubSeq(seqs, 1, n)) # <<>>
           /\ FlattenSeq(SubSeq(seqs, 1, n))[1] = seqs[1][1]
<1>1. PICK f : Joins(f, seqs, V)
    BY Joined
<1>2. Len(seqs) \in Nat /\ \A k \in 1..Len(seqs) : seqs[k] \in Seq(V)
    BY LenProperties, ElementOfSeq
<1> DEFINE S == {k \in 0..n - 1 : Len(f[k + 1]) > 0 /\ f[k + 1][1] = seqs[1][1]}
<1>3. 0 \in S
    <2>1. 1 \in 1..Len(seqs) /\ 1 - 1 = 0
        BY <1>2
    <2>2. f[1] = <<>> \o seqs[1] /\ seqs[1] \in Seq(V)
        BY <1>1, <1>2, <2>1 DEF Joins
    <2>3. f[1] = seqs[1]
        BY <2>2, ConcatEmptySeq
    <2>4. Len(seqs[1]) > 0
        BY <2>2, LenProperties, EmptySeq
    <2> QED BY <1>2, <2>3, <2>4
<1>4. ASSUME NEW k \in 0..(n - 1) - 1, k \in S
      PROVE  k + 1 \in S
    <2>1. k + 1 \in 0..n - 1 /\ k + 2 \in 1..Len(seqs) /\ (k + 2) - 1 = k + 1 /\ k + 1 \in 0..Len(seqs)
          /\ (k + 1) + 1 = k + 2
        BY <1>2
    <2>2. f[k + 2] = f[k + 1] \o seqs[k + 2] /\ f[k + 1] \in Seq(V) /\ seqs[k + 2] \in Seq(V)
        BY <1>1, <1>2, <2>1 DEF Joins
    <2>3. Len(f[k + 1]) > 0 /\ f[k + 1][1] = seqs[1][1]
        BY <1>4
    <2> DEFINE s == f[k + 1]
               t == seqs[k + 2]
    <2> HIDE DEF s, t
    <2>4. Len(s \o t) > 0 /\ (s \o t)[1] = s[1]
        <3>1. s \in Seq(V) /\ t \in Seq(V) /\ Len(s) > 0
            BY <2>2, <2>3 DEF s, t
        <3>2. Len(s) \in Nat /\ Len(t) \in Nat
            BY <3>1, LenProperties
        <3>3. 1 \in 1..Len(s) + Len(t) /\ 1 <= Len(s)
            BY <3>1, <3>2
        <3> QED BY <3>1, <3>2, <3>3, ConcatProperties
    <2> QED BY <2>1, <2>2, <2>3, <2>4 DEF s, t
<1>5. n - 1 \in S
    <2>1. n - 1 \in Nat
        BY <1>2
    <2> HIDE DEF S
    <2>2. 0..n - 1 \subseteq S
        BY <1>3, <1>4, <2>1, UpToInduction
    <2> QED BY <2>1, <2>2
<1>6. Len(f[n]) > 0 /\ f[n][1] = seqs[1][1]
    BY <1>2, <1>5, (n - 1) + 1 = n
<1>7. FlattenSeq(SubSeq(seqs, 1, n)) = f[n]
    BY <1>1, <1>2, n \in 0..Len(seqs), FlattenSeqFirst
<1>8. f[n] # <<>>
    BY <1>6, EmptySeq
<1> QED BY <1>6, <1>7, <1>8

\* A sequence of sequences of one element each is flattened to their elements.
LEMMA SinglesJoin ==
    ASSUME NEW V, NEW s \in Seq(V), NEW seqs \in Seq(Seq(V)), Len(seqs) = Len(s),
           \A k \in 1..Len(s) : seqs[k] = <<s[k]>>
    PROVE  Joins([n \in 0..Len(s) |-> SubSeq(s, 1, n)], seqs, V)
<1> DEFINE g == [n \in 0..Len(s) |-> SubSeq(s, 1, n)]
<1>1. Len(s) \in Nat /\ \A k \in 1..Len(s) : s[k] \in V
    BY LenProperties, ElementOfSeq
<1>2. \A n \in 0..Len(s) : /\ SubSeq(s, 1, n) \in Seq(V) /\ Len(SubSeq(s, 1, n)) = n
                          /\ \A k \in 1..n : SubSeq(s, 1, n)[k] = s[k]
    BY <1>1, SubSeqProperties
<1>3. g \in [0..Len(s) -> Seq(V)]
    BY <1>2
<1>4. g[0] = <<>>
    <2>1. SubSeq(s, 1, 0) \in Seq(V) /\ Len(SubSeq(s, 1, 0)) = 0
        BY <1>1, <1>2
    <2> QED BY <1>1, <2>1, EmptySeq
<1>5. ASSUME NEW n \in 1..Len(s) PROVE g[n] = g[n - 1] \o seqs[n]
    <2>1. n - 1 \in 0..Len(s) /\ n \in 0..Len(s)
        BY <1>1
    <2> DEFINE a == SubSeq(s, 1, n)
               b == SubSeq(s, 1, n - 1)
               c == <<s[n]>>
    <2>2. /\ a \in Seq(V) /\ Len(a) = n /\ \A k \in 1..n : a[k] = s[k]
          /\ b \in Seq(V) /\ Len(b) = n - 1 /\ \A k \in 1..n - 1 : b[k] = s[k]
        BY <1>2, <2>1
    <2>3. c \in Seq(V) /\ Len(c) = 1 /\ c[1] = s[n]
        BY <1>1
    <2>4. g[n] = a /\ g[n - 1] = b /\ seqs[n] = c
        BY <2>1
    <2> HIDE DEF a, b, c, g
    <2>5. /\ b \o c \in Seq(V) /\ Len(b \o c) = n
          /\ \A k \in 1..n : (b \o c)[k] = IF k <= n - 1 THEN b[k] ELSE c[k - (n - 1)]
        <3>1. n \in Int /\ Len(b) + Len(c) = n
            BY <2>2, <2>3
        <3>2. /\ b \o c \in Seq(V) /\ Len(b \o c) = Len(b) + Len(c)
              /\ \A k \in 1..Len(b) + Len(c) :
                    (b \o c)[k] = IF k <= Len(b) THEN b[k] ELSE c[k - Len(b)]
            <4> b \in Seq(V) /\ c \in Seq(V)
                BY <2>2, <2>3
            <4> QED BY ConcatProperties
        <3> QED BY <2>2, <3>1, <3>2
    <2>6. \A k \in 1..n : (b \o c)[k] = a[k]
        <3> SUFFICES ASSUME NEW k \in 1..n PROVE (b \o c)[k] = a[k]
            OBVIOUS
        <3>0. k <= n - 1 \/ k = n
            BY <1>1
        <3>1. CASE k <= n - 1
            BY <2>2, <2>5, <3>1
        <3>2. CASE k = n
            <4>1. k - (n - 1) = 1 /\ ~(k <= n - 1)
                BY <3>2
            <4>2. (b \o c)[k] = c[k - (n - 1)]
                BY <2>5, <4>1
            <4> QED BY <2>2, <2>3, <3>2, <4>1, <4>2
        <3> QED BY <3>0, <3>1, <3>2
    <2>7. a = b \o c
        BY <2>2, <2>5, <2>6, SeqEqual
    <2> QED BY <2>4, <2>7
<1> HIDE DEF g
<1> QED BY <1>3, <1>4, <1>5 DEF Joins, g

\* A sequence without one of its elements.
LEMMA Removed ==
    ASSUME NEW V, NEW s \in Seq(V), NEW r \in 1..Len(s)
    PROVE  /\ RemoveAt(s, r) \in Seq(V) /\ Len(RemoveAt(s, r)) = Len(s) - 1
           /\ \A k \in 1..Len(s) - 1 : RemoveAt(s, r)[k] = IF k < r THEN s[k] ELSE s[k + 1]
<1> DEFINE N == Len(s)
           x == SubSeq(s, 1, r - 1)
           y == SubSeq(s, r + 1, N)
<1>1. N \in Nat /\ \A k \in 1..N : s[k] \in V
    BY LenProperties, ElementOfSeq
<1>2. x \in Seq(V) /\ Len(x) = r - 1 /\ \A k \in 1..r - 1 : x[k] = s[k]
    <2>1. /\ 1 \in Int /\ r - 1 \in Int /\ \A k \in 1..r - 1 : s[k] \in V /\ 1 + k - 1 = k
          /\ (r - 1) - 1 + 1 = r - 1 /\ (1 <= r - 1 \/ r - 1 = 0)
        BY <1>1
    <2> QED BY <2>1, SubSeqProperties
<1>3. y \in Seq(V) /\ Len(y) = N - r /\ \A k \in 1..N - r : y[k] = s[r + k]
    <2>1. /\ r + 1 \in Int /\ N \in Int /\ \A k \in r + 1..N : s[k] \in V
          /\ N - (r + 1) + 1 = N - r /\ (r + 1 <= N \/ N - r = 0)
          /\ \A k \in 1..N - r : r + 1 + k - 1 = r + k
        BY <1>1
    <2> HIDE DEF N
    <2> QED BY <2>1, SubSeqProperties
<1>4. RemoveAt(s, r) = x \o y
    BY DEF RemoveAt
<1> HIDE DEF x, y, N
<1>5. /\ x \o y \in Seq(V) /\ Len(x \o y) = (r - 1) + (N - r)
      /\ \A k \in 1..(r - 1) + (N - r) : (x \o y)[k] = IF k <= r - 1 THEN x[k] ELSE y[k - (r - 1)]
    <2>1. /\ x \o y \in Seq(V) /\ Len(x \o y) = Len(x) + Len(y)
          /\ \A k \in 1..Len(x) + Len(y) : (x \o y)[k] = IF k <= Len(x) THEN x[k] ELSE y[k - Len(x)]
        BY <1>2, <1>3, ConcatProperties
    <2>2. Len(x) = r - 1 /\ Len(y) = N - r
        BY <1>2, <1>3
    <2> QED BY <2>1, <2>2
<1>6. r \in 1..N /\ (r - 1) + (N - r) = N - 1
    BY <1>1 DEF N
<1>7. ASSUME NEW k \in 1..N - 1
      PROVE  (x \o y)[k] = IF k < r THEN s[k] ELSE s[k + 1]
    <2>1. CASE k < r
        <3>1. k \in 1..r - 1 /\ k <= r - 1
            BY <1>1, <1>6, <2>1
        <3> QED BY <1>2, <1>5, <1>6, <2>1, <3>1
    <2>2. CASE ~(k < r)
        <3>1. k - (r - 1) \in 1..N - r /\ ~(k <= r - 1) /\ r + (k - (r - 1)) = k + 1
            BY <1>1, <1>6, <2>2
        <3> QED BY <1>3, <1>5, <1>6, <2>2, <3>1
    <2> QED BY <2>1, <2>2
<1> QED BY <1>4, <1>5, <1>6, <1>7 DEF N
===================================================================================
