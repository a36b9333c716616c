----------------------------- MODULE EncodingProofs -----------------------------
(***************************************************************************)
(* That the tokens of a file are the BPE of its words (EncodingIsBpe),     *)
(* proved for every text, vocabulary and trained merge table.              *)
(*                                                                         *)
(* The program takes the pair of lowest rank, merges its leftmost          *)
(* occurrence and looks again; BPE takes the merges in the order of the    *)
(* file, each everywhere.  What BPE makes of a word does not change when   *)
(* the program merges a pair of it (MergeStep), and when the program finds *)
(* no pair, BPE finds none either (BestIs).                                *)
(***************************************************************************)
EXTENDS NameProofs

-----------------------------------------------------------------------------
(* The reference: what its recursive functions compute. *)

\* One element more for Apply.
Match(x, y, m) == x = m[1] /\ y = m[2]
Put(t, x, m) == IF t # <<>> /\ Last(t) = m[1] /\ x = m[2] THEN Append(Front(t), m[3]) ELSE Append(t, x)

Applies(f, s, m) ==
    /\ f \in [0..Len(s) -> Seq(Nat)] /\ f[0] = <<>>
    /\ \A k \in 1..Len(s) : f[k] = Put(f[k - 1], s[k], m)

LEMMA PutTyped ==
    ASSUME NEW t \in Seq(Nat), NEW x \in Nat, NEW m, m[3] \in Nat
    PROVE  Put(t, x, m) \in Seq(Nat)
<1>1. Append(t, x) \in Seq(Nat)
    BY AppendProperties
<1>2. t # <<>> => Append(Front(t), m[3]) \in Seq(Nat)
    <2> SUFFICES ASSUME t # <<>> PROVE Append(Front(t), m[3]) \in Seq(Nat)
        OBVIOUS
    <2>1. Len(t) \in Nat \ {0} /\ \A k \in 1..Len(t) : t[k] \in Nat
        BY EmptySeq, ElementOfSeq
    <2>2. \A k \in 1..Len(t) - 1 : t[k] \in Nat
        BY <2>1
    <2>3. Front(t) \in Seq(Nat)
        BY <2>1, <2>2, SubSeqProperties DEF Front
    <2> QED BY <2>3, AppendProperties
<1> QED BY <1>1, <1>2 DEF Put

LEMMA ApplyIs ==
    ASSUME NEW s \in Seq(Nat), NEW m, m[3] \in Nat
    PROVE  \E f : Applies(f, s, m) /\ Apply(s, m) = f[Len(s)]
<1> DEFINE N == Len(s)
           V == Seq(Nat)
           step == [n \in 1..N |-> [t \in V |-> Put(t, s[n], m)]]
           Eq(g) == g = [k \in 0..N |-> IF k = 0 THEN <<>> ELSE Put(g[k - 1], s[k], m)]
           upto == CHOOSE g : Eq(g)
<1>1. N \in Nat /\ \A n \in 1..N : s[n] \in Nat
    BY LenProperties, ElementOfSeq
<1>2. step \in Steps(N, V)
    <2> HIDE DEF N
    <2>1. \A n \in 1..N, t \in V : Put(t, s[n], m) \in V
        BY <1>1, PutTyped
    <2> HIDE DEF V
    <2> QED BY <2>1 DEF Steps
<1>3. PICK f : Recursion(f, N, V, <<>>, step)
    <2> HIDE DEF step, N, V
    <2>1. <<>> \in V
        BY EmptySeq DEF V
    <2> QED BY <1>1, <1>2, <2>1, RecursionUpTo
<1>4. f \in [0..N -> V] /\ f[0] = <<>> /\ \A n \in 1..N : f[n] = Put(f[n - 1], s[n], m)
    <2> HIDE DEF N, V
    <2>1. f \in [0..N -> V] /\ f[0] = <<>> /\ \A n \in 1..N : f[n] = step[n][f[n - 1]]
        BY <1>3 DEF Recursion
    <2>2. \A n \in 1..N : n - 1 \in 0..N
        BY <1>1
    <2>3. \A n \in 1..N : f[n - 1] \in V
        BY <2>1, <2>2
    <2> QED BY <2>1, <2>3
<1>5. Eq(f)
    <2> HIDE DEF N, V
    <2> QED BY <1>1, <1>4
<1>6. Eq(upto)
    <2> HIDE DEF Eq
    <2> QED BY <1>5
<1>7. Apply(s, m) = upto[N]
    BY DEF Apply, Put
<1> HIDE DEF upto
<1>8. upto[0] = <<>> /\ \A k \in 1..N : upto[k] = Put(upto[k - 1], s[k], m)
    <2> HIDE DEF N
    <2> QED BY <1>1, <1>6
<1> DEFINE S == {n \in 0..N : upto[n] \in V}
<1>9. 0..N \subseteq S
    <2> HIDE DEF N
    <2>1. 0 \in S
        <3>1. <<>> \in V
            BY EmptySeq
        <3> HIDE DEF V
        <3> QED BY <1>1, <1>8, <3>1
    <2>2. ASSUME NEW n \in 0..N - 1, n \in S PROVE n + 1 \in S
        <3>1. n + 1 \in 1..N /\ n + 1 \in 0..N /\ (n + 1) - 1 = n
            BY <1>1
        <3>2. upto[n + 1] = Put(upto[n], s[n + 1], m)
            BY <1>8, <3>1
        <3> QED BY <1>1, <2>2, <3>1, <3>2, PutTyped
    <2> HIDE DEF S
    <2> QED BY <1>1, <2>1, <2>2, UpToInduction
<1>10. Applies(upto, s, m)
    <2>1. upto = [k \in 0..N |-> upto[k]]
        <3> HIDE DEF N
        <3> QED BY <1>6
    <2>2. upto \in [0..N -> V]
        <3> HIDE DEF N, V
        <3> QED BY <1>9, <2>1
    <2> QED BY <1>8, <2>2 DEF Applies
<1> QED BY <1>7, <1>10
\* One merge more for Bpe.
MergesRead(merges) ==
    /\ merges.count \in Nat
    /\ 1..merges.count \subseteq DOMAIN merges.entries
    /\ \A k \in 1..merges.count : merges.entries[k] \in Nat \X Nat \X Nat
Merges(f, merges, s) ==
    /\ f \in [0..merges.count -> Seq(Nat)] /\ f[0] = s
    /\ \A k \in 1..merges.count : f[k] = Apply(f[k - 1], merges.entries[k])

LEMMA ApplyTyped ==
    ASSUME NEW s \in Seq(Nat), NEW m, m[3] \in Nat
    PROVE  Apply(s, m) \in Seq(Nat)
<1>1. PICK f : Applies(f, s, m) /\ Apply(s, m) = f[Len(s)]
    BY ApplyIs
<1>2. Len(s) \in 0..Len(s)
    BY LenProperties
<1> QED BY <1>1, <1>2 DEF Applies

LEMMA BpeIs ==
    ASSUME NEW merges, MergesRead(merges), NEW s \in Seq(Nat)
    PROVE  \E f : Merges(f, merges, s) /\ Bpe(merges, s) = f[merges.count]
<1> DEFINE N == merges.count
           V == Seq(Nat)
           m(k) == merges.entries[k]
           step == [n \in 1..N |-> [t \in V |-> Apply(t, m(n))]]
           Eq(g) == g = [k \in 0..N |-> IF k = 0 THEN s ELSE Apply(g[k - 1], m(k))]
           upto == CHOOSE g : Eq(g)
<1>1. N \in Nat /\ \A n \in 1..N : m(n)[3] \in Nat
    BY DEF MergesRead
<1>2. Bpe(merges, s) = upto[N]
    BY DEF Bpe
<1> HIDE DEF N, m
<1>3. step \in Steps(N, V)
    <2>1. \A n \in 1..N, t \in V : Apply(t, m(n)) \in V
        BY <1>1, ApplyTyped
    <2> HIDE DEF V
    <2> QED BY <2>1 DEF Steps
<1>4. PICK f : Recursion(f, N, V, s, step)
    <2> HIDE DEF step
    <2> QED BY <1>1, <1>3, RecursionUpTo
<1>5. f \in [0..N -> V] /\ f[0] = s /\ \A n \in 1..N : f[n] = Apply(f[n - 1], m(n))
    <2> HIDE DEF V
    <2>1. f \in [0..N -> V] /\ f[0] = s /\ \A n \in 1..N : f[n] = step[n][f[n - 1]]
        BY <1>4 DEF Recursion
    <2>2. \A n \in 1..N : n - 1 \in 0..N
        BY <1>1
    <2>3. \A n \in 1..N : f[n - 1] \in V
        BY <2>1, <2>2
    <2> QED BY <2>1, <2>3
<1>6. Eq(f)
    <2> HIDE DEF V
    <2> QED BY <1>1, <1>5
<1>7. Eq(upto)
    <2> HIDE DEF Eq
    <2> QED BY <1>6
<1> HIDE DEF upto
<1>8. upto[0] = s /\ \A k \in 1..N : upto[k] = Apply(upto[k - 1], m(k))
    BY <1>1, <1>7
<1> DEFINE S == {n \in 0..N : upto[n] \in V}
<1>9. 0..N \subseteq S
    <2>1. 0 \in S
        BY <1>1, <1>8
    <2>2. ASSUME NEW n \in 0..N - 1, n \in S PROVE n + 1 \in S
        <3>1. n + 1 \in 1..N /\ n + 1 \in 0..N /\ (n + 1) - 1 = n
            BY <1>1
        <3>2. upto[n + 1] = Apply(upto[n], m(n + 1))
            BY <1>8, <3>1
        <3> QED BY <1>1, <2>2, <3>1, <3>2, ApplyTyped
    <2> HIDE DEF S
    <2> QED BY <1>1, <2>1, <2>2, UpToInduction
<1>10. Merges(upto, merges, s)
    <2>1. upto = [k \in 0..N |-> upto[k]]
        BY <1>7
    <2>2. upto \in [0..N -> V]
        <3> HIDE DEF V
        <3> QED BY <1>9, <2>1
    <2> QED BY <1>8, <2>2 DEF Merges, N, m
<1> QED BY <1>2, <1>10 DEF N

LEMMA BpeTyped ==
    ASSUME NEW merges, MergesRead(merges), NEW s \in Seq(Nat)
    PROVE  Bpe(merges, s) \in Seq(Nat)
<1>1. PICK f : Merges(f, merges, s) /\ Bpe(merges, s) = f[merges.count]
    BY BpeIs
<1>2. merges.count \in 0..merges.count
    BY DEF MergesRead
<1> QED BY <1>1, <1>2 DEF Merges

-----------------------------------------------------------------------------
(* Apply where there is nothing to merge, and from the first match on. *)

\* A sequence grows by its next element.
LEMMA NextElement ==
    ASSUME NEW s \in Seq(Nat), NEW k \in 0..Len(s) - 1
    PROVE  /\ SubSeq(s, 1, k) \in Seq(Nat) /\ Len(SubSeq(s, 1, k)) = k
           /\ \A j \in 1..k : SubSeq(s, 1, k)[j] = s[j]
           /\ SubSeq(s, 1, k + 1) = Append(SubSeq(s, 1, k), s[k + 1])
<1>1. Len(s) \in Nat /\ \A j \in 1..Len(s) : s[j] \in Nat
    BY LenProperties, ElementOfSeq
<1>2. /\ SubSeq(s, 1, k) \in Seq(Nat) /\ Len(SubSeq(s, 1, k)) = k
      /\ \A j \in 1..k : SubSeq(s, 1, k)[j] = s[j]
    <2>1. 1 \in Int /\ k \in Int /\ \A j \in 1..k : s[j] \in Nat /\ 1 + j - 1 = j
        BY <1>1
    <2>2. k - 1 + 1 = k /\ (1 <= k \/ k = 0)
        BY <1>1
    <2> QED BY <2>1, <2>2, SubSeqProperties
<1>3. k + 1 \in 1..Len(s) /\ k + 1 \in 1..k + 1 /\ (k + 1) - 1 = k /\ 1 \in 1..Len(s) /\ k + 1 \in 1..Len(s)
    BY <1>1
<1>4. SubSeq(s, 1, k + 1) = SubSeq(s, 1, k) \o <<s[k + 1]>>
    BY <1>3, SubSeqRecursiveSecond
<1>5. Append(SubSeq(s, 1, k), s[k + 1]) = SubSeq(s, 1, k) \o <<s[k + 1]>>
    BY <1>1, <1>2, <1>3, AppendIsConcat
<1> QED BY <1>2, <1>4, <1>5

\* Up to the first match, Apply copies.
LEMMA ApplyCopies ==
    ASSUME NEW s \in Seq(Nat), NEW m, NEW f, Applies(f, s, m), NEW n \in 0..Len(s),
           \A k \in 1..n - 1 : ~Match(s[k], s[k + 1], m)
    PROVE  \A k \in 0..n : f[k] = SubSeq(s, 1, k)
<1> DEFINE S == {k \in 0..n : f[k] = SubSeq(s, 1, k)}
<1>1. Len(s) \in Nat
    BY LenProperties
<1>2. 0 \in S
    <2>1. SubSeq(s, 1, 0) = <<>>
        BY SubSeqEmpty
    <2> QED BY <1>1, <2>1, SMTT(30) DEF Applies
<1>3. ASSUME NEW k \in 0..n - 1, k \in S PROVE k + 1 \in S
    <2> DEFINE t == SubSeq(s, 1, k)
    <2>1. k \in 0..Len(s) - 1 /\ k + 1 \in 1..Len(s) /\ k + 1 \in 0..n /\ (k + 1) - 1 = k
        BY <1>1
    <2>2. f[k + 1] = Put(t, s[k + 1], m)
        BY <1>3, <2>1 DEF Applies
    <2>3. /\ t \in Seq(Nat) /\ Len(t) = k /\ \A j \in 1..k : t[j] = s[j]
          /\ SubSeq(s, 1, k + 1) = Append(t, s[k + 1])
        BY <2>1, NextElement
    <2> HIDE DEF t
    <2>4. CASE k = 0
        <3>1. t = <<>>
            BY <2>3, <2>4, EmptySeq
        <3> QED BY <2>1, <2>2, <2>3, <3>1 DEF Put
    <2>5. CASE k # 0
        <3>1. k \in 1..n - 1 /\ k \in 1..k
            BY <1>1, <2>5
        <3>2. Last(t) = s[k]
            BY <2>3, <3>1 DEF Last
        <3>3. ~(Last(t) = m[1] /\ s[k + 1] = m[2])
            BY <3>1, <3>2 DEF Match
        <3> QED BY <2>1, <2>2, <2>3, <3>3 DEF Put
    <2> QED BY <2>4, <2>5
<1> HIDE DEF S
<1>4. 0..n \subseteq S
    <2>1. n \in Nat
        BY <1>1
    <2> QED BY <1>2, <1>3, <2>1, UpToInduction
<1> QED BY <1>4 DEF S

Free(s, m) == \A k \in 1..Len(s) - 1 : ~Match(s[k], s[k + 1], m)

LEMMA ApplyNone ==
    ASSUME NEW s \in Seq(Nat), NEW m, m[3] \in Nat, Free(s, m)
    PROVE  Apply(s, m) = s
<1>1. PICK f : Applies(f, s, m) /\ Apply(s, m) = f[Len(s)]
    BY ApplyIs
<1>2. Len(s) \in 0..Len(s)
    BY LenProperties
<1>3. f[Len(s)] = SubSeq(s, 1, Len(s))
    BY <1>1, <1>2, ApplyCopies DEF Free
<1> QED BY <1>1, <1>3, SubSeqFull
\* A sequence u that is s with the pair at b replaced by v.
Contracted(u, s, b, v) ==
    /\ u \in Seq(Nat) /\ Len(u) = Len(s) - 1
    /\ \A k \in 1..Len(s) - 1 : u[k] = IF k < b THEN s[k] ELSE IF k = b THEN v ELSE s[k + 1]

\* No pair comes up that the new element is not in.
LEMMA FreeStays ==
    ASSUME NEW s \in Seq(Nat), NEW b \in 1..Len(s) - 1, NEW u, NEW v, Contracted(u, s, b, v),
           NEW m, v \notin {m[1], m[2]}, Free(s, m)
    PROVE  Free(u, m)
<1>1. Len(s) \in Nat /\ Len(u) = Len(s) - 1
    BY LenProperties DEF Contracted
<1> SUFFICES ASSUME NEW k \in 1..Len(s) - 2, Match(u[k], u[k + 1], m) PROVE FALSE
    BY <1>1 DEF Free
<1>2. k \in 1..Len(s) - 1 /\ k + 1 \in 1..Len(s) - 1
    BY <1>1
<1>3. u[k] # v /\ u[k + 1] # v
    BY DEF Match
<1>4. k # b /\ k + 1 # b
    <2>1. \A j \in 1..Len(s) - 1 : u[j] = IF j < b THEN s[j] ELSE IF j = b THEN v ELSE s[j + 1]
        BY DEF Contracted
    <2>2. b \in 1..Len(s) - 1 /\ ~(b < b)
        BY <1>1
    <2>3. u[b] = v
        BY <2>1, <2>2
    <2> QED BY <1>3, <2>3
<1>5. CASE k < b
    <2>1. k + 1 < b
        BY <1>1, <1>2, <1>4, <1>5
    <2>2. u[k] = s[k] /\ u[k + 1] = s[k + 1]
        BY <1>2, <1>5, <2>1 DEF Contracted
    <2> QED BY <1>2, <2>2 DEF Free
<1>6. CASE ~(k < b)
    <2>1. ~(k + 1 < b)
        BY <1>1, <1>2, <1>6
    <2>2. u[k] = s[k + 1] /\ u[k + 1] = s[(k + 1) + 1]
        BY <1>2, <1>4, <1>6, <2>1 DEF Contracted
    <2> QED BY <1>2, <2>2 DEF Free
<1> QED BY <1>5, <1>6

\* To merge the first match beforehand changes nothing.
LEMMA ApplyFirst ==
    ASSUME NEW s \in Seq(Nat), NEW m, m[3] \in Nat, m[3] # m[2],
           NEW b \in 1..Len(s) - 1, Match(s[b], s[b + 1], m),
           \A k \in 1..b - 1 : ~Match(s[k], s[k + 1], m),
           NEW u, Contracted(u, s, b, m[3])
    PROVE  Apply(u, m) = Apply(s, m)
<1> DEFINE N == Len(s)
           c == m[3]
           t == SubSeq(s, 1, b - 1)
<1>1. N \in Nat /\ u \in Seq(Nat) /\ Len(u) = N - 1 /\ \A k \in 1..N : s[k] \in Nat
    BY LenProperties, ElementOfSeq DEF Contracted
<1>2. \A k \in 1..N - 1 : u[k] = IF k < b THEN s[k] ELSE IF k = b THEN c ELSE s[k + 1]
    BY DEF Contracted
<1>3. PICK f : Applies(f, s, m) /\ Apply(s, m) = f[N]
    BY ApplyIs
<1>4. PICK g : Applies(g, u, m) /\ Apply(u, m) = g[N - 1]
    BY <1>1, ApplyIs
<1>5. b \in 1..N /\ b \in 0..N /\ b - 1 \in 0..N - 1 /\ b + 1 \in 1..N /\ b \in 1..N - 1
    BY <1>1
<1>6. t \in Seq(Nat) /\ Len(t) = b - 1 /\ SubSeq(s, 1, b) = Append(t, s[b]) /\ \A k \in 1..b - 1 : t[k] = s[k]
    <2>1. (b - 1) + 1 = b
        BY <1>5
    <2> QED BY <1>5, <2>1, NextElement, SMTT(30)
<1>7. f[b + 1] = Append(t, c)
    <2> DEFINE w == SubSeq(s, 1, b)
    <2>1. f[b] = w
        <3>1. b \in 0..b
            BY <1>5
        <3> QED BY <1>3, <1>5, <3>1, ApplyCopies
    <2>2. f[b + 1] = Put(w, s[b + 1], m)
        <3>1. (b + 1) - 1 = b
            BY <1>5
        <3> QED BY <1>3, <1>5, <2>1, <3>1 DEF Applies
    <2>3. s[b] \in Nat
        BY <1>1, <1>5
    <2>0. w = Append(t, s[b])
        BY <1>6
    <2> HIDE DEF t, w, N
    <2>4. w \in Seq(Nat) /\ Len(w) = b /\ w[b] = s[b] /\ \A k \in 1..b - 1 : w[k] = t[k]
        <3>1. (b - 1) + 1 = b /\ Len(t) = b - 1
            BY <1>5, <1>6
        <3>2. /\ w \in Seq(Nat) /\ Len(w) = Len(t) + 1
              /\ \A k \in 1..Len(t) : w[k] = t[k]
              /\ w[Len(t) + 1] = s[b]
            BY <1>6, <2>0, <2>3, AppendProperties
        <3> QED BY <3>1, <3>2
    <2>5. w # <<>> /\ Last(w) = s[b]
        <3>1. b # 0
            BY <1>5
        <3> QED BY <2>4, <3>1, EmptySeq DEF Last
    <2>6. Front(w) = t
        <3>0. b \in 1..N
            BY <1>5
        <3>1. \A k \in 1..b - 1 : w[k] \in Nat
            <4>1. \A k \in 1..b - 1 : k \in 1..b
                BY <1>1, <3>0
            <4> QED BY <2>4, <4>1, ElementOfSeq
        <3>2. /\ Front(w) \in Seq(Nat) /\ Len(Front(w)) = b - 1
              /\ \A k \in 1..b - 1 : Front(w)[k] = w[k]
            <4>1. 1 \in Int /\ b - 1 \in Int /\ \A k \in 1..b - 1 : w[k] \in Nat /\ 1 + k - 1 = k
                BY <1>1, <3>0, <3>1
            <4>2. (b - 1) - 1 + 1 = b - 1 /\ (1 <= b - 1 \/ b - 1 = 0)
                BY <1>1, <3>0
            <4> QED BY <2>4, <4>1, <4>2, SubSeqProperties, SMTT(30) DEF Front
        <3> QED BY <1>6, <2>4, <3>2, SeqEqual
    <2> QED BY <2>2, <2>5, <2>6 DEF Put, Match
<1>8. g[b] = Append(t, c)
    <2>1. g[b - 1] = SubSeq(u, 1, b - 1)
        <3>1. b - 1 \in 0..Len(u) /\ b - 1 \in 0..b - 1
            BY <1>1, <1>5
        <3>2. ASSUME NEW k \in 1..(b - 1) - 1 PROVE ~Match(u[k], u[k + 1], m)
            <4>1. k \in 1..N - 1 /\ k + 1 \in 1..N - 1 /\ k < b /\ k + 1 < b /\ k \in 1..b - 1
                BY <1>5
            <4> QED BY <1>2, <4>1
        <3> DEFINE a == b - 1
        <3>3. a \in 0..Len(u) /\ a \in 0..a /\ \A k \in 1..a - 1 : ~Match(u[k], u[k + 1], m)
            BY <3>1, <3>2
        <3>4. u \in Seq(Nat) /\ Applies(g, u, m)
            BY <1>1, <1>4
        <3> HIDE DEF a
        <3>5. \A k \in 0..a : g[k] = SubSeq(u, 1, k)
            BY <3>3, <3>4, ApplyCopies, ZenonT(90)
        <3> QED BY <3>3, <3>5 DEF a
    <2>2. SubSeq(u, 1, b - 1) = t
        <3> DEFINE w == SubSeq(u, 1, b - 1)
        <3>1. b - 1 \in 0..Len(u) - 1
            BY <1>1, <1>5
        <3>2. w \in Seq(Nat) /\ Len(w) = b - 1 /\ \A k \in 1..b - 1 : w[k] = u[k]
            BY <1>1, <3>1, NextElement
        <3>3. \A k \in 1..b - 1 : u[k] = s[k]
            <4>1. \A k \in 1..b - 1 : k \in 1..N - 1 /\ k < b
                BY <1>5
            <4> QED BY <1>2, <4>1
        <3> HIDE DEF w, t
        <3>4. w = t
            BY <1>6, <3>2, <3>3, SeqEqual
        <3> QED BY <3>4 DEF w
    <2>3. g[b] = Put(t, u[b], m)
        <3>1. b \in 1..Len(u)
            BY <1>1, <1>5
        <3> QED BY <1>4, <2>1, <2>2, <3>1 DEF Applies
    <2>4. u[b] = c /\ c # m[2]
        BY <1>2, <1>5
    <2> QED BY <2>3, <2>4 DEF Put
<1> DEFINE S == {d \in 0..N - 1 - b : f[b + d + 1] = g[b + d]}
<1>9. 0 \in S
    <2>1. b + 0 + 1 = b + 1 /\ b + 0 = b /\ 0 \in 0..N - 1 - b
        BY <1>1, <1>5
    <2> HIDE DEF N, t, c
    <2> QED BY <1>7, <1>8, <2>1
<1>10. ASSUME NEW d \in 0..(N - 1 - b) - 1, d \in S PROVE d + 1 \in S
    <2> DEFINE k == b + (d + 1)
    <2>1. /\ d + 1 \in 0..N - 1 - b /\ k \in 1..N - 1 /\ k + 1 \in 1..N /\ k > b
          /\ (k + 1) - 1 = b + d + 1 /\ k - 1 = b + d
        BY <1>1, <1>5
    <2> HIDE DEF k, N
    <2>2. f[k + 1] = Put(f[b + d + 1], s[k + 1], m)
        BY <1>3, <2>1 DEF Applies, N
    <2>3. g[k] = Put(g[b + d], u[k], m)
        BY <1>1, <1>4, <2>1 DEF Applies
    <2>4. u[k] = s[k + 1]
        <3>1. ~(k < b) /\ k # b
            BY <1>5, <2>1
        <3> QED BY <1>2, <2>1, <3>1
    <2>5. f[k + 1] = g[k]
        BY <1>10, <2>2, <2>3, <2>4
    <2> QED BY <2>1, <2>5 DEF k
<1>11. 0..N - 1 - b \subseteq S
    <2>1. N - 1 - b \in Nat
        BY <1>1, <1>5
    <2> HIDE DEF S, N
    <2> QED BY <1>9, <1>10, <2>1, UpToInduction
<1>12. f[N] = g[N - 1]
    <2> DEFINE d == N - 1 - b
    <2>1. d \in 0..N - 1 - b /\ b + d + 1 = N /\ b + d = N - 1
        BY <1>1, <1>5
    <2>2. d \in S
        BY <1>11, <2>1
    <2> HIDE DEF d, N
    <2> QED BY <2>1, <2>2
<1> QED BY <1>3, <1>4, <1>12

-----------------------------------------------------------------------------
(* The fold over the merges. *)

\* Merges that match nothing leave a sequence as it is.
LEMMA BpeSkips ==
    ASSUME NEW merges, MergesRead(merges), NEW s \in Seq(Nat), NEW f, Merges(f, merges, s),
           NEW n \in 0..merges.count, \A j \in 1..n : Free(s, merges.entries[j])
    PROVE  f[n] = s
<1> DEFINE S == {k \in 0..n : f[k] = s}
<1>1. merges.count \in Nat
    BY DEF MergesRead
<1>2. 0 \in S
    BY <1>1 DEF Merges
<1>3. ASSUME NEW k \in 0..n - 1, k \in S PROVE k + 1 \in S
    <2>1. k + 1 \in 1..merges.count /\ k + 1 \in 1..n /\ k + 1 \in 0..n /\ (k + 1) - 1 = k
        BY <1>1
    <2>2. f[k + 1] = Apply(s, merges.entries[k + 1])
        BY <1>3, <2>1 DEF Merges
    <2>3. merges.entries[k + 1][3] \in Nat
        BY <2>1 DEF MergesRead
    <2>4. Apply(s, merges.entries[k + 1]) = s
        BY <2>1, <2>3, ApplyNone
    <2> QED BY <2>1, <2>2, <2>4
<1> HIDE DEF S
<1>4. 0..n \subseteq S
    <2>1. n \in Nat
        BY <1>1
    <2> QED BY <1>2, <1>3, <2>1, UpToInduction
<1>5. n \in 0..n
    BY <1>1
<1> QED BY <1>4, <1>5 DEF S

LEMMA BpeNone ==
    ASSUME NEW merges, MergesRead(merges), NEW s \in Seq(Nat),
           \A j \in 1..merges.count : Free(s, merges.entries[j])
    PROVE  Bpe(merges, s) = s
<1>1. PICK f : Merges(f, merges, s) /\ Bpe(merges, s) = f[merges.count]
    BY BpeIs
<1>2. merges.count \in 0..merges.count
    BY DEF MergesRead
<1> QED BY <1>1, <1>2, BpeSkips

\* Nor does it change anything to begin with the first match of the first merge
\* that has one.
LEMMA BpeFirst ==
    ASSUME NEW merges, MergesRead(merges), NEW s \in Seq(Nat), NEW r \in 1..merges.count,
           \A j \in 1..r - 1 : Free(s, merges.entries[j]),
           \A j \in 1..r : merges.entries[r][3] \notin {merges.entries[j][1], merges.entries[j][2]},
           NEW b \in 1..Len(s) - 1, Match(s[b], s[b + 1], merges.entries[r]),
           \A k \in 1..b - 1 : ~Match(s[k], s[k + 1], merges.entries[r]),
           NEW u, Contracted(u, s, b, merges.entries[r][3])
    PROVE  Bpe(merges, u) = Bpe(merges, s)
<1> DEFINE n == merges.count
           m(k) == merges.entries[k]
<1>1. n \in Nat /\ r \in 1..n /\ \A k \in 1..n : m(k)[3] \in Nat
    BY DEF MergesRead
<1>2. u \in Seq(Nat)
    BY DEF Contracted
<1>3. PICK f : Merges(f, merges, s) /\ Bpe(merges, s) = f[n]
    BY BpeIs
<1>4. PICK g : Merges(g, merges, u) /\ Bpe(merges, u) = g[n]
    BY <1>2, BpeIs
<1>5. r - 1 \in 0..n /\ r \in 1..r
    BY <1>1
<1>6. f[r - 1] = s
    BY <1>3, <1>5, BpeSkips
<1>7. g[r - 1] = u
    <2>1. \A j \in 1..r - 1 : Free(u, m(j))
        <3> SUFFICES ASSUME NEW j \in 1..r - 1 PROVE Free(u, m(j))
            OBVIOUS
        <3>1. j \in 1..r
            BY <1>1
        <3> QED BY <3>1, FreeStays, SMTT(30)
    <2> QED BY <1>2, <1>4, <1>5, <2>1, BpeSkips
<1>8. f[r] = Apply(s, m(r)) /\ g[r] = Apply(u, m(r))
    BY <1>3, <1>4, <1>6, <1>7 DEF Merges
<1>9. Apply(u, m(r)) = Apply(s, m(r))
    <2>1. m(r)[3] \in Nat /\ m(r)[3] # m(r)[2]
        BY <1>1, <1>5
    <2> QED BY <2>1, ApplyFirst
<1>10. \A k \in 1..n : f[k] = Apply(f[k - 1], m(k)) /\ g[k] = Apply(g[k - 1], m(k))
    BY <1>3, <1>4 DEF Merges
<1> DEFINE S == {d \in 0..n - r : f[r + d] = g[r + d]}
<1> HIDE DEF n, m
<1>11. 0 \in S
    <2>1. r + 0 = r /\ 0 \in 0..n - r
        BY <1>1
    <2> QED BY <1>8, <1>9, <2>1
<1>12. ASSUME NEW d \in 0..(n - r) - 1, d \in S PROVE d + 1 \in S
    <2> DEFINE k == r + (d + 1)
    <2>1. d + 1 \in 0..n - r /\ k \in 1..n /\ k - 1 = r + d
        BY <1>1
    <2> HIDE DEF k
    <2>2. f[k] = g[k]
        BY <1>10, <1>12, <2>1
    <2> QED BY <2>1, <2>2 DEF k
<1>13. 0..n - r \subseteq S
    <2>1. n - r \in Nat
        BY <1>1
    <2> HIDE DEF S
    <2> QED BY <1>11, <1>12, <2>1, UpToInduction
<1>14. f[n] = g[n]
    <2>1. n - r \in 0..n - r /\ r + (n - r) = n
        BY <1>1
    <2>2. n - r \in S
        BY <1>13, <2>1
    <2> QED BY <2>1, <2>2
<1> QED BY <1>3, <1>4, <1>14 DEF n

-----------------------------------------------------------------------------
(* The table of a loaded tokenizer. *)

\* An entry of the table is one of the file, and its rank says which.
EntryOf(m, mf) ==
    /\ m.rank \in Nat /\ m.rank + 1 \in 1..mf.count
    /\ LET e == mf.entries[m.rank + 1] IN m.left = e[1] /\ m.right = e[2] /\ m.result = e[3]

Searches(t, vf, mf) ==
    /\ \A str : ht_lookup(t, str) = IdIn(vf, str) /\ IdIn(vf, str) \in Nat
    /\ MergesRead(mf) /\ Len(t.merges) \in Nat
    /\ \A k \in 1..Len(t.merges) : EntryOf(t.merges[k], mf)
    /\ \A j \in 1..mf.count : \E k \in 1..Len(t.merges) : t.merges[k].rank = j - 1
    /\ \A j, k \in 1..Len(t.merges) : j < k => ~merge_less(t.merges[k], t.merges[j])

\* Whatever was loaded.
LEMMA LoadedSearches ==
    ASSUME NEW in \in Inputs, krl_tok_load(in.vocab, in.merges).loaded
    PROVE  Searches(krl_tok_load(in.vocab, in.merges), in.vocab, in.merges)
<1> DEFINE vf == in.vocab
           mf == in.merges
           t == krl_tok_load(vf, mf)
           Spelt(str) == {k \in 1..vf.count : vf.entries[k].str = str}
           ms == [k \in 1..mf.count |->
                     [left |-> mf.entries[k][1], right |-> mf.entries[k][2],
                      rank |-> k - 1, result |-> mf.entries[k][3]]]
<1>1. /\ vf.count \in Nat /\ mf.count \in Nat /\ Len(mf.entries) \in Nat /\ mf.count <= Len(mf.entries)
      /\ vf.entries \in Seq([id : Nat, str : Seq(Byte)]) /\ mf.entries \in Seq(Nat \X Nat \X Nat)
      /\ vf.count <= Len(vf.entries)
    <2>1. vf \in VocabFiles /\ mf \in MergesFiles /\ mf.count <= Len(mf.entries) /\ vf.count <= Len(vf.entries)
        BY InputsAssumption DEF krl_tok_load, NoTok, Readable
    <2>2. /\ vf.count \in Nat /\ mf.count \in Nat
          /\ vf.entries \in Seq([id : Nat, str : Seq(Byte)]) /\ mf.entries \in Seq(Nat \X Nat \X Nat)
        BY <2>1 DEF VocabFiles, MergesFiles
    <2> QED BY <2>1, <2>2, LenProperties
<1>2. /\ DOMAIN t.ids = {vf.entries[k].str : k \in 1..vf.count}
      /\ \A str \in DOMAIN t.ids : t.ids[str] = vf.entries[Max(Spelt(str))].id
      /\ t.merges = SortMerges(ms)
    BY DEF krl_tok_load, NoTok
<1> HIDE DEF t, vf, mf, ms
<1>3. MergesRead(mf) /\ DOMAIN mf.entries = 1..Len(mf.entries)
    <2>1. DOMAIN mf.entries = 1..Len(mf.entries)
        BY <1>1, LenProperties
    <2>2. \A k \in 1..mf.count : k \in 1..Len(mf.entries)
        BY <1>1
    <2>3. \A k \in 1..mf.count : mf.entries[k] \in Nat \X Nat \X Nat
        BY <1>1, <2>2, ElementOfSeq
    <2> QED BY <1>1, <2>1, <2>2, <2>3 DEF MergesRead
<1>4. ASSUME NEW str
      PROVE  ht_lookup(t, str) = IdIn(vf, str) /\ IdIn(vf, str) \in Nat
    <2> DEFINE S == Spelt(str)
               m == Max(S)
    <2>1. IdIn(vf, str) = IF S = {} THEN KRL_TOK_UNK ELSE vf.entries[m].id
        BY DEF IdIn
    <2>2. S = {} <=> str \notin DOMAIN t.ids
        BY <1>2
    <2>3. CASE S = {}
        BY <2>1, <2>2, <2>3 DEF ht_lookup, KRL_TOK_UNK
    <2>4. CASE S # {}
        <3>1. ht_lookup(t, str) = vf.entries[m].id
            BY <1>2, <2>2, <2>4 DEF ht_lookup
        <3>2. S \subseteq 0..vf.count
            BY <1>1
        <3>3. m \in S
            <4> HIDE DEF S
            <4> QED BY <1>1, <2>4, <3>2, MaxUpTo
        <3>4. m \in 1..Len(vf.entries)
            <4>1. m \in 1..vf.count
                BY <3>3
            <4> HIDE DEF m
            <4>2. Len(vf.entries) \in Nat
                BY <1>1, LenProperties
            <4> QED BY <1>1, <4>1, <4>2
        <3> HIDE DEF m
        <3>5. vf.entries[m] \in [id : Nat, str : Seq(Byte)]
            BY <1>1, <3>4, ElementOfSeq
        <3>6. vf.entries[m].id \in Nat
            BY <3>5
        <3> HIDE DEF S
        <3> QED BY <2>1, <2>4, <3>1, <3>6
    <2> QED BY <2>3, <2>4
<1>5. ASSUME NEW k \in 1..mf.count
      PROVE  ms[k] \in MergeIndex /\ EntryOf(ms[k], mf) /\ ms[k].rank = k - 1
    <2>1. mf.entries[k] \in Nat \X Nat \X Nat
        BY <1>3 DEF MergesRead
    <2>2. /\ ms[k] = [left |-> mf.entries[k][1], right |-> mf.entries[k][2],
                      rank |-> k - 1, result |-> mf.entries[k][3]]
        BY DEF ms
    <2>3. k - 1 \in Nat /\ (k - 1) + 1 = k
        BY <1>1
    <2> QED BY <2>1, <2>2, <2>3 DEF MergeIndex, EntryOf
<1>6. ms \in Seq(MergeIndex) /\ Range(ms) = {ms[k] : k \in 1..mf.count}
    <2>1. DOMAIN ms = 1..mf.count /\ ms \in [1..mf.count -> MergeIndex]
        BY <1>5 DEF ms
    <2> DEFINE N == mf.count
    <2> HIDE DEF N
    <2>2. N \in Nat /\ ms \in [1..N -> MergeIndex]
        BY <1>1, <2>1 DEF N
    <2>3. ms \in Seq(MergeIndex)
        BY <2>2, SeqDef
    <2> QED BY <2>1, <2>3 DEF Range
<1>7. /\ t.merges \in Seq(MergeIndex) /\ Range(t.merges) = Range(ms)
      /\ \A j, k \in 1..Len(t.merges) : j < k => ~merge_less(t.merges[k], t.merges[j])
    BY <1>2, <1>6, SortedIs
<1>8. Len(t.merges) \in Nat /\ Range(t.merges) = {t.merges[k] : k \in 1..Len(t.merges)}
    BY <1>7, LenProperties DEF Range
<1>9. \A k \in 1..Len(t.merges) : EntryOf(t.merges[k], mf)
    <2> SUFFICES ASSUME NEW k \in 1..Len(t.merges) PROVE EntryOf(t.merges[k], mf)
        OBVIOUS
    <2>1. PICK j \in 1..mf.count : t.merges[k] = ms[j]
        BY <1>6, <1>7, <1>8
    <2> QED BY <1>5, <2>1
<1>10. \A j \in 1..mf.count : \E k \in 1..Len(t.merges) : t.merges[k].rank = j - 1
    <2> SUFFICES ASSUME NEW j \in 1..mf.count PROVE \E k \in 1..Len(t.merges) : t.merges[k].rank = j - 1
        OBVIOUS
    <2>1. PICK k \in 1..Len(t.merges) : t.merges[k] = ms[j]
        BY <1>6, <1>7, <1>8
    <2> QED BY <1>5, <2>1
<1>11. Searches(t, vf, mf)
    BY <1>3, <1>4, <1>7, <1>8, <1>9, <1>10 DEF Searches
<1> QED BY <1>11 DEF t, vf, mf

\* In a trained table no pair comes twice, and the result of a merge is not in it
\* nor in those before it.
LEMMA TrainedIs ==
    ASSUME NEW merges, MergesRead(merges), Trained(merges.entries), NEW j \in 1..merges.count,
           NEW k \in 1..merges.count
    PROVE  LET x == merges.entries[j]
               y == merges.entries[k] IN
           /\ x[1] = y[1] /\ x[2] = y[2] => j = k
           /\ j <= k => y[3] \notin {x[1], x[2]}
<1> DEFINE e(n) == merges.entries[n]
<1>1. /\ merges.count \in Nat /\ j \in DOMAIN merges.entries /\ k \in DOMAIN merges.entries
      /\ e(j) \in Nat \X Nat \X Nat /\ e(k) \in Nat \X Nat \X Nat
    BY DEF MergesRead
<1>2. /\ \A n \in 1..k : e(k)[3] \notin {e(n)[1], e(n)[2]} /\ (k # n => SubSeq(e(n), 1, 2) # SubSeq(e(k), 1, 2))
      /\ \A n \in 1..j : j # n => SubSeq(e(n), 1, 2) # SubSeq(e(j), 1, 2)
    BY <1>1 DEF Trained
<1>3. ASSUME NEW x \in Nat \X Nat \X Nat
      PROVE  SubSeq(x, 1, 2) = <<x[1], x[2]>>
    <2> DEFINE a == x[1]
               b == x[2]
               c == x[3]
    <2>1. x = <<a, b, c>> /\ a \in Nat /\ b \in Nat /\ c \in Nat
        OBVIOUS
    <2> HIDE DEF a, b, c
    <2> DEFINE s == <<a, b, c>>
               u == SubSeq(s, 1, 2)
    <2>3. s \in Seq(Nat) /\ Len(s) = 3 /\ s[1] = a /\ s[2] = b
        BY <2>1
    <2> HIDE DEF s
    <2>4. u \in Seq(Nat) /\ Len(u) = 2 /\ \A n \in 1..2 : u[n] = s[1 + n - 1]
        <3>1. \A n \in 1..2 : s[n] \in Nat
            BY <2>1, <2>3
        <3>2. 2 - 1 + 1 = 2 /\ 1 <= 2
            OBVIOUS
        <3> QED BY <2>3, <3>1, <3>2, SubSeqProperties
    <2> HIDE DEF u
    <2>5. u[1] = a /\ u[2] = b
        <3>1. 1 \in 1..2 /\ 2 \in 1..2 /\ 1 + 1 - 1 = 1 /\ 1 + 2 - 1 = 2
            OBVIOUS
        <3> QED BY <2>3, <2>4, <3>1
    <2>6. u = <<a, b>>
        BY <2>1, <2>4, <2>5
    <2>7. SubSeq(<<a, b, c>>, 1, 2) = <<a, b>>
        BY <2>6 DEF u, s
    <2> QED BY <2>1, <2>7 DEF a, b
<1>4. SubSeq(e(j), 1, 2) = <<e(j)[1], e(j)[2]>> /\ SubSeq(e(k), 1, 2) = <<e(k)[1], e(k)[2]>>
    BY <1>1, <1>3
<1> HIDE DEF e
<1>5. ASSUME e(j)[1] = e(k)[1], e(j)[2] = e(k)[2] PROVE j = k
    <2>1. SubSeq(e(j), 1, 2) = SubSeq(e(k), 1, 2)
        BY <1>4, <1>5
    <2>2. j \in 1..k \/ k \in 1..j
        BY <1>1
    <2> QED BY <1>2, <2>1, <2>2
<1>6. j <= k => j \in 1..k
    BY <1>1
<1> QED BY <1>2, <1>5, <1>6 DEF e

\* What the search says of two neighbours.
LEMMA Looked ==
    ASSUME NEW t, NEW vf, NEW mf, Searches(t, vf, mf), Trained(mf.entries), NEW x, NEW y
    PROVE  LET k == merge_lookup(t.merges, x, y)
               m == t.merges[k] IN
           /\ k # 0 => EntryOf(m, mf) /\ Match(x, y, mf.entries[m.rank + 1])
           /\ \A j \in 1..mf.count : Match(x, y, mf.entries[j]) => k # 0 /\ m.rank + 1 = j
<1> DEFINE k == merge_lookup(t.merges, x, y)
           m == t.merges[k]
           e(j) == mf.entries[j]
<1>1. Len(t.merges) \in Nat /\ MergesRead(mf)
    BY DEF Searches
<1>2. ASSUME k # 0
      PROVE  EntryOf(m, mf) /\ Match(x, y, e(m.rank + 1))
    <2>1. k \in 1..Len(t.merges) /\ m.left = x /\ m.right = y
        BY <1>1, <1>2, LookupFinds
    <2> HIDE DEF k
    <2>2. EntryOf(m, mf)
        BY <2>1 DEF Searches
    <2> QED BY <2>1, <2>2 DEF EntryOf, Match
<1>3. ASSUME NEW j \in 1..mf.count, Match(x, y, e(j))
      PROVE  k # 0 /\ m.rank + 1 = j
    <2>1. PICK n \in 1..Len(t.merges) : t.merges[n].rank = j - 1
        BY DEF Searches
    <2>2. \A h \in 1..Len(t.merges) : EntryOf(t.merges[h], mf)
        BY DEF Searches
    <2>3. (j - 1) + 1 = j
        BY <1>1 DEF MergesRead
    <2>4. t.merges[n].left = x /\ t.merges[n].right = y
        BY <1>3, <2>1, <2>2, <2>3 DEF EntryOf, Match
    <2>5. \A h \in 1..Len(t.merges) : t.merges[h].left \in Nat /\ t.merges[h].right \in Nat
        <3> SUFFICES ASSUME NEW h \in 1..Len(t.merges)
                     PROVE  t.merges[h].left \in Nat /\ t.merges[h].right \in Nat
            OBVIOUS
        <3> DEFINE r == t.merges[h].rank + 1
        <3>1. r \in 1..mf.count /\ t.merges[h].left = e(r)[1] /\ t.merges[h].right = e(r)[2]
            BY <2>2 DEF EntryOf
        <3> HIDE DEF r
        <3>2. e(r) \in Nat \X Nat \X Nat
            BY <1>1, <3>1 DEF MergesRead
        <3> QED BY <3>1, <3>2
    <2>6. \A a, b \in 1..Len(t.merges) : a < b => ~merge_less(t.merges[b], t.merges[a])
        BY DEF Searches
    <2>7. k # 0
        BY <1>1, <2>4, <2>5, <2>6, LookupComplete
    <2>8. EntryOf(m, mf) /\ Match(x, y, e(m.rank + 1))
        BY <1>2, <2>7
    <2> DEFINE r == m.rank + 1
    <2>9. r \in 1..mf.count /\ e(r)[1] = e(j)[1] /\ e(r)[2] = e(j)[2]
        BY <1>3, <2>8 DEF EntryOf, Match
    <2> HIDE DEF r
    <2>10. r = j
        BY <1>1, <2>9, TrainedIs
    <2> QED BY <2>7, <2>10 DEF r
<1> QED BY <1>2, <1>3

-----------------------------------------------------------------------------
(* A merge of the program. *)

TokenIds(s) == [k \in DOMAIN s |-> s[k].id]

\* The pair the program takes is the leftmost one of the first merge of the file
\* that has any; if it takes none, no merge has one.
LEMMA BestIs ==
    ASSUME NEW t, NEW vf, NEW mf, Searches(t, vf, mf), Trained(mf.entries),
           NEW new, Len(new) \in Nat, DOMAIN new = 1..Len(new)
    PROVE  LET s == TokenIds(new)
               b == bpe_best_merge(t, new)
               e(j) == mf.entries[j] IN
           /\ b = 0 => \A j \in 1..mf.count : \A k \in 1..Len(new) - 1 : ~Match(s[k], s[k + 1], e(j))
           /\ b # 0 =>
                /\ b \in 1..Len(new) - 1
                /\ \E r \in 1..mf.count :
                      /\ Match(s[b], s[b + 1], e(r))
                      /\ t.merges[merge_lookup(t.merges, s[b], s[b + 1])].result = e(r)[3]
                      /\ \A j \in 1..r - 1 : \A k \in 1..Len(new) - 1 : ~Match(s[k], s[k + 1], e(j))
                      /\ \A k \in 1..b - 1 : ~Match(s[k], s[k + 1], e(r))
<1> DEFINE s == TokenIds(new)
           N == Len(new)
           e(j) == mf.entries[j]
           M(n) == merge_lookup(t.merges, new[n].id, new[n + 1].id)
           Rank(n) == t.merges[M(n)].rank
           pairs == {n \in 1..N - 1 : M(n) # 0}
           best == {n \in pairs : \A j \in pairs : Rank(n) < Rank(j) \/ (Rank(n) = Rank(j) /\ n <= j)}
           b == bpe_best_merge(t, new)
<1>1. b = IF best = {} THEN 0 ELSE Min(best)
    BY DEF bpe_best_merge
<1>2. \A n \in 1..N - 1 : s[n] = new[n].id /\ s[n + 1] = new[n + 1].id
    <2>1. \A n \in 1..N - 1 : n \in 1..N /\ n + 1 \in 1..N
        OBVIOUS
    <2> QED BY <2>1 DEF TokenIds
<1>3. mf.count \in Nat
    BY DEF Searches, MergesRead
<1>4. ASSUME NEW n \in 1..N - 1
      PROVE  /\ n \in pairs => /\ Rank(n) \in Nat /\ Rank(n) + 1 \in 1..mf.count
                               /\ Match(s[n], s[n + 1], e(Rank(n) + 1))
                               /\ t.merges[M(n)].result = e(Rank(n) + 1)[3]
             /\ \A j \in 1..mf.count : Match(s[n], s[n + 1], e(j)) => n \in pairs /\ Rank(n) + 1 = j
    <2> DEFINE x == s[n]
               y == s[n + 1]
               k == merge_lookup(t.merges, x, y)
    <2>1. /\ k # 0 => EntryOf(t.merges[k], mf) /\ Match(x, y, e(t.merges[k].rank + 1))
          /\ \A j \in 1..mf.count : Match(x, y, e(j)) => k # 0 /\ t.merges[k].rank + 1 = j
        <3> HIDE DEF x, y
        <3> QED BY Looked
    <2>2. k = M(n)
        BY <1>2
    <2> HIDE DEF x, y, k, e
    <2>3. n \in pairs <=> k # 0
        BY <2>2
    <2> QED BY <2>1, <2>2, <2>3 DEF EntryOf, x, y, e
<1> HIDE DEF s, M, Rank, b
<1>5. pairs # {} => best # {}
    <2> SUFFICES ASSUME pairs # {} PROVE best # {}
        OBVIOUS
    <2> DEFINE R == {Rank(n) : n \in pairs}
    <2>1. R \subseteq Nat /\ R # {}
        BY <1>4
    <2>2. Min(R) \in R /\ \A x \in R : Min(R) <= x
        <3> HIDE DEF R
        <3> QED BY <2>1, MinOf
    <2> DEFINE low == Min(R)
               P == {n \in pairs : Rank(n) = low}
    <2>3. P \subseteq Nat /\ P # {}
        <3> HIDE DEF low
        <3>1. PICK n \in pairs : Rank(n) = low
            BY <2>2 DEF low
        <3> QED BY <3>1
    <2>4. Min(P) \in P /\ \A x \in P : Min(P) <= x
        <3> HIDE DEF P
        <3> QED BY <2>3, MinOf
    <2> DEFINE n == Min(P)
    <2>5. n \in pairs /\ Rank(n) = low
        BY <2>4
    <2>6. ASSUME NEW j \in pairs PROVE Rank(n) < Rank(j) \/ (Rank(n) = Rank(j) /\ n <= j)
        <3>1. Rank(j) \in R /\ low <= Rank(j)
            BY <2>2
        <3>2. Rank(j) = low => n <= j
            BY <2>4
        <3>3. Rank(j) \in Nat /\ low \in Nat
            BY <2>1, <2>2
        <3> HIDE DEF n, low, pairs
        <3> QED BY <2>5, <3>1, <3>2, <3>3
    <2> HIDE DEF n, pairs
    <2> QED BY <2>5, <2>6
<1>6. best \subseteq Nat \ {0} /\ best \subseteq pairs
    OBVIOUS
<1>7. best # {} => b \in best
    <2> HIDE DEF best
    <2> QED BY <1>1, <1>6, MinOf
<1>8. CASE b = 0
    <2>1. pairs = {}
        <3> HIDE DEF best, pairs
        <3> QED BY <1>5, <1>6, <1>7, <1>8
    <2>2. \A j \in 1..mf.count : \A k \in 1..N - 1 : ~Match(s[k], s[k + 1], e(j))
        <3> HIDE DEF pairs, e
        <3> QED BY <1>4, <2>1
    <2> QED BY <1>8, <2>2 DEF b, s
<1>9. CASE b # 0
    <2>1. b \in best
        <3> HIDE DEF best
        <3> QED BY <1>1, <1>7, <1>9
    <2>2. b \in pairs /\ b \in 1..N - 1
        BY <2>1
    <2>3. \A j \in pairs : Rank(b) < Rank(j) \/ (Rank(b) = Rank(j) /\ b <= j)
        BY <2>1
    <2> DEFINE r == Rank(b) + 1
    <2> HIDE DEF best, pairs, e
    <2>4. Rank(b) \in Nat /\ r \in 1..mf.count /\ Match(s[b], s[b + 1], e(r)) /\ t.merges[M(b)].result = e(r)[3]
        BY <1>4, <2>2
    <2>5. ASSUME NEW j \in 1..r - 1, NEW k \in 1..N - 1 PROVE ~Match(s[k], s[k + 1], e(j))
        <3> SUFFICES ASSUME Match(s[k], s[k + 1], e(j)) PROVE FALSE
            OBVIOUS
        <3>1. j \in 1..mf.count
            BY <1>3, <2>4
        <3>2. k \in pairs /\ Rank(k) + 1 = j
            BY <1>4, <3>1
        <3>3. Rank(b) <= Rank(k) /\ Rank(k) \in Nat
            BY <1>4, <2>3, <2>4, <3>2
        <3> QED BY <2>4, <3>2, <3>3
    <2>6. ASSUME NEW k \in 1..b - 1 PROVE ~Match(s[k], s[k + 1], e(r))
        <3> SUFFICES ASSUME Match(s[k], s[k + 1], e(r)) PROVE FALSE
            OBVIOUS
        <3>1. k \in 1..N - 1 /\ k < b
            BY <2>2
        <3>2. k \in pairs /\ Rank(k) + 1 = r
            BY <1>4, <2>4, <3>1
        <3>3. Rank(k) = Rank(b)
            BY <1>4, <2>4, <3>1, <3>2
        <3> QED BY <2>2, <2>3, <2>4, <3>1, <3>2, <3>3
    <2>7. M(b) = merge_lookup(t.merges, s[b], s[b + 1])
        BY <1>2, <2>2 DEF M
    <2> HIDE DEF r
    <2>8. /\ Match(s[b], s[b + 1], e(r))
          /\ t.merges[merge_lookup(t.merges, s[b], s[b + 1])].result = e(r)[3]
          /\ \A j \in 1..r - 1 : \A k \in 1..N - 1 : ~Match(s[k], s[k + 1], e(j))
          /\ \A k \in 1..b - 1 : ~Match(s[k], s[k + 1], e(r))
        BY <2>4, <2>5, <2>6, <2>7
    <2> QED BY <1>9, <2>2, <2>4, <2>8 DEF b, s, e
<1> QED BY <1>8, <1>9

\* The ids of tokens that have some.
LEMMA TokenIdsIs ==
    ASSUME NEW s, Len(s) \in Nat, DOMAIN s = 1..Len(s), \A k \in 1..Len(s) : s[k].id \in Nat
    PROVE  /\ TokenIds(s) \in Seq(Nat) /\ Len(TokenIds(s)) = Len(s)
           /\ \A k \in 1..Len(s) : TokenIds(s)[k] = s[k].id
<1> DEFINE N == Len(s)
           u == TokenIds(s)
<1>1. u = [k \in 1..N |-> s[k].id]
    BY DEF TokenIds
<1> HIDE DEF N, u
<1>2. N \in Nat /\ u \in [1..N -> Nat]
    BY <1>1 DEF N
<1>3. u \in Seq(Nat)
    BY <1>2, SeqDef
<1>4. Len(u) = N
    BY <1>2, <1>3, LenProperties
<1> QED BY <1>1, <1>3, <1>4 DEF N, u

\* With no pair left a word is its own BPE; a merge does not change its BPE.
MergesSoundly(t, mf, s) ==
    LET b == bpe_best_merge(t, s)
        u == TokenIds(MergeNodes(t, s, b)) IN
    /\ b = 0 => Bpe(mf, TokenIds(s)) = TokenIds(s)
    /\ b # 0 => u \in Seq(Nat) /\ Bpe(mf, u) = Bpe(mf, TokenIds(s))

\* BPE makes of a word what it made of it before a merge, and when there is none
\* left, it is what it makes of it.
LEMMA MergeStep ==
    ASSUME NEW t, NEW vf, NEW mf, Searches(t, vf, mf), Trained(mf.entries),
           NEW I, NEW T, NEW s \in Seq([id : I, at : T]), TokenIds(s) \in Seq(Nat)
    PROVE  MergesSoundly(t, mf, s)
<1> DEFINE b == bpe_best_merge(t, s)
           new == MergeNodes(t, s, b)
           x == TokenIds(s)
           u == TokenIds(new)
           N == Len(s)
           e(j) == mf.entries[j]
<1>1. N \in Nat /\ DOMAIN s = 1..N /\ MergesRead(mf) /\ mf.count \in Nat
    BY LenProperties DEF Searches, MergesRead
<1>2. x \in Seq(Nat) /\ Len(x) = N /\ \A k \in 1..N : x[k] = s[k].id /\ x[k] \in Nat
    <2>1. DOMAIN x = 1..N /\ \A k \in 1..N : x[k] = s[k].id
        BY <1>1 DEF TokenIds
    <2> HIDE DEF x, N
    <2>2. x \in Seq(Nat) /\ Len(x) = N
        BY <1>1, <2>1, LenProperties DEF x
    <2>3. \A k \in 1..N : x[k] \in Nat
        BY <2>2, ElementOfSeq
    <2> QED BY <2>1, <2>2, <2>3
<1>3. CASE b = 0
    <2>1. \A j \in 1..mf.count : \A k \in 1..N - 1 : ~Match(x[k], x[k + 1], e(j))
        BY <1>1, <1>3, BestIs
    <2> HIDE DEF x, N, b
    <2>2. \A j \in 1..mf.count : Free(x, e(j))
        BY <1>2, <2>1 DEF Free
    <2>3. Bpe(mf, x) = x
        BY <1>1, <1>2, <2>2, BpeNone
    <2> QED BY <1>3, <2>3 DEF MergesSoundly, x, b
<1>4. CASE b # 0
    <2>1. /\ b \in 1..N - 1
          /\ \E r \in 1..mf.count :
                /\ Match(x[b], x[b + 1], e(r))
                /\ t.merges[merge_lookup(t.merges, x[b], x[b + 1])].result = e(r)[3]
                /\ \A j \in 1..r - 1 : \A k \in 1..N - 1 : ~Match(x[k], x[k + 1], e(j))
                /\ \A k \in 1..b - 1 : ~Match(x[k], x[k + 1], e(r))
        BY <1>1, <1>4, BestIs
    <2> HIDE DEF b
    <2>2. PICK r \in 1..mf.count :
                /\ Match(x[b], x[b + 1], e(r))
                /\ t.merges[merge_lookup(t.merges, x[b], x[b + 1])].result = e(r)[3]
                /\ \A j \in 1..r - 1 : \A k \in 1..N - 1 : ~Match(x[k], x[k + 1], e(j))
                /\ \A k \in 1..b - 1 : ~Match(x[k], x[k + 1], e(r))
        BY <2>1
    <2> DEFINE v == t.merges[merge_lookup(t.merges, s[b].id, s[b + 1].id)].result
    <2>3. new \in Seq([id : I \cup {v}, at : T]) /\ Fused(new, s, b, v)
        <3> HIDE DEF v
        <3> QED BY <1>4, Merged DEF v, b
    <2>4. v = e(r)[3] /\ v \in Nat
        <3>1. b \in 1..N /\ b + 1 \in 1..N
            BY <1>1, <2>1
        <3>2. v = e(r)[3]
            BY <1>2, <2>2, <3>1
        <3>3. e(r) \in Nat \X Nat \X Nat
            BY <1>1 DEF MergesRead
        <3> QED BY <3>2, <3>3
    <2> HIDE DEF v, new, x, N, e
    <2>5. Len(new) = N - 1 /\ DOMAIN new = 1..Len(new) /\ Len(new) \in Nat
        BY <2>3, LenProperties DEF Fused, N
    <2>6. ASSUME NEW k \in 1..N - 1
          PROVE  new[k].id = (IF k < b THEN x[k] ELSE IF k = b THEN v ELSE x[k + 1]) /\ new[k].id \in Nat
        <3>1. k \in 1..N /\ k + 1 \in 1..N /\ b \in Int /\ (k < b \/ k = b \/ k > b)
            BY <1>1, <2>1
        <3>2. CASE k < b
            <4>1. new[k] = s[k]
                BY <2>3, <3>2 DEF Fused, N
            <4> QED BY <1>2, <3>1, <3>2, <4>1
        <3>3. CASE k = b
            <4>1. new[k] = [id |-> v, at |-> s[b].at]
                BY <2>3, <3>3 DEF Fused, N
            <4>2. ~(k < b)
                BY <3>1, <3>3
            <4> QED BY <2>4, <3>3, <4>1, <4>2
        <3>4. CASE k > b
            <4>1. new[k] = s[k + 1]
                BY <2>3, <3>4 DEF Fused, N
            <4>2. ~(k < b) /\ k # b
                BY <3>1, <3>4
            <4> QED BY <1>2, <3>1, <4>1, <4>2
        <3> QED BY <3>1, <3>2, <3>3, <3>4
    <2>7. u \in Seq(Nat) /\ Len(u) = N - 1 /\ \A k \in 1..N - 1 : u[k] = new[k].id
        <3>1. \A k \in 1..Len(new) : new[k].id \in Nat
            BY <2>5, <2>6
        <3> QED BY <2>5, <3>1, TokenIdsIs
    <2> HIDE DEF u
    <2>8. Contracted(u, x, b, e(r)[3])
        BY <1>2, <2>4, <2>6, <2>7 DEF Contracted
    <2>9. \A j \in 1..r - 1 : Free(x, e(j))
        BY <1>2, <2>2 DEF Free
    <2>10. \A j \in 1..r : e(r)[3] \notin {e(j)[1], e(j)[2]}
        <3> SUFFICES ASSUME NEW j \in 1..r PROVE e(r)[3] \notin {e(j)[1], e(j)[2]}
            OBVIOUS
        <3>1. j \in 1..mf.count /\ j <= r
            BY <1>1
        <3> QED BY <1>1, <3>1, TrainedIs DEF e
    <2>11. Bpe(mf, u) = Bpe(mf, x)
        <3>1. b \in 1..Len(x) - 1
            BY <1>2, <2>1
        <3>2. \A j \in 1..r - 1 : Free(x, mf.entries[j])
            BY <2>9 DEF e
        <3>3. \A j \in 1..r : mf.entries[r][3] \notin {mf.entries[j][1], mf.entries[j][2]}
            BY <2>10 DEF e
        <3>4. /\ Match(x[b], x[b + 1], mf.entries[r])
              /\ \A k \in 1..b - 1 : ~Match(x[k], x[k + 1], mf.entries[r])
              /\ Contracted(u, x, b, mf.entries[r][3])
            BY <2>2, <2>8 DEF e
        <3>5. MergesRead(mf) /\ x \in Seq(Nat) /\ r \in 1..mf.count
            BY <1>1, <1>2
        <3> HIDE DEF new
        <3> QED BY <3>1, <3>2, <3>3, <3>4, <3>5, BpeFirst, ZenonT(60)
    <2> QED BY <1>4, <2>7, <2>11 DEF MergesSoundly, u, new, x, b
<1> QED BY <1>3, <1>4

-----------------------------------------------------------------------------
(* The words of a text. *)

Ending(text, k) == {w \in Words(text) : w[2] = k}

\* A word takes all the letters between two blanks.
LEMMA WordsAre ==
    ASSUME NEW text \in Seq(Byte), NEW w \in Words(text)
    PROVE  LET N == Len(text) IN
           /\ w = <<w[1], w[2]>> /\ w[1] \in 1..N /\ w[2] \in 1..N /\ w[1] <= w[2]
           /\ w[1] = 1 \/ text[w[1] - 1] \in Whitespace
           /\ w[2] = N \/ text[w[2] + 1] \in Whitespace
           /\ \A k \in w[1]..w[2] : text[k] \notin Whitespace
<1> DEFINE N == Len(text)
           Blank(k) == k \in {0, N + 1} \/ text[k] \in Whitespace
<1>1. N \in Nat /\ DOMAIN text = 1..N
    BY LenProperties
<1>2. /\ w \in (DOMAIN text) \X (DOMAIN text) /\ w[1] <= w[2] /\ Blank(w[1] - 1) /\ Blank(w[2] + 1)
      /\ \A k \in w[1]..w[2] : ~Blank(k)
    BY DEF Words
<1>3. w = <<w[1], w[2]>> /\ w[1] \in 1..N /\ w[2] \in 1..N
    BY <1>1, <1>2
<1>4. (w[1] - 1 = 0 => w[1] = 1) /\ w[1] - 1 # N + 1 /\ (w[2] + 1 = N + 1 => w[2] = N) /\ w[2] + 1 # 0
    BY <1>1, <1>3
<1> HIDE DEF N
<1> QED BY <1>2, <1>3, <1>4 DEF N

\* The word that begins at a is the only one that ends in it.
LEMMA OneWord ==
    ASSUME NEW text \in Seq(Byte), NEW a \in 1..Len(text), text[a] \notin Whitespace,
           a = 1 \/ text[a - 1] \in Whitespace
    PROVE  LET end == WordEnd(text, a) IN
           /\ end \in a + 1..Len(text) + 1 /\ (end = Len(text) + 1 \/ text[end] \in Whitespace)
           /\ Ending(text, end - 1) = {<<a, end - 1>>}
           /\ \A k \in a..end - 2 : Ending(text, k) = {}
<1> DEFINE N == Len(text)
           end == WordEnd(text, a)
           Ends == {k \in a..N : text[k] \in Whitespace} \cup {N + 1}
           Blank(k) == k \in {0, N + 1} \/ text[k] \in Whitespace
           W == <<a, end - 1>>
<1>1. N \in Nat /\ DOMAIN text = 1..N
    BY LenProperties
<1>2. /\ end \in a..N + 1 /\ a < end
      /\ \A k \in a..end - 1 : k \in 1..N /\ text[k] \notin Whitespace
    BY WordEndIs
<1>3. end = N + 1 \/ text[end] \in Whitespace
    <2>1. end = Min(Ends)
        BY DEF WordEnd
    <2>2. Ends \subseteq Nat /\ Ends # {}
        BY <1>1
    <2> HIDE DEF Ends, end
    <2>3. end \in Ends
        BY <2>1, <2>2, MinOf
    <2> QED BY <2>3 DEF Ends
<1> HIDE DEF end, N
<1>4. end \in a + 1..N + 1 /\ end - 1 \in a..N /\ (end - 1) + 1 = end
    BY <1>1, <1>2 DEF N
<1>5. W \in Words(text)
    <2>1. a \in 1..N /\ end - 1 \in 1..N /\ a <= end - 1
        BY <1>1, <1>4 DEF N
    <2>2. Blank(a - 1)
        <3>1. a = 1 => a - 1 = 0
            OBVIOUS
        <3> QED BY <3>1
    <2>3. Blank((end - 1) + 1)
        BY <1>3, <1>4
    <2>4. \A k \in a..end - 1 : ~Blank(k)
        <3>1. \A k \in 1..N : k \notin {0, N + 1}
            BY <1>1
        <3> QED BY <1>2, <3>1
    <2>5. W \in (DOMAIN text) \X (DOMAIN text) /\ W[1] = a /\ W[2] = end - 1
        BY <1>1, <2>1
    <2> HIDE DEF W
    <2>6. \A k \in W[1]..W[2] : ~Blank(k)
        BY <2>4, <2>5
    <2> QED BY <2>1, <2>2, <2>3, <2>5, <2>6 DEF Words, N
<1>6. ASSUME NEW w \in Words(text), w[2] \in a..end - 1
      PROVE  w = W
    <2>1. /\ w = <<w[1], w[2]>> /\ w[1] \in 1..N /\ w[2] \in 1..N /\ w[1] <= w[2]
          /\ w[1] = 1 \/ text[w[1] - 1] \in Whitespace
          /\ w[2] = N \/ text[w[2] + 1] \in Whitespace
          /\ \A k \in w[1]..w[2] : text[k] \notin Whitespace
        BY WordsAre DEF N
    <2>2. w[2] = end - 1
        <3> SUFFICES ASSUME w[2] # end - 1 PROVE FALSE
            OBVIOUS
        <3>1. w[2] + 1 \in a..end - 1 /\ w[2] # N
            BY <1>1, <1>4, <1>6, <2>1 DEF N
        <3> QED BY <1>2, <2>1, <3>1
    <2>3. w[1] = a
        <3>1. CASE w[1] < a
            <4>1. a - 1 \in w[1]..w[2] /\ a # 1
                BY <1>1, <1>4, <1>6, <2>1, <3>1 DEF N
            <4> QED BY <2>1, <4>1
        <3>2. CASE w[1] > a
            <4>1. w[1] - 1 \in a..end - 1 /\ w[1] # 1
                BY <1>1, <1>4, <2>1, <2>2, <3>2 DEF N
            <4> QED BY <1>2, <2>1, <4>1
        <3> QED BY <1>1, <2>1, <3>1, <3>2 DEF N
    <2> QED BY <2>1, <2>2, <2>3
<1>7. Ending(text, end - 1) = {W}
    <2>1. W[2] = end - 1 /\ end - 1 \in a..end - 1
        BY <1>1, <1>4 DEF N
    <2> HIDE DEF W
    <2> QED BY <1>5, <1>6, <2>1 DEF Ending
<1>8. ASSUME NEW k \in a..end - 2 PROVE Ending(text, k) = {}
    <2>1. k \in a..end - 1 /\ k # end - 1
        BY <1>1, <1>4 DEF N
    <2>2. W[2] = end - 1
        OBVIOUS
    <2> HIDE DEF W
    <2> QED BY <1>6, <2>1, <2>2 DEF Ending
<1> QED BY <1>3, <1>4, <1>7, <1>8 DEF end, N

\* No word ends in whitespace.
LEMMA BlankEndsNone ==
    ASSUME NEW text \in Seq(Byte), NEW k, text[k] \in Whitespace
    PROVE  Ending(text, k) = {}
<1> SUFFICES ASSUME NEW w \in Words(text), w[2] = k PROVE FALSE
    BY DEF Ending
<1>1. w[2] \in w[1]..w[2]
    <2>1. w[1] \in 1..Len(text) /\ w[2] \in 1..Len(text) /\ w[1] <= w[2]
        BY WordsAre
    <2> QED BY <2>1
<1> QED BY <1>1, WordsAre

-----------------------------------------------------------------------------
(* What is due for a text. *)

\* The letters of a word, as ids.
LettersRead(t, in, w) ==
    LET l == Letters(in, w) IN
    /\ l \in Seq(Nat) /\ Len(l) = w[2] - w[1] + 2
    /\ l[1] = ht_lookup(t, ByteString[32])
    /\ \A k \in 1..w[2] - w[1] + 1 : l[k + 1] = ht_lookup(t, ByteString[in.source[w[1] + k - 1]])

LEMMA LettersTyped ==
    ASSUME NEW t, NEW in, Searches(t, in.vocab, in.merges), in.source \in Seq(Byte), NEW w \in Words(in.source)
    PROVE  LettersRead(t, in, w)
<1> DEFINE n == w[2] - w[1] + 1
           h == IdIn(in.vocab, SpaceMarker)
           e(k) == IdIn(in.vocab, ByteString[in.source[w[1] + k - 1]])
           rest == [k \in 1..n |-> e(k)]
<1>1. n \in Nat
    <2>1. w[1] \in 1..Len(in.source) /\ w[2] \in 1..Len(in.source) /\ w[1] <= w[2]
        BY WordsAre
    <2> QED BY <2>1
<1>2. h \in Nat /\ h = ht_lookup(t, ByteString[32])
    BY SpaceLetter DEF Searches
<1>3. \A k \in 1..n : e(k) \in Nat /\ e(k) = ht_lookup(t, ByteString[in.source[w[1] + k - 1]])
    BY DEF Searches
<1>4. Letters(in, w) = <<h>> \o rest
    BY DEF Letters
<1>5. n + 1 = w[2] - w[1] + 2
    <2>1. w[1] \in 1..Len(in.source) /\ w[2] \in 1..Len(in.source)
        BY WordsAre
    <2> QED BY <2>1
<1> HIDE DEF n, h, e
<1>6. rest \in Seq(Nat) /\ Len(rest) = n /\ \A k \in 1..n : rest[k] = e(k)
    <2>1. rest \in [1..n -> Nat]
        BY <1>3
    <2>2. \A k \in 1..n : rest[k] = e(k)
        OBVIOUS
    <2> HIDE DEF rest
    <2>3. rest \in Seq(Nat)
        BY <1>1, <2>1, SeqDef
    <2>4. Len(rest) = n
        BY <1>1, <2>1, <2>3, LenProperties
    <2> QED BY <2>2, <2>3, <2>4
<1> HIDE DEF rest
<1>7. <<h>> \in Seq(Nat) /\ Len(<<h>>) = 1 /\ <<h>>[1] = h
    BY <1>2
<1> DEFINE l == <<h>> \o rest
<1>8. /\ l \in Seq(Nat) /\ Len(l) = 1 + n
      /\ \A k \in 1..1 + n : l[k] = IF k <= 1 THEN <<h>>[k] ELSE rest[k - 1]
    BY <1>6, <1>7, ConcatProperties
<1>9. l[1] = h
    <2>1. 1 \in 1..1 + n /\ 1 <= 1
        BY <1>1
    <2> HIDE DEF l
    <2> QED BY <1>7, <1>8, <2>1
<1>10. ASSUME NEW k \in 1..n PROVE l[k + 1] = e(k)
    <2>1. k + 1 \in 1..1 + n /\ ~(k + 1 <= 1) /\ (k + 1) - 1 = k
        BY <1>1
    <2> HIDE DEF l
    <2> QED BY <1>6, <1>8, <2>1
<1>11. 1 + n = n + 1
    BY <1>1
<1> HIDE DEF l
<1>12. Letters(in, w) = l
    BY <1>4 DEF l
<1> QED BY <1>2, <1>3, <1>5, <1>8, <1>9, <1>10, <1>11, <1>12 DEF n, LettersRead

\* Two sequences of ids, and three.
LEMMA JoinedIs ==
    \A u, v \in Seq(Nat) :
        /\ u \o v \in Seq(Nat) /\ Len(u \o v) = Len(u) + Len(v) /\ Len(u) \in Nat /\ Len(v) \in Nat
        /\ \A k \in 1..Len(u) + Len(v) : (u \o v)[k] = IF k <= Len(u) THEN u[k] ELSE v[k - Len(u)]
<1> SUFFICES ASSUME NEW u \in Seq(Nat), NEW v \in Seq(Nat)
             PROVE  /\ u \o v \in Seq(Nat) /\ Len(u \o v) = Len(u) + Len(v)
                    /\ Len(u) \in Nat /\ Len(v) \in Nat
                    /\ \A k \in 1..Len(u) + Len(v) :
                          (u \o v)[k] = IF k <= Len(u) THEN u[k] ELSE v[k - Len(u)]
    OBVIOUS
<1> QED BY ConcatProperties, LenProperties

LEMMA Regrouping == \A u, v, w \in Seq(Nat) : (u \o v) \o w = u \o (v \o w)
<1> SUFFICES ASSUME NEW u \in Seq(Nat), NEW v \in Seq(Nat), NEW w \in Seq(Nat)
             PROVE  (u \o v) \o w = u \o (v \o w)
    OBVIOUS
<1> QED BY ConcatAssociative, SMTT(30)

\* Byte by byte: nothing, or the word that ends there.
Adds(in, k) == Bpe(in.merges, Letters(in, CHOOSE w \in Ending(in.source, k) : TRUE))
UpTo(f, in) ==
    /\ f \in [0..Len(in.source) -> Seq(Nat)] /\ f[0] = <<>>
    /\ \A k \in 1..Len(in.source) :
          f[k] = IF Ending(in.source, k) = {} THEN f[k - 1] ELSE f[k - 1] \o Adds(in, k)

LEMMA BpeUpToIs ==
    ASSUME NEW t, NEW in, Searches(t, in.vocab, in.merges), in.source \in Seq(Byte)
    PROVE  UpTo(BpeUpTo(in), in)
<1> DEFINE N == Len(in.source)
           V == Seq(Nat)
           E(k) == Ending(in.source, k)
           step == [n \in 1..N |-> [x \in V |-> IF E(n) = {} THEN x ELSE x \o Adds(in, n)]]
           Eq(g) == g = [k \in 0..N |-> IF k = 0 THEN <<>>
                                        ELSE IF E(k) = {} THEN g[k - 1] ELSE g[k - 1] \o Adds(in, k)]
           upto == CHOOSE g : Eq(g)
<1>1. N \in Nat /\ MergesRead(in.merges)
    BY LenProperties DEF Searches
<1>2. BpeUpTo(in) = upto
    BY DEF BpeUpTo, Ending, Adds
<1>3. \A k \in 1..N : E(k) # {} => Adds(in, k) \in V
    <2> SUFFICES ASSUME NEW k \in 1..N, E(k) # {} PROVE Adds(in, k) \in V
        OBVIOUS
    <2> DEFINE w == CHOOSE w \in E(k) : TRUE
    <2>1. w \in Words(in.source)
        BY DEF Ending
    <2>2. Adds(in, k) = Bpe(in.merges, Letters(in, w))
        BY DEF Adds
    <2> HIDE DEF w
    <2>3. Letters(in, w) \in V
        BY <2>1, LettersTyped DEF LettersRead
    <2> QED BY <1>1, <2>2, <2>3, BpeTyped
<1> HIDE DEF N, E
<1>4. step \in Steps(N, V)
    <2>1. \A n \in 1..N, x \in V : (IF E(n) = {} THEN x ELSE x \o Adds(in, n)) \in V
        <3> SUFFICES ASSUME NEW n \in 1..N, NEW x \in V PROVE (IF E(n) = {} THEN x ELSE x \o Adds(in, n)) \in V
            OBVIOUS
        <3>1. E(n) # {} => x \o Adds(in, n) \in V
            BY <1>3, ConcatProperties
        <3> QED BY <3>1
    <2> HIDE DEF V
    <2> QED BY <2>1 DEF Steps
<1>5. PICK f : Recursion(f, N, V, <<>>, step)
    <2> HIDE DEF step, V
    <2>1. <<>> \in V
        BY EmptySeq DEF V
    <2> QED BY <1>1, <1>4, <2>1, RecursionUpTo
<1>6. /\ f \in [0..N -> V] /\ f[0] = <<>>
      /\ \A n \in 1..N : f[n] = IF E(n) = {} THEN f[n - 1] ELSE f[n - 1] \o Adds(in, n)
    <2> HIDE DEF V
    <2>1. f \in [0..N -> V] /\ f[0] = <<>> /\ \A n \in 1..N : f[n] = step[n][f[n - 1]]
        BY <1>5 DEF Recursion
    <2>2. \A n \in 1..N : n - 1 \in 0..N
        BY <1>1
    <2>3. \A n \in 1..N : f[n - 1] \in V
        BY <2>1, <2>2
    <2> QED BY <2>1, <2>3
<1> DEFINE body(g, k) == IF k = 0 THEN <<>> ELSE IF E(k) = {} THEN g[k - 1] ELSE g[k - 1] \o Adds(in, k)
<1>7. Eq(f)
    <2>1. ASSUME NEW k \in 0..N PROVE f[k] = body(f, k)
        <3>1. CASE k = 0
            BY <1>6, <3>1
        <3>2. CASE k # 0
            <4>1. k \in 1..N
                BY <1>1, <3>2
            <4> HIDE DEF V
            <4> QED BY <1>6, <3>2, <4>1
        <3> QED BY <3>1, <3>2
    <2> HIDE DEF V, body
    <2>2. f = [k \in 0..N |-> f[k]]
        BY <1>6
    <2>3. f = [k \in 0..N |-> body(f, k)]
        BY <2>1, <2>2
    <2> QED BY <2>3 DEF body
<1>8. Eq(upto)
    <2> HIDE DEF Eq
    <2> QED BY <1>7
<1> HIDE DEF upto
<1>9. /\ upto[0] = <<>>
      /\ \A k \in 1..N : upto[k] = IF E(k) = {} THEN upto[k - 1] ELSE upto[k - 1] \o Adds(in, k)
    <2>1. upto = [k \in 0..N |-> body(upto, k)]
        BY <1>8
    <2>2. 0 \in 0..N /\ \A k \in 1..N : k \in 0..N /\ k # 0
        BY <1>1
    <2>3. \A k \in 0..N : upto[k] = body(upto, k)
        <3> HIDE DEF body
        <3> QED BY <2>1
    <2>4. upto[0] = <<>>
        BY <2>2, <2>3
    <2>5. ASSUME NEW k \in 1..N
          PROVE  upto[k] = IF E(k) = {} THEN upto[k - 1] ELSE upto[k - 1] \o Adds(in, k)
        <3>1. upto[k] = body(upto, k) /\ k # 0
            <4> HIDE DEF body
            <4> QED BY <2>2, <2>3
        <3> QED BY <3>1
    <2> QED BY <2>4, <2>5
<1> DEFINE S == {n \in 0..N : upto[n] \in V}
<1>10. 0..N \subseteq S
    <2>1. 0 \in S
        <3>1. <<>> \in V
            BY EmptySeq
        <3> HIDE DEF V
        <3> QED BY <1>1, <1>9, <3>1
    <2>2. ASSUME NEW n \in 0..N - 1, n \in S PROVE n + 1 \in S
        <3>1. n + 1 \in 1..N /\ n + 1 \in 0..N /\ (n + 1) - 1 = n
            BY <1>1
        <3>2. upto[n + 1] = IF E(n + 1) = {} THEN upto[n] ELSE upto[n] \o Adds(in, n + 1)
            BY <1>9, <3>1
        <3>3. E(n + 1) # {} => upto[n] \o Adds(in, n + 1) \in V
            <4>1. upto[n] \in V
                BY <2>2
            <4> QED BY <1>3, <3>1, <4>1, ConcatProperties
        <3>4. upto[n + 1] \in V
            BY <2>2, <3>2, <3>3
        <3> HIDE DEF V
        <3> QED BY <3>1, <3>4
    <2> HIDE DEF S
    <2> QED BY <1>1, <2>1, <2>2, UpToInduction
<1>11. upto \in [0..N -> V]
    <2>1. upto = [k \in 0..N |-> upto[k]]
        BY <1>8
    <2> HIDE DEF V
    <2> QED BY <1>10, <2>1
<1> QED BY <1>2, <1>9, <1>11 DEF UpTo, N, E

\* Where no word ends nothing is added.
LEMMA UpToSame ==
    ASSUME NEW in, in.source \in Seq(Byte), NEW f, UpTo(f, in), NEW j \in 0..Len(in.source),
           NEW k \in j..Len(in.source), \A m \in j + 1..k : Ending(in.source, m) = {}
    PROVE  f[k] = f[j]
<1> DEFINE S == {n \in 0..k - j : f[j + n] = f[j]}
<1>1. Len(in.source) \in Nat
    BY LenProperties
<1>2. 0 \in S
    BY <1>1
<1>3. ASSUME NEW n \in 0..(k - j) - 1, n \in S PROVE n + 1 \in S
    <2>1. /\ n + 1 \in 0..k - j /\ j + (n + 1) \in j + 1..k /\ j + (n + 1) \in 1..Len(in.source)
          /\ (j + (n + 1)) - 1 = j + n
        BY <1>1
    <2>2. f[j + (n + 1)] = f[j + n]
        BY <2>1 DEF UpTo
    <2> QED BY <1>3, <2>1, <2>2
<1> HIDE DEF S
<1>4. k - j \in Nat /\ k - j \in 0..k - j /\ j + (k - j) = k
    BY <1>1
<1>5. k - j \in S
    BY <1>2, <1>3, <1>4, UpToInduction
<1> QED BY <1>4, <1>5 DEF S

\* From one byte to a later one, the identifiers due only grow at the end.
Grows(f, N) == \A j \in 0..N : \A k \in j..N : \E x \in Seq(Nat) : f[k] = f[j] \o x

LEMMA UpToGrows ==
    ASSUME NEW t, NEW in, Searches(t, in.vocab, in.merges), in.source \in Seq(Byte)
    PROVE  Grows(BpeUpTo(in), Len(in.source))
<1> SUFFICES ASSUME NEW j \in 0..Len(in.source), NEW k \in j..Len(in.source)
             PROVE  \E x \in Seq(Nat) : BpeUpTo(in)[k] = BpeUpTo(in)[j] \o x
    BY DEF Grows
<1> DEFINE f == BpeUpTo(in)
           N == Len(in.source)
           S == {n \in 0..k - j : \E x \in Seq(Nat) : f[j + n] = f[j] \o x}
<1>1. N \in Nat /\ UpTo(f, in)
    BY LenProperties, BpeUpToIs
<1> HIDE DEF f
<1>2. 0 \in S
    <2>1. f[j] \in Seq(Nat)
        BY <1>1 DEF UpTo
    <2>2. f[j] \o <<>> = f[j] /\ <<>> \in Seq(Nat)
        BY <2>1, ConcatEmptySeq, EmptySeq
    <2>3. j + 0 = j /\ 0 \in 0..k - j
        BY <1>1
    <2> QED BY <2>2, <2>3
<1>3. ASSUME NEW n \in 0..(k - j) - 1, n \in S PROVE n + 1 \in S
    <2> DEFINE m == j + (n + 1)
    <2>1. /\ n + 1 \in 0..k - j /\ m \in 1..N /\ m \in 0..N /\ m - 1 = j + n /\ m - 1 \in 0..N
        BY <1>1
    <2> HIDE DEF m, N
    <2>2. PICK x \in Seq(Nat) : f[m - 1] = f[j] \o x
        BY <1>3, <2>1
    <2>3. CASE Ending(in.source, m) = {}
        <3>1. f[m] = f[j] \o x
            BY <1>1, <2>1, <2>2, <2>3 DEF UpTo, N
        <3> QED BY <2>1, <3>1 DEF m
    <2>4. CASE Ending(in.source, m) # {}
        <3> DEFINE y == Adds(in, m)
        <3>1. f[m] = (f[j] \o x) \o y
            BY <1>1, <2>1, <2>2, <2>4 DEF UpTo, N
        <3>2. y \in Seq(Nat)
            <4> DEFINE w == CHOOSE w \in Ending(in.source, m) : TRUE
            <4>1. w \in Words(in.source)
                BY <2>4 DEF Ending
            <4>2. y = Bpe(in.merges, Letters(in, w))
                BY DEF Adds
            <4> HIDE DEF w
            <4>3. Letters(in, w) \in Seq(Nat) /\ MergesRead(in.merges)
                BY <4>1, LettersTyped DEF LettersRead, Searches
            <4> QED BY <4>2, <4>3, BpeTyped
        <3> HIDE DEF y
        <3>3. f[j] \in Seq(Nat)
            BY <1>1 DEF UpTo
        <3>4. x \o y \in Seq(Nat) /\ (f[j] \o x) \o y = f[j] \o (x \o y)
            <4> DEFINE g == f[j]
            <4>1. g \in Seq(Nat)
                BY <3>3
            <4> HIDE DEF g
            <4>2. x \o y \in Seq(Nat)
                BY <3>2, ConcatProperties
            <4>3. (g \o x) \o y = g \o (x \o y)
                BY <3>2, <4>1, Regrouping
            <4> QED BY <4>2, <4>3 DEF g
        <3> QED BY <2>1, <3>1, <3>4 DEF m
    <2> QED BY <2>3, <2>4
<1>4. k - j \in Nat /\ k - j \in 0..k - j /\ j + (k - j) = k
    BY <1>1
<1> HIDE DEF S, N
<1>5. k - j \in S
    BY <1>2, <1>3, <1>4, UpToInduction
<1> QED BY <1>4, <1>5 DEF S, f

-----------------------------------------------------------------------------
(* The word that is collected. *)

\* Up to the next word there are only blanks.
LEMMA BlanksBefore ==
    ASSUME NEW text \in Seq(Byte), NEW q \in Nat \ {0}
    PROVE  LET a == WordStart(text, q) IN
           /\ a = 0 => \A k \in q..Len(text) : text[k] \in Whitespace
           /\ a # 0 => \A k \in q..a - 1 : text[k] \in Whitespace
<1> DEFINE starts == {k \in q..Len(text) : text[k] \notin Whitespace}
           a == WordStart(text, q)
<1>1. Len(text) \in Nat
    BY LenProperties
<1>2. a = IF starts = {} THEN 0 ELSE Min(starts)
    BY DEF WordStart
<1>3. starts \subseteq Nat \ {0} /\ \A k \in q..Len(text) : text[k] \notin Whitespace => k \in starts
    BY <1>1
<1>4. starts # {} => a \in starts /\ \A x \in starts : a <= x
    <2> HIDE DEF starts, a
    <2> SUFFICES ASSUME starts # {} PROVE a \in starts /\ \A x \in starts : a <= x
        OBVIOUS
    <2>1. starts \subseteq Nat
        BY <1>3
    <2> QED BY <1>2, <2>1, MinOf
<1> HIDE DEF a
<1>5. starts # {} => a \in q..Len(text)
    BY <1>4
<1> HIDE DEF starts
<1>6. a = 0 => \A k \in q..Len(text) : text[k] \in Whitespace
    <2> SUFFICES ASSUME a = 0 PROVE \A k \in q..Len(text) : text[k] \in Whitespace
        OBVIOUS
    <2>1. starts = {}
        BY <1>3, <1>4
    <2> QED BY <1>3, <2>1
<1>7. ASSUME a # 0, NEW k \in q..a - 1 PROVE text[k] \in Whitespace
    <2>1. a \in q..Len(text) /\ \A x \in starts : a <= x
        BY <1>2, <1>4, <1>5, <1>7
    <2>2. k \in q..Len(text) /\ ~(a <= k)
        BY <1>1, <1>7, <2>1
    <2> QED BY <1>3, <2>1, <2>2
<1> QED BY <1>6, <1>7 DEF a

\* A word that is collected adds its BPE, and nothing else is added up to its end.
LEMMA WordDue ==
    ASSUME NEW in, in.source \in Seq(Byte), NEW f, UpTo(f, in), NEW q \in 1..Len(in.source) + 1,
           q = 1 \/ q = Len(in.source) + 1 \/ in.source[q] \in Whitespace, WordStart(in.source, q) # 0
    PROVE  LET a == WordStart(in.source, q)
               end == WordEnd(in.source, a) IN
           /\ end \in 1..Len(in.source) + 1 /\ (end = Len(in.source) + 1 \/ in.source[end] \in Whitespace)
           /\ <<a, end - 1>> \in Words(in.source)
           /\ f[end - 1] = f[q - 1] \o Bpe(in.merges, Letters(in, <<a, end - 1>>))
<1> DEFINE text == in.source
           N == Len(text)
           a == WordStart(text, q)
           end == WordEnd(text, a)
           w == <<a, end - 1>>
<1>1. N \in Nat /\ q \in Nat \ {0}
    BY LenProperties
<1>2. a \in 1..N /\ q <= a /\ text[a] \notin Whitespace
    BY <1>1, WordStartIs
<1>3. \A k \in q..a - 1 : text[k] \in Whitespace
    BY <1>1, BlanksBefore
<1> HIDE DEF a
<1>4. a = 1 \/ text[a - 1] \in Whitespace
    <2>1. CASE q = a
        <3>1. q # N + 1
            BY <1>1, <1>2, <2>1
        <3>2. text[q] \notin Whitespace
            BY <1>2, <2>1
        <3> QED BY <2>1, <3>1, <3>2
    <2>2. CASE q # a
        <3>1. a - 1 \in q..a - 1
            BY <1>1, <1>2, <2>2
        <3> QED BY <1>3, <3>1
    <2> QED BY <2>1, <2>2
<1>5. /\ end \in a + 1..N + 1 /\ (end = N + 1 \/ text[end] \in Whitespace)
      /\ Ending(text, end - 1) = {w} /\ \A k \in a..end - 2 : Ending(text, k) = {}
    BY <1>2, <1>4, OneWord
<1> HIDE DEF end
<1>6. /\ end \in 1..N + 1 /\ end - 1 \in 1..N /\ (end - 1) - 1 = end - 2 /\ end - 2 \in a - 1..N
      /\ a - 1 \in 0..N /\ q - 1 \in 0..N /\ a - 1 \in q - 1..N /\ (q - 1) + 1 = q /\ (a - 1) + 1 = a
    BY <1>1, <1>2, <1>5
<1>7. f[a - 1] = f[q - 1]
    <2> DEFINE j == q - 1
               k == a - 1
    <2>1. j \in 0..N /\ k \in j..N
        BY <1>6
    <2>2. \A m \in j + 1..k : Ending(text, m) = {}
        <3>1. \A m \in q..a - 1 : Ending(text, m) = {}
            BY <1>3, BlankEndsNone
        <3> QED BY <1>6, <3>1
    <2> HIDE DEF j, k
    <2>3. f[k] = f[j]
        BY <2>1, <2>2, UpToSame, SMTT(30)
    <2> QED BY <2>3 DEF j, k
<1>8. f[end - 2] = f[a - 1]
    <2> DEFINE j == a - 1
               k == end - 2
    <2>1. j \in 0..N /\ k \in j..N
        BY <1>6
    <2>2. \A m \in j + 1..k : Ending(text, m) = {}
        BY <1>5, <1>6
    <2> HIDE DEF j, k
    <2>3. f[k] = f[j]
        BY <2>1, <2>2, UpToSame, SMTT(30)
    <2> QED BY <2>3 DEF j, k
<1>9. (CHOOSE x \in Ending(text, end - 1) : TRUE) = w
    <2> HIDE DEF w
    <2> QED BY <1>5
<1>10. Adds(in, end - 1) = Bpe(in.merges, Letters(in, w))
    BY <1>9 DEF Adds
<1>11. f[end - 1] = f[end - 2] \o Adds(in, end - 1)
    <2>1. Ending(text, end - 1) # {}
        BY <1>5
    <2> QED BY <1>6, <2>1 DEF UpTo
<1>12. w \in Words(text)
    BY <1>5 DEF Ending
<1> QED BY <1>5, <1>6, <1>7, <1>8, <1>10, <1>11, <1>12 DEF a, end

LEMMA MinOfTwo == \A x, y \in Nat : Min({x, y}) = IF x <= y THEN x ELSE y
<1> SUFFICES ASSUME NEW x \in Nat, NEW y \in Nat PROVE Min({x, y}) = IF x <= y THEN x ELSE y
    OBVIOUS
<1> DEFINE v == Min({x, y})
<1>1. {x, y} \subseteq Nat /\ {x, y} # {}
    OBVIOUS
<1>2. Min({x, y}) \in {x, y} /\ \A z \in {x, y} : Min({x, y}) <= z
    BY <1>1, MinOf
<1>3. (v = x \/ v = y) /\ v <= x /\ v <= y
    BY <1>2
<1> HIDE DEF v
<1>4. v = IF x <= y THEN x ELSE y
    BY <1>3
<1> QED BY <1>4 DEF v

\* Its nodes are its letters, if they fit.
LEMMA NodesAreLetters ==
    ASSUME NEW t, NEW in, Searches(t, in.vocab, in.merges), in.source \in Seq(Byte), NEW a, NEW end \in Nat,
           <<a, end - 1>> \in Words(in.source), (end - 1) - a < BpeMaxChars - 2
    PROVE  /\ TokenIds(BpeNodes(t, in.source, a, end)) = Letters(in, <<a, end - 1>>)
           /\ Letters(in, <<a, end - 1>>) \in Seq(Nat)
<1> DEFINE text == in.source
           w == <<a, end - 1>>
           n == Min({end - a, BpeMaxChars - 2})
           id(b) == ht_lookup(t, ByteString[b])
           h == [id |-> id(32), at |-> a]
           e(k) == [id |-> id(text[a + k - 1]), at |-> a + k - 1]
           rest == [k \in 1..n |-> e(k)]
           V == {h} \cup {e(k) : k \in 1..n}
           s == BpeNodes(t, text, a, end)
           l == Letters(in, w)
<1>1. a \in Nat /\ a <= end - 1 /\ end - a \in Nat /\ n = end - a /\ n \in Nat
    <2>1. a \in 1..Len(text) /\ a <= end - 1
        BY WordsAre
    <2>2. Len(text) \in Nat
        BY LenProperties
    <2>3. a \in Nat /\ end - a \in Nat /\ end - a <= BpeMaxChars - 2 /\ BpeMaxChars - 2 \in Nat
        BY <2>1, <2>2, TokenizerAssumption
    <2> QED BY <2>1, <2>3, MinOfTwo
<1>2. s = <<h>> \o rest
    BY DEF BpeNodes
<1>3. /\ l \in Seq(Nat) /\ Len(l) = (end - 1) - a + 2 /\ l[1] = id(32)
      /\ \A k \in 1..(end - 1) - a + 1 : l[k + 1] = id(text[a + k - 1])
    <2>1. w[1] = a /\ w[2] = end - 1 /\ w \in Words(in.source)
        OBVIOUS
    <2> HIDE DEF w
    <2>2. LettersRead(t, in, w)
        BY <2>1, LettersTyped
    <2> QED BY <2>1, <2>2 DEF LettersRead
<1> HIDE DEF n, id, s, l
<1>4. (end - 1) - a + 2 = n + 1 /\ (end - 1) - a + 1 = n
    BY <1>1
<1>5. /\ s \in Seq(V) /\ Len(s) = n + 1 /\ s[1] = h /\ \A k \in 1..n : s[k + 1] = e(k)
    <2>1. rest \in Seq(V)
        <3>1. \A k \in 1..n : e(k) \in V
            OBVIOUS
        <3> HIDE DEF V, e
        <3> QED BY <1>1, <3>1, IsASeq
    <2>2. Len(rest) = n /\ \A k \in 1..n : rest[k] = e(k)
        <3>1. DOMAIN rest = 1..n
            OBVIOUS
        <3>2. \A k \in 1..n : rest[k] = e(k)
            OBVIOUS
        <3>3. n \in Nat
            BY <1>1
        <3> HIDE DEF V, rest, e
        <3>4. Len(rest) = n
            BY <2>1, <3>1, <3>3, LenProperties
        <3> QED BY <3>2, <3>4
    <2>3. <<h>> \in Seq(V) /\ Len(<<h>>) = 1 /\ <<h>>[1] = h
        <3>1. h \in V
            OBVIOUS
        <3> HIDE DEF V, h
        <3> QED BY <3>1
    <2> HIDE DEF V, h, rest, e
    <2>4. /\ <<h>> \o rest \in Seq(V) /\ Len(<<h>> \o rest) = 1 + n
          /\ \A k \in 1..1 + n : (<<h>> \o rest)[k] = IF k <= 1 THEN <<h>>[k] ELSE rest[k - 1]
        BY <2>1, <2>2, <2>3, ConcatProperties
    <2>5. s[1] = h
        <3>1. 1 \in 1..1 + n /\ 1 <= 1
            BY <1>1
        <3> QED BY <1>2, <2>3, <2>4, <3>1
    <2>6. ASSUME NEW k \in 1..n PROVE s[k + 1] = e(k)
        <3>1. k + 1 \in 1..1 + n /\ ~(k + 1 <= 1) /\ (k + 1) - 1 = k
            BY <1>1
        <3> QED BY <1>2, <2>2, <2>4, <3>1
    <2>7. 1 + n = n + 1
        BY <1>1
    <2> QED BY <1>2, <2>4, <2>5, <2>6, <2>7
<1>6. \A k \in 1..n + 1 : s[k].id = l[k]
    <2> SUFFICES ASSUME NEW k \in 1..n + 1 PROVE s[k].id = l[k]
        OBVIOUS
    <2>1. CASE k = 1
        <3>1. h.id = id(32)
            OBVIOUS
        <3> HIDE DEF h
        <3> QED BY <1>3, <1>5, <2>1, <3>1
    <2>2. CASE k # 1
        <3> DEFINE j == k - 1
        <3>1. j \in 1..n /\ k = j + 1
            BY <1>1, <2>2
        <3>2. e(j).id = id(text[a + j - 1])
            OBVIOUS
        <3> HIDE DEF e, j
        <3> QED BY <1>3, <1>4, <1>5, <3>1, <3>2
    <2> QED BY <2>1, <2>2
<1> HIDE DEF V, h, e, rest
<1>7. Len(s) \in Nat /\ DOMAIN s = 1..Len(s)
    <2> HIDE DEF V
    <2> QED BY <1>5, LenProperties
<1>8. \A k \in 1..Len(s) : s[k].id = l[k] /\ s[k].id \in Nat
    <2>1. \A k \in 1..Len(l) : l[k] \in Nat
        BY <1>3, ElementOfSeq
    <2> QED BY <1>3, <1>4, <1>5, <1>6, <2>1
<1>9. TokenIds(s) = l
    <2>1. /\ TokenIds(s) \in Seq(Nat) /\ Len(TokenIds(s)) = Len(s)
          /\ \A k \in 1..Len(s) : TokenIds(s)[k] = s[k].id
        BY <1>7, <1>8, TokenIdsIs
    <2>2. Len(s) = Len(l)
        BY <1>3, <1>4, <1>5
    <2> QED BY <1>3, <1>8, <2>1, <2>2, SeqEqual, ZenonT(90)
<1> QED BY <1>3, <1>9 DEF s, l

-----------------------------------------------------------------------------
(* The invariant. *)

\* What is due for the first k bytes of the text, and what is kept of it.
Due(in, k) == <<KRL_TOK_BOS>> \o BpeUpTo(in)[k]
Cut(s) == SubSeq(s, 1, Min({Len(s), MaxSeq - 1}))

\* A trained table, and words that fit bpe_buf.
Regular(in) ==
    /\ Trained(in.merges.entries)
    /\ \A w \in Words(in.source) : w[2] - w[1] < BpeMaxChars - 2

\* Between words the program has what is due for the text before p, as far as it
\* fits.  Within a word there is room for what it has, and what is due for the
\* text before p is that and the BPE of the nodes.
WordsInv ==
    LET N == Len(input.source) IN
    /\ pc \in {"word", "merge"} =>
          /\ p \in 1..N + 1 /\ (p = 1 \/ p = N + 1 \/ input.source[p] \in Whitespace)
          /\ TokenIds(ids) \in Seq(Nat)
    /\ pc = "word" => TokenIds(ids) = Cut(Due(input, p - 1))
    /\ pc = "merge" =>
          /\ TokenIds(nodes) \in Seq(Nat)
          /\ Due(input, p - 1) = TokenIds(ids) \o Bpe(input.merges, TokenIds(nodes))
    /\ pc = "ner" => TokenIds(ids) = Append(Cut(Due(input, N)), KRL_TOK_EOS)

EncodeInv ==
    /\ pc \in {"start", "open"} => p = 1
    /\ pc \in {"word", "merge", "ner"} /\ Regular(input) => WordsInv

\* What fits is kept as it is; when no more fits, nothing that follows counts.
LEMMA CutIs ==
    ASSUME NEW s \in Seq(Nat)
    PROVE  /\ Cut(s) \in Seq(Nat) /\ Len(s) \in Nat
           /\ Len(Cut(s)) = IF Len(s) <= MaxSeq - 1 THEN Len(s) ELSE MaxSeq - 1
           /\ \A k \in 1..Len(Cut(s)) : Cut(s)[k] = s[k]
<1> DEFINE n == Min({Len(s), MaxSeq - 1})
<1>1. Len(s) \in Nat /\ MaxSeq - 1 \in Nat
    BY LenProperties, TokenizerAssumption
<1>2. n = IF Len(s) <= MaxSeq - 1 THEN Len(s) ELSE MaxSeq - 1
    BY <1>1, MinOfTwo
<1> HIDE DEF n
<1>3. n \in Nat /\ n <= Len(s)
    BY <1>1, <1>2
<1>4. /\ n \in Int /\ n - 1 + 1 = n /\ (1 <= n \/ n = 0)
      /\ \A k \in 1..n : k \in 1..Len(s) /\ 1 + k - 1 = k
    BY <1>1, <1>3
<1>5. \A k \in 1..n : s[k] \in Nat
    BY <1>4, ElementOfSeq
<1>6. /\ SubSeq(s, 1, n) \in Seq(Nat) /\ Len(SubSeq(s, 1, n)) = n
      /\ \A k \in 1..n : SubSeq(s, 1, n)[k] = s[k]
    BY <1>4, <1>5, SubSeqProperties
<1> QED BY <1>1, <1>2, <1>6 DEF Cut, n

LEMMA CutWhole ==
    ASSUME NEW s \in Seq(Nat), Len(s) <= MaxSeq - 1 \/ Len(Cut(s)) < MaxSeq - 1
    PROVE  Cut(s) = s
<1>1. MaxSeq - 1 \in Nat
    BY TokenizerAssumption
<1>2. Len(Cut(s)) = Len(s)
    BY <1>1, CutIs
<1> QED BY <1>2, CutIs, SeqEqual

LEMMA CutFull ==
    ASSUME NEW s \in Seq(Nat), NEW x \in Seq(Nat), ~(Len(Cut(s)) < MaxSeq - 1)
    PROVE  Cut(s \o x) = Cut(s)
<1> DEFINE u == s \o x
<1>1. MaxSeq - 1 \in Nat /\ Len(s) \in Nat /\ Len(x) \in Nat
    BY LenProperties, TokenizerAssumption
<1>2. /\ u \in Seq(Nat) /\ Len(u) = Len(s) + Len(x)
      /\ \A k \in 1..Len(s) + Len(x) : u[k] = IF k <= Len(s) THEN s[k] ELSE x[k - Len(s)]
    BY ConcatProperties
<1> HIDE DEF u
<1>3. Len(Cut(s)) = MaxSeq - 1 /\ MaxSeq - 1 <= Len(s)
    BY <1>1, CutIs, SMTT(30)
<1>4. Len(Cut(u)) = MaxSeq - 1
    <2>1. MaxSeq - 1 <= Len(u)
        BY <1>1, <1>2, <1>3
    <2> QED BY <1>1, <1>2, <2>1, CutIs
<1>5. ASSUME NEW k \in 1..MaxSeq - 1 PROVE Cut(u)[k] = Cut(s)[k]
    <2>1. k \in 1..Len(s) + Len(x) /\ k <= Len(s)
        BY <1>1, <1>3
    <2>2. Cut(u)[k] = u[k] /\ Cut(s)[k] = s[k]
        BY <1>2, <1>3, <1>4, CutIs
    <2> QED BY <1>2, <2>1, <2>2
<1>6. Cut(u) \in Seq(Nat) /\ Cut(s) \in Seq(Nat)
    BY <1>2, CutIs
<1>7. Cut(u) = Cut(s)
    BY <1>3, <1>4, <1>5, <1>6, SeqEqual
<1> QED BY <1>7 DEF u

\* What the program works with while it encodes.
LEMMA EncodeContext ==
    ASSUME TextInv, pc \notin {"start", "done"}, input.source \in Seq(Byte)
    PROVE  /\ Searches(tok, input.vocab, input.merges) /\ MergesRead(input.merges)
           /\ input.source \in Seq(Byte) /\ Len(input.source) \in Nat /\ UpTo(BpeUpTo(input), input)
           /\ \A k \in 0..Len(input.source) : BpeUpTo(input)[k] \in Seq(Nat) /\ Due(input, k) \in Seq(Nat)
<1>1. /\ input \in Inputs /\ tok = krl_tok_load(input.vocab, input.merges) /\ tok.loaded
      /\ input.source \in Seq(Byte)
    BY DEF TextInv
<1>2. Searches(tok, input.vocab, input.merges)
    BY <1>1, LoadedSearches
<1>3. UpTo(BpeUpTo(input), input)
    BY <1>1, <1>2, BpeUpToIs
<1>4. MergesRead(input.merges)
    BY <1>2 DEF Searches
<1>5. Len(input.source) \in Nat
    BY <1>1, LenProperties
<1>6. ASSUME NEW k \in 0..Len(input.source)
      PROVE  BpeUpTo(input)[k] \in Seq(Nat) /\ Due(input, k) \in Seq(Nat)
    <2> DEFINE x == BpeUpTo(input)[k]
    <2>1. x \in Seq(Nat)
        BY <1>3 DEF UpTo
    <2> HIDE DEF x
    <2>2. <<KRL_TOK_BOS>> \in Seq(Nat)
        BY DEF KRL_TOK_BOS
    <2>3. <<KRL_TOK_BOS>> \o x \in Seq(Nat)
        BY <2>1, <2>2, ConcatProperties
    <2> QED BY <2>1, <2>3 DEF Due, x
<1> QED BY <1>1, <1>2, <1>3, <1>4, <1>5, <1>6

-----------------------------------------------------------------------------
(* The steps. *)

\* A sequence of tokens and its ids.
LEMMA IdsAre ==
    ASSUME NEW s, Tokens(s), TokenIds(s) \in Seq(Nat)
    PROVE  /\ Len(s) \in Nat /\ DOMAIN s = 1..Len(s) /\ Len(TokenIds(s)) = Len(s)
           /\ \A k \in 1..Len(s) : s[k].id = TokenIds(s)[k] /\ s[k].id \in Nat
<1> DEFINE l == TokenIds(s)
<1>1. Len(s) \in Nat /\ DOMAIN s = 1..Len(s)
    BY TokensOf
<1>2. l = [k \in 1..Len(s) |-> s[k].id]
    BY <1>1 DEF TokenIds
<1>3. DOMAIN l = 1..Len(s) /\ \A k \in 1..Len(s) : l[k] = s[k].id
    BY <1>2
<1>4. l \in Seq(Nat)
    OBVIOUS
<1> HIDE DEF l
<1>5. Len(l) \in Nat /\ DOMAIN l = 1..Len(l)
    BY <1>4, LenProperties
<1>6. Len(l) = Len(s)
    BY <1>1, <1>3, <1>5, SameLength
<1>7. \A k \in 1..Len(s) : l[k] \in Nat
    BY <1>4, <1>6, ElementOfSeq
<1> QED BY <1>1, <1>3, <1>6, <1>7 DEF l

\* A text begins with BOS, and nothing is due yet.
LEMMA OpenEncodes ==
    ASSUME TextInv, EncodeInv, Open
    PROVE  EncodeInv'
<1>1. pc = "open" /\ UNCHANGED <<input, tok, p, nodes>> /\ p = 1
    BY DEF Open, EncodeInv
<1>2. CASE pc' = "done"
    BY <1>2 DEF EncodeInv
<1>3. CASE input.source # NoFile /\ pc' = "word" /\ ids' = <<[id |-> KRL_TOK_BOS, at |-> 0]>>
    <2> DEFINE bos == [id |-> KRL_TOK_BOS, at |-> 0]
               l == <<KRL_TOK_BOS>>
    <2>1. pc' = "word" /\ ids' = <<bos>>
        BY <1>3
    <2>2. input.source \in Seq(Byte)
        BY <1>3, InputsAssumption DEF TextInv
    <2>3. Len(input.source) \in Nat /\ UpTo(BpeUpTo(input), input)
        BY <1>1, <2>2, EncodeContext
    <2>4. l \in Seq(Nat) /\ Len(l) = 1 /\ l[1] = KRL_TOK_BOS
        BY DEF KRL_TOK_BOS
    <2>5. Due(input, 0) = l
        <3>1. BpeUpTo(input)[0] = <<>>
            BY <2>3 DEF UpTo
        <3> HIDE DEF l
        <3>2. l \o <<>> = l
            BY <2>4, ConcatEmptySeq
        <3> QED BY <3>1, <3>2 DEF Due, l
    <2>6. TokenIds(<<bos>>) = l
        <3>1. /\ Len(<<bos>>) = 1 /\ <<bos>>[1] = bos /\ DOMAIN <<bos>> = 1..1
            OBVIOUS
        <3>2. bos.id = KRL_TOK_BOS /\ KRL_TOK_BOS \in Nat
            BY DEF KRL_TOK_BOS
        <3> DEFINE u == <<bos>>
        <3> HIDE DEF u, bos
        <3>3. Len(u) \in Nat /\ DOMAIN u = 1..Len(u) /\ \A k \in 1..Len(u) : u[k].id \in Nat
            BY <3>1, <3>2 DEF u
        <3>4. TokenIds(u) \in Seq(Nat) /\ Len(TokenIds(u)) = Len(u) /\ \A k \in 1..Len(u) : TokenIds(u)[k] = u[k].id
            BY <3>3, TokenIdsIs
        <3>5. \A k \in 1..Len(u) : TokenIds(u)[k] = l[k]
            <4> HIDE DEF l
            <4> QED BY <2>4, <3>1, <3>2, <3>4 DEF u
        <3>6. Len(u) = 1
            BY <3>1 DEF u
        <3> HIDE DEF l
        <3>7. TokenIds(u) = l
            BY <2>4, <3>4, <3>5, <3>6, SeqEqual
        <3> QED BY <3>7 DEF u
    <2> HIDE DEF l, bos
    <2>7. Cut(l) = l
        <3>1. Len(l) <= MaxSeq - 1
            BY <2>4, TokenizerAssumption
        <3> QED BY <2>4, <3>1, CutWhole
    <2>8. p' = 1 /\ p' - 1 = 0 /\ input' = input /\ TokenIds(ids') = l /\ 1 \in 1..Len(input.source) + 1
        BY <1>1, <2>1, <2>3, <2>6
    <2>9. WordsInv'
        BY <2>1, <2>4, <2>5, <2>7, <2>8 DEF WordsInv
    <2> QED BY <2>1, <2>9 DEF EncodeInv
<1> QED BY <1>2, <1>3 DEF Open

\* A word that is collected has all that is due for it still before it.
LEMMA CollectEncodes ==
    ASSUME TextInv, EncodeInv, CollectWord
    PROVE  EncodeInv'
<1> DEFINE text == input.source
           a == WordStart(text, p)
           end == WordEnd(text, a)
           f == BpeUpTo(input)
           w == <<a, end - 1>>
           l == Letters(input, w)
<1>1. /\ pc = "word" /\ Room /\ a # 0 /\ nodes' = BpeNodes(tok, text, a, end) /\ p' = end
      /\ pc' \in {"crashed", "merge"} /\ UNCHANGED <<input, tok, ids>>
    BY DEF CollectWord, MoreWords
<1>2. CASE ~(pc' = "merge" /\ Regular(input))
    <2>1. pc' \notin {"start", "open"} /\ ~(pc' \in {"word", "merge", "ner"} /\ Regular(input'))
        BY <1>1, <1>2
    <2> QED BY <2>1 DEF EncodeInv
<1>3. CASE pc' = "merge" /\ Regular(input)
    <2>1. text \in Seq(Byte)
        BY <1>1 DEF TextInv
    <2>2. /\ Searches(tok, input.vocab, input.merges) /\ Len(text) \in Nat /\ UpTo(f, input)
          /\ MergesRead(input.merges) /\ \A k \in 0..Len(text) : f[k] \in Seq(Nat) /\ Due(input, k) \in Seq(Nat)
        BY <1>1, <2>1, EncodeContext
    <2>3. WordsInv
        BY <1>1, <1>3 DEF EncodeInv
    <2>4. /\ p \in 1..Len(text) + 1 /\ (p = 1 \/ p = Len(text) + 1 \/ text[p] \in Whitespace)
          /\ TokenIds(ids) \in Seq(Nat) /\ TokenIds(ids) = Cut(Due(input, p - 1))
        BY <1>1, <2>3 DEF WordsInv
    <2> HIDE DEF f
    <2>5. /\ end \in 1..Len(text) + 1 /\ (end = Len(text) + 1 \/ text[end] \in Whitespace)
          /\ w \in Words(text) /\ f[end - 1] = f[p - 1] \o Bpe(input.merges, l)
        BY <1>1, <2>1, <2>2, <2>4, WordDue
    <2> HIDE DEF a, end
    <2>6. end \in Nat /\ end - 1 \in 0..Len(text) /\ p - 1 \in 0..Len(text)
        BY <2>2, <2>4, <2>5
    <2>7. (end - 1) - a < BpeMaxChars - 2
        <3>1. w[1] = a /\ w[2] = end - 1
            OBVIOUS
        <3>2. w[2] - w[1] < BpeMaxChars - 2
            <4> HIDE DEF w
            <4> QED BY <1>3, <2>5 DEF Regular
        <3> QED BY <3>1, <3>2
    <2>8. TokenIds(nodes') = l /\ l \in Seq(Nat)
        <3>1. TokenIds(BpeNodes(tok, text, a, end)) = l /\ l \in Seq(Nat)
            BY <2>1, <2>2, <2>5, <2>6, <2>7, NodesAreLetters
        <3> HIDE DEF l
        <3> QED BY <1>1, <3>1
    <2> HIDE DEF l, w
    <2>9. TokenIds(ids) = Due(input, p - 1)
        <3> DEFINE d == Due(input, p - 1)
        <3>1. d \in Seq(Nat)
            BY <2>2, <2>6
        <3>2. Len(TokenIds(ids)) = Len(ids)
            BY <2>4, IdsAre DEF TextInv
        <3> HIDE DEF d
        <3>3. Len(Cut(d)) < MaxSeq - 1
            BY <1>1, <2>4, <3>2 DEF Room, d
        <3>4. Cut(d) = d
            BY <3>1, <3>3, CutWhole
        <3> QED BY <2>4, <3>4 DEF d
    <2>10. Due(input, end - 1) = TokenIds(ids) \o Bpe(input.merges, l)
        <3> DEFINE x == f[p - 1]
                   y == Bpe(input.merges, l)
                   b == <<KRL_TOK_BOS>>
        <3>1. x \in Seq(Nat) /\ y \in Seq(Nat) /\ b \in Seq(Nat)
            <4>1. b \in Seq(Nat)
                BY DEF KRL_TOK_BOS
            <4> QED BY <2>2, <2>6, <2>8, <4>1, BpeTyped
        <3>2. Due(input, end - 1) = b \o (x \o y) /\ TokenIds(ids) = b \o x
            BY <2>5, <2>9 DEF Due, f
        <3> HIDE DEF x, y, b
        <3>3. (b \o x) \o y = b \o (x \o y)
            BY <3>1, Regrouping
        <3> QED BY <3>2, <3>3 DEF y
    <2>11. WordsInv'
        <3>1. pc' = "merge" /\ p' = end /\ input' = input /\ ids' = ids
            BY <1>1, <1>3
        <3>2. input'.source = text /\ p' - 1 = end - 1
            BY <3>1
        <3> QED BY <2>4, <2>5, <2>8, <2>10, <3>1, <3>2 DEF WordsInv
    <2>12. pc' \notin {"start", "open"}
        BY <1>3
    <2> QED BY <2>11, <2>12 DEF EncodeInv
<1> QED BY <1>2, <1>3

\* A merge does not change what is due.
LEMMA MergeEncodes ==
    ASSUME TextInv, EncodeInv, Merge
    PROVE  EncodeInv'
<1> DEFINE mf == input.merges
           l == TokenIds(nodes)
           u == TokenIds(nodes')
<1>1. /\ pc = "merge" /\ bpe_best_merge(tok, nodes) # 0 /\ UNCHANGED <<input, pc, tok, p, ids>>
      /\ nodes' = MergeNodes(tok, nodes, bpe_best_merge(tok, nodes))
    BY DEF Merge
<1>2. CASE ~Regular(input)
    BY <1>1, <1>2 DEF EncodeInv
<1>3. CASE Regular(input)
    <2>1. Searches(tok, input.vocab, mf)
        BY <1>1, EncodeContext DEF TextInv
    <2>2. WordsInv
        BY <1>1, <1>3 DEF EncodeInv
    <2>3. l \in Seq(Nat) /\ Trained(mf.entries)
        BY <1>1, <1>3, <2>2 DEF WordsInv, Regular
    <2>4. PICK I : nodes \in Seq([id : I, at : 0..Len(input.source) + 1])
        BY DEF TextInv, Tokens
    <2> DEFINE T == 0..Len(input.source) + 1
    <2> HIDE DEF T
    <2>5. u \in Seq(Nat) /\ Bpe(mf, u) = Bpe(mf, l)
        <3> DEFINE b == bpe_best_merge(tok, nodes)
                   v == TokenIds(MergeNodes(tok, nodes, b))
        <3>1. nodes \in Seq([id : I, at : T]) /\ TokenIds(nodes) \in Seq(Nat)
            BY <2>3, <2>4 DEF T
        <3>2. MergesSoundly(tok, mf, nodes)
            <4> HIDE DEF mf
            <4> QED BY <2>1, <2>3, <3>1, MergeStep
        <3>3. b # 0 => v \in Seq(Nat) /\ Bpe(mf, v) = Bpe(mf, TokenIds(nodes))
            BY <3>2 DEF MergesSoundly
        <3>4. b # 0 /\ u = v
            BY <1>1
        <3> QED BY <3>3, <3>4
    <2>6. WordsInv'
        BY <1>1, <2>2, <2>5 DEF WordsInv
    <2> QED BY <1>1, <2>6 DEF EncodeInv
<1> QED BY <1>2, <1>3

\* When the program finds no pair to merge, the nodes are the BPE of the word;
\* they are kept as far as they fit.
LEMMA EmitEncodes ==
    ASSUME TextInv, EncodeInv, EmitWord
    PROVE  EncodeInv'
<1> DEFINE mf == input.merges
           K == Len(ids)
           L == Len(nodes)
           x == TokenIds(ids)
           y == TokenIds(nodes)
           s == SubSeq(ids \o nodes, 1, Min({K + L, MaxSeq - 1}))
<1>1. /\ pc = "merge" /\ bpe_best_merge(tok, nodes) = 0 /\ ids' = s /\ pc' = "word"
      /\ UNCHANGED <<input, tok, p>>
    BY DEF EmitWord
<1>2. CASE ~Regular(input)
    BY <1>1, <1>2 DEF EncodeInv
<1>3. CASE Regular(input)
    <2>1. Searches(tok, input.vocab, mf) /\ Trained(mf.entries) /\ Tokens(ids) /\ Tokens(nodes)
        BY <1>1, <1>3, EncodeContext DEF TextInv, Regular
    <2>2. WordsInv
        BY <1>1, <1>3 DEF EncodeInv
    <2>3. x \in Seq(Nat) /\ y \in Seq(Nat) /\ Due(input, p - 1) = x \o Bpe(mf, y)
        BY <1>1, <2>2 DEF WordsInv
    <2>4. Bpe(mf, y) = y
        <3> DEFINE T == 0..Len(input.source) + 1
        <3>1. PICK I : nodes \in Seq([id : I, at : T])
            BY <2>1 DEF Tokens
        <3> HIDE DEF T
        <3>2. TokenIds(nodes) \in Seq(Nat)
            BY <2>3
        <3>3. MergesSoundly(tok, mf, nodes)
            <4> HIDE DEF mf, y
            <4> QED BY <2>1, <3>1, <3>2, MergeStep
        <3>4. bpe_best_merge(tok, nodes) = 0 => Bpe(mf, TokenIds(nodes)) = TokenIds(nodes)
            BY <3>3 DEF MergesSoundly
        <3> QED BY <1>1, <3>4
    <2>5. /\ K \in Nat /\ Len(x) = K /\ \A k \in 1..K : ids[k].id = x[k] /\ ids[k].id \in Nat
          /\ L \in Nat /\ Len(y) = L /\ \A k \in 1..L : nodes[k].id = y[k] /\ nodes[k].id \in Nat
        BY <2>1, <2>3, IdsAre
    <2>6. /\ Len(s) \in K..K + L /\ Len(s) = Min({K + L, MaxSeq - 1}) /\ DOMAIN s = 1..Len(s)
          /\ \A k \in 1..Len(s) : s[k] = IF k <= K THEN ids[k] ELSE nodes[k - K]
        BY <1>1, Emitted
    <2> HIDE DEF s, x, y, K, L
    <2> DEFINE d == x \o y
    <2>7. /\ d \in Seq(Nat) /\ Len(d) = K + L
          /\ \A k \in 1..K + L : d[k] = IF k <= K THEN x[k] ELSE y[k - K]
        BY <2>3, <2>5, ConcatProperties
    <2> HIDE DEF d
    <2>8. Len(Cut(d)) = Len(s) /\ Cut(d) \in Seq(Nat) /\ \A k \in 1..Len(s) : Cut(d)[k] = d[k]
        <3>1. MaxSeq - 1 \in Nat /\ K + L \in Nat
            BY <2>5, TokenizerAssumption
        <3>2. Len(Cut(d)) = Len(s)
            BY <2>6, <2>7, <3>1, CutIs, MinOfTwo
        <3> QED BY <2>7, <3>2, CutIs
    <2>9. ASSUME NEW k \in 1..Len(s) PROVE s[k].id = d[k] /\ s[k].id \in Nat
        <3>1. k \in 1..K + L
            BY <2>5, <2>6
        <3>2. CASE k <= K
            <4>1. k \in 1..K
                BY <3>2
            <4> QED BY <2>5, <2>6, <2>7, <3>1, <3>2, <4>1
        <3>3. CASE ~(k <= K)
            <4>1. k - K \in 1..L
                BY <2>5, <3>1, <3>3
            <4> QED BY <2>5, <2>6, <2>7, <3>1, <3>3, <4>1
        <3> QED BY <3>2, <3>3
    <2>10. TokenIds(s) = Cut(d) /\ TokenIds(s) \in Seq(Nat)
        <3>1. Len(s) \in Nat
            BY <2>5, <2>6
        <3>2. /\ TokenIds(s) \in Seq(Nat) /\ Len(TokenIds(s)) = Len(s)
              /\ \A k \in 1..Len(s) : TokenIds(s)[k] = s[k].id
            BY <2>6, <2>9, <3>1, TokenIdsIs
        <3> QED BY <2>8, <2>9, <3>2, SeqEqual
    <2>11. Due(input, p - 1) = d
        BY <2>3, <2>4 DEF d
    <2>12. WordsInv'
        <3>1. input' = input /\ p' = p /\ TokenIds(ids') = Cut(d) /\ TokenIds(ids') \in Seq(Nat)
            BY <1>1, <2>10
        <3> QED BY <1>1, <2>2, <2>11, <3>1 DEF WordsInv
    <2> QED BY <1>1, <2>12 DEF EncodeInv
<1> QED BY <1>2, <1>3

\* At the end all that is due is there, as far as it fits, and EOS behind it.
LEMMA EosEncodes ==
    ASSUME TextInv, EncodeInv, Eos
    PROVE  EncodeInv'
<1> DEFINE text == input.source
           N == Len(text)
           f == BpeUpTo(input)
           x == TokenIds(ids)
           eos == [id |-> KRL_TOK_EOS, at |-> N + 1]
<1>1. pc = "word" /\ ~MoreWords /\ ids' = Append(ids, eos) /\ pc' = "ner" /\ UNCHANGED <<input, tok, p>>
    BY DEF Eos
<1>2. CASE ~Regular(input)
    BY <1>1, <1>2 DEF EncodeInv
<1>3. CASE Regular(input)
    <2>1. text \in Seq(Byte) /\ Tokens(ids)
        BY <1>1 DEF TextInv
    <2>2. /\ Searches(tok, input.vocab, input.merges) /\ N \in Nat /\ UpTo(f, input)
          /\ \A k \in 0..N : f[k] \in Seq(Nat) /\ Due(input, k) \in Seq(Nat)
        BY <1>1, <2>1, EncodeContext
    <2>3. WordsInv
        BY <1>1, <1>3 DEF EncodeInv
    <2>4. p \in 1..N + 1 /\ x \in Seq(Nat) /\ x = Cut(Due(input, p - 1))
        BY <1>1, <2>3 DEF WordsInv
    <2>5. /\ Len(ids) \in Nat /\ DOMAIN ids = 1..Len(ids) /\ Len(x) = Len(ids)
          /\ \A k \in 1..Len(ids) : ids[k].id = x[k] /\ ids[k].id \in Nat
        BY <2>1, <2>4, IdsAre
    <2>6. p - 1 \in 0..N /\ N \in 0..N /\ N \in p - 1..N /\ (p - 1) + 1 = p /\ p \in Nat \ {0}
        BY <2>2, <2>4
    <2>7. Cut(Due(input, N)) = Cut(Due(input, p - 1))
        <3>1. CASE ~Room
            <4> DEFINE d == Due(input, p - 1)
                       g == f[p - 1]
                       b == <<KRL_TOK_BOS>>
            <4>1. PICK z \in Seq(Nat) : f[N] = g \o z
                <5>1. Searches(tok, input.vocab, input.merges) /\ input.source \in Seq(Byte)
                    BY <2>1, <2>2
                <5>2. Grows(f, N)
                    BY <5>1, UpToGrows
                <5> QED BY <2>6, <5>2 DEF Grows
            <4>2. g \in Seq(Nat) /\ d \in Seq(Nat)
                BY <2>2, <2>6
            <4>3. d = b \o g /\ Due(input, N) = b \o (g \o z)
                BY <4>1 DEF Due
            <4>4. b \in Seq(Nat)
                BY DEF KRL_TOK_BOS
            <4> HIDE DEF g, b, d
            <4>5. (b \o g) \o z = b \o (g \o z)
                BY <4>1, <4>2, <4>4, Regrouping
            <4>6. ~(Len(Cut(d)) < MaxSeq - 1)
                BY <2>4, <2>5, <3>1 DEF Room, d
            <4>7. Cut(d \o z) = Cut(d)
                BY <4>1, <4>2, <4>6, CutFull
            <4>8. Due(input, N) = d \o z
                BY <4>3, <4>5
            <4> QED BY <4>7, <4>8 DEF d
        <3>2. CASE Room
            <4>1. WordStart(text, p) = 0
                BY <1>1, <3>2 DEF MoreWords
            <4>2. \A k \in p..N : text[k] \in Whitespace
                BY <2>1, <2>6, <4>1, BlanksBefore
            <4>3. \A k \in (p - 1) + 1..N : Ending(text, k) = {}
                BY <2>1, <2>6, <4>2, BlankEndsNone
            <4>4. f[N] = f[p - 1]
                <5> DEFINE j == p - 1
                           k == N
                <5>1. j \in 0..Len(input.source) /\ k \in j..Len(input.source)
                    BY <2>6
                <5>2. input.source \in Seq(Byte) /\ UpTo(f, input)
                    BY <2>1, <2>2
                <5>3. \A m \in j + 1..k : Ending(input.source, m) = {}
                    BY <4>3
                <5> HIDE DEF j, k, f
                <5>4. f[k] = f[j]
                    BY <5>1, <5>2, <5>3, UpToSame
                <5> QED BY <5>4 DEF j, k
            <4> QED BY <4>4 DEF Due
        <3> QED BY <3>1, <3>2
    <2>8. TokenIds(Append(ids, eos)) = Append(x, KRL_TOK_EOS)
        <3> DEFINE u == Append(ids, eos)
                   v == Append(x, KRL_TOK_EOS)
                   K == Len(ids)
        <3> HIDE DEF eos
        <3>1. /\ Len(u) = K + 1 /\ DOMAIN u = 1..K + 1 /\ u[K + 1] = eos /\ \A k \in 1..K : u[k] = ids[k]
            <4>1. PICK I : ids \in Seq([id : I, at : 0..Len(input.source) + 1])
                BY <2>1 DEF Tokens
            <4> DEFINE S == [id : I, at : 0..Len(input.source) + 1]
            <4> HIDE DEF S
            <4>2. ids \in Seq(S)
                BY <4>1 DEF S
            <4> QED BY <4>2, Appended
        <3>2. eos.id = KRL_TOK_EOS /\ KRL_TOK_EOS \in Nat
            BY DEF eos, KRL_TOK_EOS
        <3> HIDE DEF x
        <3>3. /\ v \in Seq(Nat) /\ Len(v) = K + 1 /\ v[K + 1] = KRL_TOK_EOS /\ \A k \in 1..K : v[k] = x[k]
            <4>1. v \in Seq(Nat)
                BY <2>4, <3>2, AppendProperties
            <4>2. /\ Len(v) = Len(x) + 1 /\ v[Len(x) + 1] = KRL_TOK_EOS /\ \A k \in 1..Len(x) : v[k] = x[k]
                BY <2>4, Appended
            <4> QED BY <2>5, <4>1, <4>2
        <3> HIDE DEF u, v
        <3>4. ASSUME NEW k \in 1..K + 1 PROVE u[k].id = v[k] /\ u[k].id \in Nat
            <4>1. CASE k = K + 1
                BY <3>1, <3>2, <3>3, <4>1
            <4>2. CASE k # K + 1
                <5>1. k \in 1..K
                    BY <2>5, <4>2
                <5> QED BY <2>5, <3>1, <3>3, <5>1
            <4> QED BY <4>1, <4>2
        <3> HIDE DEF K
        <3>5. K + 1 \in Nat
            BY <2>5 DEF K
        <3>6. /\ TokenIds(u) \in Seq(Nat) /\ Len(TokenIds(u)) = Len(u)
              /\ \A k \in 1..Len(u) : TokenIds(u)[k] = u[k].id
            BY <3>1, <3>4, <3>5, TokenIdsIs
        <3>7. TokenIds(u) = v
            BY <3>1, <3>3, <3>4, <3>6, SeqEqual, SMTT(30)
        <3> QED BY <3>7 DEF u, v
    <2>9. WordsInv'
        <3>1. input' = input /\ TokenIds(ids') = Append(Cut(Due(input, N)), KRL_TOK_EOS)
            BY <1>1, <2>4, <2>7, <2>8
        <3> QED BY <1>1, <3>1 DEF WordsInv
    <2> QED BY <1>1, <2>9 DEF EncodeInv
<1> QED BY <1>2, <1>3

\* Every step keeps the invariant.
LEMMA EncodeStep == TextInv /\ EncodeInv /\ [Next]_vars => EncodeInv'
<1> SUFFICES ASSUME TextInv, EncodeInv, [Next]_vars PROVE EncodeInv'
    OBVIOUS
<1>1. CASE Start
    <2>1. pc = "start" /\ pc' \in {"open", "done"} /\ p' = p
        BY <1>1 DEF Start, tokVars
    <2> QED BY <2>1 DEF EncodeInv
<1>2. CASE OtherExtractor
    <2>1. pc' = "done"
        BY <1>2 DEF OtherExtractor
    <2> QED BY <2>1 DEF EncodeInv
<1>3. CASE Open
    BY <1>3, OpenEncodes
<1>4. CASE CollectWord
    BY <1>4, CollectEncodes
<1>5. CASE Merge
    BY <1>5, MergeEncodes
<1>6. CASE EmitWord
    BY <1>6, EmitEncodes
<1>7. CASE Eos
    BY <1>7, EosEncodes
<1>8. CASE Ner \/ SkipToken \/ Exit
    <2>1. pc' \in {"span", "done"}
        BY <1>8 DEF Ner, SkipToken, Exit, Spanning
    <2> QED BY <2>1 DEF EncodeInv
<1>9. CASE PrintSpan
    <2>1. pc' = "span"
        BY <1>9, PrintSpanIs
    <2> QED BY <2>1 DEF EncodeInv
<1>10. CASE Ingest \/ UNCHANGED vars
    <2>1. UNCHANGED <<input, pc, p, nodes, ids>>
        BY <1>10 DEF Ingest, vars, tokVars
    <2> QED BY <2>1 DEF EncodeInv, WordsInv
<1> QED BY <1>1, <1>2, <1>3, <1>4, <1>5, <1>6, <1>7, <1>8, <1>9, <1>10 DEF Next, Plugin

\* krl_tok_encode searches a sorted table for the pair of lowest rank and begins
\* again after every merge; it returns the BPE of the words of the file, in their
\* order, cut to the places between BOS and EOS, for every file, every vocabulary
\* and every table as the training makes it.
THEOREM TokensAreBpe == Spec => []EncodingIsBpe
<1>1. Init => EncodeInv
    BY DEF Init, EncodeInv
<1>2. PluginInv /\ EncodeInv /\ [Next]_vars => EncodeInv'
    BY EncodeStep DEF PluginInv
<1>3. PluginInv /\ EncodeInv => EncodingIsBpe
    <2> DEFINE all == BpeUpTo(input)[Len(input.source)]
               n == Min({Len(all), MaxSeq - 2})
               b == <<KRL_TOK_BOS>>
               e == <<KRL_TOK_EOS>>
               d == b \o all
    <2> SUFFICES ASSUME PluginInv, EncodeInv, pc = "ner", Regular(input)
                 PROVE  TokenIds(ids) = b \o SubSeq(all, 1, n) \o e
        BY DEF EncodingIsBpe, Regular, TokenIds
    <2>1. input.source \in Seq(Byte) /\ TextInv
        BY DEF PluginInv, TextInv
    <2>2. all \in Seq(Nat) /\ Len(all) \in Nat
        <3>1. Len(input.source) \in Nat /\ \A k \in 0..Len(input.source) : BpeUpTo(input)[k] \in Seq(Nat)
            BY <2>1, EncodeContext
        <3>2. all \in Seq(Nat)
            BY <3>1
        <3> QED BY <3>2, LenProperties
    <2>3. TokenIds(ids) = Append(Cut(d), KRL_TOK_EOS)
        BY DEF EncodeInv, WordsInv, Due
    <2> HIDE DEF all
    <2>4. MaxSeq - 1 \in Nat /\ MaxSeq - 2 \in Nat
        BY TokenizerAssumption
    <2>5. n = IF Len(all) <= MaxSeq - 2 THEN Len(all) ELSE MaxSeq - 2
        BY <2>2, <2>4, MinOfTwo
    <2>6. b \in Seq(Nat) /\ e \in Seq(Nat) /\ Len(b) = 1
        BY DEF KRL_TOK_BOS, KRL_TOK_EOS
    <2> HIDE DEF n, b
    <2>7. n \in Nat /\ n <= Len(all)
        BY <2>2, <2>4, <2>5
    <2>8. /\ d \in Seq(Nat) /\ Len(d) = 1 + Len(all)
          /\ \A k \in 1..1 + Len(all) : d[k] = IF k <= 1 THEN b[k] ELSE all[k - 1]
        <3>1. d \in Seq(Nat) /\ Len(d) = Len(b) + Len(all)
              /\ \A k \in 1..Len(b) + Len(all) : d[k] = IF k <= Len(b) THEN b[k] ELSE all[k - Len(b)]
            BY <2>2, <2>6, JoinedIs
        <3> HIDE DEF d
        <3> QED BY <2>6, <3>1
    <2> HIDE DEF d
    <2> DEFINE c == SubSeq(all, 1, n)
               u == b \o c
    <2>9. c \in Seq(Nat) /\ Len(c) = n /\ \A k \in 1..n : c[k] = all[k]
        <3>1. /\ n \in Int /\ n - 1 + 1 = n /\ (1 <= n \/ n = 0)
              /\ \A k \in 1..n : k \in 1..Len(all) /\ 1 + k - 1 = k
            BY <2>2, <2>7
        <3>2. \A k \in 1..n : all[k] \in Nat
            BY <2>2, <3>1, ElementOfSeq
        <3> QED BY <3>1, <3>2, SubSeqProperties
    <2> HIDE DEF c
    <2>10. /\ u \in Seq(Nat) /\ Len(u) = 1 + n
           /\ \A k \in 1..1 + n : u[k] = IF k <= 1 THEN b[k] ELSE c[k - 1]
        <3>1. u \in Seq(Nat) /\ Len(u) = Len(b) + Len(c)
              /\ \A k \in 1..Len(b) + Len(c) : u[k] = IF k <= Len(b) THEN b[k] ELSE c[k - Len(b)]
            BY <2>6, <2>9, JoinedIs
        <3> HIDE DEF u
        <3> QED BY <2>6, <2>9, <3>1
    <2> HIDE DEF u
    <2>11. Cut(d) = u
        <3> DEFINE l == Len(Cut(d))
                   M == Len(all)
        <3>1. Cut(d) \in Seq(Nat) /\ \A k \in 1..l : Cut(d)[k] = d[k]
            BY <2>8, CutIs
        <3>2. l = 1 + n
            <4>1. l = IF 1 + M <= MaxSeq - 1 THEN 1 + M ELSE MaxSeq - 1
                BY <2>8, CutIs
            <4> HIDE DEF l, M
            <4>2. M \in Nat /\ n = IF M <= MaxSeq - 2 THEN M ELSE MaxSeq - 2
                BY <2>2, <2>5 DEF M
            <4>3. MaxSeq \in Nat
                BY TokenizerAssumption
            <4> QED BY <4>1, <4>2, <4>3
        <3> HIDE DEF l
        <3>3. ASSUME NEW k \in 1..1 + n PROVE d[k] = u[k]
            <4>1. k \in 1..1 + Len(all)
                BY <2>2, <2>7
            <4>2. ~(k <= 1) => k - 1 \in 1..n
                BY <2>7
            <4> QED BY <2>8, <2>9, <2>10, <4>1, <4>2
        <3>4. Len(Cut(d)) = Len(u) /\ \A k \in 1..Len(Cut(d)) : Cut(d)[k] = u[k]
            <4>1. Len(Cut(d)) = 1 + n
                BY <3>2 DEF l
            <4> QED BY <2>10, <3>1, <3>2, <3>3, <4>1 DEF l
        <3> QED BY <2>10, <3>1, <3>4, SeqEqual
    <2>12. Append(u, KRL_TOK_EOS) = u \o e
        BY <2>10, AppendIsConcat DEF KRL_TOK_EOS
    <2> QED BY <2>3, <2>11, <2>12 DEF u, c
<1> QED BY <1>1, <1>2, <1>3, PluginInvariant, PTL DEF Spec
=============================================================================
