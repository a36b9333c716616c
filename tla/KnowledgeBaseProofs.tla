-------------------------- MODULE KnowledgeBaseProofs --------------------------
(***************************************************************************)
(* What the store says after index runs that overlap, die and are edited   *)
(* under, proved for any files, walk and number of runs, edits and faults. *)
(* The first part is about the walk and the files, the second about the    *)
(* processes of a run, the third about the rows of the store.              *)
(***************************************************************************)
EXTENDS KnowledgeBase, SetInduction, SequenceTheorems

-----------------------------------------------------------------------------
(* The walk and the files. *)

\* A path has one place in the walk.
LEMMA RankIs ==
    /\ \A w \in DOMAIN Walk : Walk[w] \in Paths /\ Rank(Walk[w]) = w
    /\ \A p \in Paths : p.file \in Files /\ Rank(p) \in Nat /\ Rank(p) \in DOMAIN Walk /\ Walk[Rank(p)] = p
<1> DOMAIN Walk = 1..Len(Walk)
    BY WalkAssumption
<1>1. ASSUME NEW w \in DOMAIN Walk PROVE Walk[w] \in Paths /\ Rank(Walk[w]) = w
    BY WalkAssumption DEF Paths, Range, Rank, IsInjective
<1>2. ASSUME NEW p \in Paths PROVE p.file \in Files /\ Rank(p) \in Nat /\ Rank(p) \in DOMAIN Walk /\ Walk[Rank(p)] = p
    <2>1. PICK w \in DOMAIN Walk : p = Walk[w]
        BY DEF Paths, Range
    <2>2. Rank(p) = w /\ w \in 1..Len(Walk)
        BY <2>1, <1>1
    <2>3. p \in [dir : STRING, file : Files]
        BY <2>1, WalkAssumption, ElementOfSeq
    <2> QED BY <2>1, <2>2, <2>3, WalkAssumption
<1> QED BY <1>1, <1>2

\* The recursive definition of Found says of it what its equation says.
LEMMA FoundIs ==
    \A n \in 0..Len(Walk) : Found[n] =
        IF n = 0 THEN <<>>
        ELSE IF disk[Walk[n].file] = Absent THEN Found[n - 1]
        ELSE Append(Found[n - 1], Walk[n])
<1> DEFINE N == Len(Walk)
           Step(n, s) == IF disk[Walk[n].file] = Absent THEN s ELSE Append(s, Walk[n])
           step == [n \in 1..N |-> [s \in Seq(Paths) |-> Step(n, s)]]
           Eq(f) == f = [n \in 0..N |-> IF n = 0 THEN <<>> ELSE Step(n, f[n - 1])]
<1>1. N \in Nat /\ DOMAIN Walk = 1..N
    BY WalkAssumption
<1>2. ASSUME NEW n \in 1..N, NEW s \in Seq(Paths) PROVE Step(n, s) \in Seq(Paths)
    BY <1>1, RankIs
<1>3. step \in Steps(N, Seq(Paths))
    <2> HIDE DEF N, Step
    <2> QED BY <1>2 DEF Steps
<1>4. PICK f : Recursion(f, N, Seq(Paths), <<>>, step)
    <2> HIDE DEF step, N
    <2>1. <<>> \in Seq(Paths) /\ N \in Nat
        BY <1>1
    <2> QED BY <1>3, <2>1, RecursionUpTo
<1>5. \A n \in 1..N : f[n] = Step(n, f[n - 1])
    <2> HIDE DEF N, Step
    <2> SUFFICES ASSUME NEW n \in 1..N PROVE f[n] = Step(n, f[n - 1])
        OBVIOUS
    <2> f[n - 1] \in Seq(Paths)
        BY <1>1, <1>4 DEF Recursion
    <2> QED BY <1>4 DEF Recursion
<1>6. Eq(f)
    <2> HIDE DEF N, Step
    <2> QED BY <1>4, <1>5 DEF Recursion
<1>7. Found = CHOOSE g : Eq(g)
    BY DEF Found
<1>8. Eq(Found)
    <2> HIDE DEF Eq
    <2> QED BY <1>6, <1>7
<1> QED BY <1>8

\* The walk finds the paths whose file is there, in order.
Present == {p \in Paths : disk[p.file] # Absent}

\* The first n places of the walk: each path that is there, once, in the walk's order.
LEMMA FoundInOrder ==
    \A n \in 0..Len(Walk) :
        /\ Found[n] \in Seq(Paths)
        /\ Range(Found[n]) = {p \in Present : Rank(p) <= n}
        /\ \A k, l \in DOMAIN Found[n] : k < l => Rank(Found[n][k]) < Rank(Found[n][l])
<1> DEFINE Good(n) ==
              /\ Found[n] \in Seq(Paths)
              /\ Range(Found[n]) = {p \in Present : Rank(p) <= n}
              /\ \A k, l \in DOMAIN Found[n] : k < l => Rank(Found[n][k]) < Rank(Found[n][l])
           S == {n \in 0..Len(Walk) : Good(n)}
<1>0. Len(Walk) \in Nat /\ DOMAIN Walk = 1..Len(Walk)
    BY WalkAssumption
<1>1. 0 \in S
    <2>1. Found[0] = <<>>
        BY <1>0, FoundIs
    <2>2. \A p \in Paths : ~(Rank(p) <= 0)
        BY <1>0, RankIs
    <2>3. <<>> \in Seq(Paths) /\ DOMAIN <<>> = {} /\ Range(<<>>) = {}
        BY DEF Range
    <2>4. {p \in Present : Rank(p) <= 0} = {}
        BY <2>2 DEF Present
    <2>5. Good(0)
        BY <2>1, <2>3, <2>4
    <2> HIDE DEF Good
    <2> QED BY <1>0, <2>5
<1>2. ASSUME NEW n \in 0..Len(Walk) - 1, n \in S
      PROVE  n + 1 \in S
    <2> DEFINE s == Found[n]
               p == Walk[n + 1]
    <2>0. n \in Nat /\ n + 1 \in 1..Len(Walk) /\ n + 1 \in 0..Len(Walk) /\ n + 1 # 0 /\ (n + 1) - 1 = n
        BY <1>0
    <2>1. s \in Seq(Paths) /\ Good(n)
        BY <1>2
    <2>2. p \in Paths /\ Rank(p) = n + 1
        BY <1>0, <2>0, RankIs
    <2>3. \A q \in Paths : Rank(q) \in Nat /\ (Rank(q) = n + 1 => q = p)
        BY RankIs
    <2>4. CASE disk[p.file] = Absent
        <3>1. Found[n + 1] = s
            BY <2>0, <2>4, FoundIs
        <3>2. {q \in Present : Rank(q) <= n + 1} = {q \in Present : Rank(q) <= n}
            BY <2>0, <2>3, <2>4 DEF Present
        <3> QED BY <2>0, <2>1, <3>1, <3>2
    <2>5. CASE disk[p.file] # Absent
        <3>1. Found[n + 1] = Append(s, p)
            BY <2>0, <2>5, FoundIs
        <3> DEFINE t == Append(s, p)
        <3>2. /\ t \in Seq(Paths) /\ Len(t) = Len(s) + 1
              /\ \A k \in 1..Len(s) : t[k] = s[k]
              /\ t[Len(s) + 1] = p
              /\ DOMAIN t = 1..Len(t) /\ DOMAIN s = 1..Len(s) /\ Len(s) \in Nat
            BY <2>1, <2>2, AppendProperties, LenProperties
        <3>3. Range(t) = Range(s) \cup {p}
            <4> HIDE DEF s, p, t
            <4> QED BY <3>2 DEF Range
        <3>4. {q \in Present : Rank(q) <= n + 1} = {q \in Present : Rank(q) <= n} \cup {p}
            <4> HIDE DEF p
            <4> QED BY <2>0, <2>2, <2>3, <2>5 DEF Present
        <3>5. ASSUME NEW k \in DOMAIN t, NEW l \in DOMAIN t, k < l
              PROVE  Rank(t[k]) < Rank(t[l])
            <4>1. CASE l = Len(t)
                <5>1. t[k] \in Range(s) /\ t[l] = p
                    <6> HIDE DEF s, p, t
                    <6> QED BY <3>2, <3>5, <4>1 DEF Range
                <5>2. t[k] \in Paths /\ Rank(t[k]) <= n
                    BY <2>1, <5>1 DEF Present
                <5> QED BY <2>0, <2>2, <2>3, <5>1, <5>2
            <4>2. CASE l # Len(t)
                <5>1. k \in DOMAIN s /\ l \in DOMAIN s /\ t[k] = s[k] /\ t[l] = s[l]
                    <6> HIDE DEF s, p, t
                    <6> QED BY <3>2, <3>5, <4>2
                <5> QED BY <2>1, <3>5, <5>1
            <4> QED BY <4>1, <4>2
        <3> QED BY <2>0, <2>1, <3>1, <3>2, <3>3, <3>4, <3>5
    <2> QED BY <2>4, <2>5
<1>3. 0..Len(Walk) \subseteq S
    <2> HIDE DEF S
    <2>1. \A n \in 0..Len(Walk) - 1 : n \in S => n + 1 \in S
        BY <1>2
    <2> QED BY <1>0, <1>1, <2>1, UpToInduction
<1> QED BY <1>3

\* The records of a file are items of its path, numbered in order.
LEMMA EmittedIs ==
    ASSUME disk \in Disks, NEW p \in Paths
    PROVE  /\ Emitted(p) \in Seq(Item)
           /\ \A k \in DOMAIN Emitted(p) : Emitted(p)[k].path = p /\ Emitted(p)[k].nth = k
           /\ disk[p.file] = Absent => Emitted(p) = <<>>
<1> DEFINE content == IF disk[p.file] = Absent THEN <<>> ELSE disk[p.file]
<1>1. content \in Seq(Record)
    <2>1. p.file \in Files
        BY RankIs
    <2>2. disk[p.file] \in Contents[p.file] \cup {Absent}
        BY <2>1 DEF Disks
    <2> QED BY <2>1, <2>2, ContentsAssumption
<1>2. Emitted(p) = [k \in DOMAIN content |-> [path |-> p, nth |-> k, rec |-> content[k]]]
    BY DEF Emitted
<1>3. disk[p.file] = Absent => content = <<>>
    OBVIOUS
<1> HIDE DEF content
<1>4. Len(content) \in Nat /\ DOMAIN content = 1..Len(content)
    BY <1>1
<1>5. \A k \in 1..Len(content) : [path |-> p, nth |-> k, rec |-> content[k]] \in Item
    BY <1>1 DEF Item
<1>6. Emitted(p) \in Seq(Item)
    BY <1>2, <1>4, <1>5
<1>7. \A k \in DOMAIN Emitted(p) : Emitted(p)[k].path = p /\ Emitted(p)[k].nth = k
    BY <1>2
<1>8. disk[p.file] = Absent => Emitted(p) = <<>>
    BY <1>2, <1>3
<1> QED BY <1>6, <1>7, <1>8

\* What is stated is stated by a file that is there.
LEMMA StatedIs ==
    ASSUME disk \in Disks
    PROVE  /\ Stated \subseteq Item
           /\ \A s \in Stated : s.path \in Present /\ s \in Range(Emitted(s.path))
           /\ \A p \in Paths : Range(Emitted(p)) \subseteq Stated
<1>1. ASSUME NEW s \in Stated
      PROVE  s \in Item /\ s.path \in Present /\ s \in Range(Emitted(s.path))
    <2>1. PICK p \in Paths : s \in Range(Emitted(p))
        BY DEF Stated
    <2>2. PICK k \in DOMAIN Emitted(p) : s = Emitted(p)[k]
        BY <2>1 DEF Range
    <2>3. s \in Item /\ s.path = p
        BY <2>2, EmittedIs, ElementOfSeq, LenProperties
    <2>4. disk[p.file] # Absent
        BY <2>2, EmittedIs
    <2> QED BY <2>1, <2>3, <2>4 DEF Present
<1>2. \A p \in Paths : Range(Emitted(p)) \subseteq Stated
    BY DEF Stated
<1> QED BY <1>1, <1>2

\* The order in which a run reads has no cycles of two.
LEMMA BeforeIs ==
    ASSUME NEW s \in Item, NEW t \in Item, Before(s, t)
    PROVE  ~Before(t, s)
<1>1. s.path \in Paths /\ t.path \in Paths /\ s.nth \in Nat /\ t.nth \in Nat
    BY DEF Item
<1>2. Rank(s.path) \in Nat /\ Rank(t.path) \in Nat
    BY <1>1, RankIs
<1> QED BY <1>1, <1>2 DEF Before

\* Two queues in a row: taking from the first takes from both, and moving the
\* head of the second to the end of the first leaves them as they are.
LEMMA JoinedTail ==
    ASSUME NEW S, NEW s \in Seq(S), NEW t \in Seq(S), s # <<>>
    PROVE  /\ Tail(s) \in Seq(S) /\ Head(s) \in S /\ Len(Tail(s)) = Len(s) - 1
           /\ s \o t \in Seq(S) /\ Tail(s) \o t \in Seq(S)
           /\ Head(s) = (s \o t)[1]
           /\ Len(Tail(s) \o t) = Len(s \o t) - 1
           /\ \A k \in DOMAIN (Tail(s) \o t) : k + 1 \in DOMAIN (s \o t) /\ (Tail(s) \o t)[k] = (s \o t)[k + 1]
<1>1. /\ Tail(s) \in Seq(S) /\ Head(s) \in S /\ Len(Tail(s)) = Len(s) - 1
      /\ \A k \in 1..Len(Tail(s)) : Tail(s)[k] = s[k + 1]
      /\ Len(s) \in Nat /\ Len(t) \in Nat /\ Len(s) >= 1 /\ Head(s) = s[1]
    BY HeadTailProperties, EmptySeq
<1>2. /\ s \o t \in Seq(S) /\ Len(s \o t) = Len(s) + Len(t)
      /\ \A k \in 1..Len(s) + Len(t) : (s \o t)[k] = IF k <= Len(s) THEN s[k] ELSE t[k - Len(s)]
    BY ConcatProperties
<1>3. /\ Tail(s) \o t \in Seq(S) /\ Len(Tail(s) \o t) = Len(s) - 1 + Len(t)
      /\ \A k \in 1..Len(s) - 1 + Len(t) :
            (Tail(s) \o t)[k] = IF k <= Len(s) - 1 THEN Tail(s)[k] ELSE t[k - (Len(s) - 1)]
    BY <1>1, ConcatProperties
<1>4. DOMAIN (s \o t) = 1..Len(s \o t) /\ DOMAIN (Tail(s) \o t) = 1..Len(Tail(s) \o t)
    BY <1>2, <1>3, LenProperties
<1>5. ASSUME NEW k \in DOMAIN (Tail(s) \o t)
      PROVE  k + 1 \in DOMAIN (s \o t) /\ (Tail(s) \o t)[k] = (s \o t)[k + 1]
    <2>1. k \in 1..Len(s) - 1 + Len(t) /\ k + 1 \in 1..Len(s) + Len(t)
        BY <1>1, <1>2, <1>3, <1>4
    <2>2. CASE k <= Len(s) - 1
        BY <2>1, <2>2, <1>1, <1>2, <1>3, <1>4
    <2>3. CASE ~(k <= Len(s) - 1)
        <3>1. k - (Len(s) - 1) = (k + 1) - Len(s)
            BY <2>1, <1>1
        <3> QED BY <2>1, <2>3, <3>1, <1>1, <1>2, <1>3, <1>4
    <2> QED BY <2>2, <2>3
<1> QED BY <1>1, <1>2, <1>3, <1>4, <1>5

\* Moving the head of one sequence to the end of another leaves both in order.
LEMMA JoinedMove ==
    ASSUME NEW S, NEW s \in Seq(S), NEW t \in Seq(S), t # <<>>
    PROVE  /\ Append(s, Head(t)) \in Seq(S) /\ Tail(t) \in Seq(S)
           /\ Len(Append(s, Head(t))) = Len(s) + 1
           /\ s # <<>> => Head(Append(s, Head(t))) = Head(s)
           /\ Append(s, Head(t)) # <<>>
           /\ Append(s, Head(t)) \o Tail(t) = s \o t
<1>1. /\ Tail(t) \in Seq(S) /\ Head(t) \in S /\ Len(Tail(t)) = Len(t) - 1
      /\ \A k \in 1..Len(Tail(t)) : Tail(t)[k] = t[k + 1]
      /\ Len(s) \in Nat /\ Len(t) \in Nat /\ Len(t) >= 1 /\ Head(t) = t[1]
    BY HeadTailProperties, EmptySeq
<1> DEFINE u == Append(s, Head(t))
<1>2. u \in Seq(S) /\ Len(u) = Len(s) + 1 /\ u # <<>> /\ u[Len(s) + 1] = Head(t)
      /\ \A k \in 1..Len(s) : u[k] = s[k]
    BY <1>1, AppendProperties
<1>3. s # <<>> => Head(u) = Head(s)
    <2>1. s # <<>> => Len(s) >= 1 /\ Head(s) = s[1]
        BY EmptySeq
    <2>2. Head(u) = u[1]
        BY <1>2
    <2> QED BY <2>1, <2>2, <1>1, <1>2
<1> HIDE DEF u
<1>4. /\ s \o t \in Seq(S) /\ Len(s \o t) = Len(s) + Len(t)
      /\ \A k \in 1..Len(s) + Len(t) : (s \o t)[k] = IF k <= Len(s) THEN s[k] ELSE t[k - Len(s)]
    BY ConcatProperties
<1>5. /\ u \o Tail(t) \in Seq(S) /\ Len(u \o Tail(t)) = Len(s) + Len(t)
      /\ \A k \in 1..Len(s) + Len(t) :
            (u \o Tail(t))[k] = IF k <= Len(s) + 1 THEN u[k] ELSE Tail(t)[k - (Len(s) + 1)]
    <2>1. Len(u) + Len(Tail(t)) = Len(s) + Len(t)
        BY <1>1, <1>2
    <2>2. /\ u \o Tail(t) \in Seq(S) /\ Len(u \o Tail(t)) = Len(u) + Len(Tail(t))
          /\ \A k \in 1..Len(u) + Len(Tail(t)) :
                (u \o Tail(t))[k] = IF k <= Len(u) THEN u[k] ELSE Tail(t)[k - Len(u)]
        BY <1>1, <1>2, ConcatProperties
    <2>3. Len(u) = Len(s) + 1
        BY <1>2
    <2> QED BY <2>1, <2>2, <2>3
<1>6. ASSUME NEW k \in 1..Len(s) + Len(t) PROVE (u \o Tail(t))[k] = (s \o t)[k]
    <2>1. CASE k <= Len(s)
        BY <2>1, <1>1, <1>2, <1>4, <1>5
    <2>2. CASE k = Len(s) + 1
        BY <2>2, <1>1, <1>2, <1>4, <1>5
    <2>3. CASE k > Len(s) + 1
        <3>1. k - (Len(s) + 1) \in 1..Len(Tail(t)) /\ (k - (Len(s) + 1)) + 1 = k - Len(s)
            BY <2>3, <1>1
        <3>2. Tail(t)[k - (Len(s) + 1)] = t[k - Len(s)]
            BY <3>1, <1>1
        <3> QED BY <2>3, <3>2, <1>1, <1>4, <1>5
    <2>4. Len(s) \in Nat /\ Len(t) \in Nat
        BY <1>1
    <2>5. k <= Len(s) \/ k = Len(s) + 1 \/ k > Len(s) + 1
        BY <2>4
    <2> QED BY <2>1, <2>2, <2>3, <2>5
<1>7. u \o Tail(t) = s \o t
    BY <1>4, <1>5, <1>6, SeqEqual
<1> QED BY <1>1, <1>2, <1>3, <1>7 DEF u

-----------------------------------------------------------------------------
(* The processes of a run. *)

\* The stages of a run.
Stage(i) ==
    /\ run[i].pc = "idle" => run[i] = IdleRun
    /\ run[i].pc \in {"idle", "delete"} <=> run[i].plugin = "none"
    /\ run[i].plugin = "none" =>
          run[i].pipe = <<>> /\ run[i].out = <<>> /\ run[i].read = 0 /\ run[i].written = 0
    /\ run[i].pc \in {"to", "insert"} => run[i].pipe # <<>> /\ Line(i).rec.type = "relation"
Counts(i) ==
    /\ run[i].deleted <= Len(run[i].files)
    /\ run[i].read <= run[i].written /\ run[i].written <= Len(run[i].files)
    /\ Len(run[i].pipe) <= StdoutCap
    /\ run[i].from < next_id /\ run[i].to < next_id

TypeInv == TypeOK /\ \A i \in Runs : Stage(i)

\* A step of run i leaves the other runs alone.
Only(i) == run' \in [Runs -> RunStates] /\ \A j \in Runs \ {i} : run'[j] = run[j]

\* A run that is not active.
LEMMA IdleRunIs == IdleRun \in RunStates
BY DEF IdleRun, RunStates

\* A step of one run leaves the others alone.
LEMMA TurnIs ==
    ASSUME NEW i \in Runs, NEW r \in RunStates, run \in [Runs -> RunStates],
           run' = [run EXCEPT ![i] = r]
    PROVE  Only(i) /\ run'[i] = r
BY DEF Only

\* What each step makes of its run.
LEMMA CollectTurns ==
    ASSUME TypeInv, NEW i \in Runs, Collect(i), run' # run
    PROVE  /\ Only(i)
           /\ run'[i] = [IdleRun EXCEPT !.pc = "delete", !.files = Found[Len(Walk)]]
           /\ run[i] = IdleRun
           /\ dirty' = [dirty EXCEPT ![i] = \E j \in Runs : dirty[j]]
<1>1. Found[Len(Walk)] \in Seq(Paths)
    BY FoundInOrder, WalkAssumption
<1>2. run[i] = IdleRun /\ run \in [Runs -> RunStates]
    BY DEF TypeInv, TypeOK, Stage, Collect
<1>3. /\ run' = [run EXCEPT ![i].pc = "delete", ![i].files = Found[Len(Walk)]]
      /\ dirty' = [dirty EXCEPT ![i] = \E j \in Runs : dirty[j]]
    BY DEF Collect
<1> QED BY <1>1, <1>2, <1>3, IdleRunIs DEF Only, RunStates

\* The next file's rows are deleted.
LEMMA DeleteTurns ==
    ASSUME TypeInv, NEW i \in Runs, run[i].pc = "delete", run' = [run EXCEPT ![i].deleted = @ + 1]
    PROVE  Only(i) /\ run'[i] = [run[i] EXCEPT !.deleted = @ + 1]
<1> DEFINE r == [run[i] EXCEPT !.deleted = @ + 1]
<1>0. run \in [Runs -> RunStates] /\ run[i] \in RunStates
    BY DEF TypeInv, TypeOK
<1>1. run \in [Runs -> RunStates] /\ run[i] \in RunStates /\ run[i].deleted + 1 \in Nat
    BY <1>0, SMTT(20) DEF RunStates
<1>2. r \in RunStates
    BY <1>1 DEF RunStates
<1>3. run' = [run EXCEPT ![i] = r]
    BY <1>1
<1> HIDE DEF r
<1>4. Only(i) /\ run'[i] = r
    BY <1>1, <1>2, <1>3, TurnIs
<1> QED BY <1>4 DEF r

\* The plugin starts with nothing read.
LEMMA SpawnTurns ==
    ASSUME TypeInv, NEW i \in Runs, Spawn(i)
    PROVE  Only(i) /\ run'[i] = [run[i] EXCEPT !.pc = "ingest", !.plugin = "running"]
<1> DEFINE r == [run[i] EXCEPT !.pc = "ingest", !.plugin = "running"]
<1>1. run \in [Runs -> RunStates] /\ run[i] \in RunStates
    BY DEF TypeInv, TypeOK
<1>2. r \in RunStates
    BY <1>1 DEF RunStates
<1>3. run' = [run EXCEPT ![i] = r]
    BY <1>1 DEF Spawn
<1> HIDE DEF r
<1>4. Only(i) /\ run'[i] = r
    BY <1>1, <1>2, <1>3, TurnIs
<1> QED BY <1>4 DEF r

\* One more path is in the plugin's stdin.
LEMMA WriterTurns ==
    ASSUME TypeInv, NEW i \in Runs, WriterWrite(i)
    PROVE  Only(i) /\ run'[i] = [run[i] EXCEPT !.written = @ + 1]
<1> DEFINE r == [run[i] EXCEPT !.written = @ + 1]
<1>1. run \in [Runs -> RunStates] /\ run[i] \in RunStates /\ run[i].written + 1 \in Nat
    BY DEF TypeInv, TypeOK, RunStates
<1>2. r \in RunStates
    BY <1>1 DEF RunStates
<1>3. run' = [run EXCEPT ![i] = r]
    BY <1>1 DEF WriterWrite
<1> HIDE DEF r
<1>4. Only(i) /\ run'[i] = r
    BY <1>1, <1>2, <1>3, TurnIs
<1> QED BY <1>4 DEF r

\* The plugin takes the next path and has its lines to print.
LEMMA ReadTurns ==
    ASSUME TypeInv, NEW i \in Runs, PluginRead(i)
    PROVE  /\ Only(i)
           /\ run[i].read + 1 \in DOMAIN run[i].files
           /\ run[i].files[run[i].read + 1] \in Paths
           /\ run'[i] = [run[i] EXCEPT !.read = @ + 1,
                                       !.out = Emitted(run[i].files[run[i].read + 1])]
<1>1. /\ run \in [Runs -> RunStates] /\ run[i] \in RunStates
      /\ run[i].read < run[i].written /\ run[i].written <= Len(run[i].files)
    BY DEF TypeInv, TypeOK, PluginRead
<1>2. run[i].files \in Seq(Paths) /\ run[i].read \in Nat /\ run[i].written \in Nat
    BY <1>1 DEF RunStates
<1>3. run[i].read + 1 \in DOMAIN run[i].files /\ run[i].files[run[i].read + 1] \in Paths
    <2>1. run[i].read < run[i].written /\ run[i].written <= Len(run[i].files)
        BY <1>1
    <2>2. Len(run[i].files) \in Nat
        BY <1>2, LenProperties
    <2>3. run[i].read + 1 \in 1..Len(run[i].files)
        BY <1>2, <2>1, <2>2
    <2> QED BY <1>2, <2>3, ElementOfSeq, LenProperties
<1>4. Emitted(run[i].files[run[i].read + 1]) \in Seq(Item)
    BY <1>3, EmittedIs DEF TypeInv, TypeOK
<1> DEFINE r == [run[i] EXCEPT !.read = @ + 1, !.out = Emitted(run[i].files[run[i].read + 1])]
<1>5. r \in RunStates
    BY <1>1, <1>4, run[i].read + 1 \in Nat DEF RunStates
<1>6. run' = [run EXCEPT ![i] = r]
    BY <1>1 DEF PluginRead
<1> HIDE DEF r
<1>7. Only(i) /\ run'[i] = r
    BY <1>1, <1>5, <1>6, TurnIs
<1> QED BY <1>3, <1>7 DEF r

\* One line goes from the plugin into its stdout.
LEMMA WriteTurns ==
    ASSUME TypeInv, NEW i \in Runs, PluginWrite(i)
    PROVE  Only(i) /\ run'[i] = [run[i] EXCEPT !.pipe = Append(@, Head(run[i].out)), !.out = Tail(@)]
<1> DEFINE r == [run[i] EXCEPT !.pipe = Append(@, Head(run[i].out)), !.out = Tail(@)]
<1>1. /\ run \in [Runs -> RunStates] /\ run[i] \in RunStates
      /\ run[i].pipe \in Seq(Item) /\ run[i].out \in Seq(Item)
    BY DEF TypeInv, TypeOK, RunStates
<1>2. Append(run[i].pipe, Head(run[i].out)) \in Seq(Item) /\ Tail(run[i].out) \in Seq(Item)
    BY <1>1, JoinedMove DEF PluginWrite
<1>3. r \in RunStates
    BY <1>1, <1>2 DEF RunStates
<1>4. run' = [run EXCEPT ![i] = r]
    BY <1>1 DEF PluginWrite
<1> HIDE DEF r
<1>5. Only(i) /\ run'[i] = r
    BY <1>1, <1>3, <1>4, TurnIs
<1> QED BY <1>5 DEF r

\* The plugin ends by itself.
LEMMA ExitTurns ==
    ASSUME TypeInv, NEW i \in Runs, PluginExit(i)
    PROVE  Only(i) /\ run'[i] = [run[i] EXCEPT !.plugin = "exited"]
<1> DEFINE r == [run[i] EXCEPT !.plugin = "exited"]
<1>1. run \in [Runs -> RunStates] /\ run[i] \in RunStates
    BY DEF TypeInv, TypeOK
<1>2. r \in RunStates
    BY <1>1 DEF RunStates
<1>3. run' = [run EXCEPT ![i] = r]
    BY <1>1 DEF PluginExit
<1> HIDE DEF r
<1>4. Only(i) /\ run'[i] = r
    BY <1>1, <1>2, <1>3, TurnIs
<1> QED BY <1>4 DEF r

\* The plugin dies with the lines it had not printed.
LEMMA DiesTurns ==
    ASSUME TypeInv, NEW i \in Runs, PluginDies(i)
    PROVE  Only(i) /\ run'[i] = [run[i] EXCEPT !.plugin = "exited", !.out = <<>>]
<1> DEFINE r == [run[i] EXCEPT !.plugin = "exited", !.out = <<>>]
<1>1. run \in [Runs -> RunStates] /\ run[i] \in RunStates
    BY DEF TypeInv, TypeOK
<1>2. r \in RunStates
    BY <1>1, <<>> \in Seq(Item) DEF RunStates
<1>3. run' = [run EXCEPT ![i] = r]
    BY <1>1 DEF PluginDies
<1> HIDE DEF r
<1>4. Only(i) /\ run'[i] = r
    BY <1>1, <1>2, <1>3, TurnIs
<1> QED BY <1>4 DEF r

\* The indexer is done with a line.
LEMMA ConsumeTurns ==
    ASSUME TypeInv, NEW i \in Runs, run[i].pipe # <<>>, Consume(i)
    PROVE  /\ Only(i)
           /\ run'[i] = [run[i] EXCEPT !.pipe = Tail(@), !.pc = "ingest", !.from = 0, !.to = 0]
<1> DEFINE r == [run[i] EXCEPT !.pipe = Tail(@), !.pc = "ingest", !.from = 0, !.to = 0]
<1>1. run \in [Runs -> RunStates] /\ run[i] \in RunStates /\ run[i].pipe \in Seq(Item)
    BY DEF TypeInv, TypeOK, RunStates
<1>2. Tail(run[i].pipe) \in Seq(Item)
    BY <1>1, HeadTailProperties
<1>3. r \in RunStates
    BY <1>1, <1>2 DEF RunStates
<1>4. run' = [run EXCEPT ![i] = r]
    BY <1>1 DEF Consume
<1> HIDE DEF r
<1>5. Only(i) /\ run'[i] = r
    BY <1>1, <1>3, <1>4, TurnIs
<1> QED BY <1>5 DEF r

\* A SELECT that finds a row.
LEMMA ResolveTurns ==
    ASSUME TypeInv, NEW i \in Runs, NEW id \in {e.id : e \in entities},
           \/ run' = [run EXCEPT ![i].pc = "to", ![i].from = id]
           \/ run' = [run EXCEPT ![i].pc = "insert", ![i].to = id]
    PROVE  /\ Only(i) /\ id \in Nat /\ id < next_id
           /\ \/ run'[i] = [run[i] EXCEPT !.pc = "to", !.from = id]
              \/ run'[i] = [run[i] EXCEPT !.pc = "insert", !.to = id]
<1>1. id \in Nat /\ id < next_id
    BY DEF TypeInv, TypeOK, StoreIntegrity
<1>2. run \in [Runs -> RunStates] /\ run[i] \in RunStates
    BY DEF TypeInv, TypeOK
<1>3. CASE run' = [run EXCEPT ![i].pc = "to", ![i].from = id]
    <2> DEFINE r == [run[i] EXCEPT !.pc = "to", !.from = id]
    <2>1. r \in RunStates
        BY <1>1, <1>2 DEF RunStates
    <2>2. run' = [run EXCEPT ![i] = r]
        BY <1>2, <1>3
    <2> HIDE DEF r
    <2>3. Only(i) /\ run'[i] = r
        BY <1>2, <2>1, <2>2, TurnIs
    <2> QED BY <1>1, <2>3 DEF r
<1>4. CASE run' = [run EXCEPT ![i].pc = "insert", ![i].to = id]
    <2> DEFINE r == [run[i] EXCEPT !.pc = "insert", !.to = id]
    <2>1. r \in RunStates
        BY <1>1, <1>2 DEF RunStates
    <2>2. run' = [run EXCEPT ![i] = r]
        BY <1>2, <1>4
    <2> HIDE DEF r
    <2>3. Only(i) /\ run'[i] = r
        BY <1>2, <2>1, <2>2, TurnIs
    <2> QED BY <1>1, <2>3 DEF r
<1> QED BY <1>1, <1>3, <1>4

\* A run ends, or is killed.
LEMMA EndTurns ==
    ASSUME TypeInv, NEW i \in Runs, run' = [run EXCEPT ![i] = IdleRun]
    PROVE  Only(i) /\ run'[i] = IdleRun
BY IdleRunIs DEF TypeInv, TypeOK, Only

RunsTyped == run \in [Runs -> RunStates] /\ \A i \in Runs : Counts(i) /\ Stage(i)

\* It is enough to look at the run that takes the step.
LEMMA OneRunTyped ==
    ASSUME TypeInv, next_id' \in Nat, next_id <= next_id', NEW i \in Runs, Only(i),
           run'[i] \in RunStates => Counts(i)' /\ Stage(i)'
    PROVE  RunsTyped'
<1>1. run' \in [Runs -> RunStates]
    BY DEF Only
<1>2. ASSUME NEW j \in Runs, j # i PROVE Counts(j)' /\ Stage(j)'
    <2>1. run'[j] = run[j] /\ run[j] \in RunStates /\ next_id \in Nat
        BY <1>2 DEF Only, TypeInv, TypeOK
    <2>2. Counts(j) /\ Stage(j) /\ run[j].from \in Nat /\ run[j].to \in Nat
        BY <2>1 DEF TypeInv, TypeOK, Counts, RunStates
    <2> QED BY <2>1, <2>2 DEF Counts, Stage, Line
<1> QED BY <1>1, <1>2 DEF RunsTyped

\* The types of the fields of a run.
LEMMA FieldTypes ==
    ASSUME TypeInv, NEW i \in Runs
    PROVE  /\ run \in [Runs -> RunStates] /\ run[i] \in RunStates
           /\ run[i].files \in Seq(Paths) /\ Len(run[i].files) \in Nat
           /\ run[i].out \in Seq(Item) /\ run[i].pipe \in Seq(Item)
           /\ Len(run[i].out) \in Nat /\ Len(run[i].pipe) \in Nat
           /\ run[i].deleted \in Nat /\ run[i].written \in Nat /\ run[i].read \in Nat
           /\ run[i].from \in Nat /\ run[i].to \in Nat /\ next_id \in Nat /\ next_id >= 1
           /\ StdoutCap \in Nat /\ StdoutCap >= 1
           /\ Counts(i) /\ Stage(i)
<1>1. run \in [Runs -> RunStates] /\ run[i] \in RunStates
    BY DEF TypeInv, TypeOK
<1>2. /\ run[i].files \in Seq(Paths) /\ run[i].out \in Seq(Item) /\ run[i].pipe \in Seq(Item)
      /\ run[i].deleted \in Nat /\ run[i].written \in Nat /\ run[i].read \in Nat
      /\ run[i].from \in Nat /\ run[i].to \in Nat
    BY <1>1 DEF RunStates
<1>3. next_id \in Nat /\ next_id >= 1 /\ Counts(i) /\ Stage(i)
    BY DEF TypeInv, TypeOK, Counts
<1>4. StdoutCap \in Nat /\ StdoutCap >= 1
    BY BoundsAssumption
<1> QED BY <1>1, <1>2, <1>3, <1>4

\* A run that goes away, or has just collected its files.
LEMMA FreshTyped ==
    ASSUME TypeInv, NEW i \in Runs, UNCHANGED next_id, Only(i),
           \/ run'[i] = IdleRun
           \/ /\ run'[i] = [IdleRun EXCEPT !.pc = "delete", !.files = Found[Len(Walk)]]
              /\ Found[Len(Walk)] \in Seq(Paths)
    PROVE  RunsTyped'
<1>1. next_id \in Nat /\ next_id >= 1 /\ StdoutCap \in Nat
    BY FieldTypes
<1>2. CASE run'[i] = IdleRun
    <2>1. Counts(i)' /\ Stage(i)'
        BY <1>1, <1>2 DEF Counts, Stage, IdleRun
    <2> QED BY <1>1, <2>1, OneRunTyped
<1>3. CASE run'[i] = [IdleRun EXCEPT !.pc = "delete", !.files = Found[Len(Walk)]]
           /\ Found[Len(Walk)] \in Seq(Paths)
    <2>1. Len(run'[i].files) \in Nat
        BY <1>3 DEF IdleRun
    <2>2. Counts(i)'
        BY <1>1, <1>3, <2>1 DEF Counts, IdleRun
    <2>3. Stage(i)'
        BY <1>3 DEF Stage, IdleRun
    <2> QED BY <1>1, <2>2, <2>3, OneRunTyped
<1> QED BY <1>2, <1>3

\* Taking a record from the pipe.
LEMMA ConsumeTyped ==
    ASSUME TypeInv, next_id' \in Nat, next_id <= next_id', NEW i \in Runs,
           run[i].pc \in {"ingest", "to", "insert"}, run[i].pipe # <<>>, Consume(i)
    PROVE  RunsTyped'
<1>1. Only(i) /\ run'[i] = [run[i] EXCEPT !.pipe = Tail(@), !.pc = "ingest", !.from = 0, !.to = 0]
    BY ConsumeTurns
<1>2. Len(Tail(run[i].pipe)) = Len(run[i].pipe) - 1
    BY FieldTypes, HeadTailProperties
<1>3. Counts(i)'
    BY <1>1, <1>2, FieldTypes DEF Counts, RunStates
<1>4. Stage(i)'
    BY <1>1, FieldTypes DEF Stage, RunStates
<1> QED BY <1>1, <1>3, <1>4, OneRunTyped

\* The line under work is there.
LEMMA AtWork ==
    ASSUME TypeInv, NEW i \in Runs,
           \/ Reading(i) \/ run[i].pc \in {"to", "insert"}
    PROVE  /\ run[i].pipe # <<>> /\ run[i].pc \in {"ingest", "to", "insert"}
           /\ Line(i) \in Item
           /\ Line(i).rec \in Record /\ Line(i).path \in Paths
<1>1. run[i].pipe # <<>> /\ run[i].pc \in {"ingest", "to", "insert"} /\ run[i].pipe \in Seq(Item)
    BY FieldTypes DEF Reading, Stage
<1>2. Line(i) \in Item
    BY <1>1, HeadTailProperties DEF Line
<1> QED BY <1>1, <1>2 DEF Item

\* Resolving one end of a relation.
LEMMA SelectTyped ==
    ASSUME TypeInv, UNCHANGED next_id, NEW i \in Runs, NEW id \in {e.id : e \in entities},
           \/ /\ Reading(i) /\ Line(i).rec.type = "relation"
              /\ run' = [run EXCEPT ![i].pc = "to", ![i].from = id]
           \/ run[i].pc = "to" /\ run' = [run EXCEPT ![i].pc = "insert", ![i].to = id]
    PROVE  RunsTyped'
<1>1. /\ Only(i) /\ id \in Nat /\ id < next_id
      /\ \/ run'[i] = [run[i] EXCEPT !.pc = "to", !.from = id]
         \/ run'[i] = [run[i] EXCEPT !.pc = "insert", !.to = id]
    BY ResolveTurns
<1>2. run[i].pipe # <<>> /\ run[i].pc \in {"ingest", "to"} /\ Head(run[i].pipe).rec.type = "relation"
    BY FieldTypes, AtWork DEF Reading, Stage, Line
<1>3. Counts(i)'
    BY <1>1, FieldTypes DEF Counts, RunStates
<1>4. Stage(i)'
    BY <1>1, <1>2, FieldTypes DEF Stage, RunStates, Line
<1> QED BY <1>1, <1>3, <1>4, FieldTypes, OneRunTyped

\* The steps of the indexer itself.
LEMMA IndexStepTyped ==
    ASSUME TypeInv, NEW i \in Runs, IndexStep(i), next_id' \in Nat, next_id <= next_id'
    PROVE  RunsTyped'
<1>1. CASE DeleteFile(i)
    <2>1. run[i].pc = "delete" /\ run[i].deleted < Len(run[i].files) /\ run' = [run EXCEPT ![i].deleted = @ + 1]
        BY <1>1 DEF DeleteFile
    <2>2. Only(i) /\ run'[i] = [run[i] EXCEPT !.deleted = @ + 1]
        BY <2>1, DeleteTurns
    <2>3. Counts(i)' /\ Stage(i)'
        BY <2>1, <2>2, FieldTypes DEF Counts, Stage, RunStates, IdleRun
    <2> QED BY <2>2, <2>3, OneRunTyped
<1>2. CASE Spawn(i)
    <2>1. Only(i) /\ run'[i] = [run[i] EXCEPT !.pc = "ingest", !.plugin = "running"]
        BY <1>2, SpawnTurns
    <2>2. Counts(i)' /\ Stage(i)'
        BY <2>1, FieldTypes DEF Counts, Stage, RunStates
    <2> QED BY <2>1, <2>2, OneRunTyped
<1>3. CASE SkipInvalid(i) \/ IngestEntity(i)
    <2>1. run[i].pc \in {"ingest", "to", "insert"} /\ run[i].pipe # <<>> /\ Consume(i)
        BY <1>3 DEF SkipInvalid, IngestEntity, Reading
    <2> QED BY <2>1, ConsumeTyped
<1>4. CASE ResolveFrom(i)
    <2>1. UNCHANGED next_id
        BY <1>4 DEF ResolveFrom, storeVars
    <2>2. CASE Consume(i)
        BY <1>4, <2>2, ConsumeTyped DEF ResolveFrom, Reading
    <2>3. CASE ~Consume(i)
        <3>1. PICK id \in Rows(Line(i).rec.from) : run' = [run EXCEPT ![i].pc = "to", ![i].from = id]
            BY <1>4, <2>3 DEF ResolveFrom
        <3>2. id \in {e.id : e \in entities}
            BY DEF Rows
        <3> QED BY <1>4, <2>1, <3>1, <3>2, SelectTyped DEF ResolveFrom
    <2> QED BY <2>2, <2>3
<1>5. CASE ResolveTo(i)
    <2>1. UNCHANGED next_id /\ run[i].pc = "to"
        BY <1>5 DEF ResolveTo, storeVars
    <2>2. CASE Consume(i)
        BY <2>1, <2>2, AtWork, ConsumeTyped
    <2>3. CASE ~Consume(i)
        <3>1. PICK id \in Rows(Line(i).rec.to) : run' = [run EXCEPT ![i].pc = "insert", ![i].to = id]
            BY <1>5, <2>3 DEF ResolveTo
        <3>2. id \in {e.id : e \in entities}
            BY DEF Rows
        <3> QED BY <2>1, <3>1, <3>2, SelectTyped
    <2> QED BY <2>2, <2>3
<1>6. CASE InsertRelation(i)
    <2>1. run[i].pc = "insert" /\ Consume(i)
        BY <1>6 DEF InsertRelation
    <2> QED BY <2>1, AtWork, ConsumeTyped
<1>7. CASE Finish(i)
    <2>1. UNCHANGED next_id /\ run' = [run EXCEPT ![i] = IdleRun]
        BY <1>7 DEF Finish, storeVars
    <2> QED BY <2>1, EndTurns, FreshTyped
<1> QED BY <1>1, <1>2, <1>3, <1>4, <1>5, <1>6, <1>7 DEF IndexStep

\* Those of its writer thread and of the plugin.
LEMMA PluginStepTyped ==
    ASSUME TypeInv, NEW i \in Runs, WriterWrite(i) \/ PluginStep(i), UNCHANGED next_id
    PROVE  RunsTyped'
<1>0. next_id' \in Nat /\ next_id <= next_id'
    BY FieldTypes
<1>1. CASE WriterWrite(i)
    <2>1. Only(i) /\ run'[i] = [run[i] EXCEPT !.written = @ + 1]
        BY <1>1, WriterTurns
    <2>2. Counts(i)' /\ Stage(i)'
        BY <1>1, <2>1, FieldTypes DEF Counts, Stage, RunStates, WriterWrite, Line
    <2> QED BY <1>0, <2>1, <2>2, OneRunTyped
<1>2. CASE PluginRead(i)
    <2>1. /\ Only(i)
          /\ run'[i] = [run[i] EXCEPT !.read = @ + 1, !.out = Emitted(run[i].files[run[i].read + 1])]
        BY <1>2, ReadTurns
    <2>2. Counts(i)' /\ Stage(i)'
        BY <1>2, <2>1, FieldTypes DEF Counts, Stage, RunStates, PluginRead, Line
    <2> QED BY <1>0, <2>1, <2>2, OneRunTyped
<1>3. CASE PluginWrite(i)
    <2>1. /\ Only(i)
          /\ run'[i] = [run[i] EXCEPT !.pipe = Append(@, Head(run[i].out)), !.out = Tail(@)]
        BY <1>3, WriteTurns
    <2>2. /\ Len(Append(run[i].pipe, Head(run[i].out))) = Len(run[i].pipe) + 1
          /\ run[i].pipe # <<>> => Head(Append(run[i].pipe, Head(run[i].out))) = Head(run[i].pipe)
          /\ Append(run[i].pipe, Head(run[i].out)) # <<>>
        BY <1>3, FieldTypes, JoinedMove, SMTT(20) DEF PluginWrite
    <2>3. Counts(i)'
        BY <1>3, <2>1, <2>2, FieldTypes, SMTT(30) DEF Counts, RunStates, PluginWrite
    <2>4. Stage(i)'
        BY <1>3, <2>1, <2>2, FieldTypes DEF Stage, RunStates, PluginWrite, Line
    <2> QED BY <1>0, <2>1, <2>3, <2>4, OneRunTyped
<1>4. CASE PluginExit(i)
    <2>1. Only(i) /\ run'[i] = [run[i] EXCEPT !.plugin = "exited"]
        BY <1>4, ExitTurns
    <2>2. Counts(i)' /\ Stage(i)'
        BY <1>4, <2>1, FieldTypes DEF Counts, Stage, RunStates, PluginExit, Line
    <2> QED BY <1>0, <2>1, <2>2, OneRunTyped
<1> QED BY <1>1, <1>2, <1>3, <1>4 DEF PluginStep

\* Deaths and statements that fail.
LEMMA FaultTyped ==
    ASSUME TypeInv, NEW i \in Runs, PluginDies(i) \/ Kill(i) \/ StatementFails(i), UNCHANGED next_id
    PROVE  RunsTyped'
<1>0. next_id' \in Nat /\ next_id <= next_id'
    BY FieldTypes
<1>1. CASE PluginDies(i)
    <2>1. Only(i) /\ run'[i] = [run[i] EXCEPT !.plugin = "exited", !.out = <<>>]
        BY <1>1, DiesTurns
    <2>2. Counts(i)' /\ Stage(i)'
        BY <1>1, <2>1, FieldTypes DEF Counts, Stage, RunStates, PluginDies, Line
    <2> QED BY <1>0, <2>1, <2>2, OneRunTyped
<1>2. CASE Kill(i)
    <2>1. run' = [run EXCEPT ![i] = IdleRun]
        BY <1>2 DEF Kill
    <2> QED BY <2>1, EndTurns, FreshTyped
<1>3. CASE StatementFails(i)
    <2>1. CASE Consume(i) /\ (run[i].pc \in {"to", "insert"} \/ Reading(i))
        BY <1>0, <2>1, AtWork, ConsumeTyped
    <2>2. CASE run[i].pc = "delete" /\ run[i].deleted < Len(run[i].files) /\ run' = [run EXCEPT ![i].deleted = @ + 1]
        <3>1. Only(i) /\ run'[i] = [run[i] EXCEPT !.deleted = @ + 1]
            BY <2>2, DeleteTurns
        <3>2. Counts(i)' /\ Stage(i)'
            BY <2>2, <3>1, FieldTypes DEF Counts, Stage, RunStates, IdleRun
        <3> QED BY <1>0, <3>1, <3>2, OneRunTyped
    <2> QED BY <1>3, <2>1, <2>2 DEF StatementFails
<1> QED BY <1>1, <1>2, <1>3

\* The sequence of ids is ahead of the ids given out.
IntegrityInv == next_id \in Nat \ {0} /\ StoreIntegrity

\* A deletion takes the relations of its entities with it (ON DELETE CASCADE).
LEMMA DeletionKeepsIntegrity ==
    ASSUME IntegrityInv, NEW i \in Runs, DeleteFile(i)
    PROVE  IntegrityInv'
<1>1. PICK gone \in SUBSET entities :
        /\ entities' = entities \ gone /\ UNCHANGED next_id
        /\ relations' = {r \in relations : {r.from, r.to} \cap {e.id : e \in gone} = {}}
    BY DEF DeleteFile
<1>2. ASSUME NEW r \in relations'
      PROVE  {r.from, r.to} \subseteq {e.id : e \in entities'}
    <2>1. /\ {r.from, r.to} \subseteq {e.id : e \in entities}
          /\ {r.from, r.to} \cap {e.id : e \in gone} = {}
        BY <1>1 DEF IntegrityInv, StoreIntegrity
    <2> QED BY <1>1, <2>1
<1> QED BY <1>1, <1>2 DEF IntegrityInv, StoreIntegrity

\* krl_entity_insert gives a new row a new id, and none to a row that is there.
LEMMA InsertionKeepsIntegrity ==
    ASSUME IntegrityInv, NEW i \in Runs, IngestEntity(i)
    PROVE  IntegrityInv'
<1>1. PICK row :
        /\ row.id = next_id /\ UNCHANGED relations
        /\ \/ UNCHANGED <<entities, next_id>>
           \/ /\ \A e \in entities : ~SameKey(e, row)
              /\ entities' = entities \cup {row} /\ next_id' = next_id + 1
    <2> DEFINE row == [id |-> next_id, name |-> Line(i).rec.name, path |-> Line(i).path,
                  line |-> Line(i).rec.line]
    <2>1. row.id = next_id
        OBVIOUS
    <2> QED BY <2>1 DEF IngestEntity
<1>2. CASE UNCHANGED <<entities, next_id>>
    BY <1>1, <1>2 DEF IntegrityInv, StoreIntegrity
<1>3. CASE /\ \A e \in entities : ~SameKey(e, row)
           /\ entities' = entities \cup {row} /\ next_id' = next_id + 1
    <2>1. \A e \in entities : e.id \in 1..next_id - 1 /\ e.id # row.id
        BY <1>1 DEF IntegrityInv, StoreIntegrity
    <2>2. next_id' \in Nat \ {0} /\ \A e \in entities' : e.id \in 1..next_id' - 1
        BY <1>1, <1>3, <2>1 DEF IntegrityInv
    <2>3. \A e, g \in entities' : (e.id = g.id \/ SameKey(e, g)) => e = g
        BY <1>3, <2>1 DEF IntegrityInv, StoreIntegrity, SameKey
    <2>4. \A r \in relations' : {r.from, r.to} \subseteq {e.id : e \in entities'}
        BY <1>1, <1>3 DEF IntegrityInv, StoreIntegrity
    <2> QED BY <2>2, <2>3, <2>4 DEF IntegrityInv, StoreIntegrity
<1> QED BY <1>1, <1>2, <1>3

\* The foreign keys refuse a relation whose ends went away since they were read.
LEMMA RelationKeepsIntegrity ==
    ASSUME IntegrityInv, NEW i \in Runs, InsertRelation(i)
    PROVE  IntegrityInv'
<1>1. UNCHANGED <<entities, next_id>>
    BY DEF InsertRelation
<1>2. \/ UNCHANGED relations
      \/ \E from, to \in {e.id : e \in entities} :
            relations' = relations \cup {[from |-> from, to |-> to]}
    BY DEF InsertRelation
<1> QED BY <1>1, <1>2 DEF IntegrityInv, StoreIntegrity

\* Rows, ids and files keep their types.
TablesTyped ==
    /\ IntegrityInv
    /\ disk \in Disks
    /\ entities \in SUBSET [id : Nat, name : Names, path : Paths, line : Lines]
    /\ relations \in SUBSET [from : Nat, to : Nat]

\* The row a line becomes.
LEMMA IngestRow ==
    ASSUME TypeInv, NEW i \in Runs, IngestEntity(i)
    PROVE  [id |-> next_id, name |-> Line(i).rec.name, path |-> Line(i).path,
                  line |-> Line(i).rec.line]
                \in [id : Nat, name : Names, path : Paths, line : Lines]
<1>1. Line(i).rec \in Record /\ Line(i).rec.type = "entity" /\ Line(i).path \in Paths
    BY AtWork DEF IngestEntity
<1>2. Line(i).rec.name \in Names /\ Line(i).rec.line \in Lines
    BY <1>1 DEF Record
<1> QED BY <1>1, <1>2, FieldTypes

\* Types are kept: those of the tables and the files,
LEMMA StepKeepsTables ==
    ASSUME TypeInv, [Next]_vars
    PROVE  TablesTyped'
<1>0. TablesTyped
    BY DEF TypeInv, TypeOK, TablesTyped, IntegrityInv
<1>1. ASSUME UNCHANGED <<disk, storeVars>>
      PROVE  TablesTyped'
    BY <1>0, <1>1 DEF storeVars, TablesTyped, IntegrityInv, StoreIntegrity
<1>2. CASE UNCHANGED vars
    BY <1>1, <1>2 DEF vars
<1>3. ASSUME NEW f \in Files, NEW c \in Contents[f] \cup {Absent}, Edit(f, c)
      PROVE  TablesTyped'
    <2>1. UNCHANGED storeVars /\ disk' = [disk EXCEPT ![f] = c]
        BY <1>3 DEF Edit
    <2>2. disk' \in Disks
        <3> DEFINE all == {Contents[g] : g \in Files}
        <3>1. disk \in [Files -> (UNION all) \cup {Absent}]
            BY <1>0 DEF TablesTyped, Disks
        <3>2. Contents[f] \in all
            OBVIOUS
        <3>3. disk' \in [Files -> (UNION all) \cup {Absent}]
            <4> HIDE DEF all
            <4>1. c \in (UNION all) \cup {Absent}
                BY <3>2
            <4> QED BY <2>1, <3>1, <4>1
        <3>4. ASSUME NEW g \in Files PROVE disk'[g] \in Contents[g] \cup {Absent}
            BY <1>0, <1>3, <2>1, <3>1 DEF TablesTyped, Disks
        <3> QED BY <3>3, <3>4 DEF Disks
    <2> QED BY <1>0, <2>1, <2>2 DEF storeVars, TablesTyped, IntegrityInv, StoreIntegrity, Disks
<1>4. ASSUME NEW i \in Runs,
             \/ Collect(i) \/ Spawn(i) \/ SkipInvalid(i) \/ ResolveFrom(i) \/ ResolveTo(i)
             \/ Finish(i) \/ WriterWrite(i) \/ PluginStep(i) \/ PluginDies(i) \/ Kill(i)
             \/ StatementFails(i)
      PROVE  TablesTyped'
    BY <1>1, <1>4 DEF Collect, Spawn, SkipInvalid, ResolveFrom, ResolveTo, Finish, WriterWrite,
                      PluginStep, PluginRead, PluginWrite, PluginExit, PluginDies, Kill,
                      StatementFails
<1>5. ASSUME NEW i \in Runs, DeleteFile(i)
      PROVE  TablesTyped'
    <2>1. IntegrityInv'
        BY <1>0, <1>5, DeletionKeepsIntegrity DEF TablesTyped
    <2>2. entities' \subseteq entities /\ relations' \subseteq relations /\ UNCHANGED disk
        BY <1>5 DEF DeleteFile
    <2> QED BY <1>0, <2>1, <2>2 DEF TablesTyped, Disks
<1>6. ASSUME NEW i \in Runs, IngestEntity(i)
      PROVE  TablesTyped'
    <2>1. IntegrityInv'
        BY <1>0, <1>6, InsertionKeepsIntegrity DEF TablesTyped
    <2> DEFINE row == [id |-> next_id, name |-> Line(i).rec.name, path |-> Line(i).path,
                  line |-> Line(i).rec.line]
    <2>2. entities' \subseteq entities \cup {row} /\ UNCHANGED <<relations, disk>>
        BY <1>6 DEF IngestEntity
    <2>3. row \in [id : Nat, name : Names, path : Paths, line : Lines]
        BY <1>6, IngestRow
    <2> QED BY <1>0, <2>1, <2>2, <2>3 DEF TablesTyped, Disks
<1>7. ASSUME NEW i \in Runs, InsertRelation(i)
      PROVE  TablesTyped'
    <2>1. IntegrityInv'
        BY <1>0, <1>7, RelationKeepsIntegrity DEF TablesTyped
    <2>2. /\ relations' \subseteq relations \cup {[from |-> run[i].from, to |-> run[i].to]}
          /\ UNCHANGED <<entities, disk>>
        BY <1>7 DEF InsertRelation
    <2>3. [from |-> run[i].from, to |-> run[i].to] \in [from : Nat, to : Nat]
        BY FieldTypes
    <2> QED BY <1>0, <2>1, <2>2, <2>3 DEF TablesTyped, Disks
<1> QED BY <1>2, <1>3, <1>4, <1>5, <1>6, <1>7 DEF Next, IndexStep

\* those of the runs,
LEMMA StepKeepsRuns ==
    ASSUME TypeInv, [Next]_vars
    PROVE  RunsTyped'
<1>0. RunsTyped
    BY DEF TypeInv, TypeOK, RunsTyped, Counts
<1>1. ASSUME UNCHANGED <<run, next_id>>
      PROVE  RunsTyped'
    BY <1>0, <1>1 DEF RunsTyped, Counts, Stage, Line
<1>2. CASE UNCHANGED vars \/ \E f \in Files : \E c \in Contents[f] \cup {Absent} : Edit(f, c)
    BY <1>1, <1>2 DEF vars, storeVars, Edit
<1>3. ASSUME NEW i \in Runs, Collect(i)
      PROVE  RunsTyped'
    <2>1. UNCHANGED next_id
        BY <1>3 DEF Collect, storeVars
    <2>2. CASE run' = run
        BY <1>1, <2>1, <2>2
    <2>3. CASE run' # run
        <3>1. Found[Len(Walk)] \in Seq(Paths)
            BY FoundInOrder, WalkAssumption
        <3> QED BY <1>3, <2>1, <2>3, <3>1, CollectTurns, FreshTyped
    <2> QED BY <2>2, <2>3
<1>4. ASSUME NEW i \in Runs, IndexStep(i)
      PROVE  RunsTyped'
    <2>1. next_id' \in Nat /\ next_id <= next_id'
        BY <1>4, FieldTypes
           DEF IndexStep, DeleteFile, Spawn, SkipInvalid, IngestEntity, ResolveFrom, ResolveTo,
               InsertRelation, Finish, storeVars
    <2> QED BY <1>4, <2>1, IndexStepTyped
<1>5. ASSUME NEW i \in Runs, WriterWrite(i) \/ PluginStep(i)
      PROVE  RunsTyped'
    <2>1. UNCHANGED next_id
        BY <1>5 DEF WriterWrite, PluginStep, PluginRead, PluginWrite, PluginExit, storeVars
    <2> QED BY <1>5, <2>1, PluginStepTyped
<1>6. ASSUME NEW i \in Runs, PluginDies(i) \/ Kill(i) \/ StatementFails(i)
      PROVE  RunsTyped'
    <2>1. UNCHANGED next_id
        BY <1>6 DEF PluginDies, Kill, StatementFails, storeVars
    <2> QED BY <1>6, <2>1, FaultTyped
<1> QED BY <1>2, <1>3, <1>4, <1>5, <1>6 DEF Next

\* The bounds and the history.
CountersTyped ==
    /\ runs \in 0..MaxRuns /\ edits \in 0..MaxEdits /\ faults \in 0..MaxFaults
    /\ dirty \in [Runs -> BOOLEAN] /\ trust \in 0..2

\* those of the history and the bounds.
LEMMA StepKeepsCounters ==
    ASSUME TypeInv, [Next]_vars
    PROVE  CountersTyped'
<1>0. CountersTyped /\ {MaxRuns, MaxEdits, MaxFaults} \subseteq Nat
    BY BoundsAssumption DEF TypeInv, TypeOK, CountersTyped
<1>1. ASSUME Disturb PROVE dirty' \in [Runs -> BOOLEAN] /\ trust' \in 0..2
    BY <1>1 DEF Disturb
<1>2. CASE UNCHANGED vars
    BY <1>0, <1>2 DEF vars, countVars, historyVars, CountersTyped
<1>3. CASE \E f \in Files : \E c \in Contents[f] \cup {Absent} : Edit(f, c)
    BY <1>0, <1>1, <1>3 DEF Edit, CountersTyped
<1>4. ASSUME NEW i \in Runs, Collect(i)
      PROVE  CountersTyped'
    <2>1. dirty' \in [Runs -> BOOLEAN]
        BY <1>0, <1>4 DEF Collect, CountersTyped
    <2> QED BY <1>0, <1>4, <2>1 DEF Collect, CountersTyped
<1>5. ASSUME NEW i \in Runs, PluginDies(i) \/ Kill(i) \/ StatementFails(i)
      PROVE  CountersTyped'
    BY <1>0, <1>1, <1>5 DEF PluginDies, Kill, StatementFails, CountersTyped
<1>6. ASSUME NEW i \in Runs, Finish(i)
      PROVE  CountersTyped'
    BY <1>0, <1>6 DEF Finish, countVars, CountersTyped
<1>7. ASSUME NEW i \in Runs, UNCHANGED <<countVars, historyVars>>
      PROVE  CountersTyped'
    BY <1>0, <1>7 DEF countVars, historyVars, CountersTyped
<1>8. ASSUME NEW i \in Runs,
             \/ DeleteFile(i) \/ Spawn(i) \/ SkipInvalid(i) \/ IngestEntity(i) \/ ResolveFrom(i)
             \/ ResolveTo(i) \/ InsertRelation(i) \/ WriterWrite(i) \/ PluginStep(i)
      PROVE  UNCHANGED <<countVars, historyVars>>
    BY <1>8 DEF DeleteFile, Spawn, SkipInvalid, IngestEntity, ResolveFrom, ResolveTo,
                InsertRelation, WriterWrite, PluginStep, PluginRead, PluginWrite, PluginExit
<1> QED BY <1>2, <1>3, <1>4, <1>5, <1>6, <1>7, <1>8 DEF Next, IndexStep

\* An empty store has its types.
LEMMA InitTyped == Init => TypeInv
<1> SUFFICES ASSUME Init PROVE TypeInv
    OBVIOUS
<1>1. run \in [Runs -> RunStates] /\ \A i \in Runs : run[i] = IdleRun
    BY IdleRunIs DEF Init
<1>2. \A i \in Runs : Counts(i) /\ Stage(i)
    <2>1. next_id = 1 /\ StdoutCap \in Nat
        BY BoundsAssumption DEF Init
    <2> QED BY <1>1, <2>1 DEF Counts, Stage, IdleRun
<1>3. StoreIntegrity /\ CountersTyped
    BY BoundsAssumption DEF Init, StoreIntegrity, CountersTyped
<1> QED BY <1>1, <1>2, <1>3 DEF Init, TypeInv, TypeOK, Counts, CountersTyped

\* All of them together.
LEMMA StepKeepsTypes == TypeInv /\ [Next]_vars => TypeInv'
BY StepKeepsTables, StepKeepsRuns, StepKeepsCounters
   DEF TypeInv, TypeOK, TablesTyped, IntegrityInv, RunsTyped, Counts, CountersTyped

\* Every variable keeps its type, no relation outlives its endpoints and no two
\* rows share an id, or a name and a path, for any files, walk and number of runs.
THEOREM StoreTyped == Spec => []TypeOK
<1>1. TypeInv => TypeOK
    BY DEF TypeInv
<1> QED BY <1>1, InitTyped, StepKeepsTypes, PTL DEF Spec

\* What a run has yet to ingest of what its plugin has read, and what its plugin
\* has yet to read.
Queue(i) == run[i].pipe \o run[i].out
Unread(i) == {run[i].files[k] : k \in run[i].read + 1..Len(run[i].files)}

\* A step that leaves both as they are, or takes the first of the queue.
SameFeed(i) ==
    /\ run'[i].files = run[i].files /\ run'[i].read = run[i].read
    /\ run'[i].pipe \o run'[i].out = Queue(i)
DropsHead(i) ==
    /\ run'[i].files = run[i].files /\ run'[i].read = run[i].read
    /\ 1 \in DOMAIN Queue(i) /\ Line(i) = Queue(i)[1]
    /\ \A k \in DOMAIN (run'[i].pipe \o run'[i].out) :
          /\ k \in Nat \ {0} /\ k + 1 \in DOMAIN Queue(i)
          /\ (run'[i].pipe \o run'[i].out)[k] = Queue(i)[k + 1]
    /\ \A k \in DOMAIN Queue(i) :
          k = 1 \/ (k - 1 \in DOMAIN (run'[i].pipe \o run'[i].out))

\* The lines that are on their way are a sequence of lines.
LEMMA QueueIs ==
    ASSUME TypeInv, NEW i \in Runs
    PROVE  /\ Queue(i) \in Seq(Item) /\ Len(Queue(i)) = Len(run[i].pipe) + Len(run[i].out)
           /\ Len(Queue(i)) \in Nat /\ DOMAIN Queue(i) = 1..Len(Queue(i))
           /\ \A k \in DOMAIN Queue(i) : Queue(i)[k] \in Item
<1>1. Queue(i) \in Seq(Item) /\ Len(Queue(i)) = Len(run[i].pipe) + Len(run[i].out)
    BY FieldTypes, ConcatProperties DEF Queue
<1> QED BY <1>1, LenProperties, ElementOfSeq

\* What the indexer consumes is the first of them.
LEMMA ConsumeDrops ==
    ASSUME TypeInv, NEW i \in Runs, run[i].pipe # <<>>, Consume(i)
    PROVE  DropsHead(i)
<1>1. run'[i] = [run[i] EXCEPT !.pipe = Tail(@), !.pc = "ingest", !.from = 0, !.to = 0]
    BY ConsumeTurns
<1>2. /\ run'[i].files = run[i].files /\ run'[i].read = run[i].read
      /\ run'[i].pipe = Tail(run[i].pipe) /\ run'[i].out = run[i].out
    BY <1>1, FieldTypes DEF RunStates
<1> DEFINE q == Tail(run[i].pipe) \o run[i].out
<1>3. /\ q \in Seq(Item) /\ Len(q) = Len(Queue(i)) - 1
      /\ Head(run[i].pipe) = Queue(i)[1]
      /\ \A k \in DOMAIN q : k + 1 \in DOMAIN Queue(i) /\ q[k] = Queue(i)[k + 1]
    <2>1. run[i].pipe \in Seq(Item) /\ run[i].out \in Seq(Item)
        BY FieldTypes
    <2> DEFINE s == run[i].pipe
               t == run[i].out
    <2>2. s \in Seq(Item) /\ t \in Seq(Item) /\ s # <<>>
        BY <2>1
    <2> HIDE DEF s, t
    <2>3. /\ Tail(s) \o t \in Seq(Item) /\ Len(Tail(s) \o t) = Len(s \o t) - 1
          /\ Head(s) = (s \o t)[1]
          /\ \A k \in DOMAIN (Tail(s) \o t) :
                k + 1 \in DOMAIN (s \o t) /\ (Tail(s) \o t)[k] = (s \o t)[k + 1]
        BY <2>2, JoinedTail
    <2> QED BY <2>3 DEF s, t, Queue
<1>4. DOMAIN q = 1..Len(q) /\ Len(q) \in Nat
    BY <1>3, LenProperties
<1>5. Len(Queue(i)) \in Nat /\ DOMAIN Queue(i) = 1..Len(Queue(i))
    BY QueueIs
<1>6. 1 \in DOMAIN Queue(i) /\ \A k \in DOMAIN Queue(i) : k = 1 \/ k - 1 \in DOMAIN q
    <2> HIDE DEF q
    <2> QED BY <1>3, <1>4, <1>5
<1>7. \A k \in DOMAIN q : k \in Nat \ {0}
    <2> HIDE DEF q
    <2> QED BY <1>4
<1> QED BY <1>2, <1>3, <1>6, <1>7 DEF DropsHead, Line

\* The steps that leave the lines on their way and the paths unread as they are.
LEMMA StepsSameFeed ==
    ASSUME TypeInv, NEW i \in Runs,
           \/ DeleteFile(i) \/ Spawn(i) \/ WriterWrite(i) \/ PluginWrite(i) \/ PluginExit(i)
           \/ (ResolveFrom(i) \/ ResolveTo(i)) /\ ~Consume(i)
           \/ run[i].pc = "delete" /\ run' = [run EXCEPT ![i].deleted = @ + 1]
    PROVE  SameFeed(i) /\ Only(i)
<1>1. CASE \/ DeleteFile(i) \/ Spawn(i) \/ WriterWrite(i) \/ PluginExit(i)
           \/ run[i].pc = "delete" /\ run' = [run EXCEPT ![i].deleted = @ + 1]
    <2>1. /\ Only(i)
          /\ \/ run'[i] = [run[i] EXCEPT !.deleted = @ + 1]
             \/ run'[i] = [run[i] EXCEPT !.pc = "ingest", !.plugin = "running"]
             \/ run'[i] = [run[i] EXCEPT !.written = @ + 1]
             \/ run'[i] = [run[i] EXCEPT !.plugin = "exited"]
        BY <1>1, DeleteTurns, SpawnTurns, WriterTurns, ExitTurns DEF DeleteFile
    <2> QED BY <2>1, FieldTypes DEF RunStates, SameFeed, Queue
<1>2. CASE PluginWrite(i)
    <2>1. /\ Only(i)
          /\ run'[i] = [run[i] EXCEPT !.pipe = Append(@, Head(run[i].out)), !.out = Tail(@)]
        BY <1>2, WriteTurns
    <2>2. Append(run[i].pipe, Head(run[i].out)) \o Tail(run[i].out) = Queue(i)
        <3>1. run[i].pipe \in Seq(Item) /\ run[i].out \in Seq(Item) /\ run[i].out # <<>>
            BY <1>2, FieldTypes DEF PluginWrite
        <3> DEFINE s == run[i].pipe
                   t == run[i].out
        <3>2. s \in Seq(Item) /\ t \in Seq(Item) /\ t # <<>>
            BY <3>1
        <3> HIDE DEF s, t
        <3>3. Append(s, Head(t)) \o Tail(t) = s \o t
            BY <3>2, JoinedMove
        <3> QED BY <3>3 DEF s, t, Queue
    <2> QED BY <2>1, <2>2, FieldTypes DEF RunStates, SameFeed
<1>3. CASE (ResolveFrom(i) \/ ResolveTo(i)) /\ ~Consume(i)
    <2>1. \E id \in {e.id : e \in entities} :
            \/ run' = [run EXCEPT ![i].pc = "to", ![i].from = id]
            \/ run' = [run EXCEPT ![i].pc = "insert", ![i].to = id]
        <3>1. CASE ResolveFrom(i)
            <4>1. PICK id \in Rows(Line(i).rec.from) : run' = [run EXCEPT ![i].pc = "to", ![i].from = id]
                BY <1>3, <3>1 DEF ResolveFrom
            <4>2. id \in {e.id : e \in entities}
                BY DEF Rows
            <4> QED BY <4>1, <4>2
        <3>2. CASE ResolveTo(i)
            <4>1. PICK id \in Rows(Line(i).rec.to) : run' = [run EXCEPT ![i].pc = "insert", ![i].to = id]
                BY <1>3, <3>2 DEF ResolveTo
            <4>2. id \in {e.id : e \in entities}
                BY DEF Rows
            <4> QED BY <4>1, <4>2
        <3> QED BY <1>3, <3>1, <3>2
    <2>2. /\ Only(i)
          /\ \E id : \/ run'[i] = [run[i] EXCEPT !.pc = "to", !.from = id]
                     \/ run'[i] = [run[i] EXCEPT !.pc = "insert", !.to = id]
        BY <2>1, ResolveTurns
    <2> QED BY <2>2, FieldTypes DEF RunStates, SameFeed, Queue
<1> QED BY <1>1, <1>2, <1>3

\* A run reads and ingests in the order of the walk and of the files.
Sorted(i) ==
    /\ \A k, l \in DOMAIN run[i].files : k < l => Rank(run[i].files[k]) < Rank(run[i].files[l])
    /\ \A k, l \in DOMAIN Queue(i) : k < l => Before(Queue(i)[k], Queue(i)[l])
    /\ \A k \in DOMAIN Queue(i) : \A p \in Unread(i) : Rank(Queue(i)[k].path) < Rank(p)

\* They keep the lines sorted,
LEMMA SameFeedSorted ==
    ASSUME NEW i \in Runs, Sorted(i), SameFeed(i)
    PROVE  Sorted(i)'
<1>1. Unread(i)' = Unread(i) /\ run'[i].files = run[i].files /\ Queue(i)' = Queue(i)
    BY DEF SameFeed, Unread, Queue
<1> QED BY <1>1 DEF Sorted, Before, Rank

\* and so does consuming the first line.
LEMMA DropsHeadSorted ==
    ASSUME TypeInv, NEW i \in Runs, Sorted(i), DropsHead(i)
    PROVE  Sorted(i)'
<1> DEFINE q == run'[i].pipe \o run'[i].out
<1>1. Unread(i)' = Unread(i) /\ run'[i].files = run[i].files /\ Queue(i)' = q
    BY DEF DropsHead, Unread, Queue
<1>2. \A k \in DOMAIN q : k \in Int /\ k + 1 \in DOMAIN Queue(i) /\ q[k] = Queue(i)[k + 1]
    <2> SUFFICES ASSUME NEW k \in DOMAIN q
                 PROVE  k \in Int /\ k + 1 \in DOMAIN Queue(i) /\ q[k] = Queue(i)[k + 1]
        OBVIOUS
    <2>1. k \in Nat /\ k + 1 \in DOMAIN Queue(i) /\ q[k] = Queue(i)[k + 1]
        BY DEF DropsHead
    <2> QED BY <2>1
<1> HIDE DEF q
<1>3. \A k, l \in DOMAIN q : k < l => Before(q[k], q[l])
    <2> SUFFICES ASSUME NEW k \in DOMAIN q, NEW l \in DOMAIN q, k < l PROVE Before(q[k], q[l])
        OBVIOUS
    <2>1. k + 1 < l + 1 /\ k + 1 \in DOMAIN Queue(i) /\ l + 1 \in DOMAIN Queue(i)
        BY <1>2
    <2> QED BY <1>2, <2>1 DEF Sorted
<1>4. \A k \in DOMAIN q : \A p \in Unread(i) : Rank(q[k].path) < Rank(p)
    BY <1>2 DEF Sorted
<1> QED BY <1>1, <1>3, <1>4 DEF Sorted, Before, Rank

\* A path is read in the walk's order: its lines come after all others.
LEMMA ReadSorted ==
    ASSUME TypeInv, NEW i \in Runs, Sorted(i), PluginRead(i)
    PROVE  /\ Only(i) /\ Sorted(i)'
           /\ run'[i].files = run[i].files /\ run'[i].pc = run[i].pc /\ run'[i].plugin = "running"
           /\ \E p \in Unread(i) :
                /\ Unread(i) = Unread(i)' \cup {p}
                /\ Range(Queue(i))' = Range(Queue(i)) \cup Range(Emitted(p))
<1> DEFINE fs == run[i].files
           d == run[i].read
           p == fs[d + 1]
           s == run[i].pipe
           t == Emitted(p)
           q == s \o t
<1>1. /\ Only(i) /\ run'[i] = [run[i] EXCEPT !.read = @ + 1, !.out = t]
      /\ d + 1 \in DOMAIN fs /\ p \in Paths
    BY ReadTurns
<1>2. /\ run'[i].files = fs /\ run'[i].read = d + 1 /\ run'[i].pipe = s /\ run'[i].out = t
      /\ run'[i].pc = run[i].pc /\ run'[i].plugin = "running"
    <2>1. run[i].plugin = "running"
        BY DEF PluginRead
    <2> QED BY <1>1, <2>1, FieldTypes DEF RunStates
<1>3. fs \in Seq(Paths) /\ s \in Seq(Item) /\ d \in Nat /\ Len(s) \in Nat /\ Len(fs) \in Nat
    BY FieldTypes
<1>4. /\ t \in Seq(Item) /\ Len(t) \in Nat /\ DOMAIN t = 1..Len(t)
      /\ \A k \in DOMAIN t : t[k].path = p /\ t[k].nth = k
    <2>1. disk \in Disks
        BY DEF TypeInv, TypeOK
    <2>2. t \in Seq(Item) /\ \A k \in DOMAIN t : t[k].path = p /\ t[k].nth = k
        BY <1>1, <2>1, EmittedIs
    <2> QED BY <2>2, LenProperties
<1>5. Queue(i)' = q /\ Queue(i) = s
    <2>1. run[i].out = <<>>
        BY DEF PluginRead
    <2>2. s \o <<>> = s
        BY <1>3, ConcatEmptySeq
    <2> QED BY <1>2, <2>1, <2>2 DEF Queue
<1>6. DOMAIN fs = 1..Len(fs) /\ DOMAIN s = 1..Len(s)
    BY <1>3, LenProperties
<1>7. Unread(i) = Unread(i)' \cup {p} /\ p \in Unread(i)
    <2>1. Unread(i)' = {fs[k] : k \in d + 2..Len(fs)}
        BY <1>2, <1>3, SMTT(30) DEF Unread
    <2>2. Unread(i) = {fs[k] : k \in d + 1..Len(fs)}
        BY DEF Unread
    <2>3. d + 1 \in d + 1..Len(fs)
        BY <1>1, <1>3, <1>6
    <2> QED BY <1>3, <2>1, <2>2, <2>3, SMTT(20)
<1> HIDE DEF fs, d, p, s, t
<1>8. /\ q \in Seq(Item) /\ DOMAIN q = 1..Len(s) + Len(t)
      /\ \A k \in 1..Len(s) + Len(t) : q[k] = IF k <= Len(s) THEN s[k] ELSE t[k - Len(s)]
    <2>1. /\ q \in Seq(Item) /\ Len(q) = Len(s) + Len(t)
          /\ \A k \in 1..Len(s) + Len(t) : q[k] = IF k <= Len(s) THEN s[k] ELSE t[k - Len(s)]
        BY <1>3, <1>4, ConcatProperties
    <2> QED BY <2>1, LenProperties
<1> HIDE DEF q
<1>9. ASSUME NEW k \in DOMAIN q
      PROVE  \/ k \in DOMAIN s /\ q[k] = s[k]
             \/ /\ k > Len(s) /\ k - Len(s) \in DOMAIN t /\ q[k] = t[k - Len(s)]
                /\ q[k].path = p /\ q[k].nth = k - Len(s)
    <2>1. CASE k <= Len(s)
        <3>1. k \in 1..Len(s)
            BY <1>3, <1>4, <1>8, <2>1
        <3> QED BY <1>6, <1>8, <2>1, <3>1
    <2>2. CASE k > Len(s)
        <3>1. k - Len(s) \in 1..Len(t) /\ ~(k <= Len(s))
            BY <1>3, <1>4, <1>8, <2>2
        <3>2. q[k] = t[k - Len(s)]
            BY <1>8, <3>1
        <3> QED BY <1>4, <2>2, <3>1, <3>2
    <2> QED BY <1>3, <1>4, <1>8, <2>1, <2>2
<1>10. Range(q) = Range(s) \cup Range(t)
    <2>1. ASSUME NEW k \in DOMAIN s PROVE k \in DOMAIN q /\ q[k] = s[k]
        BY <1>3, <1>4, <1>6, <1>8
    <2>2. ASSUME NEW k \in DOMAIN t PROVE k + Len(s) \in DOMAIN q /\ q[k + Len(s)] = t[k]
        <3>1. k \in Nat /\ k + Len(s) \in 1..Len(s) + Len(t) /\ ~(k + Len(s) <= Len(s))
              /\ (k + Len(s)) - Len(s) = k
            BY <1>3, <1>4
        <3> QED BY <1>8, <3>1
    <2> QED BY <1>9, <2>1, <2>2 DEF Range
<1>11. ASSUME NEW k \in DOMAIN q, NEW l \in DOMAIN q, k < l
       PROVE  Before(q[k], q[l])
    <2>0. k \in Int /\ l \in Int /\ Len(s) \in Int
        BY <1>3, <1>4, <1>8
    <2>1. CASE l \in DOMAIN s
        <3>1. k \in DOMAIN s /\ q[k] = s[k] /\ q[l] = s[l]
            BY <1>3, <1>4, <1>6, <1>8, <1>11, <2>1
        <3> QED BY <1>5, <1>11, <2>1, <3>1 DEF Sorted
    <2>2. CASE l \notin DOMAIN s /\ k \in DOMAIN s
        <3>1. q[l].path = p
            BY <1>9, <2>2
        <3>2. q[k] = s[k]
            BY <1>3, <1>4, <1>6, <1>8, <2>2
        <3>3. Rank(s[k].path) < Rank(p)
            BY <1>5, <1>7, <2>2 DEF Sorted
        <3> QED BY <3>1, <3>2, <3>3 DEF Before
    <2>3. CASE l \notin DOMAIN s /\ k \notin DOMAIN s
        <3>1. /\ q[l].path = p /\ q[l].nth = l - Len(s)
              /\ q[k].path = p /\ q[k].nth = k - Len(s)
            BY <1>9, <2>3
        <3> QED BY <1>11, <2>0, <3>1 DEF Before
    <2> QED BY <2>1, <2>2, <2>3
<1>12. ASSUME NEW k \in DOMAIN q, NEW u \in Unread(i)'
       PROVE  Rank(q[k].path) < Rank(u)
    <2>1. CASE k \in DOMAIN s /\ q[k] = s[k]
        BY <1>5, <1>7, <2>1 DEF Sorted
    <2>2. CASE q[k].path = p
        <3>1. PICK m \in d + 2..Len(fs) : u = fs[m]
            BY <1>2, <1>3 DEF Unread
        <3>2. d + 1 \in DOMAIN fs /\ m \in DOMAIN fs /\ d + 1 < m
            BY <1>1, <1>3, <1>6
        <3>3. Rank(fs[d + 1]) < Rank(fs[m])
            BY <3>2 DEF Sorted, fs
        <3> QED BY <2>2, <3>1, <3>3 DEF p
    <2> QED BY <1>9, <2>1, <2>2
<1>13. Sorted(i)'
    <2>1. \A k, l \in DOMAIN fs : k < l => Rank(fs[k]) < Rank(fs[l])
        BY DEF Sorted, fs
    <2> QED BY <1>2, <1>5, <1>11, <1>12, <2>1 DEF Sorted, Before, Rank
<1>14. Range(Queue(i))' = Range(Queue(i)) \cup Range(Emitted(p))
    BY <1>5, <1>10 DEF t, Range
<1>15. run'[i].files = run[i].files
    BY <1>2 DEF fs
<1> QED BY <1>1, <1>2, <1>7, <1>13, <1>14, <1>15

\* A run that just collected its files has them in order; one that is gone has none.
LEMMA FreshSorted ==
    ASSUME TypeInv, NEW i \in Runs,
           \/ Collect(i) /\ run' # run
           \/ run'[i] = IdleRun
    PROVE  Sorted(i)'
<1>1. run'[i].pipe = <<>> /\ run'[i].out = <<>> /\ run'[i].files \in {<<>>, Found[Len(Walk)]}
    <2>1. CASE Collect(i) /\ run' # run
        BY <2>1, CollectTurns DEF IdleRun
    <2>2. CASE run'[i] = IdleRun
        BY <2>2 DEF IdleRun
    <2> QED BY <2>1, <2>2
<1>2. Queue(i)' = <<>> /\ DOMAIN Queue(i)' = {}
    <2>1. <<>> \o <<>> = <<>>
        BY ConcatEmptySeq, <<>> \in Seq({})
    <2> QED BY <1>1, <2>1 DEF Queue
<1>3. \A k, l \in DOMAIN run'[i].files :
        k < l => Rank(run'[i].files[k]) < Rank(run'[i].files[l])
    <2>1. CASE run'[i].files = <<>>
        BY <2>1
    <2>2. CASE run'[i].files = Found[Len(Walk)]
        <3>1. Len(Walk) \in 0..Len(Walk)
            BY WalkAssumption
        <3> QED BY <2>2, <3>1, FoundInOrder
    <2> QED BY <1>1, <2>1, <2>2
<1> QED BY <1>2, <1>3 DEF Sorted, Before, Rank

\* The plugin's death takes the end of the queue.
LEMMA DiesSorted ==
    ASSUME TypeInv, NEW i \in Runs, Sorted(i), PluginDies(i)
    PROVE  Sorted(i)'
<1> DEFINE s == run[i].pipe
           t == run[i].out
<1>1. run'[i] = [run[i] EXCEPT !.plugin = "exited", !.out = <<>>]
    BY DiesTurns
<1>2. /\ run'[i].files = run[i].files /\ run'[i].read = run[i].read
      /\ run'[i].pipe = s /\ run'[i].out = <<>>
    BY <1>1, FieldTypes DEF RunStates
<1>3. s \in Seq(Item) /\ t \in Seq(Item)
    BY FieldTypes
<1>4. Queue(i)' = s /\ Queue(i) = s \o t /\ Unread(i)' = Unread(i)
    <2>1. s \o <<>> = s
        BY <1>3, ConcatEmptySeq
    <2> QED BY <1>2, <2>1 DEF Queue, Unread
<1> HIDE DEF s, t
<1>5. \A k \in DOMAIN s : k \in DOMAIN (s \o t) /\ (s \o t)[k] = s[k]
    <2>1. /\ Len(s) \in Nat /\ Len(t) \in Nat /\ DOMAIN s = 1..Len(s)
          /\ DOMAIN (s \o t) = 1..Len(s \o t)
        BY <1>3, LenProperties, ConcatProperties
    <2>2. /\ Len(s \o t) = Len(s) + Len(t)
          /\ \A k \in 1..Len(s) + Len(t) : (s \o t)[k] = IF k <= Len(s) THEN s[k] ELSE t[k - Len(s)]
        BY <1>3, ConcatProperties
    <2> QED BY <2>1, <2>2
<1> QED BY <1>2, <1>4, <1>5 DEF Sorted, Before, Rank

\* The steps of a run that take a record from its pipe.
Consumes(i) == run[i].pipe # <<>> /\ Consume(i)

\* The steps that consume a line.
LEMMA ConsumingSteps ==
    ASSUME TypeInv, NEW i \in Runs,
           \/ SkipInvalid(i) \/ IngestEntity(i) \/ InsertRelation(i)
           \/ (ResolveFrom(i) \/ ResolveTo(i)) /\ Consume(i)
           \/ (run[i].pc \in {"to", "insert"} \/ Reading(i)) /\ Consume(i)
    PROVE  Consumes(i) /\ Line(i) \in Item /\ run[i].pc \in {"ingest", "to", "insert"}
<1>1. Consume(i) /\ (Reading(i) \/ run[i].pc \in {"to", "insert"})
    BY DEF SkipInvalid, IngestEntity, InsertRelation, ResolveFrom, ResolveTo
<1> QED BY <1>1, AtWork DEF Consumes

\* Whatever a run does, it stays in order, and the other runs as they are.
LEMMA StepSorted ==
    ASSUME TypeInv, NEW i \in Runs, Sorted(i),
           \/ Collect(i) \/ IndexStep(i) \/ WriterWrite(i) \/ PluginStep(i)
           \/ PluginDies(i) \/ Kill(i) \/ StatementFails(i)
    PROVE  (Only(i) \/ run' = run) /\ Sorted(i)'
<1>1. CASE run' = run
    BY <1>1, SameFeedSorted DEF SameFeed, Queue
<1>2. CASE Collect(i) /\ run' # run
    BY <1>2, CollectTurns, FreshSorted
<1>3. CASE \/ DeleteFile(i) \/ Spawn(i) \/ WriterWrite(i) \/ PluginWrite(i) \/ PluginExit(i)
           \/ (ResolveFrom(i) \/ ResolveTo(i)) /\ ~Consume(i)
           \/ run[i].pc = "delete" /\ run' = [run EXCEPT ![i].deleted = @ + 1]
    BY <1>3, StepsSameFeed, SameFeedSorted
<1>4. CASE \/ SkipInvalid(i) \/ IngestEntity(i) \/ InsertRelation(i)
           \/ (ResolveFrom(i) \/ ResolveTo(i)) /\ Consume(i)
           \/ (run[i].pc \in {"to", "insert"} \/ Reading(i)) /\ Consume(i)
    <2>1. Consumes(i)
        BY <1>4, ConsumingSteps
    <2> QED BY <2>1, ConsumeTurns, ConsumeDrops, DropsHeadSorted DEF Consumes
<1>5. CASE Finish(i) \/ Kill(i)
    <2>1. run' = [run EXCEPT ![i] = IdleRun]
        BY <1>5 DEF Finish, Kill
    <2> QED BY <2>1, EndTurns, FreshSorted
<1>6. CASE PluginRead(i)
    BY <1>6, ReadSorted
<1>7. CASE PluginDies(i)
    BY <1>7, DiesTurns, DiesSorted
<1> QED BY <1>1, <1>2, <1>3, <1>4, <1>5, <1>6, <1>7 DEF IndexStep, PluginStep, StatementFails

SortedInv == \A i \in Runs : Sorted(i)

\* Every step keeps the lines of every run sorted.
LEMMA StepKeepsSorted ==
    ASSUME TypeInv, SortedInv, [Next]_vars
    PROVE  SortedInv'
<1>1. ASSUME NEW j \in Runs, run'[j] = run[j] PROVE Sorted(j)'
    BY <1>1, SameFeedSorted DEF SortedInv, SameFeed, Queue
<1>2. CASE run' = run
    BY <1>1, <1>2 DEF SortedInv
<1>3. ASSUME NEW i \in Runs,
             \/ Collect(i) \/ IndexStep(i) \/ WriterWrite(i) \/ PluginStep(i)
             \/ PluginDies(i) \/ Kill(i) \/ StatementFails(i)
      PROVE  SortedInv'
    <2>1. (Only(i) \/ run' = run) /\ Sorted(i)'
        BY <1>3, StepSorted DEF SortedInv
    <2>2. ASSUME NEW j \in Runs, j # i PROVE Sorted(j)'
        BY <1>1, <2>1, <2>2 DEF Only
    <2> QED BY <2>1, <2>2 DEF SortedInv
<1> QED BY <1>2, <1>3 DEF Next, vars, Edit

\* The steps after which the runs may be misled, and the others.
Calm ==
    \/ UNCHANGED vars
    \/ \E i \in Runs : Collect(i) \/ IndexStep(i) \/ WriterWrite(i) \/ PluginStep(i)

\* A step is an edit or a fault, or it is neither.
LEMMA DisturbedOrCalm ==
    ASSUME [Next]_vars
    PROVE  Disturb \/ Calm
BY DEF Next, Edit, PluginDies, Kill, StatementFails, Calm

\* A run has been misled together with every run that is active, or not at all.
Era(i) ==
    dirty[i] => /\ run[i].pc # "idle" /\ trust = 0
                /\ \A j \in Runs : run[j].pc # "idle" => dirty[j]
EraInv == \A i \in Runs : Era(i)

\* Which run takes a calm step, and what the step does to the files and to
\* which runs are active and misled.
LEMMA CalmTurns ==
    ASSUME TypeInv, Calm
    PROVE  \/ UNCHANGED <<disk, storeVars, run, historyVars>>
           \/ \E i \in Runs : /\ Collect(i) /\ run' # run /\ Only(i)
                              /\ UNCHANGED <<disk, storeVars, trust>>
                              /\ run[i].pc = "idle" /\ run'[i].pc = "delete"
                              /\ dirty' = [dirty EXCEPT ![i] = \E j \in Runs : dirty[j]]
           \/ \E i \in Runs : /\ Finish(i) /\ Only(i)
                              /\ UNCHANGED <<disk, storeVars>>
                              /\ run[i].pc = "ingest" /\ run'[i] = IdleRun
                              /\ dirty' = [dirty EXCEPT ![i] = FALSE]
                              /\ trust' = IF dirty[i] \/ trust = 2 THEN trust ELSE trust + 1
           \/ \E i \in Runs : /\ IndexStep(i) \/ WriterWrite(i) \/ PluginStep(i)
                              /\ ~Finish(i) /\ Only(i) /\ UNCHANGED <<disk, historyVars>>
                              /\ run[i].pc # "idle" /\ run'[i].pc # "idle"
<1>1. CASE UNCHANGED vars
    BY <1>1 DEF vars
<1>3. ASSUME NEW i \in Runs, DeleteFile(i) \/ Spawn(i) \/ WriterWrite(i) \/ PluginStep(i)
      PROVE  /\ Only(i) /\ run[i].pc # "idle" /\ run'[i].pc # "idle"
             /\ UNCHANGED <<disk, historyVars>>
    <2>1. UNCHANGED <<disk, historyVars>>
        BY <1>3 DEF DeleteFile, Spawn, WriterWrite, PluginStep, PluginRead, PluginWrite, PluginExit
    <2>2. run[i].pc # "idle"
        BY <1>3, FieldTypes DEF DeleteFile, Spawn, WriterWrite, PluginStep, PluginRead, PluginWrite,
                                PluginExit, Stage
    <2>3. /\ Only(i)
          /\ \/ run'[i] = [run[i] EXCEPT !.deleted = @ + 1]
             \/ run'[i] = [run[i] EXCEPT !.pc = "ingest", !.plugin = "running"]
             \/ run'[i] = [run[i] EXCEPT !.written = @ + 1]
             \/ run'[i] = [run[i] EXCEPT !.read = @ + 1, !.out = Emitted(run[i].files[run[i].read + 1])]
             \/ run'[i] = [run[i] EXCEPT !.pipe = Append(@, Head(run[i].out)), !.out = Tail(@)]
             \/ run'[i] = [run[i] EXCEPT !.plugin = "exited"]
        BY <1>3, DeleteTurns, SpawnTurns, WriterTurns, ReadTurns, WriteTurns, ExitTurns
           DEF DeleteFile, PluginStep
    <2> QED BY <2>1, <2>2, <2>3, FieldTypes DEF RunStates
<1>4. ASSUME NEW i \in Runs,
             SkipInvalid(i) \/ IngestEntity(i) \/ ResolveFrom(i) \/ ResolveTo(i) \/ InsertRelation(i)
      PROVE  /\ Only(i) /\ run[i].pc # "idle" /\ run'[i].pc # "idle"
             /\ UNCHANGED <<disk, historyVars>>
    <2>1. UNCHANGED <<disk, historyVars>> /\ run[i].pc # "idle"
        BY <1>4 DEF SkipInvalid, IngestEntity, ResolveFrom, ResolveTo, InsertRelation, Reading
    <2>2. Only(i) /\ run'[i].pc # "idle"
        <3>1. CASE Consume(i)
            <4>1. Consumes(i)
                BY <1>4, <3>1, ConsumingSteps
            <4> QED BY <4>1, ConsumeTurns, FieldTypes DEF Consumes, RunStates
        <3>2. CASE ~Consume(i)
            <4>1. \E id \in {e.id : e \in entities} :
                    \/ run' = [run EXCEPT ![i].pc = "to", ![i].from = id]
                    \/ run' = [run EXCEPT ![i].pc = "insert", ![i].to = id]
                BY <1>4, <3>2 DEF SkipInvalid, IngestEntity, ResolveFrom, ResolveTo, InsertRelation, Rows
            <4>2. /\ Only(i)
                  /\ \E id : \/ run'[i] = [run[i] EXCEPT !.pc = "to", !.from = id]
                             \/ run'[i] = [run[i] EXCEPT !.pc = "insert", !.to = id]
                BY <4>1, ResolveTurns
            <4> QED BY <4>2, FieldTypes DEF RunStates
        <3> QED BY <3>1, <3>2
    <2> QED BY <2>1, <2>2
<1>5. ASSUME NEW i \in Runs, Collect(i)
      PROVE  \/ UNCHANGED <<disk, storeVars, run, historyVars>>
             \/ /\ run' # run /\ Only(i)
                /\ UNCHANGED <<disk, storeVars, trust>>
                /\ run[i].pc = "idle" /\ run'[i].pc = "delete"
                /\ dirty' = [dirty EXCEPT ![i] = \E j \in Runs : dirty[j]]
    <2>1. UNCHANGED <<disk, storeVars, trust>> /\ run[i].pc = "idle"
        BY <1>5 DEF Collect
    <2>2. CASE run' = run
        <3>1. run \in [Runs -> RunStates]
            BY FieldTypes
        <3>2. Found[Len(Walk)] = <<>>
            BY <1>5, <2>1, <2>2, <3>1 DEF Collect, RunStates
        <3> QED BY <1>5, <2>1, <2>2, <3>2 DEF Collect, historyVars
    <2>3. CASE run' # run
        <3>1. /\ Only(i)
              /\ run'[i] = [IdleRun EXCEPT !.pc = "delete", !.files = Found[Len(Walk)]]
              /\ dirty' = [dirty EXCEPT ![i] = \E j \in Runs : dirty[j]]
            BY <1>5, <2>3, CollectTurns
        <3>2. run'[i].pc = "delete"
            BY <3>1 DEF IdleRun
        <3> QED BY <2>1, <2>3, <3>1, <3>2
    <2> QED BY <2>2, <2>3
<1>6. ASSUME NEW i \in Runs, Finish(i)
      PROVE  /\ Only(i) /\ UNCHANGED <<disk, storeVars>>
             /\ run[i].pc = "ingest" /\ run'[i] = IdleRun
             /\ dirty' = [dirty EXCEPT ![i] = FALSE]
             /\ trust' = IF dirty[i] \/ trust = 2 THEN trust ELSE trust + 1
    <2>1. run' = [run EXCEPT ![i] = IdleRun]
        BY <1>6 DEF Finish
    <2>2. Only(i) /\ run'[i] = IdleRun
        BY <2>1, EndTurns
    <2> QED BY <1>6, <2>2 DEF Finish
<1>7. \A i \in Runs : DeleteFile(i) \/ Spawn(i) \/ WriterWrite(i) \/ PluginStep(i) => ~Finish(i)
    <2>1. ASSUME NEW i \in Runs, Finish(i)
          PROVE  ~(DeleteFile(i) \/ Spawn(i) \/ WriterWrite(i) \/ PluginStep(i))
        <3>1. run[i].pc = "ingest" /\ run[i].plugin = "exited" /\ run[i].written = Len(run[i].files)
              /\ run[i].written \in Nat
            BY <2>1, FieldTypes DEF Finish
        <3> QED BY <3>1 DEF DeleteFile, Spawn, WriterWrite, PluginStep, PluginRead, PluginWrite, PluginExit
    <2> QED BY <2>1
<1>8. \A i \in Runs : SkipInvalid(i) \/ IngestEntity(i) \/ ResolveFrom(i) \/ ResolveTo(i)
                        \/ InsertRelation(i) => ~Finish(i)
    BY DEF SkipInvalid, IngestEntity, ResolveFrom, ResolveTo, InsertRelation, Reading, Finish
<1> QED BY <1>1, <1>3, <1>4, <1>5, <1>6, <1>7, <1>8 DEF Calm, IndexStep

\* Every step keeps EraInv.
LEMMA StepKeepsEra ==
    ASSUME TypeInv, EraInv, [Next]_vars
    PROVE  EraInv'
<1>0. /\ dirty \in [Runs -> BOOLEAN] /\ trust \in 0..2
      /\ \A j \in Runs : dirty[j] => run[j].pc # "idle" /\ trust = 0
      /\ \A j, k \in Runs : dirty[j] /\ run[k].pc # "idle" => dirty[k]
    BY DEF TypeInv, TypeOK, EraInv, Era
<1>1. CASE Disturb
    BY <1>1 DEF Disturb, EraInv, Era
<1>2. CASE UNCHANGED historyVars /\ \A j \in Runs : run'[j].pc = "idle" <=> run[j].pc = "idle"
    BY <1>0, <1>2 DEF EraInv, Era, historyVars
<1>3. ASSUME NEW i \in Runs, Only(i), run[i].pc = "idle", run'[i].pc = "delete", UNCHANGED trust,
             dirty' = [dirty EXCEPT ![i] = \E j \in Runs : dirty[j]]
      PROVE  EraInv'
    <2>1. \A j \in Runs : dirty'[j] = IF j = i THEN \E k \in Runs : dirty[k] ELSE dirty[j]
        BY <1>0, <1>3
    <2>2. \A j \in Runs : dirty'[j] => \E k \in Runs : dirty[k]
        BY <2>1
    <2>3. \A j \in Runs : run'[j].pc # "idle" => j = i \/ run[j].pc # "idle"
        BY <1>3 DEF Only
    <2>4. \A j \in Runs : dirty'[j] => run'[j].pc # "idle"
        BY <1>0, <1>3, <2>1 DEF Only
    <2> QED BY <1>0, <1>3, <2>1, <2>2, <2>3, <2>4 DEF EraInv, Era
<1>4. ASSUME NEW i \in Runs, Only(i), run[i].pc = "ingest", run'[i] = IdleRun,
             dirty' = [dirty EXCEPT ![i] = FALSE],
             trust' = IF dirty[i] \/ trust = 2 THEN trust ELSE trust + 1
      PROVE  EraInv'
    <2>1. \A j \in Runs : dirty'[j] <=> j # i /\ dirty[j]
        BY <1>0, <1>4
    <2>2. run'[i].pc = "idle" /\ \A j \in Runs \ {i} : run'[j] = run[j]
        BY <1>4 DEF Only, IdleRun
    <2>3. \A j \in Runs : dirty[j] => dirty[i]
        BY <1>0, <1>4
    <2>4. dirty[i] => trust' = trust
        BY <1>4
    <2> QED BY <1>0, <1>4, <2>1, <2>2, <2>3, <2>4 DEF EraInv, Era
<1>5. ASSUME NEW i \in Runs, Only(i), UNCHANGED historyVars, run[i].pc # "idle", run'[i].pc # "idle"
      PROVE  EraInv'
    BY <1>2, <1>5 DEF Only
<1>6. CASE UNCHANGED <<run, historyVars>>
    BY <1>2, <1>6
<1> QED BY <1>1, <1>3, <1>4, <1>5, <1>6, DisturbedOrCalm, CalmTurns

\* What an undisturbed run has collected and read is what is on disk.
Reads(i) ==
    run[i].pc # "idle" =>
        /\ Range(run[i].files) = Present
        /\ Range(Queue(i)) \subseteq Stated
        /\ run[i].plugin = "exited" => run[i].out = <<>> /\ run[i].read = Len(run[i].files)
ReadInv == \A i \in Runs : dirty[i] \/ Reads(i)

\* What the files say depends on the files only.
LEMMA DiskKeeps ==
    ASSUME UNCHANGED disk
    PROVE  Present' = Present /\ Stated' = Stated /\ \A p : Emitted(p)' = Emitted(p)
BY DEF Present, Stated, Emitted

\* A run that does not move, while the files stay, has read what it had.
LEMMA SameRunReads ==
    ASSUME UNCHANGED disk, NEW i \in Runs, run'[i] = run[i], Reads(i)
    PROVE  Reads(i)'
BY DiskKeeps DEF Reads, Queue

\* So has one whose lines and unread paths stay.
LEMMA SameFeedReads ==
    ASSUME UNCHANGED disk, NEW i \in Runs, SameFeed(i), Reads(i), run[i].pc # "idle",
           run'[i].plugin = "exited" => run'[i].out = <<>> /\ run'[i].read = Len(run[i].files)
    PROVE  Reads(i)'
<1>1. Queue(i)' = Queue(i) /\ run'[i].files = run[i].files
    BY DEF SameFeed, Queue
<1> QED BY <1>1, DiskKeeps DEF Reads

\* A line consumed was on its way.
LEMMA DropsHeadRange ==
    ASSUME TypeInv, NEW i \in Runs, DropsHead(i)
    PROVE  Range(Queue(i)) = Range(Queue(i))' \cup {Line(i)}
<1> DEFINE q == run'[i].pipe \o run'[i].out
           o == Queue(i)
<1>1. Queue(i)' = q
    BY DEF Queue
<1>2. /\ 1 \in DOMAIN o /\ Line(i) = o[1]
      /\ \A k \in DOMAIN q : k + 1 \in DOMAIN o /\ q[k] = o[k + 1]
      /\ \A k \in DOMAIN o : k = 1 \/ k - 1 \in DOMAIN q
    BY DEF DropsHead
<1>3. DOMAIN o \subseteq Int
    BY QueueIs
<1>4. \A k \in DOMAIN o : k = 1 \/ (k - 1 \in DOMAIN q /\ q[k - 1] = o[k])
    <2> HIDE DEF q, o
    <2> SUFFICES ASSUME NEW k \in DOMAIN o, k # 1 PROVE k - 1 \in DOMAIN q /\ q[k - 1] = o[k]
        OBVIOUS
    <2>1. (k - 1) + 1 = k
        BY <1>3
    <2>2. k - 1 \in DOMAIN q
        BY <1>2
    <2>3. q[k - 1] = o[(k - 1) + 1]
        BY <1>2, <2>2
    <2> QED BY <2>1, <2>2, <2>3
<1> HIDE DEF q, o
<1>5. Range(o) = Range(q) \cup {Line(i)}
    BY <1>2, <1>4 DEF Range
<1>6. Range(Queue(i)) = Range(o) /\ Range(Queue(i))' = Range(q)
    <2>1. Range(q) = {q[x] : x \in DOMAIN q} /\ Range(o) = {o[x] : x \in DOMAIN o}
        BY DEF Range
    <2> QED BY <1>1, <2>1 DEF Range, o
<1> QED BY <1>5, <1>6

\* Consuming keeps Reads,
LEMMA DropsHeadReads ==
    ASSUME TypeInv, UNCHANGED disk, NEW i \in Runs, Consumes(i), Reads(i), run[i].pc # "idle"
    PROVE  Reads(i)'
<1>1. DropsHead(i) /\ Only(i)
      /\ run'[i] = [run[i] EXCEPT !.pipe = Tail(@), !.pc = "ingest", !.from = 0, !.to = 0]
    BY ConsumeDrops, ConsumeTurns DEF Consumes
<1>2. /\ run'[i].files = run[i].files /\ run'[i].read = run[i].read /\ run'[i].out = run[i].out
      /\ run'[i].plugin = run[i].plugin
    BY <1>1, FieldTypes DEF RunStates
<1>3. Range(Queue(i))' \subseteq Range(Queue(i))
    BY <1>1, DropsHeadRange
<1> QED BY <1>2, <1>3, DiskKeeps DEF Reads

\* a new run has everything still to read,
LEMMA CollectReads ==
    ASSUME TypeInv, UNCHANGED disk, NEW i \in Runs, Collect(i), run' # run
    PROVE  Reads(i)'
<1>1. run'[i] = [IdleRun EXCEPT !.pc = "delete", !.files = Found[Len(Walk)]]
    BY CollectTurns
<1>2. Range(Found[Len(Walk)]) = Present
    <2>1. Len(Walk) \in 0..Len(Walk) /\ DOMAIN Walk = 1..Len(Walk)
        BY WalkAssumption
    <2>2. Range(Found[Len(Walk)]) = {p \in Present : Rank(p) <= Len(Walk)}
        BY <2>1, FoundInOrder
    <2>3. \A p \in Present : Rank(p) <= Len(Walk)
        BY <2>1, RankIs DEF Present
    <2> QED BY <2>2, <2>3
<1>3. run'[i].pipe = <<>> /\ run'[i].out = <<>> /\ run'[i].files = Found[Len(Walk)] /\ run'[i].plugin = "none"
    BY <1>1 DEF IdleRun
<1>4. Range(Queue(i))' = {}
    <2>1. <<>> \o <<>> = <<>>
        BY ConcatEmptySeq, <<>> \in Seq({})
    <2> QED BY <1>3, <2>1 DEF Queue, Range
<1>5. Range(run'[i].files) = Present'
    BY <1>2, <1>3, DiskKeeps
<1> QED BY <1>3, <1>4, <1>5 DEF Reads, Range

\* and reading a path makes lines of just what the file says.
LEMMA ReadReads ==
    ASSUME TypeInv, SortedInv, UNCHANGED disk, NEW i \in Runs, PluginRead(i), Reads(i)
    PROVE  Reads(i)'
<1>1. /\ run'[i].files = run[i].files /\ run'[i].pc = run[i].pc /\ run'[i].plugin = "running"
      /\ \E p \in Unread(i) : Range(Queue(i))' = Range(Queue(i)) \cup Range(Emitted(p))
    BY ReadSorted DEF SortedInv
<1>2. \A p \in Unread(i) : p \in Paths
    <2>1. run[i].files \in Seq(Paths) /\ run[i].read \in Nat
        BY FieldTypes
    <2> QED BY <2>1, ElementOfSeq DEF Unread
<1>3. \A p \in Unread(i) : Range(Emitted(p)) \subseteq Stated
    BY <1>2, StatedIs DEF TypeInv, TypeOK
<1> QED BY <1>1, <1>3, DiskKeeps DEF Reads

\* Every step of an active run keeps Reads.
LEMMA WorkReads ==
    ASSUME TypeInv, SortedInv, UNCHANGED disk, NEW i \in Runs, Reads(i), ~Finish(i),
           IndexStep(i) \/ WriterWrite(i) \/ PluginStep(i)
    PROVE  Reads(i)'
<1>1. CASE DeleteFile(i) \/ Spawn(i) \/ WriterWrite(i) \/ PluginWrite(i) \/ PluginExit(i)
    <2>1. SameFeed(i)
        BY <1>1, StepsSameFeed
    <2>2. run[i].pc # "idle"
        BY <1>1, FieldTypes DEF DeleteFile, Spawn, WriterWrite, PluginWrite, PluginExit, Stage
    <2>3. CASE PluginExit(i)
        <3>1. run[i].out = <<>> /\ run[i].read = Len(run[i].files)
            BY <2>3 DEF PluginExit
        <3>2. run'[i] = [run[i] EXCEPT !.plugin = "exited"]
            BY <2>3, ExitTurns
        <3>3. run'[i].out = <<>> /\ run'[i].read = Len(run[i].files)
            BY <3>1, <3>2, FieldTypes DEF RunStates
        <3> QED BY <2>1, <2>2, <3>3, SameFeedReads
    <2>4. CASE Spawn(i) \/ PluginWrite(i)
        <3>1. run'[i].plugin = "running"
            <4>1. CASE Spawn(i)
                BY <4>1, SpawnTurns, FieldTypes DEF RunStates
            <4>2. CASE PluginWrite(i)
                <5>1. run'[i] = [run[i] EXCEPT !.pipe = Append(@, Head(run[i].out)), !.out = Tail(@)]
                    BY <4>2, WriteTurns
                <5>2. run[i].plugin = "running"
                    BY <4>2 DEF PluginWrite
                <5> QED BY <5>1, <5>2, FieldTypes DEF RunStates
            <4> QED BY <2>4, <4>1, <4>2
        <3> QED BY <2>1, <2>2, <3>1, SameFeedReads
    <2>5. CASE DeleteFile(i) \/ WriterWrite(i)
        <3>1. run'[i].plugin = run[i].plugin /\ run'[i].out = run[i].out /\ run'[i].read = run[i].read
            BY <2>5, DeleteTurns, WriterTurns, FieldTypes DEF RunStates, DeleteFile
        <3> QED BY <2>1, <2>2, <3>1, SameFeedReads DEF Reads
    <2> QED BY <1>1, <2>3, <2>4, <2>5
<1>2. CASE (ResolveFrom(i) \/ ResolveTo(i)) /\ ~Consume(i)
    <2>1. SameFeed(i)
        BY <1>2, StepsSameFeed
    <2>2. run[i].pc # "idle"
        BY <1>2 DEF ResolveFrom, ResolveTo, Reading
    <2>3. \E id \in {e.id : e \in entities} :
                \/ run' = [run EXCEPT ![i].pc = "to", ![i].from = id]
                \/ run' = [run EXCEPT ![i].pc = "insert", ![i].to = id]
        BY <1>2 DEF ResolveFrom, ResolveTo, Rows
    <2>4. run'[i].plugin = run[i].plugin /\ run'[i].out = run[i].out /\ run'[i].read = run[i].read
        <3>1. \E id : \/ run'[i] = [run[i] EXCEPT !.pc = "to", !.from = id]
                     \/ run'[i] = [run[i] EXCEPT !.pc = "insert", !.to = id]
            BY <2>3, ResolveTurns
        <3> QED BY <3>1, FieldTypes DEF RunStates
    <2> QED BY <2>1, <2>2, <2>4, SameFeedReads DEF Reads
<1>3. CASE \/ SkipInvalid(i) \/ IngestEntity(i) \/ InsertRelation(i)
           \/ (ResolveFrom(i) \/ ResolveTo(i)) /\ Consume(i)
    <2>1. Consumes(i) /\ run[i].pc # "idle"
        BY <1>3, ConsumingSteps
    <2> QED BY <2>1, DropsHeadReads
<1>4. CASE PluginRead(i)
    BY <1>4, ReadReads
<1> QED BY <1>1, <1>2, <1>3, <1>4 DEF IndexStep, PluginStep

\* So every step keeps ReadInv.
LEMMA StepKeepsReads ==
    ASSUME TypeInv, SortedInv, ReadInv, [Next]_vars
    PROVE  ReadInv'
<1>0. dirty \in [Runs -> BOOLEAN]
    BY DEF TypeInv, TypeOK
<1>1. CASE Disturb
    BY <1>1 DEF Disturb, ReadInv, Reads
<1>2. CASE UNCHANGED <<disk, storeVars, run, historyVars>>
    BY <1>2, SameRunReads DEF ReadInv, historyVars
<1>3. ASSUME NEW i \in Runs, Only(i), UNCHANGED disk, dirty'[i] \/ Reads(i)',
             \A j \in Runs \ {i} : dirty'[j] = dirty[j]
      PROVE  ReadInv'
    <2>1. ASSUME NEW j \in Runs, j # i PROVE dirty'[j] \/ Reads(j)'
        <3>1. run'[j] = run[j] /\ dirty'[j] = dirty[j]
            BY <1>3, <2>1 DEF Only
        <3> QED BY <1>3, <3>1, SameRunReads DEF ReadInv
    <2> QED BY <1>3, <2>1 DEF ReadInv
<1>4. ASSUME NEW i \in Runs, Collect(i), run' # run, Only(i), UNCHANGED disk,
             dirty' = [dirty EXCEPT ![i] = \E j \in Runs : dirty[j]]
      PROVE  ReadInv'
    BY <1>0, <1>3, <1>4, CollectReads
<1>5. ASSUME NEW i \in Runs, Only(i), UNCHANGED disk, run'[i] = IdleRun,
             dirty' = [dirty EXCEPT ![i] = FALSE]
      PROVE  ReadInv'
    <2>1. Reads(i)'
        BY <1>5 DEF Reads, IdleRun
    <2>2. \A j \in Runs \ {i} : dirty'[j] = dirty[j]
        BY <1>0, <1>5
    <2> QED BY <1>3, <1>5, <2>1, <2>2
<1>6. ASSUME NEW i \in Runs, IndexStep(i) \/ WriterWrite(i) \/ PluginStep(i),
             ~Finish(i), Only(i), UNCHANGED <<disk, historyVars>>
      PROVE  ReadInv'
    <2>1. dirty' = dirty /\ disk' = disk
        BY <1>6 DEF historyVars
    <2>2. dirty[i] \/ Reads(i)'
        BY <1>6, <2>1, WorkReads DEF ReadInv
    <2> QED BY <1>3, <1>6, <2>1, <2>2
<1> QED BY <1>1, <1>2, <1>4, <1>5, <1>6, DisturbedOrCalm, CalmTurns

\* What is known of the processes and their feeds.
FeedInv == TypeInv /\ SortedInv /\ EraInv /\ ReadInv

\* The invariant of the processes is inductive.
LEMMA StepKeepsFeed == FeedInv /\ [Next]_vars => FeedInv'
BY StepKeepsTypes, StepKeepsSorted, StepKeepsEra, StepKeepsReads DEF FeedInv

\* It holds when no run is active.
LEMMA InitFeed == Init => FeedInv
<1> SUFFICES ASSUME Init PROVE FeedInv
    OBVIOUS
<1>1. TypeInv
    BY InitTyped
<1>2. \A i \in Runs : run[i] = IdleRun /\ ~dirty[i]
    BY DEF Init
<1>3. <<>> \o <<>> = <<>>
    BY ConcatEmptySeq, <<>> \in Seq({})
<1>4. SortedInv
    <2> SUFFICES ASSUME NEW i \in Runs PROVE Sorted(i)
        BY DEF SortedInv
    <2>1. run[i].files = <<>> /\ Queue(i) = <<>>
        BY <1>2, <1>3 DEF Queue, IdleRun
    <2>2. DOMAIN run[i].files = {} /\ DOMAIN Queue(i) = {}
        BY <2>1
    <2> QED BY <2>2 DEF Sorted
<1> QED BY <1>1, <1>2, <1>4 DEF FeedInv, EraInv, Era, ReadInv, Reads, IdleRun

\* The store is in the hands of undisturbed runs.
Sure ==
    /\ \A i \in Runs : ~dirty[i]
    /\ trust > 0 \/ \E i \in Runs : run[i].pc # "idle"

\* The first run after a disturbance.
Fresh(i) ==
    /\ Collect(i) /\ run' # run /\ Only(i)
    /\ trust' = 0 /\ UNCHANGED <<disk, storeVars>>
    /\ \A j \in Runs : run[j].pc = "idle"

\* Sure is left by edits and faults only, and entered by a run that starts alone.
LEMMA SureIs ==
    ASSUME TypeInv, EraInv, [Next]_vars, Sure'
    PROVE  Calm /\ UNCHANGED disk /\ (Sure \/ \E i \in Runs : Fresh(i))
<1>0. dirty \in [Runs -> BOOLEAN] /\ trust \in 0..2 /\ trust' \in 0..2
    BY StepKeepsTypes DEF TypeInv, TypeOK
<1>1. Calm
    <2>1. ASSUME Disturb PROVE FALSE
        <3>1. PICK j \in Runs : run'[j].pc # "idle"
            BY <2>1 DEF Disturb, Sure
        <3>2. dirty'[j]
            BY <2>1, <3>1 DEF Disturb
        <3> QED BY <3>2 DEF Sure
    <2> QED BY <2>1, DisturbedOrCalm
<1>2. CASE UNCHANGED <<disk, storeVars, run, historyVars>>
    BY <1>1, <1>2 DEF Sure, historyVars
<1>3. ASSUME NEW i \in Runs, Collect(i), run' # run, Only(i), UNCHANGED <<disk, storeVars, trust>>,
             run[i].pc = "idle",
             dirty' = [dirty EXCEPT ![i] = \E j \in Runs : dirty[j]]
      PROVE  UNCHANGED disk /\ (Sure \/ Fresh(i))
    <2>1. ~dirty'[i]
        BY DEF Sure
    <2>2. \A j \in Runs : ~dirty[j]
        BY <1>0, <1>3, <2>1
    <2> QED BY <1>0, <1>3, <2>2 DEF Sure, Fresh
<1>4. ASSUME NEW i \in Runs, Finish(i), Only(i), UNCHANGED <<disk, storeVars>>,
             run[i].pc = "ingest", run'[i] = IdleRun,
             dirty' = [dirty EXCEPT ![i] = FALSE],
             trust' = IF dirty[i] \/ trust = 2 THEN trust ELSE trust + 1
      PROVE  Sure
    <2>1. \A j \in Runs \ {i} : ~dirty[j]
        BY <1>0, <1>4 DEF Sure
    <2>2. ~dirty[i]
        <3> SUFFICES ASSUME dirty[i] PROVE FALSE
            OBVIOUS
        <3>1. trust' = 0 /\ \A j \in Runs : run[j].pc # "idle" => dirty[j]
            BY <1>4 DEF EraInv, Era
        <3>2. PICK j \in Runs : run'[j].pc # "idle"
            BY <3>1 DEF Sure
        <3>3. j # i /\ run'[j] = run[j]
            BY <1>4, <3>2 DEF Only, IdleRun
        <3> QED BY <2>1, <3>1, <3>2, <3>3
    <2> QED BY <1>4, <2>1, <2>2 DEF Sure
<1>5. ASSUME NEW i \in Runs, UNCHANGED historyVars, run[i].pc # "idle"
      PROVE  Sure
    BY <1>5 DEF Sure, historyVars
<1> QED BY <1>1, <1>2, <1>3, <1>4, <1>5, CalmTurns

\* Run i is still to ingest s.
Owes(i, s) ==
    \/ run[i].pc = "delete"
    \/ s \in Range(Queue(i))
    \/ s.path \in Unread(i)

\* A run that does not move owes what it owed.
LEMMA SameOwes ==
    ASSUME NEW i \in Runs, run'[i] = run[i]
    PROVE  \A s : Owes(i, s)' <=> Owes(i, s)
BY DEF Owes, Queue, Unread

\* One that is not active owes nothing.
LEMMA IdleOwes ==
    ASSUME TypeInv, NEW i \in Runs, run[i].pc = "idle"
    PROVE  \A s : ~Owes(i, s)
<1>1. run[i] = IdleRun
    BY FieldTypes DEF Stage
<1>2. <<>> \o <<>> = <<>>
    BY ConcatEmptySeq, <<>> \in Seq({})
<1> QED BY <1>1, <1>2 DEF Owes, Queue, Unread, IdleRun, Range

\* At its end a run owes nothing.
LEMMA EndOwes ==
    ASSUME TypeInv, NEW i \in Runs, Finish(i), Reads(i)
    PROVE  \A s : ~Owes(i, s)
<1>1. /\ run[i].pc = "ingest" /\ run[i].pipe = <<>> /\ run[i].out = <<>>
      /\ run[i].read = Len(run[i].files)
    BY DEF Finish, Reads
<1>2. <<>> \o <<>> = <<>>
    BY ConcatEmptySeq, <<>> \in Seq({})
<1>3. Unread(i) = {}
    BY <1>1, FieldTypes DEF Unread
<1> QED BY <1>1, <1>2, <1>3 DEF Owes, Queue, Range

\* Reading a file, starting the plugin and moving records along change nothing
\* of what a run owes.
LEMMA FeedOwes ==
    ASSUME FeedInv, NEW i \in Runs, Reads(i), UNCHANGED disk,
           \/ DeleteFile(i) \/ Spawn(i) \/ WriterWrite(i) \/ PluginStep(i)
           \/ (ResolveFrom(i) \/ ResolveTo(i)) /\ ~Consume(i)
    PROVE  \A s \in Stated : Owes(i, s)' <=> Owes(i, s)
<1> USE DEF FeedInv
<1>1. CASE \/ DeleteFile(i) \/ WriterWrite(i) \/ PluginWrite(i) \/ PluginExit(i)
           \/ (ResolveFrom(i) \/ ResolveTo(i)) /\ ~Consume(i)
    <2>1. Unread(i)' = Unread(i) /\ Queue(i)' = Queue(i)
        BY <1>1, StepsSameFeed DEF SameFeed, Unread, Queue
    <2>2. run[i].pc = "delete" <=> run'[i].pc = "delete"
        <3>1. CASE DeleteFile(i) \/ WriterWrite(i) \/ PluginWrite(i) \/ PluginExit(i)
            <4>1. \/ run'[i] = [run[i] EXCEPT !.deleted = @ + 1]
                  \/ run'[i] = [run[i] EXCEPT !.written = @ + 1]
                  \/ run'[i] = [run[i] EXCEPT !.pipe = Append(@, Head(run[i].out)), !.out = Tail(@)]
                  \/ run'[i] = [run[i] EXCEPT !.plugin = "exited"]
                BY <3>1, DeleteTurns, WriterTurns, WriteTurns, ExitTurns DEF DeleteFile
            <4> QED BY <4>1, FieldTypes DEF RunStates
        <3>2. CASE (ResolveFrom(i) \/ ResolveTo(i)) /\ ~Consume(i)
            <4>0. run[i].pc # "delete"
                BY <3>2 DEF ResolveFrom, ResolveTo, Reading
            <4>1. \E id \in {e.id : e \in entities} :
                        \/ run' = [run EXCEPT ![i].pc = "to", ![i].from = id]
                        \/ run' = [run EXCEPT ![i].pc = "insert", ![i].to = id]
                BY <3>2, SMTT(20) DEF ResolveFrom, ResolveTo, Rows
            <4>2. \E id : \/ run'[i] = [run[i] EXCEPT !.pc = "to", !.from = id]
                          \/ run'[i] = [run[i] EXCEPT !.pc = "insert", !.to = id]
                BY <4>1, ResolveTurns
            <4> QED BY <4>0, <4>2, FieldTypes DEF RunStates
        <3> QED BY <1>1, <3>1, <3>2
    <2>3. Range(Queue(i))' = Range(Queue(i))
        BY <2>1 DEF Range
    <2> QED BY <2>1, <2>2, <2>3 DEF Owes
<1>2. CASE Spawn(i)
    <2>1. run[i].pc = "delete" /\ run'[i].files = run[i].files /\ run'[i].read = 0
        <3>1. run[i].pc = "delete" /\ run'[i].files = run[i].files /\ run'[i].read = run[i].read
            BY <1>2, SpawnTurns, FieldTypes DEF RunStates, Spawn
        <3> QED BY <3>1, FieldTypes DEF Stage
    <2>2. Unread(i)' = Present
        <3>1. DOMAIN run[i].files = 1..Len(run[i].files)
            BY FieldTypes, LenProperties
        <3>2. Unread(i)' = {run[i].files[k] : k \in 1..Len(run[i].files)}
            BY <2>1 DEF Unread
        <3>3. Range(run[i].files) = Present
            BY <2>1 DEF Reads
        <3> QED BY <3>1, <3>2, <3>3 DEF Range
    <2>3. \A s \in Stated : s.path \in Present
        BY StatedIs DEF TypeInv, TypeOK
    <2> QED BY <2>1, <2>2, <2>3 DEF Owes
<1>3. CASE PluginRead(i)
    <2>1. PICK p \in Unread(i) : /\ Unread(i) = Unread(i)' \cup {p}
                                 /\ Range(Queue(i))' = Range(Queue(i)) \cup Range(Emitted(p))
        BY <1>3, ReadSorted DEF SortedInv
    <2>2. run'[i].pc = run[i].pc
        BY <1>3, ReadSorted DEF SortedInv
    <2>3. p \in Paths /\ disk \in Disks
        <3>1. run[i].files \in Seq(Paths) /\ run[i].read \in Nat
            BY FieldTypes
        <3> QED BY <3>1, ElementOfSeq DEF Unread, TypeInv, TypeOK
    <2>4. \A s \in Stated : s \in Range(Emitted(p)) <=> s.path = p
        <3>1. \A s \in Stated : s.path = p => s \in Range(Emitted(p))
            BY <2>3, StatedIs
        <3>2. \A s \in Range(Emitted(p)) : s.path = p
            BY <2>3, EmittedIs DEF Range
        <3> QED BY <3>1, <3>2
    <2> QED BY <2>1, <2>2, <2>4 DEF Owes
<1> QED BY <1>1, <1>2, <1>3 DEF PluginStep

\* Ingesting a record pays for that one and no other.
LEMMA ConsumeOwes ==
    ASSUME FeedInv, NEW i \in Runs, Consumes(i), run[i].pc \in {"ingest", "to", "insert"}
    PROVE  /\ \A s : Owes(i, s)' <=> Owes(i, s) /\ s # Line(i)
           /\ run'[i].pc = "ingest"
<1> USE DEF FeedInv
<1> DEFINE q == run'[i].pipe \o run'[i].out
<1>1. DropsHead(i) /\ run'[i].pc = "ingest"
    BY ConsumeDrops, ConsumeTurns, FieldTypes DEF Consumes, RunStates
<1>2. /\ Unread(i)' = Unread(i) /\ Queue(i)' = q
      /\ Range(Queue(i)) = Range(Queue(i))' \cup {Line(i)}
    BY <1>1, DropsHeadRange DEF DropsHead, Unread, Queue
<1>3. Line(i) \notin Range(Queue(i))'
    <2>1. Range(Queue(i))' = {q[k] : k \in DOMAIN q}
        BY <1>2 DEF Range
    <2>2. /\ 1 \in DOMAIN Queue(i) /\ Line(i) = Queue(i)[1] /\ Line(i) \in Item
          /\ \A k \in DOMAIN q : k \in Nat \ {0} /\ k + 1 \in DOMAIN Queue(i) /\ q[k] = Queue(i)[k + 1]
        BY <1>1, QueueIs DEF DropsHead
    <2> HIDE DEF q
    <2>3. ASSUME NEW k \in DOMAIN q PROVE q[k] # Line(i)
        <3>1. 1 < k + 1 /\ k + 1 \in DOMAIN Queue(i) /\ q[k] = Queue(i)[k + 1]
            BY <2>2
        <3>2. Before(Queue(i)[1], Queue(i)[k + 1])
            BY <2>2, <3>1 DEF SortedInv, Sorted
        <3>3. ~Before(Line(i), Line(i))
            BY <2>2, BeforeIs
        <3> QED BY <2>2, <3>1, <3>2, <3>3
    <2> QED BY <2>1, <2>3
<1>4. Line(i).path \notin Unread(i)
    <2>1. 1 \in DOMAIN Queue(i) /\ Line(i) = Queue(i)[1] /\ Line(i) \in Item
        BY <1>1, QueueIs DEF DropsHead
    <2>2. \A p \in Unread(i) : Rank(Line(i).path) < Rank(p)
        BY <2>1 DEF SortedInv, Sorted
    <2>3. Rank(Line(i).path) \in Nat
        BY <2>1, RankIs DEF Item
    <2> QED BY <2>2, <2>3
<1> QED BY <1>1, <1>2, <1>3, <1>4 DEF Owes

-----------------------------------------------------------------------------
(* The rows of the store. *)

\* What comes after a record a run owes, it owes as well.
OwesOn ==
    Sure => \A i \in Runs : \A s, t \in Stated : Owes(i, s) /\ Before(s, t) => Owes(i, t)

Stored(s) ==
    \E e \in entities : e.name = s.rec.name /\ e.path = s.path /\ e.line = s.rec.line

\* An entity on disk is stored, or a run is still to store it.
CompleteInv ==
    Sure => \A s \in Stated : s.rec.type = "entity" => Stored(s) \/ \E i \in Runs : Owes(i, s)

\* The steps at which a run is done with a record.
Ingests(i) ==
    /\ Consumes(i)
    /\ SkipInvalid(i) \/ IngestEntity(i) \/ ResolveFrom(i) \/ ResolveTo(i) \/ InsertRelation(i)

\* A run that is ingesting owes nothing that comes before its line.
LEMMA OwesAfter ==
    ASSUME FeedInv, NEW i \in Runs, Reading(i) \/ run[i].pc \in {"to", "insert"},
           NEW s, Owes(i, s)
    PROVE  s = Line(i) \/ Before(Line(i), s)
<1> USE DEF FeedInv
<1>1. /\ run[i].pc # "delete" /\ 1 \in DOMAIN Queue(i) /\ Line(i) = Queue(i)[1]
      /\ DOMAIN Queue(i) \subseteq Nat \ {0}
    <2>1. run[i].pipe # <<>> /\ run[i].pc # "delete"
        BY AtWork
    <2> DEFINE p == run[i].pipe
               o == run[i].out
    <2>2. p \in Seq(Item) /\ o \in Seq(Item) /\ p # <<>>
        BY <2>1, FieldTypes
    <2>3. Queue(i) = p \o o /\ Line(i) = Head(p)
        BY DEF Queue, Line
    <2> HIDE DEF p, o
    <2>4. Head(p) = (p \o o)[1]
        BY <2>2, JoinedTail
    <2>5. Len(p \o o) = Len(p) + Len(o) /\ Len(p) \in Nat \ {0} /\ Len(o) \in Nat
        BY <2>2, ConcatProperties, EmptySeq, LenProperties
    <2>6. DOMAIN Queue(i) = 1..Len(Queue(i))
        BY QueueIs
    <2> QED BY <2>1, <2>3, <2>4, <2>5, <2>6
<1>2. CASE s \in Range(Queue(i))
    <2>1. PICK k \in DOMAIN Queue(i) : s = Queue(i)[k]
        BY <1>2 DEF Range
    <2>2. k = 1 \/ 1 < k
        BY <1>1
    <2> QED BY <1>1, <2>1, <2>2 DEF SortedInv, Sorted
<1>3. CASE s.path \in Unread(i)
    BY <1>1, <1>3 DEF SortedInv, Sorted, Before
<1> QED BY <1>1, <1>2, <1>3 DEF Owes

\* What a step does to what the runs owe, while no run is misled.
LEMMA OwesStep ==
    ASSUME FeedInv, [Next]_vars, Sure, Sure'
    PROVE  /\ UNCHANGED disk
           /\ \/ /\ UNCHANGED storeVars
                 /\ \A j \in Runs : \A s \in Stated : Owes(j, s)' <=> Owes(j, s)
              \/ \E i \in Runs :
                    /\ run'[i].pc = "delete"
                    /\ UNCHANGED storeVars \/ DeleteFile(i)
                    /\ \A j \in Runs \ {i} : \A s : Owes(j, s)' <=> Owes(j, s)
              \/ \E i \in Runs :
                    /\ Ingests(i) /\ Line(i) \in Stated /\ run'[i].pc = "ingest"
                    /\ \A j \in Runs : \A s : Owes(j, s)' <=> Owes(j, s) /\ (j = i => s # Line(i))
<1>0. TypeInv /\ UNCHANGED disk /\ Calm /\ \A j \in Runs : Reads(j)
    BY SureIs DEF FeedInv, ReadInv, Sure
<1>1. CASE UNCHANGED <<disk, storeVars, run, historyVars>>
    BY <1>0, <1>1, SameOwes
<1>2. ASSUME NEW i \in Runs, Only(i)
      PROVE  \A j \in Runs \ {i} : \A s : Owes(j, s)' <=> Owes(j, s)
    BY <1>2, SameOwes DEF Only
<1>3. ASSUME NEW i \in Runs, Only(i), UNCHANGED storeVars, run'[i].pc = "delete"
      PROVE  /\ run'[i].pc = "delete"
             /\ UNCHANGED storeVars \/ DeleteFile(i)
             /\ \A j \in Runs \ {i} : \A s : Owes(j, s)' <=> Owes(j, s)
    BY <1>2, <1>3
<1>4. ASSUME NEW i \in Runs, Finish(i), Only(i), UNCHANGED storeVars, run'[i] = IdleRun
      PROVE  \A j \in Runs : \A s \in Stated : Owes(j, s)' <=> Owes(j, s)
    <2>1. \A s : ~Owes(i, s)
        BY <1>0, <1>4, EndOwes
    <2>2. \A s : ~Owes(i, s)'
        <3>1. TypeInv'
            BY <1>0, StepKeepsTypes
        <3>2. run'[i].pc = "idle"
            BY <1>4 DEF IdleRun
        <3>3. <<>> \o <<>> = <<>>
            BY ConcatEmptySeq, <<>> \in Seq({})
        <3> QED BY <1>4, <3>2, <3>3 DEF Owes, Queue, Unread, IdleRun, Range
    <2> QED BY <1>2, <1>4, <2>1, <2>2
<1>5. ASSUME NEW i \in Runs, Only(i), ~Finish(i), IndexStep(i) \/ WriterWrite(i) \/ PluginStep(i)
      PROVE  \/ /\ UNCHANGED storeVars
                /\ \A j \in Runs : \A s \in Stated : Owes(j, s)' <=> Owes(j, s)
             \/ /\ run'[i].pc = "delete"
                /\ UNCHANGED storeVars \/ DeleteFile(i)
                /\ \A j \in Runs \ {i} : \A s : Owes(j, s)' <=> Owes(j, s)
             \/ /\ Ingests(i) /\ Line(i) \in Stated /\ run'[i].pc = "ingest"
                /\ \A j \in Runs : \A s : Owes(j, s)' <=> Owes(j, s) /\ (j = i => s # Line(i))
    <2>1. CASE \/ Spawn(i) \/ WriterWrite(i) \/ PluginStep(i)
               \/ (ResolveFrom(i) \/ ResolveTo(i)) /\ ~Consume(i)
        <3>1. UNCHANGED storeVars
            BY <2>1 DEF Spawn, WriterWrite, PluginStep, PluginRead, PluginWrite, PluginExit,
                        ResolveFrom, ResolveTo
        <3>2. \A s \in Stated : Owes(i, s)' <=> Owes(i, s)
            BY <1>0, <2>1, FeedOwes
        <3> QED BY <1>2, <1>5, <3>1, <3>2
    <2>2. CASE DeleteFile(i)
        <3>1. run'[i].pc = "delete"
            BY <1>0, <2>2, DeleteTurns, FieldTypes DEF DeleteFile, RunStates
        <3> QED BY <1>2, <1>5, <2>2, <3>1
    <2>3. CASE \/ SkipInvalid(i) \/ IngestEntity(i) \/ InsertRelation(i)
               \/ (ResolveFrom(i) \/ ResolveTo(i)) /\ Consume(i)
        <3>1. Ingests(i) /\ run[i].pc \in {"ingest", "to", "insert"}
            BY <1>0, <2>3, ConsumingSteps DEF Ingests
        <3>2. (\A s : Owes(i, s)' <=> Owes(i, s) /\ s # Line(i)) /\ run'[i].pc = "ingest"
            BY <3>1, ConsumeOwes DEF Ingests
        <3>3. Line(i) \in Stated
            <4>1. DropsHead(i)
                BY <1>0, <3>1, ConsumeDrops DEF Ingests, Consumes
            <4>2. Line(i) \in Range(Queue(i))
                BY <1>0, <4>1, DropsHeadRange
            <4> QED BY <1>0, <3>1, <4>2 DEF Reads
        <3> QED BY <1>2, <1>5, <3>1, <3>2, <3>3
    <2> QED BY <1>5, <2>1, <2>2, <2>3 DEF IndexStep
<1> QED BY <1>0, <1>1, <1>3, <1>4, <1>5, CalmTurns

\* A run that starts alone owes everything.
LEMMA FreshOwes ==
    ASSUME TypeInv, NEW i \in Runs, Fresh(i)
    PROVE  /\ run'[i].pc = "delete" /\ \A s : Owes(i, s)'
           /\ \A j \in Runs \ {i} : \A s : ~Owes(j, s)'
<1>1. run'[i].pc = "delete"
    BY CollectTurns DEF Fresh, IdleRun
<1>2. \A j \in Runs \ {i} : \A s : ~Owes(j, s)'
    BY IdleOwes, SameOwes DEF Fresh, Only
<1> QED BY <1>1, <1>2 DEF Owes

\* Every step keeps OwesOn.
LEMMA StepKeepsOwesOn ==
    ASSUME FeedInv, OwesOn, [Next]_vars
    PROVE  OwesOn'
<1> SUFFICES ASSUME Sure' PROVE OwesOn'
    BY DEF OwesOn
<1>1. TypeInv /\ EraInv /\ UNCHANGED disk
    BY SureIs DEF FeedInv
<1>2. Stated' = Stated /\ \A s, t : Before(s, t)' <=> Before(s, t)
    BY <1>1, DiskKeeps DEF Before, Rank
<1>3. ASSUME NEW i \in Runs, Fresh(i) PROVE OwesOn'
    BY <1>1, <1>3, FreshOwes DEF OwesOn
<1>4. ASSUME Sure PROVE OwesOn'
    <2> SUFFICES ASSUME NEW j \in Runs, NEW s \in Stated, NEW t \in Stated, Owes(j, s)', Before(s, t)
                 PROVE  Owes(j, t)'
        BY <1>2 DEF OwesOn
    <2>1. CASE \A k \in Runs : \A u \in Stated : Owes(k, u)' <=> Owes(k, u)
        BY <1>4, <2>1 DEF OwesOn
    <2>2. ASSUME NEW i \in Runs, run'[i].pc = "delete",
                 \A k \in Runs \ {i} : \A u : Owes(k, u)' <=> Owes(k, u)
          PROVE  Owes(j, t)'
        <3>1. CASE j = i
            BY <2>2, <3>1 DEF Owes
        <3>2. CASE j # i
            BY <1>4, <2>2, <3>2 DEF OwesOn
        <3> QED BY <3>1, <3>2
    <2>3. ASSUME NEW i \in Runs, Ingests(i),
                 \A k \in Runs : \A u : Owes(k, u)' <=> Owes(k, u) /\ (k = i => u # Line(i))
          PROVE  Owes(j, t)'
        <3>1. Owes(j, s) /\ (j = i => s # Line(i))
            BY <2>3
        <3>2. Owes(j, t)
            BY <1>4, <3>1 DEF OwesOn
        <3>3. ASSUME j = i, t = Line(i) PROVE FALSE
            <4>1. Reading(i) \/ run[i].pc \in {"to", "insert"}
                BY <2>3 DEF Ingests, SkipInvalid, IngestEntity, ResolveFrom, ResolveTo, InsertRelation
            <4>2. Before(t, s)
                BY <3>1, <3>3, <4>1, OwesAfter
            <4>3. s \in Item /\ t \in Item
                BY <1>1, StatedIs DEF TypeInv, TypeOK
            <4> QED BY <4>2, <4>3, BeforeIs
        <3> QED BY <2>3, <3>2, <3>3
    <2> QED BY <1>4, <2>1, <2>2, <2>3, OwesStep
<1> QED BY <1>1, <1>3, <1>4, SureIs

\* Every step keeps CompleteInv: what is neither stored nor owed was not said.
LEMMA StepKeepsComplete ==
    ASSUME FeedInv, CompleteInv, [Next]_vars
    PROVE  CompleteInv'
<1> SUFFICES ASSUME Sure', NEW s \in Stated', s.rec.type = "entity"
             PROVE  Stored(s)' \/ \E i \in Runs : Owes(i, s)'
    BY DEF CompleteInv
<1>1. TypeInv /\ EraInv /\ UNCHANGED disk
    BY SureIs DEF FeedInv
<1>2. s \in Stated
    BY <1>1, DiskKeeps
<1>3. ASSUME NEW i \in Runs, run'[i].pc = "delete" PROVE Owes(i, s)'
    BY <1>3 DEF Owes
<1>4. ASSUME NEW i \in Runs, Fresh(i) PROVE Owes(i, s)'
    BY <1>1, <1>4, FreshOwes
<1>5. ASSUME Sure PROVE Stored(s)' \/ \E i \in Runs : Owes(i, s)'
    <2>1. Stored(s) \/ \E i \in Runs : Owes(i, s)
        BY <1>2, <1>5 DEF CompleteInv
    <2>2. CASE /\ UNCHANGED storeVars
               /\ \A k \in Runs : \A u \in Stated : Owes(k, u)' <=> Owes(k, u)
        BY <1>2, <2>1, <2>2 DEF Stored, storeVars
    <2>3. ASSUME NEW i \in Runs, Ingests(i),
                 \A k \in Runs : \A u : Owes(k, u)' <=> Owes(k, u) /\ (k = i => u # Line(i))
          PROVE  Stored(s)' \/ \E k \in Runs : Owes(k, s)'
        <3>1. entities \subseteq entities'
            BY <2>3 DEF Ingests, SkipInvalid, IngestEntity, ResolveFrom, ResolveTo, InsertRelation, storeVars
        <3>2. CASE Stored(s)
            BY <3>1, <3>2 DEF Stored
        <3>3. CASE s = Line(i)
            <4>1. IngestEntity(i)
                BY <1>1, <2>3, <3>3, FieldTypes
                   DEF Ingests, SkipInvalid, ResolveFrom, ResolveTo, InsertRelation, Stage
            <4> DEFINE row == [id |-> next_id, name |-> s.rec.name, path |-> s.path,
                             line |-> s.rec.line]
            <4>2. CASE \E e \in entities : SameKey(e, row)
                BY <3>1, <4>2 DEF Stored, SameKey
            <4>3. CASE ~ \E e \in entities : SameKey(e, row)
                <5>1. row \in entities'
                    BY <3>3, <4>1, <4>3 DEF IngestEntity
                <5>2. row.name = s.rec.name /\ row.path = s.path /\ row.line = s.rec.line
                    OBVIOUS
                <5> HIDE DEF row
                <5> QED BY <5>1, <5>2 DEF Stored
            <4> QED BY <4>2, <4>3
        <3> QED BY <2>1, <2>3, <3>2, <3>3
    <2> QED BY <1>3, <1>5, <2>2, <2>3, OwesStep
<1> QED BY <1>1, <1>4, <1>5, SureIs

\* The ends of a relation under work, if they are still there, are what it names.
Ends(i) ==
    \A e \in entities :
        /\ run[i].pc \in {"to", "insert"} /\ e.id = run[i].from => e.name = Line(i).rec.from
        /\ run[i].pc = "insert" /\ e.id = run[i].to => e.name = Line(i).rec.to
EndsInv == \A i \in Runs : Ends(i)

\* A row that is new has a new id.
LEMMA RowsOld ==
    ASSUME TypeInv, [Next]_vars
    PROVE  \A e \in entities' : e \in entities \/ e.id = next_id
<1>1. CASE UNCHANGED entities
    BY <1>1
<1>2. ASSUME NEW i \in Runs, DeleteFile(i) PROVE entities' \subseteq entities
    BY <1>2 DEF DeleteFile
<1>3. ASSUME NEW i \in Runs, IngestEntity(i)
      PROVE  \A e \in entities' : e \in entities \/ e.id = next_id
    <2> DEFINE row == [id |-> next_id, name |-> Line(i).rec.name, path |-> Line(i).path,
                  line |-> Line(i).rec.line]
    <2>1. UNCHANGED entities \/ entities' = entities \cup {row}
        BY <1>3 DEF IngestEntity
    <2>2. row.id = next_id
        OBVIOUS
    <2> HIDE DEF row
    <2> QED BY <2>1, <2>2
<1>4. (\E i \in Runs : DeleteFile(i) \/ IngestEntity(i)) \/ UNCHANGED entities
    BY DEF Next, vars, storeVars, Edit, Collect, IndexStep, Spawn, SkipInvalid, ResolveFrom, ResolveTo,
           InsertRelation, Finish, WriterWrite, PluginStep, PluginRead, PluginWrite, PluginExit,
           PluginDies, Kill, StatementFails
<1> QED BY <1>1, <1>2, <1>3, <1>4

\* The rows under the ids of a line at work do not change.
LEMMA SameEnds ==
    ASSUME TypeInv, [Next]_vars, NEW i \in Runs, Ends(i),
           run'[i].pc \in {"to", "insert"} =>
                /\ run[i].pc = run'[i].pc /\ Line(i)' = Line(i)
                /\ run'[i].from = run[i].from /\ run'[i].to = run[i].to
    PROVE  Ends(i)'
<1> SUFFICES ASSUME NEW e \in entities', run'[i].pc \in {"to", "insert"}
             PROVE  /\ e.id = run'[i].from => e.name = Line(i)'.rec.from
                    /\ run'[i].pc = "insert" /\ e.id = run'[i].to => e.name = Line(i)'.rec.to
    BY DEF Ends
<1>1. e \in entities \/ e.id = next_id
    BY RowsOld
<1>2. run[i].from # next_id /\ run[i].to # next_id
    BY FieldTypes DEF Counts
<1> QED BY <1>1, <1>2 DEF Ends

\* The steps of a run keep the ends it has resolved.
LEMMA StepEnds ==
    ASSUME TypeInv, [Next]_vars, NEW i \in Runs, Ends(i),
           \/ Collect(i) /\ run' # run
           \/ IndexStep(i) \/ WriterWrite(i) \/ PluginStep(i)
           \/ PluginDies(i) \/ Kill(i) \/ StatementFails(i)
    PROVE  Ends(i)'
<1>1. CASE (Collect(i) /\ run' # run) \/ Finish(i) \/ Kill(i) \/ Spawn(i)
    <2>1. run'[i].pc \in {"delete", "idle", "ingest"}
        <3>1. CASE Collect(i) /\ run' # run
            BY <3>1, CollectTurns DEF IdleRun
        <3>2. CASE Finish(i) \/ Kill(i)
            <4>1. run' = [run EXCEPT ![i] = IdleRun]
                BY <3>2 DEF Finish, Kill
            <4>2. run'[i] = IdleRun
                BY <4>1, EndTurns
            <4> QED BY <4>2 DEF IdleRun
        <3>3. CASE Spawn(i)
            BY <3>3, SpawnTurns, FieldTypes DEF RunStates
        <3> QED BY <1>1, <3>1, <3>2, <3>3
    <2> QED BY <2>1, SameEnds
<1>2. CASE \/ SkipInvalid(i) \/ IngestEntity(i) \/ InsertRelation(i)
           \/ (ResolveFrom(i) \/ ResolveTo(i)) /\ Consume(i)
           \/ (run[i].pc \in {"to", "insert"} \/ Reading(i)) /\ Consume(i)
    <2>1. Consumes(i)
        BY <1>2, ConsumingSteps
    <2>2. run'[i].pc = "ingest"
        BY <2>1, ConsumeTurns, FieldTypes DEF Consumes, RunStates
    <2> QED BY <2>2, SameEnds
<1>3. CASE \/ DeleteFile(i) \/ WriterWrite(i) \/ PluginExit(i) \/ PluginRead(i) \/ PluginDies(i)
           \/ run[i].pc = "delete" /\ run' = [run EXCEPT ![i].deleted = @ + 1]
    <2>1. \/ run'[i] = [run[i] EXCEPT !.deleted = @ + 1]
          \/ run'[i] = [run[i] EXCEPT !.written = @ + 1]
          \/ run'[i] = [run[i] EXCEPT !.plugin = "exited"]
          \/ run'[i] = [run[i] EXCEPT !.plugin = "exited", !.out = <<>>]
          \/ run'[i] = [run[i] EXCEPT !.read = @ + 1, !.out = Emitted(run[i].files[run[i].read + 1])]
        BY <1>3, DeleteTurns, WriterTurns, ExitTurns, ReadTurns, DiesTurns DEF DeleteFile
    <2>2. /\ run'[i].pc = run[i].pc /\ run'[i].pipe = run[i].pipe
          /\ run'[i].from = run[i].from /\ run'[i].to = run[i].to
        BY <2>1, FieldTypes DEF RunStates
    <2> QED BY <2>2, SameEnds DEF Line
<1>4. CASE PluginWrite(i)
    <2>1. run'[i] = [run[i] EXCEPT !.pipe = Append(@, Head(run[i].out)), !.out = Tail(@)]
        BY <1>4, WriteTurns
    <2>2. /\ run'[i].pc = run[i].pc /\ run'[i].pipe = Append(run[i].pipe, Head(run[i].out))
          /\ run'[i].from = run[i].from /\ run'[i].to = run[i].to
        BY <2>1, FieldTypes DEF RunStates
    <2>3. run[i].pipe # <<>> => Head(Append(run[i].pipe, Head(run[i].out))) = Head(run[i].pipe)
        <3> DEFINE s == run[i].pipe
                   t == run[i].out
        <3>1. s \in Seq(Item) /\ t \in Seq(Item) /\ t # <<>>
            BY <1>4, FieldTypes DEF PluginWrite
        <3> HIDE DEF s, t
        <3>2. s # <<>> => Head(Append(s, Head(t))) = Head(s)
            BY <3>1, JoinedMove
        <3> QED BY <3>2 DEF s, t
    <2>4. run[i].pc \in {"to", "insert"} => run[i].pipe # <<>>
        BY FieldTypes DEF Stage
    <2> QED BY <2>2, <2>3, <2>4, SameEnds DEF Line
<1>5. \A e, g \in entities : e.id = g.id => e = g
    BY DEF TypeInv, TypeOK, StoreIntegrity
<1>6. CASE ResolveFrom(i) /\ ~Consume(i)
    <2>1. PICK id \in Rows(Line(i).rec.from) : run' = [run EXCEPT ![i].pc = "to", ![i].from = id]
        BY <1>6 DEF ResolveFrom
    <2>2. PICK e \in entities : e.id = id /\ e.name = Line(i).rec.from
        BY <2>1 DEF Rows
    <2>3. run'[i].pc = "to" /\ run'[i].from = id /\ run'[i].pipe = run[i].pipe
        BY <2>1, FieldTypes DEF RunStates
    <2>4. entities' = entities /\ Line(i)' = Line(i)
        BY <1>6, <2>3 DEF ResolveFrom, storeVars, Line
    <2> QED BY <1>5, <2>2, <2>3, <2>4 DEF Ends
<1>7. CASE ResolveTo(i) /\ ~Consume(i)
    <2>1. PICK id \in Rows(Line(i).rec.to) : run' = [run EXCEPT ![i].pc = "insert", ![i].to = id]
        BY <1>7 DEF ResolveTo
    <2>2. PICK e \in entities : e.id = id /\ e.name = Line(i).rec.to
        BY <2>1 DEF Rows
    <2>3. /\ run'[i].pc = "insert" /\ run'[i].to = id /\ run'[i].pipe = run[i].pipe
          /\ run'[i].from = run[i].from
        BY <2>1, FieldTypes DEF RunStates
    <2>4. entities' = entities /\ Line(i)' = Line(i) /\ run[i].pc = "to"
        BY <1>7, <2>3 DEF ResolveTo, storeVars, Line
    <2> QED BY <1>5, <2>2, <2>3, <2>4 DEF Ends
<1> QED BY <1>1, <1>2, <1>3, <1>4, <1>6, <1>7 DEF IndexStep, PluginStep, StatementFails

\* Every step keeps EndsInv.
LEMMA StepKeepsEnds ==
    ASSUME TypeInv, SortedInv, EndsInv, [Next]_vars
    PROVE  EndsInv'
<1>1. ASSUME NEW j \in Runs, run'[j] = run[j] PROVE Ends(j)'
    BY <1>1, SameEnds DEF EndsInv, Line
<1>2. CASE run' = run
    BY <1>1, <1>2 DEF EndsInv
<1>3. ASSUME NEW i \in Runs, run' # run,
             \/ Collect(i) \/ IndexStep(i) \/ WriterWrite(i) \/ PluginStep(i)
             \/ PluginDies(i) \/ Kill(i) \/ StatementFails(i)
      PROVE  EndsInv'
    <2>1. Only(i)
        BY <1>3, StepSorted DEF SortedInv
    <2>2. Ends(i)'
        BY <1>3, StepEnds DEF EndsInv
    <2> QED BY <1>1, <2>1, <2>2 DEF EndsInv, Only
<1> QED BY <1>2, <1>3 DEF Next, vars, Edit

\* The rows of the file at p have been deleted by an undisturbed run.
Swept(p) ==
    /\ p \in Present
    /\ \/ trust > 0
       \/ \E i \in Runs : /\ run[i].pc # "idle"
                          /\ run[i].pc = "delete" =>
                                \E k \in 1..run[i].deleted : run[i].files[k] = p

\* A run that starts alone has swept no path.
LEMMA FreshSweeps ==
    ASSUME TypeInv, NEW i \in Runs, Fresh(i)
    PROVE  \A p : ~Swept(p)'
<1>1. run'[i] = [IdleRun EXCEPT !.pc = "delete", !.files = Found[Len(Walk)]]
    BY CollectTurns DEF Fresh
<1>2. run'[i].pc = "delete" /\ run'[i].deleted = 0
    BY <1>1 DEF IdleRun
<1>3. \A j \in Runs \ {i} : run'[j].pc = "idle"
    BY DEF Fresh, Only
<1> QED BY <1>2, <1>3 DEF Swept, Fresh

\* Only the deletion of a file sweeps it.
LEMMA SweptStep ==
    ASSUME FeedInv, [Next]_vars, Sure, Sure', NEW p, Swept(p)'
    PROVE  Swept(p) \/ \E i \in Runs : DeleteFile(i) /\ p = run[i].files[run[i].deleted + 1]
<1>0. TypeInv /\ UNCHANGED disk /\ Calm /\ (\A j \in Runs : Reads(j)) /\ p \in Present
    BY SureIs, DiskKeeps DEF FeedInv, ReadInv, Sure, Swept
<1>1. CASE UNCHANGED <<disk, storeVars, run, historyVars>>
    BY <1>0, <1>1 DEF Swept, historyVars
<1>2. ASSUME NEW i \in Runs, Collect(i), run' # run, Only(i), UNCHANGED trust
      PROVE  Swept(p)
    <2>1. run'[i] = [IdleRun EXCEPT !.pc = "delete", !.files = Found[Len(Walk)]]
        BY <1>0, <1>2, CollectTurns
    <2>2. run'[i].pc = "delete" /\ run'[i].deleted = 0
        BY <2>1 DEF IdleRun
    <2> QED BY <1>0, <1>2, <2>2 DEF Swept, Only
<1>3. ASSUME NEW i \in Runs, run[i].pc = "ingest" PROVE Swept(p)
    BY <1>0, <1>3 DEF Swept
<1>4. ASSUME NEW i \in Runs, IndexStep(i) \/ WriterWrite(i) \/ PluginStep(i),
             Only(i), UNCHANGED <<disk, historyVars>>, run[i].pc # "idle"
      PROVE  Swept(p) \/ (DeleteFile(i) /\ p = run[i].files[run[i].deleted + 1])
    <2>1. CASE run[i].pc # "delete"
        BY <1>0, <1>4, <2>1 DEF Swept
    <2>2. CASE trust > 0
        BY <1>0, <2>2 DEF Swept
    <2>3. CASE run[i].pc = "delete" /\ ~(trust > 0)
        <3>1. PICK j \in Runs : /\ run'[j].pc # "idle"
                                /\ run'[j].pc = "delete" =>
                                     \E k \in 1..run'[j].deleted : run'[j].files[k] = p
            BY <1>4, <2>3 DEF Swept, historyVars
        <3>2. CASE j # i
            BY <1>0, <1>4, <3>1, <3>2 DEF Swept, Only
        <3>3. CASE j = i /\ Spawn(i)
            <4>1. run[i].deleted = Len(run[i].files) /\ Range(run[i].files) = Present
                BY <1>0, <1>4, <3>3 DEF Spawn, Reads
            <4>2. DOMAIN run[i].files = 1..Len(run[i].files)
                BY <1>0, FieldTypes, LenProperties
            <4>3. \E k \in 1..run[i].deleted : run[i].files[k] = p
                BY <1>0, <4>1, <4>2 DEF Range
            <4> QED BY <1>0, <1>4, <4>3 DEF Swept
        <3>4. CASE j = i /\ DeleteFile(i)
            <4>1. /\ run'[i].pc = "delete" /\ run'[i].deleted = run[i].deleted + 1
                  /\ run'[i].files = run[i].files /\ run[i].deleted \in Nat
                BY <1>0, <3>4, DeleteTurns, FieldTypes DEF DeleteFile, RunStates
            <4>2. PICK k \in 1..run[i].deleted + 1 : run[i].files[k] = p
                BY <3>1, <3>4, <4>1
            <4>3. CASE k = run[i].deleted + 1
                BY <3>4, <4>2, <4>3
            <4>4. CASE k \in 1..run[i].deleted
                BY <1>0, <1>4, <4>2, <4>4 DEF Swept
            <4> QED BY <4>1, <4>3, <4>4
        <3>5. Spawn(i) \/ DeleteFile(i)
            <4>1. run[i].plugin = "none"
                BY <1>0, <2>3, FieldTypes DEF Stage
            <4> QED BY <1>4, <2>3, <4>1
                    DEF IndexStep, SkipInvalid, IngestEntity, ResolveFrom, ResolveTo, InsertRelation,
                        Finish, Reading, WriterWrite, PluginStep, PluginRead, PluginWrite, PluginExit
        <3> QED BY <3>2, <3>3, <3>4, <3>5
    <2> QED BY <2>1, <2>2, <2>3
<1> QED BY <1>0, <1>1, <1>2, <1>3, <1>4, CalmTurns

\* A stored entity of a file that has been swept is one the file has.
SoundInv ==
    Sure => \A e \in entities : Swept(e.path) =>
        \E s \in Stated : s.path = e.path /\ Emits(s, e.name) /\ s.rec.line = e.line

\* A row that appears is one a file states.
LEMMA RowStated ==
    ASSUME FeedInv, [Next]_vars, Sure, Sure', NEW e \in entities', e \notin entities
    PROVE  /\ e.id = next_id
           /\ \E s \in Stated : s.path = e.path /\ Emits(s, e.name) /\ s.rec.line = e.line
<1>1. TypeInv
    BY DEF FeedInv
<1>2. e.id = next_id
    BY <1>1, RowsOld
<1>3. PICK i \in Runs : Ingests(i) /\ Line(i) \in Stated
    BY OwesStep DEF storeVars, DeleteFile
<1> DEFINE row == [id |-> next_id, name |-> Line(i).rec.name, path |-> Line(i).path,
                  line |-> Line(i).rec.line]
<1>4. IngestEntity(i)
    BY <1>3 DEF Ingests, SkipInvalid, ResolveFrom, ResolveTo, InsertRelation, storeVars
<1>5. Line(i).rec.type = "entity" /\ e = row
    BY <1>4 DEF IngestEntity
<1>6. e.name = Line(i).rec.name /\ e.path = Line(i).path /\ e.line = Line(i).rec.line
    BY <1>5
<1> QED BY <1>2, <1>3, <1>5, <1>6 DEF Emits

\* Every step keeps SoundInv.
LEMMA StepKeepsSound ==
    ASSUME FeedInv, SoundInv, [Next]_vars
    PROVE  SoundInv'
<1> SUFFICES ASSUME Sure', NEW e \in entities', Swept(e.path)'
             PROVE  \E s \in Stated' : s.path = e.path /\ Emits(s, e.name) /\ s.rec.line = e.line
    BY DEF SoundInv, Emits
<1>1. TypeInv /\ EraInv /\ UNCHANGED disk
    BY SureIs DEF FeedInv
<1>2. Stated' = Stated
    BY <1>1, DiskKeeps
<1>3. ASSUME NEW i \in Runs, Fresh(i) PROVE FALSE
    BY <1>1, <1>3, FreshSweeps
<1>4. CASE Sure /\ e \notin entities
    BY <1>2, <1>4, RowStated
<1>5. CASE Sure /\ e \in entities
    <2>1. ASSUME NEW i \in Runs, DeleteFile(i), e.path = run[i].files[run[i].deleted + 1]
          PROVE  FALSE
        BY <2>1 DEF DeleteFile
    <2>2. Swept(e.path)
        BY <1>5, <2>1, SweptStep
    <2> QED BY <1>2, <1>5, <2>2 DEF SoundInv
<1> QED BY <1>1, <1>3, <1>4, <1>5, SureIs

\* A stored relation that touches a swept file is one that a file states.
TrueInv ==
    Sure => \A r \in relations, e, g \in entities :
        r.from = e.id /\ r.to = g.id /\ (Swept(e.path) \/ Swept(g.path)) =>
            \E s \in Stated : s.rec = [type |-> "relation", from |-> e.name, to |-> g.name]

\* A relation that appears between two rows is one a file states.
LEMMA RelationStated ==
    ASSUME FeedInv, EndsInv, [Next]_vars, Sure, Sure', NEW r \in relations', r \notin relations
    PROVE  /\ UNCHANGED entities
           /\ \A e, g \in entities : r.from = e.id /\ r.to = g.id =>
                \E s \in Stated : s.rec = [type |-> "relation", from |-> e.name, to |-> g.name]
<1>1. TypeInv
    BY DEF FeedInv
<1>2. PICK i \in Runs : Ingests(i) /\ Line(i) \in Stated
    BY OwesStep DEF storeVars, DeleteFile
<1>3. InsertRelation(i)
    BY <1>2 DEF Ingests, SkipInvalid, IngestEntity, ResolveFrom, ResolveTo, storeVars
<1>4. r = [from |-> run[i].from, to |-> run[i].to] /\ UNCHANGED entities /\ run[i].pc = "insert"
    BY <1>3 DEF InsertRelation
<1>5. r.from = run[i].from /\ r.to = run[i].to
    BY <1>4
<1>6. Line(i).rec.type = "relation" /\ Line(i).rec \in Record
    <2>1. Line(i) \in Item
        BY <1>1, <1>4, AtWork
    <2> QED BY <1>1, <1>4, <2>1, FieldTypes DEF Stage, Item
<1>7. Line(i).rec = [type |-> "relation", from |-> Line(i).rec.from, to |-> Line(i).rec.to]
    BY <1>6 DEF Record
<1>8. ASSUME NEW e \in entities, NEW g \in entities, r.from = e.id, r.to = g.id
      PROVE  Line(i).rec.from = e.name /\ Line(i).rec.to = g.name
    BY <1>4, <1>5, <1>8 DEF EndsInv, Ends
<1> QED BY <1>2, <1>4, <1>7, <1>8

\* Every step keeps TrueInv.
LEMMA StepKeepsTrue ==
    ASSUME FeedInv, EndsInv, TrueInv, [Next]_vars
    PROVE  TrueInv'
<1> SUFFICES ASSUME Sure', NEW r \in relations', NEW e \in entities', NEW g \in entities',
                    r.from = e.id, r.to = g.id, Swept(e.path)' \/ Swept(g.path)'
             PROVE  \E s \in Stated' : s.rec = [type |-> "relation", from |-> e.name, to |-> g.name]
    BY DEF TrueInv
<1>1. TypeInv /\ EraInv /\ UNCHANGED disk
    BY SureIs DEF FeedInv
<1>2. Stated' = Stated
    BY <1>1, DiskKeeps
<1>3. ASSUME NEW i \in Runs, Fresh(i) PROVE FALSE
    BY <1>1, <1>3, FreshSweeps
<1>4. CASE Sure /\ r \notin relations
    BY <1>2, <1>4, RelationStated
<1>5. CASE Sure /\ r \in relations
    <2>1. r.from # next_id /\ r.to # next_id
        BY <1>1, <1>5 DEF TypeInv, TypeOK, StoreIntegrity
    <2>2. e \in entities /\ g \in entities
        BY <1>1, <2>1, RowsOld
    <2>3. ASSUME NEW i \in Runs, DeleteFile(i)
          PROVE  /\ e.path # run[i].files[run[i].deleted + 1]
                 /\ g.path # run[i].files[run[i].deleted + 1]
        BY <2>3 DEF DeleteFile
    <2>4. Swept(e.path) \/ Swept(g.path)
        BY <1>5, <2>3, SweptStep
    <2> QED BY <1>2, <1>5, <2>2, <2>4 DEF TrueInv
<1> QED BY <1>1, <1>3, <1>4, <1>5, SureIs

Ids == {e.id : e \in entities}

\* Run i owes the relation s, and it has found no end of it that is gone since.
OwesWell(i, s) ==
    /\ Owes(i, s)
    /\ run[i].pc \in {"to", "insert"} /\ Line(i) = s => run[i].from \in Ids
    /\ run[i].pc = "insert" /\ Line(i) = s => run[i].to \in Ids

Ordered(s) ==
    /\ s.rec.type = "relation"
    /\ \E t \in Stated : Before(t, s) /\ Emits(t, s.rec.from)
    /\ \E t \in Stated : Before(t, s) /\ Emits(t, s.rec.to)

\* A relation stated after its endpoints is stored, or a run is still to store
\* it and will not fail to.
WiredInv ==
    Sure => \A s \in Stated : Ordered(s) =>
        Wired(s.rec.from, s.rec.to) \/ \E i \in Runs : OwesWell(i, s)

\* When an endpoint of the line under work is missing, another run owes the
\* endpoint, and so the line.
LEMMA OtherOwes ==
    ASSUME FeedInv, CompleteInv, OwesOn, Sure, NEW i \in Runs,
           Reading(i) \/ run[i].pc \in {"to", "insert"}, Line(i) \in Stated,
           NEW t \in Stated, Before(t, Line(i)), t.rec.type = "entity", Rows(t.rec.name) = {}
    PROVE  \E k \in Runs \ {i} : OwesWell(k, Line(i))
<1> DEFINE s == Line(i)
<1>1. TypeInv /\ s \in Stated /\ s \in Item /\ t \in Item
    BY StatedIs DEF FeedInv, TypeInv, TypeOK
<1>2. ~Stored(t)
    BY DEF Rows, Stored
<1>3. PICK k \in Runs : Owes(k, t)
    BY <1>2 DEF CompleteInv
<1>4. ~(t = s \/ Before(s, t))
    BY <1>1, BeforeIs
<1>5. ASSUME NEW j \in Runs, Reading(j) \/ run[j].pc \in {"to", "insert"}, Owes(j, t)
      PROVE  Line(j) # s
    BY <1>4, <1>5, OwesAfter
<1>6. k # i
    BY <1>3, <1>5
<1>7. Owes(k, s)
    BY <1>1, <1>3 DEF OwesOn
<1> HIDE DEF s
<1>8. run[k].pc \in {"to", "insert"} => Line(k) # s
    BY <1>3, <1>5
<1>9. OwesWell(k, s)
    BY <1>7, <1>8 DEF OwesWell
<1> QED BY <1>6, <1>9 DEF s

\* The run that ingests an ordered relation wires it, or another run will.
LEMMA LineWired ==
    ASSUME FeedInv, EndsInv, CompleteInv, OwesOn, Sure, [Next]_vars, NEW i \in Runs, Ingests(i),
           NEW s \in Stated, s = Line(i), Ordered(s), OwesWell(i, s)
    PROVE  \/ Wired(s.rec.from, s.rec.to)'
           \/ UNCHANGED entities /\ \E k \in Runs \ {i} : OwesWell(k, s)
<1>1. TypeInv
    BY DEF FeedInv
<1>2. PICK t \in Stated : Before(t, s) /\ t.rec.type = "entity" /\ t.rec.name = s.rec.from
    BY DEF Ordered, Emits
<1>3. PICK u \in Stated : Before(u, s) /\ u.rec.type = "entity" /\ u.rec.name = s.rec.to
    BY DEF Ordered, Emits
<1>4. s.rec.type = "relation" /\ Consume(i)
    BY DEF Ordered, Ingests, Consumes
<1>5. run'[i].pc = "ingest"
    <2>1. run'[i] = [run[i] EXCEPT !.pipe = Tail(@), !.pc = "ingest", !.from = 0, !.to = 0]
        BY <1>1, ConsumeTurns DEF Ingests, Consumes
    <2> QED BY <1>1, <2>1, FieldTypes DEF RunStates
<1>6. CASE ResolveFrom(i)
    <2>1. Reading(i) /\ UNCHANGED entities
        BY <1>6 DEF ResolveFrom, storeVars
    <2>2. Rows(s.rec.from) = {}
        <3> SUFFICES ASSUME NEW id, run' = [run EXCEPT ![i].pc = "to", ![i].from = id] PROVE FALSE
            BY <1>6 DEF ResolveFrom
        <3>1. run'[i].pc = "to"
            BY <1>1, FieldTypes DEF RunStates
        <3>2. run'[i].pc = "ingest"
            BY <1>5
        <3> QED BY <3>1, <3>2
    <2> QED BY <1>2, <2>1, <2>2, OtherOwes
<1>7. CASE ResolveTo(i)
    <2>1. run[i].pc = "to" /\ UNCHANGED entities
        BY <1>7 DEF ResolveTo, storeVars
    <2>2. Rows(s.rec.to) = {}
        <3> SUFFICES ASSUME NEW id, run' = [run EXCEPT ![i].pc = "insert", ![i].to = id] PROVE FALSE
            BY <1>7 DEF ResolveTo
        <3>1. run'[i].pc = "insert"
            BY <1>1, FieldTypes DEF RunStates
        <3>2. run'[i].pc = "ingest"
            BY <1>5
        <3> QED BY <3>1, <3>2
    <2> QED BY <1>3, <2>1, <2>2, OtherOwes
<1>8. CASE InsertRelation(i)
    <2>1. run[i].pc = "insert" /\ UNCHANGED entities
        BY <1>8 DEF InsertRelation
    <2>2. run[i].from \in Ids /\ run[i].to \in Ids
        BY <2>1 DEF OwesWell
    <2>3. PICK e \in entities, g \in entities : e.id = run[i].from /\ g.id = run[i].to
        BY <2>2 DEF Ids
    <2>4. e.name = s.rec.from /\ g.name = s.rec.to
        BY <2>1, <2>3 DEF EndsInv, Ends
    <2> DEFINE r == [from |-> run[i].from, to |-> run[i].to]
    <2>5. r \in relations'
        BY <1>8, <2>2 DEF InsertRelation, Ids
    <2>6. r.from = e.id /\ r.to = g.id
        BY <2>3
    <2> HIDE DEF r
    <2>7. Wired(s.rec.from, s.rec.to)'
        <3>1. e \in entities' /\ g \in entities'
            BY <2>1, <2>3
        <3>2. \E q \in relations', x \in entities', y \in entities' :
                q.from = x.id /\ q.to = y.id /\ x.name = s.rec.from /\ y.name = s.rec.to
            BY <2>4, <2>5, <2>6, <3>1
        <3> QED BY <3>2 DEF Wired
    <2> QED BY <2>7
<1> QED BY <1>4, <1>6, <1>7, <1>8 DEF Ingests, SkipInvalid, IngestEntity

\* A run that is still deleting owes every relation, and its ends before it.
LEMMA DeletingOwes ==
    ASSUME NEW i \in Runs, run'[i].pc = "delete"
    PROVE  \A s : OwesWell(i, s)'
BY DEF OwesWell, Owes

\* A run that does not move owes relations as it did.
LEMMA SameOwesWell ==
    ASSUME NEW i \in Runs, run'[i] = run[i], entities \subseteq entities', NEW s, OwesWell(i, s)
    PROVE  OwesWell(i, s)'
<1>1. Owes(i, s)' /\ Line(i)' = Line(i) /\ Ids \subseteq Ids'
    BY SameOwes DEF OwesWell, Line, Ids
<1> QED BY <1>1 DEF OwesWell

\* Until it comes to the record, or while it looks up its ends, a run owes it well.
LEMMA FeedOwesWell ==
    ASSUME FeedInv, NEW i \in Runs, Reads(i), UNCHANGED disk,
           \/ Spawn(i) \/ WriterWrite(i) \/ PluginStep(i)
           \/ (ResolveFrom(i) \/ ResolveTo(i)) /\ ~Consume(i),
           NEW s \in Stated, OwesWell(i, s)
    PROVE  OwesWell(i, s)'
<1>1. TypeInv
    BY DEF FeedInv
<1>2. Owes(i, s)'
    BY FeedOwes DEF OwesWell
<1>3. UNCHANGED entities
    BY DEF Spawn, WriterWrite, PluginStep, PluginRead, PluginWrite, PluginExit, ResolveFrom,
           ResolveTo, storeVars
<1>4. CASE Spawn(i)
    <2>1. run'[i].pc = "ingest"
        BY <1>1, <1>4, SpawnTurns, FieldTypes DEF RunStates
    <2> QED BY <1>2, <2>1 DEF OwesWell
<1>5. ASSUME run'[i].pc = run[i].pc, run'[i].from = run[i].from, run'[i].to = run[i].to,
             run[i].pc \in {"to", "insert"} => Line(i)' = Line(i)
      PROVE  OwesWell(i, s)'
    BY <1>2, <1>3, <1>5 DEF OwesWell, Ids
<1>6. CASE WriterWrite(i) \/ PluginRead(i) \/ PluginExit(i)
    <2>1. \/ run'[i] = [run[i] EXCEPT !.written = @ + 1]
          \/ run'[i] = [run[i] EXCEPT !.plugin = "exited"]
          \/ run'[i] = [run[i] EXCEPT !.read = @ + 1, !.out = Emitted(run[i].files[run[i].read + 1])]
        BY <1>1, <1>6, WriterTurns, ExitTurns, ReadTurns
    <2>2. /\ run'[i].pc = run[i].pc /\ run'[i].pipe = run[i].pipe
          /\ run'[i].from = run[i].from /\ run'[i].to = run[i].to
        BY <1>1, <2>1, FieldTypes DEF RunStates
    <2> QED BY <1>5, <2>2 DEF Line
<1>7. CASE PluginWrite(i)
    <2>1. run'[i] = [run[i] EXCEPT !.pipe = Append(@, Head(run[i].out)), !.out = Tail(@)]
        BY <1>1, <1>7, WriteTurns
    <2>2. /\ run'[i].pc = run[i].pc /\ run'[i].pipe = Append(run[i].pipe, Head(run[i].out))
          /\ run'[i].from = run[i].from /\ run'[i].to = run[i].to
        BY <1>1, <2>1, FieldTypes DEF RunStates
    <2>3. run[i].pipe # <<>> => Head(Append(run[i].pipe, Head(run[i].out))) = Head(run[i].pipe)
        <3> DEFINE p == run[i].pipe
                   t == run[i].out
        <3>1. p \in Seq(Item) /\ t \in Seq(Item) /\ t # <<>>
            BY <1>1, <1>7, FieldTypes DEF PluginWrite
        <3> HIDE DEF p, t
        <3>2. p # <<>> => Head(Append(p, Head(t))) = Head(p)
            BY <3>1, JoinedMove
        <3> QED BY <3>2 DEF p, t
    <2>4. run[i].pc \in {"to", "insert"} => run[i].pipe # <<>>
        BY <1>1, FieldTypes DEF Stage
    <2> QED BY <1>5, <2>2, <2>3, <2>4 DEF Line
<1>8. CASE ResolveFrom(i) /\ ~Consume(i)
    <2>1. PICK id \in Rows(Line(i).rec.from) : run' = [run EXCEPT ![i].pc = "to", ![i].from = id]
        BY <1>8 DEF ResolveFrom
    <2>2. id \in Ids
        BY DEF Rows, Ids
    <2>3. run'[i].pc = "to" /\ run'[i].from = id
        BY <1>1, <2>1, FieldTypes DEF RunStates
    <2> QED BY <1>2, <1>3, <2>2, <2>3 DEF OwesWell, Ids
<1>9. CASE ResolveTo(i) /\ ~Consume(i)
    <2>1. PICK id \in Rows(Line(i).rec.to) : run' = [run EXCEPT ![i].pc = "insert", ![i].to = id]
        BY <1>9 DEF ResolveTo
    <2>2. id \in Ids
        BY DEF Rows, Ids
    <2>3. run'[i].to = id /\ run'[i].pipe = run[i].pipe /\ run'[i].from = run[i].from
        BY <1>1, <2>1, FieldTypes DEF RunStates
    <2>4. run[i].pc = "to" /\ Line(i)' = Line(i)
        BY <1>9, <2>3 DEF ResolveTo, Line
    <2>5. Ids' = Ids
        BY <1>3 DEF Ids
    <2> QED BY <1>2, <2>2, <2>3, <2>4, <2>5 DEF OwesWell
<1> QED BY <1>4, <1>6, <1>7, <1>8, <1>9 DEF PluginStep

\* Every step keeps WiredInv.
LEMMA StepKeepsWired ==
    ASSUME FeedInv, EndsInv, CompleteInv, OwesOn, WiredInv, [Next]_vars
    PROVE  WiredInv'
<1>1. ASSUME Sure' PROVE TypeInv /\ EraInv /\ UNCHANGED disk /\ Calm
    BY <1>1, SureIs DEF FeedInv
<1> SUFFICES ASSUME Sure', NEW s \in Stated', Ordered(s)'
             PROVE  Wired(s.rec.from, s.rec.to)' \/ \E i \in Runs : OwesWell(i, s)'
    BY DEF WiredInv
<1>2. s \in Stated /\ Ordered(s)
    <2>1. Stated' = Stated
        BY <1>1, DiskKeeps
    <2> QED BY <2>1 DEF Ordered, Before, Rank, Emits
<1>3. ASSUME NEW i \in Runs, Fresh(i)
      PROVE  \E k \in Runs : OwesWell(k, s)'
    BY <1>1, <1>3, FreshOwes, DeletingOwes
<1>4. ASSUME Sure PROVE Wired(s.rec.from, s.rec.to)' \/ \E i \in Runs : OwesWell(i, s)'
    <2>0. TypeInv /\ UNCHANGED disk /\ (\A j \in Runs : Reads(j)) /\ Calm
        BY <1>1, <1>4 DEF FeedInv, ReadInv, Sure
    <2>1. Wired(s.rec.from, s.rec.to) \/ \E m \in Runs : OwesWell(m, s)
        BY <1>2, <1>4 DEF WiredInv
    <2>2. ASSUME entities \subseteq entities', relations \subseteq relations', Wired(s.rec.from, s.rec.to)
          PROVE  Wired(s.rec.from, s.rec.to)'
        <3>1. PICK r \in relations, e \in entities, g \in entities :
                r.from = e.id /\ r.to = g.id /\ e.name = s.rec.from /\ g.name = s.rec.to
            BY <2>2 DEF Wired
        <3>2. r \in relations' /\ e \in entities' /\ g \in entities'
            BY <2>2
        <3> QED BY <3>1, <3>2 DEF Wired
    <2>3. CASE UNCHANGED <<disk, storeVars, run, historyVars>>
        <3>1. UNCHANGED <<entities, relations, run>>
            BY <2>3 DEF storeVars
        <3> QED BY <2>1, <2>2, <3>1, SameOwesWell
    <2>4. ASSUME NEW i \in Runs, Collect(i), run' # run
          PROVE  OwesWell(i, s)'
        <3>1. run'[i].pc = "delete"
            BY <2>0, <2>4, CollectTurns DEF IdleRun
        <3> QED BY <3>1, DeletingOwes
    <2>5. ASSUME NEW i \in Runs, Finish(i), Only(i), UNCHANGED storeVars
          PROVE  Wired(s.rec.from, s.rec.to)' \/ \E m \in Runs : OwesWell(m, s)'
        <3>1. UNCHANGED <<entities, relations>>
            BY <2>5 DEF storeVars
        <3>2. ~OwesWell(i, s)
            BY <2>0, <2>5, EndOwes DEF OwesWell
        <3>3. \A m \in Runs : OwesWell(m, s) => OwesWell(m, s)'
            BY <2>5, <3>1, <3>2, SameOwesWell DEF Only
        <3> QED BY <2>1, <2>2, <3>1, <3>3
    <2>6. ASSUME NEW i \in Runs, DeleteFile(i) PROVE OwesWell(i, s)'
        <3>1. run'[i].pc = "delete"
            BY <2>0, <2>6, DeleteTurns, FieldTypes DEF DeleteFile, RunStates
        <3> QED BY <3>1, DeletingOwes
    <2>7. ASSUME NEW i \in Runs, Only(i),
                 \/ Spawn(i) \/ WriterWrite(i) \/ PluginStep(i)
                 \/ (ResolveFrom(i) \/ ResolveTo(i)) /\ ~Consume(i)
          PROVE  Wired(s.rec.from, s.rec.to)' \/ \E m \in Runs : OwesWell(m, s)'
        <3>1. UNCHANGED <<entities, relations>>
            BY <2>7 DEF Spawn, WriterWrite, PluginStep, PluginRead, PluginWrite, PluginExit,
                        ResolveFrom, ResolveTo, storeVars
        <3>2. OwesWell(i, s) => OwesWell(i, s)'
            BY <1>2, <2>0, <2>7, FeedOwesWell
        <3>3. \A m \in Runs : OwesWell(m, s) => OwesWell(m, s)'
            BY <2>7, <3>1, <3>2, SameOwesWell DEF Only
        <3> QED BY <2>1, <2>2, <3>1, <3>3
    <2>8. ASSUME NEW i \in Runs, Only(i), Ingests(i), run[i].pc \in {"ingest", "to", "insert"}
          PROVE  Wired(s.rec.from, s.rec.to)' \/ \E m \in Runs : OwesWell(m, s)'
        <3>1. entities \subseteq entities' /\ relations \subseteq relations'
            BY <2>8 DEF Ingests, SkipInvalid, IngestEntity, ResolveFrom, ResolveTo, InsertRelation, storeVars
        <3>2. \A m \in Runs \ {i} : OwesWell(m, s) => OwesWell(m, s)'
            BY <2>8, <3>1, SameOwesWell DEF Only
        <3>3. CASE OwesWell(i, s) /\ s = Line(i)
            <4>1. \/ Wired(s.rec.from, s.rec.to)'
                  \/ UNCHANGED entities /\ \E k \in Runs \ {i} : OwesWell(k, s)
                BY <1>2, <1>4, <2>8, <3>3, LineWired
            <4> QED BY <3>2, <4>1
        <3>4. CASE OwesWell(i, s) /\ s # Line(i)
            <4>1. Owes(i, s)' /\ run'[i].pc = "ingest"
                BY <2>8, <3>4, ConsumeOwes DEF Ingests, OwesWell
            <4>2. OwesWell(i, s)'
                BY <4>1 DEF OwesWell
            <4> QED BY <4>2
        <3> QED BY <2>1, <2>2, <3>1, <3>2, <3>3, <3>4
    <2>9. ASSUME NEW i \in Runs, Only(i), ~Finish(i), IndexStep(i) \/ WriterWrite(i) \/ PluginStep(i)
          PROVE  Wired(s.rec.from, s.rec.to)' \/ \E m \in Runs : OwesWell(m, s)'
        <3>1. CASE \/ SkipInvalid(i) \/ IngestEntity(i) \/ InsertRelation(i)
                   \/ (ResolveFrom(i) \/ ResolveTo(i)) /\ Consume(i)
            <4>1. Ingests(i) /\ run[i].pc \in {"ingest", "to", "insert"}
                BY <2>0, <3>1, ConsumingSteps DEF Ingests
            <4> QED BY <2>8, <2>9, <4>1
        <3> QED BY <2>6, <2>7, <2>9, <3>1 DEF IndexStep
    <2> QED BY <2>0, <2>3, <2>4, <2>5, <2>9, CalmTurns
<1> QED BY <1>1, <1>3, <1>4, SureIs

\* What is true of the files, the runs and the rows at all times.
StoreInv ==
    /\ FeedInv /\ EndsInv
    /\ OwesOn /\ CompleteInv /\ SoundInv /\ TrueInv /\ WiredInv

\* An empty store has them all.
LEMMA InitStore == Init => StoreInv
<1> SUFFICES ASSUME Init PROVE StoreInv
    OBVIOUS
<1>1. FeedInv
    BY InitFeed
<1>2. ~Sure
    <2>1. trust = 0 /\ \A i \in Runs : run[i] = IdleRun
        BY DEF Init
    <2> QED BY <2>1 DEF Sure, IdleRun
<1>3. EndsInv
    BY DEF Init, EndsInv, Ends
<1> QED BY <1>1, <1>2, <1>3 DEF StoreInv, OwesOn, CompleteInv, SoundInv, TrueInv, WiredInv

\* The invariant of the store is inductive.
LEMMA StepKeepsStore == StoreInv /\ [Next]_vars => StoreInv'
BY StepKeepsFeed, StepKeepsEnds, StepKeepsOwesOn, StepKeepsComplete, StepKeepsSound,
   StepKeepsTrue, StepKeepsWired
   DEF StoreInv, FeedInv

\* It holds throughout.
LEMMA StoreInvariant == Spec => []StoreInv
BY InitStore, StepKeepsStore, PTL DEF Spec

\* When no run is active after an undisturbed one, nothing is owed and all is swept.
LEMMA Settled ==
    ASSUME StoreInv, Idle, trust > 0
    PROVE  /\ Sure /\ disk \in Disks
           /\ \A i \in Runs : \A s : ~Owes(i, s)
           /\ \A p \in Present : Swept(p)
<1>1. Sure
    BY DEF StoreInv, FeedInv, EraInv, Era, Idle, Sure
<1> QED BY <1>1, IdleOwes DEF StoreInv, FeedInv, TypeInv, TypeOK, Idle, Swept

\* After an undisturbed run the store shows of each file on disk exactly the
\* entities the file has, each where the file has it, although runs delete and insert each other's rows.
THEOREM RunsShowFiles == Spec => []CleanRunShowsFiles
<1>1. StoreInv => CleanRunShowsFiles
    <2> SUFFICES ASSUME StoreInv, Idle, trust > 0, NEW p \in Paths, disk[p.file] # Absent
                 PROVE  {<<e.name, e.line>> : e \in {x \in entities : x.path = p}} =
                        {<<s.rec.name, s.rec.line>> : s \in {x \in Stated : x.path = p /\ x.rec.type = "entity"}}
        BY DEF CleanRunShowsFiles
    <2>1. ASSUME NEW e \in entities, e.path = p
          PROVE  \E s \in Stated : /\ s.path = p /\ s.rec.type = "entity"
                                  /\ s.rec.name = e.name /\ s.rec.line = e.line
        <3>1. Sure /\ Swept(p)
            BY Settled DEF Present
        <3> QED BY <2>1, <3>1 DEF StoreInv, SoundInv, Emits
    <2>2. ASSUME NEW s \in Stated, s.path = p, s.rec.type = "entity"
          PROVE  \E e \in entities : e.path = p /\ e.name = s.rec.name /\ e.line = s.rec.line
        BY <2>2, Settled DEF StoreInv, CompleteInv, Stored
    <2> QED BY <2>1, <2>2
<1> QED BY <1>1, StoreInvariant, PTL

\* A relation stated after both its endpoints is in the store after an
\* undisturbed run, although another run may have deleted its endpoints while
\* it was being inserted.
THEOREM RunsWireRelations == Spec => []OrderedRelationsWired
<1>1. StoreInv => OrderedRelationsWired
    BY Settled DEF StoreInv, WiredInv, OwesWell, Ordered, OrderedRelationsWired
<1> QED BY <1>1, StoreInvariant, PTL

\* After an undisturbed run a stored relation that touches a file on disk is one
\* that some file on disk states.
THEOREM RunsForgetRelations == Spec => []RelationsTrue
<1>1. StoreInv => RelationsTrue
    <2> SUFFICES ASSUME StoreInv, Idle, trust > 0,
                        NEW r \in relations, NEW e \in entities, NEW g \in entities,
                        r.from = e.id, r.to = g.id,
                        disk[e.path.file] # Absent \/ disk[g.path.file] # Absent
                 PROVE  [type |-> "relation", from |-> e.name, to |-> g.name] \in {s.rec : s \in Stated}
        BY DEF RelationsTrue
    <2>1. e.path \in Paths /\ g.path \in Paths
        BY DEF StoreInv, FeedInv, TypeInv, TypeOK
    <2>2. Sure /\ (Swept(e.path) \/ Swept(g.path))
        BY <2>1, Settled DEF Present
    <2>3. PICK s \in Stated : s.rec = [type |-> "relation", from |-> e.name, to |-> g.name]
        BY <2>2 DEF StoreInv, TrueInv
    <2> QED BY <2>3
<1> QED BY <1>1, StoreInvariant, PTL
================================================================================
