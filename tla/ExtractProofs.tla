------------------------------ MODULE ExtractProofs ------------------------------
(***************************************************************************)
(* What is proved of Extract for every file, vocabulary and merge table,   *)
(* for every labelling and for every extractor: the plugin's buffers hold, *)
(* the store holds what the ontology declares, the daemon takes every line *)
(* of the shipped plugin, and the rows are those of krl_index_file.        *)
(*                                                                         *)
(* The invariant has three parts: TextInv, the text and its tokens;        *)
(* LineInv, the lines and how many are read; SpanInv, that the lines are   *)
(* those of the spans that begin before token i.  What merges find in the  *)
(* table is left open here: NameProofs goes on from there.                 *)
(***************************************************************************)
EXTENDS Extract, SetInduction, FiniteSetTheorems

-----------------------------------------------------------------------------
(* Strings in a buffer. *)

\* Total adds the lengths up.
LEMMA TotalIs ==
    ASSUME NEW V, NEW strs \in Seq(Seq(V))
    PROVE  /\ Total(strs, 0) = 0
           /\ \A k \in 0..Len(strs) : Total(strs, k) \in Nat
           /\ \A k \in 1..Len(strs) : Total(strs, k) = Total(strs, k - 1) + Len(strs[k])
<1> DEFINE N == Len(strs)
           step == [n \in 1..N |-> [m \in Nat |-> m + Len(strs[n])]]
           Eq(g) == g = [j \in 0..N |-> IF j = 0 THEN 0 ELSE g[j - 1] + Len(strs[j])]
           upto == CHOOSE g : Eq(g)
<1>1. N \in Nat /\ \A n \in 1..N : Len(strs[n]) \in Nat
    BY LenProperties, ElementOfSeq
<1>2. step \in Steps(N, Nat)
    <2> HIDE DEF N
    <2> QED BY <1>1 DEF Steps
<1>3. PICK f : Recursion(f, N, Nat, 0, step)
    <2> HIDE DEF step, N
    <2> QED BY <1>1, <1>2, RecursionUpTo
<1>4. \A n \in 1..N : f[n] = f[n - 1] + Len(strs[n])
    <2> HIDE DEF N
    <2> SUFFICES ASSUME NEW n \in 1..N PROVE f[n] = f[n - 1] + Len(strs[n])
        OBVIOUS
    <2>1. f[n - 1] \in Nat
        BY <1>1, <1>3 DEF Recursion
    <2> QED BY <1>3, <2>1 DEF Recursion
<1>5. Eq(f)
    <2> HIDE DEF N
    <2> QED BY <1>1, <1>3, <1>4 DEF Recursion
<1>6. Eq(upto)
    <2> HIDE DEF Eq
    <2> QED BY <1>5
<1>7. \A k : Total(strs, k) = upto[k]
    BY DEF Total
<1> DEFINE S == {n \in 0..N : upto[n] \in Nat}
<1>8. 0..N \subseteq S
    <2> HIDE DEF N, upto
    <2>1. 0 \in S
        BY <1>1, <1>6
    <2>2. ASSUME NEW n \in 0..N - 1, n \in S
          PROVE  n + 1 \in S
        <3>1. n + 1 \in 1..N /\ n + 1 \in 0..N /\ n + 1 # 0 /\ (n + 1) - 1 = n
            BY <1>1
        <3>2. upto[n + 1] = upto[n] + Len(strs[n + 1])
            BY <1>6, <3>1
        <3>3. upto[n] \in Nat /\ Len(strs[n + 1]) \in Nat
            BY <1>1, <2>2, <3>1
        <3> QED BY <3>1, <3>2, <3>3
    <2> HIDE DEF S
    <2> QED BY <1>1, <2>1, <2>2, UpToInduction
<1>9. upto[0] = 0 /\ \A k \in 1..N : upto[k] = upto[k - 1] + Len(strs[k])
    <2> HIDE DEF N, upto
    <2> QED BY <1>1, <1>6
<1> HIDE DEF upto
<1> QED BY <1>7, <1>8, <1>9

\* It is the length of what they make together.
LEMMA JoinsTotal ==
    ASSUME NEW V, NEW strs \in Seq(Seq(V)), NEW f, Joins(f, strs, V)
    PROVE  \A n \in 0..Len(strs) : Len(f[n]) = Total(strs, n)
<1> DEFINE S == {n \in 0..Len(strs) : Len(f[n]) = Total(strs, n)}
<1>1. Len(strs) \in Nat /\ \A n \in 1..Len(strs) : strs[n] \in Seq(V)
    BY LenProperties, ElementOfSeq
<1>2. 0 \in S
    BY <1>1, TotalIs, EmptySeq DEF Joins
<1>3. ASSUME NEW n \in 0..Len(strs) - 1, n \in S
      PROVE  n + 1 \in S
    <2>1. n + 1 \in 1..Len(strs) /\ n + 1 \in 0..Len(strs) /\ (n + 1) - 1 = n /\ n \in 0..Len(strs)
        BY <1>1
    <2>2. f[n + 1] = f[n] \o strs[n + 1] /\ f[n] \in Seq(V) /\ strs[n + 1] \in Seq(V)
        BY <1>1, <2>1 DEF Joins
    <2>3. Len(f[n + 1]) = Len(f[n]) + Len(strs[n + 1])
        BY <2>2, ConcatProperties
    <2>4. Total(strs, n + 1) = Total(strs, n) + Len(strs[n + 1])
        BY <2>1, TotalIs
    <2> QED BY <1>3, <2>1, <2>3, <2>4
<1> HIDE DEF S
<1>4. 0..Len(strs) \subseteq S
    BY <1>1, <1>2, <1>3, UpToInduction
<1> QED BY <1>4 DEF S

\* The first n strings, put together, with a bound on n.
LEMMA FirstStrings ==
    ASSUME NEW V, NEW strs \in Seq(Seq(V)), NEW n \in 0..Len(strs)
    PROVE  /\ FlattenSeq(SubSeq(strs, 1, n)) \in Seq(V)
           /\ Len(FlattenSeq(SubSeq(strs, 1, n))) = Total(strs, n)
<1>1. PICK f : Joins(f, strs, V)
    BY Joined
<1>2. FlattenSeq(SubSeq(strs, 1, n)) = f[n]
    BY <1>1, FlattenSeqFirst
<1>3. f[n] \in Seq(V) /\ Len(f[n]) = Total(strs, n)
    BY <1>1, JoinsTotal DEF Joins
<1> QED BY <1>2, <1>3

\* The strings of a tokenizer that was loaded are those of its vocabulary.
VocabOver(B) == \A in \in Inputs : in.vocab # NoFile => in.vocab.entries \in Seq([id : Nat, str : Seq(B)])

\* What is appended for an id is a string of the vocabulary, or a part of one.
LEMMA TokenTextTyped ==
    ASSUME NEW B, VocabOver(B), NEW in \in Inputs, krl_tok_load(in.vocab, in.merges).loaded, NEW id
    PROVE  TokenText(krl_tok_load(in.vocab, in.merges), id) \in Seq(B)
<1> DEFINE vf == in.vocab
           t == krl_tok_load(vf, in.merges)
           With(d) == {k \in 1..vf.count : vf.entries[k].id = d}
<1>1. vf \in VocabFiles /\ vf.count <= Len(vf.entries)
    BY InputsAssumption DEF krl_tok_load, NoTok, Readable
<1>2. /\ vf.count \in Nat /\ vf.entries \in Seq([id : Nat, str : Seq(B)])
    <2>1. vf.count \in Nat
        BY <1>1 DEF VocabFiles
    <2>2. vf.entries \in Seq([id : Nat, str : Seq(B)])
        BY <1>1 DEF VocabOver, krl_tok_load, NoTok, Readable
    <2> QED BY <2>1, <2>2
<1>3. /\ DOMAIN t.id_to_str = {vf.entries[k].id : k \in 1..vf.count}
      /\ \A d \in DOMAIN t.id_to_str : t.id_to_str[d] = vf.entries[Max(With(d))].str
    BY DEF krl_tok_load, NoTok
<1>4. ASSUME NEW d \in DOMAIN t.id_to_str PROVE t.id_to_str[d] \in Seq(B)
    <2> HIDE DEF t
    <2>1. With(d) \subseteq 0..vf.count /\ With(d) # {}
        BY <1>2, <1>3, SMTT(30)
    <2> DEFINE m == Max(With(d))
    <2>2. m \in With(d)
        <3> HIDE DEF With
        <3> QED BY <1>2, <2>1, MaxUpTo
    <2>3. m \in 1..Len(vf.entries)
        <3> HIDE DEF m, vf
        <3>1. m \in 1..vf.count /\ Len(vf.entries) \in Nat
            BY <1>2, <2>2, LenProperties
        <3> QED BY <1>1, <1>2, <3>1
    <2>4. vf.entries[m] \in [id : Nat, str : Seq(B)]
        <3> HIDE DEF m, vf
        <3> QED BY <1>2, <2>3, ElementOfSeq
    <2> HIDE DEF m, vf
    <2>5. vf.entries[m].str \in Seq(B)
        BY <2>4
    <2> QED BY <1>3, <2>5 DEF m
<1> HIDE DEF t, vf, With
<1>5. TokenText(t, id) \in Seq(B)
    <2> DEFINE s == t.id_to_str[id]
    <2>1. CASE id \in {KRL_TOK_BOS, KRL_TOK_PAD, KRL_TOK_EOS} \/ id \notin DOMAIN t.id_to_str
        BY <2>1, EmptySeq DEF TokenText
    <2>2. CASE ~(id \in {KRL_TOK_BOS, KRL_TOK_PAD, KRL_TOK_EOS} \/ id \notin DOMAIN t.id_to_str)
        <3>1. s \in Seq(B)
            BY <1>4, <2>2
        <3>2. TokenText(t, id) = IF IsPrefix(SpaceMarker, s) THEN SubSeq(s, 3, Len(s)) ELSE s
            BY <2>2 DEF TokenText
        <3> HIDE DEF s
        <3>3. SubSeq(s, 3, Len(s)) \in Seq(B)
            BY <3>1, SubSeqProperties, LenProperties
        <3> QED BY <3>1, <3>2, <3>3
    <2> QED BY <2>1, <2>2
<1> QED BY <1>5 DEF t, vf

\* Strings are of bytes.
LEMMA VocabOverByte == VocabOver(Byte)
<1> SUFFICES ASSUME NEW in \in Inputs, in.vocab # NoFile
             PROVE  in.vocab.entries \in Seq([id : Nat, str : Seq(Byte)])
    BY DEF VocabOver
<1>1. in.vocab \in VocabFiles
    BY InputsAssumption
<1> QED BY <1>1 DEF VocabFiles

\* Bytes that are no control characters.
Printable == 32..255

\* Those of the shipped vocabulary have no control characters.
LEMMA VocabOverPrintable == Shipped => VocabOver(Printable)
<1> SUFFICES ASSUME Shipped, NEW in \in Inputs, in.vocab # NoFile
             PROVE  in.vocab.entries \in Seq([id : Nat, str : Seq(Printable)])
    BY DEF VocabOver
<1> DEFINE es == in.vocab.entries
<1>1. es \in Seq([id : Nat, str : Seq(Byte)])
    BY VocabOverByte DEF VocabOver
<1>2. \A k \in DOMAIN es : \A j \in DOMAIN es[k].str : es[k].str[j] >= 32
    BY DEF Shipped, Range
<1> HIDE DEF es
<1>3. ASSUME NEW k \in 1..Len(es) PROVE es[k] \in [id : Nat, str : Seq(Printable)]
    <2>1. es[k] \in [id : Nat, str : Seq(Byte)] /\ k \in DOMAIN es
        BY <1>1, ElementOfSeq, LenProperties
    <2> DEFINE s == es[k].str
    <2>2. s \in Seq(Byte) /\ \A j \in DOMAIN s : s[j] >= 32
        BY <1>2, <2>1
    <2>3. s \in Seq(Printable)
        <3> HIDE DEF s
        <3>1. Len(s) \in Nat /\ DOMAIN s = 1..Len(s) /\ s \in [1..Len(s) -> Byte]
            BY <2>2, LenProperties
        <3>2. ASSUME NEW j \in 1..Len(s) PROVE s[j] \in Printable
            <4>1. \A v \in Byte : v >= 32 => v \in Printable
                BY DEF Byte, Printable
            <4>2. s[j] \in Byte /\ s[j] >= 32
                BY <2>2, <3>1
            <4> QED BY <4>1, <4>2
        <3>3. s = [j \in 1..Len(s) |-> s[j]]
            BY <3>1
        <3>4. s \in [1..Len(s) -> Printable]
            BY <3>2, <3>3
        <3> QED BY <3>1, <3>4, SeqDef
    <2>4. es[k] = [id |-> es[k].id, str |-> s] /\ es[k].id \in Nat
        BY <2>1
    <2> HIDE DEF s
    <2> QED BY <2>3, <2>4
<1>4. es \in Seq([id : Nat, str : Seq(Printable)])
    <2> DEFINE E == [id : Nat, str : Seq(Printable)]
    <2> HIDE DEF E
    <2>1. Len(es) \in Nat /\ es \in [1..Len(es) -> [id : Nat, str : Seq(Byte)]]
        BY <1>1, LenProperties
    <2>2. \A k \in 1..Len(es) : es[k] \in E
        BY <1>3 DEF E
    <2>3. es \in [1..Len(es) -> E]
        BY <2>1, <2>2
    <2>4. es \in Seq(E)
        BY <2>1, <2>3, SeqDef
    <2> QED BY <2>4 DEF E
<1> QED BY <1>4 DEF es

\* A decoded name is shorter than its buffer.
LEMMA DecodeTyped ==
    ASSUME NEW B, VocabOver(B), NEW in \in Inputs, krl_tok_load(in.vocab, in.merges).loaded,
           NEW I, NEW toks \in Seq(I), NEW size \in Nat \ {0, 1}
    PROVE  /\ krl_tok_decode(krl_tok_load(in.vocab, in.merges), toks, size) \in Seq(B)
           /\ Len(krl_tok_decode(krl_tok_load(in.vocab, in.merges), toks, size)) < size - 1
<1> DEFINE t == krl_tok_load(in.vocab, in.merges)
           strs == [k \in DOMAIN toks |-> TokenText(t, toks[k])]
           Fit == {k \in 0..Len(toks) : k = 0 \/ Total(strs, k) < size - 1}
           n == Max(Fit)
<1>1. Len(toks) \in Nat /\ DOMAIN toks = 1..Len(toks)
    BY LenProperties
<1>2. strs \in Seq(Seq(B)) /\ Len(strs) = Len(toks)
    <2>1. \A k \in 1..Len(toks) : TokenText(t, toks[k]) \in Seq(B)
        BY TokenTextTyped
    <2> HIDE DEF t
    <2>2. [k \in 1..Len(toks) |-> TokenText(t, toks[k])] \in Seq(Seq(B))
        BY <1>1, <2>1, IsASeq
    <2> HIDE DEF strs
    <2>3. strs = [k \in 1..Len(toks) |-> TokenText(t, toks[k])]
        BY <1>1 DEF strs
    <2>4. DOMAIN strs = 1..Len(toks)
        BY <2>3
    <2> QED BY <1>1, <2>2, <2>3, <2>4, LenProperties
<1>3. n \in Fit
    <2> HIDE DEF strs
    <2>1. Fit \subseteq 0..Len(toks) /\ 0 \in Fit
        BY <1>1
    <2> HIDE DEF Fit
    <2> QED BY <1>1, <2>1, MaxUpTo
<1>4. krl_tok_decode(t, toks, size) = FlattenSeq(SubSeq(strs, 1, n))
    BY DEF krl_tok_decode
<1> HIDE DEF t, strs, n
<1>5. n \in 0..Len(strs) /\ (n = 0 \/ Total(strs, n) < size - 1)
    BY <1>2, <1>3
<1>6. Total(strs, n) < size - 1
    BY <1>2, <1>5, TotalIs
<1>7. krl_tok_decode(t, toks, size) \in Seq(B) /\ Len(krl_tok_decode(t, toks, size)) < size - 1
    BY <1>2, <1>4, <1>5, <1>6, FirstStrings
<1> QED BY <1>7 DEF t

-----------------------------------------------------------------------------
(* Strings in JSON. *)

\* What json_escape makes of one byte.
Escaped(b) ==
    CASE b \in {Quote, Backslash} -> <<Backslash, b>>
      [] b >= 32 /\ b \notin {Quote, Backslash} -> <<b>>
      [] OTHER -> <<>>

\* At most two bytes; a backslash or the byte itself, unless it goes.
LEMMA EscapedTyped ==
    \A b \in Byte : /\ Escaped(b) \in Seq(Byte) /\ Len(Escaped(b)) \in 0..2
                    /\ b >= 32 => Escaped(b) # <<>> /\ Escaped(b)[1] # Quote
                    /\ b >= 32 /\ b \notin {Quote, Backslash} => Escaped(b) = <<b>>
<1> SUFFICES ASSUME NEW b \in Byte
             PROVE  /\ Escaped(b) \in Seq(Byte) /\ Len(Escaped(b)) \in 0..2
                    /\ b >= 32 => Escaped(b) # <<>> /\ Escaped(b)[1] # Quote
                    /\ b >= 32 /\ b \notin {Quote, Backslash} => Escaped(b) = <<b>>
    OBVIOUS
<1>1. CASE b \in {Quote, Backslash}
    <2>1. Escaped(b) = <<Backslash, b>>
        BY <1>1 DEF Escaped
    <2> QED BY <1>1, <2>1 DEF Byte, Quote, Backslash
<1>2. CASE b >= 32 /\ b \notin {Quote, Backslash}
    <2>1. Escaped(b) = <<b>>
        BY <1>2 DEF Escaped
    <2> QED BY <1>2, <2>1 DEF Byte, Quote, Backslash
<1>3. CASE b \notin {Quote, Backslash} /\ ~(b >= 32)
    <2>1. Escaped(b) = <<>>
        BY <1>3 DEF Escaped
    <2> QED BY <1>3, <2>1
<1> QED BY <1>1, <1>2, <1>3

\* What json_escape makes of a string, n of its bytes escaped.
LEMMA EscapeIs ==
    ASSUME NEW s \in Seq(Byte), NEW size \in Nat
    PROVE  LET strs == [k \in DOMAIN s |-> Escaped(s[k])]
               Fit == {k \in 0..Len(s) : k = 0 \/ Total(strs, k - 1) + 4 < size} IN
           /\ strs \in Seq(Seq(Byte)) /\ Len(strs) = Len(s)
           /\ Max(Fit) \in Fit /\ \A k \in Fit : k <= Max(Fit)
           /\ json_escape(s, size) = FlattenSeq(SubSeq(strs, 1, Max(Fit)))
<1> DEFINE strs == [k \in DOMAIN s |-> Escaped(s[k])]
           Fit == {k \in 0..Len(s) : k = 0 \/ Total(strs, k - 1) + 4 < size}
<1>1. Len(s) \in Nat /\ DOMAIN s = 1..Len(s) /\ \A k \in 1..Len(s) : s[k] \in Byte
    BY LenProperties, ElementOfSeq
<1>2. strs \in Seq(Seq(Byte)) /\ Len(strs) = Len(s)
    <2>1. \A k \in 1..Len(s) : Escaped(s[k]) \in Seq(Byte)
        BY <1>1, EscapedTyped
    <2>2. [k \in 1..Len(s) |-> Escaped(s[k])] \in Seq(Seq(Byte))
        BY <1>1, <2>1, IsASeq
    <2> HIDE DEF strs
    <2>3. strs = [k \in 1..Len(s) |-> Escaped(s[k])]
        BY <1>1 DEF strs
    <2>4. DOMAIN strs = 1..Len(s)
        BY <2>3
    <2> QED BY <1>1, <2>2, <2>3, <2>4, LenProperties
<1>3. Max(Fit) \in Fit /\ \A k \in Fit : k <= Max(Fit)
    <2> HIDE DEF strs
    <2>1. Fit \subseteq 0..Len(s) /\ 0 \in Fit
        BY <1>1
    <2> HIDE DEF Fit
    <2> QED BY <1>1, <2>1, MaxUpTo
<1>4. json_escape(s, size) = FlattenSeq(SubSeq(strs, 1, Max(Fit)))
    BY DEF json_escape, Escaped
<1> QED BY <1>2, <1>3, <1>4

\* An escaped string fits its buffer.
LEMMA EscapeTyped ==
    ASSUME NEW s \in Seq(Byte), NEW size \in Nat \ {0}
    PROVE  json_escape(s, size) \in Seq(Byte) /\ Len(json_escape(s, size)) < size
<1> DEFINE strs == [k \in DOMAIN s |-> Escaped(s[k])]
           Fit == {k \in 0..Len(s) : k = 0 \/ Total(strs, k - 1) + 4 < size}
           n == Max(Fit)
<1>1. /\ strs \in Seq(Seq(Byte)) /\ Len(strs) = Len(s)
      /\ n \in Fit
      /\ json_escape(s, size) = FlattenSeq(SubSeq(strs, 1, n))
    BY EscapeIs
<1>2. Len(s) \in Nat /\ DOMAIN s = 1..Len(s) /\ \A k \in 1..Len(s) : s[k] \in Byte
    BY LenProperties, ElementOfSeq
<1>3. n \in 0..Len(strs) /\ (n = 0 \/ Total(strs, n - 1) + 4 < size)
    BY <1>1
<1>4. \A k \in 1..Len(strs) : Len(strs[k]) \in 0..2
    BY <1>1, <1>2, EscapedTyped
<1> HIDE DEF strs, n
<1>5. Total(strs, n) < size
    <2>1. CASE n = 0
        BY <1>1, <2>1, TotalIs
    <2>2. CASE n # 0
        <3>1. n \in 1..Len(strs) /\ n - 1 \in 0..Len(strs)
            BY <1>1, <1>2, <1>3, <2>2
        <3>2. Total(strs, n) = Total(strs, n - 1) + Len(strs[n]) /\ Total(strs, n - 1) \in Nat
            BY <1>1, <3>1, TotalIs
        <3>3. Total(strs, n - 1) + 4 < size
            BY <1>3, <2>2
        <3>4. Len(strs[n]) \in 0..2
            BY <1>4, <3>1
        <3>5. \A x \in Nat, y \in 0..2 : x + 4 < size => x + y < size
            OBVIOUS
        <3> QED BY <3>2, <3>3, <3>4, <3>5
    <2> QED BY <2>1, <2>2
<1> QED BY <1>1, <1>3, <1>5, FirstStrings

\* It begins with what its first byte becomes.
LEMMA EscapeFirst ==
    ASSUME NEW s \in Seq(Byte), s # <<>>, s[1] >= 32, NEW size \in Nat, size > 4
    PROVE  json_escape(s, size) # <<>> /\ json_escape(s, size)[1] = Escaped(s[1])[1]
<1> DEFINE strs == [k \in DOMAIN s |-> Escaped(s[k])]
           Fit == {k \in 0..Len(s) : k = 0 \/ Total(strs, k - 1) + 4 < size}
           n == Max(Fit)
<1>1. /\ strs \in Seq(Seq(Byte)) /\ Len(strs) = Len(s)
      /\ n \in Fit /\ \A k \in Fit : k <= n
      /\ json_escape(s, size) = FlattenSeq(SubSeq(strs, 1, n))
    BY EscapeIs
<1>2. Len(s) \in Nat /\ DOMAIN s = 1..Len(s) /\ 1 \in 1..Len(s) /\ s[1] \in Byte
    BY LenProperties, ElementOfSeq, EmptySeq
<1>3. 1 \in Fit
    <2>1. Total(strs, 1 - 1) = 0
        <3> HIDE DEF strs
        <3> QED BY <1>1, TotalIs, 1 - 1 = 0
    <2> HIDE DEF strs
    <2> QED BY <1>2, <2>1
<1>4. strs[1] = Escaped(s[1]) /\ strs[1] # <<>>
    BY <1>2, EscapedTyped
<1>5. n \in 1..Len(strs)
    <2> HIDE DEF strs
    <2>1. n \in 0..Len(s) /\ 1 <= n
        <3>1. n \in Fit /\ 1 <= n
            <4> HIDE DEF n, Fit
            <4> QED BY <1>1, <1>3
        <3> HIDE DEF n
        <3> QED BY <3>1
    <2> QED BY <1>1, <1>2, <2>1
<1> HIDE DEF strs, n
<1> QED BY <1>1, <1>4, <1>5, FlattenSeqHead

\* A string that needs no escape and fits is what it was.
LEMMA EscapePlain ==
    ASSUME NEW s \in Seq(Printable), NEW size \in Nat, Len(s) + 3 < size,
           \A k \in 1..Len(s) : s[k] \notin {Quote, Backslash}
    PROVE  json_escape(s, size) = s
<1> DEFINE strs == [k \in DOMAIN s |-> Escaped(s[k])]
           Fit == {k \in 0..Len(s) : k = 0 \/ Total(strs, k - 1) + 4 < size}
           n == Max(Fit)
           f == [k \in 0..Len(s) |-> SubSeq(s, 1, k)]
<1>0. s \in Seq(Byte)
    BY DEF Printable, Byte
<1>1. /\ strs \in Seq(Seq(Byte)) /\ Len(strs) = Len(s)
      /\ n \in Fit /\ \A k \in Fit : k <= n
      /\ json_escape(s, size) = FlattenSeq(SubSeq(strs, 1, n))
    BY <1>0, EscapeIs
<1>2. /\ Len(s) \in Nat /\ DOMAIN s = 1..Len(s)
      /\ \A k \in 1..Len(s) : s[k] \in Byte /\ s[k] >= 32
    <2>1. \A v \in Printable : v \in Byte /\ v >= 32
        BY DEF Printable, Byte
    <2>2. Len(s) \in Nat /\ DOMAIN s = 1..Len(s) /\ \A k \in 1..Len(s) : s[k] \in Printable
        BY LenProperties, ElementOfSeq
    <2> QED BY <2>1, <2>2
<1>3. \A k \in 1..Len(s) : strs[k] = <<s[k]>>
    BY <1>2, EscapedTyped
<1>4. Joins(f, strs, Byte)
    <2> HIDE DEF strs
    <2> QED BY <1>0, <1>1, <1>3, SinglesJoin
<1>5. \A k \in 0..Len(s) : Len(f[k]) = k
    BY <1>0, <1>2, SubSeqProperties
<1>6. \A k \in 0..Len(s) : Total(strs, k) = k
    <2> HIDE DEF strs, f
    <2> QED BY <1>1, <1>4, <1>5, JoinsTotal
<1>7. Len(s) \in Fit
    <2> HIDE DEF strs
    <2>1. CASE Len(s) = 0
        BY <2>1
    <2>2. CASE Len(s) # 0
        <3>1. Len(s) - 1 \in 0..Len(s)
            BY <1>2, <2>2
        <3>2. Total(strs, Len(s) - 1) + 4 < size
            BY <1>2, <1>6, <3>1
        <3> QED BY <1>2, <3>2
    <2> QED BY <2>1, <2>2
<1>8. n = Len(s)
    <2> HIDE DEF strs
    <2>1. n \in 0..Len(s) /\ Len(s) <= n
        <3>1. n \in Fit /\ Len(s) <= n
            <4> HIDE DEF n, Fit
            <4> QED BY <1>1, <1>7
        <3> HIDE DEF n
        <3> QED BY <3>1
    <2>2. Len(s) \in Nat
        BY <1>2
    <2> HIDE DEF n, Fit, strs, f
    <2> QED BY <2>1, <2>2
<1>9. FlattenSeq(SubSeq(strs, 1, n)) = f[n]
    <2> HIDE DEF strs, n, f
    <2>1. n \in 0..Len(strs)
        BY <1>1, <1>2, <1>8
    <2> QED BY <1>1, <1>4, <2>1, FlattenSeqFirst
<1>10. f[n] = s
    <2> HIDE DEF n, strs
    <2>1. f[n] = SubSeq(s, 1, Len(s))
        BY <1>2, <1>8
    <2>2. SubSeq(s, 1, Len(s)) \in Seq(Byte) /\ Len(SubSeq(s, 1, Len(s))) = Len(s)
          /\ \A k \in 1..Len(s) : SubSeq(s, 1, Len(s))[k] = s[k]
        BY <1>0, <1>2, SubSeqProperties
    <2> DEFINE u == SubSeq(s, 1, Len(s))
    <2> HIDE DEF u, f
    <2>3. u \in Seq(Byte) /\ Len(u) = Len(s) /\ \A k \in 1..Len(s) : u[k] = s[k]
        BY <2>2 DEF u
    <2>4. u = s
        BY <1>0, <2>3, SeqEqual
    <2> QED BY <2>1, <2>4 DEF u
<1> QED BY <1>1, <1>9, <1>10

\* What the daemon reads of it: it is not empty when it begins with no quote,
\* nothing is lost when it has none.
LEMMA UpToQuoteIs ==
    ASSUME NEW v \in Seq(Byte)
    PROVE  /\ UpToQuote(v) \in Seq(Byte) /\ Len(UpToQuote(v)) <= Len(v)
           /\ v # <<>> /\ v[1] # Quote => UpToQuote(v) # <<>> /\ UpToQuote(v)[1] = v[1]
           /\ (\A k \in 1..Len(v) : v[k] # Quote) => UpToQuote(v) = v
<1> DEFINE quotes == {k \in DOMAIN v : v[k] = Quote}
           m == Min(quotes)
<1>1. Len(v) \in Nat /\ DOMAIN v = 1..Len(v) /\ (v # <<>> => Len(v) >= 1)
    BY LenProperties, EmptySeq
<1>2. CASE quotes = {}
    <2>1. UpToQuote(v) = v
        BY <1>2 DEF UpToQuote
    <2> QED BY <1>1, <2>1
<1>3. CASE quotes # {}
    <2>1. quotes \subseteq Nat
        BY <1>1
    <2>2. m \in quotes
        <3> HIDE DEF quotes
        <3> QED BY <1>3, <2>1, MinOf
    <2>3. m \in 1..Len(v) /\ v[m] = Quote
        BY <1>1, <2>2
    <2>4. UpToQuote(v) = SubSeq(v, 1, m - 1)
        BY <1>3 DEF UpToQuote
    <2> HIDE DEF m, quotes
    <2>5. m - 1 \in 0..Len(v)
        BY <1>1, <2>3
    <2> DEFINE u == SubSeq(v, 1, m - 1)
    <2>6. /\ u \in Seq(Byte) /\ Len(u) = m - 1
          /\ \A k \in 1..m - 1 : u[k] = v[k]
        BY <1>1, <2>5, SubSeqProperties
    <2> HIDE DEF u
    <2>7. v[1] # Quote => m - 1 >= 1
        BY <1>1, <2>3
    <2>8. v[1] # Quote => u # <<>> /\ u[1] = v[1]
        <3> SUFFICES ASSUME v[1] # Quote PROVE u # <<>> /\ u[1] = v[1]
            OBVIOUS
        <3>1. 1 \in 1..m - 1
            BY <2>3, <2>7
        <3> QED BY <2>5, <2>6, <3>1, EmptySeq
    <2>9. Len(u) <= Len(v)
        BY <1>1, <2>5, <2>6
    <2> QED BY <2>3, <2>4, <2>6, <2>8, <2>9 DEF u
<1> QED BY <1>2, <1>3

\* Lines are counted from one.
LEMMA LineFound ==
    ASSUME NEW src \in Seq(Byte), NEW needle \in Seq(Byte)
    PROVE  find_line(src, needle) \in Nat \ {0}
<1> DEFINE found == {k \in 1..Len(src) - Len(needle) + 1 :
                        SubSeq(src, k, k + Len(needle) - 1) = needle}
           above == {k \in 1..Min(found) - 1 : src[k] = 10}
<1>1. CASE found = {}
    BY <1>1 DEF find_line
<1>2. CASE found # {}
    <2>1. found \subseteq Nat
        BY LenProperties
    <2>2. Min(found) \in Nat
        <3> HIDE DEF found
        <3> QED BY <1>2, <2>1, MinOf
    <2>3. Cardinality(above) \in Nat
        <3> HIDE DEF found
        <3>1. IsFiniteSet(1..Min(found) - 1)
            BY <2>2, FS_Interval
        <3>2. above \subseteq 1..Min(found) - 1
            OBVIOUS
        <3> HIDE DEF above
        <3> QED BY <3>1, <3>2, FS_Subset, FS_CardinalityType
    <2>4. find_line(src, needle) = 1 + Cardinality(above)
        BY <1>2 DEF find_line
    <2> HIDE DEF above
    <2> QED BY <2>3, <2>4
<1> QED BY <1>1, <1>2

-----------------------------------------------------------------------------
(* The text and its tokens. *)

\* Tokens with a place in the text, or on either side of it; what their ids
\* are does not matter here.
Tokens(s) == \E I : s \in Seq([id : I, at : 0..Len(input.source) + 1])

\* Where the plugin is and what it has: a tokenizer that was loaded, a text, room
\* for EOS until it is there, and a word that fits bpe_buf.
TextInv ==
    /\ input \in Inputs
    /\ pc \in {"start", "open", "word", "merge", "ner", "span", "done", "crashed"}
    /\ pc \notin {"start", "done"} =>
          input.lines = <<>> /\ tok = krl_tok_load(input.vocab, input.merges) /\ tok.loaded
    /\ pc \in {"word", "merge", "ner", "span", "crashed"} => input.source \in Seq(Byte)
    /\ pc \in {"start", "open"} => ids = <<>>
    /\ pc \in {"word", "merge"} => Len(ids) \in 1..MaxSeq - 1
    /\ pc \in {"ner", "span"} => Len(ids) >= 2
    /\ Tokens(ids) /\ Len(ids) <= MaxSeq
    /\ Tokens(nodes) /\ Len(nodes) < BpeMaxChars
    /\ p \in Nat \ {0}

\* Places are in the text, or on either side of it.
LEMMA TokensOf ==
    ASSUME NEW s, Tokens(s)
    PROVE  /\ Len(s) \in Nat /\ DOMAIN s = 1..Len(s)
           /\ \A k \in 1..Len(s) : s[k].at \in 0..Len(input.source) + 1
<1> DEFINE T == 0..Len(input.source) + 1
<1> HIDE DEF T
<1>1. PICK I : s \in Seq([id : I, at : T])
    BY DEF Tokens, T
<1>2. Len(s) \in Nat /\ DOMAIN s = 1..Len(s) /\ \A k \in 1..Len(s) : s[k] \in [id : I, at : T]
    BY <1>1, LenProperties, ElementOfSeq
<1>3. \A k \in 1..Len(s) : s[k].at \in T
    BY <1>2
<1> QED BY <1>2, <1>3 DEF T

\* Sequences of tokens are made from nothing, from one token, by putting two
\* together and by cutting.
LEMMA NoTokens == Tokens(<<>>)
<1>1. <<>> \in Seq([id : {}, at : 0..Len(input.source) + 1])
    BY EmptySeq
<1> QED BY <1>1 DEF Tokens

LEMMA OneToken ==
    ASSUME NEW id, NEW at \in 0..Len(input.source) + 1
    PROVE  Tokens(<<[id |-> id, at |-> at]>>) /\ Len(<<[id |-> id, at |-> at]>>) = 1
<1> DEFINE T == 0..Len(input.source) + 1
<1>1. [id |-> id, at |-> at] \in [id : {id}, at : T]
    OBVIOUS
<1>2. <<[id |-> id, at |-> at]>> \in Seq([id : {id}, at : T])
    <2> DEFINE x == [id |-> id, at |-> at]
               X == [id : {id}, at : T]
    <2> HIDE DEF x, X
    <2>1. x \in X
        BY <1>1 DEF x, X
    <2>2. <<x>> \in Seq(X)
        BY <2>1
    <2> QED BY <2>2 DEF x, X
<1> QED BY <1>2 DEF Tokens

LEMMA TokensJoined ==
    ASSUME NEW s, NEW t, Tokens(s), Tokens(t)
    PROVE  Tokens(s \o t) /\ Len(s \o t) = Len(s) + Len(t)
<1> DEFINE T == 0..Len(input.source) + 1
<1> HIDE DEF T
<1>1. PICK I : s \in Seq([id : I, at : T])
    BY DEF Tokens, T
<1>2. PICK J : t \in Seq([id : J, at : T])
    BY DEF Tokens, T
<1> DEFINE X == [id : I \cup J, at : T]
<1>3. s \in Seq(X) /\ t \in Seq(X)
    <2>1. [id : I, at : T] \subseteq X /\ [id : J, at : T] \subseteq X
        OBVIOUS
    <2> HIDE DEF X
    <2>2. Len(s) \in Nat /\ s \in [1..Len(s) -> X]
        BY <1>1, <2>1, LenProperties, ElementOfSeq
    <2>3. Len(t) \in Nat /\ t \in [1..Len(t) -> X]
        BY <1>2, <2>1, LenProperties, ElementOfSeq
    <2> QED BY <2>2, <2>3, SeqDef
<1>4. s \o t \in Seq(X) /\ Len(s \o t) = Len(s) + Len(t)
    <2> HIDE DEF X
    <2> QED BY <1>3, ConcatProperties
<1> QED BY <1>4 DEF Tokens, T

LEMMA TokensCut ==
    ASSUME NEW s, Tokens(s), NEW a \in 1..Len(s) + 1, NEW b \in a - 1..Len(s)
    PROVE  Tokens(SubSeq(s, a, b)) /\ Len(SubSeq(s, a, b)) = b - a + 1
<1> DEFINE T == 0..Len(input.source) + 1
<1> HIDE DEF T
<1>1. PICK I : s \in Seq([id : I, at : T])
    BY DEF Tokens, T
<1> DEFINE X == [id : I, at : T]
<1> HIDE DEF X
<1>2. s \in Seq(X) /\ Len(s) \in Nat
    BY <1>1, LenProperties DEF X
<1>3. SubSeq(s, a, b) \in Seq(X) /\ Len(SubSeq(s, a, b)) = b - a + 1
    <2>1. a \in Int /\ b \in Int /\ (a <= b => 1 <= a /\ b <= Len(s)) /\ b - a + 1 \in Nat
        BY <1>2
    <2>2. SubSeq(s, a, b) \in Seq(X)
        BY <1>2, <2>1, SubSeqProperties
    <2>3. Len(SubSeq(s, a, b)) = b - a + 1
        <3>1. CASE a <= b
            BY <1>2, <2>1, <3>1, SubSeqProperties
        <3>2. CASE ~(a <= b)
            <4>1. b - a + 1 = 0
                BY <2>1, <3>2
            <4> QED BY <1>2, <2>1, <3>2, <4>1, SubSeqProperties
        <3> QED BY <3>1, <3>2
    <2> QED BY <2>2, <2>3
<1> QED BY <1>3 DEF Tokens, T, X

\* The next word is in the text, and its nodes fit.
LEMMA WordAt ==
    ASSUME TextInv, pc = "word", MoreWords
    PROVE  LET start == WordStart(input.source, p)
               end == WordEnd(input.source, start) IN
           /\ end \in Nat \ {0}
           /\ Tokens(BpeNodes(tok, input.source, start, end))
           /\ Len(BpeNodes(tok, input.source, start, end)) < BpeMaxChars
<1> DEFINE src == input.source
           start == WordStart(src, p)
           end == WordEnd(src, start)
           starts == {k \in p..Len(src) : src[k] \notin Whitespace}
           ends == {k \in start..Len(src) : src[k] \in Whitespace} \cup {Len(src) + 1}
           n == Min({end - start, BpeMaxChars - 2})
           T == 0..Len(src) + 1
           head == <<[id |-> ht_lookup(tok, ByteString[32]), at |-> start]>>
           rest == [k \in 1..n |-> [id |-> ht_lookup(tok, ByteString[src[start + k - 1]]),
                                    at |-> start + k - 1]]
<1>1. Len(src) \in Nat /\ p \in Nat \ {0}
    BY LenProperties DEF TextInv
<1>2. start \in p..Len(src)
    <2>1. start = IF starts = {} THEN 0 ELSE Min(starts)
        BY DEF WordStart
    <2>2. start # 0
        BY DEF MoreWords
    <2>3. starts \subseteq Nat
        BY <1>1
    <2> HIDE DEF start
    <2>4. Min(starts) \in starts
        <3> HIDE DEF starts
        <3> QED BY <2>1, <2>2, <2>3, MinOf
    <2> QED BY <2>1, <2>2, <2>4
<1>3. end \in start..Len(src) + 1
    <2>1. end = Min(ends)
        BY DEF WordEnd
    <2> HIDE DEF start, end
    <2>2. ends \subseteq start..Len(src) + 1 /\ ends # {} /\ ends \subseteq Nat
        BY <1>1, <1>2
    <2> HIDE DEF ends
    <2>3. Min(ends) \in ends
        BY <2>2, MinOf
    <2> QED BY <2>1, <2>2, <2>3
<1>4. n \in Nat /\ n <= end - start /\ n <= BpeMaxChars - 2
    <2> HIDE DEF start, end
    <2>1. end - start \in Nat /\ BpeMaxChars - 2 \in Nat
        BY <1>1, <1>2, <1>3, TokenizerAssumption
    <2> DEFINE S == {end - start, BpeMaxChars - 2}
    <2>2. S \subseteq Nat /\ S # {}
        BY <2>1
    <2>3. Min(S) \in S /\ \A x \in S : Min(S) <= x
        <3> HIDE DEF S
        <3> QED BY <2>2, MinOf
    <2> QED BY <2>1, <2>3
<1>5. Tokens(head) /\ Len(head) = 1
    <2> HIDE DEF start
    <2>1. start \in T
        BY <1>1, <1>2
    <2> QED BY <2>1, OneToken
<1>6. Tokens(rest) /\ Len(rest) = n
    <2> DEFINE at(k) == start + k - 1
               id(k) == ht_lookup(tok, ByteString[src[start + k - 1]])
               I == {id(k) : k \in 1..n}
               X == [id : I, at : T]
    <2>1. \A k \in 1..n : at(k) \in T /\ id(k) \in I
        <3> HIDE DEF id, start, end, n
        <3> QED BY <1>1, <1>2, <1>3, <1>4
    <2>2. \A k \in 1..n : [id |-> id(k), at |-> at(k)] \in X
        <3> HIDE DEF id, at, n, I, T
        <3> QED BY <2>1
    <2>3. rest = [k \in 1..n |-> [id |-> id(k), at |-> at(k)]]
        OBVIOUS
    <2> HIDE DEF id, at, n, X, rest
    <2>4. rest \in Seq(X)
        BY <1>4, <2>2, <2>3, IsASeq
    <2>5. DOMAIN rest = 1..n
        BY <2>3
    <2>6. Len(rest) = n
        BY <1>4, <2>4, <2>5, LenProperties
    <2> QED BY <2>4, <2>6 DEF X, Tokens
<1>7. BpeNodes(tok, src, start, end) = head \o rest
    BY DEF BpeNodes
<1> HIDE DEF src, start, end, n, head, rest
<1>8. Tokens(head \o rest) /\ Len(head \o rest) = 1 + n
    BY <1>5, <1>6, TokensJoined
<1>9. Len(head \o rest) < BpeMaxChars
    BY <1>4, <1>8, TokenizerAssumption
<1> QED BY <1>1, <1>2, <1>3, <1>7, <1>8, <1>9 DEF src, start, end

\* The pair to merge next is in the word and in the table.
LEMMA BestMerge ==
    ASSUME NEW t, NEW s, Len(s) \in Nat, bpe_best_merge(t, s) # 0
    PROVE  LET b == bpe_best_merge(t, s) IN
           b \in 1..Len(s) - 1 /\ merge_lookup(t.merges, s[b].id, s[b + 1].id) # 0
<1> DEFINE M(x) == merge_lookup(t.merges, s[x].id, s[x + 1].id)
           Rank(x) == t.merges[M(x)].rank
           pairs == {x \in 1..Len(s) - 1 : M(x) # 0}
           best == {x \in pairs : \A j \in pairs : Rank(x) < Rank(j) \/ (Rank(x) = Rank(j) /\ x <= j)}
           b == bpe_best_merge(t, s)
<1>1. b = IF best = {} THEN 0 ELSE Min(best)
    BY DEF bpe_best_merge
<1>2. b # 0
    OBVIOUS
<1>3. best \subseteq pairs /\ best \subseteq Nat
    <2> HIDE DEF M, Rank
    <2> QED OBVIOUS
<1> HIDE DEF b, best
<1>4. Min(best) \in best
    BY <1>1, <1>2, <1>3, MinOf
<1>5. b \in pairs
    BY <1>1, <1>2, <1>3, <1>4
<1> QED BY <1>5 DEF b

\* The nodes after a merge.
Fused(new, s, b, v) ==
    /\ Len(new) = Len(s) - 1
    /\ \A k \in 1..Len(s) - 1 : /\ k < b => new[k] = s[k]
                                /\ k = b => new[k] = [id |-> v, at |-> s[b].at]
                                /\ k > b => new[k] = s[k + 1]

\* MergeNodes makes them.
LEMMA Merged ==
    ASSUME NEW I, NEW T, NEW t, NEW s \in Seq([id : I, at : T]),
           NEW b, b = bpe_best_merge(t, s), b # 0,
           NEW v, v = t.merges[merge_lookup(t.merges, s[b].id, s[b + 1].id)].result
    PROVE  /\ MergeNodes(t, s, b) \in Seq([id : I \cup {v}, at : T])
           /\ Fused(MergeNodes(t, s, b), s, b, v)
<1> DEFINE N == Len(s)
           V == [id : I \cup {v}, at : T]
           merged == [s EXCEPT ![b].id = v]
           node == [id |-> v, at |-> s[b].at]
<1>1. N \in Nat /\ DOMAIN s = 1..N /\ \A k \in 1..N : s[k] \in [id : I, at : T]
    BY LenProperties, ElementOfSeq
<1>2. b \in 1..N - 1 /\ b \in 1..N
    <2>1. b \in 1..N - 1
        BY <1>1, BestMerge
    <2> QED BY <1>1, <2>1
<1>3. MergeNodes(t, s, b) = RemoveAt(merged, b + 1)
    BY DEF MergeNodes
<1> HIDE DEF N
<1>4. s \in Seq(V) /\ node \in V
    <2>1. \A k \in 1..N : s[k] \in V
        BY <1>1
    <2>2. s[b] \in [id : I, at : T]
        BY <1>1, <1>2
    <2>3. node \in V
        BY <2>2
    <2>4. s \in [1..N -> V]
        <3> HIDE DEF V
        <3> QED BY <1>1, <2>1, LenProperties DEF N
    <2> HIDE DEF V, node
    <2> QED BY <1>1, <2>3, <2>4, SeqDef
<1>5. merged = [s EXCEPT ![b] = node]
    <2>1. s[b] \in [id : I, at : T]
        BY <1>1, <1>2
    <2>2. [s[b] EXCEPT !.id = v] = node
        BY <2>1
    <2>3. merged = [s EXCEPT ![b] = [s[b] EXCEPT !.id = v]]
        OBVIOUS
    <2> QED BY <2>2, <2>3
<1> HIDE DEF merged, node, V
<1>6. /\ merged \in Seq(V) /\ Len(merged) = N
      /\ \A k \in 1..N : merged[k] = IF k = b THEN node ELSE s[k]
    BY <1>2, <1>4, <1>5, ExceptSeq DEF N
<1> DEFINE new == RemoveAt(merged, b + 1)
<1>7. /\ new \in Seq(V) /\ Len(new) = N - 1
      /\ \A k \in 1..N - 1 : new[k] = IF k < b + 1 THEN merged[k] ELSE merged[k + 1]
    <2>1. b + 1 \in 1..Len(merged)
        BY <1>1, <1>2, <1>6
    <2> QED BY <1>6, <2>1, Removed
<1> HIDE DEF new
<1>8. ASSUME NEW k \in 1..N - 1
      PROVE  /\ k < b => new[k] = s[k]
             /\ k = b => new[k] = node
             /\ k > b => new[k] = s[k + 1]
    <2>1. /\ k \in 1..N /\ k + 1 \in 1..N /\ (k < b + 1 <=> k <= b) /\ (k > b => k + 1 # b)
        BY <1>1, <1>2
    <2>2. new[k] = IF k < b + 1 THEN merged[k] ELSE merged[k + 1]
        BY <1>7
    <2>3. CASE k < b
        BY <1>2, <1>6, <2>1, <2>2, <2>3
    <2>4. CASE k = b
        BY <1>2, <1>6, <2>1, <2>2, <2>4
    <2>5. CASE k > b
        BY <1>2, <1>6, <2>1, <2>2, <2>5
    <2> QED BY <1>2, <2>3, <2>4, <2>5
<1> QED BY <1>3, <1>7, <1>8 DEF V, N, node, new, Fused

\* A merge makes a word one node shorter.
LEMMA MergeShortens ==
    ASSUME Tokens(nodes), bpe_best_merge(tok, nodes) # 0
    PROVE  LET new == MergeNodes(tok, nodes, bpe_best_merge(tok, nodes)) IN
           Tokens(new) /\ Len(new) = Len(nodes) - 1
<1> DEFINE T == 0..Len(input.source) + 1
           b == bpe_best_merge(tok, nodes)
           v == tok.merges[merge_lookup(tok.merges, nodes[b].id, nodes[b + 1].id)].result
<1> HIDE DEF T
<1>1. PICK I : nodes \in Seq([id : I, at : T])
    BY DEF Tokens, T
<1> HIDE DEF b, v
<1>2. MergeNodes(tok, nodes, b) \in Seq([id : I \cup {v}, at : T]) /\ Fused(MergeNodes(tok, nodes, b), nodes, b, v)
    BY <1>1, Merged DEF b, v
<1> QED BY <1>2 DEF Fused, Tokens, T, b

\* The plugin starts with nothing.
LEMMA TextInit == Init => TextInv
<1> SUFFICES ASSUME Init PROVE TextInv
    OBVIOUS
<1>1. Tokens(<<>>) /\ Len(<<>>) = 0
    BY NoTokens
<1> QED BY <1>1, TokenizerAssumption DEF Init, TextInv

\* Every step of plugin and daemon keeps TextInv.
LEMMA TextStep == TextInv /\ [Next]_vars => TextInv'
<1> SUFFICES ASSUME TextInv, [Next]_vars PROVE TextInv'
    OBVIOUS
<1> USE DEF tokVars, spanVars, daemonVars
<1>0. Len(ids) \in Nat /\ MaxSeq \in Nat \ {0, 1} /\ BpeMaxChars \in Nat \ {0, 1}
    BY TokensOf, TokenizerAssumption DEF TextInv
<1>1. CASE UNCHANGED <<input, pc, tok, tokVars>>
    BY <1>1 DEF TextInv, Tokens
<1>2. CASE Start
    <2>1. UNCHANGED <<input, tokVars>>
        BY <1>2 DEF Start
    <2>2. pc' \in {"open", "done"} /\ (pc' = "open" => tok'.loaded /\ input.lines = <<>>)
          /\ tok' = krl_tok_load(input.vocab, input.merges) /\ ids = <<>>
        BY <1>2 DEF Start, TextInv
    <2> QED BY <2>1, <2>2 DEF TextInv, Tokens
<1>3. CASE OtherExtractor
    BY <1>3 DEF OtherExtractor, TextInv, Tokens
<1>4. CASE Open
    <2>1. UNCHANGED <<input, tok, p, nodes>> /\ pc = "open"
        BY <1>4 DEF Open
    <2>2. CASE pc' = "done" /\ UNCHANGED ids
        BY <1>4, <2>1, <2>2 DEF Open, TextInv, Tokens
    <2>3. CASE input.source # NoFile /\ pc' = "word" /\ ids' = <<[id |-> KRL_TOK_BOS, at |-> 0]>>
        <3>1. pc' = "word" /\ ids' = <<[id |-> KRL_TOK_BOS, at |-> 0]>>
            BY <2>3
        <3>2. input.source \in Seq(Byte)
            BY <2>3, InputsAssumption DEF TextInv
        <3>3. Tokens(ids') /\ Len(ids') = 1
            <4>1. 0 \in 0..Len(input.source) + 1
                BY <3>2, LenProperties
            <4> QED BY <3>1, <4>1, OneToken
        <3>4. Tokens(ids)' /\ Tokens(nodes)'
            BY <2>1, <3>3 DEF TextInv, Tokens
        <3> QED BY <1>0, <2>1, <3>1, <3>2, <3>3, <3>4 DEF TextInv
    <2> QED BY <1>4, <2>2, <2>3 DEF Open
<1>5. CASE CollectWord
    <2>1. UNCHANGED <<input, tok, ids>> /\ pc = "word" /\ MoreWords /\ pc' \in {"crashed", "merge"}
        BY <1>5 DEF CollectWord
    <2>2. p' \in Nat \ {0} /\ Tokens(nodes') /\ Len(nodes') < BpeMaxChars
        BY <1>5, <2>1, WordAt DEF CollectWord
    <2>3. Tokens(ids)' /\ Tokens(nodes)'
        BY <2>1, <2>2 DEF TextInv, Tokens
    <2> QED BY <2>1, <2>2, <2>3 DEF TextInv
<1>6. CASE Merge
    <2>1. UNCHANGED <<input, pc, tok, p, ids>>
        BY <1>6 DEF Merge
    <2>2. Len(nodes) \in Nat /\ Tokens(nodes)
        BY TokensOf DEF TextInv
    <2>3. Tokens(nodes') /\ Len(nodes') = Len(nodes) - 1
        BY <1>6, <2>2, MergeShortens DEF Merge
    <2>4. Tokens(ids)' /\ Tokens(nodes)'
        BY <2>1, <2>3 DEF TextInv, Tokens
    <2>5. Len(nodes') < BpeMaxChars
        BY <1>0, <2>2, <2>3 DEF TextInv
    <2> QED BY <2>1, <2>4, <2>5 DEF TextInv
<1>7. CASE EmitWord
    <2>1. UNCHANGED <<input, tok, p>> /\ pc = "merge" /\ pc' = "word" /\ nodes' = <<>>
          /\ ids' = SubSeq(ids \o nodes, 1, Min({Len(ids) + Len(nodes), MaxSeq - 1}))
        BY <1>7 DEF EmitWord
    <2> DEFINE n == Min({Len(ids) + Len(nodes), MaxSeq - 1})
               all == ids \o nodes
    <2>2. Len(nodes) \in Nat /\ Tokens(nodes) /\ Tokens(ids) /\ Len(ids) \in 1..MaxSeq - 1
        BY <2>1, TokensOf DEF TextInv
    <2>3. Tokens(all) /\ Len(all) = Len(ids) + Len(nodes)
        BY <2>2, TokensJoined
    <2>4. n \in 1..Len(all) /\ n <= MaxSeq - 1
        <3> DEFINE S == {Len(ids) + Len(nodes), MaxSeq - 1}
        <3>1. S \subseteq Nat /\ S # {} /\ \A x \in S : x >= 1
            BY <1>0, <2>2
        <3>2. Min(S) \in S /\ \A x \in S : Min(S) <= x
            <4> HIDE DEF S
            <4> QED BY <3>1, MinOf
        <3>3. n >= 1 /\ n <= Len(ids) + Len(nodes) /\ n <= MaxSeq - 1 /\ n \in Nat
            BY <3>1, <3>2
        <3> HIDE DEF n
        <3> QED BY <2>2, <2>3, <3>3
    <2> HIDE DEF n, all
    <2>5. Tokens(SubSeq(all, 1, n)) /\ Len(SubSeq(all, 1, n)) = n
        <3>1. Len(all) \in Nat
            BY <2>3, TokensOf
        <3>2. 1 \in 1..Len(all) + 1 /\ n \in 1 - 1..Len(all) /\ n - 1 + 1 = n
            BY <2>4, <3>1
        <3>3. Tokens(SubSeq(all, 1, n)) /\ Len(SubSeq(all, 1, n)) = n - 1 + 1
            BY <2>3, <3>2, TokensCut
        <3> QED BY <3>2, <3>3
    <2>6. Tokens(ids') /\ Len(ids') \in 1..MaxSeq - 1
        BY <1>0, <2>1, <2>4, <2>5 DEF n, all
    <2>7. Tokens(ids)' /\ Tokens(nodes)' /\ Len(nodes') = 0
        BY <2>1, <2>6, NoTokens DEF Tokens
    <2>8. Len(ids') <= MaxSeq
        BY <1>0, <2>6
    <2>9. Len(nodes') < BpeMaxChars
        BY <1>0, <2>7
    <2>10. /\ UNCHANGED <<input, tok, p>> /\ pc = "merge" /\ pc' = "word"
           /\ Len(ids') \in 1..MaxSeq - 1
        BY <2>1, <2>6
    <2> QED BY <2>7, <2>8, <2>9, <2>10 DEF TextInv
<1>8. CASE Eos
    <2> DEFINE eos == <<[id |-> KRL_TOK_EOS, at |-> Len(input.source) + 1]>>
    <2>1. UNCHANGED <<input, tok, p, nodes>> /\ pc = "word" /\ pc' = "ner"
          /\ ids' = Append(ids, [id |-> KRL_TOK_EOS, at |-> Len(input.source) + 1])
        BY <1>8 DEF Eos
    <2>2. Tokens(ids) /\ Len(ids) \in 1..MaxSeq - 1 /\ input.source \in Seq(Byte)
        BY <2>1 DEF TextInv
    <2>3. Tokens(eos) /\ Len(eos) = 1
        <3>1. Len(input.source) + 1 \in 0..Len(input.source) + 1
            BY <2>2, LenProperties
        <3> QED BY <3>1, OneToken
    <2>4. ids' = ids \o eos
        <3> DEFINE T == 0..Len(input.source) + 1
                   x == [id |-> KRL_TOK_EOS, at |-> Len(input.source) + 1]
        <3> HIDE DEF T, x
        <3>1. PICK I : ids \in Seq([id : I, at : T])
            BY <2>2 DEF Tokens, T
        <3> QED BY <2>1, <3>1, AppendIsConcat, SMTT(20) DEF x
    <2> HIDE DEF eos
    <2>5. Tokens(ids') /\ Len(ids') = Len(ids) + 1
        BY <2>2, <2>3, <2>4, TokensJoined
    <2>6. Tokens(ids)' /\ Tokens(nodes)'
        BY <2>1, <2>5 DEF Tokens, TextInv
    <2>7. Len(ids') >= 2 /\ Len(ids') <= MaxSeq
        BY <1>0, <2>2, <2>5
    <2> QED BY <2>1, <2>2, <2>6, <2>7 DEF TextInv
<1>9. CASE Ner
    BY <1>9 DEF Ner, TextInv, Tokens
<1>10. CASE SkipToken \/ PrintSpan \/ Ingest
    BY <1>10, <1>1 DEF SkipToken, PrintSpan, Ingest
<1>11. CASE Exit
    BY <1>11 DEF Exit, TextInv, Tokens
<1>12. CASE UNCHANGED vars
    BY <1>1, <1>12 DEF vars
<1> QED BY <1>2, <1>3, <1>4, <1>5, <1>6, <1>7, <1>8, <1>9, <1>10, <1>11, <1>12 DEF Next, Plugin

-----------------------------------------------------------------------------
(* The spans of a labelled text. *)

\* The spans that become lines, and the lines they become.
Kept == {r \in Runs : NameOf(r) # <<>> /\ label_kind(labels[r[1]]) # NoKind}
Printed(r) ==
    [type |-> "entity", partition |-> label_partition(labels[r[1]]),
     kind |-> label_kind(labels[r[1]]), name |-> json_escape(NameOf(r), EscSize),
     file |-> json_escape(FilePath, 4096), line_start |-> find_line(input.source, NameOf(r)),
     confidence |-> 1]

\* Lines are printed for the spans that begin before token i, and for no others.
SpanInv ==
    /\ labels = <<>> /\ input.lines = <<>> => out = <<>>
    /\ labels = <<>> => pc # "span"
    /\ labels # <<>> =>
          /\ pc \in {"span", "done"} /\ (pc = "done" => i = Len(ids))
          /\ input.lines = <<>> /\ input.source \in Seq(Byte)
          /\ tok = krl_tok_load(input.vocab, input.merges) /\ tok.loaded
          /\ labels \in [1..Len(ids) -> Nat] /\ i \in 2..Len(ids)
          /\ \A k \in DOMAIN spans : out[k] = Printed(spans[k])
          /\ Range(spans) = {r \in Kept : r[1] < i}

\* Where the span loop ends a span, the run of its labels ends, and inside it
\* no other begins.
LEMMA SpanIsRun ==
    ASSUME Len(ids) \in Nat, labels \in [1..Len(ids) -> Nat], NEW s \in 2..Len(ids) - 1,
           is_begin(labels[s])
    PROVE  /\ SpanEnd(s) \in s + 1..Len(ids) /\ <<s, SpanEnd(s)>> \in Runs
           /\ \A r \in Runs : s <= r[1] /\ r[1] < SpanEnd(s) => r = <<s, SpanEnd(s)>>
<1> DEFINE N == Len(ids)
           E == {e \in s + 1..N : e = N \/ labels[e] # labels[s] + 1}
           m == SpanEnd(s)
<1>1. m \in E /\ \A e \in E : m <= e
    <2>1. N \in E /\ E \subseteq Nat
        OBVIOUS
    <2>2. m = Min(E)
        BY DEF SpanEnd
    <2> HIDE DEF E, m
    <2> QED BY <2>1, <2>2, MinOf
<1> HIDE DEF m
<1>2. m \in s + 1..N /\ (m = N \/ labels[m] # labels[s] + 1)
    BY <1>1
<1>3. ASSUME NEW k \in s + 1..m - 1 PROVE labels[k] = labels[s] + 1
    <2>1. k \in s + 1..N /\ ~(m <= k) /\ k # N
        BY <1>2
    <2> QED BY <1>1, <2>1
<1>4. <<s, m>> \in Runs
    <2>1. <<s, m>> \in (2..N - 1) \X (3..N)
        BY <1>2
    <2> QED BY <1>2, <1>3, <2>1 DEF Runs
<1>5. ASSUME NEW r \in Runs, s <= r[1], r[1] < m PROVE r = <<s, m>>
    <2>1. /\ r \in (2..N - 1) \X (3..N) /\ r[1] < r[2] /\ is_begin(labels[r[1]])
          /\ \A k \in r[1] + 1..r[2] - 1 : labels[k] = labels[r[1]] + 1
          /\ r[2] = N \/ labels[r[2]] # labels[r[1]] + 1
        BY DEF Runs
    <2>2. r = <<r[1], r[2]>> /\ r[1] \in 2..N - 1 /\ r[2] \in 3..N
        BY <2>1
    <2>3. r[1] = s
        <3> SUFFICES ASSUME r[1] # s PROVE FALSE
            OBVIOUS
        <3>1. r[1] \in s + 1..m - 1
            BY <1>2, <1>5, <2>2
        <3>2. labels[r[1]] = labels[s] + 1 /\ labels[s] \in Nat
            BY <1>3, <3>1
        <3>3. labels[s] % 2 = 1 /\ (labels[s] + 1) % 2 = 1
            BY <2>1, <3>2 DEF is_begin
        <3> QED BY <3>2, <3>3
    <2>4. r[2] = m
        <3>1. r[2] \in E
            BY <2>1, <2>2, <2>3
        <3>2. m <= r[2]
            BY <1>1, <3>1
        <3>3. ~(m < r[2])
            <4> SUFFICES ASSUME m < r[2] PROVE FALSE
                OBVIOUS
            <4>1. m \in r[1] + 1..r[2] - 1 /\ m # N
                BY <1>2, <2>2, <2>3
            <4>2. labels[m] = labels[s] + 1
                BY <2>1, <2>3, <4>1
            <4> QED BY <1>2, <4>1, <4>2
        <3> QED BY <1>2, <2>2, <3>2, <3>3
    <2> QED BY <2>2, <2>3, <2>4
<1> QED BY <1>2, <1>4, <1>5 DEF m

\* The ids of a span are a sequence.
LEMMA IdsOfIsSeq ==
    ASSUME NEW s \in Nat, NEW e \in Nat, s <= e
    PROVE  \E I : IdsOf(s, e) \in Seq(I)
<1> DEFINE f == IdsOf(s, e)
           I == {f[k] : k \in 1..e - s}
<1>1. f \in [1..e - s -> I]
    BY DEF IdsOf
<1> HIDE DEF f, I
<1>2. f \in Seq(I)
    BY <1>1, e - s \in Nat, SeqDef
<1> QED BY <1>2 DEF f

\* The name of a span is shorter than name[128], of bytes of the vocabulary.
LEMMA NameTyped ==
    ASSUME NEW B, VocabOver(B), input \in Inputs,
           tok = krl_tok_load(input.vocab, input.merges), tok.loaded,
           NEW r, r[1] \in Nat, r[2] \in Nat, r[1] <= r[2]
    PROVE  NameOf(r) \in Seq(B) /\ Len(NameOf(r)) < NameSize - 1
<1>1. PICK I : IdsOf(r[1], r[2]) \in Seq(I)
    BY IdsOfIsSeq
<1>2. krl_tok_load(input.vocab, input.merges).loaded /\ NameSize \in Nat \ {0, 1}
    BY SizesAssumption
<1>3. NameOf(r) = krl_tok_decode(krl_tok_load(input.vocab, input.merges), IdsOf(r[1], r[2]), NameSize)
    BY DEF NameOf
<1> QED BY <1>1, <1>2, <1>3, DecodeTyped

\* What a span step prints, and where it goes on.
LEMMA PrintSpanIs ==
    ASSUME PrintSpan
    PROVE  LET r == <<i, SpanEnd(i)>> IN
           /\ i < Len(ids) /\ is_begin(labels[i]) /\ i' = SpanEnd(i) /\ pc = "span"
           /\ UNCHANGED <<input, pc, tok, p, nodes, ids, labels, read, store, errors>>
           /\ \/ /\ NameOf(r) = <<>> \/ label_kind(labels[i]) = NoKind
                 /\ UNCHANGED <<out, spans>>
              \/ /\ NameOf(r) # <<>> /\ label_kind(labels[i]) # NoKind
                 /\ out' = Append(out, Printed(r)) /\ spans' = Append(spans, r)
<1> DEFINE r == <<i, SpanEnd(i)>>
<1>1. r[1] = i /\ r[2] = SpanEnd(i)
    OBVIOUS
<1>2. NameOf(r) = krl_tok_decode(tok, IdsOf(i, SpanEnd(i)), NameSize)
    BY <1>1 DEF NameOf
<1>3. /\ i < Len(ids) /\ is_begin(labels[i]) /\ i' = SpanEnd(i) /\ pc = "span"
      /\ UNCHANGED <<input, pc, tok, p, nodes, ids, labels, read, store, errors>>
    BY DEF PrintSpan, Spanning, tokVars, daemonVars
<1> DEFINE name == NameOf(r)
           e == SpanEnd(i)
<1>4. \/ /\ name = <<>> \/ label_kind(labels[i]) = NoKind
         /\ UNCHANGED <<out, spans>>
      \/ /\ name # <<>> /\ label_kind(labels[i]) # NoKind
         /\ out' = Append(out,
                 [type |-> "entity", partition |-> label_partition(labels[i]),
                  kind |-> label_kind(labels[i]), name |-> json_escape(name, EscSize),
                  file |-> json_escape(FilePath, 4096),
                  line_start |-> find_line(input.source, name), confidence |-> 1])
         /\ spans' = Append(spans, <<i, e>>)
    <2> HIDE DEF name, e
    <2>1. name = krl_tok_decode(tok, IdsOf(i, e), NameSize)
        BY <1>2 DEF name, e
    <2> QED BY <2>1 DEF PrintSpan, e
<1>5. Printed(r) =
         [type |-> "entity", partition |-> label_partition(labels[i]),
          kind |-> label_kind(labels[i]), name |-> json_escape(name, EscSize),
          file |-> json_escape(FilePath, 4096),
          line_start |-> find_line(input.source, name), confidence |-> 1]
    BY <1>1 DEF Printed
<1> HIDE DEF name
<1> QED BY <1>3, <1>4, <1>5 DEF name

-----------------------------------------------------------------------------
(* The lines, and how far the daemon is with them. *)

\* Every line has a span, the daemon has read some of them and refused some of
\* those, and the names of the shipped plugin fit esc_name[256].
LineInv ==
    /\ \E L : out \in Seq(L)
    /\ \E R : spans \in Seq(R)
    /\ DOMAIN out = DOMAIN spans
    /\ read \in 0..Len(out) /\ errors \in 0..read
    /\ pc = "start" => out = <<>>
    /\ input.lines = <<>> => \A k \in DOMAIN out : Len(out[k].name) < EscSize

\* No line yet.
LEMMA LineInit == Init => LineInv
<1> SUFFICES ASSUME Init PROVE LineInv
    OBVIOUS
<1>1. <<>> \in Seq({}) /\ Len(<<>>) = 0 /\ DOMAIN <<>> = {}
    BY EmptySeq
<1> QED BY <1>1 DEF Init, LineInv

\* The name a span step prints fits esc_name[256].
LEMMA NamesFit ==
    ASSUME TextInv, SpanInv, PrintSpan, TextInv'
    PROVE  Len(Printed(<<i, SpanEnd(i)>>).name) < EscSize
<1> DEFINE r == <<i, SpanEnd(i)>>
<1>1. i \in 2..Len(ids) - 1 /\ Len(ids) \in Nat /\ labels \in [1..Len(ids) -> Nat] /\ is_begin(labels[i])
      /\ input \in Inputs /\ tok = krl_tok_load(input.vocab, input.merges) /\ tok.loaded
    <2>1. Len(ids) \in Nat
        BY TokensOf DEF TextInv
    <2>2. labels # <<>>
        BY PrintSpanIs DEF SpanInv
    <2> QED BY <2>1, <2>2, PrintSpanIs DEF SpanInv, TextInv
<1>2. SpanEnd(i) \in i + 1..Len(ids)
    BY <1>1, SpanIsRun
<1>3. r[1] \in Nat /\ r[2] \in Nat /\ r[1] <= r[2]
    BY <1>1, <1>2
<1> HIDE DEF r
<1>4. NameOf(r) \in Seq(Byte)
    BY <1>1, <1>3, VocabOverByte, NameTyped
<1>5. EscSize \in Nat \ {0}
    BY SizesAssumption
<1>6. Len(json_escape(NameOf(r), EscSize)) < EscSize
    BY <1>4, <1>5, EscapeTyped
<1>7. Printed(r).name = json_escape(NameOf(r), EscSize)
    BY DEF Printed
<1> QED BY <1>6, <1>7 DEF r

\* Appending a value of any kind.
LEMMA Appended ==
    ASSUME NEW S, NEW s \in Seq(S), NEW v
    PROVE  /\ Append(s, v) \in Seq(S \cup {v}) /\ Len(s) \in Nat /\ Len(Append(s, v)) = Len(s) + 1
           /\ DOMAIN s = 1..Len(s) /\ DOMAIN Append(s, v) = 1..Len(s) + 1
           /\ \A k \in 1..Len(s) : Append(s, v)[k] = s[k]
           /\ Append(s, v)[Len(s) + 1] = v
<1> DEFINE T == S \cup {v}
<1>1. s \in Seq(T) /\ v \in T
    <2>1. Len(s) \in Nat /\ s \in [1..Len(s) -> S]
        BY LenProperties
    <2>2. s \in [1..Len(s) -> T]
        BY <2>1
    <2> HIDE DEF T
    <2>3. s \in Seq(T)
        BY <2>1, <2>2, SeqDef
    <2> QED BY <2>3 DEF T
<1> HIDE DEF T
<1>2. /\ Append(s, v) \in Seq(T) /\ Len(Append(s, v)) = Len(s) + 1
      /\ \A k \in 1..Len(s) : Append(s, v)[k] = s[k]
      /\ Append(s, v)[Len(s) + 1] = v
    BY <1>1, AppendProperties
<1>3. Len(s) \in Nat /\ DOMAIN s = 1..Len(s)
    BY LenProperties
<1>4. DOMAIN Append(s, v) = 1..Len(Append(s, v))
    BY <1>2, LenProperties
<1> QED BY <1>2, <1>3, <1>4 DEF T

\* Sequences with the same places have the same length.
LEMMA SameLength ==
    ASSUME NEW m \in Nat, NEW n \in Nat, 1..m = 1..n
    PROVE  m = n
<1>1. m = 0 \/ m \in 1..n
    OBVIOUS
<1>2. n = 0 \/ n \in 1..m
    OBVIOUS
<1> QED BY <1>1, <1>2

\* Every step keeps LineInv.
LEMMA LineStep == TextInv /\ SpanInv /\ LineInv /\ TextInv' /\ [Next]_vars => LineInv'
<1> SUFFICES ASSUME TextInv, SpanInv, LineInv, TextInv', [Next]_vars PROVE LineInv'
    OBVIOUS
<1> USE DEF tokVars, spanVars, daemonVars
<1>0. Len(out) \in Nat /\ DOMAIN out = 1..Len(out) /\ read \in Nat /\ errors \in Nat
    <2>1. PICK L : out \in Seq(L)
        BY DEF LineInv
    <2>2. Len(out) \in Nat /\ DOMAIN out = 1..Len(out)
        BY <2>1, LenProperties
    <2> QED BY <2>2 DEF LineInv
<1>1. CASE UNCHANGED <<input, out, spans, read, errors>> /\ (pc' = "start" => pc = "start")
    BY <1>1 DEF LineInv
<1>2. CASE Start \/ Open \/ CollectWord \/ Merge \/ EmitWord \/ Eos \/ Ner \/ SkipToken \/ Exit
    <2>1. UNCHANGED <<input, out, spans, read, errors>> /\ pc' # "start"
        BY <1>2 DEF Start, Open, CollectWord, Merge, EmitWord, Eos, Ner, SkipToken, Exit, Spanning
    <2> QED BY <1>1, <2>1
<1>3. CASE OtherExtractor
    <2>1. input.lines \in Seq(Range(input.lines)) /\ out' = input.lines /\ input.lines # <<>>
          /\ spans' = [k \in DOMAIN out' |-> <<1, 1>>] /\ pc' = "done" /\ UNCHANGED <<input, read, errors>>
        BY <1>3, InputsAssumption DEF OtherExtractor, TextInv
    <2>2. Len(out') \in Nat /\ DOMAIN out' = 1..Len(out')
        BY <2>1, LenProperties
    <2>3. spans' \in Seq({<<1, 1>>})
        <3> DEFINE v == <<1, 1>>
        <3> HIDE DEF v
        <3>1. spans' \in [1..Len(out') -> {v}]
            BY <2>1, <2>2 DEF v
        <3> QED BY <2>2, <3>1, SeqDef DEF v
    <2>4. read = 0 /\ errors = 0
        <3>1. out = <<>>
            BY <1>3 DEF OtherExtractor, LineInv
        <3>2. Len(out) = 0
            BY <3>1, EmptySeq
        <3> QED BY <3>2 DEF LineInv
    <2>5. \E L : out' \in Seq(L)
        BY <2>1
    <2>6. \E R : spans' \in Seq(R)
        BY <2>3
    <2>7. DOMAIN out' = DOMAIN spans'
        BY <2>1
    <2>8. read' \in 0..Len(out') /\ errors' \in 0..read'
        BY <2>1, <2>2, <2>4
    <2>9. input'.lines # <<>> /\ pc' # "start"
        BY <2>1
    <2> QED BY <2>5, <2>6, <2>7, <2>8, <2>9 DEF LineInv
<1>4. CASE PrintSpan
    <2> DEFINE r == <<i, SpanEnd(i)>>
               v == Printed(r)
    <2>0. UNCHANGED <<input, pc, read, errors>>
        BY <1>4, PrintSpanIs
    <2>1. CASE UNCHANGED <<out, spans>>
        BY <1>1, <2>0, <2>1
    <2>2. CASE out' = Append(out, v) /\ spans' = Append(spans, r)
        <3>1. Len(v.name) < EscSize
            BY <1>4, NamesFit
        <3> HIDE DEF v, r
        <3>2. PICK L : out \in Seq(L)
            BY DEF LineInv
        <3>3. PICK R : spans \in Seq(R)
            BY DEF LineInv
        <3>4. /\ out' \in Seq(L \cup {v}) /\ Len(out') = Len(out) + 1 /\ DOMAIN out' = 1..Len(out) + 1
              /\ \A k \in 1..Len(out) : out'[k] = out[k]
              /\ out'[Len(out) + 1] = v
            BY <2>2, <3>2, Appended
        <3>5. /\ spans' \in Seq(R \cup {r}) /\ DOMAIN spans' = 1..Len(spans) + 1
              /\ DOMAIN spans = 1..Len(spans) /\ Len(spans) \in Nat
            BY <2>2, <3>3, Appended
        <3>6. DOMAIN out' = DOMAIN spans'
            <4>1. 1..Len(out) = 1..Len(spans)
                BY <1>0, <3>5 DEF LineInv
            <4>2. Len(out) = Len(spans)
                BY <1>0, <3>5, <4>1, SameLength
            <4> QED BY <3>4, <3>5, <4>2
        <3>7. read' \in 0..Len(out') /\ errors' \in 0..read'
            BY <1>0, <2>0, <3>4 DEF LineInv
        <3>8. pc' # "start"
            BY <1>4, PrintSpanIs
        <3>9. input'.lines = <<>> => \A k \in DOMAIN out' : Len(out'[k].name) < EscSize
            <4> SUFFICES ASSUME input.lines = <<>>, NEW k \in 1..Len(out) + 1
                         PROVE  Len(out'[k].name) < EscSize
                BY <2>0, <3>4
            <4>1. CASE k \in 1..Len(out)
                BY <1>0, <3>4, <4>1 DEF LineInv
            <4>2. CASE k = Len(out) + 1
                BY <3>1, <3>4, <4>2
            <4> QED BY <1>0, <4>1, <4>2
        <3> QED BY <3>4, <3>5, <3>6, <3>7, <3>8, <3>9 DEF LineInv
    <2> QED BY <1>4, <2>1, <2>2, PrintSpanIs
<1>5. CASE Ingest
    <2>1. UNCHANGED <<input, pc, out, spans>> /\ read < Len(out) /\ read' = read + 1
        BY <1>5 DEF Ingest
    <2>2. errors' \in {errors, errors + 1}
        BY <1>5 DEF Ingest
    <2>3. read' \in 0..Len(out') /\ errors' \in 0..read'
        BY <1>0, <2>1, <2>2 DEF LineInv
    <2> QED BY <2>1, <2>3 DEF LineInv
<1>6. CASE UNCHANGED vars
    BY <1>1, <1>6 DEF vars
<1> QED BY <1>2, <1>3, <1>4, <1>5, <1>6 DEF Next, Plugin

-----------------------------------------------------------------------------
\* No label yet.
LEMMA SpanInit == Init => SpanInv
    BY DEF Init, SpanInv

\* Every step keeps SpanInv: a token skipped begins no run, a span printed is the
\* one run that begins there, and none begins inside it.
LEMMA SpanStep == TextInv /\ LineInv /\ SpanInv /\ TextInv' /\ LineInv' /\ [Next]_vars => SpanInv'
<1> SUFFICES ASSUME TextInv, LineInv, SpanInv, TextInv', LineInv', [Next]_vars PROVE SpanInv'
    OBVIOUS
<1> USE DEF tokVars, spanVars, daemonVars
<1>0. Len(ids) \in Nat /\ DOMAIN ids = 1..Len(ids)
    BY TokensOf DEF TextInv
<1>1. CASE UNCHANGED <<input, pc, tok, ids, labels, i, out, spans>>
    <2>1. Kept' = Kept
        BY <1>1 DEF Kept, Runs, NameOf, IdsOf
    <2>2. (\A k \in DOMAIN spans : out[k] = Printed(spans[k]))' <=>
              \A k \in DOMAIN spans : out[k] = Printed(spans[k])
        BY <1>1 DEF Printed, NameOf, IdsOf
    <2> QED BY <1>1, <2>1, <2>2 DEF SpanInv
<1>2. CASE Start \/ Open \/ CollectWord \/ Merge \/ EmitWord \/ Eos
    <2>1. UNCHANGED <<input, out, labels>> /\ pc' # "span" /\ pc \notin {"span", "done"}
        BY <1>2 DEF Start, Open, CollectWord, Merge, EmitWord, Eos
    <2> QED BY <2>1 DEF SpanInv
<1>3. CASE OtherExtractor
    BY <1>3 DEF OtherExtractor, SpanInv
<1>4. CASE Ner
    <2>0. pc = "ner" /\ UNCHANGED <<input, tok, ids, out, spans>> /\ labels = <<>>
        BY <1>4 DEF Ner, SpanInv
    <2>1. CASE pc' = "done" /\ UNCHANGED <<labels, i>>
        BY <2>0, <2>1 DEF SpanInv
    <2>2. CASE labels' \in [DOMAIN ids -> input.labels] /\ i' = 2 /\ pc' = "span"
        <3>1. labels' \in [1..Len(ids) -> Nat]
            BY <1>0, <2>2, InputsAssumption DEF TextInv
        <3>2. Len(ids) >= 2
            BY <2>0 DEF TextInv
        <3>3. labels' # <<>>
            <4>1. DOMAIN labels' = 1..Len(ids) /\ 1 \in 1..Len(ids)
                BY <1>0, <3>1, <3>2
            <4> QED BY <4>1, EmptySeq
        <3>4. /\ input.lines = <<>> /\ input.source \in Seq(Byte)
              /\ tok = krl_tok_load(input.vocab, input.merges) /\ tok.loaded
            BY <2>0 DEF TextInv
        <3>5. out = <<>> /\ DOMAIN spans = {}
            <4>1. out = <<>>
                BY <2>0, <3>4 DEF SpanInv
            <4> QED BY <4>1, EmptySeq DEF LineInv
        <3>6. Range(spans) = {} /\ {r \in Kept' : r[1] < 2} = {}
            <4>1. Range(spans) = {}
                BY <3>5 DEF Range
            <4>2. ASSUME NEW r \in Kept' PROVE ~(r[1] < 2)
                <5>1. r \in (2..Len(ids') - 1) \X (3..Len(ids'))
                    BY DEF Kept, Runs
                <5>2. r[1] \in 2..Len(ids') - 1
                    BY <5>1
                <5> QED BY <1>0, <2>0, <5>2
            <4> QED BY <4>1, <4>2
        <3> QED BY <1>0, <2>0, <2>2, <3>1, <3>2, <3>3, <3>4, <3>5, <3>6 DEF SpanInv
    <2> QED BY <1>4, <2>1, <2>2 DEF Ner
<1>5. ASSUME SkipToken \/ PrintSpan \/ Exit
      PROVE  /\ Kept' = Kept /\ UNCHANGED <<input, tok, ids, labels>> /\ labels # <<>> /\ pc = "span"
             /\ \A r : Printed(r)' = Printed(r)
    <2>1. UNCHANGED <<input, tok, ids, labels>> /\ pc = "span"
        <3>1. CASE SkipToken \/ Exit
            BY <3>1 DEF SkipToken, Exit, Spanning
        <3>2. CASE PrintSpan
            BY <3>2, PrintSpanIs
        <3> QED BY <1>5, <3>1, <3>2
    <2> QED BY <2>1 DEF SpanInv, Kept, Runs, NameOf, IdsOf, Printed
<1>6. CASE SkipToken
    <2>1. pc' = "span" /\ UNCHANGED <<out, spans>> /\ i' = i + 1 /\ i < Len(ids) /\ ~is_begin(labels[i])
        BY <1>6 DEF SkipToken, Spanning
    <2>2. i \in 2..Len(ids) /\ i' \in 2..Len(ids)
        BY <1>0, <1>5, <1>6, <2>1 DEF SpanInv
    <2>3. {r \in Kept : r[1] < i'} = {r \in Kept : r[1] < i}
        <3> SUFFICES ASSUME NEW r \in Kept PROVE r[1] < i' <=> r[1] < i
            OBVIOUS
        <3>1. r \in (2..Len(ids) - 1) \X (3..Len(ids)) /\ is_begin(labels[r[1]])
            BY DEF Kept, Runs
        <3>2. r[1] # i /\ r[1] \in 2..Len(ids) - 1
            BY <2>1, <3>1
        <3> QED BY <1>0, <2>1, <2>2, <3>2
    <2> QED BY <1>5, <1>6, <2>1, <2>2, <2>3 DEF SpanInv
<1>7. CASE PrintSpan
    <2> DEFINE e == SpanEnd(i)
               v == <<i, SpanEnd(i)>>
    <2>0. labels \in [1..Len(ids) -> Nat] /\ i \in 2..Len(ids) - 1 /\ is_begin(labels[i]) /\ i' = e
          /\ pc' = "span"
        BY <1>0, <1>5, <1>7, PrintSpanIs DEF SpanInv
    <2>1. /\ e \in i + 1..Len(ids) /\ v \in Runs
          /\ \A r \in Runs : i <= r[1] /\ r[1] < e => r = v
        BY <1>0, <2>0, SpanIsRun
    <2>2. v[1] = i
        OBVIOUS
    <2> HIDE DEF e, v
    <2>3. ASSUME NEW r \in Kept PROVE r[1] < e <=> r[1] < i \/ r = v
        <3>1. r \in Runs /\ r[1] \in 2..Len(ids) - 1
            <4>1. r \in Runs /\ r \in (2..Len(ids) - 1) \X (3..Len(ids))
                BY DEF Kept, Runs
            <4> QED BY <4>1
        <3> QED BY <1>0, <2>0, <2>1, <2>2, <3>1
    <2>4. i' \in 2..Len(ids)
        BY <1>0, <2>0, <2>1
    <2>5. CASE ~(v \in Kept)
        <3>1. UNCHANGED <<out, spans>>
            BY <1>7, <2>1, <2>2, <2>5, PrintSpanIs DEF Kept, v
        <3>2. {r \in Kept : r[1] < e} = {r \in Kept : r[1] < i}
            BY <2>3, <2>5
        <3> QED BY <1>5, <1>7, <2>0, <2>4, <3>1, <3>2 DEF SpanInv
    <2>6. CASE v \in Kept
        <3>1. out' = Append(out, Printed(v)) /\ spans' = Append(spans, v)
            BY <1>7, <2>1, <2>2, <2>6, PrintSpanIs DEF Kept, v
        <3>2. {r \in Kept : r[1] < e} = {r \in Kept : r[1] < i} \cup {v}
            BY <2>3, <2>6
        <3>3. PICK L : out \in Seq(L)
            BY DEF LineInv
        <3>4. PICK R : spans \in Seq(R)
            BY DEF LineInv
        <3>5. /\ Len(out) \in Nat /\ DOMAIN out = 1..Len(out)
              /\ \A k \in 1..Len(out) : out'[k] = out[k]
              /\ out'[Len(out) + 1] = Printed(v)
            BY <3>1, <3>3, Appended
        <3>6. /\ Len(spans) \in Nat /\ DOMAIN spans = 1..Len(spans) /\ DOMAIN spans' = 1..Len(spans) + 1
              /\ \A k \in 1..Len(spans) : spans'[k] = spans[k]
              /\ spans'[Len(spans) + 1] = v
            BY <3>1, <3>4, Appended
        <3>7. Len(out) = Len(spans)
            <4>1. 1..Len(out) = 1..Len(spans)
                BY <3>5, <3>6 DEF LineInv
            <4> QED BY <3>5, <3>6, <4>1, SameLength
        <3>8. ASSUME NEW k \in DOMAIN spans' PROVE out'[k] = Printed(spans'[k])
            <4>1. CASE k \in 1..Len(spans)
                <5>1. out[k] = Printed(spans[k])
                    BY <1>5, <1>7, <3>6, <4>1 DEF SpanInv
                <5>2. out'[k] = out[k] /\ spans'[k] = spans[k]
                    BY <3>5, <3>6, <3>7, <4>1
                <5> QED BY <5>1, <5>2
            <4>2. CASE k = Len(spans) + 1
                BY <3>5, <3>6, <3>7, <4>2
            <4> QED BY <3>6, <4>1, <4>2
        <3>9. Range(spans') = Range(spans) \cup {v}
            <4>1. Range(spans') \subseteq Range(spans) \cup {v}
                <5> SUFFICES ASSUME NEW k \in 1..Len(spans) + 1 PROVE spans'[k] \in Range(spans) \cup {v}
                    BY <3>6 DEF Range
                <5>1. k \in 1..Len(spans) \/ k = Len(spans) + 1
                    BY <3>6
                <5> QED BY <3>6, <5>1 DEF Range
            <4>2. v \in Range(spans')
                <5>1. Len(spans) + 1 \in DOMAIN spans'
                    BY <3>6
                <5> QED BY <3>6, <5>1 DEF Range
            <4>3. Range(spans) \subseteq Range(spans')
                <5> SUFFICES ASSUME NEW k \in 1..Len(spans) PROVE spans[k] \in Range(spans')
                    BY <3>6 DEF Range
                <5>1. k \in DOMAIN spans' /\ spans'[k] = spans[k]
                    BY <3>6
                <5> QED BY <5>1 DEF Range
            <4> QED BY <4>1, <4>2, <4>3
        <3>10. Range(spans') = {r \in Kept' : r[1] < i'}
            BY <1>5, <1>7, <2>0, <3>2, <3>9 DEF SpanInv
        <3>11. (\A k \in DOMAIN spans : out[k] = Printed(spans[k]))'
            BY <1>5, <1>7, <3>8, SMTT(20) DEF Printed, NameOf, IdsOf
        <3> QED BY <1>5, <1>7, <2>0, <2>4, <3>10, <3>11 DEF SpanInv
    <2> QED BY <2>5, <2>6
<1>8. CASE Exit
    <2>1. pc' = "done" /\ UNCHANGED <<out, spans, i>> /\ i >= Len(ids)
        BY <1>8 DEF Exit
    <2>2. i = Len(ids)
        BY <1>0, <1>5, <1>8, <2>1 DEF SpanInv
    <2> QED BY <1>5, <1>8, <2>1, <2>2 DEF SpanInv
<1>9. CASE Ingest
    BY <1>1, <1>9 DEF Ingest
<1>10. CASE UNCHANGED vars
    BY <1>1, <1>10 DEF vars
<1> QED BY <1>2, <1>3, <1>4, <1>6, <1>7, <1>8, <1>9, <1>10 DEF Next, Plugin

-----------------------------------------------------------------------------
\* The inductive invariant.
PluginInv == TextInv /\ LineInv /\ SpanInv

\* It holds throughout.
LEMMA PluginInvariant == Spec => []PluginInv
<1>1. Init => PluginInv
    BY TextInit, LineInit, SpanInit DEF PluginInv
<1>2. PluginInv /\ [Next]_vars => PluginInv'
    BY TextStep, LineStep, SpanStep DEF PluginInv
<1> QED BY <1>1, <1>2, PTL DEF Spec

\* out_ids, bpe_buf, name[] and esc_name[] are never written past their ends,
\* and the daemon never reads past the lines printed, for any file.
THEOREM BuffersHold == Spec => []TypeOK
<1>1. PluginInv => TypeOK
    <2> SUFFICES ASSUME PluginInv PROVE TypeOK
        OBVIOUS
    <2>1. DOMAIN ids = 1..Len(ids) /\ \A k \in 1..Len(ids) : ids[k].at \in 0..Len(input.source) + 1
        BY TokensOf DEF PluginInv, TextInv
    <2> QED BY <2>1 DEF PluginInv, TextInv, LineInv, TypeOK
<1> QED BY <1>1, PluginInvariant, PTL

-----------------------------------------------------------------------------
(* What the daemon makes of the lines. *)

\* The kinds of an ontology that was loaded: by line, with their partitions.
LEMMA OntologyKinds ==
    /\ DOMAIN Ontology.kinds \subseteq Nat
    /\ \A k \in DOMAIN Ontology.kinds : Ontology.kinds[k] = <<Ontology.kinds[k][1], Ontology.kinds[k][2]>>
<1> DEFINE lines == OntologyFile
           S == {k \in DOMAIN lines : "type" \in DOMAIN lines[k] /\ lines[k].type = "entity_kind"}
<1>1. Ontology # NoOntology
    BY OntologyAssumption
<1>2. Ontology.kinds = [k \in S |-> <<lines[k].kind, lines[k].partition>>]
    BY <1>1 DEF Ontology, krl_ontology_load
<1>3. DOMAIN lines \subseteq Nat
    BY OntologyAssumption, LenProperties
<1> DEFINE kd(k) == lines[k].kind
           pt(k) == lines[k].partition
<1>4. Ontology.kinds = [k \in S |-> <<kd(k), pt(k)>>]
    BY <1>2
<1>5. S \subseteq Nat
    BY <1>3
<1> HIDE DEF S, kd, pt
<1> QED BY <1>4, <1>5

\* A declared kind is in the ontology with its partition.
LEMMA DeclaredIn ==
    ASSUME NEW kind, Declared(Ontology, kind)
    PROVE  <<kind, expected_partition(Ontology, kind)>> \in Range(Ontology.kinds)
<1> DEFINE K == Ontology.kinds
           S == {k \in DOMAIN K : K[k][1] = kind}
           m == Min(S)
<1>1. S # {} /\ S \subseteq Nat
    BY OntologyKinds DEF Declared
<1>2. m \in S
    <2> HIDE DEF S
    <2> QED BY <1>1, MinOf
<1>3. expected_partition(Ontology, kind) = K[m][2]
    BY DEF expected_partition
<1>4. m \in DOMAIN K /\ K[m][1] = kind /\ K[m] = <<K[m][1], K[m][2]>>
    BY <1>2, OntologyKinds
<1> HIDE DEF m, K
<1>5. K[m] = <<kind, K[m][2]>>
    BY <1>4
<1>6. K[m] \in Range(K)
    BY <1>4 DEF Range
<1> QED BY <1>3, <1>5, <1>6 DEF K

\* Rows have a name, or ends.
LEMMA RowsOfLine ==
    ASSUME NEW line, krl_validate_record(Ontology, line), NEW r \in krl_ingest_record(store, line)
    PROVE  \/ /\ line.type = "entity" /\ ValidEntity(Ontology, line)
              /\ r = [kind |-> line.kind, name |-> Bytes(line, "name"), file |-> Bytes(line, "file"),
                      line |-> Max({1, line.line_start})]
              /\ "name" \in DOMAIN r /\ r.kind = line.kind /\ r.name = Bytes(line, "name")
              /\ r.file = Bytes(line, "file")
           \/ /\ line.type = "relation" /\ ValidRelation(Ontology, line)
              /\ "name" \notin DOMAIN r /\ r.kind = line.kind
              /\ \A end \in {r.from, r.to} :
                    \E n \in store : "name" \in DOMAIN n /\ <<n.kind, n.name>> = end
<1> DEFINE name == Bytes(line, "name")
           file == Bytes(line, "file")
           l == Max({1, line.line_start})
           from == <<line.from_kind, Bytes(line, "from_name")>>
           to == <<line.to_kind, Bytes(line, "to_name")>>
<1>1. CASE line.type = "entity"
    <2>1. ValidEntity(Ontology, line)
        BY <1>1 DEF krl_validate_record
    <2>2. r = [kind |-> line.kind, name |-> name, file |-> file, line |-> l]
        BY <1>1 DEF krl_ingest_record
    <2> HIDE DEF name, file, l
    <2>3. "name" \in DOMAIN r /\ r.kind = line.kind /\ r.name = name /\ r.file = file
        BY <2>2
    <2> QED BY <1>1, <2>1, <2>2, <2>3 DEF name, file, l
<1>2. CASE line.type # "entity"
    <2>1. line.type = "relation" /\ ValidRelation(Ontology, line)
        BY <1>2 DEF krl_validate_record
    <2>2. /\ r = [kind |-> line.kind, from |-> from, to |-> to]
          /\ \A end \in {r.from, r.to} :
                \E n \in store : "name" \in DOMAIN n /\ <<n.kind, n.name>> = end
        BY <1>2 DEF krl_ingest_record
    <2> HIDE DEF from, to
    <2>3. "name" \notin DOMAIN r /\ r.kind = line.kind
        BY <2>2
    <2> QED BY <2>1, <2>2, <2>3
<1> QED BY <1>1, <1>2

\* Every line that was printed stays where it is.
LEMMA OutGrows ==
    ASSUME TextInv, LineInv, [Next]_vars, pc # "start"
    PROVE  \A k \in 1..read : out'[k] = out[k]
<1> USE DEF tokVars, spanVars, daemonVars
<1>0. PICK L : out \in Seq(L)
    BY DEF LineInv
<1>1. CASE UNCHANGED out
    BY <1>1
<1>2. CASE PrintSpan
    <2>1. UNCHANGED out \/ out' = Append(out, Printed(<<i, SpanEnd(i)>>))
        BY <1>2, PrintSpanIs
    <2>2. Len(out) \in Nat /\ 1..read \subseteq 1..Len(out)
        BY <1>0, LenProperties DEF LineInv
    <2> DEFINE v == Printed(<<i, SpanEnd(i)>>)
    <2> HIDE DEF v
    <2>3. \A k \in 1..Len(out) : Append(out, v)[k] = out[k]
        BY <1>0, Appended
    <2> QED BY <2>1, <2>2, <2>3 DEF v
<1>3. CASE Start \/ Open \/ CollectWord \/ Merge \/ EmitWord \/ Eos \/ Ner \/ SkipToken \/ Exit \/ Ingest
           \/ UNCHANGED vars
    BY <1>1, <1>3 DEF Start, Open, CollectWord, Merge, EmitWord, Eos, Ner, SkipToken, Exit, Ingest, vars
<1>4. CASE OtherExtractor
    BY <1>4 DEF OtherExtractor
<1> QED BY <1>2, <1>3, <1>4 DEF Next, Plugin

\* RowsDeclared, and nothing is stored before a line is printed.
RowsInv == RowsDeclared /\ (pc = "start" => store = {})

\* Every step keeps RowsInv, the daemon's by what validate.c demands of a line.
LEMMA RowsStep == TextInv /\ LineInv /\ RowsInv /\ [Next]_vars => RowsInv'
<1> SUFFICES ASSUME TextInv, LineInv, RowsInv, [Next]_vars PROVE RowsInv'
    OBVIOUS
<1> DEFINE Told(r, o, n) ==
               \E k \in 1..n :
                   /\ {"name", "kind", "partition"} \subseteq DOMAIN o[k]
                   /\ o[k].kind = r.kind /\ Bytes(o[k], "name") = r.name
                   /\ <<r.kind, o[k].partition>> \in Range(Ontology.kinds)
           Ends(r, s) == \A end \in {r.from, r.to} : \E n \in s :
                            "name" \in DOMAIN n /\ <<n.kind, n.name>> = end
           Good(r, o, n, s) ==
               IF "name" \in DOMAIN r
               THEN Told(r, o, n) /\ r.file[1] = Slash
               ELSE r.kind \in Range(Ontology.relations) /\ Ends(r, s)
<1>1. RowsDeclared <=> \A r \in store : Good(r, out, read, store)
    BY DEF RowsDeclared
<1>2. RowsDeclared' <=> \A r \in store' : Good(r, out', read', store')
    BY DEF RowsDeclared, Ontology
<1>3. read \in Nat /\ (pc = "start" => read = 0 /\ store = {} /\ out = <<>>)
    <2>1. out = <<>> => Len(out) = 0
        BY EmptySeq
    <2>2. PICK L : out \in Seq(L)
        BY DEF LineInv
    <2> QED BY <2>1, <2>2, LenProperties DEF LineInv, RowsInv
<1>4. CASE UNCHANGED <<read, store>> /\ pc' # "start"
    <2>1. CASE pc = "start"
        BY <1>2, <1>3, <1>4, <2>1 DEF RowsInv
    <2>2. CASE pc # "start"
        <3>1. \A k \in 1..read : out'[k] = out[k]
            BY <2>2, OutGrows
        <3>2. ASSUME NEW r, Told(r, out, read) PROVE Told(r, out', read)
            BY <3>1, <3>2
        <3>3. \A r : Good(r, out, read, store) => Good(r, out', read, store)
            BY <3>2
        <3> HIDE DEF Good
        <3> QED BY <1>1, <1>2, <1>4, <3>3 DEF RowsInv
    <2> QED BY <2>1, <2>2
<1>5. CASE Plugin
    <2>1. UNCHANGED <<read, store>> /\ pc' # "start"
        <3>1. CASE PrintSpan
            BY <3>1, PrintSpanIs
        <3>2. CASE ~PrintSpan
            BY <1>5, <3>2 DEF Plugin, Start, OtherExtractor, Open, CollectWord, Merge, EmitWord, Eos, Ner,
                SkipToken, Exit, Spanning, daemonVars
        <3> QED BY <3>1, <3>2
    <2> HIDE DEF Good
    <2> QED BY <1>4, <2>1
<1>6. CASE Ingest
    <2>0. UNCHANGED <<pc, out>> /\ read' = read + 1 /\ read < Len(out) /\ pc # "start"
        BY <1>3, <1>6, EmptySeq DEF Ingest, spanVars
    <2> DEFINE line == out[read + 1]
    <2>1. \A r : \A s : Good(r, out, read, store) /\ store \subseteq s => Good(r, out, read + 1, s)
        <3>1. 1..read \subseteq 1..read + 1
            BY <1>3
        <3>2. ASSUME NEW r, Told(r, out, read) PROVE Told(r, out, read + 1)
            BY <3>1, <3>2
        <3>3. ASSUME NEW r, NEW s, store \subseteq s, Ends(r, store) PROVE Ends(r, s)
            BY <3>3
        <3> HIDE DEF Told, Ends
        <3> QED BY <3>2, <3>3
    <2>2. CASE UNCHANGED store
        <3> HIDE DEF Good
        <3> QED BY <1>1, <1>2, <2>0, <2>1, <2>2 DEF RowsInv
    <2>3. CASE krl_validate_record(Ontology, line) /\ store' = store \cup krl_ingest_record(store, line)
        <3>1. ASSUME NEW r \in krl_ingest_record(store, line) PROVE Good(r, out, read + 1, store')
            <4>1. CASE line.type = "entity" /\ ValidEntity(Ontology, line)
                       /\ "name" \in DOMAIN r /\ r.kind = line.kind /\ r.name = Bytes(line, "name")
                       /\ r.file = Bytes(line, "file")
                <5>1. /\ {"name", "kind", "partition"} \subseteq DOMAIN line
                      /\ Declared(Ontology, line.kind)
                      /\ line.partition = expected_partition(Ontology, line.kind)
                      /\ Head(Bytes(line, "file")) = Slash
                    BY <4>1 DEF ValidEntity
                <5>2. <<r.kind, line.partition>> \in Range(Ontology.kinds)
                    BY <4>1, <5>1, DeclaredIn
                <5>3. read + 1 \in 1..read + 1
                    BY <1>3
                <5>4. Told(r, out, read + 1)
                    BY <4>1, <5>1, <5>2, <5>3
                <5>5. r.file[1] = Slash
                    BY <4>1, <5>1
                <5> HIDE DEF Told
                <5> QED BY <4>1, <5>4, <5>5
            <4>2. CASE ValidRelation(Ontology, line) /\ "name" \notin DOMAIN r /\ r.kind = line.kind
                       /\ Ends(r, store)
                <5>1. r.kind \in Range(Ontology.relations)
                    BY <4>2 DEF ValidRelation, is_valid_relation_kind
                <5>2. Ends(r, store')
                    BY <2>3, <4>2
                <5> HIDE DEF Ends, Told
                <5> QED BY <4>2, <5>1, <5>2
            <4> HIDE DEF line, Good, Told
            <4> QED BY <2>3, <4>1, <4>2, RowsOfLine
        <3>2. ASSUME NEW r \in store PROVE Good(r, out, read + 1, store')
            <4>1. Good(r, out, read, store) /\ store \subseteq store'
                BY <1>1, <2>3 DEF RowsInv
            <4> HIDE DEF Good
            <4> QED BY <2>1, <4>1
        <3> HIDE DEF Good
        <3> QED BY <1>2, <2>0, <2>3, <3>1, <3>2 DEF RowsInv
    <2> HIDE DEF Good
    <2> QED BY <1>6, <2>2, <2>3 DEF Ingest
<1>7. CASE UNCHANGED vars
    <2>1. UNCHANGED <<read, store, out, pc>>
        BY <1>7 DEF vars, spanVars, daemonVars
    <2> HIDE DEF Good
    <2> QED BY <1>1, <1>2, <2>1 DEF RowsInv
<1> HIDE DEF Good
<1> QED BY <1>5, <1>6, <1>7 DEF Next

\* Whatever lines an extractor prints, every entity in the store is of a kind of
\* the ontology, from a line with that kind's partition and an absolute path, and
\* the ends of every relation are in the store.
THEOREM RowsAreDeclared == Spec => []RowsDeclared
<1>1. Init => RowsInv
    BY DEF Init, RowsInv, RowsDeclared
<1>2. PluginInv /\ RowsInv /\ [Next]_vars => RowsInv'
    BY RowsStep DEF PluginInv
<1>3. RowsInv => RowsDeclared
    BY DEF RowsInv
<1> QED BY <1>1, <1>2, <1>3, PluginInvariant, PTL DEF Spec

-----------------------------------------------------------------------------
(* The lines of the shipped plugin. *)

\* The plugin's tables and the ontology.
LEMMA EveryKindDeclared ==
    ASSUME Shipped, NEW label, label_kind(label) # NoKind
    PROVE  /\ Declared(Ontology, label_kind(label))
           /\ expected_partition(Ontology, label_kind(label)) = label_partition(label)
<1>1. label \in 1..30
    BY DEF label_kind
<1> QED BY <1>1 DEF Shipped

\* Names and path after their way through JSON.
LEMMA NameSurvives ==
    ASSUME NEW name \in Seq(Printable), name # <<>>, Len(name) < NameSize - 1
    PROVE  LET stored == UpToQuote(json_escape(name, EscSize)) IN
           /\ stored # <<>> /\ Len(stored) \in 1..FieldSize - 1
           /\ (\A k \in 1..Len(name) : name[k] \notin {Quote, Backslash}) => stored = name
<1> DEFINE v == json_escape(name, EscSize)
           stored == UpToQuote(v)
<1>1. /\ EscSize \in Nat \ {0} /\ FieldSize \in Nat /\ EscSize <= FieldSize /\ EscSize > 4
      /\ NameSize \in Nat /\ NameSize + 4 <= EscSize
    BY SizesAssumption
<1>2. name \in Seq(Byte) /\ name[1] \in Byte /\ name[1] >= 32 /\ Len(name) \in Nat
    <2>1. 1 \in 1..Len(name) /\ Len(name) \in Nat
        BY EmptySeq, LenProperties
    <2>2. name[1] \in Printable
        BY <2>1, ElementOfSeq
    <2>3. name \in Seq(Byte)
        BY DEF Printable, Byte
    <2>4. \A b \in Printable : b \in Byte /\ b >= 32
        BY DEF Printable, Byte
    <2> QED BY <2>1, <2>2, <2>3, <2>4
<1>3. v \in Seq(Byte) /\ Len(v) < EscSize
    BY <1>1, <1>2, EscapeTyped
<1>4. v # <<>> /\ v[1] # Quote
    <2>1. v # <<>> /\ v[1] = Escaped(name[1])[1]
        BY <1>1, <1>2, EscapeFirst
    <2> QED BY <1>2, <2>1, EscapedTyped
<1> HIDE DEF v
<1>5. /\ stored \in Seq(Byte) /\ Len(stored) <= Len(v) /\ stored # <<>>
      /\ (\A k \in 1..Len(v) : v[k] # Quote) => stored = v
    BY <1>3, <1>4, UpToQuoteIs
<1> HIDE DEF stored
<1>6. Len(stored) \in 1..FieldSize - 1
    <2>1. Len(stored) \in Nat /\ Len(stored) # 0 /\ Len(v) \in Nat
        BY <1>3, <1>5, EmptySeq, LenProperties
    <2> QED BY <1>1, <1>3, <1>5, <2>1
<1>7. ASSUME \A k \in 1..Len(name) : name[k] \notin {Quote, Backslash}
      PROVE  stored = name
    <2>1. Len(name) + 3 < EscSize /\ EscSize \in Nat
        BY <1>1, <1>2
    <2>2. v = name
        BY <1>7, <2>1, EscapePlain DEF v
    <2> QED BY <1>5, <1>7, <2>2
<1> QED BY <1>5, <1>6, <1>7 DEF stored, v

\* The path stays absolute, and one without quotes and backslashes is what it was.
LEMMA PathSurvives ==
    LET stored == UpToQuote(json_escape(FilePath, 4096)) IN
    stored # <<>> /\ Head(stored) = Slash /\ (PlainPath => stored = FilePath)
<1> DEFINE w == json_escape(FilePath, 4096)
           stored == UpToQuote(w)
<1>1. FilePath \in Seq(Byte) /\ FilePath # <<>> /\ FilePath[1] = Slash
    BY SizesAssumption
<1>2. Slash >= 32 /\ Slash \in Byte /\ Slash # Quote /\ Slash # Backslash
    BY DEF Slash, Byte, Quote, Backslash
<1>3. w \in Seq(Byte)
    BY <1>1, EscapeTyped
<1>4. w # <<>> /\ w[1] = Slash
    <2>1. w # <<>> /\ w[1] = Escaped(FilePath[1])[1]
        BY <1>1, <1>2, EscapeFirst
    <2>2. Escaped(Slash) = <<Slash>>
        BY <1>2, EscapedTyped
    <2> QED BY <1>1, <2>1, <2>2
<1> HIDE DEF w
<1>5. /\ stored # <<>> /\ stored[1] = Slash
      /\ (\A k \in 1..Len(w) : w[k] # Quote) => stored = w
    BY <1>2, <1>3, <1>4, UpToQuoteIs
<1>6. ASSUME PlainPath PROVE stored = FilePath
    <2>1. Len(FilePath) + 3 < 4096 /\ DOMAIN FilePath = 1..Len(FilePath) /\ Len(FilePath) \in Nat
        BY <1>1, <1>6, LenProperties DEF PlainPath
    <2>2. \A k \in 1..Len(FilePath) : FilePath[k] >= 32 /\ FilePath[k] \notin {Quote, Backslash}
        BY <1>6, <2>1 DEF PlainPath
    <2>3. FilePath \in Seq(Printable)
        <3>1. \A b \in Byte : b >= 32 => b \in Printable
            BY DEF Byte, Printable
        <3>2. \A k \in 1..Len(FilePath) : FilePath[k] \in Printable
            BY <1>1, <2>1, <2>2, <3>1, ElementOfSeq
        <3>3. FilePath \in [1..Len(FilePath) -> Printable]
            BY <1>1, <3>2, LenProperties
        <3> QED BY <2>1, <3>3, SeqDef
    <2>4. w = FilePath
        BY <2>1, <2>2, <2>3, EscapePlain DEF w
    <2> QED BY <1>5, <2>2, <2>4
<1> HIDE DEF stored
<1>7. Head(stored) = Slash
    BY <1>5
<1> QED BY <1>5, <1>6, <1>7 DEF stored, w

\* The row of an entity line.
RowOf(line) ==
    [kind |-> line.kind, name |-> Bytes(line, "name"), file |-> Bytes(line, "file"),
     line |-> Max({1, line.line_start})]

\* A span that becomes a line has a name and a kind.
LEMMA SpanNames ==
    ASSUME Shipped, TextInv, SpanInv, labels # <<>>, NEW r \in Kept
    PROVE  /\ NameOf(r) \in Seq(Printable) /\ NameOf(r) # <<>> /\ Len(NameOf(r)) < NameSize - 1
           /\ find_line(input.source, NameOf(r)) \in Nat \ {0}
           /\ label_kind(labels[r[1]]) # NoKind /\ r[1] < Len(ids)
<1>1. Len(ids) \in Nat
    BY TokensOf DEF TextInv
<1>2. r \in (2..Len(ids) - 1) \X (3..Len(ids)) /\ r[1] < r[2]
      /\ NameOf(r) # <<>> /\ label_kind(labels[r[1]]) # NoKind
    BY DEF Kept, Runs
<1>3. r[1] \in Nat /\ r[2] \in Nat /\ r[1] <= r[2] /\ r[1] < Len(ids)
    BY <1>1, <1>2
<1>4. NameOf(r) \in Seq(Printable) /\ Len(NameOf(r)) < NameSize - 1
    BY <1>3, VocabOverPrintable, NameTyped DEF TextInv, SpanInv
<1>5. NameOf(r) \in Seq(Byte)
    BY <1>4 DEF Printable, Byte
<1>6. find_line(input.source, NameOf(r)) \in Nat \ {0}
    BY <1>5, LineFound DEF SpanInv
<1> QED BY <1>2, <1>3, <1>4, <1>6

\* The daemon takes every line the plugin prints.
LEMMA LineAccepted ==
    ASSUME Shipped, TextInv, SpanInv, labels # <<>>, NEW r \in Kept
    PROVE  /\ krl_validate_record(Ontology, Printed(r)) /\ FieldsFit(Printed(r))
           /\ \A s : krl_ingest_record(s, Printed(r)) = {RowOf(Printed(r))}
<1> DEFINE line == Printed(r)
           kind == label_kind(labels[r[1]])
           name == json_escape(NameOf(r), EscSize)
           file == json_escape(FilePath, 4096)
           l == find_line(input.source, NameOf(r))
           part == label_partition(labels[r[1]])
<1>1. line = [type |-> "entity", partition |-> part, kind |-> kind, name |-> name, file |-> file,
              line_start |-> l, confidence |-> 1]
    BY DEF Printed
<1>2. kind # NoKind /\ NameOf(r) \in Seq(Printable) /\ NameOf(r) # <<>> /\ Len(NameOf(r)) < NameSize - 1
    BY SpanNames
<1>3. Declared(Ontology, kind) /\ expected_partition(Ontology, kind) = part
    BY <1>2, EveryKindDeclared
<1>4. UpToQuote(name) # <<>> /\ Len(UpToQuote(name)) \in 1..FieldSize - 1
    BY <1>2, NameSurvives
<1>5. UpToQuote(file) # <<>> /\ Head(UpToQuote(file)) = Slash
    BY PathSurvives
<1> HIDE DEF line, kind, name, file, l, part
<1>6. /\ DOMAIN line = {"type", "partition", "kind", "name", "file", "line_start", "confidence"}
      /\ line.type = "entity" /\ line.kind = kind /\ line.partition = part
      /\ line.name = name /\ line.file = file
    BY <1>1
<1>7. Bytes(line, "name") = UpToQuote(name) /\ Bytes(line, "file") = UpToQuote(file)
    BY <1>6 DEF Bytes
<1>8. ValidEntity(Ontology, line)
    BY <1>3, <1>4, <1>5, <1>6, <1>7 DEF ValidEntity
<1>9. krl_validate_record(Ontology, line)
    BY <1>6, <1>8 DEF krl_validate_record
<1>10. FieldsFit(line)
    BY <1>4, <1>6, <1>7 DEF FieldsFit
<1>11. \A s : krl_ingest_record(s, line) = {RowOf(line)}
    BY <1>6 DEF krl_ingest_record, RowOf
<1> QED BY <1>9, <1>10, <1>11 DEF line

\* Nothing is refused, and the store holds the rows of the lines read.
TakenInv ==
    input.lines = <<>> => errors = 0 /\ store = {RowOf(out[k]) : k \in 1..read}

\* Every step keeps TakenInv.
LEMMA TakenStep == Shipped /\ PluginInv /\ TakenInv /\ [Next]_vars => TakenInv'
<1> SUFFICES ASSUME Shipped, PluginInv, TakenInv, [Next]_vars, input'.lines = <<>>
             PROVE  errors' = 0 /\ store' = {RowOf(out'[k]) : k \in 1..read'}
    BY DEF TakenInv
<1> USE DEF PluginInv
<1>0. input' = input /\ input.lines = <<>>
    <2>1. input' = input
        BY PrintSpanIs DEF Next, Plugin, Start, OtherExtractor, Open, CollectWord, Merge, EmitWord, Eos, Ner,
            SkipToken, Exit, Ingest, vars
    <2> QED BY <2>1
<1>1. errors = 0 /\ store = {RowOf(out[k]) : k \in 1..read} /\ read \in Nat
    <2>1. PICK L : out \in Seq(L)
        BY DEF LineInv
    <2> QED BY <1>0, <2>1, LenProperties DEF TakenInv, LineInv
<1>2. \A k \in 1..read : out'[k] = out[k]
    <2>1. CASE pc # "start"
        BY <2>1, OutGrows
    <2>2. CASE pc = "start"
        <3>1. read = 0
            <4>1. out = <<>>
                BY <2>2 DEF LineInv
            <4>2. Len(out) = 0
                BY <4>1, EmptySeq
            <4> QED BY <4>2 DEF LineInv
        <3> QED BY <3>1
    <2> QED BY <2>1, <2>2
<1>3. CASE UNCHANGED daemonVars
    BY <1>1, <1>2, <1>3 DEF daemonVars
<1>4. CASE Ingest
    <2> DEFINE n == read + 1
               line == out[n]
    <2>1. UNCHANGED <<out>> /\ read' = n /\ read < Len(out)
        BY <1>4 DEF Ingest, spanVars
    <2>2. n \in DOMAIN out /\ labels # <<>>
        <3>1. PICK L : out \in Seq(L)
            BY DEF LineInv
        <3>2. n \in DOMAIN out
            BY <1>1, <2>1, <3>1, LenProperties
        <3>3. out # <<>>
            BY <3>2, EmptySeq
        <3> QED BY <1>0, <3>2, <3>3 DEF SpanInv
    <2> DEFINE r == spans[n]
    <2>3. r \in Kept /\ line = Printed(r)
        <3>1. n \in DOMAIN spans
            BY <2>2 DEF LineInv
        <3>2. r \in Range(spans)
            BY <3>1 DEF Range
        <3> QED BY <2>2, <3>1, <3>2 DEF SpanInv
    <2> HIDE DEF r
    <2>4. krl_validate_record(Ontology, line) /\ FieldsFit(line)
          /\ krl_ingest_record(store, line) = {RowOf(line)}
        BY <2>2, <2>3, LineAccepted
    <2>5. store' = store \cup {RowOf(line)} /\ errors' = errors
        <3>1. LET ln == out[read'] IN
              IF krl_validate_record(Ontology, ln) /\ FieldsFit(ln)
              THEN store' = store \cup krl_ingest_record(store, ln) /\ UNCHANGED errors
              ELSE errors' = errors + 1 /\ UNCHANGED store
            BY <1>4 DEF Ingest
        <3> QED BY <2>1, <2>4, <3>1
    <2>6. 1..n = 1..read \cup {n}
        BY <1>1
    <2> HIDE DEF n
    <2> QED BY <1>1, <2>1, <2>5, <2>6
<1>5. CASE Plugin
    <2>1. CASE PrintSpan
        <3>1. UNCHANGED daemonVars
            BY <2>1, PrintSpanIs DEF daemonVars
        <3> QED BY <1>3, <3>1
    <2>2. CASE ~PrintSpan
        <3>1. UNCHANGED daemonVars
            BY <1>5, <2>2 DEF Plugin, Start, OtherExtractor, Open, CollectWord, Merge, EmitWord, Eos, Ner,
                SkipToken, Exit
        <3> QED BY <1>3, <3>1
    <2> QED BY <2>1, <2>2
<1>6. CASE UNCHANGED vars
    BY <1>3, <1>6 DEF vars
<1> QED BY <1>4, <1>5, <1>6 DEF Next

\* With the shipped tables it holds throughout.
LEMMA Taken ==
    ASSUME Shipped
    PROVE  Spec => [](PluginInv /\ TakenInv)
<1>1. Init => TakenInv
    BY DEF Init, TakenInv
<1>2. PluginInv /\ TakenInv /\ [Next]_vars => TakenInv'
    BY TakenStep
<1> QED BY <1>1, <1>2, PluginInvariant, PTL DEF Spec

\* Every line that was read has a span of its own.
LEMMA ReadSpan ==
    ASSUME PluginInv, input.lines = <<>>, NEW k \in 1..read
    PROVE  labels # <<>> /\ spans[k] \in Kept /\ out[k] = Printed(spans[k])
<1> USE DEF PluginInv
<1>1. PICK L : out \in Seq(L)
    BY DEF LineInv
<1>2. k \in DOMAIN out /\ k \in DOMAIN spans
    BY <1>1, LenProperties DEF LineInv
<1>3. labels # <<>>
    <2>1. out # <<>>
        BY <1>2, EmptySeq
    <2> QED BY <2>1 DEF SpanInv
<1>4. spans[k] \in Range(spans)
    BY <1>2 DEF Range
<1> QED BY <1>2, <1>3, <1>4 DEF SpanInv

\* And when the ontology agrees with the plugin's own tables, the daemon refuses
\* no line of the plugin, for any file and any labels.
THEOREM PluginIsAccepted ==
    ASSUME Shipped
    PROVE  Spec => []StoredIsDeclared
<1>1. TakenInv /\ RowsDeclared => StoredIsDeclared
    BY DEF TakenInv, StoredIsDeclared
<1> QED BY <1>1, Taken, RowsAreDeclared, PTL

\* The row of a span whose name has no quotes and backslashes.
LEMMA RowOfPrinted ==
    ASSUME Shipped, TextInv, SpanInv, labels # <<>>, NEW r \in Kept,
           \A k \in 1..Len(NameOf(r)) : NameOf(r)[k] \notin {Quote, Backslash}
    PROVE  RowOf(Printed(r)) =
               [kind |-> label_kind(labels[r[1]]), name |-> NameOf(r),
                file |-> UpToQuote(json_escape(FilePath, 4096)),
                line |-> find_line(input.source, NameOf(r))]
<1> DEFINE name == NameOf(r)
           l == find_line(input.source, name)
           line == Printed(r)
           en == json_escape(name, EscSize)
           ef == json_escape(FilePath, 4096)
           kind == label_kind(labels[r[1]])
           part == label_partition(labels[r[1]])
<1>1. name \in Seq(Printable) /\ name # <<>> /\ Len(name) < NameSize - 1 /\ l \in Nat \ {0}
    BY SpanNames
<1>2. UpToQuote(en) = name
    <2> HIDE DEF name
    <2> QED BY <1>1, NameSurvives DEF name
<1>3. Max({1, l}) = l
    <2> HIDE DEF l
    <2> DEFINE S == {1, l}
    <2>1. S \subseteq 0..l /\ S # {} /\ l \in Nat /\ l \in S
        BY <1>1
    <2>2. Max(S) \in S /\ \A x \in S : x <= Max(S)
        <3> HIDE DEF S
        <3> QED BY <2>1, MaxUpTo
    <2>3. Max(S) \in 0..l /\ l <= Max(S)
        BY <2>1, <2>2
    <2> HIDE DEF S
    <2>4. Max(S) = l
        BY <1>1, <2>3
    <2> QED BY <2>4 DEF S
<1>4. line = [type |-> "entity", partition |-> part, kind |-> kind, name |-> en, file |-> ef,
              line_start |-> l, confidence |-> 1]
    BY DEF Printed
<1> HIDE DEF line, en, ef, kind, l, name, part
<1>5. line.kind = kind /\ line.name = en /\ line.file = ef
      /\ line.line_start = l /\ {"name", "file"} \subseteq DOMAIN line
    BY <1>4
<1>6. Bytes(line, "name") = UpToQuote(en) /\ Bytes(line, "file") = UpToQuote(ef)
    BY <1>5 DEF Bytes
<1>7. RowOf(line) = [kind |-> kind, name |-> name, file |-> UpToQuote(ef), line |-> l]
    BY <1>2, <1>3, <1>5, <1>6 DEF RowOf
<1> QED BY <1>7 DEF line, kind, name, ef, l

\* The loop of plugin_main.c over labels and that of krl_index_file store the same
\* rows for any labelling of any text, unless a name or the path has a quote or a
\* backslash.
THEOREM CopiesAgree ==
    ASSUME Shipped, PlainPath
    PROVE  Spec => []MatchesInProcess
<1>1. PluginInv /\ TakenInv => MatchesInProcess
    <2> SUFFICES ASSUME PluginInv, TakenInv, pc = "done", read = Len(out), labels # <<>>,
                        \A r \in Runs : Range(NameOf(r)) \cap {Quote, Backslash} = {}
                 PROVE  store = krl_index_file
        BY DEF MatchesInProcess
    <2> USE DEF PluginInv
    <2> DEFINE Row(r) == [kind |-> label_kind(labels[r[1]]), name |-> NameOf(r), file |-> FilePath,
                          line |-> find_line(input.source, NameOf(r))]
    <2>1. DOMAIN spans = 1..read
        <3>1. PICK L : out \in Seq(L)
            BY DEF LineInv
        <3> QED BY <3>1, LenProperties DEF LineInv
    <2>2. store = {RowOf(Printed(spans[k])) : k \in 1..read}
        <3>1. \A k \in 1..read : out[k] = Printed(spans[k])
            BY <2>1 DEF SpanInv
        <3>2. store = {RowOf(out[k]) : k \in 1..read}
            BY DEF TakenInv, SpanInv
        <3> QED BY <3>1, <3>2
    <2>3. Range(spans) = Kept
        <3>1. Range(spans) = {r \in Kept : r[1] < Len(ids)}
            BY DEF SpanInv
        <3>2. \A r \in Kept : r[1] < Len(ids)
            BY SpanNames
        <3> QED BY <3>1, <3>2
    <2>4. store = {RowOf(Printed(r)) : r \in Kept}
        <3> DEFINE R(r) == RowOf(Printed(r))
        <3> HIDE DEF R
        <3>1. store = {R(spans[k]) : k \in 1..read}
            BY <2>2 DEF R
        <3>2. Kept = {spans[k] : k \in 1..read}
            BY <2>1, <2>3 DEF Range
        <3>3. store = {R(r) : r \in Kept}
            BY <3>1, <3>2
        <3> QED BY <3>3 DEF R
    <2>5. ASSUME NEW r \in Kept PROVE RowOf(Printed(r)) = Row(r)
        <3> DEFINE name == NameOf(r)
        <3>1. name \in Seq(Printable)
            BY SpanNames
        <3>2. \A k \in 1..Len(name) : name[k] \notin {Quote, Backslash}
            <4>1. Range(name) \cap {Quote, Backslash} = {}
                BY DEF Kept
            <4> HIDE DEF name
            <4>2. DOMAIN name = 1..Len(name)
                BY <3>1, LenProperties
            <4> QED BY <4>1, <4>2 DEF Range
        <3>3. UpToQuote(json_escape(FilePath, 4096)) = FilePath
            BY PathSurvives
        <3> QED BY <3>2, <3>3, RowOfPrinted
    <2>6. krl_index_file = {Row(r) : r \in Kept}
        BY DEF krl_index_file, Kept
    <2> HIDE DEF Row
    <2> QED BY <2>4, <2>5, <2>6
<1> QED BY <1>1, Taken, PTL
==================================================================================
