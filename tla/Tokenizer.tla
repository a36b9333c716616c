------------------------------ MODULE Tokenizer ------------------------------
(***************************************************************************)
(* The byte-level BPE tokenizer of the indexer plugin (tok.c), as          *)
(* operators.  Text and token strings are sequences of bytes.  The steps   *)
(* of krl_tok_encode are the actions of Extract; here is what they call.   *)
(***************************************************************************)
EXTENDS Integers, SequencesExt

CONSTANTS
    MaxSeq,         \* KRL_MAX_SEQ: tokens of an encoded text, 512
    BpeMaxChars,    \* BPE_MAX_CHARS: nodes of a word, 2048
    NoFile          \* a file that cannot be read

ASSUME TokenizerAssumption == MaxSeq \in Nat \ {0, 1} /\ BpeMaxChars \in Nat \ {0, 1}

KRL_TOK_BOS == 0
KRL_TOK_PAD == 1
KRL_TOK_EOS == 2
KRL_TOK_UNK == 3

Whitespace == {9, 10, 13, 32}

-----------------------------------------------------------------------------
\* The GPT-2 byte table: printable bytes stand for themselves, the others for
\* the code points from 256 on.
byte_to_unicode ==
    LET Printable == 33..126 \cup 161..172 \cup 174..255 IN
    [b \in 0..255 |->
        IF b \in Printable THEN b ELSE 256 + Cardinality((0..b - 1) \ Printable)]

\* UTF-8; no code point of the table needs more than two bytes.
cp_to_utf8(cp) == IF cp < 128 THEN <<cp>> ELSE <<192 + cp \div 64, 128 + (cp % 64)>>

ByteString == [b \in 0..255 |-> cp_to_utf8(byte_to_unicode[b])]

\* U+0120, the space in front of a word.
SpaceMarker == <<196, 160>>

-----------------------------------------------------------------------------
\* The id of a string, UNK when the vocabulary lacks it.
ht_lookup(tok, str) == IF str \in DOMAIN tok.ids THEN tok.ids[str] ELSE KRL_TOK_UNK

merge_less(a, b) == a.left < b.left \/ (a.left = b.left /\ a.right < b.right)

\* The table as krl_tok_load sorts it, by pairs.
SortMerges(ms) ==
    CHOOSE t \in [DOMAIN ms -> Range(ms)] :
        /\ Range(t) = Range(ms)
        /\ \A j, k \in DOMAIN t : j < k => ~merge_less(t[k], t[j])

\* Binary search for a pair: its place in the sorted table, 0 if it is not there.
\* An interval is <<lo, hi>>, from 0 as in the code.
Intervals(idx) == (0..Len(idx)) \X (-1..Len(idx) - 1)
merge_lookup_last_dropped(idx, left, right) ==
    LET Probe[r \in Intervals(idx)] ==
            IF r[1] >= r[2] THEN 0
            ELSE LET mid == (r[1] + r[2]) \div 2
                     m == idx[mid + 1] IN
                 IF m.left = left /\ m.right = right THEN mid + 1
                 ELSE IF merge_less(m, [left |-> left, right |-> right])
                      THEN Probe[<<mid + 1, r[2]>>] ELSE Probe[<<r[1], mid - 1>>]
    IN Probe[<<0, Len(idx) - 1>>]
merge_lookup(idx, left, right) ==
    LET Probe[r \in Intervals(idx)] ==
            IF r[1] > r[2] THEN 0
            ELSE LET mid == (r[1] + r[2]) \div 2
                     m == idx[mid + 1] IN
                 IF m.left = left /\ m.right = right THEN mid + 1
                 ELSE IF merge_less(m, [left |-> left, right |-> right])
                      THEN Probe[<<mid + 1, r[2]>>] ELSE Probe[<<r[1], mid - 1>>]
    IN Probe[<<0, Len(idx) - 1>>]

-----------------------------------------------------------------------------
\* The block of token strings: read into 16 bytes per entry, it grows when an
\* entry does not fit, and growing it "re-patches" the pointers to the strings
\* already read with arithmetic on stale addresses.
Wild(vf) ==
    LET End(k) == 1 + MapThenSumSet(LAMBDA j : Len(vf.entries[j].str) + 1, 1..k)
        cap == IF End(1) > vf.count * 16 THEN vf.count * 32 + End(1) - 1 ELSE vf.count * 16 IN
    \E k \in 2..vf.count : End(k) > cap

NoTok == [loaded |-> FALSE]

\* What the two files hold: the strings and their ids, the merges in their order.
Byte == 0..255
VocabFiles == [magic : STRING, version : Nat, count : Nat, entries : Seq([id : Nat, str : Seq(Byte)])]
MergesFiles == [magic : STRING, version : Nat, count : Nat, entries : Seq(Nat \X Nat \X Nat)]

\* A file of the right kind that holds all the entries it announces.
Readable(file, magic) ==
    /\ file # NoFile
    /\ file.magic = magic /\ file.version = 1
    /\ file.count <= Len(file.entries)

\* With two entries of one string, or one id, the later one counts: it is first
\* in its bucket, and overwrites id_to_str.  An id without an entry has no string.
krl_tok_load(vf, mf) ==
    IF /\ Readable(vf, "ICRV") /\ \A k \in 1..vf.count : vf.entries[k].id < vf.count
       /\ Readable(mf, "ICRM")
    THEN LET LastWith(P(_)) == vf.entries[Max({k \in 1..vf.count : P(vf.entries[k])})] IN
         [loaded |-> TRUE,
          ids |-> [str \in {vf.entries[k].str : k \in 1..vf.count} |->
                      LastWith(LAMBDA e : e.str = str).id],
          id_to_str |-> [id \in {vf.entries[k].id : k \in 1..vf.count} |->
                            LastWith(LAMBDA e : e.id = id).str],
          wild |-> Wild(vf),
          merges |-> SortMerges([k \in 1..mf.count |->
                                    [left |-> mf.entries[k][1], right |-> mf.entries[k][2],
                                     rank |-> k - 1, result |-> mf.entries[k][3]]])]
    ELSE NoTok

-----------------------------------------------------------------------------
\* krl_tok_encode collects a word: from the first byte that is no whitespace to
\* the next one that is; 0 when the text has no further word.
WordStart(text, p) ==
    LET starts == {k \in p..Len(text) : text[k] \notin Whitespace} IN
    IF starts = {} THEN 0 ELSE Min(starts)
WordEnd(text, start) ==
    Min({k \in start..Len(text) : text[k] \in Whitespace} \cup {Len(text) + 1})

\* Its nodes: the space marker, then one per byte, cut at the size of bpe_buf.
\* `at` remembers where in the text the node came from.
BpeNodes(tok, text, start, end) ==
    LET n == Min({end - start, BpeMaxChars - 2}) IN
    <<[id |-> ht_lookup(tok, ByteString[32]), at |-> start]>> \o
        [k \in 1..n |-> [id |-> ht_lookup(tok, ByteString[text[start + k - 1]]),
                         at |-> start + k - 1]]

\* bpe_best_merge: of the adjacent pairs in the table the leftmost one of
\* lowest rank, 0 when no pair is.
bpe_best_merge(tok, nodes) ==
    LET M(i) == merge_lookup(tok.merges, nodes[i].id, nodes[i + 1].id)
        Rank(i) == tok.merges[M(i)].rank
        pairs == {i \in 1..Len(nodes) - 1 : M(i) # 0}
        best == {i \in pairs : \A j \in pairs : Rank(i) < Rank(j) \/ (Rank(i) = Rank(j) /\ i <= j)} IN
    IF best = {} THEN 0 ELSE Min(best)

\* The merge itself: node i takes the result, its successor is unlinked.
MergeNodes(tok, nodes, i) ==
    LET m == tok.merges[merge_lookup(tok.merges, nodes[i].id, nodes[i + 1].id)] IN
    RemoveAt([nodes EXCEPT ![i].id = m.result], i + 1)

-----------------------------------------------------------------------------
\* The string krl_tok_decode appends for an id: nothing for special ids and for
\* those without a string, else the token without its space marker.
TokenTextMarkerKept(tok, id) ==
    IF id \in {KRL_TOK_BOS, KRL_TOK_PAD, KRL_TOK_EOS} \/ id \notin DOMAIN tok.id_to_str
    THEN <<>> ELSE tok.id_to_str[id]
TokenText(tok, id) ==
    LET s == tok.id_to_str[id] IN
    IF id \in {KRL_TOK_BOS, KRL_TOK_PAD, KRL_TOK_EOS} \/ id \notin DOMAIN tok.id_to_str
    THEN <<>>
    ELSE IF IsPrefix(SpaceMarker, s) THEN SubSeq(s, 3, Len(s)) ELSE s

\* The length of the first k strings.
Total(strs, k) ==
    LET upto[j \in 0..Len(strs)] == IF j = 0 THEN 0 ELSE upto[j - 1] + Len(strs[j]) IN upto[k]

\* It stops before the first string that does not fit the buffer.
krl_tok_decode(tok, ids, out_size) ==
    LET strs == [k \in DOMAIN ids |-> TokenText(tok, ids[k])]
        n == Max({k \in 0..Len(ids) : k = 0 \/ Total(strs, k) < out_size - 1}) IN
    FlattenSeq(SubSeq(strs, 1, n))
=============================================================================
