-------------------------------- MODULE Extract --------------------------------
(***************************************************************************)
(* The way of one source file through the shipped extractor and into the   *)
(* store: krul-indexer-codebert (plugin_main.c) tokenizes it (tok.c), has  *)
(* the model label the tokens (infer.c), turns the labelled spans into     *)
(* records, and the daemon validates (validate.c) and ingests (db.c) each. *)
(* One action is one round of a loop of the program.  The labels are       *)
(* whatever the model says.  krl_index_file of index.c, which does the     *)
(* same in one process and writes to the database itself, is an operator   *)
(* of its own; the plugin's records are held against it.                   *)
(***************************************************************************)
EXTENDS Tokenizer, RecordValidation

CONSTANTS
    Inputs,         \* what the plugin may meet
    OntologyFile,   \* the lines of the configured ontology
    FilePath,       \* the path of the file
    NameSize,       \* char name[128]
    EscSize         \* char esc_name[256]

\* vocab, merges: the files krl_tok_load reads; models: whether ONNX loads its
\* two; source: the file's bytes up to its first NUL, where the C string that it
\* is read into ends; labels: the labels the model may give;
\* lines: what another extractor would print instead, names and paths as bytes.
ASSUME InputsAssumption ==
    \A in \in Inputs :
        /\ DOMAIN in = {"vocab", "merges", "models", "source", "labels", "lines"}
        /\ in.vocab = NoFile \/ in.vocab \in VocabFiles
        /\ in.merges = NoFile \/ in.merges \in MergesFiles
        /\ in.source = NoFile \/ (in.source \in Seq(Byte) /\ 0 \notin Range(in.source))
        /\ in.models \in BOOLEAN /\ in.labels \subseteq Nat
        /\ in.lines \in Seq(Range(in.lines))
        /\ \A line \in Range(in.lines) :
              \A key \in DOMAIN line \cap {"name", "file", "from_name", "to_name"} : line[key] \in Seq(Byte)

VARIABLES
    input,          \* the case at hand
    pc,             \* where the plugin is
    tok,            \* its tokenizer
    p,              \* the next byte of the text
    nodes,          \* bpe_buf: the word being merged
    ids,            \* out_ids, with the places of the text they stand for
    labels, i,      \* the model's answer and the loop over it
    out,            \* the lines printed, oldest first
    spans,          \* history: the tokens [first, end) each of them is about
    read,           \* how many of them the daemon has read
    store,          \* the rows it ingested
    errors          \* the lines it refused

tokVars == <<p, nodes, ids>>
spanVars == <<labels, i, out, spans>>
daemonVars == <<read, store, errors>>
vars == <<input, pc, tok, tokVars, spanVars, daemonVars>>

\* krul index stops at once when the ontology does not load.
Ontology == krl_ontology_load(OntologyFile)
ASSUME OntologyAssumption == OntologyFile \in Seq(Range(OntologyFile)) /\ Ontology # NoOntology

\* The path is absolute, a name fits its buffers, and an escaped one those of the
\* daemon.
ASSUME SizesAssumption ==
    /\ FilePath \in Seq(Byte) /\ FilePath # <<>> /\ FilePath[1] = Slash
    /\ NameSize \in Nat \ {0, 1} /\ EscSize \in Nat /\ FieldSize \in Nat
    /\ NameSize + 4 <= EscSize /\ EscSize <= FieldSize

Init ==
    /\ input \in Inputs
    /\ pc = "start" /\ tok = NoTok
    /\ p = 1 /\ nodes = <<>> /\ ids = <<>>
    /\ labels = <<>> /\ i = 0 /\ out = <<>> /\ spans = <<>>
    /\ read = 0 /\ store = {} /\ errors = 0

-----------------------------------------------------------------------------
\* main: without a tokenizer or a model the plugin exits.
Start ==
    /\ pc = "start" /\ input.lines = <<>>
    /\ tok' = krl_tok_load(input.vocab, input.merges)
    /\ pc' = IF tok'.loaded /\ input.models THEN "open" ELSE "done"
    /\ UNCHANGED <<input, tokVars, spanVars, daemonVars>>

\* Some other extractor was configured.
OtherExtractor ==
    /\ pc = "start" /\ input.lines # <<>>
    /\ out' = input.lines /\ spans' = [k \in DOMAIN out' |-> <<1, 1>>]
    /\ pc' = "done"
    /\ UNCHANGED <<input, tok, tokVars, labels, i, daemonVars>>

\* index_file: a file that is missing or empty is skipped; a text without bytes
\* may also be a file that begins with a NUL.
Open ==
    /\ pc = "open"
    /\ \/ input.source \in {NoFile, <<>>} /\ pc' = "done" /\ UNCHANGED ids
       \/ input.source # NoFile /\ pc' = "word" /\ ids' = <<[id |-> KRL_TOK_BOS, at |-> 0]>>
    /\ UNCHANGED <<input, tok, p, nodes, spanVars, daemonVars>>

\* krl_tok_encode: there is room for a token and the text has another word.
Room == Len(ids) < MaxSeq - 1
MoreWords == Room /\ WordStart(input.source, p) # 0

\* Looking up the marker, an early entry of any vocabulary, is the first use of
\* a string that was read before the block moved.
CollectWord ==
    /\ pc = "word" /\ MoreWords
    /\ LET start == WordStart(input.source, p)
           end == WordEnd(input.source, start) IN
       /\ nodes' = BpeNodes(tok, input.source, start, end)
       /\ p' = end
    /\ pc' = IF tok.wild THEN "crashed" ELSE "merge"
    /\ UNCHANGED <<input, tok, ids, spanVars, daemonVars>>

Merge ==
    /\ pc = "merge" /\ bpe_best_merge(tok, nodes) # 0
    /\ nodes' = MergeNodes(tok, nodes, bpe_best_merge(tok, nodes))
    /\ UNCHANGED <<input, pc, tok, p, ids, spanVars, daemonVars>>

\* The word's tokens, as far as they fit.
EmitWordWhole ==
    /\ pc = "merge" /\ bpe_best_merge(tok, nodes) = 0
    /\ ids' = ids \o nodes
    /\ nodes' = <<>> /\ pc' = "word"
    /\ UNCHANGED <<input, tok, p, spanVars, daemonVars>>
EmitWord ==
    /\ pc = "merge" /\ bpe_best_merge(tok, nodes) = 0
    /\ ids' = SubSeq(ids \o nodes, 1, Min({Len(ids) + Len(nodes), MaxSeq - 1}))
    /\ nodes' = <<>> /\ pc' = "word"
    /\ UNCHANGED <<input, tok, p, spanVars, daemonVars>>

Eos ==
    /\ pc = "word" /\ ~MoreWords
    /\ ids' = Append(ids, [id |-> KRL_TOK_EOS, at |-> Len(input.source) + 1])
    /\ pc' = "ner"
    /\ UNCHANGED <<input, tok, p, nodes, spanVars, daemonVars>>

\* krl_ner_run: one label per token, or an error, which skips the file.
Ner ==
    /\ pc = "ner"
    /\ \/ /\ labels' \in [DOMAIN ids -> input.labels]
          /\ i' = 2 /\ pc' = "span"
       \/ pc' = "done" /\ UNCHANGED <<labels, i>>
    /\ UNCHANGED <<input, tok, tokVars, out, spans, daemonVars>>

-----------------------------------------------------------------------------
Kinds == <<"MODULE", "INTERFACE", "PACKAGE", "PARAMETER", "PORT", "UVM_ENV", "UVM_AGENT",
           "UVM_DRIVER", "UVM_MONITOR", "UVM_SCOREBOARD", "UVM_SEQUENCE", "UVM_SEQ_ITEM",
           "UVM_TEST", "COVERGROUP", "CLOCK_DOMAIN">>

\* Two labels to a kind; label 31 and above have none.
NoKind == "none"
label_kind(label) == IF label \in 1..30 THEN Kinds[(label + 1) \div 2] ELSE NoKind

label_partition(label) ==
    CASE label \in 11..26 -> "verification"
      [] label \in 27..28 -> "coverage"
      [] OTHER -> "structural"

is_begin(label) == label > 0 /\ label % 2 = 1

\* The 1-based line of the first occurrence of a name, 1 if there is none.
find_line(src, needle) ==
    LET found == {k \in 1..Len(src) - Len(needle) + 1 :
                    SubSeq(src, k, k + Len(needle) - 1) = needle} IN
    IF found = {} THEN 1
    ELSE 1 + Cardinality({k \in 1..Min(found) - 1 : src[k] = 10})

\* Quotes and backslashes get a backslash, control characters go; it stops when
\* the buffer has no room for an escape.
json_escape(s, buf_size) ==
    LET strs == [k \in DOMAIN s |->
                    CASE s[k] \in {Quote, Backslash} -> <<Backslash, s[k]>>
                      [] s[k] >= 32 /\ s[k] \notin {Quote, Backslash} -> <<s[k]>>
                      [] OTHER -> <<>>]
        n == Max({k \in 0..Len(s) : k = 0 \/ Total(strs, k - 1) + 4 < buf_size}) IN
    FlattenSeq(SubSeq(strs, 1, n))

IdsOf(s, e) == [k \in 1..e - s |-> ids[s + k - 1].id]

\* The end of the span that begins at s.
SpanEndAnyInside(s) ==
    Min({e \in s + 1..Len(ids) : e = Len(ids) \/ labels[e] = 0 \/ is_begin(labels[e])})
SpanEnd(s) ==
    Min({e \in s + 1..Len(ids) : e = Len(ids) \/ labels[e] # labels[s] + 1})

Spanning == pc = "span" /\ i < Len(ids)

SkipToken ==
    /\ Spanning /\ ~is_begin(labels[i])
    /\ i' = i + 1
    /\ UNCHANGED <<input, pc, tok, tokVars, labels, out, spans, daemonVars>>

PrintSpanStuck ==
    /\ Spanning /\ is_begin(labels[i])
    /\ \E end \in {SpanEnd(i)} :
       \E name \in {krl_tok_decode(tok, IdsOf(i, end), NameSize)} :
       IF name = <<>> \/ label_kind(labels[i]) = NoKind
       THEN UNCHANGED <<i, out, spans>>
       ELSE /\ out' = Append(out,
                 [type |-> "entity", partition |-> label_partition(labels[i]),
                  kind |-> label_kind(labels[i]), name |-> json_escape(name, EscSize),
                  file |-> json_escape(FilePath, 4096),
                  line_start |-> find_line(input.source, name), confidence |-> 1])
            /\ spans' = Append(spans, <<i, end>>)
            /\ i' = end
    /\ UNCHANGED <<input, pc, tok, tokVars, labels, daemonVars>>

\* A span whose name decodes to nothing, or whose label has no kind, is dropped.
PrintSpan ==
    /\ Spanning /\ is_begin(labels[i])
    /\ \E end \in {SpanEnd(i)} :
       \E name \in {krl_tok_decode(tok, IdsOf(i, end), NameSize)} :
       /\ IF name = <<>> \/ label_kind(labels[i]) = NoKind
          THEN UNCHANGED <<out, spans>>
          ELSE /\ out' = Append(out,
                    [type |-> "entity", partition |-> label_partition(labels[i]),
                     kind |-> label_kind(labels[i]), name |-> json_escape(name, EscSize),
                     file |-> json_escape(FilePath, 4096),
                     line_start |-> find_line(input.source, name), confidence |-> 1])
               /\ spans' = Append(spans, <<i, end>>)
       /\ i' = end
    /\ UNCHANGED <<input, pc, tok, tokVars, labels, daemonVars>>

\* The end of the file, and of stdin.
Exit ==
    /\ pc = "span" /\ i >= Len(ids)
    /\ pc' = "done"
    /\ UNCHANGED <<input, tok, tokVars, spanVars, daemonVars>>

-----------------------------------------------------------------------------
\* processLine: validate, then ingest; rows conflict on all their columns.
\* A relation between unknown entities is no error.
Ingest ==
    /\ read < Len(out)
    /\ read' = read + 1
    /\ LET line == out[read'] IN
       IF krl_validate_record(Ontology, line) /\ FieldsFit(line)
       THEN store' = store \cup krl_ingest_record(store, line) /\ UNCHANGED errors
       ELSE errors' = errors + 1 /\ UNCHANGED store
    /\ UNCHANGED <<input, pc, tok, tokVars, spanVars>>

Plugin ==
    \/ Start \/ OtherExtractor \/ Open \/ CollectWord \/ Merge \/ EmitWord \/ Eos \/ Ner
    \/ SkipToken \/ PrintSpan \/ Exit

Next == Plugin \/ Ingest
Spec == Init /\ [][Next]_vars

\* The operating system runs both processes.
FairSpec == Spec /\ WF_vars(Plugin) /\ WF_vars(Ingest)

-----------------------------------------------------------------------------
\* krl_index_file of index.c: the rows it inserts for a labelled text, one for
\* each maximal run of a begin label and its continuations.
Runs ==
    {r \in (2..Len(ids) - 1) \X (3..Len(ids)) :
        /\ r[1] < r[2] /\ is_begin(labels[r[1]])
        /\ \A k \in r[1] + 1..r[2] - 1 : labels[k] = labels[r[1]] + 1
        /\ r[2] = Len(ids) \/ labels[r[2]] # labels[r[1]] + 1}
NameOf(r) == krl_tok_decode(tok, IdsOf(r[1], r[2]), NameSize)
krl_index_file ==
    {[kind |-> label_kind(labels[r[1]]), name |-> NameOf(r), file |-> FilePath,
      line |-> find_line(input.source, NameOf(r))] :
        r \in {x \in Runs : NameOf(x) # <<>> /\ label_kind(labels[x[1]]) # NoKind}}

-----------------------------------------------------------------------------
(* Properties                                                              *)

\* The buffers: ids, the word and the lines stay within their sizes.
TypeOK ==
    /\ pc \in {"start", "open", "word", "merge", "ner", "span", "done", "crashed"}
    /\ Len(ids) <= MaxSeq /\ Len(nodes) < BpeMaxChars
    /\ \A k \in DOMAIN ids : ids[k].at \in 0..Len(input.source) + 1
    /\ DOMAIN out = DOMAIN spans /\ read \in 0..Len(out)
    /\ errors \in 0..read
    /\ input.lines = <<>> => \A k \in DOMAIN out : Len(out[k].name) < EscSize

\* BPE as it is defined: every merge of the file, in its order, applied
\* everywhere from left to right.
Apply(s, m) ==
    LET upto[k \in 0..Len(s)] ==
            IF k = 0 THEN <<>>
            ELSE LET t == upto[k - 1] IN
                 IF t # <<>> /\ Last(t) = m[1] /\ s[k] = m[2]
                 THEN Append(Front(t), m[3]) ELSE Append(t, s[k])
    IN upto[Len(s)]
Bpe(merges, s) ==
    LET upto[k \in 0..merges.count] ==
            IF k = 0 THEN s ELSE Apply(upto[k - 1], merges.entries[k])
    IN upto[merges.count]

\* The id of a string in the file, UNK when it has none.
IdIn(vocab, str) ==
    LET found == {k \in 1..vocab.count : vocab.entries[k].str = str} IN
    IF found = {} THEN KRL_TOK_UNK ELSE vocab.entries[Max(found)].id

\* The words of a text, from their first byte to their last; BPE takes them
\* letter by letter, behind the marker.
Words(text) ==
    LET Blank(k) == k \in {0, Len(text) + 1} \/ text[k] \in Whitespace IN
    {w \in (DOMAIN text) \X (DOMAIN text) :
        w[1] <= w[2] /\ Blank(w[1] - 1) /\ Blank(w[2] + 1) /\ \A k \in w[1]..w[2] : ~Blank(k)}
Letters(in, w) ==
    <<IdIn(in.vocab, SpaceMarker)>> \o
        [k \in 1..w[2] - w[1] + 1 |-> IdIn(in.vocab, ByteString[in.source[w[1] + k - 1]])]

\* The BPE of the words that end in the first k bytes, in their order.
BpeUpTo(in) ==
    LET upto[k \in 0..Len(in.source)] ==
            IF k = 0 THEN <<>>
            ELSE LET ending == {w \in Words(in.source) : w[2] = k} IN
                 IF ending = {} THEN upto[k - 1]
                 ELSE upto[k - 1] \o Bpe(in.merges, Letters(in, CHOOSE w \in ending : TRUE))
    IN upto

\* A table as the training makes it: no pair twice, every result new.
Trained(merges) ==
    \A k \in DOMAIN merges : \A j \in 1..k :
        /\ merges[k][3] \notin {merges[j][1], merges[j][2]}
        /\ k # j => merges[j][3] # merges[k][3] /\ SubSeq(merges[j], 1, 2) # SubSeq(merges[k], 1, 2)

\* krl_tok_encode searches a table sorted by pair for the lowest rank, again
\* after every merge, and cuts the text at max_len: what it returns is the BPE
\* of the words, in their order, between BOS and EOS.
EncodingIsBpe ==
    (/\ pc = "ner" /\ Trained(input.merges.entries)
     /\ \A w \in Words(input.source) : w[2] - w[1] < BpeMaxChars - 2) =>
        LET all == BpeUpTo(input)[Len(input.source)] IN
        [k \in DOMAIN ids |-> ids[k].id] =
            <<KRL_TOK_BOS>> \o SubSeq(all, 1, Min({Len(all), MaxSeq - 2})) \o <<KRL_TOK_EOS>>

\* A text in the alphabet of the tokens, in which printable ASCII is as it is.
Spelled(text) == FlattenSeq([k \in DOMAIN text |-> ByteString[text[k]]])

\* The text of a span: up to the next token of the word, or the end of the word.
SpanText(k) ==
    LET from == ids[spans[k][1]].at IN
    SubSeq(input.source, from, Min({ids[spans[k][2]].at, WordEnd(input.source, from)}) - 1)

\* A span within one word, of tokens the vocabulary has.
Plain(k) ==
    LET s == spans[k][1]
        e == spans[k][2] IN
    /\ \A j \in s..e - 1 : ids[j].id # KRL_TOK_UNK
    /\ ids[e - 1].at < WordEnd(input.source, ids[s].at)
    /\ Range(SpanText(k)) \cap {Quote, Backslash} = {}

\* The entity of a span is stored under the text of the span: all of its
\* tokens, unless name[] is too small, and nothing of the next token.  The
\* name passes merges, decode, json_escape, the pipe and db_json_str, and is
\* stored as its tokens spell it.  Its line, which find_line looks for from the
\* top of the file, is that of the span or of an earlier occurrence of the name,
\* never a later one.
EntityAsWritten ==
    input.lines = <<>> =>
    \A k \in 1..read : Plain(k) =>
        LET s == spans[k][1]
            e == spans[k][2]
            from == ids[s].at
            name == Spelled(SpanText(k)) IN
        \E r \in store :
            /\ r.kind = label_kind(labels[s])
            /\ IsPrefix(r.name, name)
            /\ Len(name) < NameSize - 1 =>
                  /\ Len(r.name) > ids[e - 1].at - from
                  /\ ids[e].at < WordEnd(input.source, from) => r.name = name
            /\ Range(SpanText(k)) \subseteq 33..126 =>
                  r.line <= 1 + Cardinality({j \in 1..from - 1 : input.source[j] = 10})

\* The tables of the plugin against the files that come with it: the ontology
\* declares its kinds, in its partitions, and no string of the byte-level
\* vocabulary has a control character.
Shipped ==
    /\ \A label \in 1..30 :
        /\ Declared(Ontology, label_kind(label))
        /\ expected_partition(Ontology, label_kind(label)) = label_partition(label)
    /\ \A in \in Inputs : in.vocab # NoFile =>
        \A e \in Range(in.vocab.entries) : \A k \in DOMAIN e.str : e.str[k] >= 32

\* Files as the training makes them: an id has one string, and the result of a
\* merge has the strings of its parts, one behind the other; neither these nor
\* the letters are special tokens.
Spelling ==
    \A in \in Inputs : krl_tok_load(in.vocab, in.merges).loaded =>
        LET entries == {in.vocab.entries[k] : k \in 1..in.vocab.count} IN
        /\ \A j, k \in 1..in.vocab.count :
              in.vocab.entries[j].id = in.vocab.entries[k].id => j = k
        /\ \A e \in entries : e.str \in Range(ByteString) => e.id > KRL_TOK_UNK
        /\ \A k \in 1..in.merges.count : \E l, r, m \in entries :
              /\ in.merges.entries[k] = <<l.id, r.id, m.id>>
              /\ KRL_TOK_UNK < Min({l.id, r.id, m.id})
              /\ m.str = l.str \o r.str

\* A path that json_escape leaves as it is.
PlainPath ==
    /\ Len(FilePath) + 3 < 4096
    /\ \A k \in DOMAIN FilePath : FilePath[k] >= 32 /\ FilePath[k] \notin {Quote, Backslash}

\* Whatever an extractor prints, an entity comes into the store only under a
\* kind of the ontology, from a line with the kind's partition and an absolute
\* path; the ends of a relation are there.  The shipped plugin, with tables of
\* its own for kinds and partitions, prints no line the daemon refuses.
RowsDeclared ==
    \A r \in store :
        IF "name" \in DOMAIN r
        THEN /\ \E k \in 1..read :
                   /\ {"name", "kind", "partition"} \subseteq DOMAIN out[k]
                   /\ out[k].kind = r.kind /\ Bytes(out[k], "name") = r.name
                   /\ <<r.kind, out[k].partition>> \in Range(Ontology.kinds)
             /\ r.file[1] = Slash
        ELSE /\ r.kind \in Range(Ontology.relations)
             /\ \A end \in {r.from, r.to} : \E n \in store :
                    "name" \in DOMAIN n /\ <<n.kind, n.name>> = end
StoredIsDeclared == RowsDeclared /\ (input.lines = <<>> => errors = 0)

\* The plugin and the daemon together store what krl_index_file would: the two
\* copies of the span extraction agree, unless a name has a quote or a backslash,
\* which krl_index_file stores and the way over JSON changes.
MatchesInProcess ==
    (/\ pc = "done" /\ read = Len(out) /\ labels # <<>>
     /\ \A r \in Runs : Range(NameOf(r)) \cap {Quote, Backslash} = {}) =>
        store = krl_index_file

\* The plugin comes to an end with every vocabulary whose strings fit the block
\* it starts with, 16 bytes to an entry, and the daemon reads all its lines.
PluginFinishes ==
    (pc = "start" /\ (input.lines = <<>> => ~krl_tok_load(input.vocab, input.merges).loaded
                                               \/ ~Wild(input.vocab)))
        ~> (pc = "done" /\ read = Len(out))
=============================================================================
