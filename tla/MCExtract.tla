------------------------------- MODULE MCExtract -------------------------------
(***************************************************************************)
(* Instances of Extract: small vocabularies and merge tables, short files, *)
(* and the lines of other extractors.                                      *)
(***************************************************************************)
EXTENDS Extract

a == 97
b == 98
newline == 10
space == 32
MCFilePath == <<Slash, a>>

\* Lines of ontologies/dv-uvm.json.
MCOntologyFile ==
    LET Entity(partition, kinds) ==
            [k \in DOMAIN kinds |->
                [type |-> "entity_kind", kind |-> kinds[k], partition |-> partition]]
    IN  <<[type |-> "ontology"]>>
        \o Entity("structural", <<"MODULE", "INTERFACE", "PORT", "PARAMETER", "PACKAGE",
                                  "CLOCK_DOMAIN">>)
        \o Entity("verification", <<"UVM_TEST", "UVM_ENV", "UVM_AGENT", "UVM_DRIVER",
                                    "UVM_MONITOR", "UVM_SCOREBOARD", "UVM_SEQUENCER",
                                    "UVM_SEQUENCE", "UVM_SEQ_ITEM">>)
        \o Entity("coverage", <<"COVERGROUP">>)
        \o <<[type |-> "relation_kind", kind |-> "INSTANTIATES"]>>

\* The special tokens, the space marker, the letters and the quote; the result
\* of merge k is token 7 + k.
Base == <<<<60, 115, 62>>, <<60, 112, 97, 100, 62>>, <<60, 47, 115, 62>>, <<60, 117, 110, 107, 62>>,
          SpaceMarker, <<a>>, <<b>>, <<Quote>>>>
Strings(merges) ==
    FoldLeft(LAMBDA t, m : Append(t, t[m[1] + 1] \o t[m[2] + 1]), Base, merges)
VocabOf(strings) ==
    [magic |-> "ICRV", version |-> 1, count |-> Len(strings),
     entries |-> [k \in DOMAIN strings |-> [id |-> k - 1, str |-> strings[k]]]]
Vocab(merges) == VocabOf(Strings(merges))
Merges(merges) == [magic |-> "ICRM", version |-> 1, count |-> Len(merges), entries |-> merges]

\* All the tables training could make of the letters, with n merges.
Tables ==
    LET Extend(ts) == UNION {{Append(t, <<l, r, 8 + Len(t)>>) :
                                 l \in 4..(7 + Len(t)) \ {7}, r \in 5..(7 + Len(t)) \ {7}} : t \in ts}
        Marked(t, x) == IsPrefix(SpaceMarker, Strings(t)[x + 1])
        Proper(ts) == {t \in ts : Trained(t) /\ \A m \in Range(t) : ~Marked(t, m[2])}
        T1 == Proper(Extend({<<>>}))
        T2 == Proper(Extend(T1))
    IN [n \in 1..3 |-> CASE n = 1 -> T1 [] n = 2 -> T2 [] OTHER -> Proper(Extend(T2))]

Case(merges, source, answers) ==
    [vocab |-> Vocab(merges), merges |-> Merges(merges), models |-> TRUE,
     source |-> source, labels |-> answers, lines |-> <<>>]

\* Every table on every word of letters, and two words in one text.
TextsOf(n) == [1..n -> {a, b}]
EncodeCases ==
    {Case(t, w, {0}) : t \in Tables[1], w \in UNION {TextsOf(n) : n \in 1..4}}
    \cup {Case(t, w, {0}) : t \in Tables[2],
                w \in {v \in TextsOf(4) : v[1] = a} \cup {<<b, a, space, a, a, b>>}}
    \cup {Case(t, w, {0}) : t \in Tables[3], w \in {<<a, b, a, b>>, <<a, a, a, b>>}}

\* Few tables, for the spans: none, "ab", and one that joins the marker.
Ab == <<5, 6, 8>>
SpanTables == {<<>>, <<Ab>>, <<<<4, 5, 8>>, <<8, 6, 9>>>>}
Texts ==
    {<<a>>, <<a, b>>, <<b, newline, a, b>>, <<a, space, b, newline, a, b>>,
     <<newline, a, a, a>>, <<a, Quote, b>>, <<a, 200>>, <<a, b, a, b, a, b, a>>,
     <<space, newline>>, <<>>, NoFile}
\* A letter beyond ASCII, which two bytes spell, and a token it ends.
Accented(merges, source) ==
    [Case(<<>>, source, {0, 1, 2}) EXCEPT
        !.vocab = VocabOf(Base \o <<ByteString[200], <<a>> \o ByteString[200]>>),
        !.merges = Merges(merges)]
LongTexts == {<<b, newline, a, b, a>>, <<a, newline, a>>}
IndexCases ==
    {Case(t, w, {0, 1, 2, 28}) : t \in SpanTables, w \in {<<a, b>>, <<b, a>>}}
    \cup {Case(t, w, {0, 1, 2}) : t \in {<<>>, <<Ab>>}, w \in Texts}
    \cup {Case(<<Ab>>, w, {0, 27, 28}) : w \in LongTexts}
    \cup {Accented(t, w) : t \in {<<>>, <<<<5, 8, 9>>>>},
                w \in {<<a, 200>>, <<200, b, newline, 195, 136>>}}
    \cup {Case(<<Ab>>, <<a, space, b>>, {n, n + 1, 31}) : n \in {k \in 3..29 : k % 2 = 1}}

\* Files that do not load, models that do not, strings that outgrow the block.
Good == Case(<<Ab>>, <<a, b>>, {1, 2})
LoadCases ==
    {[Good EXCEPT !.vocab = NoFile], [Good EXCEPT !.merges = NoFile],
     [Good EXCEPT !.vocab.magic = "other"], [Good EXCEPT !.merges.version = 2],
     [Good EXCEPT !.vocab.count = 12], [Good EXCEPT !.merges.count = 2],
     [Good EXCEPT !.vocab.entries[5].id = 9], [Good EXCEPT !.models = FALSE],
     [Good EXCEPT !.vocab = VocabOf(Base \o <<<<a, b>>, [k \in 1..150 |-> a]>>)]}

\* What other extractors may print.
Entity == [type |-> "entity", kind |-> "MODULE", partition |-> "structural", name |-> <<a>>,
           file |-> MCFilePath, confidence |-> 1, line_start |-> 0]
Relation == [type |-> "relation", kind |-> "INSTANTIATES", from_kind |-> "MODULE", from_name |-> <<a>>,
             to_kind |-> "MODULE", to_name |-> <<b>>, confidence |-> 1]
Without(f, key) == [k \in DOMAIN f \ {key} |-> f[k]]
Lines ==
    {Entity, [Entity EXCEPT !.name = <<b>>], [Entity EXCEPT !.partition = "coverage"],
     [Entity EXCEPT !.kind = "TYPO"], [Entity EXCEPT !.file = <<a>>], [Entity EXCEPT !.name = <<Quote>>],
     [Entity EXCEPT !.name = [k \in 1..FieldSize |-> a]], Without(Entity, "confidence"),
     Relation, [Relation EXCEPT !.to_kind = "TYPO"], [Relation EXCEPT !.kind = "TYPO"],
     [Relation EXCEPT !.from_name = <<>>], Without(Relation, "type"), [Relation EXCEPT !.type = "event"]}
OtherCases ==
    {[Good EXCEPT !.lines = s] : s \in {<<l, m>> : l \in Lines, m \in Lines}
                                       \cup {<<Entity, l, Relation>> : l \in Lines}}

MCInputs == EncodeCases \cup IndexCases \cup LoadCases \cup OtherCases

ASSUME ShippedAssumption == Shipped /\ PlainPath /\ Spelling
================================================================================
