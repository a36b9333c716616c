--------------------------- MODULE RecordValidation ---------------------------
(***************************************************************************)
(* What the daemon does with a line of an extractor: validate.c checks it  *)
(* against the ontology, krl_ingest_record of db.c takes its fields apart. *)
(*                                                                         *)
(* A line is a function from the keys present to their values.  Names and  *)
(* paths are byte sequences, as they stand between the quotes; kinds and   *)
(* partitions are strings.                                                 *)
(***************************************************************************)
EXTENDS Integers, SequencesExt

CONSTANTS
    MaxKinds,       \* KRL_ONTOLOGY_MAX_KINDS and _RELATIONS, 256
    FieldSize       \* the buffer a name is copied to, 256

Quote == 34
Slash == 47
Backslash == 92

\* json_str and db_json_str: a value ends at the first quote, an escaped one
\* included.
UpToQuote(v) ==
    LET quotes == {k \in DOMAIN v : v[k] = Quote} IN
    IF quotes = {} THEN v ELSE SubSeq(v, 1, Min(quotes) - 1)
Bytes(line, key) == IF key \in DOMAIN line THEN UpToQuote(line[key]) ELSE <<>>

-----------------------------------------------------------------------------
\* The declarations of the ontology file, by their lines; a declaration without
\* its fields or beyond the limit refuses the whole file.
NoOntology == [kinds |-> <<>>, relations |-> <<>>]
krl_ontology_load(lines) ==
    LET OfType(t) == {k \in DOMAIN lines : "type" \in DOMAIN lines[k] /\ lines[k].type = t}
        kinds == OfType("entity_kind")
        relations == OfType("relation_kind") IN
    IF /\ Cardinality(kinds) <= MaxKinds /\ Cardinality(relations) <= MaxKinds
       /\ \A k \in kinds : {"kind", "partition"} \subseteq DOMAIN lines[k]
       /\ \A k \in relations : "kind" \in DOMAIN lines[k]
    THEN [kinds |-> [k \in kinds |-> <<lines[k].kind, lines[k].partition>>],
          relations |-> [k \in relations |-> lines[k].kind]]
    ELSE NoOntology

\* The partition the first declaration of a kind gives it.
Declared(ont, kind) == \E k \in DOMAIN ont.kinds : ont.kinds[k][1] = kind
expected_partition(ont, kind) ==
    ont.kinds[Min({k \in DOMAIN ont.kinds : ont.kinds[k][1] = kind})][2]

is_valid_relation_kind(ont, kind) == kind \in Range(ont.relations)

ValidEntityAnyPartition(ont, line) ==
    /\ {"partition", "kind", "name", "file", "confidence", "line_start"} \subseteq DOMAIN line
    /\ Bytes(line, "name") # <<>> /\ Bytes(line, "file") # <<>>
    /\ Declared(ont, line.kind)
    /\ Head(Bytes(line, "file")) = Slash
ValidEntity(ont, line) ==
    /\ {"partition", "kind", "name", "file", "confidence", "line_start"} \subseteq DOMAIN line
    /\ Bytes(line, "name") # <<>> /\ Bytes(line, "file") # <<>>
    /\ Declared(ont, line.kind) /\ line.partition = expected_partition(ont, line.kind)
    /\ Head(Bytes(line, "file")) = Slash

ValidRelation(ont, line) ==
    /\ {"kind", "from_kind", "from_name", "to_kind", "to_name", "confidence"} \subseteq DOMAIN line
    /\ Bytes(line, "from_name") # <<>> /\ Bytes(line, "to_name") # <<>>
    /\ is_valid_relation_kind(ont, line.kind)
    /\ Declared(ont, line.from_kind) /\ Declared(ont, line.to_kind)

krl_validate_record(ont, line) ==
    /\ "type" \in DOMAIN line
    /\ \/ line.type = "entity" /\ ValidEntity(ont, line)
       \/ line.type = "relation" /\ ValidRelation(ont, line)

-----------------------------------------------------------------------------
\* copy_field: a line with a name that is empty or does not fit is refused.
FieldsFit(line) ==
    \A key \in IF line.type = "entity" THEN {"name"} ELSE {"from_name", "to_name"} :
        Len(Bytes(line, key)) \in 1..FieldSize - 1

\* The rows a line inserts: an entity, or a relation between two entities there
\* are (a relation to an unknown one is dropped).
krl_ingest_record(store, line) ==
    IF line.type = "entity"
    THEN {[kind |-> line.kind, name |-> Bytes(line, "name"), file |-> Bytes(line, "file"),
           line |-> Max({1, line.line_start})]}
    ELSE {r \in {[kind |-> line.kind, from |-> <<line.from_kind, Bytes(line, "from_name")>>,
                  to |-> <<line.to_kind, Bytes(line, "to_name")>>]} :
            \A end \in {r.from, r.to} :
                \E n \in store : "name" \in DOMAIN n /\ <<n.kind, n.name>> = end}
=============================================================================
