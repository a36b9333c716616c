------------------------------ MODULE Evaporation ------------------------------
(***************************************************************************)
(* Reinforcement and retrieval (query.zig and db.c): every entity and      *)
(* relation has a strength that halves with time, queries hide the rows    *)
(* that fell below a threshold, a reinforcement restores a row.  An index  *)
(* run of another process replaces rows meanwhile (see KnowledgeBase).     *)
(* Time is the age of each row in half-lives.                              *)
(***************************************************************************)
EXTENDS Connection

CONSTANTS
    Names,                  \* the entities the sources have, one to a file
    Project,                \* the project each belongs to
    Edges,                  \* the pairs with a HAS_COVERGROUP relation
    Agents,                 \* those of kind UVM_AGENT
    Full,                   \* strength 1.0; the thresholds are parts of it
    strength_min, visibility_threshold,
    MaxAge,                 \* bound: half-lives after which rows look alike
    ListRoom, OutRoom,      \* rows whose text always fits rels and ents, and out
    MaxRows,                \* bound: ids each table ever gives out
    MaxQueries              \* bound: requests to the store

\* config.zig says why the two must be apart: for rows to be hidden, and to come
\* back.  It checks neither; what a daemon does with a floor that reaches the
\* threshold is not modelled.
ASSUME DecayAssumption ==
    /\ visibility_threshold \in Nat /\ Full \in Nat /\ MaxAge \in Nat
    /\ strength_min \in 0..visibility_threshold - 1 /\ visibility_threshold <= Full

ASSUME RoomAssumption == ListRoom \in Nat /\ OutRoom \in Nat

VARIABLES
    entities,           \* entities: [id, name, age]
    relationships,      \* relationships: [id, from, to, age]
    next_id,            \* the next BIGSERIAL id of each table
    log,                \* reinforcement_events: table and id
    reinforced          \* history: the rows reinforced, one for each UPDATE

storeVars == <<entities, relationships, next_id>>
evapVars == <<storeVars, log, reinforced>>

Tables == {"entity", "relation"}

EvapInit ==
    /\ entities = {} /\ relationships = {} /\ next_id = [t \in Tables |-> 1]
    /\ log = <<>> /\ reinforced = <<>>

Ids(rows) == {r.id : r \in rows}
NameOf(id) == (CHOOSE e \in entities : e.id = id).name

-----------------------------------------------------------------------------
(* Time, and the process that indexes                                      *)

Older(rows) == {[r EXCEPT !.age = IF @ < MaxAge THEN @ + 1 ELSE @] : r \in rows}
Tick ==
    /\ entities' = Older(entities) /\ relationships' = Older(relationships)
    /\ UNCHANGED <<connVars, next_id, log, reinforced>>

DeleteFileOrphans(n) ==
    /\ \E e \in entities : e.name = n
    /\ entities' = {e \in entities : e.name # n}
    /\ UNCHANGED <<connVars, relationships, next_id, log, reinforced>>
\* krl_entities_delete_file; relations go with their ends.
DeleteFile(n) ==
    /\ \E e \in entities : e.name = n
    /\ entities' = {e \in entities : e.name # n}
    /\ relationships' = {r \in relationships : {r.from, r.to} \subseteq Ids(entities')}
    /\ UNCHANGED <<connVars, next_id, log, reinforced>>

\* krl_entity_insert: new rows have full strength; a row that is there stays as
\* it is (ON CONFLICT DO NOTHING).
InsertEntityUpsert(n) ==
    /\ next_id["entity"] <= MaxRows["entity"]
    /\ entities' = IF \E e \in entities : e.name = n
                   THEN {IF e.name = n THEN [e EXCEPT !.age = 0] ELSE e : e \in entities}
                   ELSE entities \cup {[id |-> next_id["entity"], name |-> n, age |-> 0]}
    /\ next_id' = [next_id EXCEPT !["entity"] = @ + 1]
    /\ UNCHANGED <<connVars, relationships, log, reinforced>>
InsertEntity(n) ==
    /\ next_id["entity"] <= MaxRows["entity"]
    /\ entities' = IF \E e \in entities : e.name = n THEN entities
                   ELSE entities \cup {[id |-> next_id["entity"], name |-> n, age |-> 0]}
    /\ next_id' = [next_id EXCEPT !["entity"] = @ + 1]
    /\ UNCHANGED <<connVars, relationships, log, reinforced>>

\* krl_relation_insert.
InsertRelation(f, t) ==
    /\ next_id["relation"] <= MaxRows["relation"] /\ <<f.name, t.name>> \in Edges
    /\ \A r \in relationships : <<r.from, r.to>> # <<f.id, t.id>>
    /\ relationships' = relationships \cup
            {[id |-> next_id["relation"], from |-> f.id, to |-> t.id, age |-> 0]}
    /\ next_id' = [next_id EXCEPT !["relation"] = @ + 1]
    /\ UNCHANGED <<connVars, entities, log, reinforced>>

Indexer ==
    \/ \E n \in Names : DeleteFile(n) \/ InsertEntity(n)
    \/ \E f, t \in entities : InsertRelation(f, t)

-----------------------------------------------------------------------------
(* Requests                                                                *)

\* strength_of, and the clause append_visibility_clause adds to a query.
StrengthFloored(row) ==
    LET halved[k \in 0..MaxAge] == IF k = 0 THEN Full ELSE halved[k - 1] \div 2 IN
    IF halved[row.age] < visibility_threshold THEN visibility_threshold ELSE halved[row.age]
Strength(row) ==
    LET halved[k \in 0..MaxAge] == IF k = 0 THEN Full ELSE halved[k - 1] \div 2 IN
    IF halved[row.age] < strength_min THEN strength_min ELSE halved[row.age]
Visible(row) == Strength(row) >= visibility_threshold

\* resolveProject: a name nobody registered means the first project.
NoProject == 0
resolveProject(p) == IF p \in {Project[n] : n \in Names} THEN p ELSE 1
Of(project) == {e \in entities : Project[e.name] = project}

ReinforceRequests ==
    UNION {[at : {"reinforce"}, table : {t}, id : 1..MaxRows[t]] : t \in Tables}
EvapRequests ==
    ReinforceRequests
    \cup [at : {"query"}, about : {"entities", "relations", "no_covergroup"},
          project : {Project[n] : n \in Names} \cup {NoProject}]
    \cup [at : {"context"}, project : {Project[n] : n \in Names}, focus : Names]

EvapAccept ==
    /\ served < MaxQueries /\ \E r \in EvapRequests : Accept(r)
    /\ UNCHANGED <<storeVars, log, reinforced>>

\* reinforce_row: a blind UPDATE; it tells whether the id was there.  `log` is
\* written by a second statement.
Restore(rows, id) == {IF r.id = id THEN [r EXCEPT !.age = 0] ELSE r : r \in rows}
ReinforceUnchecked ==
    /\ req.at = "reinforce"
    /\ IF req.table = "entity"
       THEN entities' = Restore(entities, req.id) /\ UNCHANGED relationships
       ELSE relationships' = Restore(relationships, req.id) /\ UNCHANGED entities
    /\ reinforced' = IF req.id \in Ids(IF req.table = "entity" THEN entities ELSE relationships)
                     THEN Append(reinforced, <<req.table, req.id>>) ELSE reinforced
    /\ Proceed([at |-> "log", table |-> req.table, id |-> req.id])
    /\ UNCHANGED <<next_id, log>>
Reinforce ==
    /\ req.at = "reinforce"
    /\ \/ /\ req.table = "entity" /\ req.id \in Ids(entities)
          /\ entities' = Restore(entities, req.id) /\ UNCHANGED relationships
       \/ /\ req.table = "relation" /\ req.id \in Ids(relationships)
          /\ relationships' = Restore(relationships, req.id) /\ UNCHANGED entities
    /\ reinforced' = Append(reinforced, <<req.table, req.id>>)
    /\ Proceed([at |-> "log", table |-> req.table, id |-> req.id])
    /\ UNCHANGED <<next_id, log>>

\* krl_log_reinforcement; the reinforcement stands when it fails.
LogReinforcement ==
    /\ req.at = "log"
    /\ log' = Append(log, <<req.table, req.id>>) \/ UNCHANGED log
    /\ Answer([is |-> "reinforced", table |-> req.table, id |-> req.id])
    /\ UNCHANGED <<storeVars, reinforced>>

\* What a statement leaves in a buffer whose text holds `room` rows for sure.
\* snprintf cuts a longer text without a word, and the row it cuts and those
\* behind it are lost.
Fits(rows) == [rows |-> rows, text |-> "whole"]
Texts(rows, room) ==
    {Fits(rows)} \cup
    (IF Cardinality(rows) <= room THEN {} ELSE [rows : SUBSET rows, text : {"cut"}])
\* A statement that fails is answered like one that finds nothing.
Failed == [rows |-> {}, text |-> "failed"]

\* query entities, relations and no_covergroup: one statement.
Rows(about, project) ==
    CASE about = "entities" -> {e.id : e \in {x \in Of(project) : Visible(x)}}
      [] about = "relations" -> {r.id : r \in {x \in relationships :
                                    Visible(x) /\ Project[NameOf(x.from)] = project}}
      [] OTHER -> {e.id : e \in {x \in Of(project) :
                    x.name \in Agents /\ Visible(x) /\ ~\E r \in relationships : r.from = x.id}}
Query ==
    /\ req.at = "query"
    /\ \E out \in Texts(Rows(req.about, resolveProject(req.project)), OutRoom) :
          Answer([is |-> "rows", about |-> req.about, out |-> out])
    /\ UNCHANGED evapVars

\* krl_gothos_get_context: the focus, its relations, its neighbours.  Without a
\* row for the focus, or with a statement that fails, it is "entity not found".
FindFocus ==
    /\ req.at = "context"
    /\ \/ \E e \in Of(req.project) :
             e.name = req.focus /\ Proceed([at |-> "rels", focus |-> e.id])
       \/ Answer([is |-> "not_found"])
    /\ UNCHANGED evapVars

ContextRelations ==
    /\ req.at = "rels"
    /\ LET found == {r \in relationships : req.focus \in {r.from, r.to} /\ Visible(r)} IN
       \E rels \in Texts(found, ListRoom) \cup {Failed} :
          Proceed([at |-> "ents", focus |-> req.focus, rels |-> rels])
    /\ UNCHANGED evapVars

\* The focus however weak it is, and the neighbours in sight, along relations
\* of any strength.
ListedOneWay(focus) ==
    {e.id : e \in {x \in entities :
        \/ x.id = focus
        \/ Visible(x) /\ \E r \in relationships : <<r.from, r.to>> = <<x.id, focus>>}}
Listed(focus) ==
    {e.id : e \in {x \in entities :
        \/ x.id = focus
        \/ Visible(x) /\ \E r \in relationships :
                <<r.from, r.to>> \in {<<x.id, focus>>, <<focus, x.id>>}}}
ContextEntities ==
    /\ req.at = "ents"
    /\ \E ents \in Texts(Listed(req.focus), ListRoom) \cup {Failed} :
          Answer([is |-> "context", focus |-> req.focus, rels |-> req.rels, ents |-> ents])
    /\ UNCHANGED evapVars

\* A statement that fails, or an id that is not there.
EvapFails ==
    /\ req.at \in {"reinforce", "query"} /\ Answer(Error)
    /\ UNCHANGED evapVars

Requests ==
    \/ EvapAccept \/ Reinforce \/ LogReinforcement \/ Query
    \/ FindFocus \/ ContextRelations \/ ContextEntities \/ EvapFails

EvapNext == Indexer \/ Requests
-----------------------------------------------------------------------------
(* Properties                                                              *)

\* The tables keep their keys: ids, one row for a name, relations between rows
\* that are there.
EvapTypeOK ==
    /\ \A e \in entities : e.id < next_id["entity"] /\ e.name \in Names /\ e.age \in 0..MaxAge
    /\ \A e, f \in entities : e.id = f.id \/ e.name = f.name => e = f
    /\ \A r \in relationships :
        /\ r.id < next_id["relation"] /\ r.age \in 0..MaxAge
        /\ {r.from, r.to} \subseteq Ids(entities)
    /\ \A r, q \in relationships : r.id = q.id => r = q

\* query.zig: a reinforcement is "the only way strength moves back up".  A row
\* in sight was in sight before, is new, or is the one this very step
\* reinforced: no query, no index run that meets the row again revives it.
OnlyReinforcementRevives ==
    [][\A t \in Tables :
        LET Now == IF t = "entity" THEN entities ELSE relationships
            Then == IF t = "entity" THEN entities' ELSE relationships' IN
        \A x \in Now, y \in Then :
            x.id = y.id /\ ~Visible(x) /\ Visible(y) => reinforced' = Append(reinforced, <<t, x.id>>)
      ]_<<entities, relationships>>

Times(seq, x) == Cardinality({k \in DOMAIN seq : seq[k] = x})

\* reinforcement_events never tells of a reinforcement that was not: the row was
\* there and had been restored before the event was written.
LogTellsTruth == \A x \in Range(log) : Times(log, x) <= Times(reinforced, x)

\* A context answer is put together from three statements, between which rows
\* age, go and come.  As long as its focus is still there, a list of entities
\* that was read and not cut holds the focus and whatever is in sight at the far
\* end of a relation the answer lists, in every order of the statements and the
\* index run.
ContextWhole ==
    [][(req.at = "ents" /\ answer'.is = "context" /\ answer'.ents.text = "whole"
            /\ req.focus \in Ids(entities)) =>
          /\ req.focus \in answer'.ents.rows
          /\ \A r \in answer'.rels.rows, e \in entities :
                e.id \in {r.from, r.to} /\ Visible(e) => e.id \in answer'.ents.rows]_req

\* Half-lives pass, and a row nobody reinforces any more goes out of sight.
VisibleRow(t, id) ==
    \E r \in IF t = "entity" THEN entities ELSE relationships : r.id = id /\ Visible(r)
RowsFade == \A t \in Tables : \A id \in 1..MaxRows[t] : VisibleRow(t, id) ~> ~VisibleRow(t, id)
================================================================================
