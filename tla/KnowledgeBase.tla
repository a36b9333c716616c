----------------------------- MODULE KnowledgeBase -----------------------------
(***************************************************************************)
(* Index runs over the entity store: `krul index` (index_cmd.zig,          *)
(* plugin_runner.zig), the indexer plugin it spawns (plugin_main.c), and   *)
(* the statements of db.c that delete and insert entities and relations.   *)
(*                                                                         *)
(* A run collects the source files, deletes what the store holds of each,  *)
(* spawns the plugin, and then three parties work at once: the writer      *)
(* thread feeds paths to the plugin, the plugin turns each file into       *)
(* records, the run ingests the records.  Both pipes between them are      *)
(* bounded.  Every statement commits on its own, so runs (one by hand, one *)
(* queued by a git hook) interleave statement by statement, while files    *)
(* are edited and runs and plugins die.                                    *)
(***************************************************************************)
EXTENDS Integers, Sequences, FiniteSets, SequencesExt

CONSTANTS
    Names,          \* what entities are called: kind and name
    Lines,          \* where in its file an entity may be: line_start
    Contents,       \* what each file may contain: [file -> set of Seq(Record)]
    Walk,           \* the paths under search_dirs, in the order of the walk
    Runs,           \* index processes that may be active at once
    StdinCap,       \* paths the plugin's stdin pipe holds
    StdoutCap,      \* records its stdout pipe holds
    MaxRuns,        \* bound: runs started
    MaxEdits,       \* bound: edits of files
    MaxFaults,      \* bound: deaths and failed statements
    Absent          \* the content of a file that does not exist

Files == DOMAIN Contents
Paths == Range(Walk)
Disks ==
    {d \in [Files -> (UNION {Contents[f] : f \in Files}) \cup {Absent}] :
        \A f \in Files : d[f] \in Contents[f] \cup {Absent}}

\* The records of plugin_schema.json; an invalid one stands for every line
\* that krl_validate_record refuses.
Record ==
    [type : {"entity"}, name : Names, line : Lines]
        \cup [type : {"relation"}, from : Names, to : Names]
        \cup [type : {"invalid"}]

\* A record as the plugin sends it: of which file, and which of its records.
Item == [path : Paths, nth : Nat, rec : Record]

\* A path is a file reached through one of search_dirs.
ASSUME WalkAssumption ==
    Walk \in Seq([dir : STRING, file : Files]) /\ IsInjective(Walk)
ASSUME ContentsAssumption ==
    \A f \in Files : \A c \in Contents[f] : c \in Seq(Record) /\ c # Absent
ASSUME BoundsAssumption ==
    /\ {StdinCap, StdoutCap} \subseteq Nat \ {0}
    /\ {MaxRuns, MaxEdits, MaxFaults} \subseteq Nat

VARIABLES
    disk,           \* the files
    entities,       \* rows of the entities table
    relations,      \* rows of the relationships table
    next_id,        \* the entities' BIGSERIAL
    run,            \* the processes of each run, with their pipes
    runs, edits, faults,    \* how often each happened, for the bounds
    dirty,          \* history: the runs that an edit or a fault may have misled
    trust           \* history: undisturbed runs ended since the last of those

storeVars == <<entities, relations, next_id>>
countVars == <<runs, edits, faults>>
historyVars == <<dirty, trust>>
vars == <<disk, storeVars, run, countVars, historyVars>>

IdleRun ==
    [pc |-> "idle",         \* what the run is about to do
     files |-> <<>>,        \* the paths it collected
     deleted |-> 0,         \* of how many of them it has deleted the entities
     written |-> 0,         \* how many of them its writer thread has written
     read |-> 0,            \* how many of them the plugin has read
     plugin |-> "none",     \* the plugin's process
     out |-> <<>>,          \* records of the file the plugin is working on
     pipe |-> <<>>,         \* the plugin's stdout
     from |-> 0, to |-> 0]  \* the endpoints of a relation, once resolved

Idle == \A i \in Runs : run[i].pc = "idle"

\* An edit or a fault: the runs now active may leave the store wrong, and so
\* may a run that starts while one of them is active.
Disturb ==
    /\ trust' = 0
    /\ dirty' = [i \in Runs |-> run'[i].pc # "idle"]

-----------------------------------------------------------------------------
Init ==
    /\ disk \in Disks
    /\ entities = {} /\ relations = {} /\ next_id = 1
    /\ run = [i \in Runs |-> IdleRun]
    /\ runs = 0 /\ edits = 0 /\ faults = 0
    /\ dirty = [i \in Runs |-> FALSE]
    /\ trust = 0

\* Someone writes, changes or removes a file.
Edit(f, c) ==
    /\ edits < MaxEdits
    /\ c # disk[f]
    /\ edits' = edits + 1
    /\ disk' = [disk EXCEPT ![f] = c]
    /\ UNCHANGED <<storeVars, run, runs, faults>>
    /\ Disturb

-----------------------------------------------------------------------------
\* What the walk of search_dirs has found after n of the paths.
Found[n \in 0..Len(Walk)] ==
    IF n = 0 THEN <<>>
    ELSE IF disk[Walk[n].file] = Absent THEN Found[n - 1]
    ELSE Append(Found[n - 1], Walk[n])

\* plugin_runner.run: a run that finds nothing returns before it deletes
\* anything.
Collect(i) ==
    /\ run[i].pc = "idle" /\ runs < MaxRuns
    /\ runs' = runs + 1
    /\ LET found == Found[Len(Walk)] IN
       IF found = <<>>
       THEN UNCHANGED <<run, dirty>>
       ELSE /\ run' = [run EXCEPT ![i].pc = "delete", ![i].files = found]
            /\ dirty' = [dirty EXCEPT ![i] = \E j \in Runs : dirty[j]]
    /\ UNCHANGED <<disk, storeVars, edits, faults, trust>>

\* krl_entities_delete_file on the next path; relations go ON DELETE CASCADE.
DeleteFileNoCascade(i) ==
    /\ run[i].pc = "delete" /\ run[i].deleted < Len(run[i].files)
    /\ entities' = {e \in entities : e.path # run[i].files[run[i].deleted + 1]}
    /\ run' = [run EXCEPT ![i].deleted = @ + 1]
    /\ UNCHANGED <<disk, relations, next_id, countVars, historyVars>>
DeleteFile(i) ==
    /\ run[i].pc = "delete" /\ run[i].deleted < Len(run[i].files)
    /\ LET gone == {e \in entities : e.path = run[i].files[run[i].deleted + 1]}
           ids == {e.id : e \in gone} IN
       /\ entities' = entities \ gone
       /\ relations' = {r \in relations : {r.from, r.to} \cap ids = {}}
    /\ run' = [run EXCEPT ![i].deleted = @ + 1]
    /\ UNCHANGED <<disk, next_id, countVars, historyVars>>

\* Every path deleted: fork the plugin and start the writer thread.
SpawnEarly(i) ==
    /\ run[i].pc = "delete" /\ run[i].deleted >= Len(run[i].files) - 1
    /\ run' = [run EXCEPT ![i].pc = "ingest", ![i].plugin = "running"]
    /\ UNCHANGED <<disk, storeVars, countVars, historyVars>>
Spawn(i) ==
    /\ run[i].pc = "delete" /\ run[i].deleted = Len(run[i].files)
    /\ run' = [run EXCEPT ![i].pc = "ingest", ![i].plugin = "running"]
    /\ UNCHANGED <<disk, storeVars, countVars, historyVars>>

\* The writer thread.  It blocks on a full pipe; once the plugin is gone its
\* writes fail and are ignored.
WriterWrite(i) ==
    /\ run[i].plugin # "none" /\ run[i].written < Len(run[i].files)
    /\ run[i].plugin = "running" => run[i].written - run[i].read < StdinCap
    /\ run' = [run EXCEPT ![i].written = @ + 1]
    /\ UNCHANGED <<disk, storeVars, countVars, historyVars>>

-----------------------------------------------------------------------------
\* The records of the file at a path; a file that is gone yields none.
Emitted(path) ==
    LET content == IF disk[path.file] = Absent THEN <<>> ELSE disk[path.file] IN
    [k \in DOMAIN content |-> [path |-> path, nth |-> k, rec |-> content[k]]]

\* The plugin opens the next file and turns it into records.
PluginRead(i) ==
    /\ run[i].plugin = "running" /\ run[i].out = <<>>
    /\ run[i].read < run[i].written
    /\ run' = [run EXCEPT ![i].read = @ + 1,
                          ![i].out = Emitted(run[i].files[run[i].read + 1])]
    /\ UNCHANGED <<disk, storeVars, countVars, historyVars>>

\* It blocks on a full stdout pipe.
PluginWrite(i) ==
    /\ run[i].plugin = "running" /\ run[i].out # <<>>
    /\ Len(run[i].pipe) < StdoutCap
    /\ run' = [run EXCEPT ![i].pipe = Append(@, Head(run[i].out)), ![i].out = Tail(@)]
    /\ UNCHANGED <<disk, storeVars, countVars, historyVars>>

\* End of file on stdin: the writer has closed it and every path was read.
PluginExit(i) ==
    /\ run[i].plugin = "running" /\ run[i].out = <<>>
    /\ run[i].read = Len(run[i].files)
    /\ run' = [run EXCEPT ![i].plugin = "exited"]
    /\ UNCHANGED <<disk, storeVars, countVars, historyVars>>

-----------------------------------------------------------------------------
\* A line of the plugin is at hand.
ReadingAfterWriting(i) ==
    run[i].pc = "ingest" /\ run[i].pipe # <<>> /\ run[i].written = Len(run[i].files)
Reading(i) == run[i].pc = "ingest" /\ run[i].pipe # <<>>

\* The record the run is working on, and the end of the work on it.
Line(i) == Head(run[i].pipe)
Consume(i) ==
    run' = [run EXCEPT ![i].pipe = Tail(@), ![i].pc = "ingest", ![i].from = 0, ![i].to = 0]

\* A line krl_validate_record refuses.
SkipInvalid(i) ==
    /\ Reading(i) /\ Line(i).rec.type = "invalid"
    /\ Consume(i)
    /\ UNCHANGED <<disk, storeVars, countVars, historyVars>>

\* UNIQUE (project_id, kind, name, file_path, line_start)
SameKey(e, g) == e.name = g.name /\ e.path = g.path /\ e.line = g.line

\* krl_entity_insert: ON CONFLICT DO NOTHING, where a conflict is the same kind
\* and name at the same line of the same path.
IngestEntity(i) ==
    /\ Reading(i) /\ Line(i).rec.type = "entity"
    /\ LET row == [id |-> next_id, name |-> Line(i).rec.name,
                   path |-> Line(i).path, line |-> Line(i).rec.line] IN
       IF \E e \in entities : SameKey(e, row)
       THEN UNCHANGED <<entities, next_id>>
       ELSE entities' = entities \cup {row} /\ next_id' = next_id + 1
    /\ Consume(i)
    /\ UNCHANGED <<disk, relations, countVars, historyVars>>

\* The ids that SELECT id ... WHERE name = $3 LIMIT 1 may return.
Rows(name) == {e.id : e \in {x \in entities : x.name = name}}

\* krl_relation_insert, first SELECT; without a row the relation is dropped.
ResolveFrom(i) ==
    /\ Reading(i) /\ Line(i).rec.type = "relation"
    /\ LET found == Rows(Line(i).rec.from) IN
       IF found = {} THEN Consume(i)
       ELSE \E id \in found : run' = [run EXCEPT ![i].pc = "to", ![i].from = id]
    /\ UNCHANGED <<disk, storeVars, countVars, historyVars>>

\* Its second SELECT.
ResolveToSameFile(i) ==
    /\ run[i].pc = "to"
    /\ LET found == {e.id : e \in {x \in entities : /\ x.name = Line(i).rec.to
                                                     /\ x.path = Line(i).path}} IN
       IF found = {} THEN Consume(i)
       ELSE \E id \in found : run' = [run EXCEPT ![i].pc = "insert", ![i].to = id]
    /\ UNCHANGED <<disk, storeVars, countVars, historyVars>>
ResolveToFrom(i) ==
    /\ run[i].pc = "to"
    /\ LET found == Rows(Line(i).rec.from) IN
       IF found = {} THEN Consume(i)
       ELSE \E id \in found : run' = [run EXCEPT ![i].pc = "insert", ![i].to = id]
    /\ UNCHANGED <<disk, storeVars, countVars, historyVars>>
ResolveTo(i) ==
    /\ run[i].pc = "to"
    /\ LET found == Rows(Line(i).rec.to) IN
       IF found = {} THEN Consume(i)
       ELSE \E id \in found : run' = [run EXCEPT ![i].pc = "insert", ![i].to = id]
    /\ UNCHANGED <<disk, storeVars, countVars, historyVars>>

\* Its INSERT: refused when an endpoint is gone (the foreign keys), a no-op
\* when the relation is there (ON CONFLICT DO NOTHING).
InsertRelationUnchecked(i) ==
    /\ run[i].pc = "insert"
    /\ relations' = relations \cup {[from |-> run[i].from, to |-> run[i].to]}
    /\ Consume(i)
    /\ UNCHANGED <<disk, entities, next_id, countVars, historyVars>>
InsertRelation(i) ==
    /\ run[i].pc = "insert"
    /\ IF {run[i].from, run[i].to} \subseteq {e.id : e \in entities}
       THEN relations' = relations \cup {[from |-> run[i].from, to |-> run[i].to]}
       ELSE UNCHANGED relations
    /\ Consume(i)
    /\ UNCHANGED <<disk, entities, next_id, countVars, historyVars>>

\* End of file on the plugin's stdout; join the writer, reap the plugin.
Finish(i) ==
    /\ run[i].pc = "ingest" /\ run[i].pipe = <<>>
    /\ run[i].plugin = "exited" /\ run[i].written = Len(run[i].files)
    /\ run' = [run EXCEPT ![i] = IdleRun]
    /\ dirty' = [dirty EXCEPT ![i] = FALSE]
    /\ trust' = IF dirty[i] \/ trust = 2 THEN trust ELSE trust + 1
    /\ UNCHANGED <<disk, storeVars, countVars>>

-----------------------------------------------------------------------------
\* The plugin crashes, or could not be executed; what it had written to the
\* pipe is still read.
PluginDies(i) ==
    /\ faults < MaxFaults /\ run[i].plugin = "running"
    /\ faults' = faults + 1
    /\ run' = [run EXCEPT ![i].plugin = "exited", ![i].out = <<>>]
    /\ Disturb
    /\ UNCHANGED <<disk, storeVars, runs, edits>>

\* The index process dies, or gives up on an error; its plugin reads end of
\* file or fails to write, and what it still does reaches nobody.
Kill(i) ==
    /\ faults < MaxFaults /\ run[i].pc # "idle"
    /\ faults' = faults + 1
    /\ run' = [run EXCEPT ![i] = IdleRun]
    /\ Disturb
    /\ UNCHANGED <<disk, storeVars, runs, edits>>

\* PostgreSQL fails a statement: a deletion's result is ignored, a record that
\* cannot be ingested is counted and skipped.
StatementFails(i) ==
    /\ faults < MaxFaults
    /\ faults' = faults + 1
    /\ \/ /\ run[i].pc = "delete" /\ run[i].deleted < Len(run[i].files)
          /\ run' = [run EXCEPT ![i].deleted = @ + 1]
       \/ /\ run[i].pc \in {"to", "insert"} \/ (Reading(i) /\ Line(i).rec.type # "invalid")
          /\ Consume(i)
    /\ Disturb
    /\ UNCHANGED <<disk, storeVars, runs, edits>>

-----------------------------------------------------------------------------
IndexStep(i) ==
    \/ DeleteFile(i) \/ Spawn(i) \/ SkipInvalid(i) \/ IngestEntity(i)
    \/ ResolveFrom(i) \/ ResolveTo(i) \/ InsertRelation(i) \/ Finish(i)
PluginStep(i) == PluginRead(i) \/ PluginWrite(i) \/ PluginExit(i)

Next ==
    \/ \E f \in Files : \E c \in Contents[f] \cup {Absent} : Edit(f, c)
    \/ \E i \in Runs :
        \/ Collect(i) \/ IndexStep(i) \/ WriterWrite(i) \/ PluginStep(i)
        \/ PluginDies(i) \/ Kill(i) \/ StatementFails(i)

Spec == Init /\ [][Next]_vars

\* The scheduler runs the process, its writer thread and the plugin; nothing
\* makes a run start, a file change or a fault happen.
FairSpec ==
    /\ Spec
    /\ \A i \in Runs :
        WF_vars(IndexStep(i)) /\ WF_vars(WriterWrite(i)) /\ WF_vars(PluginStep(i))

-----------------------------------------------------------------------------
\* No relation outlives its endpoints, whatever is deleted between the SELECTs
\* of krl_relation_insert and its INSERT; no two rows share an id, or a name, a
\* path and a line, and ids are given out once.
StoreIntegrity ==
    /\ \A e \in entities : e.id \in 1..next_id - 1
    /\ \A e, g \in entities : (e.id = g.id \/ SameKey(e, g)) => e = g
    /\ \A r \in relations : {r.from, r.to} \subseteq {e.id : e \in entities}

RunStates ==
    [pc : {"idle", "delete", "ingest", "to", "insert"}, plugin : {"none", "running", "exited"},
     files : Seq(Paths), deleted : Nat, written : Nat, read : Nat,
     out : Seq(Item), pipe : Seq(Item), from : Nat, to : Nat]

\* Every variable has its type, and the store its integrity.
TypeOK ==
    /\ StoreIntegrity
    /\ disk \in Disks
    /\ entities \in SUBSET [id : Nat, name : Names, path : Paths, line : Lines]
    /\ relations \in SUBSET [from : Nat, to : Nat]
    /\ next_id \in Nat \ {0}
    /\ run \in [Runs -> RunStates]
    /\ \A i \in Runs :
        /\ run[i].deleted <= Len(run[i].files)
        /\ run[i].read <= run[i].written /\ run[i].written <= Len(run[i].files)
        /\ Len(run[i].pipe) <= StdoutCap
        /\ run[i].from < next_id /\ run[i].to < next_id
    /\ runs \in 0..MaxRuns /\ edits \in 0..MaxEdits /\ faults \in 0..MaxFaults
    /\ dirty \in [Runs -> BOOLEAN] /\ trust \in 0..2

\* What the files on disk state, and the order in which a run reads it.
Stated == UNION {Range(Emitted(p)) : p \in Paths}
Rank(path) == CHOOSE w \in DOMAIN Walk : Walk[w] = path
Before(s, t) ==
    \/ Rank(s.path) < Rank(t.path)
    \/ s.path = t.path /\ s.nth < t.nth

Emits(s, name) == s.rec.type = "entity" /\ s.rec.name = name
Wired(from, to) ==
    \E r \in relations, e, g \in entities :
        r.from = e.id /\ r.to = g.id /\ e.name = from /\ g.name = to

\* Once an undisturbed run has ended and no run is active, the store shows of
\* each file on disk exactly the entities the file has, each where the file has
\* it, although runs delete and insert each other's rows: nothing is left of
\* where an entity was before an edit.
CleanRunShowsFiles ==
    Idle /\ trust > 0 =>
        \A p \in Paths : disk[p.file] # Absent =>
            {<<e.name, e.line>> : e \in {x \in entities : x.path = p}} =
            {<<s.rec.name, s.rec.line>> : s \in {x \in Stated : x.path = p /\ x.rec.type = "entity"}}

\* A relation stated after both its endpoints is in the store after an
\* undisturbed run, although another run may have deleted its endpoints while
\* it was being inserted.
OrderedRelationsWired ==
    Idle /\ trust > 0 =>
        \A s \in Stated :
            (/\ s.rec.type = "relation"
             /\ \E t \in Stated : Before(t, s) /\ Emits(t, s.rec.from)
             /\ \E t \in Stated : Before(t, s) /\ Emits(t, s.rec.to))
            => Wired(s.rec.from, s.rec.to)

\* After an undisturbed run a stored relation that touches a file on disk is
\* one that some file on disk states: re-indexing forgets withdrawn ones.
RelationsTrue ==
    Idle /\ trust > 0 =>
        \A r \in relations, e, g \in entities :
            (/\ r.from = e.id /\ r.to = g.id
             /\ disk[e.path.file] # Absent \/ disk[g.path.file] # Absent)
            => [type |-> "relation", from |-> e.name, to |-> g.name]
                    \in {s.rec : s \in Stated}

\* Every run ends: the bounded pipes between the run, its writer thread and
\* the plugin never leave all three waiting, and a dead plugin stops no run.
EveryRunEnds == \A i \in Runs : run[i].pc # "idle" ~> run[i].pc = "idle"

\* db.h:54-56: a relation whose endpoint came later in the run is dropped,
\* but "a follow-up index will wire them".
FollowUpWires ==
    Idle /\ trust = 2 =>
        \A s \in Stated :
            (/\ s.rec.type = "relation"
             /\ \E t \in Stated : Emits(t, s.rec.from)
             /\ \E t \in Stated : Emits(t, s.rec.to))
            => Wired(s.rec.from, s.rec.to)

\* docs/plugin_contract.md:183: "Stale cleanup - handled automatically": after
\* an undisturbed run nothing is stored of a file that is gone.
NoGhosts == Idle /\ trust > 0 => \A e \in entities : disk[e.path.file] # Absent
=============================================================================
