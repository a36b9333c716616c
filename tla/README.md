# A formal model of krul

krul is a daemon (Zig) with a PostgreSQL store (C, libpq) that runs queued
tasks, answers queries about indexed source code, runs gears (pipelines of LLM
calls and shell commands) and calls plugins. This directory models its core in
TLA+: TLC checks the modules on small instances, TLAPS proves the main results
for every instance. Paths below are relative to the repository's root.

## The system

| component | state it keeps | operations | behaviour that is hard | model |
|---|---|---|---|---|
| task queue (`src/zig/queue.zig`, `ipc.zig`, the `tasks` functions of `db.c`) | `g_tasks`, `g_next_id`, the spin lock `g_mu`, the `tasks` table | `task.submit`, `index`, `status`, `task.list`; the executor's claim, run, finish, hook and record | two threads, indexes used across unlocks, a lock that an error leaves held, a table updated behind the list's back, restarts | `TaskQueue` |
| indexer (`plugin_runner.zig`, `index_cmd.zig`, the ingestion part of `db.c`) | `entities`, `relationships`, the files on disk | `krul index`: collect, delete, spawn, validate, ingest | two index runs at once, edits meanwhile, a plugin or a run that dies, records in an order that loses relations | `KnowledgeBase` |
| record validation (`validate.c`) | none | load the ontology, check a line | two programs with a table of kinds each | `RecordValidation`, `Extract` |
| tokenizer, inference (`tok.c`, `infer.c`, `plugin_main.c`, `index.c`) | tables | encode, decode, label spans, print records | limits of buffers, a search in a sorted table, off-by-ones in span loops | `Tokenizer`, `Extract` |
| entity store queries and evaporation (`query.zig`, `db.c`) | `strength`, `last_reinforced_at`, `reinforcement_events` | `query`, `coverage_gaps`, `context`, `reinforce` | decay at read time against re-indexing, reinforcement of a row that was just replaced, answers made of several statements | `Evaporation` |
| kanban (`plugins/kanban.zig`, kanban part of `db.c`) | `kanban_tasks`, `kanban_events`, `kanban_task_links` | add, list, get, move, link | a move and its event are two statements; stamps computed by cases | `Kanban` |
| gears: executor, hooks, gate (`executor.zig`, `hooks.zig`) | the outputs of a run | `gear.run`, the gate | outputs that survive an iteration, failing stages, the gate failing closed | `GearExecutor` |
| gears: files, registry, router (`gear.zig`, `gear_registry.zig`, `router.zig`) | the loaded gears and the embeddings of their triggers | `gear.find`, `router.classify` | the three tiers of routing, an encoder that is not there | `GearRequests` (not the parser) |
| encode server (`embed_runner.zig`, `run_encode_server` in `plugin_main.c`) | two pipes, the child's state | `start`, `encode`, `stop` | requests and answers that must stay in step, a child that dies, an answer that never comes | `EncodeServer` |
| daemon life cycle (`daemon.zig`, `cli.zig`) | pid file, socket, process | `start`, `stop`, `status` | two starts, a stop that races a start, stale files | `DaemonLifecycle` |
| LLM client (`llm.zig`) | none between calls | `call`, `callParallel` | I/O | none |
| configuration, setup, command line, plugin manifests | none | parse | pure parsing | none |
| Python training and evaluation, tools | none | batch scripts | none | none |

The IPC thread calls into everything: it appends to the queue, calls the query
wrappers, runs gears synchronously, and routes `kanban.*` to the plugin. The
executor thread shares with it the list of tasks (under `g_mu`) and the one
libpq connection `g_db` (under nothing). A queued `index` task runs `krul
index` as a child process with a connection of its own, so an index run
interleaves with the daemon and with an index run started by hand. The encode
server is a child of the daemon, the extractor plugin a child of the index run,
the gate script and the commands are children of whoever runs them.

## Modules

| module | models |
|---|---|
| `TaskService` | what a client is promised about its tasks (abstract) |
| `TaskQueue` | the two threads, the lock, the list, the table (detailed) |
| `KnowledgeBase` | index runs, their plugins and the entity store |
| `Tokenizer` | `tok.c` as operators |
| `RecordValidation` | `validate.c` and `krl_ingest_record` as operators |
| `Extract` | the way of one file through tokenizer, labels, plugin, validation into the store |
| `Connection` | the IPC thread with one database request in hand |
| `Kanban`, `Evaporation` | the requests to the board and to the entity store, over `Connection` |
| `DaemonLifecycle` | start, stop and status over pid file and socket |
| `DaemonTables` | composes the three of them |
| `EncodeServer` | both ends of the encoder's pipes |
| `GearExecutor` | a gear's stages, iterations, gate and hooks |
| `GearRequests` | composes the last two with routing |
| `MCKnowledgeBase`, `MCExtract`, `MCDaemonTables`, `MCGearRequests` | the instances TLC checks |
| `TaskQueueProofs`, `KnowledgeBaseProofs`, `ExtractProofs`, `NameProofs`, `EncodingProofs`, `DaemonProofs`, `GearProofs` | the proofs |
| `SetInduction` | induction without operator parameters, and what the proofs need of sequences |

Four systems share no variable, because in the code they share none that the
properties are about: `TaskQueue` runs `krul index` as a command whose result it
sees; an index process (`KnowledgeBase`) has a connection of its own;
`DaemonTables` and `GearRequests` are both on the IPC thread, which serves one
request to its end before the next. What `Evaporation` needs of an index run,
deleting and inserting rows at any moment, it has as actions of its own.

### TaskQueue

A variable is a variable of the code under its own name (`g_tasks`,
`g_next_id`, `g_db`; `mu` is `g_mu`), a local of one of the threads (`ipc_id` is
`id` in `dispatch`; `ex_idx`, `ex_id`, `ex_result`, `ex_final`, `ex_slice`,
`ex_tail` are `idx`, `task_id`, the result of `krl_exec_shell`, `final_state`,
`stdout_slice` and `tail_z` in `executor_loop`), a program counter, or the `tasks` table (`rows`). Only
`ran` and `fired` (commands run and notifications fired) and the field `by` of
a row are history: no guard reads them.

An action is what a thread does between two points where the other one can
interfere:

| code | actions |
|---|---|
| `dispatch`, up to `mu_lock` | `IpcAccept`, `IpcLock` |
| `task.submit`, `index` (`ipc.zig:71-98`, `132-146`) | `IpcTakeId`, `IpcAppend` or `IpcAppendFails`, `IpcInsert`, `IpcInserted` |
| `status`, `task.list` (`ipc.zig:45-59`, `108-125`) | `IpcRead` |
| `executor_loop` (`queue.zig:65-130`) | `ExWake`, `ExLock`, `ExClaim` or `ExClaimNothing`, `ExFetch`, `ExStart`, `ExStarted`, `ExExec`, `ExFinish`, `ExHook`, `ExRecord`, `ExRecorded` |
| the process dies, `krul start` | `Restart` |

A libpq call is two actions, so that two calls on the connection can overlap.
A statement changes the row it should or, having failed, nothing; each caller
ignores the result, and so does the model. `index` inserts no row, as in the
code. A row's position in `rows` is its `BIGSERIAL` id; the model starts with
an empty table and gives a failed insert no id, which only makes the two
numberings agree more often than they do. What libpq does when two threads are
inside it is undefined; the model lets each statement take effect or not, and
`Restart` covers a crash.

Abstracted: command texts and outputs, time stamps, the formatting of answers,
requests that touch neither the queue nor the table. Of an output it matters
only whether it is the task's own: `stdout_slice` points into the list, and the
executor copies from it after it has released the lock (`queue.zig:107`, `121`).
An append in between may move the list (`Relocate`); the copy then holds the old
bytes or any others. A read that crashes the daemon is a `Restart`.

Properties of `TaskQueue`:

- `MutualExclusion`: the critical sections of the two threads never overlap. They
  hold every access to the list but the one of `queue.zig:121`, which is what the
  next property is about.
- `NewestTailIsOwn`: that access loses an output to an append at most. The row
  that tells of the end of the newest task holds what its command printed;
  for the others that is refuted (`FinishedRowHasItsOutput`, run `queue_tail`).
- `WorkedInOrder`, `CommandsRunOnce`: the queue is worked off in the order of
  submission, every command once.
- `HookTellsOutcome`: every finished task is announced once, in order, with the
  outcome the list has.
- `AlignedRowNeverAhead`: a row that has its task's id never claims more
  progress than the task has made.
- `StatusNeverGoesBack`: successive `status` answers are monotone.
- `ImplementsService`: without its threads, the queue is a `TaskService`.
- `EveryTaskFinishes`, `EveryRequestAnswered`: liveness.
- `IInv`: the inductive invariant the proofs rest on; proved, not part of a run.

### KnowledgeBase

`run[i]` is one `krul index` process with its writer thread, its plugin and
their pipes; `entities` and `relations` are the tables; `disk` is what each
source file says now. A path is a file reached through one of `search_dirs`;
the store compares paths, never files. `dirty` and `trust` are history: an edit
or a fault makes the active runs dirty, and `trust` counts the undisturbed runs
that ended since. A run that starts while a dirty one is active is dirty too.

| code | actions |
|---|---|
| `run`: walk, deletions (`plugin_runner.zig:46-71`, `db.c:235-246`) | `Collect`, `DeleteFile` |
| fork, writer thread (`plugin_runner.zig:79-139`) | `Spawn`, `WriterWrite` |
| the plugin (`plugin_main.c:91-154`, `236-249`) | `PluginRead`, `PluginWrite`, `PluginExit` |
| `processLine`, `krl_ingest_record` (`plugin_runner.zig:189-209`, `db.c:208-292`, `334-379`) | `SkipInvalid`, `IngestEntity`, `ResolveFrom`, `ResolveTo`, `InsertRelation` |
| end of file, join, reap (`plugin_runner.zig:173-187`) | `Finish` |
| the developer; failures | `Edit`; `PluginDies`, `Kill`, `StatementFails` |

Every statement is an action, because `db.c` never opens a transaction. `LIMIT
1` without `ORDER BY` returns any matching row. A pipe counts paths or records,
not bytes. The plugin is the one of the contract: it answers a file with the
file's records, in order, and ends at end of file; the shipped one emits
entities only, others emit relations too. Writing to a dead plugin fails and is
ignored (Zig's start code ignores `SIGPIPE`). An entity is stored once for its
key (`SameKey`): kind and name, which `Names` tells apart together, path and
line. An edit that moves an entity gives it another key, so two runs around such
an edit may leave two rows for one name and path, until a run that is undisturbed
deletes the file's rows. Abstracted: the columns no statement reads; the walk is
one step; record texts and the rules of `krl_validate_record` (a refused line is
the record `invalid`).

Properties of `KnowledgeBase`:

- `CleanRunShowsFiles`: after an undisturbed run, each file on disk has exactly
  its entities in the store, each at the line it has now, whatever other runs
  deleted and inserted.
- `OrderedRelationsWired`: a relation stated after both its endpoints is there.
- `RelationsTrue`: what is there was stated by some file on disk.
- `EveryRunEnds`: the bounded pipes never leave everyone waiting.
- `TypeOK` includes the integrity of the store: no relation without endpoints,
  no two rows for one name, path and line.

### Tokenizer, RecordValidation, Extract

`Extract` takes one file through the shipped extractor into the store. Text is
a sequence of bytes, so that spans, limits and quotes mean something. An action
is one round of a loop of the program:

| code | definitions |
|---|---|
| `krl_tok_load`, `main` (`tok.c:129-295`, `plugin_main.c:192-234`) | `krl_tok_load`, `Wild`, `Start` |
| `krl_tok_encode` (`tok.c:315-418`) | `CollectWord`, `Merge`, `EmitWord`, `Eos`; `BpeNodes`, `bpe_best_merge`, `MergeNodes` |
| `krl_ner_run` (`infer.c`) | `Ner`: any labels, or an error |
| `index_file` (`plugin_main.c:91-154`) | `Open`, `SkipToken`, `PrintSpan`; `SpanEnd`, `find_line`, `json_escape`, `krl_tok_decode` |
| `processLine`, `krl_validate_record`, `krl_ingest_record` | `Ingest`; the operators of `RecordValidation` |
| another extractor | `OtherExtractor`: any lines |
| `krl_index_file` (`index.c`) | an operator, which the plugin is compared with |

A source file is its text up to the first NUL, since the code treats it as a C
string; an empty text is a file of no bytes, which the plugin skips, or one that
starts with a NUL, which it does not (`Open`). What the ONNX model says is arbitrary: every labelling of the tokens from a set
of labels. Scores, confidence and error messages are left out. The block of
token strings is modelled by what it does: `Wild` tells when growing it moves
strings that pointers were already taken to, and a use of one then crashes the
plugin (`CollectWord`), which is one outcome of undefined behaviour; the other
outcomes are not modelled, and `PluginFinishes` excludes such vocabularies.

Properties: `EncodingIsBpe` (what `krl_tok_encode` returns, by binary search and
repeated scans, is what byte-pair encoding defines: every merge of the file, in its
order, from left to right, applied to the letters of each word behind the space
marker; a string the vocabulary lacks is UNK; the text is cut to the places
between BOS and EOS. It is about words that fit `bpe_buf` and tables as training
makes them, `Trained`: no pair twice, and each merge makes a token that no merge
up to it has used); `EntityAsWritten` (the stored name is the text of the span as the
vocabulary spells it: whole, unless `name[128]` is too small, and nothing of the
next token; its line is not below the span); `StoredIsDeclared` (nothing undeclared is ever stored, and
the plugin's own table of kinds agrees with the ontology; its part `RowsDeclared`
is the one about any extractor); `MatchesInProcess` (plugin and daemon store what
`krl_index_file` would: the two copies of the span loop agree); `PluginFinishes`.

`InputsAssumption`, `OntologyAssumption` and `SizesAssumption` say what the two
tokenizer files, an ontology file, a source file and the buffers can be.
`Shipped` says of the vocabulary and the ontology what the shipped ones are: no
control characters in a token, and every label's kind declared with the label's
partition. `PlainPath` says that `json_escape` leaves the path as it is, and
`Spelling` what training makes of the two tokenizer files: an id has one string,
and the result of a merge the strings of its two parts. `MCExtract` has TLC
evaluate the three of them.

### Connection, Kanban, Evaporation, DaemonLifecycle, DaemonTables

`req` is the request in hand and the statement it is at. Each statement is an
action, because `db.c` opens no transaction; it may fail; between two of them
the index process writes, half-lives pass and the daemon may be killed.
`served`, the number of requests, is also the clock of the time stamps. In
`Kanban`, an id is a position in `tasks`, each task with its events, and
`unlogged` remembers that an event failed. In `Evaporation`, the age of a row in
half-lives stands for `last_reinforced_at`, and `Strength` computes what the
SQL computes from it; `reinforced` (rows updated) is history. Answers are printed
into buffers of fixed size (`rels[16384]` and `ents[16384]` of a context, `out` of
a query) and cut there without a word: `ListRoom` and `OutRoom` say how many rows
fit however long they are, and more rows than that are there in full or cut
anywhere (`Texts`).

| code | actions |
|---|---|
| `handle_connection`, `dispatch`; a kill | `Accept`, `Answer`; `Die`, `BoardDies` |
| `krl_kanban_add`, `_move` (`db.c:716-739`, `788-813`) | `AddTask`, `AddEvent`; `MoveTask`, `MoveEvent` |
| `krl_kanban_get`, `_list`, `_link` | `GetTask`, `ListTasks`, `LinkTasks` |
| `reinforce_row`, `krl_log_reinforcement` (`db.c:834-941`) | `Reinforce`, `LogReinforcement` |
| `query`, `coverage_gaps` | `Query` |
| `krl_gothos_get_context` (`db.c:559-`) | `FindFocus`, `ContextRelations`, `ContextEntities` |
| the index process; the clock | `DeleteFile`, `InsertEntity`, `InsertRelation`; `Tick` |
| `cmd_start` (`daemon.zig:17-105`) | `Start`, `CreatePidFile`, `WritePidFile`, `DeleteSocket`, `Bind` |
| `cmd_stop`, `cmd_status` (`daemon.zig:107-157`) | `ReadPidFile`, `StopKill`, `StopDelete`; `StatusProbe`, `StatusConnect`, `StatusReply` |
| a daemon that dies | `Crash` |

In `DaemonLifecycle` each step of a daemon that others can see is an action, and
so is each of a command, in any number of terminals; a pid may be given out
again. A daemon whose pid file was deleted while it wrote it writes into a file
without a name (`detached`). `inTurn` and `unharmed` are history. What is loaded
between the pid file and the socket is one stage.

Properties:

- `EventsReplay`, `StampsMatchEvents`, `StartedOnce`: the audit trail replays
  the board, and the stamps, which are computed by cases, agree with it.
- `OnlyReinforcementRevives`: a faded row comes back into sight in no other way
  (`query.zig:154`), neither by a query nor by an index run that meets it.
- `LogTellsTruth`: `reinforcement_events` tells of no reinforcement that was not.
- `ContextWhole`: as long as the focus of a context is in the store, a list of
  entities that was neither cut nor lost with its statement has the focus and every
  visible end of the relations listed, whatever an index run and the clock did
  between the three statements.
- `RowsFade`: a row that is not reinforced goes out of sight.
- `OwnDaemonInTurn`: who starts a daemon when none runs and no command is under
  way gets one that is alone and owns both files, whatever was left of others.
- `RaceLeavesOneReachable`: starts that race leave a daemon clients reach.
- `BoardTypeOK`, `EvapTypeOK`: types, keys and foreign keys.

### EncodeServer, GearExecutor, GearRequests

`EncodeServer` has the two pipes as sequences of lines and replies, what the
daemon believes (`running`) and whether the child lives (`alive`). `GearExecutor`
has the locals of `run` (`executor.zig:47-`): `iteration`, `stage`, `outputs`,
`last`. A text stands for what made it, `<<iteration, stage>>`, so that a stale
one can be told. In a prompt `{input}` and `{context}` are what the request says,
also when a stage has that id (`Given`). `fired`, `verdict` and `ran` are history. `GearRequests` is the
IPC thread: it loads the embeddings of all triggers, then routes each request by
its three tiers and runs the gear.

| code | actions |
|---|---|
| `start`, `loadEmbeddings` (`embed_runner.zig`, `gear_registry.zig`) | `Start`, then the actions of `encode` |
| `encode`, `markDead` | `Write`, `Read`, `EncoderGone`, `NotRunning` |
| `run_encode_server` (`plugin_main.c:156-190`) | `Encoder`; `Death` |
| `classify`, `gear.run` (`router.zig`, `ipc.zig`) | `Request`, `AnswerGear` |
| `run`, `runStage`, `gateProcess`, `checkTermination` | `RunModel`, `RunCondition`, `RunProcess`, `AskGate`, `RunShell`, `EndIteration` |

The cosine of two embeddings is a given table. A text is one line: requests come
as one line of at most 8192 bytes, and a trigger longer than the 8192 bytes of
the encoder's `fgets` buffer is not modelled. `GearsAssumption` excludes a gear
without stages, for which `g.stages.len - 1` underflows (`executor.zig:78`).

Properties: `AnswersInStep` (each reply the daemon takes is to the text it sent,
`plugin_main.c:158`); `GateFailsClosed` (`hooks.zig:48`); `PromptsFresh` (no
prompt mixes iterations); `HooksTellRun`, `ResultIsLastSuccess` (hooks, reason
and result tell the same run); `EveryRequestAnswered`.

## Runs

| run | instance | shows |
|---|---|---|
| `queue` | 2 tasks, 1 restart, appends may fail | type correctness, mutual exclusion, order, once-only execution, hooks, rows, outputs, status answers, refinement |
| `queue_liveness` | 2 tasks, appends may fail, fairness | tasks finish and requests are answered |
| `queue_connection` | 1 task | both threads are inside libpq on one connection (`db.h:10-11` forbids it) |
| `queue_rows` | 2 tasks | a row shows the progress of another task than its own |
| `queue_tail` | 2 tasks | the row of a finished task holds bytes that are not its output |
| `store` | 2 processes, 3 runs, 1 edit, 1 fault, 2 files | an undisturbed run makes the store show the files, among runs that interleave with it |
| `pipes` | 1 process, 2 runs, 1 edit, 1 fault, 4 paths, pipes of 1 | every run ends |
| `store_forward` | 1 process, 2 runs, no edit | a relation to an entity read later is never stored |
| `store_ghosts` | 1 process, 2 runs, 1 edit | entities of a removed file stay |
| `extract` | every table of up to three merges of two letters, words of up to four; every labelling of files of up to five tokens; files that do not load; pairs of lines of other extractors | tokens, names, lines and records are right, the plugin ends |
| `tables` | 4 requests to the board or 2 to a store of an agent and its covergroup, or 3 starts, 2 pids, 2 terminals and a crash | audit trail, stamps, log, decay, contexts, pid file and socket |
| `gears` | 4 gears, 3 requests, 8 texts, 1 death of the encoder | routing, protocol, gate, hooks, results, answers |

Bounds. Two tasks let one run while the other waits, is claimed next or is
being appended. One
restart puts rows of a former daemon under ids the new one uses again; a second
would add nothing a first does not. The number of requests is not bounded, only
that of queued tasks. Deadlock is not checked, since a
failed append leaves the lock held and both threads stop for good: the code
does that (`ipc.zig:74` leaves `dispatch` by `try` between `mu_lock` and
`mu_unlock`). The liveness properties except exactly that state, `LockLost`.

Three index runs let two interleave after a third has filled the store; one edit
makes stored rows stale, or moves an entity to another line; one fault interrupts any run anywhere. Two files, each
of which may change its entities or vanish, are the least that state a relation
across files. Pipes of one element block as soon as they can, and four paths are
the least with which a run that wrote them all before it read would hang.
Deadlock is not checked: when the bound on runs is used up, nothing is left to
do.

In `extract` every limit is small enough to be met: a text of seven ids with BOS
and EOS, a word of eight nodes, a name of four bytes. Two letters and three
merges are the least with which a merge makes a pair that an earlier or a later
one wants. Deadlock is not checked: the plugin stops at the end of its input.

In `tables` four requests move a task out of a status and back to it with an
event lost on the way; two requests to the store are a query and a
reinforcement of what it showed, with an index run that replaces the row
between them (three ids of each table). One half-life makes a row invisible,
and `MaxAge` is where rows look alike. Only one entity is sure to fit a list, so
the agent and its covergroup may be cut; the instance has one edge, so lists of
relations are cut only in what is proved. Three starts on two pids are a race of
two and a third that gets the pid of a dead one; two terminals let two stops, or
a stop and a status, overlap. Clients and operators are checked one group at a
time, because they share no table or file.

In `gears` three requests let a reply left over by the first meet the second and
the third. The gears loop with stages that read each other's output, iterate
until one command succeeds, end with a condition or may not iterate. Deadlock is
not checked: an empty text stops the daemon for good (below), and the bound on
requests ends every other behaviour.

Fairness. `WF` on each thread's own steps: the scheduler runs both threads,
database calls return, commands end. A command that never ends stops the
executor, in the code as in the model; the assumption excludes it. `SF` on
taking the lock, because a compare-and-swap loop is not a queue: a spinning
thread is only known to succeed if the lock is free again and again. Between
two of its critical sections each thread makes a system call (a sleep, an
accept, a `popen`), so the other one does find it free; with weak fairness the
properties fail. In `pipes`, `WF` on the index process, its writer thread and
the plugin: the scheduler runs each, and statements return. No run has to start
and no fault has to happen. In `extract`, `WF` on plugin and daemon. In `tables`,
`WF` on time alone: half-lives pass, nothing else has to happen. In `gears`, `WF`
on the daemon (commands, models and the gate script end) and on the encoder (it
takes the line it is given); it need not die, and an answer that never comes is
part of the property: an empty line has none.

## What disagrees with the repository's own words

- `queue_connection`: `db.h:10-11` says not to share a `KrlDb` across threads;
  `g_db` is shared by the executor and the IPC thread without a lock.
- `queue_rows`: the executor updates the row whose `BIGSERIAL` id equals the
  in-memory id of its task, while the id `krl_task_insert` returns is dropped
  (`ipc.zig:97-98`). After an `index` request, a failed insert or a restart the
  two numberings differ and a row shows another task's progress.
- `queue_tail`: `krl_task_done` takes the task's `stdout_tail` (`db.h:25-26`,
  `001_init.sql:63`); the executor copies it from a slice of the list it took
  under the lock (`queue.zig:107`) and uses without it (`121`). An append
  (`ipc.zig:74`, `135`) may have moved the list and freed that memory.
- `store_forward`: `db.h:54-56` says a follow-up index wires the relations a run
  dropped; it deletes the endpoints of all of them first and drops them again.
- `store_ghosts`: `docs/plugin_contract.md:183` says stale entities are cleaned
  up; those of a removed file are not.

Seen while modelling, and not the subject of a run:

- `docs/plugin_contract.md:182` promises deduplication; the default `search_dirs`
  reach `rtl/f` also as `./rtl/f`, and its entities are stored under both paths.
- `db.h:125-126` says the focus of a context is always included. It is looked
  up in one statement and read in another (`db.c:563`, `605`); when an index run
  deletes its file in between, the answer is given without it (`ContextEntities`).
- `db.h:94-95` says the functions write a JSON string or return -1. `snprintf`
  cuts the lists of a context at 16384 bytes (`db.c:593`, `622`), and the function
  returns 0 (`Texts`).
- `plugin_main.c:158-160` says the encoder always sends one response per
  request; an empty line gets none, and the daemon, which reads without a
  timeout, waits until the encoder dies. `EveryRequestAnswered` excepts exactly
  that state.
- `query.zig:154-156` says reinforcement is the only way strength moves up. For a
  row it is; an index run deletes the row and inserts its entity anew, with full
  strength and another id.
- Two starts at once can leave the pid file naming the daemon that exited, while
  the other serves: `stop` then fails on a pid nobody has, and leaves the file.
- `README.md:247` draws the board's statuses as a sequence and `README.md:336`
  counts nine; there are eight, and `krl_kanban_move` allows every move.
- `kanban.move` of a task that is not there tries its event and then answers
  with `null`; an event that fails is noticed by nobody.
- `docs/plugin_contract.md:192` says the socket is configurable by `KRUL_SOCK`;
  the daemon's path is a constant (`queue.zig:7`).
- `on_max` of a gear is parsed and never used.
- A byte that is not printable ASCII is two bytes in the alphabet of the tokens,
  and `krl_tok_decode` (`tok.c:431-456`) does not map it back: the name of such an
  entity is stored as the alphabet spells it (`Spelled`), and `find_line`, which
  looks for that in the file, as a rule finds nothing and gives line 1.

## Proofs

| module | theorem | establishes | for all |
|---|---|---|---|
| `TaskQueueProofs` | `TypeCorrect`, `InvariantHolds` | `TypeOK`, `IInv` | tasks, restarts, memory failing or not |
| | `MutualExclusionHolds`, `WorkedInOrderHolds`, `CommandsRunOnceHolds`, `HookTellsOutcomeHolds`, `AlignedRowNeverAheadHolds`, `NewestTailIsOwnHolds` | the invariants of `queue` | |
| | `StatusNeverGoesBackHolds`, `QueueImplementsService` | `StatusNeverGoesBack`, `Spec => Service!Spec` | |
| `KnowledgeBaseProofs` | `StoreTyped` | `TypeOK`, with the integrity of the store | files, contents, walks, pipes, processes, edits, faults |
| | `RunsShowFiles`, `RunsWireRelations`, `RunsForgetRelations` | `CleanRunShowsFiles`, `OrderedRelationsWired`, `RelationsTrue` | |
| `ExtractProofs` | `BuffersHold`, `RowsAreDeclared` | `TypeOK`, `RowsDeclared` | tokenizer files, texts, labellings, lines, buffers |
| | `PluginIsAccepted` | `StoredIsDeclared`, given `Shipped` | |
| | `CopiesAgree` | `MatchesInProcess`, given `Shipped` and `PlainPath` | |
| `NameProofs` | `NamesAsWritten` | `EntityAsWritten`, given `Shipped` and `Spelling` | |
| `EncodingProofs` | `TokensAreBpe` | `EncodingIsBpe` | |
| `DaemonProofs` | `BoardTyped`, `AuditTrail`, `StampsTrue`, `FirstRunKept` | `BoardTypeOK`, `EventsReplay`, `StampsMatchEvents`, `StartedOnce` | words, requests, failures, deaths |
| | `DaemonOwnsItsFiles`, `RaceLeavesOne` | `OwnDaemonInTurn`, `RaceLeavesOneReachable` | pids, terminals, starts, crashes |
| | `StoreKeys`, `LogTrue`, `ContextsWhole`, `RevivesOnlyReinforced` | `EvapTypeOK`, `LogTellsTruth`, `ContextWhole`, `OnlyReinforcementRevives` | names, projects, edges, thresholds |
| `GearProofs` | `GearsTyped`, `ProtocolInStep`, `GateHolds`, `PromptsAreFresh`, `HooksTell`, `ResultTold` | `TypeOK`, `AnswersInStep`, `GateFailsClosed`, `PromptsFresh`, `HooksTellRun`, `ResultIsLastSuccess` | gears, texts, scores, deaths |
| `SetInduction` | `RecursionUpTo` | a sequence of steps has a value after each of them | |

Assumed is what the modules assume of their constants: bounds are numbers
(`BoundsAssumption`, `RequestsAssumption`, `SizesAssumption`,
`TokenizerAssumption`); the walk finds a path once (`WalkAssumption`); a file's
contents are records (`ContentsAssumption`); the floor of strength is below the
threshold of visibility, which `config.zig`'s defaults are and nothing enforces
(`DecayAssumption`); buffers hold some rows, or none (`RoomAssumption`); pids
(`PidsAssumption`); a gear has stages, and those have types (`GearsAssumption`);
tokenizer files, source files and ontology have the form they are read in
(`InputsAssumption`, `OntologyAssumption`). `SizesAssumption` also has what the
sizes in the code satisfy: an escaped name of the greatest length fits
`esc_name`, and that fits the daemon's field. The three theorems about the shipped
plugin name `Shipped`, `PlainPath` and `Spelling` as their hypotheses, since
another vocabulary, merge table, ontology or path refutes them. No theorem uses fairness.

None of the properties is inductive. What is added to each:

- Queue: `IInv` adds what each thread may rely on at each point: who holds the
  lock (`LockInv`), that the claimed index is in the list (`IndexInv`), that ids
  are positions (`IdInv`), that the list is what ran, then the task the executor
  owns, then what waits (`WorkInv`), that the hooks lag by at most the task just
  finished (`HookInv`), where a row's task is (`RowInv`), and that a slice into
  memory the list has left means a task was queued behind the claimed one
  (`TailInv`). `TypeOK` itself
  needs `IndexInv`: the executor reads the list at an index it found earlier.
  Each part has a lemma of its own that uses the parts before it. With it, the
  counts of a status answer are the lengths of stretches of the list (`Begun`,
  `Finished`), which only grow.
- Index runs: `StoreInv`. Its first part, `FeedInv`, is about a run alone: the
  lines it has yet to ingest are in the order of files and records (`SortedInv`);
  a run is misled together with all that are active (`EraInv`); one that is not
  has walked the files that are there and reads what they say (`ReadInv`). The
  others hold while the store is in the hands of undisturbed runs (`Sure`), and
  relate a row to what a run still *owes*: a record that it has yet to delete for,
  to read or to ingest (`Owes`). An entity on disk is stored or owed
  (`CompleteInv`), and who owes a record owes all that follow it (`OwesOn`): that
  is why another run's deletion between two statements of this one does no harm.
  A row of a file whose deletion a run has been through is one the file has
  (`SoundInv`); a relation at such a row is one a file states (`TrueInv`); a
  relation after its endpoints is stored, or owed by a run that has found no end
  which is gone since (`WiredInv`, with `EndsInv`: the ids found are those of the
  names).
- Extract: `PluginInv` says where the loops are (`TextInv`: a token's place is in
  the text, a word fits its buffer), what each line says (`LineInv`), and that
  lines and spans before the current token are the same, in order (`SpanInv`):
  the plugin's loop finds a span by walking on, `krl_index_file`'s by definition.
  `RowsInv` and `TakenInv` (the store holds the rows of the lines read, none was
  refused) follow the daemon. That no name changes on the way over JSON
  (`NameSurvives`) rests on what `json_escape` does to each byte, by induction
  over the name.
- Names: the binary search finds only pairs that the merge file has
  (`LookupFinds`), so a merge replaces two nodes by one that says what they said,
  and the nodes of a word cover its text, up to where `bpe_buf` ends (`WordInv`).
  The tokens emitted follow one another (`ChainInv`): each is the text from its
  place to the place of the next, or to where its word was cut. A span within a
  word is then the text between two places (`TextsJoin`), and what `name[128]`
  takes of it ends at a token (`NameIs`).
- Tokens: where the tokens end is where BPE is up to. `EncodeInv` says that between
  words the program has what is due for the text before `p`, as far as it fits
  (`Cut`), and within a word, where there is room, what is due is the tokens it has
  and the BPE of the nodes. The program merges the pair of lowest rank at its
  leftmost place and starts again, the definition takes the merges in the order
  of the file, each at all its places; that a step of the one does not change
  what the other makes of the word is `MergeStep`. In it, the pair the program
  takes is the leftmost match of the first merge that has any (`BestIs`), since
  the table is sorted and the search finds in it every pair it has
  (`LookupComplete`); the merges before it had no match and get none, because
  the new token is part of no earlier merge (`FreeStays`); this merge makes the
  same of the word before and after (`ApplyFirst`); and so do the later ones, which
  are given the same. When the program finds no pair, no merge has a match
  (`BpeNone`). The words themselves are found by walking on in the program and
  by their ends in the definition (`WordDue`).
- Board: between a row and its event the properties say nothing of the task, so
  the invariant counts the event that is still to come among the past ones
  (`Past`), and says of the request that its status is the task's (`RequestInv`).
- Store: ids are below the sequence's next one (`IntegrityInv`, `KeyInv`); a
  reinforcement that is not logged yet is owed to the log (`Owed`), which is how
  counts of two sequences are related; a relation that a context found is still
  there if its two ends are, and an id that is gone never comes back
  (`ContextInv`), so that the last statement finds the ends by relations that the
  one before it listed.
  For `OnlyReinforcementRevives`, an older row is never stronger
  (`OlderIsFainter`), by induction over the halvings.
- Life cycle: while a daemon started in turn lives, no command is about to
  delete the pid file, and one about to connect has its pid (`OwnInv`); of the
  daemons at the socket one has it or will bind it (`RaceInv`).
- Gears: a gear is in hand from its first stage to its answer (`HandInv`), and the
  embeddings loaded and to load are none or all triggers (`RouteInv`), which is
  what the types need; with the pipes, at most one of line and reply is there, and only while
  the daemon reads (`ProtocolInv`); at a command, the verdict is on that command
  (`GateInv`); each output has the iteration its place before or after the
  current stage says (`FreshInv`); the hooks so far fill the places of the stages
  that ended, the last stage's output is what its hook says, and the result is
  that of the latest success before this iteration (`AccountInv`).

What a recursive function or a fold does for every input is proved by induction
on the set of indices at which the claim holds (`SetInduction!UpToInduction`),
not by the library's theorems, which take the claim as an operator; that a
recursive definition has values at all comes from `RecursionUpTo`. So
`FlattenSeq`, the search for a line, the escaping and the halving of strength
could be reasoned about.

Only model-checked is liveness: `EveryTaskFinishes`, `EveryRequestAnswered` of the
queue and of the gears, `EveryRunEnds`, `PluginFinishes` and `RowsFade`. The prover
has no rules for `ENABLED`, on which weak fairness rests.

## Not modelled

- The parser of gear files and directories (`gear.zig`, part of
  `gear_registry.zig`), plugin manifests, configuration, setup, `cli.zig`:
  parsing at start and printing, with no state afterwards.
- The LLM client: HTTP; a stage sees success or failure. The numbers of the ONNX
  models: given.
- `krl_index_dir`, `krl_validate_stream`, `krl_entity_get_by_id`,
  `krl_entity_strength` and its like, `embed_runner.stop`: nothing calls them.
- Texts: command lines, outputs, titles, prompts' wording, error messages; `LIMIT` and the
  order of listings; filters of queries by kind and name.
- Python scripts and tools: batch programs outside the daemon.

## Plan

Routing and the parser of gear files against a reference definition.
