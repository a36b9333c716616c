------------------------------- MODULE TaskQueue -------------------------------
(***************************************************************************)
(* The daemon's task queue (src/zig/queue.zig), the requests of ipc.zig    *)
(* that use it, and the rows of the tasks table that mirror it (db.c).     *)
(*                                                                         *)
(* Two threads share the queue: the IPC thread, which serves one connection*)
(* at a time, and the executor, which runs one command at a time.  Each    *)
(* action below is what a thread does between two points where the other   *)
(* can interfere: taking the spin lock, a critical section, a statement on *)
(* the database connection, the run of a command.  Any moment may be the   *)
(* daemon's last: Restart is a kill (or crash) followed by a new start.    *)
(***************************************************************************)
EXTENDS Integers, Sequences, FiniteSets

CONSTANTS
    MaxTasks,       \* bound: tasks queued by one daemon process
    MaxRestarts,    \* bound: restarts of the daemon
    OutOfMemory     \* whether growing the list of tasks may fail

ASSUME BoundsAssumption ==
    /\ MaxTasks \in Nat
    /\ MaxRestarts \in Nat
    /\ OutOfMemory \in BOOLEAN

VARIABLES
    mu,             \* g_mu: which thread holds the lock, or "free"
    g_tasks,        \* g_tasks.items, which never shrinks
    g_next_id,      \* the id the next task gets
    g_db,           \* whether the daemon could open its database
    ipc_pc,         \* what the IPC thread is about to do
    ipc_req,        \* the request it serves
    ipc_id,         \* the id it took for the task it is queueing
    ex_pc,          \* what the executor is about to do
    ex_idx,         \* idx: where in g_tasks its task is
    ex_id,          \* task_id
    ex_result,      \* what krl_exec_shell returned for it
    ex_final,       \* final_state
    ex_slice,       \* where stdout_slice points: "nowhere" yet, into the "list",
                    \* or into memory the list has left ("freed")
    ex_tail,        \* tail_z: what was copied from there for krl_task_done
    rows,           \* the tasks table; a row's position is its BIGSERIAL id
    epoch,          \* how many times the daemon was restarted
    status,         \* the last answer to a status request
    ran,            \* history: the ids of the commands this process ran
    fired           \* history: the on_task_complete notifications it fired

queueVars == <<g_tasks, g_next_id>>
ipcVars   == <<ipc_pc, ipc_req, ipc_id, status>>
exTail    == <<ex_slice, ex_tail>>
exVars    == <<ex_pc, ex_idx, ex_id, ex_result, ex_final, exTail>>
history   == <<ran, fired>>
vars == <<mu, queueVars, g_db, ipcVars, exVars, rows, epoch, history>>

-----------------------------------------------------------------------------
Terminal  == {"done", "failed"}
TaskState == {"pending", "running"} \cup Terminal

\* What krl_exec_shell can return: the command exits, with 0 or another code
\* (1 stands for them); it dies by a signal (0, -1); popen fails (-1, -1).
ExecResult == [ok : {0}, code : {-1, 0, 1}] \cup [ok : {-1}, code : {-1}]

Request  == {"submit", "index", "status", "list"}
Queueing == {"submit", "index"}

\* Where each thread stands: waiting for the lock, inside a critical section,
\* or inside a libpq call.
IpcCritical == {"held", "append"}
ExCritical  == {"claiming", "fetching", "finishing"}
IpcInDb     == {"inserting"}
ExInDb      == {"starting", "recording"}

IpcPc == {"accept", "lock", "insert"} \cup IpcCritical \cup IpcInDb
ExPc  == {"sleep", "claim", "fetch", "start", "exec", "finish", "hook",
          "record"} \cup ExCritical \cup ExInDb

\* The critical section a thread enters from each point where it spins.
Critical == [claim |-> "claiming", fetch |-> "fetching", finish |-> "finishing"]

\* What tail_z can hold: nothing yet, what the task's command printed, or
\* whatever else the memory it is copied from holds by then.
TailText == {"none", "own", "other"}

NoStatus == [total |-> 0, pending |-> 0, running |-> 0]

\* The lock was left behind by a request that ran out of memory.
LockLost == mu = "ipc" /\ ipc_pc \notin IpcCritical

Count(s) == Cardinality({i \in 1..Len(g_tasks) : g_tasks[i].state = s})

-----------------------------------------------------------------------------
\* A daemon process as daemon.zig starts it.  The database may be unreachable,
\* and then the queue lives in memory only.
Init ==
    /\ mu = "free"
    /\ g_tasks = <<>>
    /\ g_next_id = 1
    /\ g_db \in BOOLEAN
    /\ ipc_pc = "accept"
    /\ ipc_req = "status"
    /\ ipc_id = 0
    /\ ex_pc = "sleep"
    /\ ex_idx = 0
    /\ ex_id = 0
    /\ ex_result = [ok |-> 0, code |-> 0]
    /\ ex_final = "pending"
    /\ ex_slice = "nowhere"
    /\ ex_tail = "none"
    /\ rows = <<>>
    /\ epoch = 0
    /\ status = NoStatus
    /\ ran = <<>>
    /\ fired = <<>>

\* The process dies wherever its threads are, and krul start makes a new one:
\* the memory is gone, the table is what the server has.
Restart ==
    /\ epoch < MaxRestarts
    /\ epoch' = epoch + 1
    /\ mu' = "free"
    /\ g_tasks' = <<>>
    /\ g_next_id' = 1
    /\ g_db' \in BOOLEAN
    /\ ipc_pc' = "accept"
    /\ ipc_req' = "status"
    /\ ipc_id' = 0
    /\ ex_pc' = "sleep"
    /\ ex_idx' = 0
    /\ ex_id' = 0
    /\ ex_result' = [ok |-> 0, code |-> 0]
    /\ ex_final' = "pending"
    /\ ex_slice' = "nowhere"
    /\ ex_tail' = "none"
    /\ status' = NoStatus
    /\ ran' = <<>>
    /\ fired' = <<>>
    /\ UNCHANGED rows

-----------------------------------------------------------------------------
(* The tasks table: what each statement of db.c does on the server.  Every *)
(* statement may also fail and change nothing, and every caller ignores it.*)

\* krl_task_insert: a new row, under the next BIGSERIAL id.  params holds the
\* command, so the row is about the task of that command.
InsertRow(id) ==
    rows' = Append(rows, [epoch |-> epoch, task |-> id, state |-> "pending",
                          by |-> [epoch |-> epoch, task |-> id], tail |-> "none"])

\* UPDATE tasks SET state = s WHERE id = $1: no row, no error.  krl_task_done
\* and krl_task_fail set stdout_tail as well, krl_task_start does not.  `by`
\* records whose progress the row now shows.
UpdateRow(id, s, tail) ==
    rows' = IF id \in DOMAIN rows
            THEN [rows EXCEPT ![id] =
                     [@ EXCEPT !.state = s, !.by = [epoch |-> epoch, task |-> ex_id],
                               !.tail = IF tail = "none" THEN rows[id].tail ELSE tail]]
            ELSE rows

-----------------------------------------------------------------------------
(* The IPC thread: dispatch in ipc.zig.                                    *)

\* A connection is accepted and its request read.  A request that queues a
\* task has copied its command before it takes the lock.
IpcAccept(req) ==
    /\ ipc_pc = "accept"
    /\ req \in Queueing => Len(g_tasks) < MaxTasks
    /\ ipc_req' = req
    /\ ipc_pc' = "lock"
    /\ UNCHANGED <<mu, queueVars, g_db, ipc_id, status, exVars, rows, epoch, history>>

\* MUTANT: the IPC thread enters its critical section without the lock.
IpcLockUnguarded ==
    /\ ipc_pc = "lock"
    /\ mu' = "ipc"
    /\ ipc_pc' = "held"
    /\ UNCHANGED <<queueVars, g_db, ipc_req, ipc_id, status, exVars, rows, epoch, history>>

\* mu_lock: the compare-and-swap that ends the spinning.
IpcLock ==
    /\ ipc_pc = "lock"
    /\ mu = "free"
    /\ mu' = "ipc"
    /\ ipc_pc' = "held"
    /\ UNCHANGED <<queueVars, g_db, ipc_req, ipc_id, status, exVars, rows, epoch, history>>

IpcTakeId ==
    /\ ipc_pc = "held"
    /\ ipc_req \in Queueing
    /\ ipc_id' = g_next_id
    /\ g_next_id' = g_next_id + 1
    /\ ipc_pc' = "append"
    /\ UNCHANGED <<mu, g_tasks, g_db, ipc_req, status, exVars, rows, epoch, history>>

\* A list that outgrows its memory is copied to a new place and the old one is
\* freed.  What points into it goes on pointing there.
Relocate == ex_slice = "list" /\ ex_slice' = "freed"

\* MUTANT: the list says what the answer to an index request says, "queued".
IpcAppendQueued ==
    /\ ipc_pc = "append"
    /\ g_tasks' = Append(g_tasks, [id |-> ipc_id, state |-> "queued", code |-> 0])
    /\ Relocate \/ UNCHANGED ex_slice
    /\ mu' = "free"
    /\ ipc_pc' = IF ipc_req = "submit" /\ g_db THEN "insert" ELSE "accept"
    /\ UNCHANGED <<g_next_id, g_db, ipc_req, ipc_id, status, ex_pc, ex_idx, ex_id, ex_result,
                   ex_final, ex_tail, rows, epoch, history>>

\* The task joins the list, which may move, and the lock is released.  An index request is
\* answered at once; a submitted task is inserted in the database first, if
\* there is one.
IpcAppend ==
    /\ ipc_pc = "append"
    /\ g_tasks' = Append(g_tasks, [id |-> ipc_id, state |-> "pending", code |-> 0])
    /\ Relocate \/ UNCHANGED ex_slice
    /\ mu' = "free"
    /\ ipc_pc' = IF ipc_req = "submit" /\ g_db THEN "insert" ELSE "accept"
    /\ UNCHANGED <<g_next_id, g_db, ipc_req, ipc_id, status, ex_pc, ex_idx, ex_id, ex_result,
                   ex_final, ex_tail, rows, epoch, history>>

\* `try` leaves dispatch when the list cannot grow: the client is told of the
\* error, the id is spent, and nothing releases the lock.
IpcAppendFails ==
    /\ OutOfMemory
    /\ ipc_pc = "append"
    /\ ipc_pc' = "accept"
    /\ UNCHANGED <<mu, queueVars, g_db, ipc_req, ipc_id, status, exVars, rows, epoch, history>>

\* MUTANT: the lists are counted without the task that is running.
IpcReadStale ==
    /\ ipc_pc = "held"
    /\ ipc_req \notin Queueing
    /\ status' = IF ipc_req = "status"
                 THEN [total |-> Len(g_tasks) - Count("running"),
                       pending |-> Count("pending"), running |-> Count("running")]
                 ELSE status
    /\ mu' = "free"
    /\ ipc_pc' = "accept"
    /\ UNCHANGED <<queueVars, g_db, ipc_req, ipc_id, exVars, rows, epoch, history>>

\* status counts the tasks in the critical section and answers after it; list
\* formats them inside it, and releases the lock on every way out (defer).
IpcRead ==
    /\ ipc_pc = "held"
    /\ ipc_req \notin Queueing
    /\ status' = IF ipc_req = "status"
                 THEN [total |-> Len(g_tasks), pending |-> Count("pending"),
                       running |-> Count("running")]
                 ELSE status
    /\ mu' = "free"
    /\ ipc_pc' = "accept"
    /\ UNCHANGED <<queueVars, g_db, ipc_req, ipc_id, exVars, rows, epoch, history>>

IpcInsert ==
    /\ ipc_pc = "insert"
    /\ ipc_pc' = "inserting"
    /\ UNCHANGED <<mu, queueVars, g_db, ipc_req, ipc_id, status, exVars, rows, epoch, history>>

\* The id the server chose comes back in db_id, which nobody reads.
IpcInserted ==
    /\ ipc_pc = "inserting"
    /\ InsertRow(ipc_id) \/ UNCHANGED rows
    /\ ipc_pc' = "accept"
    /\ UNCHANGED <<mu, queueVars, g_db, ipc_req, ipc_id, status, exVars, epoch, history>>

-----------------------------------------------------------------------------
(* The executor thread: executor_loop in queue.zig.                        *)

ExWake ==
    /\ ex_pc = "sleep"
    /\ ex_pc' = "claim"
    /\ UNCHANGED <<mu, queueVars, g_db, ipcVars, ex_idx, ex_id, ex_result, ex_final,
                   exTail, rows, epoch, history>>

ExLock ==
    /\ ex_pc \in DOMAIN Critical
    /\ mu = "free"
    /\ mu' = "ex"
    /\ ex_pc' = Critical[ex_pc]
    /\ UNCHANGED <<queueVars, g_db, ipcVars, ex_idx, ex_id, ex_result, ex_final,
                   exTail, rows, epoch, history>>

\* MUTANT: the scan for a pending task starts at the end of the list.
IsLastPending(i) ==
    /\ g_tasks[i].state = "pending"
    /\ \A j \in (i + 1)..Len(g_tasks) : g_tasks[j].state # "pending"

\* The task at which the scan of the list stops.
IsFirstPending(i) ==
    /\ g_tasks[i].state = "pending"
    /\ \A j \in 1..(i - 1) : g_tasks[j].state # "pending"

ExClaim ==
    /\ ex_pc = "claiming"
    /\ \E i \in 1..Len(g_tasks) :
          /\ IsFirstPending(i)
          /\ g_tasks' = [g_tasks EXCEPT ![i] = [@ EXCEPT !.state = "running"]]
          /\ ex_idx' = i
    /\ ex_pc' = "fetch"
    /\ mu' = "free"
    /\ UNCHANGED <<g_next_id, g_db, ipcVars, ex_id, ex_result, ex_final, exTail, rows,
                   epoch, history>>

\* MUTANT: the early `continue` forgets to release the lock.
ExClaimNothingLocked ==
    /\ ex_pc = "claiming"
    /\ \A i \in 1..Len(g_tasks) : g_tasks[i].state # "pending"
    /\ ex_pc' = "sleep"
    /\ UNCHANGED <<mu, queueVars, g_db, ipcVars, ex_idx, ex_id, ex_result, ex_final,
                   exTail, rows, epoch, history>>

ExClaimNothing ==
    /\ ex_pc = "claiming"
    /\ \A i \in 1..Len(g_tasks) : g_tasks[i].state # "pending"
    /\ ex_pc' = "sleep"
    /\ mu' = "free"
    /\ UNCHANGED <<queueVars, g_db, ipcVars, ex_idx, ex_id, ex_result, ex_final,
                   exTail, rows, epoch, history>>

\* MUTANT: without a database the claimed task is left alone.
ExFetchNeedsDb ==
    /\ ex_pc = "fetching"
    /\ ex_id' = g_tasks[ex_idx].id
    /\ ex_pc' = IF g_db THEN "start" ELSE "sleep"
    /\ mu' = "free"
    /\ UNCHANGED <<queueVars, g_db, ipcVars, ex_idx, ex_result, ex_final, exTail, rows,
                   epoch, history>>

\* The lock is taken again to read the claimed task's command and id.
ExFetch ==
    /\ ex_pc = "fetching"
    /\ ex_id' = g_tasks[ex_idx].id
    /\ ex_pc' = IF g_db THEN "start" ELSE "exec"
    /\ mu' = "free"
    /\ UNCHANGED <<queueVars, g_db, ipcVars, ex_idx, ex_result, ex_final, exTail, rows,
                   epoch, history>>

ExStart ==
    /\ ex_pc = "start"
    /\ ex_pc' = "starting"
    /\ UNCHANGED <<mu, queueVars, g_db, ipcVars, ex_idx, ex_id, ex_result, ex_final,
                   exTail, rows, epoch, history>>

\* krl_task_start
ExStarted ==
    /\ ex_pc = "starting"
    /\ UpdateRow(ex_id, "running", "none") \/ UNCHANGED rows
    /\ ex_pc' = "exec"
    /\ UNCHANGED <<mu, queueVars, g_db, ipcVars, ex_idx, ex_id, ex_result, ex_final,
                   exTail, epoch, history>>

\* krl_exec_shell, from popen to pclose: the only step that may take long.
ExExec ==
    /\ ex_pc = "exec"
    /\ ex_result' \in ExecResult
    /\ ran' = Append(ran, ex_id)
    /\ ex_pc' = "finish"
    /\ UNCHANGED <<mu, queueVars, g_db, ipcVars, ex_idx, ex_id, ex_final, exTail, rows,
                   epoch, fired>>

FinalState(r) == IF r.ok = 0 /\ r.code = 0 THEN "done" ELSE "failed"

\* MUTANT: a failed task goes back into the queue.
ExFinishRetry ==
    /\ ex_pc = "finishing"
    /\ g_tasks' = [g_tasks EXCEPT ![ex_idx] =
                      [id |-> @.id, code |-> ex_result.code,
                       state |-> IF FinalState(ex_result) = "done"
                                 THEN "done" ELSE "pending"]]
    /\ ex_final' = FinalState(ex_result)
    /\ ex_slice' = "list"
    /\ ex_pc' = "hook"
    /\ mu' = "free"
    /\ UNCHANGED <<g_next_id, g_db, ipcVars, ex_idx, ex_id, ex_result, ex_tail, rows,
                   epoch, history>>

\* MUTANT: final_state is read back before the new state is stored.
ExFinishStale ==
    /\ ex_pc = "finishing"
    /\ g_tasks' = [g_tasks EXCEPT ![ex_idx] =
                      [id |-> @.id, state |-> FinalState(ex_result), code |-> ex_result.code]]
    /\ ex_final' = g_tasks[ex_idx].state
    /\ ex_slice' = "list"
    /\ ex_pc' = "hook"
    /\ mu' = "free"
    /\ UNCHANGED <<g_next_id, g_db, ipcVars, ex_idx, ex_id, ex_result, ex_tail, rows,
                   epoch, history>>

\* The result is stored at the index found by the claim, long ago and under
\* an earlier hold of the lock.  stdout_slice, which outlives this one, points
\* into the list.
ExFinish ==
    /\ ex_pc = "finishing"
    /\ g_tasks' = [g_tasks EXCEPT ![ex_idx] =
                      [id |-> @.id, state |-> FinalState(ex_result), code |-> ex_result.code]]
    /\ ex_final' = FinalState(ex_result)
    /\ ex_slice' = "list"
    /\ ex_pc' = "hook"
    /\ mu' = "free"
    /\ UNCHANGED <<g_next_id, g_db, ipcVars, ex_idx, ex_id, ex_result, ex_tail, rows,
                   epoch, history>>

\* hooks.fire("on_task_complete", ...)
ExHook ==
    /\ ex_pc = "hook"
    /\ fired' = Append(fired, [id |-> ex_id, state |-> ex_final, code |-> ex_result.code])
    /\ ex_pc' = IF g_db THEN "record" ELSE "sleep"
    /\ ex_slice' = IF g_db THEN ex_slice ELSE "nowhere"
    /\ UNCHANGED <<mu, queueVars, g_db, ipcVars, ex_idx, ex_id, ex_result, ex_final,
                   ex_tail, rows, epoch, ran>>

\* MUTANT: tail_z is passed on as it was declared, undefined.
ExRecordUndefined ==
    /\ ex_pc = "record"
    /\ ex_tail' = "other"
    /\ ex_slice' = "nowhere"
    /\ ex_pc' = "recording"
    /\ UNCHANGED <<mu, queueVars, g_db, ipcVars, ex_idx, ex_id, ex_result, ex_final,
                   rows, epoch, history>>

\* stdout_slice is used for the last time, without the lock.  Memory that was
\* freed may hold anything by now, the old bytes among it (or be gone, and the
\* daemon with it: Restart).
ExRecord ==
    /\ ex_pc = "record"
    /\ ex_tail' \in IF ex_slice = "freed" THEN {"own", "other"} ELSE {"own"}
    /\ ex_slice' = "nowhere"
    /\ ex_pc' = "recording"
    /\ UNCHANGED <<mu, queueVars, g_db, ipcVars, ex_idx, ex_id, ex_result, ex_final,
                   rows, epoch, history>>

\* MUTANT: krl_task_done is called whatever the final state.
ExRecordedDone ==
    /\ ex_pc = "recording"
    /\ UpdateRow(ex_id, "done", ex_tail) \/ UNCHANGED rows
    /\ ex_tail' = "none"
    /\ ex_pc' = "sleep"
    /\ UNCHANGED <<mu, queueVars, g_db, ipcVars, ex_idx, ex_id, ex_result, ex_final,
                   ex_slice, epoch, history>>

\* krl_task_done if final_state is done, krl_task_fail otherwise; then tail_z
\* goes out of scope.
ExRecorded ==
    /\ ex_pc = "recording"
    /\ \/ UpdateRow(ex_id, IF ex_final = "done" THEN "done" ELSE "failed", ex_tail)
       \/ UNCHANGED rows
    /\ ex_tail' = "none"
    /\ ex_pc' = "sleep"
    /\ UNCHANGED <<mu, queueVars, g_db, ipcVars, ex_idx, ex_id, ex_result, ex_final,
                   ex_slice, epoch, history>>

-----------------------------------------------------------------------------
IpcServe == IpcLock \/ IpcTakeId \/ IpcAppend \/ IpcAppendFails \/ IpcRead
                \/ IpcInsert \/ IpcInserted

\* What the executor does between two points where it waits for the lock.
ExWork == ExWake \/ ExClaim \/ ExClaimNothing \/ ExFetch \/ ExStart \/ ExStarted
              \/ ExExec \/ ExFinish \/ ExHook \/ ExRecord \/ ExRecorded

Next ==
    \/ \E req \in Request : IpcAccept(req)
    \/ IpcServe
    \/ ExLock
    \/ ExWork
    \/ Restart

Spec == Init /\ [][Next]_vars

\* The scheduler runs both threads, statements return, and commands end.  A
\* thread that spins gets the lock if it is free again and again: the other
\* thread makes a system call between two critical sections, and a spinning
\* compare-and-swap does not miss all of those windows.
Fairness ==
    /\ WF_vars(IpcServe)
    /\ SF_vars(IpcLock)
    /\ WF_vars(ExWork)
    /\ SF_vars(ExLock)

FairSpec == Spec /\ Fairness

-----------------------------------------------------------------------------
(* Invariants                                                              *)

Task == [id : Nat, state : TaskState, code : {-1, 0, 1}]
Row  == [epoch : Nat, task : Nat, state : TaskState, by : [epoch : Nat, task : Nat],
         tail : TailText]

\* Every variable holds what its declaration in the code, or the comment on
\* it above, says it holds.
TypeOK ==
    /\ mu \in {"free", "ipc", "ex"}
    /\ g_tasks \in Seq(Task)
    /\ g_next_id \in Nat
    /\ g_db \in BOOLEAN
    /\ ipc_pc \in IpcPc
    /\ ipc_req \in Request
    /\ ipc_id \in Nat
    /\ ex_pc \in ExPc
    /\ ex_idx \in Nat
    /\ ex_id \in Nat
    /\ ex_result \in ExecResult
    /\ ex_final \in TaskState
    /\ ex_slice \in {"nowhere", "list", "freed"}
    /\ ex_tail \in TailText
    /\ rows \in Seq(Row)
    /\ epoch \in Nat
    /\ status \in [total : Nat, pending : Nat, running : Nat]
    /\ ran \in Seq(Nat)
    /\ fired \in Seq(Task)

\* The critical sections of the two threads never overlap.  This covers every
\* access to the list but one: the executor reads its task's output there once
\* more after it has released the lock (ExRecord), which is the subject of
\* NewestTailIsOwn and of FinishedRowHasItsOutput.
MutualExclusion == ~(ipc_pc \in IpcCritical /\ ex_pc \in ExCritical)

\* The queue is worked off in the order of submission, one task at a time:
\* whatever comes before a task that was claimed is finished.
WorkedInOrder ==
    \A i, j \in 1..Len(g_tasks) :
        (i < j /\ g_tasks[j].state # "pending") => g_tasks[i].state \in Terminal

\* No command is run twice, skipped or run out of order, and every finished
\* task is one whose command was run: the k-th command is that of task k.
CommandsRunOnce ==
    /\ \A k \in 1..Len(ran) : ran[k] = k /\ k <= Len(g_tasks)
    /\ \A i \in 1..Len(g_tasks) : g_tasks[i].state \in Terminal => i <= Len(ran)
    /\ \A i \in 1..Len(g_tasks) : g_tasks[i].state = "pending" => i > Len(ran)

\* on_task_complete tells of each task that finished once, in order, and says
\* of it what the list says; at most the task just finished is still untold.
HookTellsOutcome ==
    /\ \A k \in 1..Len(fired) :
          /\ k <= Len(g_tasks)
          /\ fired[k] = g_tasks[k]
    /\ \A i \in 1..Len(g_tasks) :
          g_tasks[i].state \in Terminal =>
              \/ i <= Len(fired)
              \/ i = Len(fired) + 1 /\ i = ex_idx /\ ex_pc = "hook"

\* A row that got the id its task has in memory never runs ahead of the task:
\* it calls running only what was claimed, and tells of an outcome only the
\* one the list has.
AlignedRowNeverAhead ==
    \A i \in 1..Len(rows) :
        (rows[i].epoch = epoch /\ rows[i].task = i) =>
            /\ i <= Len(g_tasks)
            /\ rows[i].state = "running" => g_tasks[i].state # "pending"
            /\ rows[i].state \in Terminal => rows[i].state = g_tasks[i].state

\* The output read outside the lock is lost to an append at most: the row that
\* tells of the end of the newest task of the list holds what it printed.
NewestTailIsOwn ==
    \A r \in 1..Len(rows) :
        /\ rows[r].state \in Terminal
        /\ rows[r].by = [epoch |-> epoch, task |-> Len(g_tasks)]
        => rows[r].tail = "own"

-----------------------------------------------------------------------------
(* The inductive invariant behind these: what each thread may rely on at   *)
(* each point, whatever the other one does.                                *)

\* From the claim to the stored result the executor owns a task.  It knows
\* the task's id from ExFetch on, and its outcome from ExFinish on.
Owning  == {"fetch", "fetching", "start", "starting", "exec", "finish", "finishing"}
Telling == {"hook", "record", "recording"}
Knowing == (Owning \ {"fetch", "fetching"}) \cup Telling
Ran     == {"finish", "finishing"}

\* A thread in a critical section holds the lock, and the executor never
\* leaves one without releasing it.
LockInv ==
    /\ ipc_pc \in IpcCritical => mu = "ipc"
    /\ ex_pc \in ExCritical <=> mu = "ex"

\* The index found by the claim stays inside the list.
IndexInv == ex_pc \in Owning \cup Telling => ex_idx \in 1..Len(g_tasks)

\* Ids are positions in the list.
IdInv ==
    /\ \A i \in 1..Len(g_tasks) : g_tasks[i].id = i
    /\ ipc_pc = "append" => ipc_id = Len(g_tasks) + 1 /\ g_next_id = ipc_id + 1
    /\ ipc_pc # "append" /\ ~LockLost => g_next_id = Len(g_tasks) + 1
    /\ ex_pc \in Knowing => ex_id = ex_idx

\* The list is what ran, then the task the executor owns, then what waits.
WorkInv ==
    /\ Len(ran) <= Len(g_tasks)
    /\ \A k \in 1..Len(ran) : ran[k] = k
    /\ ex_pc \in Owning =>
          /\ g_tasks[ex_idx].state = "running"
          /\ ex_idx = IF ex_pc \in Ran THEN Len(ran) ELSE Len(ran) + 1
    /\ ex_pc \in Telling => ex_idx = Len(ran)
    /\ \A i \in 1..Len(g_tasks) : ex_pc \notin Owning \/ i # ex_idx =>
          IF i <= Len(ran) THEN g_tasks[i].state \in Terminal
                           ELSE g_tasks[i].state = "pending"

\* What is still to be told is the task that ran last, until ExHook tells it.
HookInv ==
    /\ Len(fired) = IF ex_pc \in Ran \cup {"hook"} THEN Len(ran) - 1 ELSE Len(ran)
    /\ \A k \in 1..Len(fired) : fired[k] = g_tasks[k]
    /\ ex_pc \in Telling =>
          g_tasks[ex_idx] = [id |-> ex_id, state |-> ex_final, code |-> ex_result.code]

\* A row is about a task of this daemon, or of one before it.
RowInv ==
    /\ ipc_pc \in {"insert", "inserting"} => ipc_id \in 1..Len(g_tasks)
    /\ \A r \in 1..Len(rows) :
          /\ rows[r].epoch <= epoch
          /\ rows[r].epoch = epoch => rows[r].task \in 1..Len(g_tasks)
    /\ AlignedRowNeverAhead

\* What the executor is about to write is its task's output, unless a task was
\* queued behind that one meanwhile.
TailInv ==
    /\ ex_slice # "nowhere" => ex_pc \in {"hook", "record"}
    /\ ex_pc = "recording" <=> ex_tail # "none"
    /\ ex_pc \in Telling /\ (ex_slice = "freed" \/ ex_tail = "other") =>
          ex_idx < Len(g_tasks)
    /\ \A r \in 1..Len(rows) :
          /\ rows[r].by.epoch <= epoch
          /\ rows[r].by.epoch = epoch => rows[r].by.task <= Len(g_tasks)
    /\ NewestTailIsOwn

IInv == LockInv /\ IndexInv /\ IdInv /\ WorkInv /\ HookInv /\ RowInv /\ TailInv

-----------------------------------------------------------------------------
(* Action properties                                                       *)

\* Clients that ask for the status twice of one daemon never see the queue go
\* back: neither the number of tasks, nor that of tasks begun or finished.
StatusNeverGoesBack ==
    [][epoch' = epoch =>
          /\ status'.total >= status.total
          /\ status'.total - status'.pending >= status.total - status.pending
          /\ status'.total - status'.pending - status'.running
                 >= status.total - status.pending - status.running]_<<status, epoch>>

\* The list of tasks, seen without threads and locks, is a TaskService.
jobs == [i \in 1..Len(g_tasks) |-> g_tasks[i].state]

Service == INSTANCE TaskService WITH jobs <- jobs

ImplementsService == Service!Spec

-----------------------------------------------------------------------------
(* Liveness, under FairSpec                                                *)

\* Every queued task is finished, unless the daemon is restarted first or the
\* lock is lost: no order of the two threads leaves a task behind.
EveryTaskFinishes ==
    \A i \in 1..MaxTasks, e \in 0..MaxRestarts :
        (epoch = e /\ i <= Len(g_tasks))
            ~> \/ epoch # e
               \/ LockLost
               \/ i <= Len(g_tasks) /\ g_tasks[i].state \in Terminal

\* Every request is answered, unless the lock was lost to an earlier one.
EveryRequestAnswered == ipc_pc # "accept" ~> (ipc_pc = "accept" \/ LockLost)

-----------------------------------------------------------------------------
(* What the repository says, and the code does not do                      *)

\* db.h:10: "do NOT share one KrlDb across threads".  The one connection of
\* the daemon is never inside two libpq calls at once.
OneThreadPerConnection == ~(ipc_pc \in IpcInDb /\ ex_pc \in ExInDb)

\* README.md:333: the table is the "Daemon task queue".  A row shows the
\* progress of the task whose command it holds, and of no other.
RowShowsItsOwnTask ==
    \A r \in 1..Len(rows) :
        rows[r].by = [epoch |-> rows[r].epoch, task |-> rows[r].task]

\* db.h:25: krl_task_done takes the task's "stdout_tail", which the table keeps
\* (001_init.sql:63).  A row that tells of a finished task holds what that
\* task's command printed.
FinishedRowHasItsOutput ==
    \A r \in 1..Len(rows) : rows[r].state \in Terminal => rows[r].tail = "own"
=============================================================================
