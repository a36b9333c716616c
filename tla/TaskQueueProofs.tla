---------------------------- MODULE TaskQueueProofs ----------------------------
(***************************************************************************)
(* Proofs about TaskQueue, for any number of tasks and restarts.           *)
(***************************************************************************)
EXTENDS TaskQueue, FiniteSetTheorems, SequenceTheorems, TLAPS

-----------------------------------------------------------------------------
(* Lemmas about the list of tasks and the table                            *)

\* A count of tasks is a number.
LEMMA CountType ==
    ASSUME g_tasks \in Seq(Task), NEW s
    PROVE  Count(s) \in Nat
<1>1. Len(g_tasks) \in Nat
    BY LenProperties
<1>2. IsFiniteSet(1..Len(g_tasks))
    BY <1>1, FS_Interval
<1>3. IsFiniteSet({i \in 1..Len(g_tasks) : g_tasks[i].state = s})
    BY <1>2, FS_Subset
<1>4. QED
    BY <1>3, FS_CardinalityType DEF Count

\* Storing a task at a position of the list leaves the others where they are.
LEMMA StoreTask ==
    ASSUME NEW tasks \in Seq(Task), NEW i \in 1..Len(tasks), NEW t \in Task,
           NEW new, new = [tasks EXCEPT ![i] = t]
    PROVE  /\ new \in Seq(Task)
           /\ Len(new) = Len(tasks)
           /\ \A j \in 1..Len(tasks) : new[j] = IF j = i THEN t ELSE tasks[j]
BY ExceptSeq

\* A statement on the table keeps it a table.
LEMMA UpdateRowType ==
    ASSUME rows \in Seq(Row), epoch \in Nat, ex_id \in Nat, NEW id, NEW s \in TaskState,
           NEW tail \in TailText,
           UpdateRow(id, s, tail)
    PROVE  rows' \in Seq(Row)
<1>1. CASE id \in DOMAIN rows
    <2>1. id \in 1..Len(rows) /\ rows[id] \in Row
        BY <1>1, LenProperties
    <2> DEFINE new == [rows[id] EXCEPT !.state = s, !.by = [epoch |-> epoch, task |-> ex_id],
                                       !.tail = IF tail = "none" THEN rows[id].tail ELSE tail]
    <2>2. new \in Row
        BY <2>1 DEF Row
    <2>3. rows' = [rows EXCEPT ![id] = new]
        BY <1>1 DEF UpdateRow
    <2> HIDE DEF new
    <2>4. QED
        BY <2>1, <2>2, <2>3, ExceptSeq
<1>2. CASE id \notin DOMAIN rows
    BY <1>2 DEF UpdateRow
<1>3. QED
    BY <1>1, <1>2

\* A row that is inserted is a row.
LEMMA InsertRowType ==
    ASSUME rows \in Seq(Row), epoch \in Nat, NEW id \in Nat, InsertRow(id)
    PROVE  rows' \in Seq(Row)
<1>1. [epoch |-> epoch, task |-> id, state |-> "pending",
       by |-> [epoch |-> epoch, task |-> id], tail |-> "none"] \in Row
    BY DEF Row, TaskState, TailText
<1>2. QED
    BY <1>1, AppendProperties DEF InsertRow

\* Both parts of the type argument: TypeOK needs the executor's index to stay
\* inside the list, or what it reads there would have no type.
TypeInv == TypeOK /\ IndexInv

-----------------------------------------------------------------------------
(* Type correctness                                                        *)

\* An empty queue has its types.
LEMMA TypeInit == Init => TypeInv
BY EmptySeq DEF Init, TypeInv, TypeOK, IndexInv, IpcPc, ExPc, ExecResult, TaskState,
                NoStatus, Request, Owning, Telling, TailText

\* The task the executor works on, and what it stores there, are tasks.
LEMMA OwnedTaskType ==
    ASSUME TypeInv, ex_pc \in Owning \cup Telling
    PROVE  /\ ex_idx \in 1..Len(g_tasks)
           /\ g_tasks[ex_idx] \in Task
BY ElementOfSeq DEF TypeInv, TypeOK, IndexInv

\* What a command returns is a final state.
LEMMA ResultType ==
    ASSUME TypeOK
    PROVE  /\ ex_result.code \in {-1, 0, 1}
           /\ FinalState(ex_result) \in Terminal
BY DEF TypeOK, ExecResult, FinalState, Terminal

\* What ExClaim does to the list.
LEMMA ClaimStores ==
    ASSUME TypeOK, ExClaim
    PROVE  /\ ex_idx' \in 1..Len(g_tasks)
           /\ IsFirstPending(ex_idx')
           /\ g_tasks' \in Seq(Task)
           /\ Len(g_tasks') = Len(g_tasks)
           /\ g_tasks'[ex_idx'].state = "running"
           /\ \A j \in 1..Len(g_tasks) :
                 /\ g_tasks'[j].id = g_tasks[j].id
                 /\ j # ex_idx' => g_tasks'[j] = g_tasks[j]
<1>1. PICK i \in 1..Len(g_tasks) :
            /\ IsFirstPending(i)
            /\ g_tasks' = [g_tasks EXCEPT ![i] = [@ EXCEPT !.state = "running"]]
            /\ ex_idx' = i
    BY DEF ExClaim
<1> DEFINE t == [g_tasks[i] EXCEPT !.state = "running"]
<1>2. g_tasks[i] \in Task
    BY ElementOfSeq DEF TypeOK
<1>3. t \in Task
    BY <1>2 DEF Task, TaskState
<1>4. /\ g_tasks' = [g_tasks EXCEPT ![i] = t]
      /\ t.state = "running" /\ t.id = g_tasks[i].id
    BY <1>1, <1>2 DEF Task
<1> HIDE DEF t
<1>5. /\ g_tasks' \in Seq(Task)
      /\ Len(g_tasks') = Len(g_tasks)
      /\ \A j \in 1..Len(g_tasks) : g_tasks'[j] = IF j = i THEN t ELSE g_tasks[j]
    BY <1>3, <1>4, StoreTask DEF TypeOK
<1>6. QED
    BY <1>1, <1>4, <1>5

\* What ExFinish does to the list.
LEMMA FinishStores ==
    ASSUME TypeInv, ExFinish
    PROVE  /\ ex_idx \in 1..Len(g_tasks)
           /\ g_tasks' \in Seq(Task)
           /\ Len(g_tasks') = Len(g_tasks)
           /\ g_tasks'[ex_idx] = [id |-> g_tasks[ex_idx].id, state |-> FinalState(ex_result),
                                  code |-> ex_result.code]
           /\ \A j \in 1..Len(g_tasks) :
                 /\ g_tasks'[j].id = g_tasks[j].id
                 /\ j # ex_idx => g_tasks'[j] = g_tasks[j]
<1> DEFINE t == [id |-> g_tasks[ex_idx].id, state |-> FinalState(ex_result),
                 code |-> ex_result.code]
<1>1. ex_idx \in 1..Len(g_tasks) /\ g_tasks[ex_idx] \in Task
    BY OwnedTaskType DEF ExFinish, Owning
<1>2. t \in Task
    BY <1>1, ResultType DEF TypeInv, Task, TaskState
<1>3. g_tasks' = [g_tasks EXCEPT ![ex_idx] = t]
    BY DEF ExFinish
<1> HIDE DEF t
<1>4. /\ g_tasks' \in Seq(Task)
      /\ Len(g_tasks') = Len(g_tasks)
      /\ \A j \in 1..Len(g_tasks) : g_tasks'[j] = IF j = ex_idx THEN t ELSE g_tasks[j]
    BY <1>1, <1>2, <1>3, StoreTask DEF TypeInv, TypeOK
<1>5. g_tasks'[ex_idx] = t /\ \A j \in 1..Len(g_tasks) : j # ex_idx => g_tasks'[j] = g_tasks[j]
    BY <1>1, <1>4
<1>6. t.id = g_tasks[ex_idx].id
    BY DEF t
<1>7. QED
    BY <1>1, <1>4, <1>5, <1>6 DEF t

\* What IpcAppend does to the list.
LEMMA AppendStores ==
    ASSUME TypeOK, IpcAppend
    PROVE  /\ g_tasks' \in Seq(Task)
           /\ Len(g_tasks') = Len(g_tasks) + 1
           /\ \A j \in 1..Len(g_tasks) : g_tasks'[j] = g_tasks[j]
           /\ g_tasks'[Len(g_tasks) + 1]
                 = [id |-> ipc_id, state |-> "pending", code |-> 0]
<1>1. [id |-> ipc_id, state |-> "pending", code |-> 0] \in Task
    BY DEF TypeOK, Task, TaskState
<1>2. QED
    BY <1>1, AppendProperties DEF IpcAppend, TypeOK

\* Every step keeps TypeInv.
LEMMA TypeStep == TypeInv /\ [Next]_vars => TypeInv'
<1> SUFFICES ASSUME TypeInv, [Next]_vars
             PROVE  TypeInv'
    OBVIOUS
<1> USE DEF TypeInv, exTail, TailText
<1>0. Len(g_tasks) \in Nat /\ Len(rows) \in Nat
    BY LenProperties DEF TypeOK
<1>1. ASSUME NEW req \in Request, IpcAccept(req)
      PROVE  TypeInv'
    BY <1>1 DEF IpcAccept, TypeOK, IndexInv, IpcPc, queueVars, ipcVars, exVars, history
<1>2. CASE IpcLock
    BY <1>2 DEF IpcLock, TypeOK, IndexInv, IpcPc, IpcCritical, queueVars, exVars, history
<1>3. CASE IpcTakeId
    BY <1>3 DEF IpcTakeId, TypeOK, IndexInv, IpcPc, IpcCritical, exVars, history
<1>4. CASE IpcAppend
    BY <1>0, <1>4, AppendStores
       DEF IpcAppend, Relocate, TypeOK, IndexInv, IpcPc, exVars, history
<1>5. CASE IpcAppendFails
    BY <1>5 DEF IpcAppendFails, TypeOK, IndexInv, IpcPc, queueVars, exVars, history
<1>6. CASE IpcRead
    <2>1. Count("pending") \in Nat /\ Count("running") \in Nat
        BY CountType DEF TypeOK
    <2>2. status' \in [total : Nat, pending : Nat, running : Nat]
        BY <1>0, <1>6, <2>1 DEF IpcRead, TypeOK
    <2>3. QED
        BY <1>6, <2>2 DEF IpcRead, TypeOK, IndexInv, IpcPc, queueVars, exVars, history
<1>7. CASE IpcInsert
    BY <1>7 DEF IpcInsert, TypeOK, IndexInv, IpcPc, IpcInDb, queueVars, exVars, history
<1>8. CASE IpcInserted
    <2>1. rows' \in Seq(Row)
        BY <1>8, InsertRowType DEF IpcInserted, TypeOK
    <2>2. QED
        BY <1>8, <2>1 DEF IpcInserted, TypeOK, IndexInv, IpcPc, queueVars, exVars, history
<1>9. CASE ExWake
    BY <1>9 DEF ExWake, TypeOK, IndexInv, ExPc, Owning, Telling, queueVars, ipcVars, history
<1>10. CASE ExLock
    BY <1>10 DEF ExLock, TypeOK, IndexInv, ExPc, ExCritical, Critical, Owning, Telling,
                 queueVars, ipcVars, history
<1>11. CASE ExClaim
    <2>1. /\ ex_idx' \in 1..Len(g_tasks') /\ ex_idx' \in Nat
          /\ g_tasks' \in Seq(Task)
        BY <1>0, <1>11, ClaimStores
    <2>2. /\ ex_pc' = "fetch" /\ mu' = "free"
          /\ UNCHANGED <<g_next_id, g_db, ipcVars, ex_id, ex_result, ex_final, exTail, rows, epoch,
                        history>>
        BY <1>11 DEF ExClaim
    <2>3. QED
        BY <2>1, <2>2 DEF TypeOK, IndexInv, ExPc, Owning, Telling, ipcVars, history
<1>12. CASE ExClaimNothing
    BY <1>12 DEF ExClaimNothing, TypeOK, IndexInv, ExPc, Owning, Telling, queueVars,
                 ipcVars, history
<1>13. CASE ExFetch
    <2>1. ex_idx \in 1..Len(g_tasks) /\ g_tasks[ex_idx].id \in Nat
        BY <1>13, OwnedTaskType DEF ExFetch, Owning, Task
    <2>2. QED
        BY <1>13, <2>1 DEF ExFetch, TypeOK, IndexInv, ExPc, Owning, Telling, queueVars,
                           ipcVars, history
<1>14. CASE ExStart
    BY <1>14 DEF ExStart, TypeOK, IndexInv, ExPc, ExInDb, Owning, Telling, queueVars,
                 ipcVars, history
<1>15. CASE ExStarted
    <2>1. rows' \in Seq(Row)
        BY <1>15, UpdateRowType DEF ExStarted, TypeOK, TaskState
    <2>2. QED
        BY <1>15, <2>1 DEF ExStarted, TypeOK, IndexInv, ExPc, ExInDb, Owning, Telling,
                           queueVars, ipcVars, history
<1>16. CASE ExExec
    <2>1. ran' \in Seq(Nat)
        BY <1>16, AppendProperties DEF ExExec, TypeOK
    <2>2. QED
        BY <1>16, <2>1 DEF ExExec, TypeOK, IndexInv, ExPc, Owning, Telling, queueVars, ipcVars
<1>17. CASE ExFinish
    BY <1>0, <1>17, FinishStores, ResultType
       DEF ExFinish, TypeOK, IndexInv, ExPc, Owning, Telling, TaskState, ipcVars, history
<1>18. CASE ExHook
    <2>1. [id |-> ex_id, state |-> ex_final, code |-> ex_result.code] \in Task
        BY ResultType DEF TypeOK, Task
    <2>2. fired' \in Seq(Task)
        BY <1>18, <2>1, AppendProperties DEF ExHook, TypeOK
    <2>3. QED
        BY <1>18, <2>2 DEF ExHook, TypeOK, IndexInv, ExPc, Owning, Telling, queueVars, ipcVars
<1>19. CASE ExRecord
    BY <1>19 DEF ExRecord, TypeOK, IndexInv, ExPc, ExInDb, Owning, Telling, queueVars,
                 ipcVars, history
<1>20. CASE ExRecorded
    <2>1. rows' \in Seq(Row)
        BY <1>20, UpdateRowType DEF ExRecorded, TypeOK, TaskState, Terminal
    <2>2. QED
        BY <1>20, <2>1 DEF ExRecorded, TypeOK, IndexInv, ExPc, ExInDb, Owning, Telling,
                           queueVars, ipcVars, history
<1>21. CASE Restart
    BY <1>21, EmptySeq DEF Restart, TypeOK, IndexInv, IpcPc, ExPc, ExecResult, TaskState,
                           NoStatus, Request, Owning, Telling
<1>22. CASE UNCHANGED vars
    BY <1>22 DEF vars, TypeOK, IndexInv, queueVars, ipcVars, exVars, history
<1>23. QED
    BY <1>1, <1>2, <1>3, <1>4, <1>5, <1>6, <1>7, <1>8, <1>9, <1>10, <1>11, <1>12, <1>13,
       <1>14, <1>15, <1>16, <1>17, <1>18, <1>19, <1>20, <1>21, <1>22
       DEF Next, IpcServe, ExWork

\* Every reachable state is well typed.
THEOREM TypeCorrect == Spec => []TypeOK
<1>1. TypeInv /\ [Next]_vars => TypeInv'
    BY TypeStep
<1>2. QED
    BY TypeInit, <1>1, PTL DEF Spec, TypeInv
-----------------------------------------------------------------------------
(* The inductive invariant, one part at a time                             *)

\* Every step keeps LockInv.
LEMMA LockStep == TypeInv /\ LockInv /\ [Next]_vars => LockInv'
<1> SUFFICES ASSUME TypeInv, LockInv, [Next]_vars
             PROVE  LockInv'
    OBVIOUS
<1> USE DEF LockInv, IpcCritical, ExCritical
<1>1. ASSUME NEW req \in Request, IpcAccept(req)
      PROVE  LockInv'
    BY <1>1 DEF IpcAccept, exVars
<1>2. CASE IpcServe
    BY <1>2 DEF IpcServe, IpcLock, IpcTakeId, IpcAppend, IpcAppendFails, IpcRead, IpcInsert,
                IpcInserted, exVars
<1>3. CASE ExLock
    BY <1>3 DEF ExLock, Critical, ipcVars
<1>4. CASE ExWork
    BY <1>4 DEF ExWork, ExWake, ExClaim, ExClaimNothing, ExFetch, ExStart, ExStarted, ExExec,
                ExFinish, ExHook, ExRecord, ExRecorded, ipcVars
<1>5. CASE Restart
    BY <1>5 DEF Restart
<1>6. CASE UNCHANGED vars
    BY <1>6 DEF vars, ipcVars, exVars
<1>7. QED
    BY <1>1, <1>2, <1>3, <1>4, <1>5, <1>6 DEF Next

\* The ids follow the positions because only the holder of the lock takes one.
LEMMA IdStep == TypeInv /\ LockInv /\ IdInv /\ [Next]_vars => IdInv'
<1> SUFFICES ASSUME TypeInv, LockInv, IdInv, [Next]_vars
             PROVE  IdInv'
    OBVIOUS
<1> USE DEF TypeInv, IpcCritical, ExCritical, Owning, Telling, Knowing, LockLost
<1>0. Len(g_tasks) \in Nat
    BY LenProperties DEF TypeOK
<1>1. ASSUME NEW req \in Request, IpcAccept(req)
      PROVE  IdInv'
    BY <1>1 DEF IpcAccept, IdInv, queueVars, exVars
<1>2. CASE IpcAppend
    <2>1. /\ ipc_pc = "append" /\ ipc_pc' # "append" /\ mu' = "free"
          /\ ipc_id = Len(g_tasks) + 1 /\ g_next_id' = Len(g_tasks) + 2
          /\ UNCHANGED <<ex_pc, ex_idx, ex_id, ex_result, ex_final>>
        BY <1>0, <1>2 DEF IpcAppend, IdInv
    <2>2. \A i \in 1..Len(g_tasks') : g_tasks'[i].id = i
        BY <1>0, <1>2, <2>1, AppendStores DEF IdInv
    <2>3. Len(g_tasks') = Len(g_tasks) + 1
        BY <1>2, AppendStores
    <2>4. QED
        BY <1>0, <2>1, <2>2, <2>3 DEF IdInv, exVars
<1>3. CASE IpcServe /\ ~IpcAppend
    BY <1>0, <1>3 DEF IpcServe, IpcLock, IpcTakeId, IpcAppendFails, IpcRead, IpcInsert,
                IpcInserted, LockInv, IdInv, queueVars, exVars, TypeOK
<1>4. CASE ExLock
    BY <1>4 DEF ExLock, Critical, LockInv, IdInv, queueVars, ipcVars
<1>5. CASE ExClaim
    <2>1. /\ Len(g_tasks') = Len(g_tasks)
          /\ \A i \in 1..Len(g_tasks) : g_tasks'[i].id = g_tasks[i].id
        BY <1>5, ClaimStores
    <2>2. \A i \in 1..Len(g_tasks) : g_tasks'[i].id = i
        BY <2>1 DEF IdInv
    <2>3. ex_pc = "claiming" /\ ex_pc' = "fetch" /\ mu' = "free" /\ UNCHANGED <<g_next_id, ipcVars>>
        BY <1>5 DEF ExClaim
    <2>4. QED
        BY <2>1, <2>2, <2>3 DEF LockInv, IdInv, ipcVars
<1>6. CASE ExFinish
    <2>1. /\ Len(g_tasks') = Len(g_tasks)
          /\ \A i \in 1..Len(g_tasks) : g_tasks'[i].id = g_tasks[i].id
        BY <1>6, FinishStores
    <2>2. /\ ex_pc = "finishing" /\ ex_pc' = "hook" /\ mu' = "free"
          /\ UNCHANGED <<g_next_id, ipcVars, ex_idx, ex_id>>
        BY <1>6 DEF ExFinish
    <2>3. QED
        BY <2>1, <2>2 DEF LockInv, IdInv, ipcVars
<1>7. CASE ExFetch
    BY <1>7, OwnedTaskType DEF ExFetch, LockInv, IdInv, queueVars, ipcVars
<1>8. CASE ExWork /\ ~ExClaim /\ ~ExFinish /\ ~ExFetch
    BY <1>8 DEF ExWork, ExWake, ExClaimNothing, ExStart, ExStarted, ExExec, ExHook, ExRecord,
                ExRecorded, LockInv, IdInv, queueVars, ipcVars
<1>9. CASE Restart
    BY <1>9, EmptySeq DEF Restart, IdInv
<1>10. CASE UNCHANGED vars
    BY <1>10 DEF vars, IdInv, queueVars, ipcVars, exVars
<1>11. QED
    BY <1>1, <1>2, <1>3, <1>4, <1>5, <1>6, <1>7, <1>8, <1>9, <1>10 DEF Next
\* The claim finds exactly the task after those that ran, because nothing is
\* owned while the executor scans the list.
LEMMA ClaimsNext ==
    ASSUME TypeInv, WorkInv, ExClaim
    PROVE  ex_idx' = Len(ran) + 1
<1>1. ex_pc \notin Owning
    BY DEF ExClaim, Owning
<1>2. Len(g_tasks) \in Nat /\ Len(ran) \in Nat
    BY LenProperties DEF TypeInv, TypeOK
<1>3. /\ ex_idx' \in 1..Len(g_tasks)
      /\ IsFirstPending(ex_idx')
    BY ClaimStores DEF TypeInv
<1>4. \A i \in 1..Len(g_tasks) :
          IF i <= Len(ran) THEN g_tasks[i].state \in Terminal
                           ELSE g_tasks[i].state = "pending"
    BY <1>1 DEF WorkInv
<1>5. ex_idx' > Len(ran)
    BY <1>2, <1>3, <1>4 DEF IsFirstPending, Terminal
<1>6. ~(ex_idx' > Len(ran) + 1)
    <2> SUFFICES ASSUME ex_idx' > Len(ran) + 1
                 PROVE  FALSE
        OBVIOUS
    <2>1. Len(ran) + 1 \in 1..Len(g_tasks) /\ Len(ran) + 1 \in 1..(ex_idx' - 1)
        BY <1>2, <1>3
    <2>2. g_tasks[Len(ran) + 1].state = "pending"
        BY <1>2, <1>4, <2>1
    <2>3. g_tasks[Len(ran) + 1].state # "pending"
        BY <1>3, <2>1 DEF IsFirstPending
    <2>4. QED
        BY <2>2, <2>3
<1>7. QED
    BY <1>2, <1>3, <1>5, <1>6

\* Every step keeps WorkInv.
LEMMA WorkStep == TypeInv /\ LockInv /\ IdInv /\ WorkInv /\ [Next]_vars => WorkInv'
<1> SUFFICES ASSUME TypeInv, LockInv, IdInv, WorkInv, [Next]_vars
             PROVE  WorkInv'
    OBVIOUS
<1> USE DEF Owning, Telling, Ran
<1>0. Len(g_tasks) \in Nat /\ Len(ran) \in Nat
    BY LenProperties DEF TypeInv, TypeOK
<1>1. ASSUME NEW req \in Request, IpcAccept(req)
      PROVE  WorkInv'
    BY <1>1 DEF IpcAccept, WorkInv, queueVars, exVars, history
<1>2. CASE IpcAppend
    <2>1. Len(g_tasks') = Len(g_tasks) + 1 /\ g_tasks'[Len(g_tasks) + 1].state = "pending"
        BY <1>2, AppendStores DEF TypeInv
    <2>2. \A j \in 1..Len(g_tasks) : g_tasks'[j] = g_tasks[j]
        BY <1>2, AppendStores DEF TypeInv
    <2>3. UNCHANGED <<ex_pc, ex_idx, ran>>
        BY <1>2 DEF IpcAppend, history
    <2>4. ex_pc \in Owning => ex_idx \in 1..Len(g_tasks)
        BY DEF TypeInv, IndexInv
    <2>5. \A i \in 1..Len(g_tasks') :
              i \in 1..Len(g_tasks) \/ (i = Len(g_tasks) + 1 /\ ~(i <= Len(ran)))
        BY <1>0, <2>1 DEF WorkInv
    <2>6. QED
        BY <1>0, <2>1, <2>2, <2>3, <2>4, <2>5 DEF WorkInv, exVars
<1>3. CASE IpcServe /\ ~IpcAppend
    BY <1>3 DEF IpcServe, IpcLock, IpcTakeId, IpcAppendFails, IpcRead, IpcInsert,
                IpcInserted, WorkInv, queueVars, exVars, history
<1>4. CASE ExLock
    BY <1>4 DEF ExLock, Critical, WorkInv, queueVars, history
<1>5. CASE ExClaim
    <2>1. ex_pc = "claiming" /\ ex_pc' = "fetch" /\ UNCHANGED ran
        BY <1>5 DEF ExClaim, history
    <2>2. ex_idx' = Len(ran) + 1
        BY <1>5, ClaimsNext
    <2>3. /\ ex_idx' \in 1..Len(g_tasks) /\ Len(g_tasks') = Len(g_tasks)
          /\ g_tasks'[ex_idx'].state = "running"
          /\ \A j \in 1..Len(g_tasks) : j # ex_idx' => g_tasks'[j] = g_tasks[j]
        BY <1>5, ClaimStores DEF TypeInv
    <2>4. \A i \in 1..Len(g_tasks) :
              IF i <= Len(ran) THEN g_tasks[i].state \in Terminal
                               ELSE g_tasks[i].state = "pending"
        BY <2>1 DEF WorkInv
    <2>5. QED
        BY <1>0, <2>1, <2>2, <2>3, <2>4 DEF WorkInv
<1>6. CASE ExExec
    <2>1. /\ ex_pc = "exec" /\ ex_pc' = "finish"
          /\ ran' = Append(ran, ex_id) /\ UNCHANGED <<g_tasks, ex_idx>>
        BY <1>6 DEF ExExec, queueVars
    <2>2. ex_id = Len(ran) + 1 /\ ex_idx = Len(ran) + 1 /\ ex_idx \in 1..Len(g_tasks)
        BY <2>1 DEF WorkInv, IdInv, Knowing, TypeInv, IndexInv
    <2>3. /\ Len(ran') = Len(ran) + 1 /\ ran'[Len(ran) + 1] = ex_id
          /\ \A k \in 1..Len(ran) : ran'[k] = ran[k]
        BY <2>1, AppendProperties DEF TypeInv, TypeOK
    <2>4. \A k \in 1..Len(ran') : ran'[k] = k
        BY <1>0, <2>2, <2>3 DEF WorkInv
    <2>5. QED
        BY <1>0, <2>1, <2>2, <2>3, <2>4 DEF WorkInv
<1>7. CASE ExFinish
    <2>1. ex_pc = "finishing" /\ ex_pc' = "hook" /\ UNCHANGED <<ex_idx, ran>>
        BY <1>7 DEF ExFinish, history
    <2>2. /\ Len(g_tasks') = Len(g_tasks)
          /\ g_tasks'[ex_idx].state = FinalState(ex_result)
          /\ \A j \in 1..Len(g_tasks) : j # ex_idx => g_tasks'[j] = g_tasks[j]
        BY <1>7, FinishStores
    <2>3. FinalState(ex_result) \in Terminal
        BY ResultType DEF TypeInv
    <2>4. QED
        BY <1>0, <2>1, <2>2, <2>3 DEF WorkInv
<1>8. CASE ExWork /\ ~ExClaim /\ ~ExFinish /\ ~ExExec
    BY <1>8 DEF ExWork, ExWake, ExClaimNothing, ExFetch, ExStart, ExStarted, ExHook, ExRecord,
                ExRecorded, WorkInv, queueVars, history
<1>9. CASE Restart
    BY <1>9, EmptySeq DEF Restart, WorkInv
<1>10. CASE UNCHANGED vars
    BY <1>10 DEF vars, WorkInv, queueVars, exVars, history
<1>11. QED
    BY <1>1, <1>2, <1>3, <1>4, <1>5, <1>6, <1>7, <1>8, <1>9, <1>10 DEF Next
\* Every step keeps HookInv.
LEMMA HookStep ==
    TypeInv /\ LockInv /\ IdInv /\ WorkInv /\ HookInv /\ [Next]_vars => HookInv'
<1> SUFFICES ASSUME TypeInv, LockInv, IdInv, WorkInv, HookInv, [Next]_vars
             PROVE  HookInv'
    OBVIOUS
<1> USE DEF Owning, Telling, Ran
<1>0. /\ Len(g_tasks) \in Nat /\ Len(ran) \in Nat /\ Len(fired) \in Nat
      /\ Len(ran) <= Len(g_tasks)
      /\ Len(fired) <= Len(ran)
    BY LenProperties DEF TypeInv, TypeOK, WorkInv, HookInv
<1>1. ASSUME NEW req \in Request, IpcAccept(req)
      PROVE  HookInv'
    BY <1>1 DEF IpcAccept, HookInv, queueVars, exVars, history
<1>2. CASE IpcAppend
    <2>1. /\ Len(g_tasks') = Len(g_tasks) + 1
          /\ \A j \in 1..Len(g_tasks) : g_tasks'[j] = g_tasks[j]
        BY <1>2, AppendStores DEF TypeInv
    <2>2. UNCHANGED <<ex_pc, ex_idx, ex_id, ex_result, ex_final, ran, fired>>
        BY <1>2 DEF IpcAppend, history
    <2>3. ex_pc \in Telling => ex_idx \in 1..Len(g_tasks)
        BY DEF TypeInv, IndexInv
    <2>4. \A k \in 1..Len(fired) : fired[k] = g_tasks'[k]
        BY <1>0, <2>1 DEF HookInv
    <2>5. QED
        BY <2>1, <2>2, <2>3, <2>4 DEF HookInv, exVars
<1>3. CASE IpcServe /\ ~IpcAppend
    BY <1>3 DEF IpcServe, IpcLock, IpcTakeId, IpcAppendFails, IpcRead, IpcInsert,
                IpcInserted, HookInv, queueVars, exVars, history
<1>4. CASE ExLock
    BY <1>4 DEF ExLock, Critical, HookInv, queueVars, history
<1>5. CASE ExClaim
    <2>1. ex_pc = "claiming" /\ ex_pc' = "fetch" /\ UNCHANGED <<ran, fired>>
        BY <1>5 DEF ExClaim, history
    <2>2. ex_idx' = Len(ran) + 1
        BY <1>5, ClaimsNext
    <2>3. \A j \in 1..Len(g_tasks) : j # ex_idx' => g_tasks'[j] = g_tasks[j]
        BY <1>5, ClaimStores DEF TypeInv
    <2>4. \A k \in 1..Len(fired) : fired[k] = g_tasks'[k]
        BY <1>0, <2>2, <2>3 DEF HookInv
    <2>5. QED
        BY <2>1, <2>4 DEF HookInv
<1>6. CASE ExExec
    <2>1. ex_pc = "exec" /\ ex_pc' = "finish" /\ UNCHANGED <<g_tasks, fired>>
        BY <1>6 DEF ExExec, queueVars
    <2>2. Len(ran') = Len(ran) + 1
        BY <1>6, AppendProperties DEF ExExec, TypeInv, TypeOK
    <2>3. QED
        BY <1>0, <2>1, <2>2 DEF HookInv
<1>7. CASE ExFinish
    <2>1. /\ ex_pc = "finishing" /\ ex_pc' = "hook" /\ ex_final' = FinalState(ex_result)
          /\ UNCHANGED <<ex_idx, ex_id, ex_result, ran, fired>>
        BY <1>7 DEF ExFinish, history
    <2>2. ex_idx \in 1..Len(g_tasks) /\ ex_idx = Len(ran)
        BY <2>1 DEF TypeInv, IndexInv, WorkInv
    <2>3. g_tasks'[ex_idx] = [id |-> g_tasks[ex_idx].id, state |-> FinalState(ex_result),
                              code |-> ex_result.code]
        BY <1>7, FinishStores
    <2>4. g_tasks[ex_idx].id = ex_id
        BY <2>1, <2>2 DEF IdInv, Knowing
    <2>5. \A j \in 1..Len(g_tasks) : j # ex_idx => g_tasks'[j] = g_tasks[j]
        BY <1>7, FinishStores
    <2>6. \A k \in 1..Len(fired) : fired[k] = g_tasks'[k]
        BY <1>0, <2>1, <2>2, <2>5 DEF HookInv
    <2>7. QED
        BY <2>1, <2>3, <2>4, <2>6 DEF HookInv
<1>8. CASE ExHook
    <2>1. /\ ex_pc = "hook" /\ ex_pc' \in {"record", "sleep"}
          /\ fired' = Append(fired, [id |-> ex_id, state |-> ex_final, code |-> ex_result.code])
          /\ UNCHANGED <<g_tasks, ex_idx, ex_id, ex_final, ex_result, ran>>
        BY <1>8 DEF ExHook, queueVars
    <2>2. [id |-> ex_id, state |-> ex_final, code |-> ex_result.code] \in Task
        BY ResultType DEF TypeInv, TypeOK, Task
    <2>3. /\ Len(fired') = Len(fired) + 1
          /\ \A k \in 1..Len(fired) : fired'[k] = fired[k]
          /\ fired'[Len(fired) + 1] = [id |-> ex_id, state |-> ex_final, code |-> ex_result.code]
        BY <2>1, <2>2, AppendProperties DEF TypeInv, TypeOK
    <2>4. Len(fired) + 1 = ex_idx /\ Len(fired) + 1 = Len(ran)
        BY <1>0, <2>1 DEF HookInv, WorkInv
    <2>5. \A k \in 1..Len(fired') : fired'[k] = g_tasks[k]
        BY <1>0, <2>1, <2>3, <2>4 DEF HookInv
    <2>6. QED
        BY <1>0, <2>1, <2>3, <2>4, <2>5 DEF HookInv
<1>9. CASE ExWork /\ ~ExClaim /\ ~ExFinish /\ ~ExExec /\ ~ExHook
    BY <1>9 DEF ExWork, ExWake, ExClaimNothing, ExFetch, ExStart, ExStarted, ExRecord,
                ExRecorded, HookInv, queueVars, history
<1>10. CASE Restart
    BY <1>10, EmptySeq DEF Restart, HookInv
<1>11. CASE UNCHANGED vars
    BY <1>11 DEF vars, HookInv, queueVars, exVars, history
<1>12. QED
    BY <1>1, <1>2, <1>3, <1>4, <1>5, <1>6, <1>7, <1>8, <1>9, <1>10, <1>11 DEF Next
\* What UPDATE does to the table: one row at most, and only its state and
\* whose progress it shows.
LEMMA UpdateRowStores ==
    ASSUME rows \in Seq(Row), epoch \in Nat, ex_id \in Nat, NEW id, NEW s \in TaskState,
           NEW tail \in TailText,
           UpdateRow(id, s, tail)
    PROVE  /\ Len(rows') = Len(rows)
           /\ \A r \in 1..Len(rows) :
                 /\ rows'[r].epoch = rows[r].epoch
                 /\ rows'[r].task = rows[r].task
                 /\ r # id => rows'[r] = rows[r]
                 /\ r = id => /\ rows'[r].state = s
                              /\ rows'[r].by = [epoch |-> epoch, task |-> ex_id]
                              /\ tail # "none" => rows'[r].tail = tail
<1> DEFINE new == [rows[id] EXCEPT !.state = s, !.by = [epoch |-> epoch, task |-> ex_id],
                                   !.tail = IF tail = "none" THEN rows[id].tail ELSE tail]
<1>1. CASE id \in DOMAIN rows
    <2>1. id \in 1..Len(rows) /\ rows[id] \in Row
        BY <1>1, LenProperties
    <2>2. new \in Row
        BY <2>1 DEF Row
    <2>3. /\ new.epoch = rows[id].epoch /\ new.task = rows[id].task /\ new.state = s
          /\ new.by = [epoch |-> epoch, task |-> ex_id]
          /\ tail # "none" => new.tail = tail
        BY <2>1 DEF Row
    <2>4. rows' = [rows EXCEPT ![id] = new]
        BY <1>1 DEF UpdateRow
    <2> HIDE DEF new
    <2>5. /\ Len(rows') = Len(rows)
          /\ \A r \in 1..Len(rows) : rows'[r] = IF r = id THEN new ELSE rows[r]
        BY <2>1, <2>2, <2>4, ExceptSeq
    <2>6. QED
        BY <2>3, <2>5
<1>2. CASE id \notin DOMAIN rows
    <2>1. DOMAIN rows = 1..Len(rows)
        BY LenProperties
    <2>2. QED
        BY <1>2, <2>1 DEF UpdateRow
<1>3. QED
    BY <1>1, <1>2

\* An insert appends one pending row.
LEMMA InsertRowStores ==
    ASSUME rows \in Seq(Row), epoch \in Nat, NEW id \in Nat, InsertRow(id)
    PROVE  /\ Len(rows') = Len(rows) + 1
           /\ \A r \in 1..Len(rows) : rows'[r] = rows[r]
           /\ rows'[Len(rows) + 1].epoch = epoch
           /\ rows'[Len(rows) + 1].task = id
           /\ rows'[Len(rows) + 1].state = "pending"
           /\ rows'[Len(rows) + 1].by = [epoch |-> epoch, task |-> id]
<1> DEFINE new == [epoch |-> epoch, task |-> id, state |-> "pending",
                   by |-> [epoch |-> epoch, task |-> id], tail |-> "none"]
<1>1. new \in Row
    BY DEF Row, TaskState, TailText
<1>2. rows' = Append(rows, new)
    BY DEF InsertRow
<1>3. new.epoch = epoch /\ new.task = id /\ new.state = "pending"
      /\ new.by = [epoch |-> epoch, task |-> id]
    OBVIOUS
<1> HIDE DEF new
<1>4. /\ Len(rows') = Len(rows) + 1
      /\ \A r \in 1..Len(rows) : rows'[r] = rows[r]
      /\ rows'[Len(rows) + 1] = new
    BY <1>1, <1>2, AppendProperties
<1>5. QED
    BY <1>3, <1>4

\* A table and a list that a step leaves alone, or only lets the list grow or
\* move forward at one place, stay in agreement.
LEMMA RowStep ==
    TypeInv /\ LockInv /\ IdInv /\ WorkInv /\ HookInv /\ RowInv /\ [Next]_vars => RowInv'
<1> SUFFICES ASSUME TypeInv, LockInv, IdInv, WorkInv, HookInv, RowInv, [Next]_vars
             PROVE  RowInv'
    OBVIOUS
<1> USE DEF Owning, Telling, Ran
<1>0. /\ Len(g_tasks) \in Nat /\ Len(rows) \in Nat /\ epoch \in Nat
      /\ \A r \in 1..Len(rows) : rows[r] \in Row
      /\ ex_pc \in Owning \cup Telling => ex_idx \in 1..Len(g_tasks)
    BY LenProperties, ElementOfSeq DEF TypeInv, TypeOK, IndexInv
<1>1. ASSUME NEW req \in Request, IpcAccept(req)
      PROVE  RowInv'
    BY <1>1 DEF IpcAccept, RowInv, AlignedRowNeverAhead, queueVars
<1>2. CASE IpcAppend
    <2>1. /\ Len(g_tasks') = Len(g_tasks) + 1
          /\ \A j \in 1..Len(g_tasks) : g_tasks'[j] = g_tasks[j]
        BY <1>2, AppendStores DEF TypeInv
    <2>2. ipc_id = Len(g_tasks) + 1 /\ UNCHANGED <<ipc_id, rows, epoch>>
        BY <1>2 DEF IpcAppend, IdInv
    <2>3. \A i \in 1..Len(rows) :
              rows[i].epoch = epoch /\ rows[i].task = i => i \in 1..Len(g_tasks)
        BY <1>0 DEF RowInv
    <2>4. AlignedRowNeverAhead'
        BY <1>0, <2>1, <2>2, <2>3 DEF RowInv, AlignedRowNeverAhead
    <2>5. QED
        BY <1>0, <2>1, <2>2, <2>4 DEF RowInv
<1>3. CASE IpcInserted
    <2>1. /\ ipc_pc = "inserting" /\ ipc_pc' = "accept"
          /\ InsertRow(ipc_id) \/ UNCHANGED rows
          /\ UNCHANGED <<g_tasks, epoch>>
        BY <1>3 DEF IpcInserted, queueVars
    <2>2. CASE UNCHANGED rows
        BY <2>1, <2>2 DEF RowInv, AlignedRowNeverAhead
    <2>3. CASE InsertRow(ipc_id)
        <3>1. ipc_id \in 1..Len(g_tasks)
            BY <2>1 DEF RowInv
        <3>2. /\ Len(rows') = Len(rows) + 1
              /\ \A r \in 1..Len(rows) : rows'[r] = rows[r]
              /\ rows'[Len(rows) + 1].epoch = epoch
              /\ rows'[Len(rows) + 1].task = ipc_id
              /\ rows'[Len(rows) + 1].state = "pending"
            BY <2>3, InsertRowStores DEF TypeInv, TypeOK
        <3>3. \A r \in 1..Len(rows') : r \in 1..Len(rows) \/ r = Len(rows) + 1
            BY <1>0, <3>2
        <3>4. AlignedRowNeverAhead'
            BY <1>0, <2>1, <3>1, <3>2, <3>3 DEF RowInv, AlignedRowNeverAhead, Terminal
        <3>5. QED
            BY <1>0, <2>1, <3>1, <3>2, <3>3, <3>4 DEF RowInv
    <2>4. QED
        BY <2>1, <2>2, <2>3
<1>4. CASE IpcServe /\ ~IpcAppend /\ ~IpcInserted
    BY <1>4 DEF IpcServe, IpcLock, IpcTakeId, IpcAppendFails, IpcRead, IpcInsert,
                RowInv, AlignedRowNeverAhead, queueVars
<1>5. CASE ExLock
    BY <1>5 DEF ExLock, RowInv, AlignedRowNeverAhead, queueVars, ipcVars
<1>6. CASE ExClaim
    <2>1. UNCHANGED <<ipc_pc, ipc_id, rows, epoch>>
        BY <1>6 DEF ExClaim, ipcVars
    <2>2. /\ ex_idx' \in 1..Len(g_tasks) /\ Len(g_tasks') = Len(g_tasks)
          /\ g_tasks[ex_idx'].state = "pending"
          /\ g_tasks'[ex_idx'].state = "running"
          /\ \A j \in 1..Len(g_tasks) : j # ex_idx' => g_tasks'[j] = g_tasks[j]
        BY <1>6, ClaimStores DEF TypeInv, IsFirstPending
    <2>3. AlignedRowNeverAhead'
        BY <1>0, <2>1, <2>2 DEF RowInv, AlignedRowNeverAhead, Terminal
    <2>4. QED
        BY <2>1, <2>2, <2>3 DEF RowInv
<1>7. CASE ExFinish
    <2>1. ex_pc = "finishing" /\ UNCHANGED <<ipc_pc, ipc_id, rows, epoch>>
        BY <1>7 DEF ExFinish, ipcVars
    <2>2. /\ Len(g_tasks') = Len(g_tasks)
          /\ g_tasks'[ex_idx].state = FinalState(ex_result)
          /\ \A j \in 1..Len(g_tasks) : j # ex_idx => g_tasks'[j] = g_tasks[j]
        BY <1>7, FinishStores
    <2>3. g_tasks[ex_idx].state = "running" /\ FinalState(ex_result) \in Terminal
        BY <2>1, ResultType DEF WorkInv, TypeInv
    <2>4. AlignedRowNeverAhead'
        BY <1>0, <2>1, <2>2, <2>3 DEF RowInv, AlignedRowNeverAhead, Terminal
    <2>5. QED
        BY <2>1, <2>2, <2>4 DEF RowInv
<1>8. ASSUME ex_pc \in Owning \cup Telling, NEW s \in TaskState,
             NEW tail \in TailText,
             UpdateRow(ex_id, s, tail) \/ UNCHANGED rows,
             UNCHANGED <<g_tasks, ipc_pc, ipc_id, epoch>>,
             s = "running" => g_tasks[ex_id].state # "pending",
             s \in Terminal => s = g_tasks[ex_id].state
      PROVE  RowInv'
    <2>1. CASE UNCHANGED rows
        BY <1>8, <2>1 DEF RowInv, AlignedRowNeverAhead
    <2>2. CASE UpdateRow(ex_id, s, tail)
        <3>1. /\ Len(rows') = Len(rows)
              /\ \A r \in 1..Len(rows) :
                    /\ rows'[r].epoch = rows[r].epoch
                    /\ rows'[r].task = rows[r].task
                    /\ r # ex_id => rows'[r] = rows[r]
                    /\ r = ex_id => rows'[r].state = s
            <4>1. rows \in Seq(Row) /\ epoch \in Nat /\ ex_id \in Nat
                BY DEF TypeInv, TypeOK
            <4>2. s \in TaskState
                BY <1>8
            <4>3. QED
                BY <2>2, <4>1, <4>2, UpdateRowStores
        <3>2. AlignedRowNeverAhead'
            BY <1>0, <1>8, <3>1 DEF RowInv, AlignedRowNeverAhead
        <3>3. QED
            BY <1>8, <3>1, <3>2 DEF RowInv
    <2>3. QED
        BY <1>8, <2>1, <2>2
<1>9. CASE ExStarted
    <2>1. g_tasks[ex_id].state = "running" /\ ex_pc \in Owning
        BY <1>9 DEF ExStarted, IdInv, Knowing, WorkInv
    <2>2. /\ UpdateRow(ex_id, "running", "none") \/ UNCHANGED rows
          /\ UNCHANGED <<g_tasks, ipc_pc, ipc_id, epoch>>
        BY <1>9 DEF ExStarted, queueVars, ipcVars
    <2>3. "running" \in TaskState /\ "running" \notin Terminal /\ "none" \in TailText
        BY DEF TaskState, Terminal, TailText
    <2>4. QED
        BY <1>8, <2>1, <2>2, <2>3
<1>10. CASE ExRecorded
    <2> DEFINE s == IF ex_final = "done" THEN "done" ELSE "failed"
    <2>1. ex_pc = "recording" /\ ex_pc \in Telling
        BY <1>10 DEF ExRecorded
    <2>2. g_tasks[ex_idx].state = ex_final /\ ex_id = ex_idx
        BY <2>1 DEF HookInv, IdInv, Knowing
    <2>3. g_tasks[ex_idx].state \in Terminal
        BY <1>0, <2>1 DEF WorkInv
    <2>4. s = g_tasks[ex_id].state /\ s \in TaskState /\ s # "running"
        BY <2>2, <2>3 DEF TaskState, Terminal
    <2>5. /\ UpdateRow(ex_id, s, ex_tail) \/ UNCHANGED rows
          /\ UNCHANGED <<g_tasks, ipc_pc, ipc_id, epoch>>
        BY <1>10 DEF ExRecorded, queueVars, ipcVars
    <2>6. ex_tail \in TailText
        BY DEF TypeInv, TypeOK
    <2> HIDE DEF s
    <2>7. QED
        BY <1>8, <2>1, <2>4, <2>5, <2>6
<1>11. CASE ExWork /\ ~ExClaim /\ ~ExFinish /\ ~ExStarted /\ ~ExRecorded
    BY <1>11 DEF ExWork, ExWake, ExClaimNothing, ExFetch, ExStart, ExExec, ExHook, ExRecord,
                 RowInv, AlignedRowNeverAhead, queueVars, ipcVars
<1>12. CASE Restart
    <2>1. ipc_pc' = "accept" /\ epoch' = epoch + 1 /\ UNCHANGED rows
        BY <1>12 DEF Restart
    <2>2. \A r \in 1..Len(rows) : rows[r].epoch <= epoch' /\ rows[r].epoch # epoch'
        BY <1>0, <2>1 DEF RowInv, Row
    <2>3. QED
        BY <2>1, <2>2 DEF RowInv, AlignedRowNeverAhead
<1>13. CASE UNCHANGED vars
    BY <1>13 DEF vars, RowInv, AlignedRowNeverAhead, queueVars, ipcVars
<1>14. QED
    BY <1>1, <1>2, <1>3, <1>4, <1>5, <1>6, <1>7, <1>9, <1>10, <1>11, <1>12, <1>13
       DEF Next

\* The executor's copy of an output stays good until a task is queued behind
\* its own, and a row is told only what was copied.
LEMMA TailStep ==
    TypeInv /\ LockInv /\ IdInv /\ WorkInv /\ HookInv /\ RowInv /\ TailInv /\ [Next]_vars
        => TailInv'
<1> SUFFICES ASSUME TypeInv, LockInv, IdInv, WorkInv, HookInv, RowInv, TailInv, [Next]_vars
             PROVE  TailInv'
    OBVIOUS
<1> USE DEF Owning, Telling
<1>0. /\ Len(g_tasks) \in Nat /\ Len(rows) \in Nat /\ epoch \in Nat /\ ex_id \in Nat
      /\ rows \in Seq(Row) /\ ipc_id \in Nat
      /\ ex_slice \in {"nowhere", "list", "freed"} /\ ex_tail \in TailText
      /\ \A r \in 1..Len(rows) : rows[r] \in Row
      /\ ex_pc \in Owning \cup Telling => ex_idx \in 1..Len(g_tasks)
    BY LenProperties, ElementOfSeq DEF TypeInv, TypeOK, IndexInv
<1>a. \A r \in 1..Len(rows) : rows[r].by.epoch \in Nat /\ rows[r].by.task \in Nat
    BY <1>0 DEF Row
<1>1. ASSUME UNCHANGED <<ex_pc, ex_idx, ex_slice, ex_tail, g_tasks, rows, epoch>>
      PROVE  TailInv'
    BY <1>1 DEF TailInv, NewestTailIsOwn
<1>2. CASE IpcAppend
    <2>1. /\ Len(g_tasks') = Len(g_tasks) + 1
          /\ UNCHANGED <<ex_pc, ex_idx, ex_tail, rows, epoch>>
          /\ \/ ex_slice' = ex_slice
             \/ ex_slice = "list" /\ ex_slice' = "freed"
        BY <1>2, AppendStores DEF TypeInv, IpcAppend, Relocate
    <2>2. \A r \in 1..Len(rows) : rows[r].by # [epoch |-> epoch, task |-> Len(g_tasks) + 1]
        BY <1>0 DEF TailInv
    <2>3. NewestTailIsOwn'
        BY <2>1, <2>2 DEF NewestTailIsOwn
    <2>4. \A r \in 1..Len(rows) :
              /\ rows[r].by.epoch <= epoch
              /\ rows[r].by.epoch = epoch => rows[r].by.task <= Len(g_tasks) + 1
        BY <1>0, <1>a DEF TailInv
    <2>5. QED
        BY <1>0, <2>1, <2>3, <2>4 DEF TailInv
<1>3. CASE IpcInserted
    <2>1. /\ ipc_pc = "inserting"
          /\ InsertRow(ipc_id) \/ UNCHANGED rows
          /\ UNCHANGED <<ex_pc, ex_idx, ex_slice, ex_tail, g_tasks, epoch>>
        BY <1>3 DEF IpcInserted, queueVars, exVars, exTail
    <2>2. CASE InsertRow(ipc_id)
        <3>1. /\ Len(rows') = Len(rows) + 1
              /\ \A r \in 1..Len(rows) : rows'[r] = rows[r]
              /\ rows'[Len(rows) + 1].state = "pending"
              /\ rows'[Len(rows) + 1].by = [epoch |-> epoch, task |-> ipc_id]
            BY <1>0, <2>2, InsertRowStores
        <3>2. ipc_id <= Len(g_tasks)
            <4>1. ipc_id \in 1..Len(g_tasks)
                BY <2>1 DEF RowInv
            <4>2. QED
                BY <1>0, <4>1
        <3>3. \A r \in 1..Len(rows') : r \in 1..Len(rows) \/ r = Len(rows) + 1
            BY <1>0, <3>1
        <3>4. NewestTailIsOwn'
            BY <2>1, <3>1, <3>3 DEF TailInv, NewestTailIsOwn, Terminal
        <3>5. QED
            BY <1>0, <2>1, <3>1, <3>2, <3>3, <3>4 DEF TailInv
    <2>3. QED
        BY <1>1, <2>1, <2>2
<1>4. ASSUME NEW s \in TaskState, NEW tail \in TailText, UpdateRow(ex_id, s, tail),
             ex_id <= Len(g_tasks),
             s \in Terminal /\ ex_id = Len(g_tasks) => tail = "own",
             UNCHANGED <<g_tasks, epoch>>
      PROVE  /\ NewestTailIsOwn'
             /\ \A r \in 1..Len(rows') :
                   /\ rows'[r].by.epoch <= epoch'
                   /\ rows'[r].by.epoch = epoch' => rows'[r].by.task <= Len(g_tasks')
    <2>1. /\ Len(rows') = Len(rows)
          /\ \A r \in 1..Len(rows) :
                /\ r # ex_id => rows'[r] = rows[r]
                /\ r = ex_id => /\ rows'[r].state = s
                                /\ rows'[r].by = [epoch |-> epoch, task |-> ex_id]
                                /\ tail # "none" => rows'[r].tail = tail
        BY <1>0, <1>4, UpdateRowStores
    <2>2. NewestTailIsOwn'
        BY <1>4, <2>1 DEF TailInv, NewestTailIsOwn
    <2>3. QED
        BY <1>0, <1>4, <2>1, <2>2 DEF TailInv
<1>5. CASE ExStarted
    <2>1. /\ ex_pc = "starting" /\ ex_pc' = "exec"
          /\ UpdateRow(ex_id, "running", "none") \/ UNCHANGED rows
          /\ UNCHANGED <<ex_slice, ex_tail, g_tasks, epoch>>
        BY <1>5 DEF ExStarted, queueVars, exTail
    <2>2. ex_id <= Len(g_tasks)
        BY <1>0, <2>1 DEF IdInv, Knowing
    <2>3. "running" \in TaskState \ Terminal /\ "none" \in TailText
        BY DEF TaskState, Terminal, TailText
    <2>4. CASE UpdateRow(ex_id, "running", "none")
        BY <1>4, <2>1, <2>2, <2>3, <2>4 DEF TailInv
    <2>5. CASE UNCHANGED rows
        BY <2>1, <2>5 DEF TailInv, NewestTailIsOwn
    <2>6. QED
        BY <2>1, <2>4, <2>5
<1>6. CASE ExFinish
    <2>1. /\ ex_pc = "finishing" /\ ex_pc' = "hook" /\ ex_slice' = "list"
          /\ UNCHANGED <<ex_tail, rows, epoch>>
        BY <1>6 DEF ExFinish
    <2>2. Len(g_tasks') = Len(g_tasks)
        BY <1>6, FinishStores
    <2>3. QED
        BY <2>1, <2>2 DEF TailInv, NewestTailIsOwn
<1>7. CASE ExHook
    <2>1. /\ ex_pc = "hook" /\ ex_pc' \in {"record", "sleep"}
          /\ ex_slice' = IF ex_pc' = "record" THEN ex_slice ELSE "nowhere"
          /\ UNCHANGED <<ex_idx, ex_tail, g_tasks, rows, epoch>>
        BY <1>7 DEF ExHook, queueVars
    <2>2. QED
        BY <2>1 DEF TailInv, NewestTailIsOwn
<1>8. CASE ExRecord
    <2>1. /\ ex_pc = "record" /\ ex_pc' = "recording" /\ ex_slice' = "nowhere"
          /\ ex_tail' \in {"own", "other"}
          /\ ex_tail' = "other" => ex_slice = "freed"
          /\ UNCHANGED <<ex_idx, g_tasks, rows, epoch>>
        BY <1>8 DEF ExRecord, queueVars
    <2>2. QED
        BY <2>1 DEF TailInv, NewestTailIsOwn
<1>9. CASE ExRecorded
    <2> DEFINE s == IF ex_final = "done" THEN "done" ELSE "failed"
    <2>1. /\ ex_pc = "recording" /\ ex_pc' = "sleep" /\ ex_tail' = "none"
          /\ UpdateRow(ex_id, s, ex_tail) \/ UNCHANGED rows
          /\ UNCHANGED <<ex_slice, g_tasks, epoch>>
        BY <1>9 DEF ExRecorded, queueVars
    <2>2. ex_id = ex_idx /\ ex_idx \in 1..Len(g_tasks)
        BY <1>0, <2>1 DEF IdInv, Knowing
    <2>3. ex_id = Len(g_tasks) => ex_tail = "own"
        BY <1>0, <2>1, <2>2 DEF TailInv, TailText
    <2>4. s \in TaskState
        BY DEF TaskState, Terminal
    <2> HIDE DEF s
    <2>5. CASE UpdateRow(ex_id, s, ex_tail)
        <3>1. ex_id <= Len(g_tasks)
            BY <1>0, <2>2
        <3>2. /\ NewestTailIsOwn'
              /\ \A r \in 1..Len(rows') :
                    /\ rows'[r].by.epoch <= epoch'
                    /\ rows'[r].by.epoch = epoch' => rows'[r].by.task <= Len(g_tasks')
            BY <1>0, <1>4, <2>1, <2>3, <2>4, <2>5, <3>1
        <3>3. QED
            BY <2>1, <3>2 DEF TailInv
    <2>6. CASE UNCHANGED rows
        BY <2>1, <2>6 DEF TailInv, NewestTailIsOwn
    <2>7. QED
        BY <2>1, <2>5, <2>6
<1>10. CASE ExClaim
    <2>1. /\ ex_pc = "claiming" /\ ex_pc' = "fetch"
          /\ UNCHANGED <<ex_slice, ex_tail, rows, epoch>>
        BY <1>10 DEF ExClaim, exTail
    <2>2. Len(g_tasks') = Len(g_tasks)
        BY <1>10, ClaimStores DEF TypeInv
    <2>3. QED
        BY <2>1, <2>2 DEF TailInv, NewestTailIsOwn
<1>11. CASE ExLock \/ ExWake \/ ExClaimNothing \/ ExFetch \/ ExStart \/ ExExec
    <2>1. /\ ex_pc \notin Telling /\ ex_pc' \notin Telling
          /\ UNCHANGED <<ex_slice, ex_tail, g_tasks, rows, epoch>>
        BY <1>11 DEF ExLock, Critical, ExWake, ExClaimNothing, ExFetch, ExStart, ExExec,
                     queueVars, exTail
    <2>2. QED
        BY <2>1 DEF TailInv, NewestTailIsOwn
<1>12. CASE Restart
    <2>1. /\ ex_pc' = "sleep" /\ ex_slice' = "nowhere" /\ ex_tail' = "none"
          /\ epoch' = epoch + 1 /\ UNCHANGED rows
        BY <1>12 DEF Restart
    <2>2. \A r \in 1..Len(rows) : rows[r].by.epoch <= epoch' /\ rows[r].by.epoch # epoch'
        BY <1>0, <1>a, <2>1 DEF TailInv
    <2>3. \A r \in 1..Len(rows) :
              rows[r].by # [epoch |-> epoch', task |-> Len(g_tasks')]
        BY <2>2
    <2>4. NewestTailIsOwn'
        BY <2>1, <2>3 DEF NewestTailIsOwn
    <2>5. QED
        BY <2>1, <2>2, <2>4 DEF TailInv
<1>13. CASE IpcServe /\ ~IpcAppend /\ ~IpcInserted
    BY <1>1, <1>13 DEF IpcServe, IpcLock, IpcTakeId, IpcAppendFails, IpcRead, IpcInsert,
                       queueVars, exVars, exTail
<1>14. ASSUME NEW req \in Request, IpcAccept(req)
      PROVE  TailInv'
    BY <1>1, <1>14 DEF IpcAccept, queueVars, exVars, exTail
<1>15. CASE UNCHANGED vars
    BY <1>1, <1>15 DEF vars, queueVars, exVars, exTail
<1>16. QED
    BY <1>2, <1>3, <1>5, <1>6, <1>7, <1>8, <1>9, <1>10, <1>11, <1>12, <1>13, <1>14, <1>15
       DEF Next, ExWork

\* What the threads rely on holds before the first request.
LEMMA InvInit == Init => IInv
BY EmptySeq DEF Init, IInv, LockInv, IndexInv, IdInv, WorkInv, HookInv, RowInv,
                TailInv, NewestTailIsOwn, AlignedRowNeverAhead, Owning, Telling, Knowing, Ran, IpcCritical,
                ExCritical, LockLost

\* The parts of the invariant need each other, so they are carried together:
\* no interleaving of the two threads, and no restart, breaks any of them.
THEOREM InvariantHolds == Spec => [](TypeInv /\ IInv)
<1>1. Init => TypeInv /\ IInv
    BY TypeInit, InvInit
<1>2. TypeInv /\ IInv /\ [Next]_vars => (TypeInv /\ IInv)'
    BY TypeStep, LockStep, IdStep, WorkStep, HookStep, RowStep, TailStep DEF IInv, TypeInv
<1>3. QED
    BY <1>1, <1>2, PTL DEF Spec

-----------------------------------------------------------------------------
(* What the invariant gives                                                *)

\* Only one of the two threads is ever inside a critical section of the list.
THEOREM MutualExclusionHolds == Spec => []MutualExclusion
<1>1. IInv => MutualExclusion
    BY DEF IInv, LockInv, MutualExclusion
<1>2. QED
    BY <1>1, InvariantHolds, PTL

\* Whatever precedes a task that was claimed is finished.
THEOREM WorkedInOrderHolds == Spec => []WorkedInOrder
<1>1. TypeInv /\ IInv => WorkedInOrder
    <2> SUFFICES ASSUME TypeInv, IInv,
                        NEW i \in 1..Len(g_tasks), NEW j \in 1..Len(g_tasks),
                        i < j, g_tasks[j].state # "pending"
                 PROVE  g_tasks[i].state \in Terminal
        BY DEF WorkedInOrder
    <2>1. Len(g_tasks) \in Nat /\ Len(ran) \in Nat
        BY LenProperties DEF TypeInv, TypeOK
    <2>2. IF ex_pc \in Owning THEN i # ex_idx /\ i <= Len(ran) ELSE i <= Len(ran)
        BY <2>1 DEF IInv, WorkInv, Ran, Owning
    <2>3. QED
        BY <2>1, <2>2 DEF IInv, WorkInv
<1>2. QED
    BY <1>1, InvariantHolds, PTL

\* The k-th command run is that of task k, and a task is terminal only if its
\* command was run.
THEOREM CommandsRunOnceHolds == Spec => []CommandsRunOnce
<1>1. TypeInv /\ IInv => CommandsRunOnce
    <2> SUFFICES ASSUME TypeInv, IInv
                 PROVE  CommandsRunOnce
        OBVIOUS
    <2>1. Len(g_tasks) \in Nat /\ Len(ran) \in Nat
        BY LenProperties DEF TypeInv, TypeOK
    <2>2. \A k \in 1..Len(ran) : ran[k] = k /\ k <= Len(g_tasks)
        BY <2>1 DEF IInv, WorkInv
    <2>3. ASSUME NEW i \in 1..Len(g_tasks)
          PROVE  /\ g_tasks[i].state \in Terminal => i <= Len(ran)
                 /\ g_tasks[i].state = "pending" => i > Len(ran)
        BY <2>1 DEF IInv, WorkInv, Terminal
    <2>4. QED
        BY <2>2, <2>3 DEF CommandsRunOnce
<1>2. QED
    BY <1>1, InvariantHolds, PTL

\* The hooks are told of every finished task once and in order, and are told
\* what the list says of it.
THEOREM HookTellsOutcomeHolds == Spec => []HookTellsOutcome
<1>1. TypeInv /\ IInv => HookTellsOutcome
    <2> SUFFICES ASSUME TypeInv, IInv
                 PROVE  HookTellsOutcome
        OBVIOUS
    <2>1. Len(g_tasks) \in Nat /\ Len(ran) \in Nat /\ Len(fired) \in Nat
        BY LenProperties DEF TypeInv, TypeOK
    <2>2. \A k \in 1..Len(fired) : k <= Len(g_tasks) /\ fired[k] = g_tasks[k]
        BY <2>1 DEF IInv, HookInv, WorkInv
    <2>3. ASSUME NEW i \in 1..Len(g_tasks), g_tasks[i].state \in Terminal
          PROVE  i <= Len(fired) \/ (i = Len(fired) + 1 /\ i = ex_idx /\ ex_pc = "hook")
        <3>1. i <= Len(ran)
            BY <2>1, <2>3 DEF IInv, WorkInv, Terminal
        <3>2. ex_pc \in Ran => i # ex_idx
            BY <2>3 DEF IInv, WorkInv, Ran, Owning, Terminal
        <3>3. QED
            BY <2>1, <3>1, <3>2 DEF IInv, WorkInv, HookInv, Ran, Owning, Telling
    <2>4. QED
        BY <2>2, <2>3 DEF HookTellsOutcome
<1>2. QED
    BY <1>1, InvariantHolds, PTL

\* The row that tells of the end of the newest task holds what it printed.
THEOREM NewestTailIsOwnHolds == Spec => []NewestTailIsOwn
<1>1. IInv => NewestTailIsOwn
    BY DEF IInv, TailInv
<1>2. QED
    BY <1>1, InvariantHolds, PTL

\* A row under the id its task has in memory never runs ahead of the task.
THEOREM AlignedRowNeverAheadHolds == Spec => []AlignedRowNeverAhead
<1>1. IInv => AlignedRowNeverAhead
    BY DEF IInv, RowInv
<1>2. QED
    BY <1>1, InvariantHolds, PTL
-----------------------------------------------------------------------------
(* Answers to status requests never go back                                *)

\* The tasks begun and those finished are the first ones of the list, and how
\* many they are can be told from the executor's place.
Begun    == IF ex_pc \in Owning THEN ex_idx ELSE Len(ran)
Finished == IF ex_pc \in Owning THEN ex_idx - 1 ELSE Len(ran)

\* The last answer did not tell of more than there is by now.
StatusInv ==
    /\ status.total <= Len(g_tasks)
    /\ status.total - status.pending <= Begun
    /\ status.total - status.pending - status.running <= Finished

\* How far the executor is.
LEMMA ProgressType ==
    ASSUME TypeInv, WorkInv
    PROVE  /\ Begun \in 0..Len(g_tasks)
           /\ Finished \in 0..Begun
           /\ ex_pc \in Owning => ex_idx = Begun /\ Finished = Begun - 1
           /\ ex_pc \notin Owning => Finished = Begun
<1>1. Len(g_tasks) \in Nat /\ Len(ran) \in Nat
    BY LenProperties DEF TypeInv, TypeOK
<1>2. CASE ex_pc \in Owning
    <2>1. ex_idx \in 1..Len(g_tasks)
        BY <1>2 DEF TypeInv, IndexInv
    <2>2. QED
        BY <1>1, <1>2, <2>1 DEF Begun, Finished
<1>3. CASE ex_pc \notin Owning
    BY <1>1, <1>3 DEF Begun, Finished, WorkInv
<1>4. QED
    BY <1>2, <1>3

\* What a request that counts the list finds there.
LEMMA ProgressCounted ==
    ASSUME TypeInv, WorkInv
    PROVE  /\ Count("pending") = Len(g_tasks) - Begun
           /\ Count("running") = Begun - Finished
<1>1. Len(g_tasks) \in Nat /\ Begun \in 0..Len(g_tasks)
    BY ProgressType, LenProperties DEF TypeInv, TypeOK
<1>2. \A i \in 1..Len(g_tasks) :
          /\ g_tasks[i].state = "pending" <=> i > Begun
          /\ g_tasks[i].state = "running" <=> ex_pc \in Owning /\ i = ex_idx
    <2> SUFFICES ASSUME NEW i \in 1..Len(g_tasks)
                 PROVE  /\ g_tasks[i].state = "pending" <=> i > Begun
                        /\ g_tasks[i].state = "running" <=> ex_pc \in Owning /\ i = ex_idx
        OBVIOUS
    <2>1. Len(ran) \in Nat
        BY LenProperties DEF TypeInv, TypeOK
    <2>2. CASE ex_pc \in Owning /\ i = ex_idx
        BY <1>1, <2>2 DEF WorkInv, Begun
    <2>3. CASE ex_pc \in Owning /\ i # ex_idx
        <3>1. ex_idx \in 1..Len(g_tasks) /\ ex_idx \in {Len(ran), Len(ran) + 1}
            BY <2>3 DEF WorkInv, TypeInv, IndexInv
        <3>2. i <= Len(ran) <=> i < ex_idx
            BY <2>1, <2>3, <3>1 DEF WorkInv
        <3>3. QED
            BY <1>1, <2>1, <2>3, <3>1, <3>2 DEF WorkInv, Begun, Terminal
    <2>4. CASE ex_pc \notin Owning
        BY <1>1, <2>1, <2>4 DEF WorkInv, Begun, Terminal
    <2>5. QED
        BY <2>2, <2>3, <2>4
<1>3. Count("pending") = Len(g_tasks) - Begun
    <2>1. {i \in 1..Len(g_tasks) : g_tasks[i].state = "pending"} = (Begun + 1)..Len(g_tasks)
        BY <1>1, <1>2
    <2>2. Begun + 1 \in Int /\ Len(g_tasks) \in Int
        BY <1>1
    <2>3. Cardinality((Begun + 1)..Len(g_tasks))
              = IF Begun + 1 > Len(g_tasks) THEN 0 ELSE Len(g_tasks) - (Begun + 1) + 1
        BY ONLY <2>2, FS_Interval
    <2>4. Count("pending")
              = IF Begun + 1 > Len(g_tasks) THEN 0 ELSE Len(g_tasks) - (Begun + 1) + 1
        BY <2>1, <2>3 DEF Count
    <2>5. QED
        BY <1>1, <2>4
<1>4. CASE ex_pc \in Owning
    <2>1. {i \in 1..Len(g_tasks) : g_tasks[i].state = "running"} = {ex_idx}
        BY <1>2, <1>4 DEF TypeInv, IndexInv
    <2>2. Count("running") = 1
        BY <2>1, FS_Singleton DEF Count
    <2>3. QED
        BY <1>1, <1>3, <1>4, <2>2, ProgressType
<1>5. CASE ex_pc \notin Owning
    <2>1. {i \in 1..Len(g_tasks) : g_tasks[i].state = "running"} = {}
        BY <1>2, <1>5
    <2>2. Count("running") = 0
        BY <2>1, FS_EmptySet DEF Count
    <2>3. QED
        BY <1>1, <1>3, <1>5, <2>2, ProgressType
<1>6. QED
    BY <1>4, <1>5

\* A daemon's tasks never become fewer, and none is begun or finished less.
LEMMA ProgressStep ==
    ASSUME TypeInv, WorkInv, [Next]_vars, ~Restart
    PROVE  /\ Len(g_tasks') >= Len(g_tasks)
           /\ Begun' >= Begun
           /\ Finished' >= Finished
<1>0. /\ Len(g_tasks) \in Nat /\ Len(ran) \in Nat
      /\ Begun \in Nat /\ Finished \in Int
    BY ProgressType, LenProperties DEF TypeInv, TypeOK
<1>1. ASSUME NEW req \in Request, IpcAccept(req)
      PROVE  UNCHANGED <<g_tasks, Begun, Finished>>
    BY <1>1 DEF IpcAccept, queueVars, exVars, history, Begun, Finished
<1>2. CASE IpcAppend
    <2>1. Len(g_tasks') = Len(g_tasks) + 1
        BY <1>2, AppendStores DEF TypeInv
    <2>2. UNCHANGED <<Begun, Finished>>
        BY <1>2 DEF IpcAppend, exVars, history, Begun, Finished
    <2>3. QED
        BY <1>0, <2>1, <2>2
<1>3. CASE IpcServe /\ ~IpcAppend
    <2>1. UNCHANGED <<g_tasks, exVars, history>>
        BY <1>3 DEF IpcServe, IpcLock, IpcTakeId, IpcAppendFails, IpcRead, IpcInsert,
                    IpcInserted, queueVars
    <2>2. QED
        BY <1>0, <2>1 DEF Begun, Finished, exVars, history
<1>4. CASE ExClaim
    <2>1. Len(g_tasks') = Len(g_tasks) /\ ex_idx' = Len(ran) + 1
        BY <1>4, ClaimStores, ClaimsNext DEF TypeInv
    <2>2. ex_pc \notin Owning /\ ex_pc' \in Owning /\ UNCHANGED ran
        BY <1>4 DEF ExClaim, Owning, history
    <2>3. QED
        BY <1>0, <2>1, <2>2 DEF Begun, Finished
<1>5. CASE ExFinish
    <2>1. Len(g_tasks') = Len(g_tasks)
        BY <1>5, FinishStores
    <2>2. ex_pc = "finishing" /\ ex_pc' = "hook" /\ UNCHANGED <<ex_idx, ran>>
        BY <1>5 DEF ExFinish, history
    <2>3. ex_idx = Len(ran)
        BY <2>2 DEF WorkInv, Owning, Ran
    <2>4. QED
        BY <1>0, <2>1, <2>2, <2>3 DEF Begun, Finished, Owning
<1>6. CASE ExLock \/ (ExWork /\ ~ExClaim /\ ~ExFinish)
    <2>1. UNCHANGED <<g_tasks, ex_idx>>
        BY <1>6 DEF ExLock, ExWork, ExWake, ExClaimNothing, ExFetch, ExStart, ExStarted, ExExec,
                    ExHook, ExRecord, ExRecorded, queueVars
    <2>2. (ex_pc \in Owning /\ ex_pc' \in Owning)
              \/ (ex_pc \notin Owning /\ ex_pc' \notin Owning /\ UNCHANGED ran)
        BY <1>6 DEF ExLock, Critical, ExWork, ExWake, ExClaimNothing, ExFetch, ExStart, ExStarted,
                    ExExec, ExHook, ExRecord, ExRecorded, history, Owning
    <2>3. QED
        BY <1>0, <2>1, <2>2 DEF Begun, Finished
<1>7. CASE UNCHANGED vars
    BY <1>0, <1>7 DEF vars, queueVars, exVars, history, Begun, Finished
<1>8. QED
    BY <1>0, <1>1, <1>2, <1>3, <1>4, <1>5, <1>6, <1>7 DEF Next

\* An answer is either the one there was or what is counted in the list.
LEMMA AnswerStep ==
    ASSUME TypeInv, WorkInv, [Next]_vars, ~Restart
    PROVE  \/ status' = status
           \/ /\ status' = [total |-> Len(g_tasks), pending |-> Len(g_tasks) - Begun,
                            running |-> Begun - Finished]
              /\ UNCHANGED <<g_tasks, Begun, Finished>>
<1>1. CASE IpcRead
    <2>1. UNCHANGED <<g_tasks, Begun, Finished>>
        BY <1>1 DEF IpcRead, queueVars, exVars, history, Begun, Finished
    <2>2. \/ status' = status
          \/ status' = [total |-> Len(g_tasks), pending |-> Count("pending"),
                        running |-> Count("running")]
        BY <1>1 DEF IpcRead
    <2>3. QED
        BY <2>1, <2>2, ProgressCounted
<1>2. ASSUME NEW req \in Request, IpcAccept(req)
      PROVE  status' = status
    BY <1>2 DEF IpcAccept
<1>3. CASE IpcServe /\ ~IpcRead
    BY <1>3 DEF IpcServe, IpcLock, IpcTakeId, IpcAppend, IpcAppendFails, IpcInsert, IpcInserted
<1>4. CASE ExLock \/ ExWork
    BY <1>4 DEF ExLock, ExWork, ExWake, ExClaim, ExClaimNothing, ExFetch, ExStart, ExStarted,
                ExExec, ExFinish, ExHook, ExRecord, ExRecorded, ipcVars
<1>5. CASE UNCHANGED vars
    BY <1>5 DEF vars, ipcVars
<1>6. QED
    BY <1>1, <1>2, <1>3, <1>4, <1>5 DEF Next

\* No status has been asked for.
LEMMA StatusInit == Init => StatusInv
BY EmptySeq DEF Init, StatusInv, NoStatus, Begun, Finished, Owning

\* Every step keeps StatusInv.
LEMMA StatusStep == TypeInv /\ WorkInv /\ StatusInv /\ [Next]_vars => StatusInv'
<1> SUFFICES ASSUME TypeInv, WorkInv, StatusInv, [Next]_vars
             PROVE  StatusInv'
    OBVIOUS
<1>1. CASE Restart
    BY <1>1, EmptySeq DEF Restart, StatusInv, NoStatus, Begun, Finished, Owning
<1>2. CASE ~Restart
    <2>1. /\ Len(g_tasks) \in Nat /\ Begun \in Nat /\ Finished \in Nat
          /\ status \in [total : Nat, pending : Nat, running : Nat]
        BY ProgressType, LenProperties DEF TypeInv, TypeOK
    <2>2. CASE UNCHANGED <<g_tasks, Begun, Finished>>
              /\ status' = [total |-> Len(g_tasks), pending |-> Len(g_tasks) - Begun,
                            running |-> Begun - Finished]
        BY <2>1, <2>2 DEF StatusInv
    <2>3. CASE status' = status
        <3>1. TypeInv' /\ Len(g_tasks') \in Nat
            BY TypeStep, LenProperties DEF TypeInv, TypeOK
        <3>2. Len(ran') \in Nat /\ ex_idx' \in Nat
            BY <3>1, LenProperties DEF TypeInv, TypeOK
        <3>3. Begun' \in Int /\ Finished' \in Int
            BY <3>2 DEF Begun, Finished
        <3>4. QED
            BY <1>2, <2>1, <2>3, <3>1, <3>3, ProgressStep DEF StatusInv
    <2>4. QED
        BY <1>2, <2>2, <2>3, AnswerStep
<1>3. QED
    BY <1>1, <1>2

\* Two status answers of one daemon never see the queue go back, however the
\* executor's claims and results fall between them.
THEOREM StatusNeverGoesBackHolds == Spec => StatusNeverGoesBack
<1> DEFINE Forward ==
        epoch' = epoch =>
          /\ status'.total >= status.total
          /\ status'.total - status'.pending >= status.total - status.pending
          /\ status'.total - status'.pending - status'.running
                 >= status.total - status.pending - status.running
<1>1. TypeInv /\ IInv /\ StatusInv /\ [Next]_vars => [Forward]_<<status, epoch>>
    <2> SUFFICES ASSUME TypeInv, IInv, StatusInv, [Next]_vars, epoch' = epoch
                 PROVE  Forward
        OBVIOUS
    <2>1. WorkInv /\ ~Restart
        BY DEF IInv, Restart, TypeInv, TypeOK
    <2>2. /\ Len(g_tasks) \in Nat /\ Begun \in Nat /\ Finished \in Nat
          /\ status \in [total : Nat, pending : Nat, running : Nat]
        BY <2>1, ProgressType, LenProperties DEF TypeInv, TypeOK
    <2>3. CASE status' = status
        BY <2>2, <2>3
    <2>4. CASE status' = [total |-> Len(g_tasks), pending |-> Len(g_tasks) - Begun,
                          running |-> Begun - Finished]
        BY <2>2, <2>4 DEF StatusInv
    <2>5. QED
        BY <2>1, <2>3, <2>4, AnswerStep
<1>2. TypeInv /\ IInv /\ StatusInv /\ [Next]_vars => StatusInv'
    BY StatusStep DEF IInv
<1>3. QED
    BY <1>1, <1>2, StatusInit, InvariantHolds, PTL DEF Spec, StatusNeverGoesBack
-----------------------------------------------------------------------------
(* The queue implements TaskService                                        *)

\* What the client sees of the list.
JobsAgree ==
    /\ Len(g_tasks) \in Nat
    /\ jobs \in Seq(TaskState)
    /\ Len(jobs) = Len(g_tasks)
    /\ DOMAIN jobs = 1..Len(g_tasks)
    /\ \A i \in 1..Len(g_tasks) : jobs[i] = g_tasks[i].state

\* The jobs are the states of the list's tasks.
LEMMA JobsType == TypeInv => JobsAgree
<1> SUFFICES ASSUME TypeInv
             PROVE  JobsAgree
    OBVIOUS
<1>1. Len(g_tasks) \in Nat
    BY LenProperties DEF TypeInv, TypeOK
<1>2. \A i \in 1..Len(g_tasks) : g_tasks[i] \in Task
    BY ElementOfSeq DEF TypeInv, TypeOK
<1>3. \A i \in 1..Len(g_tasks) : g_tasks[i].state \in TaskState
    BY <1>2 DEF Task
<1>4. QED
    BY <1>1, <1>3 DEF jobs, JobsAgree

\* Every step is one of the service's, or one no client can see.
LEMMA JobsStep == TypeInv /\ IInv /\ [Next]_vars => [Service!Next]_jobs
<1> SUFFICES ASSUME TypeInv, IInv, [Next]_vars
             PROVE  [Service!Next]_jobs
    OBVIOUS
<1>a. /\ Len(g_tasks) \in Nat /\ jobs \in Seq(TaskState) /\ Len(jobs) = Len(g_tasks)
      /\ DOMAIN jobs = 1..Len(g_tasks)
      /\ \A i \in 1..Len(g_tasks) : jobs[i] = g_tasks[i].state
    BY JobsType DEF JobsAgree
<1>b. /\ Len(g_tasks') \in Nat /\ jobs' \in Seq(TaskState) /\ Len(jobs') = Len(g_tasks')
      /\ \A i \in 1..Len(g_tasks') : jobs'[i] = g_tasks'[i].state
    <2>1. TypeInv' => JobsAgree'
        BY JobsType, PTL
    <2>2. QED
        BY <2>1, TypeStep DEF JobsAgree
<1>1. CASE UNCHANGED g_tasks
    BY <1>1 DEF jobs
<1>2. CASE IpcAppend
    <2>1. /\ Len(g_tasks') = Len(g_tasks) + 1
          /\ \A j \in 1..Len(g_tasks) : g_tasks'[j] = g_tasks[j]
          /\ g_tasks'[Len(g_tasks) + 1].state = "pending"
        BY <1>2, AppendStores DEF TypeInv
    <2>2. /\ Append(jobs, "pending") \in Seq(TaskState)
          /\ Len(Append(jobs, "pending")) = Len(g_tasks) + 1
          /\ \A j \in 1..Len(g_tasks) : Append(jobs, "pending")[j] = jobs[j]
          /\ Append(jobs, "pending")[Len(g_tasks) + 1] = "pending"
        BY <1>a, AppendProperties DEF TaskState
    <2>3. \A j \in 1..(Len(g_tasks) + 1) : j \in 1..Len(g_tasks) \/ j = Len(g_tasks) + 1
        BY <1>a
    <2>4. \A j \in 1..Len(jobs') : jobs'[j] = Append(jobs, "pending")[j]
        BY <1>a, <1>b, <2>1, <2>2, <2>3
    <2>5. jobs' = Append(jobs, "pending")
        BY <1>a, <1>b, <2>1, <2>2, <2>4, SeqEqual
    <2>6. QED
        BY <2>5 DEF Service!Next, Service!Submit
<1>3. ASSUME NEW i \in 1..Len(g_tasks), NEW s \in TaskState,
             Len(g_tasks') = Len(g_tasks), g_tasks'[i].state = s,
             \A j \in 1..Len(g_tasks) : j # i => g_tasks'[j] = g_tasks[j]
      PROVE  jobs' = [jobs EXCEPT ![i] = s]
    <2>1. /\ [jobs EXCEPT ![i] = s] \in Seq(TaskState)
          /\ Len([jobs EXCEPT ![i] = s]) = Len(g_tasks)
          /\ \A j \in 1..Len(g_tasks) :
                [jobs EXCEPT ![i] = s][j] = IF j = i THEN s ELSE jobs[j]
        BY <1>3, <1>a, ExceptSeq
    <2>2. \A j \in 1..Len(jobs') : jobs'[j] = [jobs EXCEPT ![i] = s][j]
        BY <1>3, <1>a, <1>b, <2>1
    <2>3. QED
        BY <1>3, <1>a, <1>b, <2>1, <2>2, SeqEqual
<1>4. CASE ExClaim
    <2>1. ex_idx' \in 1..Len(g_tasks)
        BY <1>4, ClaimStores DEF TypeInv
    <2>2. jobs' = [jobs EXCEPT ![ex_idx'] = "running"]
        BY <1>3, <1>4, <2>1, ClaimStores DEF TypeInv, TaskState
    <2>3. jobs[ex_idx'] = "pending"
        BY <1>4, <1>a, <2>1, ClaimStores DEF TypeInv, IsFirstPending
    <2>4. \A j \in 1..(ex_idx' - 1) : jobs[j] \in Service!Terminal
        <3>1. ex_idx' = Len(ran) + 1 /\ ex_pc \notin Owning /\ Len(ran) \in Nat
            BY <1>4, ClaimsNext, LenProperties
               DEF IInv, ExClaim, Owning, TypeInv, TypeOK
        <3>2. \A j \in 1..(ex_idx' - 1) : j \in 1..Len(g_tasks) /\ j <= Len(ran)
            BY <1>a, <2>1, <3>1
        <3>3. QED
            BY <1>a, <3>1, <3>2 DEF IInv, WorkInv, Terminal, Service!Terminal
    <2>5. QED
        BY <1>a, <2>1, <2>2, <2>3, <2>4 DEF Service!Next, Service!Begin
<1>5. CASE ExFinish
    <2> DEFINE s == FinalState(ex_result)
    <2>1. /\ ex_idx \in 1..Len(g_tasks) /\ Len(g_tasks') = Len(g_tasks)
          /\ g_tasks'[ex_idx].state = s
          /\ \A j \in 1..Len(g_tasks) : j # ex_idx => g_tasks'[j] = g_tasks[j]
        BY <1>5, FinishStores
    <2>2. s \in Service!Terminal /\ s \in TaskState
        BY ResultType DEF TypeInv, Terminal, TaskState, Service!Terminal
    <2>3. jobs[ex_idx] = "running"
        BY <1>5, <1>a, <2>1 DEF ExFinish, IInv, WorkInv, Owning
    <2> HIDE DEF s
    <2>4. jobs' = [jobs EXCEPT ![ex_idx] = s]
        BY <1>3, <2>1, <2>2
    <2>5. QED
        BY <1>a, <2>1, <2>2, <2>3, <2>4 DEF Service!Next, Service!Finish
<1>6. CASE Restart
    <2>1. g_tasks' = <<>>
        BY <1>6 DEF Restart
    <2>2. jobs' = <<>>
        BY <1>b, <2>1, EmptySeq, SeqEqual
    <2>3. QED
        BY <2>2 DEF Service!Next, Service!Forget
<1>7. QED
    BY <1>1, <1>2, <1>4, <1>5, <1>6
       DEF Next, vars, queueVars, ipcVars, IpcAccept, IpcServe, IpcLock, IpcTakeId,
           IpcAppendFails, IpcRead, IpcInsert, IpcInserted, ExLock, ExWork, ExWake,
           ExClaimNothing, ExFetch, ExStart, ExStarted, ExExec, ExHook, ExRecord, ExRecorded

\* To a client, the threads, the lock and the table do not exist: what it can
\* observe of its tasks is what TaskService promises.
THEOREM QueueImplementsService == Spec => ImplementsService
<1>1. Init => Service!Init
    BY EmptySeq DEF Init, jobs, Service!Init
<1>2. QED
    BY <1>1, InvariantHolds, JobsStep, PTL DEF Spec, ImplementsService, Service!Spec
=============================================================================
