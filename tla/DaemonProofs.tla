------------------------------ MODULE DaemonProofs ------------------------------
(***************************************************************************)
(* The daemon's tables and its life cycle: the board's audit trail, proved *)
(* for any number of tasks and requests; start, stop and status, for any   *)
(* number of pids, terminals, starts and crashes; the keys of the entity   *)
(* store, its log of reinforcements and the answers to context requests,   *)
(* for any names, relations and bounds.  Board and store are on the same   *)
(* connection.                                                             *)
(***************************************************************************)
EXTENDS DaemonTables, FiniteSetTheorems, SetInduction

-----------------------------------------------------------------------------
(* The board: the inductive invariant                                      *)

Task == [status : Statuses, started : 0..served, completed : 0..served,
         events : Seq(Statuses), unlogged : BOOLEAN]

BoardTypeInv ==
    /\ served \in Nat
    /\ tasks \in Seq(Task)
    /\ links \subseteq (DOMAIN tasks) \X (DOMAIN tasks)

\* A request that is between its two statements, and stamps that are not Never.
RequestInv ==
    /\ req.at # "idle" => served # Never
    /\ req.at = "created" => /\ req.task \in DOMAIN tasks
                             /\ tasks[req.task].status = "triage"
    /\ req.at = "moved" /\ req.task \in DOMAIN tasks => tasks[req.task].status = req.status

\* What the task went through, the move in hand included.
Past(id) == Range(tasks[id].events) \cup
            (IF req.at = "moved" /\ req.task = id THEN {req.status} ELSE {})

TaskInv(id) ==
    tasks[id].unlogged \/
    /\ Pending(id) \/ (tasks[id].events # <<>> /\ Last(tasks[id].events) = tasks[id].status)
    /\ tasks[id].started # Never <=> "running" \in Past(id)
    /\ tasks[id].completed # Never <=> Past(id) \cap Closed # {}

BoardInv == BoardTypeInv /\ RequestInv /\ \A id \in DOMAIN tasks : TaskInv(id)

-----------------------------------------------------------------------------
(* Lemmas                                                                  *)

\* The last event and the set of events after one more.
LEMMA OneMoreEvent ==
    ASSUME NEW S, NEW seq \in Seq(S), NEW e \in S
    PROVE  /\ Append(seq, e) \in Seq(S) /\ Append(seq, e) # <<>>
           /\ Last(Append(seq, e)) = e
           /\ Range(Append(seq, e)) = Range(seq) \cup {e}
<1>1. /\ Append(seq, e) \in Seq(S) /\ Len(Append(seq, e)) = Len(seq) + 1
      /\ \A i \in 1..Len(seq) : Append(seq, e)[i] = seq[i]
      /\ Append(seq, e)[Len(seq) + 1] = e /\ Len(seq) \in Nat
    OBVIOUS
<1>2. DOMAIN seq = 1..Len(seq) /\ DOMAIN Append(seq, e) = 1..(Len(seq) + 1)
    BY <1>1
<1>3. Append(seq, e) # <<>> /\ Last(Append(seq, e)) = e
    BY <1>1 DEF Last
<1>4. Range(Append(seq, e)) = Range(seq) \cup {e}
    BY <1>1, <1>2 DEF Range
<1> QED BY <1>1, <1>3, <1>4

\* A set with one more element met Closed before or that element is of it.
LEMMA OneMorePast ==
    ASSUME NEW S, NEW e
    PROVE  (S \cup {e}) \cap Closed # {} <=> (S \cap Closed # {} \/ e \in Closed)
OBVIOUS

\* A step that leaves the tasks alone, outside of the two-statement requests.
LEMMA TasksAlone ==
    ASSUME BoardInv, UNCHANGED tasks, links' \subseteq (DOMAIN tasks) \X (DOMAIN tasks),
           served' \in {served, served + 1}, req'.at # "idle" => served' # Never,
           req.at \notin {"created", "moved"}, req'.at \notin {"created", "moved"}
    PROVE  BoardInv'
<1>1. BoardTypeInv'
    <2>1. served' \in Nat /\ 0..served \subseteq 0..served'
        BY DEF BoardInv, BoardTypeInv
    <2>2. tasks \in Seq(Task) /\ Task \subseteq Task'
        BY <2>1 DEF BoardInv, BoardTypeInv, Task
    <2>3. tasks' \in Seq(Task')
        BY <2>2
    <2> QED BY <2>1, <2>3 DEF BoardTypeInv
<1>2. RequestInv'
    BY DEF RequestInv
<1>3. ASSUME NEW id \in DOMAIN tasks'
      PROVE  TaskInv(id)'
    <2>1. TaskInv(id) /\ Past(id)' = Past(id) /\ ~Pending(id) /\ ~Pending(id)'
        BY DEF BoardInv, Past, Pending
    <2> QED BY <2>1 DEF TaskInv
<1> QED BY <1>1, <1>2, <1>3 DEF BoardInv

\* A step that puts t in the place of one task: the others are as they were
\* when no request begins or ends that is about them.
LEMMA OneTask ==
    ASSUME BoardInv, NEW i \in DOMAIN tasks, NEW t \in Task,
           tasks' = [tasks EXCEPT ![i] = t], UNCHANGED links,
           served' \in {served, served + 1},
           \A j \in DOMAIN tasks : j # i =>
               (Pending(j)' <=> Pending(j)) /\ Past(j)' = Past(j)
    PROVE  /\ BoardTypeInv' /\ tasks'[i] = t /\ DOMAIN tasks' = DOMAIN tasks
           /\ \A j \in DOMAIN tasks' : j # i => tasks'[j] = tasks[j] /\ TaskInv(j)'
<1>1. /\ served' \in Nat /\ 0..served \subseteq 0..served' /\ Task \subseteq Task'
      /\ tasks \in Seq(Task)
    <2>1. served' \in Nat /\ 0..served \subseteq 0..served' /\ tasks \in Seq(Task)
        BY DEF BoardInv, BoardTypeInv
    <2>2. Task \subseteq Task'
        BY <2>1 DEF Task
    <2> QED BY <2>1, <2>2
<1>2. /\ tasks' \in Seq(Task) /\ DOMAIN tasks' = DOMAIN tasks /\ tasks'[i] = t
      /\ \A j \in DOMAIN tasks' : j # i => tasks'[j] = tasks[j]
    <2>1. Len(tasks) \in Nat /\ DOMAIN tasks = 1..Len(tasks) /\ \A j \in DOMAIN tasks : tasks[j] \in Task
        BY <1>1
    <2>2. /\ DOMAIN tasks' = 1..Len(tasks) /\ tasks'[i] = t
          /\ \A j \in DOMAIN tasks : j # i => tasks'[j] = tasks[j]
        BY <2>1
    <2>3. tasks' \in [1..Len(tasks) -> Task]
        BY <2>1, <2>2
    <2> QED BY <2>1, <2>2, <2>3
<1>3. BoardTypeInv'
    <2>1. tasks' \in Seq(Task')
        BY <1>1, <1>2
    <2> QED BY <1>1, <1>2, <2>1 DEF BoardInv, BoardTypeInv
<1>4. ASSUME NEW j \in DOMAIN tasks', j # i
      PROVE  TaskInv(j)'
    <2>1. TaskInv(j) /\ tasks'[j] = tasks[j]
        BY <1>2, <1>4 DEF BoardInv
    <2>2. (Pending(j)' <=> Pending(j)) /\ Past(j)' = Past(j)
        BY <1>2, <1>4
    <2> QED BY <2>1, <2>2 DEF TaskInv
<1> QED BY <1>2, <1>3, <1>4

\* The second statement of a request writes the event of the task the first one
\* wrote, fails, or never runs.
LEMMA SecondStatement ==
    ASSUME BoardInv, NEW i \in DOMAIN tasks, req.at \in {"created", "moved"}, req.task = i,
           \/ tasks' = [tasks EXCEPT ![i].events = Append(@, tasks[i].status)]
           \/ tasks' = [tasks EXCEPT ![i].unlogged = TRUE],
           UNCHANGED links, served' \in {served, served + 1},
           req'.at \notin {"created", "moved"}, req'.at # "idle" => served' # Never
    PROVE  BoardInv'
<1> DEFINE s == tasks[i].status
           t == [tasks[i] EXCEPT !.events = Append(@, s)]
           u == [tasks[i] EXCEPT !.unlogged = TRUE]
<1>1. tasks[i] \in Task /\ s \in Statuses /\ tasks[i].events \in Seq(Statuses)
    <2>1. tasks[i] \in Task
        BY DEF BoardInv, BoardTypeInv
    <2> QED BY <2>1 DEF Task
<1>2. /\ Append(tasks[i].events, s) \in Seq(Statuses) /\ Append(tasks[i].events, s) # <<>>
      /\ Last(Append(tasks[i].events, s)) = s
      /\ Range(Append(tasks[i].events, s)) = Range(tasks[i].events) \cup {s}
    BY <1>1, OneMoreEvent
<1>3. t \in Task /\ u \in Task
    BY <1>1, <1>2 DEF Task
<1>4. tasks' = [tasks EXCEPT ![i] = t] \/ tasks' = [tasks EXCEPT ![i] = u]
    OBVIOUS
<1>5. \A j \in DOMAIN tasks : j # i => (Pending(j)' <=> Pending(j)) /\ Past(j)' = Past(j)
    <2>1. \A j \in DOMAIN tasks : j # i => tasks'[j] = tasks[j]
        BY <1>4
    <2> QED BY <2>1 DEF Pending, Past
<1>6. /\ BoardTypeInv' /\ DOMAIN tasks' = DOMAIN tasks /\ tasks'[i] \in {t, u}
      /\ \A j \in DOMAIN tasks' : j # i => TaskInv(j)'
    <2>1. CASE tasks' = [tasks EXCEPT ![i] = t]
        BY <1>3, <1>5, <2>1, OneTask
    <2>2. CASE tasks' = [tasks EXCEPT ![i] = u]
        BY <1>3, <1>5, <2>2, OneTask
    <2> QED BY <1>4, <2>1, <2>2
<1>7. RequestInv'
    BY DEF RequestInv
<1>8. TaskInv(i)'
    <2>1. CASE tasks'[i] = u
        <3>1. tasks'[i].unlogged
            BY <1>1, <2>1 DEF Task
        <3> QED BY <3>1 DEF TaskInv
    <2>2. CASE tasks'[i] = t /\ ~tasks[i].unlogged
        <3>1. /\ tasks'[i].started = tasks[i].started /\ tasks'[i].completed = tasks[i].completed
              /\ tasks'[i].status = s /\ tasks'[i].events = Append(tasks[i].events, s)
            BY <1>1, <2>2 DEF Task
        <3>2. Past(i)' = Range(tasks[i].events) \cup {s}
            BY <1>2, <3>1 DEF Past
        <3>3. /\ tasks[i].started # Never <=> "running" \in Past(i)
              /\ tasks[i].completed # Never <=> Past(i) \cap Closed # {}
            BY <2>2 DEF BoardInv, TaskInv
        <3>4. Past(i) = Past(i)' \/ (s = "triage" /\ Past(i) = Range(tasks[i].events))
            <4>1. CASE req.at = "moved"
                BY <3>2, <4>1 DEF Past, BoardInv, RequestInv
            <4>2. CASE req.at = "created"
                BY <4>2 DEF Past, BoardInv, RequestInv
            <4> QED BY <4>1, <4>2
        <3>5. /\ "running" \in Past(i) <=> "running" \in Past(i)'
              /\ Past(i) \cap Closed # {} <=> Past(i)' \cap Closed # {}
            <4>1. CASE Past(i) = Past(i)'
                BY <4>1
            <4>2. CASE s = "triage" /\ Past(i) = Range(tasks[i].events)
                BY <3>2, <4>2 DEF Closed
            <4> QED BY <3>4, <4>1, <4>2
        <3> QED BY <1>2, <3>1, <3>3, <3>5 DEF TaskInv, Never
    <2>3. CASE tasks'[i] = t /\ tasks[i].unlogged
        <3>1. tasks'[i].unlogged
            BY <1>1, <2>3 DEF Task
        <3> QED BY <3>1 DEF TaskInv
    <2> QED BY <1>6, <2>1, <2>2, <2>3
<1> QED BY <1>6, <1>7, <1>8 DEF BoardInv

-----------------------------------------------------------------------------
(* The actions                                                             *)

\* kanban.add gives the board a task without events, whose event is to come.
LEMMA AddTaskStep == BoardInv /\ AddTask => BoardInv'
<1> SUFFICES ASSUME BoardInv, AddTask PROVE BoardInv'
    OBVIOUS
<1> PICK n : n = Len(tasks) + 1
    OBVIOUS
<1>1. /\ tasks \in Seq(Task) /\ served \in Nat /\ served # Never
      /\ tasks' = Append(tasks, NewTask) /\ UNCHANGED <<links, served>>
      /\ req'.at = "created" /\ req'.task = n /\ req.at = "add"
    BY DEF BoardInv, BoardTypeInv, RequestInv, AddTask, Proceed
<1>2. NewTask \in Task /\ NewTask.status = "triage" /\ NewTask.started = Never
      /\ NewTask.completed = Never /\ NewTask.events = <<>>
    <2>1. NewTask.events \in Seq(Statuses) /\ 0 \in 0..served
        BY <1>1 DEF NewTask
    <2> QED BY <1>1, <2>1 DEF NewTask, Task, Statuses, Never
<1>3. /\ tasks' \in Seq(Task) /\ DOMAIN tasks = 1..Len(tasks) /\ Len(tasks) \in Nat
      /\ DOMAIN tasks' = 1..n /\ tasks'[n] = NewTask
      /\ \A j \in DOMAIN tasks : tasks'[j] = tasks[j]
    <2>1. /\ Append(tasks, NewTask) \in Seq(Task) /\ Len(tasks) \in Nat
          /\ Len(Append(tasks, NewTask)) = n /\ Append(tasks, NewTask)[n] = NewTask
          /\ \A j \in 1..Len(tasks) : Append(tasks, NewTask)[j] = tasks[j]
        BY <1>1, <1>2
    <2> QED BY <1>1, <2>1
<1>4. BoardTypeInv'
    <2>1. Task' = Task
        BY <1>1 DEF Task
    <2> QED BY <1>1, <1>3, <2>1 DEF BoardInv, BoardTypeInv
<1>5. RequestInv'
    BY <1>1, <1>2, <1>3 DEF RequestInv
<1>6. ASSUME NEW j \in DOMAIN tasks'
      PROVE  TaskInv(j)'
    <2>1. CASE j = n
        <3>1. Pending(n)' /\ Past(n)' = Range(<<>>)
            BY <1>1, <1>2, <1>3 DEF Pending, Past
        <3>2. Range(<<>>) = {}
            BY DEF Range
        <3> QED BY <1>2, <1>3, <2>1, <3>1, <3>2 DEF TaskInv
    <2>2. CASE j # n
        <3>1. j \in DOMAIN tasks /\ tasks'[j] = tasks[j] /\ TaskInv(j)
            BY <1>3, <2>2 DEF BoardInv
        <3>2. ~Pending(j) /\ ~Pending(j)' /\ Past(j)' = Past(j)
            BY <1>1, <1>3, <2>2, <3>1 DEF Pending, Past
        <3> QED BY <3>1, <3>2 DEF TaskInv
    <2> QED BY <2>1, <2>2
<1> QED BY <1>4, <1>5, <1>6 DEF BoardInv

\* kanban.move sets status and stamps together, for the event that is to come.
LEMMA MoveTaskStep == BoardInv /\ MoveTask => BoardInv'
<1> SUFFICES ASSUME BoardInv, MoveTask PROVE BoardInv'
    OBVIOUS
<1> PICK i, s : i = req.task /\ s = req.status
    OBVIOUS
<1> DEFINE m == Moved(tasks[i], s)
<1>1. /\ tasks \in Seq(Task) /\ served \in Nat /\ served # Never /\ req.at = "move"
      /\ UNCHANGED <<links, served>>
      /\ req'.at = "moved" /\ req'.task = i /\ req'.status = s
    BY DEF BoardInv, BoardTypeInv, RequestInv, MoveTask, Proceed
<1>2. CASE ~Known(i)
    <2>1. UNCHANGED tasks
        BY <1>2 DEF MoveTask
    <2>2. BoardTypeInv' /\ RequestInv'
        BY <1>1, <1>2, <2>1 DEF BoardInv, BoardTypeInv, RequestInv, Task, Known
    <2>3. ASSUME NEW j \in DOMAIN tasks'
          PROVE  TaskInv(j)'
        <3>1. j # i /\ TaskInv(j) /\ tasks'[j] = tasks[j]
            BY <1>2, <2>1 DEF BoardInv, Known
        <3>2. ~Pending(j) /\ ~Pending(j)' /\ Past(j)' = Past(j)
            BY <1>1, <3>1 DEF Pending, Past
        <3> QED BY <3>1, <3>2 DEF TaskInv
    <2> QED BY <2>2, <2>3 DEF BoardInv
<1>3. CASE Known(i)
    <2>1. i \in DOMAIN tasks /\ s \in Statuses /\ tasks' = [tasks EXCEPT ![i] = m]
        BY <1>3 DEF MoveTask, Known
    <2>2. tasks[i] \in Task
        BY <1>1, <2>1
    <2>3. /\ m \in Task /\ m.status = s /\ m.events = tasks[i].events
          /\ m.unlogged = tasks[i].unlogged
          /\ m.started # Never <=> (tasks[i].started # Never \/ s = "running")
          /\ m.completed # Never <=> (tasks[i].completed # Never \/ s \in Closed)
        <3>1. /\ tasks[i].started \in 0..served /\ tasks[i].completed \in 0..served
              /\ served \in 0..served
            BY <1>1, <2>2 DEF Task
        <3>2. m \in Task
            BY <1>1, <2>1, <2>2, <3>1 DEF Moved, Task
        <3>3. /\ m.status = s /\ m.events = tasks[i].events /\ m.unlogged = tasks[i].unlogged
              /\ m.started = IF s = "running" /\ tasks[i].started = Never THEN served
                             ELSE tasks[i].started
              /\ m.completed = IF s \in Closed THEN served ELSE tasks[i].completed
            BY <2>2 DEF Moved, Task
        <3> QED BY <1>1, <3>2, <3>3
    <2>4. \A j \in DOMAIN tasks : j # i => (Pending(j)' <=> Pending(j)) /\ Past(j)' = Past(j)
        <3>1. \A j \in DOMAIN tasks : j # i => tasks'[j] = tasks[j]
            BY <2>1
        <3> QED BY <1>1, <3>1 DEF Pending, Past
    <2>5. /\ BoardTypeInv' /\ tasks'[i] = m /\ DOMAIN tasks' = DOMAIN tasks
          /\ \A j \in DOMAIN tasks' : j # i => TaskInv(j)'
        BY <1>1, <2>1, <2>3, <2>4, OneTask
    <2>6. RequestInv'
        BY <1>1, <2>3, <2>5 DEF RequestInv
    <2>7. TaskInv(i)'
        <3>1. Past(i) = Range(tasks[i].events) /\ Past(i)' = Past(i) \cup {s} /\ Pending(i)'
            BY <1>1, <2>3, <2>5 DEF Past, Pending
        <3>2. tasks[i].unlogged \/
              /\ tasks[i].started # Never <=> "running" \in Past(i)
              /\ tasks[i].completed # Never <=> Past(i) \cap Closed # {}
            BY <2>1 DEF BoardInv, TaskInv
        <3>3. Past(i)' \cap Closed # {} <=> (Past(i) \cap Closed # {} \/ s \in Closed)
            BY <3>1, OneMorePast
        <3>4. "running" \in Past(i)' <=> ("running" \in Past(i) \/ s = "running")
            BY <3>1
        <3> QED BY <2>3, <2>5, <3>1, <3>2, <3>3, <3>4 DEF TaskInv
    <2> QED BY <2>5, <2>6, <2>7 DEF BoardInv
<1> QED BY <1>2, <1>3

\* The event of kanban.add and of kanban.move, written or not.
LEMMA EventStep == BoardInv /\ (AddEvent \/ MoveEvent) => BoardInv'
<1> SUFFICES ASSUME BoardInv, AddEvent \/ MoveEvent PROVE BoardInv'
    OBVIOUS
<1> PICK i : i = req.task
    OBVIOUS
<1>1. /\ req.at \in {"created", "moved"} /\ UNCHANGED <<links, served>> /\ served # Never
      /\ req'.at \notin {"created", "moved"} /\ served \in Nat
    BY DEF AddEvent, MoveEvent, Proceed, Answer, Idle, BoardInv, RequestInv, BoardTypeInv
<1>2. CASE i \in DOMAIN tasks
    <2>1. \/ AddEvent /\ tasks[i].status = "triage"
          \/ MoveEvent /\ tasks[i].status = req.status
        BY <1>2 DEF AddEvent, MoveEvent, BoardInv, RequestInv
    <2>2. \/ tasks' = [tasks EXCEPT ![i].events = Append(@, tasks[i].status)]
          \/ tasks' = [tasks EXCEPT ![i].unlogged = TRUE]
        BY <1>2, <2>1 DEF AddEvent, MoveEvent, LogEvent, LogFails, Known
    <2> QED BY <1>1, <1>2, <2>2, SecondStatement
<1>3. CASE i \notin DOMAIN tasks
    <2>1. UNCHANGED tasks
        BY <1>3 DEF AddEvent, MoveEvent, LogEvent, LogFails, Known
    <2>2. BoardTypeInv' /\ RequestInv'
        BY <1>1, <2>1 DEF BoardInv, BoardTypeInv, RequestInv, Task
    <2>3. ASSUME NEW j \in DOMAIN tasks'
          PROVE  TaskInv(j)'
        <3>1. j # i /\ TaskInv(j) /\ tasks'[j] = tasks[j]
            BY <1>3, <2>1 DEF BoardInv
        <3>2. ~Pending(j) /\ ~Pending(j)' /\ Past(j)' = Past(j)
            BY <1>1, <3>1 DEF Pending, Past
        <3> QED BY <3>1, <3>2 DEF TaskInv
    <2> QED BY <2>2, <2>3 DEF BoardInv
<1> QED BY <1>2, <1>3

\* The daemon's death, between two statements or elsewhere.
LEMMA BoardDiesStep == BoardInv /\ BoardDies => BoardInv'
<1> SUFFICES ASSUME BoardInv, BoardDies PROVE BoardInv'
    OBVIOUS
<1> PICK i : i = req.task
    OBVIOUS
<1>1. /\ served' = served + 1 /\ UNCHANGED links /\ req'.at = "idle" /\ served \in Nat
    BY DEF BoardDies, Die, Idle, BoardInv, BoardTypeInv
<1>2. CASE req.at \in {"created", "moved"} /\ i \in DOMAIN tasks
    <2>1. tasks' = [tasks EXCEPT ![i].unlogged = TRUE]
        BY <1>2 DEF BoardDies, LogFails, Known
    <2> QED BY <1>1, <1>2, <2>1, SecondStatement
<1>3. CASE req.at \in {"created", "moved"} /\ i \notin DOMAIN tasks
    <2>1. UNCHANGED tasks
        BY <1>3 DEF BoardDies, LogFails, Known
    <2>2. BoardTypeInv' /\ RequestInv'
        <3>1. 0..served \subseteq 0..served' /\ Task \subseteq Task'
            BY <1>1 DEF Task
        <3>2. tasks' \in Seq(Task')
            BY <2>1, <3>1 DEF BoardInv, BoardTypeInv
        <3> QED BY <1>1, <2>1, <3>2 DEF BoardInv, BoardTypeInv, RequestInv
    <2>3. ASSUME NEW j \in DOMAIN tasks'
          PROVE  TaskInv(j)'
        <3>1. j # i /\ TaskInv(j) /\ tasks'[j] = tasks[j]
            BY <1>3, <2>1 DEF BoardInv
        <3>2. ~Pending(j) /\ ~Pending(j)' /\ Past(j)' = Past(j)
            BY <1>1, <3>1 DEF Pending, Past
        <3> QED BY <3>1, <3>2 DEF TaskInv
    <2> QED BY <2>2, <2>3 DEF BoardInv
<1>4. CASE req.at \notin {"created", "moved"}
    <2>1. UNCHANGED tasks /\ links' \subseteq (DOMAIN tasks) \X (DOMAIN tasks)
        BY <1>1, <1>4 DEF BoardDies, BoardInv, BoardTypeInv
    <2> QED BY <1>1, <1>4, <2>1, TasksAlone
<1> QED BY <1>2, <1>3, <1>4

\* The requests of one statement, and the arrival of a request.
LEMMA OneStatementStep ==
    BoardInv /\ (BoardAccept \/ BoardReject \/ GetTask \/ ListTasks \/ LinkTasks) => BoardInv'
<1> SUFFICES ASSUME BoardInv, BoardAccept \/ BoardReject \/ GetTask \/ ListTasks \/ LinkTasks
             PROVE  BoardInv'
    OBVIOUS
<1>1. served \in Nat /\ links \subseteq (DOMAIN tasks) \X (DOMAIN tasks)
    BY DEF BoardInv, BoardTypeInv
<1>2. CASE BoardAccept
    <2>1. PICK r : Accept(r) /\ r.at \in {"add", "move", "link", "get", "list"}
        <3>1. CASE Accept([at |-> "add"])
            BY <3>1
        <3>2. CASE \E id \in TaskIds, w \in Words :
                    Accept([at |-> "move", task |-> id, status |-> w])
            BY <3>2
        <3>3. CASE \E p \in TaskIds, c \in TaskIds :
                    Accept([at |-> "link", parent |-> p, child |-> c])
            BY <3>3
        <3>4. CASE \E id \in TaskIds : Accept([at |-> "get", task |-> id])
            BY <3>4
        <3>5. CASE \E w \in Words \cup {AnyStatus} : Accept([at |-> "list", status |-> w])
            BY <3>5
        <3> QED BY <1>2, <3>1, <3>2, <3>3, <3>4, <3>5 DEF BoardAccept
    <2>2. /\ UNCHANGED <<tasks, links>> /\ served' = served + 1 /\ req' = r /\ req.at = "idle"
        BY <1>2, <2>1 DEF BoardAccept, boardVars, Accept, Idle
    <2> QED BY <1>1, <2>1, <2>2, TasksAlone DEF Never
<1>3. CASE BoardReject \/ GetTask \/ ListTasks
    <2>1. /\ UNCHANGED <<tasks, links, served>> /\ req'.at = "idle"
          /\ req.at \notin {"created", "moved"}
        BY <1>3 DEF BoardReject, GetTask, ListTasks, boardVars, Answer, Idle
    <2> QED BY <1>1, <2>1, TasksAlone
<1>4. CASE LinkTasks
    <2>1. /\ UNCHANGED <<tasks, served>> /\ req'.at = "idle" /\ req.at \notin {"created", "moved"}
          /\ links' \subseteq (DOMAIN tasks) \X (DOMAIN tasks)
        BY <1>1, <1>4 DEF LinkTasks, Known, Answer, Idle
    <2> QED BY <2>1, TasksAlone
<1> QED BY <1>2, <1>3, <1>4

\* A statement that reads the store writes no table, and hands the request on to
\* the next statement that reads, or answers it.
LEMMA Reads ==
    ASSUME Query \/ FindFocus \/ ContextRelations \/ ContextEntities \/ EvapFails
    PROVE  /\ UNCHANGED <<served, log, reinforced>>
           /\ req.at \in {"query", "context", "rels", "ents", "reinforce"}
           /\ req'.at \in {"idle", "rels", "ents"}
<1>1. CASE Query
    BY <1>1 DEF Query, Answer, Idle, evapVars
<1>2. CASE FindFocus
    BY <1>2 DEF FindFocus, Proceed, Answer, Idle, evapVars
<1>3. CASE ContextRelations
    BY <1>3 DEF ContextRelations, Proceed, evapVars
<1>4. CASE ContextEntities
    BY <1>4 DEF ContextEntities, Answer, Idle, evapVars
<1>5. CASE EvapFails
    BY <1>5 DEF EvapFails, Answer, Idle, evapVars
<1> QED BY <1>1, <1>2, <1>3, <1>4, <1>5

\* The store has its own tables and requests of other kinds.
LEMMA StoreStep == BoardInv /\ Store => BoardInv'
<1> SUFFICES ASSUME BoardInv, Store PROVE BoardInv'
    OBVIOUS
<1>1. /\ UNCHANGED <<tasks, links>> /\ served \in Nat
      /\ links' \subseteq (DOMAIN tasks) \X (DOMAIN tasks)
    BY DEF BoardInv, BoardTypeInv, Store, boardVars
<1>2. CASE Indexer
    <2>1. UNCHANGED <<req, served>>
        BY <1>2 DEF Indexer, DeleteFile, InsertEntity, InsertRelation, connVars
    <2> QED BY <1>1, <2>1 DEF BoardInv, BoardTypeInv, RequestInv, TaskInv, Task, Past, Pending
<1>3. CASE EvapAccept
    <2>1. PICK r \in EvapRequests : Accept(r)
        BY <1>3 DEF EvapAccept
    <2>2. r.at \in {"reinforce", "query", "context"}
        <3>1. \A x \in ReinforceRequests : x.at = "reinforce"
            BY DEF ReinforceRequests
        <3> QED BY <3>1 DEF EvapRequests
    <2>3. served' = served + 1 /\ req' = r /\ req.at = "idle"
        BY <2>1 DEF Accept, Idle
    <2> QED BY <1>1, <2>2, <2>3, TasksAlone DEF Never
<1>4. CASE Requests /\ ~EvapAccept
    <2>1. /\ UNCHANGED served /\ req.at \notin {"created", "moved", "idle"}
          /\ req'.at \notin {"created", "moved"}
        BY <1>4, Reads DEF Requests, Reinforce, LogReinforcement, Proceed, Answer, Idle
    <2> QED BY <1>1, <2>1, TasksAlone DEF BoardInv, RequestInv
<1> QED BY <1>2, <1>3, <1>4 DEF Store, EvapNext

-----------------------------------------------------------------------------
(* The theorems                                                            *)

\* An empty board, and every step of the daemon, of the indexer and of time.
LEMMA Inductive == (Init => BoardInv) /\ (BoardInv /\ [Next]_vars => BoardInv')
<1>1. Init => BoardInv
    <2> SUFFICES ASSUME Init PROVE BoardInv
        OBVIOUS
    <2>1. tasks = <<>> /\ links = {} /\ served = 0 /\ req.at = "idle"
        BY DEF Init, ConnInit, BoardInit, Idle
    <2> QED BY <2>1 DEF BoardInv, BoardTypeInv, RequestInv, TaskInv
<1>2. BoardInv /\ UNCHANGED <<req, served, tasks, links>> => BoardInv'
    BY DEF BoardInv, BoardTypeInv, RequestInv, TaskInv, Task, Past, Pending
<1>3. Board => \/ BoardAccept \/ BoardReject \/ GetTask \/ ListTasks \/ LinkTasks
               \/ AddTask \/ MoveTask \/ AddEvent \/ MoveEvent
    BY DEF Board, BoardNext
<1>4. Time \/ Operators \/ UNCHANGED vars => UNCHANGED <<req, served, tasks, links>>
    BY DEF Time, Tick, Operators, vars, connVars, boardVars
<1>5. BoardInv /\ [Next]_vars => BoardInv'
    BY <1>2, <1>3, <1>4, AddTaskStep, MoveTaskStep, EventStep, BoardDiesStep, OneStatementStep,
       StoreStep DEF Next, Death
<1> QED BY <1>1, <1>5

\* The inductive invariant holds of every behaviour.
THEOREM BoardInvariant == Spec => []BoardInv
BY Inductive, PTL DEF Spec

\* The board's tables keep their types and foreign keys.
THEOREM BoardTyped == Spec => []BoardTypeOK
<1>1. BoardInv => BoardTypeOK
    BY DEF BoardInv, BoardTypeInv, Task, BoardTypeOK
<1> QED BY <1>1, BoardInvariant, PTL

\* kanban_events replays the board: a task none of whose events failed, and
\* which no request is in the middle of, is where its last event says.
THEOREM AuditTrail == Spec => []EventsReplay
<1>1. BoardInv => EventsReplay
    BY DEF BoardInv, TaskInv, EventsReplay
<1> QED BY <1>1, BoardInvariant, PTL

\* The stamps say whether the events have the task running, and closed.
THEOREM StampsTrue == Spec => []StampsMatchEvents
<1>1. BoardInv => StampsMatchEvents
    <2> SUFFICES ASSUME BoardInv, NEW id \in DOMAIN tasks, ~tasks[id].unlogged, ~Pending(id)
                 PROVE  LET past == Range(tasks[id].events) IN
                        /\ tasks[id].started # Never <=> "running" \in past
                        /\ tasks[id].completed # Never <=> past \cap Closed # {}
        BY DEF StampsMatchEvents
    <2>1. Past(id) = Range(tasks[id].events)
        BY DEF Past, Pending
    <2> QED BY <2>1 DEF BoardInv, TaskInv
<1> QED BY <1>1, BoardInvariant, PTL

\* No request, death or index run touches the time a task first ran at.
THEOREM FirstRunKept == Spec => StartedOnce
<1> DEFINE Kept == \A id \in DOMAIN tasks :
                    /\ id \in DOMAIN tasks'
                    /\ tasks[id].started # Never => tasks'[id].started = tasks[id].started
<1>1. BoardInv /\ [Next]_vars => [Kept]_tasks
    <2> SUFFICES ASSUME BoardInv, Next, tasks' # tasks, NEW id \in DOMAIN tasks
                 PROVE  /\ id \in DOMAIN tasks'
                        /\ tasks[id].started # Never => tasks'[id].started = tasks[id].started
        BY DEF vars, boardVars
    <2>1. tasks \in Seq(Task) /\ tasks[id] \in Task
        BY DEF BoardInv, BoardTypeInv
    <2>2. CASE AddTask
        <3>1. id \in 1..Len(tasks) /\ Len(tasks) \in Nat
            BY <2>1
        <3>2. /\ DOMAIN Append(tasks, NewTask) = 1..(Len(tasks) + 1)
              /\ Append(tasks, NewTask)[id] = tasks[id]
            BY <2>1, <3>1
        <3>3. tasks' = Append(tasks, NewTask)
            BY <2>2 DEF AddTask
        <3> QED BY <3>1, <3>2, <3>3
    <2>3. CASE MoveTask
        <3>1. /\ DOMAIN tasks' = DOMAIN tasks
              /\ tasks'[id] = tasks[id] \/ tasks'[id] = Moved(tasks[id], req.status)
            BY <2>1, <2>3 DEF MoveTask
        <3>2. tasks[id].started # Never => Moved(tasks[id], req.status).started = tasks[id].started
            BY <2>1 DEF Moved, Task
        <3> QED BY <3>1, <3>2
    <2>4. CASE AddEvent \/ MoveEvent \/ BoardDies
        <3>1. PICK i, e : \/ tasks' = [tasks EXCEPT ![i].events = Append(@, e)]
                          \/ tasks' = [tasks EXCEPT ![i].unlogged = TRUE]
            BY <2>4 DEF AddEvent, MoveEvent, BoardDies, LogEvent, LogFails
        <3>2. /\ DOMAIN tasks' = DOMAIN tasks
              /\ \/ tasks'[id] = tasks[id]
                 \/ tasks'[id] = [tasks[id] EXCEPT !.events = Append(@, e)]
                 \/ tasks'[id] = [tasks[id] EXCEPT !.unlogged = TRUE]
            BY <2>1, <3>1
        <3>3. tasks'[id].started = tasks[id].started
            BY <2>1, <3>2 DEF Task
        <3> QED BY <3>2, <3>3
    <2> QED BY <2>2, <2>3, <2>4
            DEF Next, Board, Store, Time, Death, Operators, BoardNext, BoardAccept, BoardReject, GetTask,
                ListTasks, LinkTasks, boardVars
<1> QED BY <1>1, BoardInvariant, PTL DEF Spec, StartedOnce

-----------------------------------------------------------------------------
(* Start, stop and status                                                  *)

Command ==
    [at : {"prompt"}] \cup [at : {"kill", "probe", "connect", "delete"}, pid : Pids]
    \cup [at : {"reply"}, pid : Pids, by : Pids]

\* Who has the socket listens.
ProcessInv ==
    /\ daemon \in [Pids -> {Gone, "forked", "writing", "detached", "loading", "binding", "serving"}]
    /\ command \in [Terminals -> Command]
    /\ socket \in Pids \cup {Absent, Stale}
    /\ socket \in Pids => daemon[socket] = "serving"
    /\ inTurn \in BOOLEAN /\ unharmed \in BOOLEAN

\* The daemon of a start in turn, and what the commands called since know: they
\* saw no other daemon, and none deletes the pid file while this one lives.
OwnInv(p) ==
    /\ Alive = {p}
    /\ daemon[p] # "detached"
    /\ daemon[p] \in {"loading", "binding", "serving"} => pid_file = p
    /\ daemon[p] = "binding" => socket = Absent
    /\ daemon[p] = "serving" => socket = p
    /\ \A t \in Terminals :
        /\ command[t].at # "delete"
        /\ command[t].at = "connect" => command[t].pid = p
InTurnInv ==
    inTurn =>
        /\ \A p \in Alive : OwnInv(p)
        /\ \A t \in Terminals : command[t].at = "reply" => command[t].by = command[t].pid

\* Of the daemons that have come to the socket one has it, or is about to.
RaceInv ==
    (unharmed /\ \E p \in Pids : daemon[p] \in {"binding", "serving"}) =>
        \/ socket \in Pids
        \/ socket = Absent /\ \E p \in Pids : daemon[p] = "binding"

LifecycleInv == ProcessInv /\ InTurnInv /\ RaceInv

-----------------------------------------------------------------------------
\* The death of a daemon leaves nothing to be said of it.
LEMMA EndsStep ==
    ASSUME LifecycleInv, NEW p \in Alive, Ends(p), UNCHANGED <<pid_file, inTurn>>, unharmed' = FALSE,
           command' \in [Terminals -> Command],
           \A t \in Terminals : command'[t].at = "reply" => command'[t] = command[t]
    PROVE  LifecycleInv'
<1>1. p \in Pids /\ daemon' = [daemon EXCEPT ![p] = Gone] /\ daemon'[p] = Gone
    BY DEF LifecycleInv, ProcessInv, Alive, Ends, Moves
<1>2. ProcessInv'
    BY <1>1, PidsAssumption DEF LifecycleInv, ProcessInv, Ends
<1>3. InTurnInv'
    <2> SUFFICES ASSUME inTurn
                 PROVE  /\ Alive' = {}
                        /\ \A t \in Terminals : command'[t].at = "reply" => command'[t].by = command'[t].pid
        BY DEF InTurnInv
    <2>1. Alive = {p}
        BY DEF LifecycleInv, InTurnInv, OwnInv
    <2>2. Alive' = {}
        BY <1>1, <2>1 DEF Alive, LifecycleInv, ProcessInv
    <2> QED BY <2>2 DEF LifecycleInv, InTurnInv
<1> QED BY <1>2, <1>3 DEF LifecycleInv, RaceInv

\* A daemon that begins in turn is alone, and no command is under way.
LEMMA StartStep == LifecycleInv /\ Start => LifecycleInv'
<1> SUFFICES ASSUME LifecycleInv, Start PROVE LifecycleInv'
    OBVIOUS
<1>1. PICK p \in Pids \ Alive : daemon' = [daemon EXCEPT ![p] = "forked"]
    BY DEF Start, Moves
<1>2. /\ daemon'[p] = "forked" /\ daemon[p] = Gone /\ UNCHANGED <<pid_file, socket, command>>
      /\ \A q \in Pids : q # p => daemon'[q] = daemon[q]
      /\ Alive' = Alive \cup {p}
    BY <1>1 DEF Start, LifecycleInv, ProcessInv, Alive, Gone
<1>3. ProcessInv'
    <2>1. inTurn' \in BOOLEAN /\ unharmed' \in BOOLEAN
        BY Zenon DEF Start
    <2> QED BY <1>1, <1>2, <2>1 DEF LifecycleInv, ProcessInv, Gone
<1>4. InTurnInv'
    <2> SUFFICES ASSUME inTurn'
                 PROVE  /\ \A q \in Alive' : OwnInv(q)'
                        /\ \A t \in Terminals : command'[t].at = "reply" => command'[t].by = command'[t].pid
        BY DEF InTurnInv
    <2>1. Alive = {} /\ \A t \in Terminals : command[t] = NoCommand
        BY Zenon DEF Start
    <2>2. Alive' = {p} /\ \A t \in Terminals : command'[t].at = "prompt"
        BY <1>2, <2>1 DEF NoCommand
    <2> QED BY <1>2, <2>2 DEF OwnInv
<1>5. RaceInv'
    <2>1. CASE Alive = {}
        <3>1. \A q \in Pids : daemon'[q] \in {Gone, "forked"}
            BY <1>2, <2>1 DEF Alive
        <3> QED BY <3>1 DEF RaceInv, Gone
    <2>2. CASE Alive # {}
        <3>1. unharmed' => unharmed
            BY <2>2, Zenon DEF Start
        <3>2. \A q \in Pids : daemon[q] = "binding" => daemon'[q] = "binding"
            BY <1>2 DEF Gone
        <3>3. (\E q \in Pids : daemon'[q] \in {"binding", "serving"})
                => \E q \in Pids : daemon[q] \in {"binding", "serving"}
            BY <1>2
        <3> QED BY <1>2, <3>1, <3>2, <3>3 DEF LifecycleInv, RaceInv
    <2> QED BY <2>1, <2>2
<1> QED BY <1>3, <1>4, <1>5 DEF LifecycleInv

\* The pid file: written by the daemon that is alone, or the start no longer
\* counts as one in turn.
LEMMA PidFileStep ==
    ASSUME LifecycleInv, NEW p \in Pids, CreatePidFile(p) \/ WritePidFile(p)
    PROVE  LifecycleInv'
<1>1. /\ daemon[p] \in {"forked", "writing", "detached"} /\ daemon'[p] \in {"writing", "loading"}
      /\ daemon' = [daemon EXCEPT ![p] = daemon'[p]]
      /\ UNCHANGED <<socket, command, unharmed>>
    BY DEF CreatePidFile, WritePidFile, Moves, LifecycleInv, ProcessInv
<1>2. Alive' = Alive /\ \A q \in Pids : q # p => daemon'[q] = daemon[q]
    BY <1>1 DEF Alive, LifecycleInv, ProcessInv, Gone
<1>3. ProcessInv'
    <2>1. inTurn' \in BOOLEAN
        BY DEF CreatePidFile, WritePidFile, LifecycleInv, ProcessInv
    <2> QED BY <1>1, <1>2, <2>1 DEF LifecycleInv, ProcessInv
<1>4. InTurnInv'
    <2> SUFFICES ASSUME inTurn', NEW q \in Alive' PROVE OwnInv(q)'
        <3>1. inTurn' => inTurn
            BY DEF CreatePidFile, WritePidFile
        <3> QED BY <1>1, <3>1 DEF LifecycleInv, InTurnInv
    <2>1. inTurn /\ (daemon'[p] = "loading" => daemon[p] \in {"writing", "detached"} /\ (daemon[p] = "writing" => pid_file' = p))
        BY DEF CreatePidFile, WritePidFile, Moves, LifecycleInv, ProcessInv
    <2>2. OwnInv(q) /\ q = p
        <3>1. p \in Alive /\ q \in Alive
            BY <1>1, <1>2 DEF Alive, Gone
        <3> QED BY <2>1, <3>1 DEF LifecycleInv, InTurnInv, OwnInv
    <2> QED BY <1>1, <1>2, <2>1, <2>2 DEF OwnInv
<1>5. RaceInv'
    BY <1>1, <1>2 DEF LifecycleInv, RaceInv
<1> QED BY <1>3, <1>4, <1>5 DEF LifecycleInv

\* The socket: a daemon that finds the name taken leaves it to its owner.
LEMMA SocketStep ==
    ASSUME LifecycleInv, NEW p \in Pids, DeleteSocket(p) \/ Bind(p)
    PROVE  LifecycleInv'
<1>1. /\ daemon[p] \in {"loading", "binding"} /\ UNCHANGED <<pid_file, command, inTurn, unharmed>>
      /\ daemon' = [daemon EXCEPT ![p] = daemon'[p]]
    BY DEF DeleteSocket, Bind, Moves, LifecycleInv, ProcessInv
<1>2. \A q \in Pids : q # p => daemon'[q] = daemon[q]
    BY <1>1 DEF LifecycleInv, ProcessInv
<1>3. \/ daemon[p] = "loading" /\ daemon'[p] = "binding" /\ socket' = Absent
      \/ daemon[p] = "binding" /\ daemon'[p] = "serving" /\ socket = Absent /\ socket' = p
      \/ daemon[p] = "binding" /\ daemon'[p] = Gone /\ socket # Absent /\ socket' = socket
    BY DEF DeleteSocket, Bind, Moves, LifecycleInv, ProcessInv
<1>4. ProcessInv'
    BY <1>1, <1>2, <1>3, PidsAssumption DEF LifecycleInv, ProcessInv
<1>5. InTurnInv'
    <2> SUFFICES ASSUME inTurn, NEW q \in Alive' PROVE OwnInv(q)'
        BY <1>1 DEF LifecycleInv, InTurnInv
    <2>1. OwnInv(p) /\ p \in Alive
        BY <1>1 DEF LifecycleInv, InTurnInv, Alive, Gone
    <2>2. q = p /\ Alive' = {p}
        BY <1>1, <1>2, <1>3, <2>1 DEF OwnInv, Alive
    <2> QED BY <1>1, <1>3, <2>1, <2>2 DEF OwnInv
<1>6. RaceInv'
    <2>1. CASE daemon[p] = "loading"
        BY <1>3, <2>1 DEF RaceInv
    <2>2. CASE daemon[p] = "binding" /\ socket = Absent
        BY <1>3, <2>2 DEF RaceInv
    <2>3. CASE daemon[p] = "binding" /\ socket # Absent
        BY <1>1, <1>3, <2>3 DEF LifecycleInv, RaceInv
    <2> QED BY <1>1, <2>1, <2>2, <2>3
<1> QED BY <1>4, <1>5, <1>6 DEF LifecycleInv

\* A command that only looks: whatever answers it in turn is the one daemon.
LEMMA LookStep ==
    ASSUME LifecycleInv, NEW t \in Terminals,
           ReadPidFile(t) \/ StatusProbe(t) \/ StatusConnect(t) \/ StatusReply(t)
           \/ (StopKill(t) /\ command[t].pid \notin Alive)
    PROVE  LifecycleInv'
<1>1. UNCHANGED <<daemon, pid_file, socket, inTurn, unharmed>>
    BY DEF ReadPidFile, StatusProbe, StatusConnect, StatusReply, StopKill
<1>2. PICK c \in Command :
        /\ command' = [command EXCEPT ![t] = c]
        /\ c.at # "delete" \/ c = command[t]
        /\ c.at = "connect" => c = command[t] \/ c.pid \in Alive
        /\ c.at = "reply" => c = command[t] \/ (command[t].at = "connect" /\ c.pid = command[t].pid
                                                /\ c.by = socket /\ socket \in Pids)
    <2>1. command \in [Terminals -> Command] /\ NoCommand \in Command
        BY DEF LifecycleInv, ProcessInv, Command, NoCommand
    <2>2. CASE ReadPidFile(t)
        <3>1. CASE UNCHANGED command
            BY <2>1, <3>1
        <3>2. CASE pid_file \in Pids
            BY <2>1, <2>2, <3>2 DEF ReadPidFile, Command
        <3> QED BY <2>2, <3>1, <3>2 DEF ReadPidFile
    <2>3. CASE StatusProbe(t)
        <3>1. CASE command[t].pid \in Alive
            <4>1. command[t] \in [at : {"kill", "probe", "connect", "delete"}, pid : Pids]
                BY <2>1, <2>3 DEF StatusProbe, Command
            <4> DEFINE c == [command[t] EXCEPT !.at = "connect"]
            <4>2. command' = [command EXCEPT ![t] = c] /\ c \in Command /\ c.at = "connect" /\ c.pid \in Alive
                BY <2>1, <2>3, <3>1, <4>1 DEF StatusProbe, Command
            <4> QED BY <4>2
        <3>2. CASE command[t].pid \notin Alive
            BY <2>1, <2>3, <3>2 DEF StatusProbe, Done, NoCommand
        <3> QED BY <3>1, <3>2
    <2>4. CASE StatusConnect(t)
        <3>1. CASE socket \in Pids
            <4>1. command[t].pid \in Pids
                BY <2>1, <2>4 DEF StatusConnect, Command
            <4> DEFINE c == [at |-> "reply", pid |-> command[t].pid, by |-> socket]
            <4>2. command' = [command EXCEPT ![t] = c] /\ c \in Command
                BY <2>4, <3>1, <4>1 DEF StatusConnect, Command
            <4> QED BY <2>4, <3>1, <4>2 DEF StatusConnect
        <3>2. CASE socket \notin Pids
            BY <2>1, <2>4, <3>2 DEF StatusConnect, Done, NoCommand
        <3> QED BY <3>1, <3>2
    <2>5. CASE StatusReply(t) \/ (StopKill(t) /\ command[t].pid \notin Alive)
        BY <2>1, <2>5 DEF StatusReply, StopKill, Done, NoCommand
    <2> QED BY <2>2, <2>3, <2>4, <2>5
<1>3. command'[t] = c /\ \A u \in Terminals : u # t => command'[u] = command[u]
    BY <1>2 DEF LifecycleInv, ProcessInv
<1>4. ProcessInv' /\ RaceInv'
    BY <1>1, <1>2 DEF LifecycleInv, ProcessInv, RaceInv
<1>5. InTurnInv'
    <2> SUFFICES ASSUME inTurn
                 PROVE  /\ \A p \in Alive : OwnInv(p)'
                        /\ \A u \in Terminals : command'[u].at = "reply" => command'[u].by = command'[u].pid
        BY <1>1 DEF InTurnInv, Alive
    <2>1. ASSUME NEW p \in Alive PROVE OwnInv(p)'
        <3>1. OwnInv(p)
            BY DEF LifecycleInv, InTurnInv
        <3>2. ASSUME NEW u \in Terminals
              PROVE  command'[u].at # "delete" /\ (command'[u].at = "connect" => command'[u].pid = p)
            BY <1>2, <1>3, <3>1 DEF OwnInv
        <3>3. Alive' = Alive
            BY <1>1 DEF Alive
        <3> QED BY <1>1, <3>1, <3>2, <3>3 DEF OwnInv
    <2>2. ASSUME c.at = "reply", c # command[t] PROVE c.by = c.pid
        <3>1. socket \in Alive
            BY <1>2, <2>2 DEF LifecycleInv, ProcessInv, Alive, Gone
        <3> QED BY <1>2, <2>2, <3>1 DEF LifecycleInv, InTurnInv, OwnInv
    <2> QED BY <1>3, <2>1, <2>2 DEF LifecycleInv, InTurnInv
<1> QED BY <1>4, <1>5 DEF LifecycleInv

\* stop: in turn it kills the one daemon first, so that the file it deletes then
\* is nobody's.
LEMMA StopStep ==
    ASSUME LifecycleInv, NEW t \in Terminals, StopKill(t) \/ StopDelete(t)
    PROVE  LifecycleInv'
<1>1. CASE StopKill(t)
    <2>1. CASE command[t].pid \notin Alive
        BY <1>1, <2>1, LookStep
    <2>2. CASE command[t].pid \in Alive
        <3>1. command[t] \in [at : {"kill", "probe", "connect", "delete"}, pid : Pids]
            BY <1>1 DEF StopKill, LifecycleInv, ProcessInv, Command
        <3> DEFINE c == [command[t] EXCEPT !.at = "delete"]
        <3>2. command' = [command EXCEPT ![t] = c] /\ c \in Command /\ c.at = "delete"
            BY <1>1, <2>2, <3>1 DEF StopKill, Command, LifecycleInv, ProcessInv
        <3>3. /\ command' \in [Terminals -> Command]
              /\ \A u \in Terminals : command'[u].at = "reply" => command'[u] = command[u]
            BY <3>2 DEF LifecycleInv, ProcessInv
        <3> QED BY <1>1, <2>2, <3>3, EndsStep DEF StopKill
    <2> QED BY <2>1, <2>2
<1>2. CASE StopDelete(t)
    <2>1. /\ command[t].at = "delete" /\ UNCHANGED <<socket, inTurn, unharmed>>
          /\ command' = [command EXCEPT ![t] = NoCommand] /\ NoCommand \in Command
        BY <1>2 DEF StopDelete, Done, Command, NoCommand
    <2>2. /\ \A p \in Pids : daemon'[p] = IF daemon[p] = "writing" THEN "detached" ELSE daemon[p]
          /\ DOMAIN daemon' = Pids /\ Alive' = Alive
        BY <1>2 DEF StopDelete, Alive, Gone
    <2>3. ProcessInv'
        BY <1>2, <2>1, <2>2 DEF StopDelete, LifecycleInv, ProcessInv
    <2>4. InTurnInv'
        <3> SUFFICES ASSUME inTurn PROVE InTurnInv'
            BY <2>1 DEF InTurnInv
        <3>1. Alive = {}
            BY <2>1 DEF LifecycleInv, InTurnInv, OwnInv
        <3>2. \A u \in Terminals : command'[u] = command[u] \/ command'[u].at = "prompt"
            BY <2>1 DEF LifecycleInv, ProcessInv, NoCommand
        <3> QED BY <2>2, <3>1, <3>2 DEF LifecycleInv, InTurnInv
    <2>5. RaceInv'
        BY <2>1, <2>2 DEF LifecycleInv, RaceInv
    <2> QED BY <2>3, <2>4, <2>5 DEF LifecycleInv
<1> QED BY <1>1, <1>2

-----------------------------------------------------------------------------
\* Every step keeps the invariant.
LEMMA LifecycleStep == LifecycleInv /\ [Next]_vars => LifecycleInv'
<1> SUFFICES ASSUME LifecycleInv, [Next]_vars PROVE LifecycleInv'
    OBVIOUS
<1>1. CASE UNCHANGED lifecycleVars
    BY <1>1 DEF lifecycleVars, LifecycleInv, ProcessInv, InTurnInv, OwnInv, RaceInv, Alive
<1>2. CASE Crash
    BY <1>2, EndsStep DEF Crash, LifecycleInv, ProcessInv
<1>3. CASE LifecycleNext
    BY <1>2, <1>3, StartStep, PidFileStep, SocketStep, LookStep, StopStep
       DEF LifecycleNext, StartSteps, CommandSteps
<1> QED BY <1>1, <1>3 DEF Next, Board, Store, Time, Death, Operators, vars

\* The inductive invariant holds of every behaviour.
THEOREM LifecycleInvariant == Spec => []LifecycleInv
<1>1. Init => LifecycleInv
    <2> SUFFICES ASSUME LifecycleInit PROVE LifecycleInv
        BY DEF Init
    <2>1. NoCommand \in Command
        BY DEF Command, NoCommand
    <2>2. ProcessInv
        BY <2>1, PidsAssumption DEF LifecycleInit, ProcessInv
    <2> QED BY <2>2 DEF LifecycleInit, LifecycleInv, InTurnInv, RaceInv
<1> QED BY <1>1, LifecycleStep, PTL DEF Spec

\* main.zig's "running daemon" and its status: a daemon started when none runs
\* and no command is under way is alone and owns both files, whatever dead
\* daemons, crashes and commands left of them, and status names who answers.
THEOREM DaemonOwnsItsFiles == Spec => []OwnDaemonInTurn
<1>1. LifecycleInv => OwnDaemonInTurn
    BY DEF LifecycleInv, InTurnInv, OwnInv, OwnDaemonInTurn
<1> QED BY <1>1, LifecycleInvariant, PTL

\* run_daemon_loop: of any number of starts that race, and of whom none is
\* killed, the last ones leave a daemon that clients reach.
THEOREM RaceLeavesOne == Spec => []RaceLeavesOneReachable
<1>1. LifecycleInv => RaceLeavesOneReachable
    <2> SUFFICES ASSUME LifecycleInv, unharmed, NEW p \in Alive, \A q \in Alive : daemon[q] = "serving"
                 PROVE  socket \in Alive
        BY DEF RaceLeavesOneReachable
    <2>1. \A q \in Pids : daemon[q] # "binding"
        BY DEF Alive, Gone
    <2>2. socket \in Pids
        BY <2>1 DEF LifecycleInv, RaceInv, Alive
    <2> QED BY <2>2 DEF LifecycleInv, ProcessInv, Alive, Gone
<1> QED BY <1>1, LifecycleInvariant, PTL

-----------------------------------------------------------------------------
(* The store: the keys                                                     *)

Entity == [id : Nat, name : Names, age : 0..MaxAge]
Relation == [id : Nat, from : Nat, to : Nat, age : 0..MaxAge]

RowTypes ==
    /\ entities \subseteq Entity /\ relationships \subseteq Relation
    /\ next_id \in [Tables -> Nat]

KeyInv == RowTypes /\ EvapTypeOK

\* Half-lives and reinforcements change ages only.
LEMMA AgesKeepKeys ==
    ASSUME KeyInv, UNCHANGED next_id,
           NEW f \in [Entity -> 0..MaxAge], NEW g \in [Relation -> 0..MaxAge],
           \A x \in entities' : \E e \in entities : x = [e EXCEPT !.age = f[e]],
           \A e \in entities : [e EXCEPT !.age = f[e]] \in entities',
           \A x \in relationships' : \E r \in relationships : x = [r EXCEPT !.age = g[r]]
    PROVE  KeyInv'
<1>1. \A e \in entities : e \in Entity
    BY DEF KeyInv, RowTypes
<1>2. \A r \in relationships : r \in Relation
    BY DEF KeyInv, RowTypes
<1>3. ASSUME NEW x \in entities'
      PROVE  \E e \in entities : x = [id |-> e.id, name |-> e.name, age |-> f[e]] /\ f[e] \in 0..MaxAge
    <2>1. PICK e \in entities : x = [e EXCEPT !.age = f[e]]
        OBVIOUS
    <2>2. f[e] \in 0..MaxAge /\ [e EXCEPT !.age = f[e]] = [id |-> e.id, name |-> e.name, age |-> f[e]]
        <3>1. e \in Entity
            BY <1>1
        <3>2. f[e] \in 0..MaxAge
            BY <3>1
        <3>3. [e EXCEPT !.age = f[e]] = [id |-> e.id, name |-> e.name, age |-> f[e]]
            BY <3>1 DEF Entity
        <3> QED BY <3>2, <3>3
    <2> QED BY <2>1, <2>2
<1>4. ASSUME NEW x \in relationships'
      PROVE  \E r \in relationships :
                x = [id |-> r.id, from |-> r.from, to |-> r.to, age |-> g[r]] /\ g[r] \in 0..MaxAge
    <2>1. PICK r \in relationships : x = [r EXCEPT !.age = g[r]]
        OBVIOUS
    <2>2. /\ g[r] \in 0..MaxAge
          /\ [r EXCEPT !.age = g[r]] = [id |-> r.id, from |-> r.from, to |-> r.to, age |-> g[r]]
        <3>1. r \in Relation
            BY <1>2
        <3>2. g[r] \in 0..MaxAge
            BY <3>1
        <3>3. [r EXCEPT !.age = g[r]] = [id |-> r.id, from |-> r.from, to |-> r.to, age |-> g[r]]
            BY <3>1 DEF Relation
        <3> QED BY <3>2, <3>3
    <2> QED BY <2>1, <2>2
<1>5. ASSUME NEW e \in entities
      PROVE  \E x \in entities' : x.id = e.id
    <2>1. [e EXCEPT !.age = f[e]] \in entities' /\ [e EXCEPT !.age = f[e]].id = e.id
        BY <1>1 DEF Entity
    <2> QED BY <2>1
<1>6. RowTypes'
    <2>1. entities' \subseteq Entity
        BY <1>1, <1>3 DEF Entity
    <2>2. relationships' \subseteq Relation
        BY <1>2, <1>4 DEF Relation
    <2> QED BY <2>1, <2>2 DEF KeyInv, RowTypes, Entity, Relation
<1>7. \A e \in entities' : e.id < next_id'["entity"] /\ e.name \in Names /\ e.age \in 0..MaxAge
    BY <1>3 DEF KeyInv, EvapTypeOK
<1>8. \A x, y \in entities' : x.id = y.id \/ x.name = y.name => x = y
    <2> SUFFICES ASSUME NEW x \in entities', NEW y \in entities', x.id = y.id \/ x.name = y.name
                 PROVE  x = y
        OBVIOUS
    <2>1. PICK e \in entities : x = [id |-> e.id, name |-> e.name, age |-> f[e]]
        BY <1>3
    <2>2. PICK d \in entities : y = [id |-> d.id, name |-> d.name, age |-> f[d]]
        BY <1>3
    <2>3. e = d
        BY <2>1, <2>2 DEF KeyInv, EvapTypeOK
    <2> QED BY <2>1, <2>2, <2>3
<1>9. \A r \in relationships' :
        /\ r.id < next_id'["relation"] /\ r.age \in 0..MaxAge
        /\ {r.from, r.to} \subseteq Ids(entities')
    <2> SUFFICES ASSUME NEW x \in relationships'
                 PROVE  /\ x.id < next_id'["relation"] /\ x.age \in 0..MaxAge
                        /\ {x.from, x.to} \subseteq Ids(entities')
        OBVIOUS
    <2>1. PICK r \in relationships :
            x = [id |-> r.id, from |-> r.from, to |-> r.to, age |-> g[r]] /\ g[r] \in 0..MaxAge
        BY <1>4
    <2>2. r.id < next_id["relation"] /\ {r.from, r.to} \subseteq Ids(entities)
        BY DEF KeyInv, EvapTypeOK
    <2>3. ASSUME NEW i \in Ids(entities)
          PROVE  i \in Ids(entities')
        <3>1. PICK e \in entities : i = e.id
            BY DEF Ids
        <3>2. PICK d \in entities' : d.id = i
            BY <1>5, <3>1
        <3> QED BY <3>2 DEF Ids
    <2> QED BY <2>1, <2>2, <2>3
<1>10. \A r, q \in relationships' : r.id = q.id => r = q
    <2> SUFFICES ASSUME NEW x \in relationships', NEW y \in relationships', x.id = y.id
                 PROVE  x = y
        OBVIOUS
    <2>1. PICK r \in relationships : x = [id |-> r.id, from |-> r.from, to |-> r.to, age |-> g[r]]
        BY <1>4
    <2>2. PICK q \in relationships : y = [id |-> q.id, from |-> q.from, to |-> q.to, age |-> g[q]]
        BY <1>4
    <2>3. r = q
        BY <2>1, <2>2 DEF KeyInv, EvapTypeOK
    <2> QED BY <2>1, <2>2, <2>3
<1> QED BY <1>6, <1>7, <1>8, <1>9, <1>10 DEF KeyInv, EvapTypeOK

\* Half-lives that pass.
LEMMA TickKeys == KeyInv /\ Tick => KeyInv'
<1> SUFFICES ASSUME KeyInv, Tick PROVE KeyInv'
    OBVIOUS
<1> DEFINE f == [e \in Entity |-> IF e.age < MaxAge THEN e.age + 1 ELSE e.age]
           g == [r \in Relation |-> IF r.age < MaxAge THEN r.age + 1 ELSE r.age]
<1>1. f \in [Entity -> 0..MaxAge] /\ g \in [Relation -> 0..MaxAge]
    BY DecayAssumption DEF Entity, Relation
<1>2. \A e \in entities : [e EXCEPT !.age = f[e]] = [e EXCEPT !.age = IF @ < MaxAge THEN @ + 1 ELSE @]
    BY DEF KeyInv, RowTypes
<1>3. \A r \in relationships : [r EXCEPT !.age = g[r]] = [r EXCEPT !.age = IF @ < MaxAge THEN @ + 1 ELSE @]
    BY DEF KeyInv, RowTypes
<1>4. /\ UNCHANGED next_id
      /\ \A x \in entities' : \E e \in entities : x = [e EXCEPT !.age = f[e]]
      /\ \A e \in entities : [e EXCEPT !.age = f[e]] \in entities'
      /\ \A x \in relationships' : \E r \in relationships : x = [r EXCEPT !.age = g[r]]
    <2> HIDE DEF f, g
    <2>1. UNCHANGED next_id /\ entities' = Older(entities) /\ relationships' = Older(relationships)
        BY DEF Tick
    <2>2. ASSUME NEW x \in entities'
          PROVE  \E e \in entities : x = [e EXCEPT !.age = f[e]]
        <3>1. PICK e \in entities : x = [e EXCEPT !.age = IF @ < MaxAge THEN @ + 1 ELSE @]
            BY <2>1 DEF Older
        <3> QED BY <1>2, <3>1
    <2>3. ASSUME NEW x \in relationships'
          PROVE  \E r \in relationships : x = [r EXCEPT !.age = g[r]]
        <3>1. PICK r \in relationships : x = [r EXCEPT !.age = IF @ < MaxAge THEN @ + 1 ELSE @]
            BY <2>1 DEF Older
        <3> QED BY <1>3, <3>1
    <2>4. ASSUME NEW e \in entities
          PROVE  [e EXCEPT !.age = f[e]] \in entities'
        <3>1. [e EXCEPT !.age = IF @ < MaxAge THEN @ + 1 ELSE @] \in entities'
            BY <2>1 DEF Older
        <3> QED BY <1>2, <3>1
    <2> QED BY <2>1, <2>2, <2>3, <2>4
<1> HIDE DEF f, g
<1> QED BY <1>1, <1>4, AgesKeepKeys

\* A reinforcement of an entity or a relation.
LEMMA ReinforceKeys == KeyInv /\ Reinforce => KeyInv'
<1> SUFFICES ASSUME KeyInv, Reinforce PROVE KeyInv'
    OBVIOUS
<1> PICK n : n = req.id
    OBVIOUS
<1> DEFINE f0 == [e \in Entity |-> e.age]
           g0 == [r \in Relation |-> r.age]
           f == [e \in Entity |-> IF e.id = n THEN 0 ELSE e.age]
           g == [r \in Relation |-> IF r.id = n THEN 0 ELSE r.age]
<1>1. /\ f0 \in [Entity -> 0..MaxAge] /\ g0 \in [Relation -> 0..MaxAge]
      /\ f \in [Entity -> 0..MaxAge] /\ g \in [Relation -> 0..MaxAge]
    BY DecayAssumption DEF Entity, Relation
<1>2. \A e \in entities : [e EXCEPT !.age = f0[e]] = e
    BY DEF Entity, KeyInv, RowTypes
<1>3. \A r \in relationships : [r EXCEPT !.age = g0[r]] = r
    BY DEF Relation, KeyInv, RowTypes
<1>4. \A e \in entities :
        [e EXCEPT !.age = f[e]] = IF e.id = n THEN [e EXCEPT !.age = 0] ELSE e
    BY DEF Entity, KeyInv, RowTypes
<1>5. \A r \in relationships :
        [r EXCEPT !.age = g[r]] = IF r.id = n THEN [r EXCEPT !.age = 0] ELSE r
    BY DEF Relation, KeyInv, RowTypes
<1>6. /\ UNCHANGED next_id
      /\ \/ entities' = Restore(entities, n) /\ relationships' = relationships
         \/ relationships' = Restore(relationships, n) /\ entities' = entities
    BY DEF Reinforce
<1>7. CASE entities' = Restore(entities, n) /\ relationships' = relationships
    <2>1. /\ \A x \in entities' : \E e \in entities : x = [e EXCEPT !.age = f[e]]
          /\ \A e \in entities : [e EXCEPT !.age = f[e]] \in entities'
          /\ \A x \in relationships' : \E r \in relationships : x = [r EXCEPT !.age = g0[r]]
        <3> HIDE DEF f, g0
        <3>1. ASSUME NEW x \in entities'
              PROVE  \E e \in entities : x = [e EXCEPT !.age = f[e]]
            <4>1. PICK e \in entities : x = IF e.id = n THEN [e EXCEPT !.age = 0] ELSE e
                BY <1>7 DEF Restore
            <4> QED BY <1>4, <4>1
        <3>2. ASSUME NEW e \in entities
              PROVE  [e EXCEPT !.age = f[e]] \in entities'
            <4>1. (IF e.id = n THEN [e EXCEPT !.age = 0] ELSE e) \in entities'
                BY <1>7 DEF Restore
            <4> QED BY <1>4, <4>1
        <3>3. \A x \in relationships' : \E r \in relationships : x = [r EXCEPT !.age = g0[r]]
            BY <1>3, <1>7
        <3> QED BY <3>1, <3>2, <3>3
    <2> HIDE DEF f, g0
    <2> QED BY <1>1, <1>6, <2>1, AgesKeepKeys
<1>8. CASE relationships' = Restore(relationships, n) /\ entities' = entities
    <2>1. /\ \A x \in entities' : \E e \in entities : x = [e EXCEPT !.age = f0[e]]
          /\ \A e \in entities : [e EXCEPT !.age = f0[e]] \in entities'
          /\ \A x \in relationships' : \E r \in relationships : x = [r EXCEPT !.age = g[r]]
        <3> HIDE DEF f0, g
        <3>1. ASSUME NEW x \in relationships'
              PROVE  \E r \in relationships : x = [r EXCEPT !.age = g[r]]
            <4>1. PICK r \in relationships : x = IF r.id = n THEN [r EXCEPT !.age = 0] ELSE r
                BY <1>8 DEF Restore
            <4> QED BY <1>5, <4>1
        <3>2. \A e \in entities : [e EXCEPT !.age = f0[e]] = e
            BY <1>2
        <3> QED BY <1>8, <3>1, <3>2
    <2> HIDE DEF f0, g
    <2> QED BY <1>1, <1>6, <2>1, AgesKeepKeys
<1> QED BY <1>6, <1>7, <1>8

\* The index run: relations go with their ends, rows come under new ids.
LEMMA IndexerKeys == KeyInv /\ Indexer => KeyInv'
<1> SUFFICES ASSUME KeyInv, Indexer PROVE KeyInv'
    OBVIOUS
<1>1. ASSUME NEW n \in Names, DeleteFile(n)
      PROVE  KeyInv'
    <2>1. entities' \subseteq entities /\ relationships' \subseteq relationships /\ UNCHANGED next_id
        BY <1>1 DEF DeleteFile, storeVars
    <2>2. \A r \in relationships' : {r.from, r.to} \subseteq Ids(entities')
        BY <1>1 DEF DeleteFile
    <2> QED BY <2>1, <2>2 DEF KeyInv, RowTypes, EvapTypeOK
<1>2. ASSUME NEW n \in Names, InsertEntity(n)
      PROVE  KeyInv'
    <2> DEFINE new == [id |-> next_id["entity"], name |-> n, age |-> 0]
    <2>1. /\ next_id["entity"] \in Nat /\ next_id["relation"] \in Nat /\ 0 \in 0..MaxAge
          /\ "entity" \in Tables /\ "relation" \in Tables /\ next_id \in [Tables -> Nat]
        BY DecayAssumption DEF KeyInv, RowTypes, Tables
    <2>2. /\ next_id' \in [Tables -> Nat] /\ next_id'["entity"] = next_id["entity"] + 1
          /\ next_id'["relation"] = next_id["relation"] /\ UNCHANGED relationships
        BY <1>2, <2>1 DEF InsertEntity
    <2>3. /\ entities \subseteq entities' /\ entities' \subseteq entities \cup {new}
          /\ (\E e \in entities : e.name = n) => UNCHANGED entities
        BY <1>2 DEF InsertEntity
    <2>4. RowTypes'
        <3>1. new \in Entity
            BY <2>1 DEF Entity
        <3> QED BY <2>2, <2>3, <3>1 DEF KeyInv, RowTypes, Entity, Relation
    <2>5. \A e \in entities' : e.id < next_id'["entity"] /\ e.name \in Names /\ e.age \in 0..MaxAge
        <3>1. \A e \in entities : e.id \in Nat
            BY DEF KeyInv, RowTypes, Entity
        <3> QED BY <2>1, <2>2, <2>3, <3>1 DEF KeyInv, EvapTypeOK
    <2>6. \A x, y \in entities' : x.id = y.id \/ x.name = y.name => x = y
        <3>1. \A e \in entities : e.id \in Nat /\ e.id < next_id["entity"]
            BY DEF KeyInv, RowTypes, Entity, EvapTypeOK
        <3>2. CASE \E e \in entities : e.name = n
            BY <2>3, <3>2 DEF KeyInv, EvapTypeOK
        <3>3. CASE \A e \in entities : e.name # n
            <4>1. \A e \in entities : e.id # new.id /\ e.name # new.name
                BY <2>1, <3>1, <3>3
            <4> QED BY <2>3, <4>1 DEF KeyInv, EvapTypeOK
        <3> QED BY <3>2, <3>3
    <2>7. \A r \in relationships' :
            /\ r.id < next_id'["relation"] /\ r.age \in 0..MaxAge
            /\ {r.from, r.to} \subseteq Ids(entities')
        BY <2>2, <2>3 DEF KeyInv, EvapTypeOK, Ids
    <2>8. \A r, q \in relationships' : r.id = q.id => r = q
        BY <2>2 DEF KeyInv, EvapTypeOK
    <2> QED BY <2>4, <2>5, <2>6, <2>7, <2>8 DEF KeyInv, EvapTypeOK
<1>3. ASSUME NEW a \in entities, NEW b \in entities, InsertRelation(a, b)
      PROVE  KeyInv'
    <2> DEFINE new == [id |-> next_id["relation"], from |-> a.id, to |-> b.id, age |-> 0]
    <2>1. /\ next_id["entity"] \in Nat /\ next_id["relation"] \in Nat /\ 0 \in 0..MaxAge
          /\ "entity" \in Tables /\ "relation" \in Tables /\ next_id \in [Tables -> Nat]
        BY DecayAssumption DEF KeyInv, RowTypes, Tables
    <2>2. /\ next_id' \in [Tables -> Nat] /\ next_id'["relation"] = next_id["relation"] + 1
          /\ next_id'["entity"] = next_id["entity"] /\ UNCHANGED entities
          /\ relationships' = relationships \cup {new}
        BY <1>3, <2>1 DEF InsertRelation
    <2>3. RowTypes'
        <3>1. new \in Relation
            BY <2>1 DEF Entity, Relation, KeyInv, RowTypes
        <3> QED BY <2>2, <3>1 DEF KeyInv, RowTypes, Entity, Relation
    <2>4. \A r \in relationships : r.id \in Nat /\ r.id < next_id["relation"]
        BY DEF KeyInv, RowTypes, Relation, EvapTypeOK
    <2>5. \A r \in relationships' :
            /\ r.id < next_id'["relation"] /\ r.age \in 0..MaxAge
            /\ {r.from, r.to} \subseteq Ids(entities')
        <3>1. {a.id, b.id} \subseteq Ids(entities)
            BY DEF Ids
        <3> QED BY <2>1, <2>2, <2>4, <3>1 DEF KeyInv, EvapTypeOK
    <2>6. \A r, q \in relationships' : r.id = q.id => r = q
        <3>1. \A r \in relationships : r.id # new.id
            BY <2>1, <2>4
        <3> QED BY <2>2, <3>1 DEF KeyInv, EvapTypeOK
    <2> QED BY <2>2, <2>3, <2>5, <2>6 DEF KeyInv, EvapTypeOK
<1> QED BY <1>1, <1>2, <1>3 DEF Indexer

\* The other steps leave the tables alone.
LEMMA KeyStep == KeyInv /\ [Next]_vars => KeyInv'
<1> SUFFICES ASSUME KeyInv, [Next]_vars PROVE KeyInv'
    OBVIOUS
<1>1. ASSUME UNCHANGED storeVars
      PROVE  KeyInv'
    BY <1>1 DEF storeVars, KeyInv, RowTypes, EvapTypeOK
<1>2. CASE Board \/ Death \/ Operators \/ UNCHANGED vars
    BY <1>1, <1>2 DEF Board, Death, Operators, vars, evapVars
<1>3. CASE Time
    BY <1>3, TickKeys DEF Time
<1>4. CASE Store
    <2>1. CASE Indexer
        BY <2>1, IndexerKeys
    <2>2. CASE Reinforce
        BY <2>2, ReinforceKeys
    <2>3. CASE EvapAccept \/ LogReinforcement \/ Query \/ FindFocus \/ ContextRelations
               \/ ContextEntities \/ EvapFails
        BY <1>1, <2>3 DEF EvapAccept, LogReinforcement, Query, FindFocus, ContextRelations,
                          ContextEntities, EvapFails, evapVars
    <2> QED BY <1>4, <2>1, <2>2, <2>3 DEF Store, EvapNext, Requests
<1> QED BY <1>2, <1>3, <1>4 DEF Next

\* The store has one row for an id and one for a name, and no relation outlives
\* an end of it, although ids come from a sequence, index runs insert blindly
\* and reinforcements update whatever id they are given.
THEOREM StoreKeys == Spec => []EvapTypeOK
<1>1. Init => KeyInv
    BY DEF Init, EvapInit, KeyInv, RowTypes, EvapTypeOK, Tables
<1>2. KeyInv => EvapTypeOK
    BY DEF KeyInv
<1> QED BY <1>1, <1>2, KeyStep, PTL DEF Spec

-----------------------------------------------------------------------------
(* The log                                                                 *)

Row(r) == <<r.table, r.id>>
LogRows == {Row(r) : r \in ReinforceRequests}

\* A reinforcement that was done and is not yet in the log.
Owed(x) == IF req.at = "log" /\ x = Row(req) THEN 1 ELSE 0

LogInv ==
    /\ log \in Seq(LogRows) /\ reinforced \in Seq(LogRows)
    /\ req.at \in {"reinforce", "log"} => Row(req) \in LogRows
    /\ \A x \in LogRows : Times(log, x) + Owed(x) <= Times(reinforced, x)

\* One more element counts for itself only.
LEMMA TimesAppend ==
    ASSUME NEW S, NEW seq \in Seq(S), NEW e \in S, NEW x
    PROVE  /\ Times(seq, x) \in Nat
           /\ Times(Append(seq, e), x) = Times(seq, x) + (IF e = x THEN 1 ELSE 0)
<1> DEFINE n == Len(seq) + 1
           K == {k \in DOMAIN seq : seq[k] = x}
           L == {k \in DOMAIN Append(seq, e) : Append(seq, e)[k] = x}
<1>1. /\ Len(seq) \in Nat /\ DOMAIN seq = 1..Len(seq) /\ DOMAIN Append(seq, e) = 1..n
      /\ Append(seq, e)[n] = e
      /\ \A k \in 1..Len(seq) : Append(seq, e)[k] = seq[k]
    OBVIOUS
<1>2. IsFiniteSet(K) /\ n \notin K
    <2>1. IsFiniteSet(1..Len(seq)) /\ K \subseteq 1..Len(seq)
        BY <1>1, FS_Interval
    <2> QED BY <1>1, <2>1, FS_Subset
<1>3. L = IF e = x THEN K \cup {n} ELSE K
    BY <1>1
<1>4. Cardinality(K) \in Nat /\ Cardinality(K \cup {n}) = Cardinality(K) + 1
    BY <1>2, FS_CardinalityType, FS_AddElement
<1> HIDE DEF K, L, n
<1>5. Times(seq, x) = Cardinality(K) /\ Times(Append(seq, e), x) = Cardinality(L)
    BY DEF Times, K, L
<1> QED BY <1>3, <1>4, <1>5

\* The kinds of the board's requests.
LEMMA BoardRequestKinds ==
    BoardAccept => req.at = "idle" /\ req'.at \in {"add", "move", "link", "get", "list"}
<1> SUFFICES ASSUME BoardAccept
             PROVE  req.at = "idle" /\ req'.at \in {"add", "move", "link", "get", "list"}
    OBVIOUS
<1>1. CASE Accept([at |-> "add"])
    BY <1>1 DEF Accept, Idle
<1>2. CASE \E id \in TaskIds, w \in Words :
            Accept([at |-> "move", task |-> id, status |-> w])
    BY <1>2 DEF Accept, Idle
<1>3. CASE \E p \in TaskIds, c \in TaskIds :
            Accept([at |-> "link", parent |-> p, child |-> c])
    BY <1>3 DEF Accept, Idle
<1>4. CASE \E id \in TaskIds : Accept([at |-> "get", task |-> id])
    BY <1>4 DEF Accept, Idle
<1>5. CASE \E w \in Words \cup {AnyStatus} : Accept([at |-> "list", status |-> w])
    BY <1>5 DEF Accept, Idle
<1> QED BY <1>1, <1>2, <1>3, <1>4, <1>5 DEF BoardAccept

\* A step of another kind brings nothing new to the log or to be logged.
LEMMA LogAlone ==
    ASSUME LogInv, UNCHANGED <<log, reinforced>>,
           UNCHANGED req \/ req'.at \notin {"reinforce", "log"}
    PROVE  LogInv'
<1>1. ASSUME NEW x \in LogRows
      PROVE  Times(log, x) + Owed(x)' <= Times(reinforced, x)
    <2>1. Times(log, x) \in Nat /\ Times(reinforced, x) \in Nat
        BY TimesAppend DEF LogInv
    <2>2. Owed(x)' \in {0, Owed(x)} /\ Owed(x) \in {0, 1}
        BY DEF Owed, Row
    <2> QED BY <2>1, <2>2 DEF LogInv
<1> QED BY <1>1 DEF LogInv, Row

\* A reinforcement is owed to the log, a row in the log was owed.
LEMMA LogStep == LogInv /\ [Next]_vars => LogInv'
<1> SUFFICES ASSUME LogInv, [Next]_vars PROVE LogInv'
    OBVIOUS
<1>1. CASE UNCHANGED vars \/ Time \/ Operators
    BY <1>1, LogAlone DEF vars, Time, Tick, Operators, connVars, evapVars
<1>2. CASE Death
    BY <1>2, LogAlone DEF Death, BoardDies, Die, Idle, evapVars
<1>3. CASE Board
    <2>1. UNCHANGED <<log, reinforced>>
        BY <1>3 DEF Board, evapVars
    <2>2. CASE BoardAccept
        <3>1. req'.at \in {"add", "move", "link", "get", "list"}
            BY <2>2, BoardRequestKinds
        <3> QED BY <2>1, <3>1, LogAlone
    <2>3. CASE ~BoardAccept
        <3>1. req'.at \in {"idle", "created", "moved", "get"}
            BY <1>3, <2>3 DEF Board, BoardNext, BoardReject, AddTask, AddEvent, MoveTask, MoveEvent,
                              GetTask, ListTasks, LinkTasks, Proceed, Answer, Idle
        <3> QED BY <2>1, <3>1, LogAlone
    <2> QED BY <2>2, <2>3
<1>4. CASE Store
    <2>1. CASE Indexer
        BY <2>1, LogAlone DEF Indexer, DeleteFile, InsertEntity, InsertRelation, connVars
    <2>2. CASE EvapAccept
        <3>1. PICK r \in EvapRequests : req' = r
            BY <2>2 DEF EvapAccept, Accept
        <3>2. UNCHANGED <<log, reinforced>>
            BY <2>2 DEF EvapAccept
        <3>3. CASE r \in ReinforceRequests
            <4>1. Row(req') \in LogRows /\ req'.at = "reinforce"
                BY <3>1, <3>3 DEF LogRows, ReinforceRequests
            <4>2. ASSUME NEW x \in LogRows
                  PROVE  Times(log, x) + Owed(x)' <= Times(reinforced, x)
                <5>1. Times(log, x) \in Nat /\ Times(reinforced, x) \in Nat
                    BY TimesAppend DEF LogInv
                <5>2. Owed(x)' = 0 /\ Owed(x) \in {0, 1}
                    BY <4>1 DEF Owed
                <5> QED BY <5>1, <5>2 DEF LogInv
            <4> QED BY <3>2, <4>1, <4>2 DEF LogInv, Row
        <3>4. CASE r \notin ReinforceRequests
            <4>1. r.at \in {"query", "context"}
                BY <3>1, <3>4 DEF EvapRequests
            <4> QED BY <3>1, <3>2, <4>1, LogAlone
        <3> QED BY <3>3, <3>4
    <2>3. CASE Reinforce
        <3>1. /\ req.at = "reinforce" /\ req'.at = "log" /\ Row(req') = Row(req)
              /\ reinforced' = Append(reinforced, Row(req)) /\ UNCHANGED log
            BY <2>3 DEF Reinforce, Proceed, Row
        <3>2. Row(req) \in LogRows /\ reinforced' \in Seq(LogRows)
            BY <3>1 DEF LogInv
        <3>3. ASSUME NEW x \in LogRows
              PROVE  Times(log', x) + Owed(x)' <= Times(reinforced', x)
            <4>1. /\ Times(log, x) \in Nat /\ Times(reinforced, x) \in Nat
                  /\ Times(reinforced', x) = Times(reinforced, x) + (IF Row(req) = x THEN 1 ELSE 0)
                BY <3>1, <3>2, TimesAppend DEF LogInv
            <4>2. Owed(x) = 0 /\ Owed(x)' = IF Row(req) = x THEN 1 ELSE 0
                BY <3>1 DEF Owed, Row
            <4> QED BY <3>1, <4>1, <4>2 DEF LogInv
        <3> QED BY <3>1, <3>2, <3>3 DEF LogInv, Row
    <2>4. CASE LogReinforcement
        <3>1. /\ req.at = "log" /\ req'.at = "idle" /\ UNCHANGED reinforced
              /\ log' = Append(log, Row(req)) \/ UNCHANGED log
            BY <2>4 DEF LogReinforcement, Answer, Idle, Row
        <3>2. CASE UNCHANGED log
            BY <3>1, <3>2, LogAlone
        <3>3. CASE log' = Append(log, Row(req))
            <4>1. Row(req) \in LogRows /\ log' \in Seq(LogRows)
                BY <3>1, <3>3 DEF LogInv
            <4>2. ASSUME NEW x \in LogRows
                  PROVE  Times(log', x) + Owed(x)' <= Times(reinforced', x)
                <5>1. /\ Times(log, x) \in Nat /\ Times(reinforced, x) \in Nat
                      /\ Times(log', x) = Times(log, x) + (IF Row(req) = x THEN 1 ELSE 0)
                    BY <3>3, <4>1, TimesAppend DEF LogInv
                <5>2. Owed(x) = (IF Row(req) = x THEN 1 ELSE 0) /\ Owed(x)' = 0
                    BY <3>1 DEF Owed
                <5> QED BY <3>1, <5>1, <5>2 DEF LogInv
            <4> QED BY <3>1, <4>1, <4>2 DEF LogInv
        <3> QED BY <3>1, <3>2, <3>3
    <2>5. CASE Query \/ FindFocus \/ ContextRelations \/ ContextEntities \/ EvapFails
        <3>1. UNCHANGED <<log, reinforced>> /\ req'.at \in {"idle", "rels", "ents"}
            BY <2>5, Reads
        <3> QED BY <3>1, LogAlone
    <2> QED BY <1>4, <2>1, <2>2, <2>3, <2>4, <2>5 DEF Store, EvapNext, Requests
<1> QED BY <1>1, <1>2, <1>3, <1>4 DEF Next

\* reinforcement_events never counts a row more often than it was reinforced,
\* although the UPDATE and the event are two statements and the daemon may die.
THEOREM LogTrue == Spec => []LogTellsTruth
<1>1. Init => LogInv
    <2> SUFFICES ASSUME Init PROVE LogInv
        OBVIOUS
    <2>1. log = <<>> /\ reinforced = <<>> /\ req.at = "idle"
        BY DEF Init, ConnInit, EvapInit, Idle
    <2>2. \A y \in LogRows : Times(<<>>, y) \in Nat
        <3>1. <<>> \in Seq(LogRows)
            OBVIOUS
        <3> QED BY <3>1, TimesAppend
    <2> QED BY <2>1, <2>2 DEF LogInv, Owed
<1>2. LogInv => LogTellsTruth
    <2> SUFFICES ASSUME LogInv, NEW x \in Range(log) PROVE Times(log, x) <= Times(reinforced, x)
        BY DEF LogTellsTruth
    <2>1. x \in LogRows
        BY DEF LogInv, Range
    <2>2. Times(log, x) \in Nat /\ Times(reinforced, x) \in Nat /\ Owed(x) \in {0, 1}
        BY <2>1, TimesAppend DEF LogInv, Owed
    <2> QED BY <2>1, <2>2 DEF LogInv
<1> QED BY <1>1, <1>2, LogStep, PTL DEF Spec

-----------------------------------------------------------------------------
(* Contexts                                                                *)

\* The relations a context found touch its focus, and one whose two ends are
\* still there is still there: relations go with their ends only, and an id that
\* went never comes back.
StillRelated(r) == \E q \in relationships : q.from = r.from /\ q.to = r.to
ContextInv ==
    req.at = "ents" =>
        \A r \in req.rels.rows :
            /\ req.focus \in {r.from, r.to}
            /\ {r.from, r.to} \subseteq 0..next_id["entity"] - 1
            /\ {r.from, r.to} \subseteq Ids(entities) => StillRelated(r)

\* Steps of the store during which the request stays where it is: no id below
\* next_id comes, and no relation goes whose ends stay.
LEMMA ContextKept ==
    ASSUME ContextInv, UNCHANGED req,
           next_id["entity"] \in Nat, next_id'["entity"] \in Nat,
           next_id["entity"] <= next_id'["entity"],
           \A i \in Ids(entities') : i \in Ids(entities) \/ i = next_id["entity"],
           \A q \in relationships : {q.from, q.to} \subseteq Ids(entities') => StillRelated(q)'
    PROVE  ContextInv'
<1> SUFFICES ASSUME req.at = "ents", NEW r \in req.rels.rows
             PROVE  /\ req.focus \in {r.from, r.to}
                    /\ {r.from, r.to} \subseteq 0..next_id'["entity"] - 1
                    /\ {r.from, r.to} \subseteq Ids(entities') => StillRelated(r)'
    BY DEF ContextInv
<1>1. /\ req.focus \in {r.from, r.to}
      /\ {r.from, r.to} \subseteq 0..next_id["entity"] - 1
    BY DEF ContextInv
<1>2. ASSUME {r.from, r.to} \subseteq Ids(entities')
      PROVE  StillRelated(r)'
    <2>1. {r.from, r.to} \subseteq Ids(entities)
        BY <1>1, <1>2
    <2>2. PICK q \in relationships : q.from = r.from /\ q.to = r.to
        BY <2>1 DEF ContextInv, StillRelated
    <2>3. StillRelated(q)'
        BY <1>2, <2>2
    <2> QED BY <2>2, <2>3 DEF StillRelated
<1> QED BY <1>1, <1>2

\* Steps that leave a context as it was, or nothing of it.
LEMMA ContextAlone ==
    ASSUME ContextInv, UNCHANGED <<req, entities, relationships, next_id>> \/ req'.at # "ents"
    PROVE  ContextInv'
BY DEF ContextInv, Ids, StillRelated

\* Half-lives change ages only.
LEMMA ContextTick == KeyInv /\ ContextInv /\ Tick => ContextInv'
<1> SUFFICES ASSUME KeyInv, ContextInv, Tick PROVE ContextInv'
    OBVIOUS
<1>1. UNCHANGED <<req, next_id>> /\ next_id["entity"] \in Nat
    BY DEF Tick, connVars, KeyInv, RowTypes, Tables
<1>2. \A i \in Ids(entities') : i \in Ids(entities)
    <2>1. ASSUME NEW x \in entities'
          PROVE  \E e \in entities : x.id = e.id
        <3>1. PICK e \in entities : x = [e EXCEPT !.age = IF @ < MaxAge THEN @ + 1 ELSE @]
            BY DEF Tick, Older
        <3>2. e \in Entity
            BY DEF KeyInv, RowTypes
        <3> QED BY <3>1, <3>2 DEF Entity
    <2> QED BY <2>1 DEF Ids
<1>3. ASSUME NEW q \in relationships
      PROVE  StillRelated(q)'
    <2> DEFINE p == [q EXCEPT !.age = IF @ < MaxAge THEN @ + 1 ELSE @]
    <2>1. q \in Relation
        BY DEF KeyInv, RowTypes
    <2>2. p \in relationships'
        BY DEF Tick, Older
    <2>3. p.from = q.from /\ p.to = q.to
        BY <2>1 DEF Relation
    <2> HIDE DEF p
    <2> QED BY <2>2, <2>3 DEF StillRelated
<1> QED BY <1>1, <1>2, <1>3, ContextKept

\* The index run deletes relations with an end of theirs, and inserts entities
\* under ids no request has seen.
LEMMA ContextIndexer == KeyInv /\ ContextInv /\ Indexer => ContextInv'
<1> SUFFICES ASSUME KeyInv, ContextInv, Indexer PROVE ContextInv'
    OBVIOUS
<1>1. /\ next_id["entity"] \in Nat /\ next_id["relation"] \in Nat
      /\ next_id \in [Tables -> Nat] /\ "entity" \in Tables
    BY DEF KeyInv, RowTypes, Tables
<1>2. UNCHANGED req
    BY DEF Indexer, DeleteFile, InsertEntity, InsertRelation, connVars
<1>3. ASSUME NEW n \in Names, DeleteFile(n)
      PROVE  ContextInv'
    <2>1. UNCHANGED next_id /\ \A i \in Ids(entities') : i \in Ids(entities)
        BY <1>3 DEF DeleteFile, Ids
    <2>2. \A q \in relationships : {q.from, q.to} \subseteq Ids(entities') => StillRelated(q)'
        BY <1>3 DEF DeleteFile, StillRelated
    <2> QED BY <1>1, <1>2, <2>1, <2>2, ContextKept
<1>4. ASSUME NEW n \in Names, InsertEntity(n)
      PROVE  ContextInv'
    <2>1. next_id'["entity"] = next_id["entity"] + 1 /\ UNCHANGED relationships
        BY <1>1, <1>4 DEF InsertEntity
    <2>2. \A i \in Ids(entities') : i \in Ids(entities) \/ i = next_id["entity"]
        BY <1>4 DEF InsertEntity, Ids
    <2>3. \A q \in relationships : StillRelated(q)'
        BY <2>1 DEF StillRelated
    <2> QED BY <1>1, <1>2, <2>1, <2>2, <2>3, ContextKept
<1>5. ASSUME NEW a \in entities, NEW b \in entities, InsertRelation(a, b)
      PROVE  ContextInv'
    <2>1. UNCHANGED entities /\ next_id'["entity"] = next_id["entity"]
        BY <1>1, <1>5 DEF InsertRelation
    <2>2. \A q \in relationships : StillRelated(q)'
        BY <1>5 DEF InsertRelation, StillRelated
    <2> QED BY <1>1, <1>2, <2>1, <2>2, ContextKept DEF Ids
<1> QED BY <1>3, <1>4, <1>5 DEF Indexer

\* What the second statement of a context finds, whole, cut or not at all.
LEMMA ContextFinds == KeyInv /\ ContextRelations => ContextInv'
<1> SUFFICES ASSUME KeyInv, ContextRelations PROVE ContextInv'
    OBVIOUS
<1> DEFINE found == {r \in relationships : req.focus \in {r.from, r.to} /\ Visible(r)}
<1>1. PICK rels \in Texts(found, ListRoom) \cup {Failed} :
          req' = [at |-> "ents", focus |-> req.focus, rels |-> rels]
    BY DEF ContextRelations, Proceed
<1>2. rels.rows \subseteq found
    BY <1>1 DEF Texts, Fits, Failed
<1>3. UNCHANGED <<entities, relationships, next_id>>
    BY DEF ContextRelations, evapVars, storeVars
<1>4. ASSUME NEW r \in found
      PROVE  /\ req.focus \in {r.from, r.to} /\ StillRelated(r)
             /\ {r.from, r.to} \subseteq 0..next_id["entity"] - 1
    <2>1. \A i \in Ids(entities) : i \in 0..next_id["entity"] - 1
        BY DEF KeyInv, RowTypes, EvapTypeOK, Entity, Ids, Tables
    <2>2. {r.from, r.to} \subseteq Ids(entities)
        BY DEF KeyInv, EvapTypeOK
    <2> QED BY <2>1, <2>2 DEF StillRelated
<1> HIDE DEF found
<1> QED BY <1>1, <1>2, <1>3, <1>4 DEF ContextInv, StillRelated, Ids

\* Every step keeps ContextInv.
LEMMA ContextStep == KeyInv /\ ContextInv /\ [Next]_vars => ContextInv'
<1> SUFFICES ASSUME KeyInv, ContextInv, [Next]_vars PROVE ContextInv'
    OBVIOUS
<1>1. CASE UNCHANGED vars \/ Operators
    BY <1>1, ContextAlone DEF vars, Operators, connVars, evapVars, storeVars
<1>2. CASE Time
    BY <1>2, ContextTick DEF Time
<1>3. CASE Death
    BY <1>3, ContextAlone DEF Death, BoardDies, Die, Idle
<1>4. CASE Board
    <2>1. CASE BoardAccept
        <3>1. req'.at \in {"add", "move", "link", "get", "list"}
            BY <2>1, BoardRequestKinds
        <3> QED BY <3>1, ContextAlone
    <2>2. CASE ~BoardAccept
        <3>1. req'.at \in {"idle", "created", "moved", "get"}
            BY <1>4, <2>2 DEF Board, BoardNext, BoardReject, AddTask, AddEvent, MoveTask, MoveEvent,
                              GetTask, ListTasks, LinkTasks, Proceed, Answer, Idle
        <3> QED BY <3>1, ContextAlone
    <2> QED BY <2>1, <2>2
<1>5. CASE Store
    <2>1. CASE Indexer
        BY <2>1, ContextIndexer
    <2>2. CASE EvapAccept
        <3>1. PICK r \in EvapRequests : req' = r
            BY <2>2 DEF EvapAccept, Accept
        <3>2. r.at \in {"reinforce", "query", "context"}
            BY DEF EvapRequests, ReinforceRequests
        <3> QED BY <3>1, <3>2, ContextAlone
    <2>3. CASE Reinforce \/ LogReinforcement \/ Query \/ FindFocus \/ ContextEntities \/ EvapFails
        <3>1. req'.at \in {"log", "rels", "idle"}
            <4>1. CASE Reinforce \/ LogReinforcement
                BY <4>1 DEF Reinforce, LogReinforcement, Proceed, Answer, Idle
            <4>2. CASE Query \/ FindFocus \/ EvapFails
                BY <4>2, Reads DEF Query, FindFocus, EvapFails, Proceed, Answer, Idle
            <4>3. CASE ContextEntities
                BY <4>3 DEF ContextEntities, Answer, Idle
            <4> QED BY <2>3, <4>1, <4>2, <4>3
        <3> QED BY <3>1, ContextAlone
    <2>4. CASE ContextRelations
        BY <2>4, ContextFinds
    <2> QED BY <1>5, <2>1, <2>2, <2>3, <2>4 DEF Store, EvapNext, Requests
<1> QED BY <1>1, <1>2, <1>3, <1>4, <1>5 DEF Next

\* A context whose focus is still there, and whose entities were read and not cut,
\* has the focus and every end in sight of the relations it shows, whatever the
\* index run did between the three statements.
THEOREM ContextsWhole == Spec => ContextWhole
<1> DEFINE Whole ==
        (req.at = "ents" /\ answer'.is = "context" /\ answer'.ents.text = "whole"
            /\ req.focus \in Ids(entities)) =>
          /\ req.focus \in answer'.ents.rows
          /\ \A r \in answer'.rels.rows, e \in entities :
                e.id \in {r.from, r.to} /\ Visible(e) => e.id \in answer'.ents.rows
<1>1. Init => KeyInv /\ ContextInv
    BY DEF Init, EvapInit, ConnInit, Idle, ContextInv, KeyInv, RowTypes, EvapTypeOK, Tables
<1>2. ContextInv /\ [Next]_vars => [Whole]_req
    <2> SUFFICES ASSUME ContextInv, [Next]_vars, req' # req, req.at = "ents",
                        answer'.is = "context", answer'.ents.text = "whole",
                        req.focus \in Ids(entities)
                 PROVE  Whole
        OBVIOUS
    <2>1. ContextEntities
        <3>1. ~Board
            <4>1. ~BoardAccept
                BY BoardRequestKinds
            <4> QED BY <4>1 DEF Board, BoardNext, BoardReject, AddTask, AddEvent, MoveTask, MoveEvent,
                                GetTask, ListTasks, LinkTasks
        <3>2. ~Death /\ ~Time /\ ~Operators /\ ~UNCHANGED vars
            BY DEF Death, BoardDies, Die, NoAnswer, Time, Tick, Operators, vars, connVars
        <3>3. ~Indexer
            BY DEF Indexer, DeleteFile, InsertEntity, InsertRelation, connVars
        <3>4. ~(EvapAccept \/ Reinforce \/ LogReinforcement \/ Query \/ FindFocus \/ ContextRelations
                \/ EvapFails)
            BY DEF EvapAccept, Accept, Idle, Reinforce, LogReinforcement, Query, FindFocus,
                   ContextRelations, EvapFails
        <3> QED BY <3>1, <3>2, <3>3, <3>4 DEF Next, Store, EvapNext, Requests
    <2>2. answer'.ents.rows = Listed(req.focus) /\ answer'.rels = req.rels
        <3>1. PICK ents \in Texts(Listed(req.focus), ListRoom) \cup {Failed} :
                  answer' = [is |-> "context", focus |-> req.focus, rels |-> req.rels, ents |-> ents]
            BY <2>1 DEF ContextEntities, Answer
        <3>2. ents.text = "whole"
            BY <3>1
        <3>3. ents = Fits(Listed(req.focus))
            BY <3>1, <3>2 DEF Texts, Failed
        <3> QED BY <3>1, <3>3 DEF Fits
    <2>3. req.focus \in Listed(req.focus)
        BY DEF Ids, Listed
    <2>4. ASSUME NEW r \in req.rels.rows, NEW e \in entities, e.id \in {r.from, r.to}, Visible(e)
          PROVE  e.id \in Listed(req.focus)
        <3>1. CASE e.id = req.focus
            BY <2>3, <3>1
        <3>2. CASE e.id # req.focus
            <4>1. {r.from, r.to} = {e.id, req.focus}
                BY <2>4, <3>2 DEF ContextInv
            <4>2. {r.from, r.to} \subseteq Ids(entities)
                BY <4>1 DEF Ids
            <4>3. PICK q \in relationships : q.from = r.from /\ q.to = r.to
                BY <4>2 DEF ContextInv, StillRelated
            <4>4. <<q.from, q.to>> \in {<<e.id, req.focus>>, <<req.focus, e.id>>}
                BY <2>4, <3>2, <4>1, <4>3
            <4> QED BY <2>4, <4>4 DEF Listed
        <3> QED BY <3>1, <3>2
    <2> QED BY <2>2, <2>3, <2>4
<1> QED BY <1>1, <1>2, KeyStep, ContextStep, PTL DEF Spec, ContextWhole

-----------------------------------------------------------------------------
(* What comes back into sight                                              *)

\* The strength Full halves to in so many half-lives.
Halvings(h) == h = [k \in 0..MaxAge |-> IF k = 0 THEN Full ELSE h[k - 1] \div 2]
Halved == CHOOSE h : Halvings(h)

\* The halving of a strength is what its equation says.
LEMMA HalvedIs == Halvings(Halved) /\ Halved \in [0..MaxAge -> Nat]
<1> DEFINE step == [k \in 1..MaxAge |-> [n \in Nat |-> n \div 2]]
<1>1. MaxAge \in Nat /\ Full \in Nat
    BY DecayAssumption
<1>2. step \in Steps(MaxAge, Nat)
    BY DEF Steps
<1>3. PICK f : Recursion(f, MaxAge, Nat, Full, step)
    <2> HIDE DEF step
    <2> QED BY <1>1, <1>2, RecursionUpTo
<1>4. \A k \in 1..MaxAge : f[k] = f[k - 1] \div 2
    <2> SUFFICES ASSUME NEW k \in 1..MaxAge PROVE f[k] = f[k - 1] \div 2
        OBVIOUS
    <2>1. f[k - 1] \in Nat
        BY <1>1, <1>3 DEF Recursion
    <2> QED BY <1>3, <2>1 DEF Recursion
<1>5. Halvings(f)
    BY <1>1, <1>3, <1>4 DEF Recursion, Halvings
<1>6. Halvings(Halved)
    BY <1>5 DEF Halved
<1> DEFINE S == {k \in 0..MaxAge : Halved[k] \in Nat}
<1>7. 0..MaxAge \subseteq S
    <2>1. 0 \in S
        BY <1>1, <1>6 DEF Halvings
    <2>2. ASSUME NEW k \in 0..MaxAge - 1, k \in S
          PROVE  k + 1 \in S
        <3>1. k + 1 \in 0..MaxAge /\ k + 1 # 0 /\ (k + 1) - 1 = k
            BY <1>1
        <3>2. Halved[k + 1] = Halved[k] \div 2
            BY <1>6, <3>1 DEF Halvings
        <3>3. Halved[k] \in Nat
            BY <2>2
        <3>4. Halved[k] \div 2 \in Nat
            BY <3>3
        <3> QED BY <3>1, <3>2, <3>4
    <2> HIDE DEF S
    <2> QED BY <1>1, <2>1, <2>2, UpToInduction
<1> QED BY <1>6, <1>7 DEF Halvings

\* A half-life never brings a row into sight.
LEMMA OlderIsFainter ==
    ASSUME NEW x, NEW y, x.age \in 0..MaxAge,
           y.age = IF x.age < MaxAge THEN x.age + 1 ELSE x.age, Visible(y)
    PROVE  Visible(x)
<1> DEFINE S(n) == IF n < strength_min THEN strength_min ELSE n
<1>0. /\ MaxAge \in Nat /\ strength_min \in Nat /\ visibility_threshold \in Nat
    BY DecayAssumption
<1>1. Strength(x) = S(Halved[x.age]) /\ Strength(y) = S(Halved[y.age])
    BY DEF Strength, Halved, Halvings
<1>2. CASE x.age < MaxAge
    <2>1. y.age = x.age + 1 /\ y.age \in 0..MaxAge /\ y.age # 0 /\ y.age - 1 = x.age
        BY <1>0, <1>2
    <2>2. Halved[y.age] = Halved[x.age] \div 2 /\ Halved[x.age] \in Nat
        BY <2>1, HalvedIs DEF Halvings
    <2>3. Halved[y.age] <= Halved[x.age]
        BY <2>2
    <2> QED BY <1>0, <1>1, <2>2, <2>3 DEF Visible
<1>3. CASE ~(x.age < MaxAge)
    BY <1>1, <1>3 DEF Visible
<1> QED BY <1>2, <1>3

\* The step of OnlyReinforcementRevives.
Revives(t, x, y) == x.id = y.id /\ ~Visible(x) /\ Visible(y)
NoneRevives ==
    /\ \A x \in entities, y \in entities' :
            Revives("entity", x, y) => reinforced' = Append(reinforced, <<"entity", x.id>>)
    /\ \A x \in relationships, y \in relationships' :
            Revives("relation", x, y) => reinforced' = Append(reinforced, <<"relation", x.id>>)

\* What an age depends on, of entities and of relations.
LEMMA RowFacts ==
    ASSUME KeyInv
    PROVE  /\ \A e \in entities : e \in Entity /\ e.age \in 0..MaxAge /\ e.id \in Nat /\ e.id < next_id["entity"]
           /\ \A r \in relationships : r \in Relation /\ r.age \in 0..MaxAge /\ r.id \in Nat /\ r.id < next_id["relation"]
           /\ \A e, d \in entities : e.id = d.id => e = d
           /\ \A r, q \in relationships : r.id = q.id => r = q
           /\ next_id["entity"] \in Nat /\ next_id["relation"] \in Nat
<1>1. /\ entities \subseteq Entity /\ relationships \subseteq Relation
      /\ next_id["entity"] \in Nat /\ next_id["relation"] \in Nat
    BY DEF KeyInv, RowTypes, Tables
<1>2. \A e \in Entity : e.age \in 0..MaxAge /\ e.id \in Nat
    BY DEF Entity
<1>3. \A r \in Relation : r.age \in 0..MaxAge /\ r.id \in Nat
    BY DEF Relation
<1> QED BY <1>1, <1>2, <1>3 DEF KeyInv, EvapTypeOK

\* Time brings nothing back,
LEMMA TickRevives == KeyInv /\ Tick => NoneRevives
<1> SUFFICES ASSUME KeyInv, Tick PROVE NoneRevives
    OBVIOUS
<1>1. ASSUME NEW x \in entities, NEW y \in entities', Revives("entity", x, y)
      PROVE  FALSE
    <2>1. PICK e \in entities : y = [e EXCEPT !.age = IF @ < MaxAge THEN @ + 1 ELSE @]
        BY DEF Tick, Older
    <2>2. e \in Entity /\ x.id = y.id
        BY <1>1, RowFacts DEF Revives
    <2>3. y.id = e.id /\ y.age = IF e.age < MaxAge THEN e.age + 1 ELSE e.age
        BY <2>1, <2>2 DEF Entity
    <2>4. x = e /\ x.age \in 0..MaxAge
        BY <2>2, <2>3, RowFacts
    <2> QED BY <1>1, <2>3, <2>4, OlderIsFainter DEF Revives
<1>2. ASSUME NEW x \in relationships, NEW y \in relationships', Revives("relation", x, y)
      PROVE  FALSE
    <2>1. PICK r \in relationships : y = [r EXCEPT !.age = IF @ < MaxAge THEN @ + 1 ELSE @]
        BY DEF Tick, Older
    <2>2. r \in Relation /\ x.id = y.id
        BY <1>2, RowFacts DEF Revives
    <2>3. y.id = r.id /\ y.age = IF r.age < MaxAge THEN r.age + 1 ELSE r.age
        BY <2>1, <2>2 DEF Relation
    <2>4. x = r /\ x.age \in 0..MaxAge
        BY <2>2, <2>3, RowFacts
    <2> QED BY <1>2, <2>3, <2>4, OlderIsFainter DEF Revives
<1> QED BY <1>1, <1>2 DEF NoneRevives

\* A row that stays as it is, or is another's, does not come back.
LEMMA SameDoesNotRevive ==
    /\ KeyInv => \A x \in entities, y \in entities : ~Revives("entity", x, y)
    /\ KeyInv => \A x \in relationships, y \in relationships : ~Revives("relation", x, y)
BY RowFacts DEF Revives

\* nor does an index run,
LEMMA IndexerRevives == KeyInv /\ Indexer => NoneRevives
<1> SUFFICES ASSUME KeyInv, Indexer PROVE NoneRevives
    OBVIOUS
<1>1. ASSUME NEW n \in Names, DeleteFile(n)
      PROVE  NoneRevives
    <2>1. entities' \subseteq entities /\ relationships' \subseteq relationships
        BY <1>1 DEF DeleteFile
    <2> QED BY <2>1, SameDoesNotRevive DEF NoneRevives
<1>2. ASSUME NEW n \in Names, InsertEntity(n)
      PROVE  NoneRevives
    <2> DEFINE new == [id |-> next_id["entity"], name |-> n, age |-> 0]
    <2>1. entities' \subseteq entities \cup {new} /\ UNCHANGED relationships
        BY <1>2 DEF InsertEntity
    <2>2. \A x \in entities : x.id # new.id
        BY RowFacts
    <2> HIDE DEF new
    <2>3. \A x \in entities, y \in entities' : ~Revives("entity", x, y)
        BY <2>1, <2>2, SameDoesNotRevive DEF Revives
    <2> QED BY <2>1, <2>3, SameDoesNotRevive DEF NoneRevives
<1>3. ASSUME NEW a \in entities, NEW b \in entities, InsertRelation(a, b)
      PROVE  NoneRevives
    <2> DEFINE new == [id |-> next_id["relation"], from |-> a.id, to |-> b.id, age |-> 0]
    <2>1. relationships' = relationships \cup {new} /\ UNCHANGED entities
        BY <1>3 DEF InsertRelation
    <2>2. \A x \in relationships : x.id # new.id
        BY RowFacts
    <2> HIDE DEF new
    <2>3. \A x \in relationships, y \in relationships' : ~Revives("relation", x, y)
        BY <2>1, <2>2, SameDoesNotRevive DEF Revives
    <2> QED BY <2>1, <2>3, SameDoesNotRevive DEF NoneRevives
<1> QED BY <1>1, <1>2, <1>3 DEF Indexer

\* nor does a reinforcement what it does not reinforce.
LEMMA ReinforceRevives == KeyInv /\ Reinforce => NoneRevives
<1> SUFFICES ASSUME KeyInv, Reinforce PROVE NoneRevives
    OBVIOUS
<1>1. reinforced' = Append(reinforced, <<req.table, req.id>>)
    BY DEF Reinforce
<1>2. CASE req.table = "entity" /\ entities' = Restore(entities, req.id) /\ UNCHANGED relationships
    <2>1. ASSUME NEW x \in entities, NEW y \in entities', Revives("entity", x, y)
          PROVE  x.id = req.id
        <3>1. PICK e \in entities : y = IF e.id = req.id THEN [e EXCEPT !.age = 0] ELSE e
            BY <1>2 DEF Restore
        <3>2. e.id # req.id => y \in entities
            BY <3>1
        <3>3. e.id = req.id => y.id = e.id
            BY <3>1, RowFacts DEF Entity
        <3> QED BY <2>1, <3>2, <3>3, SameDoesNotRevive DEF Revives
    <2> QED BY <1>1, <1>2, <2>1, SameDoesNotRevive DEF NoneRevives
<1>3. CASE req.table = "relation" /\ relationships' = Restore(relationships, req.id) /\ UNCHANGED entities
    <2>1. ASSUME NEW x \in relationships, NEW y \in relationships', Revives("relation", x, y)
          PROVE  x.id = req.id
        <3>1. PICK r \in relationships : y = IF r.id = req.id THEN [r EXCEPT !.age = 0] ELSE r
            BY <1>3 DEF Restore
        <3>2. r.id # req.id => y \in relationships
            BY <3>1
        <3>3. r.id = req.id => y.id = r.id
            BY <3>1, RowFacts DEF Relation
        <3> QED BY <2>1, <3>2, <3>3, SameDoesNotRevive DEF Revives
    <2> QED BY <1>1, <1>3, <2>1, SameDoesNotRevive DEF NoneRevives
<1> QED BY <1>2, <1>3 DEF Reinforce

\* So no step does.
LEMMA StepRevives == KeyInv /\ [Next]_vars => NoneRevives
<1> SUFFICES ASSUME KeyInv, [Next]_vars PROVE NoneRevives
    OBVIOUS
<1>1. ASSUME UNCHANGED storeVars
      PROVE  NoneRevives
    BY <1>1, SameDoesNotRevive DEF storeVars, NoneRevives
<1>2. CASE Board \/ Death \/ Operators \/ UNCHANGED vars
    BY <1>1, <1>2 DEF Board, Death, Operators, vars, evapVars
<1>3. CASE Time
    BY <1>3, TickRevives DEF Time
<1>4. CASE Store
    <2>1. CASE Indexer
        BY <2>1, IndexerRevives
    <2>2. CASE Reinforce
        BY <2>2, ReinforceRevives
    <2>3. CASE EvapAccept \/ LogReinforcement \/ Query \/ FindFocus \/ ContextRelations
               \/ ContextEntities \/ EvapFails
        BY <1>1, <2>3 DEF EvapAccept, LogReinforcement, Query, FindFocus, ContextRelations,
                          ContextEntities, EvapFails, evapVars
    <2> QED BY <1>4, <2>1, <2>2, <2>3 DEF Store, EvapNext, Requests
<1> QED BY <1>2, <1>3, <1>4 DEF Next

\* query.zig: reinforcement is the only way strength moves back up, for any
\* thresholds, any strength rows start with and however long they age.
THEOREM RevivesOnlyReinforced == Spec => OnlyReinforcementRevives
<1> DEFINE Step == \A t \in Tables :
        LET Now == IF t = "entity" THEN entities ELSE relationships
            Then == IF t = "entity" THEN entities' ELSE relationships' IN
        \A x \in Now, y \in Then :
            x.id = y.id /\ ~Visible(x) /\ Visible(y) => reinforced' = Append(reinforced, <<t, x.id>>)
<1>1. NoneRevives => Step
    BY DEF NoneRevives, Revives, Tables
<1>2. KeyInv /\ [Next]_vars => [Step]_<<entities, relationships>>
    BY <1>1, StepRevives
<1>3. Init => KeyInv
    BY DEF Init, EvapInit, KeyInv, RowTypes, EvapTypeOK, Tables
<1>4. OnlyReinforcementRevives <=> [][Step]_<<entities, relationships>>
    BY DEF OnlyReinforcementRevives
<1> HIDE DEF Step
<1> QED BY <1>2, <1>3, <1>4, KeyStep, PTL DEF Spec
=============================================================================
