--------------------------------- MODULE Kanban ---------------------------------
(***************************************************************************)
(* The kanban board: the kanban.* methods of plugins/kanban.zig over the   *)
(* three tables of db.c.  Titles, bodies and priorities are left out.      *)
(***************************************************************************)
EXTENDS Connection

CONSTANT Words      \* the statuses clients ask for, known to the board or not

VARIABLES
    tasks,      \* kanban_tasks, with the events of each; an id is a position
    links       \* kanban_task_links

boardVars == <<tasks, links>>

Statuses == {"triage", "todo", "ready", "running", "blocked", "review", "done", "archived"}
Closed == {"done", "archived"}
AnyStatus == "any"    \* no status asked for in kanban.list
Never == 0      \* NULL in started_at and completed_at

Known(id) == id \in DOMAIN tasks

BoardInit == tasks = <<>> /\ links = {}

\* dispatch: a request without its fields is answered at once.  0 is an id the
\* board does not have.
TaskIds == 0..Len(tasks)
BoardAccept ==
    /\ \/ Accept([at |-> "add"])
       \/ \E id \in TaskIds, s \in Words :
             Accept([at |-> "move", task |-> id, status |-> s])
       \/ \E p \in TaskIds, c \in TaskIds : Accept([at |-> "link", parent |-> p, child |-> c])
       \/ \E id \in TaskIds : Accept([at |-> "get", task |-> id])
       \/ \E s \in Words \cup {AnyStatus} : Accept([at |-> "list", status |-> s])
    /\ UNCHANGED boardVars

\* A statement that fails: of a move or a get the answer is `null`.
Null == [is |-> "null"]
BoardReject ==
    /\ \/ req.at \in {"add", "link"} /\ Answer(Error)
       \/ req.at \in {"move", "get"} /\ Answer(Null)
    /\ UNCHANGED boardVars

-----------------------------------------------------------------------------
\* krl_kanban_add: the row, then its first event, whose failure goes unnoticed.
\* `unlogged` remembers it.
NewTask == [status |-> "triage", started |-> Never, completed |-> Never,
            events |-> <<>>, unlogged |-> FALSE]

AddTask ==
    /\ req.at = "add"
    /\ tasks' = Append(tasks, NewTask)
    /\ Proceed([at |-> "created", task |-> Len(tasks) + 1])
    /\ UNCHANGED links

\* INSERT INTO kanban_events, where the foreign key wants a task.
LogEvent(id, s) ==
    tasks' = IF Known(id) THEN [tasks EXCEPT ![id].events = Append(@, s)] ELSE tasks
LogFails(id) ==
    tasks' = IF Known(id) THEN [tasks EXCEPT ![id].unlogged = TRUE] ELSE tasks

AddEvent ==
    /\ req.at = "created"
    /\ LogEvent(req.task, "triage") \/ LogFails(req.task)
    /\ Answer([is |-> "added", task |-> req.task])
    /\ UNCHANGED links

\* krl_kanban_move: the statement refuses a status the table does not know, but
\* not a row it does not find.
MovedDoneOnly(t, s) ==
    [t EXCEPT !.status = s,
              !.started = IF s = "running" /\ @ = Never THEN served ELSE @,
              !.completed = IF s = "done" THEN served ELSE @]
MovedRestarting(t, s) ==
    [t EXCEPT !.status = s,
              !.started = IF s = "running" THEN served ELSE @,
              !.completed = IF s \in Closed THEN served ELSE @]
Moved(t, s) ==
    [t EXCEPT !.status = s,
              !.started = IF s = "running" /\ @ = Never THEN served ELSE @,
              !.completed = IF s \in Closed THEN served ELSE @]

MoveTaskArchiveSilent ==
    /\ req.at = "move" /\ (Known(req.task) => req.status \in Statuses)
    /\ tasks' = IF Known(req.task)
                THEN [tasks EXCEPT ![req.task] = Moved(@, req.status)] ELSE tasks
    /\ Proceed([at |-> IF req.status = "archived" THEN "get" ELSE "moved",
                task |-> req.task, status |-> req.status])
    /\ UNCHANGED links
MoveTask ==
    /\ req.at = "move" /\ (Known(req.task) => req.status \in Statuses)
    /\ tasks' = IF Known(req.task)
                THEN [tasks EXCEPT ![req.task] = Moved(@, req.status)] ELSE tasks
    /\ Proceed([at |-> "moved", task |-> req.task, status |-> req.status])
    /\ UNCHANGED links

\* The event, then krl_kanban_get for the answer.
MoveEvent ==
    /\ req.at = "moved"
    /\ LogEvent(req.task, req.status) \/ LogFails(req.task)
    /\ Proceed([at |-> "get", task |-> req.task])
    /\ UNCHANGED links

GetTask ==
    /\ req.at = "get"
    /\ Answer(IF Known(req.task)
              THEN [is |-> "task", task |-> req.task, row |-> tasks[req.task]] ELSE Null)
    /\ UNCHANGED boardVars

\* krl_kanban_list; a query that fails is answered like an empty board.
ListTasks ==
    /\ req.at = "list"
    /\ \/ Answer([is |-> "list", tasks |->
                            {id \in DOMAIN tasks : req.status \in {tasks[id].status, AnyStatus}}])
       \/ Answer([is |-> "list", tasks |-> {}])
    /\ UNCHANGED boardVars

LinkTasksUnchecked ==
    /\ req.at = "link"
    /\ links' = links \cup {<<req.parent, req.child>>}
    /\ Answer([is |-> "linked"])
    /\ UNCHANGED tasks
\* krl_kanban_link: both ends are foreign keys.
LinkTasks ==
    /\ req.at = "link" /\ Known(req.parent) /\ Known(req.child)
    /\ links' = links \cup {<<req.parent, req.child>>}
    /\ Answer([is |-> "linked"])
    /\ UNCHANGED tasks

\* What a death between two statements leaves behind.
BoardDies ==
    /\ Die
    /\ IF req.at \in {"created", "moved"} THEN LogFails(req.task) ELSE UNCHANGED tasks
    /\ UNCHANGED links

BoardNext ==
    \/ BoardAccept \/ BoardReject \/ AddTask \/ AddEvent \/ MoveTask \/ MoveEvent
    \/ GetTask \/ ListTasks \/ LinkTasks
-----------------------------------------------------------------------------
(* Properties                                                              *)

\* The links are between tasks of the board, and a stamp is no later than now.
BoardTypeOK ==
    /\ tasks \in Seq([status : Statuses, started : 0..served, completed : 0..served,
                      events : Seq(Statuses), unlogged : BOOLEAN])
    /\ links \subseteq (DOMAIN tasks) \X (DOMAIN tasks)

\* The task whose event is still to come.
Pending(id) == req.at \in {"created", "moved"} /\ req.task = id

\* README.md: kanban_events is the audit trail of the board.  A task none of
\* whose events failed is where its last event says, although the update and
\* the event are two statements.
EventsReplay ==
    \A id \in DOMAIN tasks :
        tasks[id].unlogged \/ Pending(id)
        \/ (tasks[id].events # <<>> /\ Last(tasks[id].events) = tasks[id].status)

\* started_at and completed_at, which krl_kanban_move sets by cases, say whether
\* the task ever ran and was ever closed.
StampsMatchEvents ==
    \A id \in DOMAIN tasks :
        tasks[id].unlogged \/ Pending(id)
        \/ LET past == Range(tasks[id].events) IN
           /\ tasks[id].started # Never <=> "running" \in past
           /\ tasks[id].completed # Never <=> past \cap Closed # {}

\* A task keeps the time it first ran at, however often it is moved.
StartedOnce ==
    [][\A id \in DOMAIN tasks :
            /\ id \in DOMAIN tasks'
            /\ tasks[id].started # Never => tasks'[id].started = tasks[id].started]_tasks
================================================================================
