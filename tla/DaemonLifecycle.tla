----------------------------- MODULE DaemonLifecycle -----------------------------
(***************************************************************************)
(* krul start, stop and status (daemon.zig): daemons that come up, and     *)
(* commands in several terminals, over one pid file and one socket.        *)
(* Nothing keeps two daemons from running.  The number a daemon writes     *)
(* over another's is taken to be no shorter by two digits or more.         *)
(***************************************************************************)
EXTENDS Integers

CONSTANTS
    Pids,       \* process ids; that of a dead process may come back
    Terminals,  \* each has one command at a time
    MaxStarts,  \* bound: daemons ever started
    MaxCrashes  \* bound: daemons that end by themselves or are killed by others

VARIABLES
    daemon,     \* of each pid, how far cmd_start is
    pid_file,   \* /tmp/kruld.pid: a pid, or one of the below
    socket,     \* /tmp/krul.sock: the daemon that listens, or one of the below
    command,    \* of each terminal, how far its command is
    starts, crashes,
    inTurn,     \* history: the last start found no daemon and no command, and
                \* since then the pid file could be written
    unharmed    \* history: no daemon was killed since none was there

lifecycleVars == <<daemon, pid_file, socket, command, starts, crashes, inTurn, unharmed>>

Absent == "absent"
Empty == "empty"    \* a pid file that was created and not written
Stale == "stale"    \* a socket nobody listens to
Gone == "gone"
NoCommand == [at |-> "prompt"]

\* A pid is none of these words.
ASSUME PidsAssumption == {Absent, Empty, Stale} \cap Pids = {}

Alive == {p \in Pids : daemon[p] # Gone}

LifecycleInit ==
    /\ daemon = [p \in Pids |-> Gone] /\ pid_file = Absent /\ socket = Absent
    /\ command = [t \in Terminals |-> NoCommand]
    /\ starts = 0 /\ crashes = 0 /\ inTurn = FALSE /\ unharmed = FALSE

Moves(p, to) == daemon' = [daemon EXCEPT ![p] = to]

-----------------------------------------------------------------------------
\* cmd_start, one step for each thing others can see: the two forks, the pid
\* file, and, when everything else is loaded, the socket.
Start ==
    /\ starts < MaxStarts /\ starts' = starts + 1
    /\ \E p \in Pids \ Alive : Moves(p, "forked")
    /\ inTurn' = (Alive = {} /\ \A t \in Terminals : command[t] = NoCommand)
    /\ unharmed' = (Alive = {} \/ unharmed)
    /\ UNCHANGED <<pid_file, socket, command, crashes>>

\* write_pidfile: createFile empties the file; a failure of either step is logged.
CreatePidFile(p) ==
    /\ daemon[p] = "forked"
    /\ \/ Moves(p, "writing") /\ pid_file' = Empty /\ UNCHANGED inTurn
       \/ Moves(p, "loading") /\ inTurn' = FALSE /\ UNCHANGED pid_file
    /\ UNCHANGED <<socket, command, starts, crashes, unharmed>>
WritePidFile(p) ==
    /\ daemon[p] \in {"writing", "detached"} /\ Moves(p, "loading")
    /\ \/ pid_file' = (IF daemon[p] = "writing" THEN p ELSE pid_file) /\ UNCHANGED inTurn
       \/ inTurn' = FALSE /\ UNCHANGED pid_file
    /\ UNCHANGED <<socket, command, starts, crashes, unharmed>>

DeleteSocketNever(p) ==
    /\ daemon[p] = "loading" /\ Moves(p, "binding")
    /\ UNCHANGED <<pid_file, socket, command, starts, crashes, inTurn, unharmed>>
\* run_daemon_loop: the name goes, whoever listens under it.
DeleteSocket(p) ==
    /\ daemon[p] = "loading" /\ Moves(p, "binding") /\ socket' = Absent
    /\ UNCHANGED <<pid_file, command, starts, crashes, inTurn, unharmed>>

BindTidying(p) ==
    /\ daemon[p] = "binding"
    /\ IF socket = Absent THEN Moves(p, "serving") /\ socket' = p
                          ELSE Moves(p, Gone) /\ socket' = Absent
    /\ UNCHANGED <<pid_file, command, starts, crashes, inTurn, unharmed>>
\* listen, which wants the name free; without it the daemon exits.
Bind(p) ==
    /\ daemon[p] = "binding"
    /\ IF socket = Absent THEN Moves(p, "serving") /\ socket' = p
                          ELSE Moves(p, Gone) /\ UNCHANGED socket
    /\ UNCHANGED <<pid_file, command, starts, crashes, inTurn, unharmed>>

\* The death of a daemon leaves both files behind.
Ends(p) == Moves(p, Gone) /\ socket' = IF socket = p THEN Stale ELSE socket
Crash ==
    /\ crashes < MaxCrashes /\ crashes' = crashes + 1
    /\ \E p \in Alive : Ends(p)
    /\ unharmed' = FALSE
    /\ UNCHANGED <<pid_file, command, starts, inTurn>>

-----------------------------------------------------------------------------
\* cmd_stop and cmd_status begin alike, and end at once without a pid.
ReadPidFile(t) ==
    /\ command[t] = NoCommand
    /\ IF pid_file \in Pids
       THEN \E next \in {"kill", "probe"} :
                command' = [command EXCEPT ![t] = [at |-> next, pid |-> pid_file]]
       ELSE UNCHANGED command
    /\ UNCHANGED <<daemon, pid_file, socket, starts, crashes, inTurn, unharmed>>

Done(t) == command' = [command EXCEPT ![t] = NoCommand]

\* SIGTERM to whatever has the pid now; a pid nobody has is an error, and the
\* file stays.
StopKill(t) ==
    /\ command[t].at = "kill"
    /\ IF command[t].pid \in Alive
       THEN /\ Ends(command[t].pid) /\ unharmed' = FALSE
            /\ command' = [command EXCEPT ![t].at = "delete"]
       ELSE Done(t) /\ UNCHANGED <<daemon, socket, unharmed>>
    /\ UNCHANGED <<pid_file, starts, crashes, inTurn>>
\* The file of that name goes, whoever wrote it; who is still writing it writes
\* into a file without a name.
StopDelete(t) ==
    /\ command[t].at = "delete" /\ Done(t)
    /\ pid_file' = Absent
    /\ daemon' = [p \in Pids |-> IF daemon[p] = "writing" THEN "detached" ELSE daemon[p]]
    /\ UNCHANGED <<socket, starts, crashes, inTurn, unharmed>>

\* kill(pid, 0), connect, and the answer of whoever listens.
StatusProbe(t) ==
    /\ command[t].at = "probe"
    /\ IF command[t].pid \in Alive THEN command' = [command EXCEPT ![t].at = "connect"] ELSE Done(t)
    /\ UNCHANGED <<daemon, pid_file, socket, starts, crashes, inTurn, unharmed>>
StatusConnect(t) ==
    /\ command[t].at = "connect"
    /\ IF socket \in Pids
       THEN command' = [command EXCEPT ![t] = [at |-> "reply", pid |-> command[t].pid, by |-> socket]]
       ELSE Done(t)
    /\ UNCHANGED <<daemon, pid_file, socket, starts, crashes, inTurn, unharmed>>
StatusReply(t) ==
    /\ command[t].at = "reply" /\ Done(t)
    /\ UNCHANGED <<daemon, pid_file, socket, starts, crashes, inTurn, unharmed>>

StartSteps(p) == CreatePidFile(p) \/ WritePidFile(p) \/ DeleteSocket(p) \/ Bind(p)
CommandSteps(t) ==
    ReadPidFile(t) \/ StopKill(t) \/ StopDelete(t) \/ StatusProbe(t) \/ StatusConnect(t) \/ StatusReply(t)
LifecycleNext ==
    \/ Start \/ Crash
    \/ \E p \in Pids : StartSteps(p)
    \/ \E t \in Terminals : CommandSteps(t)
-----------------------------------------------------------------------------
(* Properties                                                              *)

\* main.zig: stop stops "a running daemon", status shows its "status and task
\* queue stats".  Whoever starts a daemon when none runs and no command is under
\* way gets one that takes over what dead ones left behind, at whatever point
\* they and their commands were cut off: it is alone, its bind succeeds, pid
\* file and socket are its own, and the status answer comes from the process it
\* names.
OwnDaemonInTurn ==
    inTurn =>
        /\ \A p \in Alive :
            /\ Alive = {p}
            /\ daemon[p] \in {"loading", "binding", "serving"} => pid_file = p
            /\ daemon[p] = "binding" => socket = Absent
            /\ daemon[p] = "serving" => socket = p
        /\ \A t \in Terminals : command[t].at = "reply" => command[t].by = command[t].pid

\* Starts that race delete each other's socket and may find the name taken.
\* When all have come to an end, and none was killed, one of the daemons is the
\* one that clients reach.
RaceLeavesOneReachable ==
    unharmed /\ Alive # {} /\ (\A p \in Alive : daemon[p] = "serving") => socket \in Alive
==================================================================================
