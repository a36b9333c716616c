------------------------------ MODULE DaemonTables ------------------------------
(***************************************************************************)
(* The daemon as three groups of people use it: clients of the board and   *)
(* of the entity store, served on one thread and connection while another  *)
(* process indexes, and operators who start and stop it.  The groups share *)
(* no table and no file: a behaviour has one of them, what the others use  *)
(* is at rest.                                                             *)
(***************************************************************************)
EXTENDS Kanban, Evaporation, DaemonLifecycle

VARIABLE clients    \* who uses the daemon

vars == <<clients, connVars, boardVars, evapVars, lifecycleVars>>

Init ==
    /\ clients \in {"board", "store", "operators"}
    /\ ConnInit /\ BoardInit /\ EvapInit /\ LifecycleInit

Board == clients = "board" /\ BoardNext /\ UNCHANGED <<clients, evapVars, lifecycleVars>>
Store == clients = "store" /\ EvapNext /\ UNCHANGED <<clients, boardVars, lifecycleVars>>
Time == clients # "operators" /\ Tick /\ UNCHANGED <<clients, boardVars, lifecycleVars>>
Death == clients # "operators" /\ BoardDies /\ UNCHANGED <<clients, evapVars, lifecycleVars>>
Operators ==
    /\ clients = "operators" /\ LifecycleNext
    /\ UNCHANGED <<clients, connVars, boardVars, evapVars>>
Next == Board \/ Store \/ Time \/ Death \/ Operators

\* Time passes.
Spec == Init /\ [][Next]_vars /\ WF_vars(Time)
=================================================================================
