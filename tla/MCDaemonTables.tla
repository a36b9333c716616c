----------------------------- MODULE MCDaemonTables -----------------------------
(***************************************************************************)
(* An instance of DaemonTables: an agent and its covergroup; two pids and  *)
(* two terminals.                                                          *)
(***************************************************************************)
EXTENDS DaemonTables

CONSTANTS agent, cover

MCNames == {agent, cover}
MCProject == [n \in MCNames |-> 1]
MCEdges == {<<agent, cover>>}
MCAgents == {agent}
MCMaxRows == [entity |-> 3, relation |-> 3]
MCWords == {"ready", "running", "review", "done", "archived", "started"}
=================================================================================
