------------------------------- MODULE Connection -------------------------------
(***************************************************************************)
(* The IPC thread as the requests over database tables see it: it has one  *)
(* request in hand, runs the statements of that request one by one on the  *)
(* daemon's connection, and answers.  Every statement is a transaction of  *)
(* its own and may fail; between two of them other processes may write,    *)
(* and the daemon may die.                                                 *)
(***************************************************************************)
EXTENDS Integers, SequencesExt

CONSTANT MaxRequests    \* bound: requests and deaths of the daemon

ASSUME RequestsAssumption == MaxRequests \in Nat

VARIABLES
    req,        \* the request in hand and the statement it is at
    served,     \* how many requests came, which also serves as NOW()
    answer      \* the answer to the last request, when there is one

connVars == <<req, served, answer>>

Idle == [at |-> "idle"]
NoAnswer == [is |-> "none"]
Error == [is |-> "error"]

ConnInit == req = Idle /\ served = 0 /\ answer = NoAnswer

Accept(r) ==
    /\ req = Idle /\ served < MaxRequests
    /\ served' = served + 1 /\ req' = r /\ answer' = NoAnswer

Proceed(r) == req' = r /\ UNCHANGED <<served, answer>>

Answer(a) == req' = Idle /\ answer' = a /\ UNCHANGED served

\* The daemon is killed and started again: nobody gets an answer.
Die ==
    /\ served < MaxRequests
    /\ served' = served + 1 /\ req' = Idle /\ answer' = NoAnswer
================================================================================
