------------------------------ MODULE TaskService ------------------------------
(***************************************************************************)
(* What a client of the daemon is promised about its tasks, with no thread,*)
(* lock or database in sight: a list of jobs that only grows, worked off   *)
(* one at a time in the order they were submitted, each ending as done or  *)
(* failed and never changing again.  A new daemon process starts over with *)
(* an empty list.  TaskQueue implements this module.                       *)
(***************************************************************************)
EXTENDS Naturals, Sequences

VARIABLE jobs       \* the state of each job, in the order of submission

Terminal == {"done", "failed"}
JobState == {"pending", "running"} \cup Terminal

-----------------------------------------------------------------------------
Init == jobs = <<>>

Submit == jobs' = Append(jobs, "pending")

\* Only the oldest unfinished job may begin.
Begin ==
    \E i \in 1..Len(jobs) :
        /\ jobs[i] = "pending"
        /\ \A j \in 1..(i - 1) : jobs[j] \in Terminal
        /\ jobs' = [jobs EXCEPT ![i] = "running"]

Finish ==
    \E i \in 1..Len(jobs), s \in Terminal :
        /\ jobs[i] = "running"
        /\ jobs' = [jobs EXCEPT ![i] = s]

Forget == jobs' = <<>>

Next == Submit \/ Begin \/ Finish \/ Forget

Spec == Init /\ [][Next]_jobs
=============================================================================
