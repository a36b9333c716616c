---------------------------- MODULE MCGearRequests ----------------------------
(***************************************************************************)
(* An instance of GearRequests with four gears: a loop of a model and a    *)
(* command that read each other's output, one command until it succeeds,   *)
(* in a stage with the name of the request's text, a condition behind a    *)
(* command, and a gear that may not iterate.                               *)
(***************************************************************************)
EXTENDS GearRequests

CONSTANTS near, far

MCTexts == {near, far, EmptyLine, "fix", "try", "check", "none", "list"}
MCGears == <<
    [triggers |-> <<"fix">>, condition |-> "plan", max_iterations |-> 2, stages |-> <<
        [id |-> "plan", kind |-> "llm", prompt |-> <<"run">>],
        [id |-> "run", kind |-> "process", prompt |-> <<"plan", "run">>]>>],
    [triggers |-> <<"try">>, condition |-> AlwaysMet, max_iterations |-> 3, stages |-> <<
        [id |-> "input", kind |-> "process", prompt |-> <<"input">>]>>],
    [triggers |-> <<"check">>, condition |-> "unknown", max_iterations |-> 1, stages |-> <<
        [id |-> "same", kind |-> "parallel_llm", prompt |-> <<"same">>],
        [id |-> "same", kind |-> "process", prompt |-> <<"same">>],
        [id |-> "end", kind |-> "condition", prompt |-> <<>>]>>],
    [triggers |-> <<"none">>, condition |-> AlwaysMet, max_iterations |-> 0, stages |-> <<
        [id |-> "once", kind |-> "llm", prompt |-> <<>>]>>]>>
MCMatches == {<<t, t>> : t \in {"fix", "try", "check", "none"}}
MCScore == [a \in MCTexts |-> [b \in MCTexts |->
    IF a = near /\ b = "try" THEN 2 ELSE IF a = near /\ b = "none" THEN 3 ELSE 1]]
================================================================================
