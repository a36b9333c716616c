------------------------------ MODULE GearExecutor ------------------------------
(***************************************************************************)
(* executor.zig: the stages of a gear in order, again and again until its  *)
(* condition is met; hooks.zig: the gate before a command, the hooks after *)
(* a stage and after the gear.  Texts stand for what they were made from.  *)
(***************************************************************************)
EXTENDS Integers, SequencesExt

CONSTANT Gears

StageTypes == [id : STRING, kind : {"llm", "parallel_llm", "process", "condition"},
               prompt : Seq(STRING)]

\* A prompt is a sequence of its words and tokens.  A gear has a stage: without
\* one g.stages.len - 1 underflows.
GearTypes == [stages : Seq(StageTypes) \ {<<>>}, condition : STRING,
              max_iterations : Nat, triggers : Seq(STRING)]

ASSUME GearsAssumption == Gears \in Seq(GearTypes)

VARIABLES
    at,         \* where the IPC thread is
    gear,       \* the gear it runs, 0 for none
    iteration, stage,
    outputs,    \* by stage id
    last,       \* the result so far
    fired,      \* the hooks fired for this gear, in order
    gate,       \* whether a gate script is configured
    cmd,        \* the command at the gate or running
    verdict,    \* history: what became of the gate's last look, and at what
    ran         \* history: the command last run, and the verdict at that time

runVars == <<gear, iteration, stage, outputs, last, fired, cmd, verdict, ran>>
executorVars == <<at, gate, runVars>>

Empty == <<>>
Denied == <<"denied by gate">>
Nothing == [is |-> "nothing"]
AlwaysMet == "always"   \* a condition without a dot, or not about a status

Stages == Gears[gear].stages
Stage == Stages[stage]

ExecutorInit ==
    /\ gear = 0 /\ iteration = 0 /\ stage = 0 /\ outputs = <<>> /\ last = Empty
    /\ fired = <<>> /\ cmd = <<>> /\ verdict = Nothing /\ ran = Nothing
    /\ gate \in BOOLEAN

\* run, up to the loop.
Run(g) ==
    /\ gear' = g /\ outputs' = <<>> /\ last' = Empty
    /\ stage' = 1 /\ verdict' = Nothing /\ ran' = Nothing /\ cmd' = <<>>
    /\ IF Gears[g].max_iterations > 0
       THEN at' = "stage" /\ iteration' = 1 /\ fired' = <<>>
       ELSE /\ at' = "finished" /\ iteration' = 0
            /\ fired' = <<[hook |-> "on_gear_complete", iterations |-> 0, reason |-> "max_iterations"]>>
    /\ UNCHANGED gate

\* Its variables are gone once it has returned.
Return ==
    /\ gear' = 0 /\ iteration' = 0 /\ stage' = 0 /\ outputs' = <<>> /\ last' = Empty
    /\ fired' = <<>> /\ cmd' = <<>> /\ verdict' = Nothing /\ ran' = Nothing
    /\ UNCHANGED gate

\* Tokens for the texts of the request itself, even if a stage has such a name.
Given == {"input", "context"}

\* A token that names no text of the request and no output stays in the text.
fillTemplate(prompt) ==
    [p \in DOMAIN prompt |->
        IF prompt[p] \in DOMAIN outputs \ Given
        THEN outputs[prompt[p]].content ELSE <<prompt[p]>>]

PutSucceeded(out) ==
    outputs' = [id \in DOMAIN outputs \cup {Stage.id} |->
                  IF id # Stage.id THEN outputs[id]
                  ELSE IF out.failed /\ id \in DOMAIN outputs THEN [outputs[id] EXCEPT !.failed = TRUE]
                  ELSE out]
Put(out) ==
    outputs' = [id \in DOMAIN outputs \cup {Stage.id} |-> IF id = Stage.id THEN out ELSE outputs[id]]

\* The output of the stage, the hook, and on to the next stage.
StageEnds(out) ==
    /\ Put(out)
    /\ fired' = Append(fired, [hook |-> "on_gear_stage_complete", stage |-> Stage.id, failed |-> out.failed])
    /\ IF stage < Len(Stages) THEN stage' = stage + 1 /\ at' = "stage"
                              ELSE stage' = stage /\ at' = "iterated"

\* What this stage makes in this iteration.
Made == <<iteration, stage>>

RunModel ==
    /\ at = "stage" /\ Stage.kind \in {"llm", "parallel_llm"}
    /\ \E out \in {[content |-> Made, failed |-> FALSE], [content |-> Empty, failed |-> TRUE]} :
          StageEnds(out)
    /\ UNCHANGED <<gear, iteration, last, gate, cmd, verdict, ran>>

RunCondition ==
    /\ at = "stage" /\ Stage.kind = "condition"
    /\ StageEnds([content |-> Empty, failed |-> FALSE])
    /\ UNCHANGED <<gear, iteration, last, gate, cmd, verdict, ran>>

RunProcess ==
    /\ at = "stage" /\ Stage.kind = "process"
    /\ cmd' = fillTemplate(Stage.prompt)
    /\ at' = IF gate THEN "gate" ELSE "exec"
    /\ UNCHANGED <<gear, iteration, stage, outputs, last, fired, gate, verdict, ran>>

\* krl_exec_argv and gateProcess: the script exits with 0 or not, or no process
\* can be had for it.
GateOutcomes == {"exit 0", "exit not 0", "not launched"}
AllowedUnlaunched(outcome) == outcome # "exit not 0"
Allowed(outcome) == outcome = "exit 0"
AskGate ==
    /\ at = "gate"
    /\ \E outcome \in GateOutcomes :
        /\ verdict' = [is |-> outcome, cmd |-> cmd]
        /\ IF Allowed(outcome)
           THEN at' = "exec" /\ UNCHANGED <<stage, outputs, fired>>
           ELSE StageEnds([content |-> Denied, failed |-> TRUE])
    /\ UNCHANGED <<gear, iteration, last, gate, cmd, ran>>

\* krl_exec_shell: the output counts whatever the exit code is.
RunShell ==
    /\ at = "exec"
    /\ ran' = [is |-> "ran", cmd |-> cmd, verdict |-> verdict]
    /\ \E out \in [content : {Made}, failed : BOOLEAN] \cup {[content |-> Empty, failed |-> TRUE]} :
          StageEnds(out)
    /\ UNCHANGED <<gear, iteration, last, gate, cmd, verdict>>

checkTermination ==
    LET condition == Gears[gear].condition IN
    \/ condition = AlwaysMet
    \/ condition \in DOMAIN outputs /\ ~outputs[condition].failed

Complete(reason) ==
    /\ at' = "finished"
    /\ fired' = Append(fired, [hook |-> "on_gear_complete", iterations |-> iteration, reason |-> reason])
    /\ UNCHANGED <<iteration, stage>>
Again ==
    IF iteration < Gears[gear].max_iterations
    THEN at' = "stage" /\ iteration' = iteration + 1 /\ stage' = 1 /\ UNCHANGED fired
    ELSE Complete("max_iterations")

EndIterationOneMore ==
    LET out == outputs[Last(Stages).id] IN
    /\ at = "iterated"
    /\ last' = IF out.failed THEN last ELSE out.content
    /\ IF ~out.failed /\ checkTermination THEN Complete("done")
       ELSE IF iteration <= Gears[gear].max_iterations
       THEN at' = "stage" /\ iteration' = iteration + 1 /\ stage' = 1 /\ UNCHANGED fired
       ELSE Complete("max_iterations")
    /\ UNCHANGED <<gear, outputs, gate, cmd, verdict, ran>>
EndIterationKeepingFailed ==
    LET out == outputs[Last(Stages).id] IN
    /\ at = "iterated"
    /\ last' = out.content
    /\ IF ~out.failed /\ checkTermination THEN Complete("done") ELSE Again
    /\ UNCHANGED <<gear, outputs, gate, cmd, verdict, ran>>
EndIterationOnCondition ==
    LET out == outputs[Last(Stages).id] IN
    /\ at = "iterated"
    /\ last' = IF out.failed THEN last ELSE out.content
    /\ IF checkTermination THEN Complete("done") ELSE Again
    /\ UNCHANGED <<gear, outputs, gate, cmd, verdict, ran>>
EndIteration ==
    LET out == outputs[Last(Stages).id] IN
    /\ at = "iterated"
    /\ last' = IF out.failed THEN last ELSE out.content
    /\ IF ~out.failed /\ checkTermination THEN Complete("done") ELSE Again
    /\ UNCHANGED <<gear, outputs, gate, cmd, verdict, ran>>

ExecutorStep ==
    RunModel \/ RunCondition \/ RunProcess \/ AskGate \/ RunShell \/ EndIteration
-----------------------------------------------------------------------------
(* Properties                                                              *)

ExecutorTypeOK ==
    gear # 0 =>
        /\ gear \in DOMAIN Gears /\ iteration \in 0..Gears[gear].max_iterations
        /\ stage \in 1..Len(Stages)
        /\ DOMAIN outputs \subseteq {Stages[k].id : k \in DOMAIN Stages}
        /\ \A id \in DOMAIN outputs : outputs[id].failed \in BOOLEAN
        /\ gate \in BOOLEAN

\* hooks.zig:48: "Exit 0 allows the stage; any other exit, or a failure to even
\* launch the script, denies it."  With a gate, what ran is a command the gate
\* was shown and let pass, as it was shown.
GateFailsClosed ==
    gate /\ ran # Nothing => ran.verdict = [is |-> "exit 0", cmd |-> ran.cmd]

\* outputs is one map for all iterations.  What a prompt takes from an earlier
\* stage was made in this iteration, what it takes from a later one, or from
\* itself, in the one before, also when stages fail or are denied on the way.
PromptsFresh ==
    at = "stage" =>
        \A text \in Range(fillTemplate(Stage.prompt)) \cap ((0..iteration) \X (1..Len(Stages))) :
            text[1] = IF text[2] < stage THEN iteration ELSE iteration - 1

\* The events of iteration i.
Event(i, k) == fired[(i - 1) * Len(Stages) + k]

\* Plugins follow a gear by its hooks: one event for every stage of every
\* iteration, in order, then one for the gear, with the right count.
HooksTellRun ==
    at = "finished" =>
        LET done == Last(fired) IN
        /\ Len(fired) = done.iterations * Len(Stages) + 1
        /\ \A i \in 1..done.iterations : \A k \in DOMAIN Stages : Event(i, k).stage = Stages[k].id
        /\ done.reason = "done" => done.iterations = iteration /\ ~Event(iteration, Len(Stages)).failed
        /\ done.reason # "done" => done.iterations = Gears[gear].max_iterations

\* The answer is what the last stage made in the latest iteration in which it
\* succeeded, by the hooks' account, and empty when there was none.
ResultIsLastSuccess ==
    at = "finished" =>
        LET good == {i \in 1..iteration : ~Event(i, Len(Stages)).failed} IN
        last = IF good = {} \/ Last(Stages).kind = "condition" THEN Empty
               ELSE <<CHOOSE i \in good : \A j \in good : j <= i, Len(Stages)>>
================================================================================
