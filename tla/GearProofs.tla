------------------------------- MODULE GearProofs -------------------------------
(***************************************************************************)
(* The gate and the protocol with the encoder, proved for any gears, any   *)
(* texts and any number of requests and deaths of the encoder.             *)
(***************************************************************************)
EXTENDS GearRequests, SetInduction, SequenceTheorems

\* Every gear has stages, and a number of iterations it may take.
LEMMA GearTyped ==
    \A g \in DOMAIN Gears :
        /\ Gears[g].stages \in Seq(StageTypes) /\ Gears[g].stages # <<>>
        /\ Gears[g].max_iterations \in Nat /\ Gears[g].triggers \in Seq(STRING)
<1> SUFFICES ASSUME NEW g \in DOMAIN Gears
             PROVE  /\ Gears[g].stages \in Seq(StageTypes) /\ Gears[g].stages # <<>>
                    /\ Gears[g].max_iterations \in Nat /\ Gears[g].triggers \in Seq(STRING)
    OBVIOUS
<1>1. Gears[g] \in GearTypes
    BY GearsAssumption, ElementOfSeq, LenProperties
<1> QED BY <1>1 DEF GearTypes

-----------------------------------------------------------------------------
(* The protocol with the encoder                                           *)

\* At most one line or reply is under way, and only while the daemon reads; a
\* daemon that waits for ever, or for the end of the pipe, has neither.
ProtocolInv ==
    /\ at # "read" => lines = <<>> /\ replies = <<>>
    /\ at = "read" => \/ lines = <<text>> /\ replies = <<>>
                      \/ lines = <<>> /\ replies = <<>>
                      \/ lines = <<>> /\ \E r \in {Null, Embed(text)} : replies = <<r>>

\* What the daemon makes of an answer takes it out of encode.
LEMMA EncodedLeaves ==
    ASSUME NEW embed, Encoded(embed)
    PROVE  at' # "read"
<1>1. CASE todo # <<>>
    BY <1>1 DEF Encoded
<1>2. CASE todo = <<>>
    <2>1. CASE at' = "idle"
        BY <2>1
    <2>2. CASE \E g : Run(g)
        BY <2>2 DEF Run
    <2> QED BY <1>2, <2>1, <2>2 DEF Encoded, Reply
<1> QED BY <1>1, <1>2

\* No stage of a gear reads from the encoder.
LEMMA ExecutorLeaves == ExecutorStep => at # "read" /\ at' # "read"
<1>1. ASSUME NEW out, StageEnds(out)
      PROVE  at' # "read"
    BY <1>1 DEF StageEnds
<1>2. RunModel \/ RunCondition \/ RunShell => at # "read" /\ at' # "read"
    BY <1>1 DEF RunModel, RunCondition, RunShell
<1>3. RunProcess => at # "read" /\ at' # "read"
    BY DEF RunProcess
<1>4. AskGate => at # "read" /\ at' # "read"
    BY <1>1 DEF AskGate
<1>5. EndIteration => at # "read" /\ at' # "read"
    BY DEF EndIteration, Complete, Again
<1> QED BY <1>2, <1>3, <1>4, <1>5 DEF ExecutorStep

\* Every step keeps the daemon and the encoder in step.
LEMMA ProtocolStep == ProtocolInv /\ [Next]_vars => ProtocolInv'
<1> SUFFICES ASSUME ProtocolInv, [Next]_vars PROVE ProtocolInv'
    OBVIOUS
<1>1. CASE UNCHANGED vars
    BY <1>1 DEF vars, encoderVars, executorVars, routeVars, ProtocolInv, Embed
<1>2. CASE Start
    <2>1. at # "read" /\ at' # "read" /\ UNCHANGED <<lines, replies>>
        BY <1>2 DEF Start, start
    <2> QED BY <2>1 DEF ProtocolInv
<1>3. CASE Write
    <2>1. /\ at # "read" /\ at' = "read" /\ UNCHANGED <<text, replies>>
          /\ lines' = Append(lines, text)
        BY <1>3 DEF Write, write
    <2>2. lines' = <<text>> /\ replies' = <<>>
        BY <2>1 DEF ProtocolInv
    <2> QED BY <2>1, <2>2 DEF ProtocolInv
<1>4. CASE Read
    <2>1. PICK reply : readLine(reply) /\ Encoded(reply)
        BY <1>4 DEF Read
    <2>2. at' # "read" /\ at = "read" /\ replies # <<>> /\ replies' = Tail(replies) /\ UNCHANGED lines
        BY <1>4, <2>1, EncodedLeaves DEF Read, readLine
    <2>3. lines = <<>> /\ \E r : replies = <<r>>
        BY <2>2 DEF ProtocolInv
    <2> QED BY <2>2, <2>3 DEF ProtocolInv
<1>5. CASE EncoderGone
    <2>1. at' # "read" /\ lines' = <<>> /\ replies' = <<>>
        BY <1>5, EncodedLeaves DEF EncoderGone, markDead
    <2> QED BY <2>1 DEF ProtocolInv
<1>6. CASE NotRunning
    <2>1. at # "read" /\ at' # "read" /\ UNCHANGED <<lines, replies>>
        BY <1>6, EncodedLeaves DEF NotRunning, encoderVars
    <2> QED BY <2>1 DEF ProtocolInv
<1>7. CASE Request
    <2>1. at # "read" /\ UNCHANGED <<lines, replies>>
        BY <1>7 DEF Request, encoderVars
    <2>2. at' # "read"
        BY <1>7 DEF Request, Reply, Run
    <2> QED BY <2>1, <2>2 DEF ProtocolInv
<1>8. CASE AnswerGear
    <2>1. at # "read" /\ at' # "read" /\ UNCHANGED <<lines, replies>>
        BY <1>8 DEF AnswerGear, encoderVars
    <2> QED BY <2>1 DEF ProtocolInv
<1>9. CASE ExecutorStep /\ UNCHANGED <<encoderVars, routeVars>>
    <2>1. at # "read" /\ at' # "read" /\ UNCHANGED <<lines, replies>>
        BY <1>9, ExecutorLeaves DEF encoderVars
    <2> QED BY <2>1 DEF ProtocolInv
<1>10. CASE Encoder
    <2>1. /\ UNCHANGED <<at, text>> /\ lines # <<>> /\ lines' = Tail(lines)
          /\ \/ UNCHANGED replies
             \/ \E reply \in {Null, Embed(Head(lines))} : replies' = Append(replies, reply)
        BY <1>10 DEF Encoder, Serve, executorVars, routeVars
    <2>2. at = "read" /\ lines = <<text>> /\ replies = <<>>
        BY <2>1 DEF ProtocolInv
    <2>3. lines' = <<>> /\ Head(lines) = text
        BY <2>1, <2>2
    <2>4. replies' = <<>> \/ \E reply \in {Null, Embed(text)} : replies' = <<reply>>
        BY <2>1, <2>2, <2>3
    <2> QED BY <2>1, <2>2, <2>3, <2>4 DEF ProtocolInv, Embed
<1>11. CASE Death
    <2>1. UNCHANGED <<at, text, replies>> /\ lines' = <<>>
        BY <1>11 DEF Death, EncoderDies, executorVars, routeVars
    <2> QED BY <2>1 DEF ProtocolInv, Embed
<1> QED BY <1>1, <1>2, <1>3, <1>4, <1>5, <1>6, <1>7, <1>8, <1>9, <1>10, <1>11 DEF Next, Daemon

\* plugin_main.c:158: "the protocol stays in sync", whenever the encoder dies
\* and whatever of its replies are null.
THEOREM ProtocolInStep == Spec => []AnswersInStep
<1>1. Init => ProtocolInv
    BY DEF Init, EncoderInit, ProtocolInv
<1>2. ProtocolInv => AnswersInStep
    <2> SUFFICES ASSUME ProtocolInv PROVE AnswersInStep
        OBVIOUS
    <2>1. CASE lines = <<>> /\ replies = <<>>
        BY <2>1 DEF AnswersInStep
    <2>2. CASE at = "read" /\ lines = <<text>> /\ replies = <<>>
        BY <2>2 DEF AnswersInStep
    <2>3. CASE at = "read" /\ lines = <<>> /\ \E r \in {Null, Embed(text)} : replies = <<r>>
        BY <2>3 DEF AnswersInStep
    <2> QED BY <2>1, <2>2, <2>3 DEF ProtocolInv
<1> QED BY <1>1, <1>2, ProtocolStep, PTL DEF Spec

-----------------------------------------------------------------------------
(* The gate                                                                *)

\* What stands at the start of a command is what the gate let pass.
GateInv ==
    /\ gate /\ at = "exec" => verdict = [is |-> "exit 0", cmd |-> cmd]
    /\ gate /\ ran # Nothing => ran.verdict = [is |-> "exit 0", cmd |-> ran.cmd]

\* A gear that begins has run nothing, and is not at a command.
LEMMA RunGate == \A g : Run(g) => UNCHANGED gate /\ at' # "exec" /\ ran' = Nothing
BY DEF Run

\* Nor does an answer of the encoder start a command.
LEMMA EncodedGate ==
    ASSUME NEW embed, Encoded(embed), GateInv, at # "exec"
    PROVE  GateInv'
<1>1. \/ UNCHANGED <<gate, ran>> /\ at' # "exec"
      \/ UNCHANGED gate /\ at' # "exec" /\ ran' = Nothing
    <2>1. CASE todo # <<>>
        BY <2>1 DEF Encoded, runVars
    <2>2. CASE todo = <<>>
        BY <2>2, RunGate DEF Encoded, Reply, runVars
    <2> QED BY <2>1, <2>2
<1>2. CASE UNCHANGED <<gate, ran>> /\ at' # "exec"
    BY <1>2 DEF GateInv
<1>3. CASE UNCHANGED gate /\ at' # "exec" /\ ran' = Nothing
    BY <1>3 DEF GateInv
<1> QED BY <1>1, <1>2, <1>3

\* The stages: a command runs from "exec", which RunProcess enters without a
\* gate and AskGate with the gate's leave.
LEMMA ExecutorGate == GateInv /\ ExecutorStep => GateInv'
<1> SUFFICES ASSUME GateInv, ExecutorStep PROVE GateInv'
    OBVIOUS
<1>1. ASSUME NEW out, StageEnds(out)
      PROVE  at' \in {"stage", "iterated"}
    BY <1>1 DEF StageEnds
<1>2. CASE RunModel \/ RunCondition
    <2>1. at' # "exec" /\ UNCHANGED <<gate, ran>>
        BY <1>1, <1>2 DEF RunModel, RunCondition
    <2> QED BY <2>1 DEF GateInv
<1>3. CASE RunProcess
    <2>1. UNCHANGED <<gate, ran>> /\ (gate => at' # "exec")
        BY <1>3 DEF RunProcess
    <2> QED BY <2>1 DEF GateInv
<1>4. CASE AskGate
    <2>1. PICK outcome \in GateOutcomes :
            /\ verdict' = [is |-> outcome, cmd |-> cmd]
            /\ at' = "exec" => Allowed(outcome)
        BY <1>1, <1>4 DEF AskGate
    <2>2. UNCHANGED <<gate, ran, cmd>>
        BY <1>4 DEF AskGate
    <2>3. gate /\ at' = "exec" => verdict' = [is |-> "exit 0", cmd |-> cmd']
        BY <2>1, <2>2 DEF Allowed
    <2> QED BY <2>2, <2>3 DEF GateInv
<1>5. CASE RunShell
    <2>1. /\ at = "exec" /\ at' # "exec" /\ UNCHANGED gate
          /\ ran' = [is |-> "ran", cmd |-> cmd, verdict |-> verdict]
        BY <1>1, <1>5 DEF RunShell
    <2> QED BY <2>1 DEF GateInv
<1>6. CASE EndIteration
    <2>1. at' # "exec" /\ UNCHANGED <<gate, ran>>
        BY <1>6 DEF EndIteration, Complete, Again
    <2> QED BY <2>1 DEF GateInv
<1> QED BY <1>2, <1>3, <1>4, <1>5, <1>6 DEF ExecutorStep

\* hooks.zig:48: with a gate configured no command runs but the one the gate was
\* shown, after the gate exited with 0.
THEOREM GateHolds == Spec => []GateFailsClosed
<1>1. Init => GateInv
    BY DEF Init, ExecutorInit, GateInv
<1>2. GateInv /\ [Next]_vars => GateInv'
    <2> SUFFICES ASSUME GateInv, [Next]_vars PROVE GateInv'
        OBVIOUS
    <2>1. CASE UNCHANGED vars \/ Encoder \/ Death
        <3>1. UNCHANGED <<at, gate, verdict, cmd, ran>>
            BY <2>1 DEF vars, Encoder, Death, executorVars, runVars
        <3> QED BY <3>1 DEF GateInv
    <2>2. CASE Start \/ Write
        <3>1. at' # "exec" /\ UNCHANGED <<gate, ran>>
            BY <2>2 DEF Start, Write, runVars
        <3> QED BY <3>1 DEF GateInv
    <2>3. CASE Read \/ EncoderGone \/ NotRunning
        <3>1. at # "exec" /\ \E embed : Encoded(embed)
            BY <2>3 DEF Read, EncoderGone, NotRunning
        <3> QED BY <3>1, EncodedGate
    <2>4. CASE Request
        <3>1. \/ UNCHANGED <<gate, ran>> /\ at' # "exec"
              \/ UNCHANGED gate /\ at' # "exec" /\ ran' = Nothing
            BY <2>4, RunGate DEF Request, Reply, runVars
        <3>2. CASE UNCHANGED <<gate, ran>> /\ at' # "exec"
            BY <3>2 DEF GateInv
        <3>3. CASE UNCHANGED gate /\ at' # "exec" /\ ran' = Nothing
            BY <3>3 DEF GateInv
        <3> QED BY <3>1, <3>2, <3>3
    <2>5. CASE AnswerGear
        <3>1. at' # "exec" /\ ran' = Nothing /\ UNCHANGED gate
            BY <2>5 DEF AnswerGear, Return
        <3> QED BY <3>1 DEF GateInv
    <2>6. CASE ExecutorStep
        BY <2>6, ExecutorGate
    <2> QED BY <2>1, <2>2, <2>3, <2>4, <2>5, <2>6 DEF Next, Daemon
<1>3. GateInv => GateFailsClosed
    BY DEF GateInv, GateFailsClosed
<1> QED BY <1>1, <1>2, <1>3, PTL DEF Spec

-----------------------------------------------------------------------------
(* The outputs of the stages                                               *)

Inside == at \in {"stage", "gate", "exec", "iterated"}

\* The stages that ended in this iteration.
Ended(s) == at = "iterated" \/ s < stage

\* What an output holds, and which iteration made it.
HoldsFresh(id) ==
    \/ outputs[id].content \in {Empty, Denied}
    \/ \E s \in DOMAIN Stages :
          /\ Stages[s].id = id
          /\ outputs[id].content = <<IF Ended(s) THEN iteration ELSE iteration - 1, s>>

FreshInv ==
    Inside =>
        /\ gear \in DOMAIN Gears /\ stage \in DOMAIN Stages /\ iteration \in Nat
        /\ at = "iterated" => stage = Len(Stages)
        /\ \A id \in DOMAIN outputs : HoldsFresh(id)

\* A stage ends: its output is of this iteration, the others are as fresh as
\* they were.
LEMMA StageEndsFresh ==
    ASSUME FreshInv, at \in {"stage", "gate", "exec"}, NEW out, StageEnds(out),
           out.content \in {Made, Empty, Denied}, UNCHANGED <<gear, iteration>>
    PROVE  FreshInv'
<1> PICK id, k : id = Stage.id /\ k = stage
    OBVIOUS
<1>1. /\ gear \in DOMAIN Gears /\ stage \in DOMAIN Stages /\ iteration \in Nat
      /\ \A x \in DOMAIN outputs : HoldsFresh(x)
    BY DEF FreshInv, Inside
<1>2. Len(Stages) \in Nat /\ DOMAIN Stages = 1..Len(Stages)
    BY <1>1, GearTyped DEF Stages
<1>3. Stages' = Stages
    BY DEF Stages
<1>4. /\ DOMAIN outputs' = {id} \cup DOMAIN outputs /\ outputs'[id] = out
      /\ \A x \in DOMAIN outputs : x # id => outputs'[x] = outputs[x]
    BY DEF StageEnds, Put
<1>5. \/ at' = "stage" /\ stage' = stage + 1 /\ stage < Len(Stages)
      \/ at' = "iterated" /\ stage' = stage /\ stage = Len(Stages)
    BY <1>1, <1>2 DEF StageEnds
<1>6. stage' \in DOMAIN Stages'
    BY <1>1, <1>2, <1>3, <1>5
<1>7. \A s \in DOMAIN Stages : Ended(s)' <=> (Ended(s) \/ s = stage)
    BY <1>1, <1>2, <1>5 DEF Ended
<1>8. ASSUME NEW x \in DOMAIN outputs'
      PROVE  HoldsFresh(x)'
    <2>1. CASE x = id
        <3>1. CASE out.content \in {Empty, Denied}
            BY <1>4, <2>1, <3>1 DEF HoldsFresh, Empty, Denied
        <3>2. CASE out.content = Made
            <4>1. k \in DOMAIN Stages' /\ Ended(k)' /\ Stages'[k].id = x
                BY <1>1, <1>3, <1>7, <2>1 DEF Stage
            <4>2. outputs'[x].content = <<iteration', k>>
                BY <1>4, <2>1, <3>2 DEF Made
            <4> QED BY <4>1, <4>2 DEF HoldsFresh
        <3> QED BY <3>1, <3>2
    <2>2. CASE x # id
        <3>1. x \in DOMAIN outputs /\ outputs'[x] = outputs[x] /\ HoldsFresh(x)
            BY <1>1, <1>4, <2>2
        <3>2. CASE outputs[x].content \in {Empty, Denied}
            BY <3>1, <3>2 DEF HoldsFresh, Empty, Denied
        <3>3. CASE outputs[x].content \notin {Empty, Denied}
            <4>1. PICK s \in DOMAIN Stages :
                    /\ Stages[s].id = x
                    /\ outputs[x].content = <<IF Ended(s) THEN iteration ELSE iteration - 1, s>>
                BY <3>1, <3>3 DEF HoldsFresh
            <4>2. Ended(s)' <=> Ended(s)
                BY <1>7, <2>2, <4>1 DEF Stage
            <4> QED BY <1>3, <3>1, <4>1, <4>2 DEF HoldsFresh
        <3> QED BY <3>2, <3>3
    <2> QED BY <2>1, <2>2
<1> QED BY <1>1, <1>3, <1>5, <1>6, <1>8 DEF FreshInv

\* A gear begins without outputs.
LEMMA RunFresh == \A g \in DOMAIN Gears : Run(g) => FreshInv'
<1> SUFFICES ASSUME NEW g \in DOMAIN Gears, Run(g), Inside' PROVE FreshInv'
    BY DEF FreshInv
<1>1. gear' = g /\ stage' = 1 /\ outputs' = <<>> /\ at' = "stage" /\ iteration' = 1
    BY DEF Run, Inside
<1>2. 1 \in DOMAIN Stages'
    BY <1>1, GearTyped DEF Stages
<1> QED BY <1>1, <1>2 DEF FreshInv

\* What follows the last stage: the outputs become those of the iteration before.
LEMMA EndIterationFresh == FreshInv /\ EndIteration => FreshInv'
<1> SUFFICES ASSUME FreshInv, EndIteration, Inside' PROVE FreshInv'
    BY DEF FreshInv
<1>1. /\ at = "iterated" /\ UNCHANGED <<gear, outputs>>
      /\ at' = "stage" /\ stage' = 1 /\ iteration' = iteration + 1
    BY DEF EndIteration, Complete, Again, Inside
<1>2. /\ gear \in DOMAIN Gears /\ iteration \in Nat
      /\ \A x \in DOMAIN outputs : HoldsFresh(x)
    BY <1>1 DEF FreshInv, Inside
<1>3. Stages' = Stages /\ DOMAIN Stages = 1..Len(Stages) /\ Len(Stages) \in Nat /\ Stages # <<>>
    BY <1>1, <1>2, GearTyped DEF Stages
<1>4. 1 \in DOMAIN Stages
    <2>1. Len(Stages) # 0
        BY <1>2, <1>3, GearTyped DEF Stages
    <2> QED BY <1>3, <2>1
<1>5. ASSUME NEW x \in DOMAIN outputs'
      PROVE  HoldsFresh(x)'
    <2>1. x \in DOMAIN outputs /\ outputs'[x] = outputs[x] /\ HoldsFresh(x)
        BY <1>1, <1>2
    <2>2. CASE outputs[x].content \in {Empty, Denied}
        BY <2>1, <2>2 DEF HoldsFresh, Empty, Denied
    <2>3. CASE outputs[x].content \notin {Empty, Denied}
        <3>1. PICK s \in DOMAIN Stages :
                Stages[s].id = x /\ outputs[x].content = <<iteration, s>>
            BY <1>1, <2>1, <2>3 DEF HoldsFresh, Ended
        <3>2. ~Ended(s)' /\ iteration' - 1 = iteration
            BY <1>1, <1>2, <1>3 DEF Ended
        <3> QED BY <1>3, <2>1, <3>1, <3>2 DEF HoldsFresh
    <2> QED BY <2>2, <2>3
<1> QED BY <1>1, <1>2, <1>3, <1>4, <1>5 DEF FreshInv

\* The other steps of a gear leave the outputs alone.
LEMMA ExecutorFresh == FreshInv /\ ExecutorStep => FreshInv'
<1> SUFFICES ASSUME FreshInv, ExecutorStep PROVE FreshInv'
    OBVIOUS
<1>1. ASSUME at \in {"stage", "gate"}, at' \in {"gate", "exec"},
             UNCHANGED <<gear, stage, iteration, outputs>>
      PROVE  FreshInv'
    BY <1>1 DEF FreshInv, Inside, HoldsFresh, Ended, Stages, Empty, Denied
<1>2. CASE RunModel \/ RunCondition \/ RunShell
    <2>1. PICK out : StageEnds(out) /\ out.content \in {Made, Empty, Denied}
        BY <1>2 DEF RunModel, RunCondition, RunShell
    <2>2. at \in {"stage", "gate", "exec"} /\ UNCHANGED <<gear, iteration>>
        BY <1>2 DEF RunModel, RunCondition, RunShell
    <2> QED BY <2>1, <2>2, StageEndsFresh
<1>3. CASE RunProcess
    <2>1. /\ at = "stage" /\ at' \in {"gate", "exec"}
          /\ UNCHANGED <<gear, stage, iteration, outputs>>
        BY <1>3 DEF RunProcess
    <2> QED BY <1>1, <2>1
<1>4. CASE AskGate
    <2>1. /\ at = "gate" /\ UNCHANGED <<gear, iteration>>
          /\ \/ at' = "exec" /\ UNCHANGED <<stage, outputs>>
             \/ StageEnds([content |-> Denied, failed |-> TRUE])
        BY <1>4 DEF AskGate
    <2>2. CASE at' = "exec" /\ UNCHANGED <<stage, outputs>>
        BY <1>1, <2>1, <2>2
    <2>3. CASE StageEnds([content |-> Denied, failed |-> TRUE])
        BY <2>1, <2>3, StageEndsFresh
    <2> QED BY <2>1, <2>2, <2>3
<1>5. CASE EndIteration
    BY <1>5, EndIterationFresh
<1> QED BY <1>2, <1>3, <1>4, <1>5 DEF ExecutorStep

\* Nothing else touches the outputs of a gear that runs.
LEMMA FreshStep == FreshInv /\ [Next]_vars => FreshInv'
<1> SUFFICES ASSUME FreshInv, [Next]_vars PROVE FreshInv'
    OBVIOUS
<1>1. ASSUME ~Inside'
      PROVE  FreshInv'
    BY <1>1 DEF FreshInv
<1>2. CASE UNCHANGED vars \/ Encoder \/ Death
    <2>1. UNCHANGED <<at, gear, stage, iteration, outputs>>
        BY <1>2 DEF vars, Encoder, Death, executorVars, runVars
    <2> QED BY <2>1 DEF FreshInv, Inside, HoldsFresh, Ended, Stages, Empty, Denied
<1>3. CASE Start \/ Write \/ AnswerGear
    <2>1. ~Inside'
        BY <1>3 DEF Start, Write, AnswerGear, Inside
    <2> QED BY <1>1, <2>1
<1>4. CASE Read \/ EncoderGone \/ NotRunning
    <2>1. PICK embed : Encoded(embed)
        BY <1>4 DEF Read, EncoderGone, NotRunning
    <2>2. at' \in {"write", "idle"} \/ \E g \in DOMAIN Gears : Run(g)
        BY <2>1 DEF Encoded, Reply, bestGear
    <2>3. CASE at' \in {"write", "idle"}
        BY <1>1, <2>3 DEF Inside
    <2>4. CASE \E g \in DOMAIN Gears : Run(g)
        BY <2>4, RunFresh
    <2> QED BY <2>2, <2>3, <2>4
<1>5. CASE Request
    <2>1. at' \in {"write", "idle"} \/ \E g \in DOMAIN Gears : Run(g)
        BY <1>5 DEF Request, Reply, findGear
    <2>2. CASE at' \in {"write", "idle"}
        BY <1>1, <2>2 DEF Inside
    <2>3. CASE \E g \in DOMAIN Gears : Run(g)
        BY <2>3, RunFresh
    <2> QED BY <2>1, <2>2, <2>3
<1>6. CASE ExecutorStep
    BY <1>6, ExecutorFresh
<1> QED BY <1>2, <1>3, <1>4, <1>5, <1>6 DEF Next, Daemon

\* What a prompt takes from a stage before it is of this iteration, from a later
\* one of the iteration before, for any gears, also with stages that share an id.
THEOREM PromptsAreFresh == Spec => []PromptsFresh
<1>1. Init => FreshInv
    BY DEF Init, FreshInv, Inside
<1>2. FreshInv => PromptsFresh
    <2> SUFFICES ASSUME FreshInv, at = "stage",
                        NEW t \in Range(fillTemplate(Stage.prompt)) \cap ((0..iteration) \X (1..Len(Stages)))
                 PROVE  t[1] = IF t[2] < stage THEN iteration ELSE iteration - 1
        BY DEF PromptsFresh
    <2>1. PICK w \in DOMAIN Stage.prompt : t = fillTemplate(Stage.prompt)[w]
        BY DEF Range, fillTemplate
    <2> DEFINE id == Stage.prompt[w]
    <2>2. id \in DOMAIN outputs /\ t = outputs[id].content
        <3>1. t # <<id>>
            OBVIOUS
        <3> QED BY <2>1, <3>1 DEF fillTemplate
    <2>3. t # Empty /\ t # Denied
        <3>1. PICK i \in 0..iteration, s \in 1..Len(Stages) : t = <<i, s>>
            OBVIOUS
        <3>2. <<i, s>> # <<>> /\ <<i, s>> # <<"denied by gate">>
            OBVIOUS
        <3> QED BY <3>1, <3>2 DEF Empty, Denied
    <2>4. PICK s \in DOMAIN Stages : t = <<IF Ended(s) THEN iteration ELSE iteration - 1, s>>
        BY <2>2, <2>3 DEF FreshInv, Inside, HoldsFresh
    <2> QED BY <2>4 DEF Ended
<1> QED BY <1>1, <1>2, FreshStep, PTL DEF Spec

-----------------------------------------------------------------------------
(* Hooks and result                                                        *)

StageHooks == [hook : {"on_gear_stage_complete"}, stage : STRING, failed : BOOLEAN]

\* Where a gear that runs is.
PlaceInv ==
    /\ gear \in DOMAIN Gears /\ stage \in DOMAIN Stages
    /\ iteration \in 1..Gears[gear].max_iterations
    /\ at = "iterated" => stage = Len(Stages)
    /\ at \in {"gate", "exec"} => Stage.kind # "condition"

\* The hooks so far: every stage of the iterations before, and those ended.
ToldInv ==
    /\ fired \in Seq(StageHooks)
    /\ Len(fired) = (iteration - 1) * Len(Stages) + (IF at = "iterated" THEN stage ELSE stage - 1)
    /\ \A i \in 1..iteration : \A k \in DOMAIN Stages :
          (i < iteration \/ Ended(k)) => Event(i, k).stage = Stages[k].id

\* What the last stage left is what the hook said of it.
OutcomeInv ==
    at = "iterated" =>
        /\ outputs[Stages[Len(Stages)].id].failed = Event(iteration, Len(Stages)).failed
        /\ outputs[Stages[Len(Stages)].id].failed
           \/ outputs[Stages[Len(Stages)].id].content
                 = IF Stages[Len(Stages)].kind = "condition" THEN Empty ELSE <<iteration, Len(Stages)>>

\* The iterations up to n in which the last stage succeeded, and the result then.
Good(n) == {i \in 1..n : ~Event(i, Len(Stages)).failed}
ResultOf(n) ==
    IF Good(n) = {} \/ Stages[Len(Stages)].kind = "condition" THEN last = Empty
    ELSE \E m \in Good(n) : (\A j \in Good(n) : j <= m) /\ last = <<m, Len(Stages)>>

AccountInv ==
    /\ Inside => PlaceInv /\ ToldInv /\ OutcomeInv /\ ResultOf(iteration - 1)
    /\ HooksTellRun
    /\ ResultIsLastSuccess

\* Positions of events: an iteration takes the places after those before it.
LEMMA Positions ==
    ASSUME NEW L \in Nat, NEW n \in Nat \ {0}
    PROVE  /\ (n - 1) * L \in Nat /\ n * L = (n - 1) * L + L
           /\ \A i \in 1..(n - 1) : \A k \in 1..L : (i - 1) * L + k \in 1..((n - 1) * L)
<1>1. (n - 1) * L \in Nat /\ n * L = (n - 1) * L + L
    BY SMT
<1>2. ASSUME NEW i \in 1..(n - 1), NEW k \in 1..L
      PROVE  (i - 1) * L + k \in 1..((n - 1) * L)
    <2> DEFINE d == n - 1 - i
    <2>1. d \in Nat /\ n - 1 = i + d
        OBVIOUS
    <2>2. (i - 1) * L \in Nat /\ d * L \in Nat
        BY <2>1, SMT
    <2>3. (i + d) * L = (i - 1) * L + L + d * L
        BY <2>1, SMT
    <2> HIDE DEF d
    <2>4. (n - 1) * L = (i - 1) * L + L + d * L
        BY <2>1, <2>3
    <2> QED BY <1>1, <2>2, <2>4
<1> QED BY <1>1, <1>2

\* The stages of a gear, and where its events are.
LEMMA GearStages ==
    ASSUME PlaceInv
    PROVE  /\ Len(Stages) \in Nat \ {0} /\ DOMAIN Stages = 1..Len(Stages)
           /\ Last(Stages) = Stages[Len(Stages)] /\ iteration \in Nat \ {0} /\ stage \in Nat
           /\ \A k \in DOMAIN Stages : Stages[k] \in StageTypes
<1>1. Stages \in Seq(StageTypes) /\ Stages # <<>> /\ Gears[gear].max_iterations \in Nat
    BY GearTyped DEF PlaceInv, Stages
<1>2. Len(Stages) \in Nat \ {0} /\ DOMAIN Stages = 1..Len(Stages)
    BY <1>1
<1> QED BY <1>1, <1>2 DEF PlaceInv, Last

\* A further hook leaves the events that were told where they are.
LEMMA EventsStay ==
    ASSUME PlaceInv, ToldInv, NEW hook, fired' = Append(fired, hook), UNCHANGED gear,
           NEW i \in 1..iteration, NEW k \in DOMAIN Stages, i < iteration \/ Ended(k)
    PROVE  Event(i, k)' = Event(i, k)
<1> DEFINE L == Len(Stages)
<1>1. /\ L \in Nat \ {0} /\ DOMAIN Stages = 1..L /\ stage \in 1..L
      /\ iteration \in Nat \ {0} /\ (iteration - 1) * L \in Nat
    BY GearStages, Positions DEF PlaceInv
<1>2. Len(fired) = (iteration - 1) * L + (IF at = "iterated" THEN stage ELSE stage - 1)
    BY DEF ToldInv
<1>3. (i - 1) * L + k \in 1..Len(fired)
    <2>1. CASE i < iteration
        <3>1. (i - 1) * L + k \in 1..((iteration - 1) * L)
            BY <1>1, <2>1, Positions, SMTT(20)
        <3>2. (iteration - 1) * L <= Len(fired)
            BY <1>1, <1>2
        <3> QED BY <1>1, <3>1, <3>2
    <2>2. CASE i = iteration /\ Ended(k)
        <3>1. k <= (IF at = "iterated" THEN stage ELSE stage - 1)
            BY <1>1, <2>2 DEF Ended, PlaceInv
        <3>2. (i - 1) * L = (iteration - 1) * L
            BY <2>2
        <3> QED BY <1>1, <1>2, <3>1, <3>2
    <2> QED BY <1>1, <2>1, <2>2
<1>4. fired'[(i - 1) * L + k] = fired[(i - 1) * L + k]
    <2>1. fired \in Seq(StageHooks)
        BY DEF ToldInv
    <2> HIDE DEF L
    <2> DEFINE p == (i - 1) * L + k
    <2>2. p \in 1..Len(fired)
        BY <1>3
    <2> HIDE DEF p
    <2>3. fired'[p] = fired[p]
        BY <2>1, <2>2
    <2> QED BY <2>3 DEF p
<1> QED BY <1>4 DEF Event, Stages

\* While a gear runs, ResultOf looks only at iterations that are over.
LEMMA ResultStays ==
    ASSUME UNCHANGED <<gear, last>>, NEW n \in Nat, ResultOf(n),
           \A i \in 1..n : \A k \in {Len(Stages)} : Event(i, k)' = Event(i, k)
    PROVE  ResultOf(n)'
<1>1. Stages' = Stages
    BY DEF Stages
<1>2. Good(n)' = Good(n)
    BY <1>1 DEF Good
<1> QED BY <1>1, <1>2 DEF ResultOf, Empty

\* A stage ends: its hook tells of it, at the next place.
LEMMA StageEndsTold ==
    ASSUME AccountInv, at \in {"stage", "gate", "exec"}, NEW out, StageEnds(out),
           out.failed \in BOOLEAN,
           out.failed \/ out.content = IF Stage.kind = "condition" THEN Empty ELSE Made,
           UNCHANGED <<gear, iteration, last>>
    PROVE  AccountInv'
<1> DEFINE L == Len(Stages)
           hook == [hook |-> "on_gear_stage_complete", stage |-> Stage.id, failed |-> out.failed]
<1>1. PlaceInv /\ ToldInv /\ ResultOf(iteration - 1)
    BY DEF AccountInv, Inside
<1>2. L \in Nat \ {0} /\ DOMAIN Stages = 1..L /\ stage \in 1..L /\ iteration \in Nat \ {0}
    BY <1>1, GearStages DEF PlaceInv
<1>a. L \in Nat /\ stage \in Nat /\ 1 <= stage /\ stage <= L
    BY <1>2
<1>b. (iteration - 1) * L \in Nat
    BY <1>2, Positions
<1>3. Stages' = Stages
    BY DEF Stages
<1>4. \/ at' = "stage" /\ stage' = stage + 1 /\ stage < L
      \/ at' = "iterated" /\ stage' = stage /\ stage = L
    BY <1>a DEF StageEnds
<1>5. PlaceInv'
    BY <1>1, <1>2, <1>3, <1>4 DEF PlaceInv
<1>6. fired' = Append(fired, hook) /\ hook \in StageHooks
    BY <1>1, GearStages DEF StageEnds, StageHooks, StageTypes, Stage, PlaceInv
<1>7. fired \in Seq(StageHooks) /\ Len(fired) = (iteration - 1) * L + (stage - 1)
    BY <1>1 DEF ToldInv
<1>8. /\ fired' \in Seq(StageHooks) /\ Len(fired') = (iteration - 1) * L + stage
      /\ fired'[(iteration - 1) * L + stage] = hook
    <2>1. fired' \in Seq(StageHooks) /\ Len(fired') = Len(fired) + 1 /\ fired'[Len(fired) + 1] = hook
        BY <1>6, <1>7
    <2>2. Len(fired) + 1 = (iteration - 1) * L + stage
        BY <1>2, <1>b, <1>7
    <2> QED BY <2>1, <2>2
<1>9. \A k \in DOMAIN Stages : Ended(k)' <=> (Ended(k) \/ k = stage)
    <2> SUFFICES ASSUME NEW k \in 1..L PROVE Ended(k)' <=> (Ended(k) \/ k = stage)
        BY <1>2
    <2>1. k \in Nat /\ k <= L /\ (Ended(k) <=> k < stage)
        BY <1>a DEF Ended
    <2>2. CASE at' = "stage" /\ stage' = stage + 1
        BY <1>a, <2>1, <2>2 DEF Ended
    <2>3. CASE at' = "iterated" /\ stage = L
        BY <1>a, <2>1, <2>3 DEF Ended
    <2> QED BY <1>4, <2>2, <2>3
<1>10. \A i \in 1..iteration : \A k \in DOMAIN Stages :
          (i < iteration \/ Ended(k)) => Event(i, k)' = Event(i, k)
    BY <1>1, <1>6, EventsStay
<1>11. ASSUME NEW i, NEW k, i = iteration, k = stage
       PROVE  Event(i, k)' = hook
    <2>1. (i - 1) * Len(Stages') + k = (iteration - 1) * L + stage
        BY <1>3, <1>11
    <2> QED BY <1>8, <2>1 DEF Event
<1>12. ToldInv'
    <2>1. Len(fired') = (iteration' - 1) * Len(Stages')
                            + (IF at' = "iterated" THEN stage' ELSE stage' - 1)
        BY <1>a, <1>b, <1>3, <1>4, <1>8
    <2>2. ASSUME NEW i \in 1..iteration, NEW k \in DOMAIN Stages, i < iteration \/ Ended(k)'
          PROVE  Event(i, k)'.stage = Stages[k].id
        <3>1. CASE i < iteration \/ Ended(k)
            BY <1>1, <1>10, <3>1 DEF ToldInv
        <3>2. CASE i = iteration /\ k = stage
            BY <1>11, <3>2 DEF Stage
        <3> QED BY <1>2, <1>9, <2>2, <3>1, <3>2
    <2> QED BY <1>3, <1>8, <2>1, <2>2 DEF ToldInv
<1>13. OutcomeInv'
    <2> SUFFICES ASSUME at' = "iterated" PROVE OutcomeInv'
        BY DEF OutcomeInv
    <2>1. stage = L /\ Stage = Stages[L] /\ Made = <<iteration, L>>
        BY <1>4 DEF Stage, Made
    <2>2. outputs'[Stages[L].id] = out
        BY <2>1 DEF StageEnds, Put
    <2>3. \A i, k : i = iteration /\ k = stage => Event(i, k)'.failed = out.failed
        BY <1>11
    <2>5. Event(iteration, Len(Stages))'.failed = out.failed
        BY <1>3, <2>1, <2>3
    <2>4. out.failed \/ out.content = IF Stages[L].kind = "condition" THEN Empty ELSE <<iteration, L>>
        BY <2>1
    <2>6. iteration' = iteration /\ Stages' = Stages /\ Len(Stages') = L
        BY <1>3
    <2>7. outputs'[Stages'[Len(Stages')].id] = out
        BY <2>2, <2>6
    <2>8. out.failed \/ out.content = IF Stages'[Len(Stages')].kind = "condition" THEN Empty
                                     ELSE <<iteration', Len(Stages')>>
        BY <2>4, <2>6
    <2> QED BY <2>5, <2>7, <2>8 DEF OutcomeInv, Empty
<1>14. ResultOf(iteration - 1)'
    <2>1. \A i \in 1..(iteration - 1) : \A k \in DOMAIN Stages : Event(i, k)' = Event(i, k)
        BY <1>2, <1>10
    <2>2. L \in DOMAIN Stages
        BY <1>2
    <2>3. \A n : n = iteration - 1 => ResultOf(n)'
        BY <1>1, <1>2, <2>1, <2>2, ResultStays
    <2> QED BY <2>3
<1> QED BY <1>4, <1>5, <1>12, <1>13, <1>14 DEF AccountInv, HooksTellRun, ResultIsLastSuccess

\* A gear begins, or is over at once when it may not iterate.
LEMMA RunTold == \A g \in DOMAIN Gears : Run(g) => AccountInv'
<1> SUFFICES ASSUME NEW g \in DOMAIN Gears, Run(g) PROVE AccountInv'
    OBVIOUS
<1>1. /\ Gears[g].stages \in Seq(StageTypes) /\ Gears[g].stages # <<>>
      /\ Gears[g].max_iterations \in Nat /\ gear' = g /\ last' = Empty /\ stage' = 1
    BY GearTyped DEF Run
<1>2. /\ Stages' = Gears[g].stages /\ Len(Stages') \in Nat \ {0}
      /\ DOMAIN Stages' = 1..Len(Stages') /\ Last(Stages') = Stages'[Len(Stages')]
    BY <1>1 DEF Stages, Last
<1>3. CASE Gears[g].max_iterations > 0
    <2>1. at' = "stage" /\ iteration' = 1 /\ fired' = <<>>
        BY <1>3 DEF Run
    <2>2. PlaceInv'
        BY <1>1, <1>2, <1>3, <2>1 DEF PlaceInv
    <2>3. ToldInv'
        <3>1. fired' \in Seq(StageHooks) /\ Len(fired') = 0
            BY <2>1
        <3>2. (iteration' - 1) * Len(Stages') + (IF at' = "iterated" THEN stage' ELSE stage' - 1) = 0
            BY <1>1, <1>2, <2>1
        <3>3. \A i \in 1..iteration' : \A k \in DOMAIN Stages' : ~(i < iteration' \/ Ended(k)')
            BY <1>1, <1>2, <2>1 DEF Ended
        <3> QED BY <3>1, <3>2, <3>3 DEF ToldInv
    <2>4. Good(0)' = {}
        BY DEF Good
    <2>5. ResultOf(iteration - 1)'
        BY <1>1, <2>1, <2>4 DEF ResultOf
    <2> QED BY <2>1, <2>2, <2>3, <2>5 DEF AccountInv, OutcomeInv, HooksTellRun, ResultIsLastSuccess
<1>4. CASE Gears[g].max_iterations = 0
    <2> DEFINE done == [hook |-> "on_gear_complete", iterations |-> 0, reason |-> "max_iterations"]
    <2>1. at' = "finished" /\ iteration' = 0 /\ fired' = <<done>>
        BY <1>4 DEF Run
    <2>2. Last(fired') = done /\ Len(fired') = 0 * Len(Stages') + 1
        BY <1>2, <2>1 DEF Last
    <2>3. HooksTellRun'
        BY <1>1, <1>2, <1>4, <2>1, <2>2 DEF HooksTellRun
    <2>4. ResultIsLastSuccess'
        BY <1>1, <2>1 DEF ResultIsLastSuccess
    <2> QED BY <2>1, <2>3, <2>4 DEF AccountInv, Inside
<1> QED BY <1>1, <1>3, <1>4

\* After an iteration the result is that of the latest success, its own included.
LEMMA ResultGrows ==
    ASSUME PlaceInv, OutcomeInv, ResultOf(iteration - 1), EndIteration, NEW n, n = iteration,
           \A i \in 1..n : \A k \in {Len(Stages)} : Event(i, k)' = Event(i, k)
    PROVE  ResultOf(n)'
<1> DEFINE L == Len(Stages)
           out == outputs[Stages[L].id]
           failed == Event(n, L).failed
<1>1. /\ at = "iterated" /\ Stages' = Stages /\ n \in Nat /\ 1 <= n
      /\ last' = IF out.failed THEN last ELSE out.content
    BY GearStages DEF EndIteration, Stages
<1>2. /\ out.failed = failed
      /\ out.failed \/ out.content = IF Stages[L].kind = "condition" THEN Empty ELSE <<n, L>>
    BY <1>1 DEF OutcomeInv
<1>3. Good(n)' = Good(n)
    BY <1>1 DEF Good
<1>4. CASE out.failed
    <2>1. Event(n, L).failed
        BY <1>2, <1>4
    <2>2. \A i \in 1..n : i \in 1..(n - 1) \/ i = n
        BY <1>1
    <2>3. \A i \in 1..(n - 1) : i \in 1..n
        BY <1>1
    <2>4. Good(n) = Good(n - 1)
        BY <2>1, <2>2, <2>3 DEF Good
    <2>5. last' = last /\ ResultOf(n - 1)
        BY <1>1, <1>4
    <2> QED BY <1>1, <1>3, <2>4, <2>5 DEF ResultOf, Empty
<1>5. CASE ~out.failed
    <2>1. n \in Good(n) /\ \A j \in Good(n) : j <= n
        BY <1>1, <1>2, <1>5 DEF Good
    <2>2. last' = IF Stages[L].kind = "condition" THEN Empty ELSE <<n, L>>
        BY <1>1, <1>2, <1>5
    <2> QED BY <1>1, <1>3, <2>1, <2>2 DEF ResultOf, Empty
<1> QED BY <1>4, <1>5

\* The gear is over: its hook closes the account.
LEMMA CompleteTold ==
    ASSUME AccountInv, EndIteration, NEW reason, Complete(reason),
           reason = "done" => ~outputs[Last(Stages).id].failed,
           reason # "done" => iteration = Gears[gear].max_iterations
    PROVE  AccountInv'
<1> DEFINE L == Len(Stages)
           done == [hook |-> "on_gear_complete", iterations |-> iteration, reason |-> reason]
<1>1. /\ at = "iterated" /\ at' = "finished" /\ fired' = Append(fired, done)
      /\ UNCHANGED <<gear, iteration, stage>> /\ Stages' = Stages
    BY DEF EndIteration, Complete, Stages
<1>2. PlaceInv /\ ToldInv /\ OutcomeInv /\ ResultOf(iteration - 1)
    BY <1>1 DEF AccountInv, Inside
<1>3. /\ L \in Nat /\ 1 <= L /\ DOMAIN Stages = 1..L /\ Last(Stages) = Stages[L]
      /\ iteration \in Nat /\ 1 <= iteration /\ stage = L
    BY <1>1, <1>2, GearStages DEF PlaceInv
<1>4. (iteration - 1) * L \in Nat /\ iteration * L = (iteration - 1) * L + L
    BY <1>3, Positions
<1>5. /\ fired \in Seq(StageHooks) /\ Len(fired) = iteration * L
    BY <1>1, <1>2, <1>3, <1>4 DEF ToldInv
<1>6. Len(fired') = iteration * L + 1 /\ Last(fired') = done
    BY <1>1, <1>5 DEF Last
<1>7. \A i \in 1..iteration : \A k \in DOMAIN Stages :
          Event(i, k)' = Event(i, k) /\ Event(i, k).stage = Stages[k].id
    <2> SUFFICES ASSUME NEW i \in 1..iteration, NEW k \in DOMAIN Stages
                 PROVE  Event(i, k)' = Event(i, k) /\ Event(i, k).stage = Stages[k].id
        OBVIOUS
    <2>1. i < iteration \/ Ended(k)
        BY <1>1 DEF Ended
    <2> QED BY <1>1, <1>2, <2>1, EventsStay DEF ToldInv
<1>8. HooksTellRun'
    <2>1. reason = "done" => ~Event(iteration, L)'.failed
        <3>1. ~outputs[Stages[L].id].failed => ~Event(iteration, L).failed
            BY <1>1, <1>2 DEF OutcomeInv
        <3>2. \A i, k : i = iteration /\ k = L => Event(i, k)' = Event(i, k)
            BY <1>3, <1>7
        <3>3. Event(iteration, L)' = Event(iteration, L)
            BY <1>1, <3>2
        <3> QED BY <1>3, <3>1, <3>3
    <2>2. \A i \in 1..iteration' : \A k \in DOMAIN Stages' : Event(i, k)'.stage = Stages'[k].id
        BY <1>1, <1>7
    <2>3. /\ Last(fired').iterations = iteration' /\ Last(fired').reason = reason
          /\ Len(fired') = Last(fired').iterations * Len(Stages') + 1
        BY <1>1, <1>6
    <2>4. reason # "done" => iteration' = Gears[gear'].max_iterations
        BY <1>1
    <2> QED BY <2>1, <2>2, <2>3, <2>4, <1>1 DEF HooksTellRun
<1>9. \A n : n = iteration => ResultOf(n)'
    <2>1. L \in DOMAIN Stages
        BY <1>3
    <2> QED BY <1>2, <1>7, <2>1, ResultGrows
<1>10. ResultIsLastSuccess'
    <2>1. ResultOf(iteration)'
        BY <1>1, <1>9
    <2>2. Last(Stages') = Stages'[Len(Stages')]
        BY <1>1, <1>3
    <2>3. Good(iteration)' \subseteq Int
        BY <1>1, <1>3 DEF Good
    <2>4. \A m, j \in Good(iteration)' :
              (\A x \in Good(iteration)' : x <= m) /\ (\A x \in Good(iteration)' : x <= j) => m = j
        BY <2>3
    <2> QED BY <2>1, <2>2, <2>4 DEF ResultIsLastSuccess, ResultOf, Good
<1> QED BY <1>1, <1>8, <1>10 DEF AccountInv, Inside

\* The next iteration begins where the hooks of this one end.
LEMMA AgainTold ==
    ASSUME AccountInv, EndIteration, at' = "stage", stage' = 1, iteration' = iteration + 1,
           iteration < Gears[gear].max_iterations, UNCHANGED fired
    PROVE  AccountInv'
<1> DEFINE L == Len(Stages)
<1>1. at = "iterated" /\ UNCHANGED <<gear, fired>> /\ Stages' = Stages
    BY DEF EndIteration, Stages
<1>2. PlaceInv /\ ToldInv /\ OutcomeInv /\ ResultOf(iteration - 1)
    BY <1>1 DEF AccountInv, Inside
<1>3. /\ L \in Nat /\ 1 <= L /\ DOMAIN Stages = 1..L
      /\ iteration \in Nat /\ 1 <= iteration /\ stage = L
    BY <1>1, <1>2, GearStages DEF PlaceInv
<1>4. (iteration - 1) * L \in Nat /\ iteration * L = (iteration - 1) * L + L
    BY <1>3, Positions
<1>5. PlaceInv'
    <2>1. Gears[gear].max_iterations \in Nat
        BY <1>2, GearTyped DEF PlaceInv
    <2> QED BY <1>1, <1>2, <1>3, <2>1 DEF PlaceInv
<1>6. \A i, k : Event(i, k)' = Event(i, k)
    BY <1>1 DEF Event
<1>7. ToldInv'
    <2>1. fired' \in Seq(StageHooks) /\ Len(fired') = iteration * L
        BY <1>1, <1>2, <1>3, <1>4 DEF ToldInv
    <2>2. iteration * L = (iteration' - 1) * Len(Stages')
        BY <1>1, <1>3
    <2>3. \A i \in 1..iteration' : \A k \in DOMAIN Stages' :
              (i < iteration' \/ Ended(k)') => Event(i, k)'.stage = Stages'[k].id
        <3> SUFFICES ASSUME NEW i \in 1..iteration', NEW k \in DOMAIN Stages', i < iteration' \/ Ended(k)'
                     PROVE  Event(i, k)'.stage = Stages'[k].id
            OBVIOUS
        <3>1. i < iteration'
            BY <1>1, <1>3 DEF Ended
        <3>2. i \in 1..iteration /\ k \in DOMAIN Stages /\ Ended(k)
            BY <1>1, <1>3, <3>1 DEF Ended
        <3> QED BY <1>1, <1>2, <1>6, <3>2 DEF ToldInv
    <2>4. iteration * L + 0 = iteration * L
        BY <1>3, <1>4
    <2> QED BY <2>1, <2>2, <2>3, <2>4 DEF ToldInv
<1>8. ResultOf(iteration - 1)'
    <2>1. \A n : n = iteration => ResultOf(n)'
        BY <1>2, <1>6, ResultGrows
    <2>2. iteration' - 1 = iteration
        BY <1>3
    <2> QED BY <2>1, <2>2
<1> QED BY <1>5, <1>7, <1>8 DEF AccountInv, OutcomeInv, HooksTellRun, ResultIsLastSuccess

\* The way to a command changes nothing of the account.
LEMMA ApproachTold ==
    ASSUME AccountInv, at \in {"stage", "gate"}, at' \in {"gate", "exec"}, Stage.kind # "condition",
           UNCHANGED <<gear, stage, iteration, outputs, last, fired>>
    PROVE  AccountInv'
<1>1. PlaceInv /\ ToldInv /\ ResultOf(iteration - 1)
    BY DEF AccountInv, Inside
<1>2. PlaceInv'
    BY <1>1 DEF PlaceInv, Stages, Stage
<1>3. ToldInv'
    BY <1>1 DEF ToldInv, Stages, Ended, Event
<1>4. ResultOf(iteration - 1)'
    BY <1>1 DEF ResultOf, Good, Stages, Event, Empty
<1> QED BY <1>2, <1>3, <1>4 DEF AccountInv, OutcomeInv, HooksTellRun, ResultIsLastSuccess

\* Every step of a gear keeps the account.
LEMMA ExecutorTold == AccountInv /\ ExecutorStep => AccountInv'
<1> SUFFICES ASSUME AccountInv, ExecutorStep PROVE AccountInv'
    OBVIOUS
<1>1. at \in {"gate", "exec"} => Stage.kind # "condition"
    BY DEF AccountInv, Inside, PlaceInv
<1>2. CASE RunModel \/ RunShell
    <2>1. PICK out : /\ StageEnds(out) /\ out.failed \in BOOLEAN
                     /\ out.failed \/ out.content = Made
        <3> DEFINE Outcomes == [content : {Made}, failed : BOOLEAN]
                               \cup {[content |-> Empty, failed |-> TRUE]}
        <3>1. \A out \in [content : {Made}, failed : BOOLEAN] :
                  out.failed \in BOOLEAN /\ out.content = Made
            OBVIOUS
        <3>2. \A out : out = [content |-> Empty, failed |-> TRUE] => out.failed = TRUE
            OBVIOUS
        <3>a. \A out \in Outcomes : \/ out \in [content : {Made}, failed : BOOLEAN]
                                    \/ out = [content |-> Empty, failed |-> TRUE]
            OBVIOUS
        <3>3. [content |-> Made, failed |-> FALSE] \in Outcomes
            OBVIOUS
        <3>4. \E out \in Outcomes : StageEnds(out)
            <4>1. CASE RunModel
                <5>1. \E out \in {[content |-> Made, failed |-> FALSE], [content |-> Empty, failed |-> TRUE]} :
                          StageEnds(out)
                    BY <4>1 DEF RunModel
                <5> QED BY <3>3, <5>1
            <4>2. CASE RunShell
                BY <4>2 DEF RunShell
            <4> QED BY <1>2, <4>1, <4>2
        <3> HIDE DEF Outcomes
        <3>5. PICK out \in Outcomes : StageEnds(out)
            BY <3>4
        <3>6. out.failed \in BOOLEAN /\ (out.failed \/ out.content = Made)
            BY <3>1, <3>2, <3>a
        <3> QED BY <3>5, <3>6
    <2>2. at \in {"stage", "exec"} /\ Stage.kind # "condition" /\ UNCHANGED <<gear, iteration, last>>
        BY <1>1, <1>2 DEF RunModel, RunShell
    <2> QED BY <2>1, <2>2, StageEndsTold
<1>3. CASE RunCondition
    <2> DEFINE out == [content |-> Empty, failed |-> FALSE]
    <2>1. /\ at = "stage" /\ Stage.kind = "condition" /\ StageEnds(out)
          /\ UNCHANGED <<gear, iteration, last>>
        BY <1>3 DEF RunCondition
    <2>2. out.failed \in BOOLEAN /\ out.content = Empty
        OBVIOUS
    <2> HIDE DEF out
    <2> QED BY <2>1, <2>2, StageEndsTold
<1>4. CASE RunProcess
    <2>1. /\ at = "stage" /\ at' \in {"gate", "exec"} /\ Stage.kind # "condition"
          /\ UNCHANGED <<gear, stage, iteration, outputs, last, fired>>
        BY <1>4 DEF RunProcess
    <2> QED BY <2>1, ApproachTold
<1>5. CASE AskGate
    <2> DEFINE out == [content |-> Denied, failed |-> TRUE]
    <2>1. /\ at = "gate" /\ UNCHANGED <<gear, iteration, last>>
          /\ \/ at' = "exec" /\ UNCHANGED <<stage, outputs, fired>>
             \/ StageEnds(out)
        BY <1>5 DEF AskGate
    <2>2. out.failed = TRUE
        OBVIOUS
    <2> HIDE DEF out
    <2>3. CASE at' = "exec" /\ UNCHANGED <<stage, outputs, fired>>
        BY <1>1, <2>1, <2>3, ApproachTold
    <2>4. CASE StageEnds(out)
        BY <2>1, <2>2, <2>4, StageEndsTold
    <2> QED BY <2>1, <2>3, <2>4
<1>6. CASE EndIteration
    <2>1. PlaceInv
        BY <1>6 DEF EndIteration, AccountInv, Inside
    <2>2. iteration \in Nat /\ Gears[gear].max_iterations \in Nat /\ iteration <= Gears[gear].max_iterations
        BY <2>1, GearTyped DEF PlaceInv
    <2>3. \/ Complete("done") /\ ~outputs[Last(Stages).id].failed
          \/ Again
        BY <1>6 DEF EndIteration
    <2>4. CASE Complete("done") /\ ~outputs[Last(Stages).id].failed
        BY <1>6, <2>4, CompleteTold
    <2>5. CASE Again
        <3>1. \/ /\ iteration < Gears[gear].max_iterations /\ at' = "stage"
                 /\ iteration' = iteration + 1 /\ stage' = 1 /\ UNCHANGED fired
              \/ iteration = Gears[gear].max_iterations /\ Complete("max_iterations")
            BY <2>2, <2>5 DEF Again
        <3> QED BY <1>6, <3>1, AgainTold, CompleteTold
    <2> QED BY <2>3, <2>4, <2>5
<1> QED BY <1>2, <1>3, <1>4, <1>5, <1>6 DEF ExecutorStep

\* Nothing else touches the account of a gear that runs.
LEMMA AccountStep == AccountInv /\ [Next]_vars => AccountInv'
<1> SUFFICES ASSUME AccountInv, [Next]_vars PROVE AccountInv'
    OBVIOUS
<1>1. ASSUME at' \in {"start", "idle", "write", "read"}
      PROVE  AccountInv'
    BY <1>1 DEF AccountInv, Inside, HooksTellRun, ResultIsLastSuccess
<1>2. CASE UNCHANGED vars \/ Encoder \/ Death
    <2>1. UNCHANGED <<at, gear, stage, iteration, outputs, last, fired>>
        BY <1>2 DEF vars, Encoder, Death, executorVars, runVars
    <2>2. PlaceInv => PlaceInv'
        BY <2>1 DEF PlaceInv, Stages, Stage
    <2>3. ToldInv => ToldInv'
        BY <2>1 DEF ToldInv, Stages, Ended, Event
    <2>4. OutcomeInv => OutcomeInv'
        BY <2>1 DEF OutcomeInv, Stages, Event, Empty
    <2>5. ResultOf(iteration - 1) => ResultOf(iteration - 1)'
        BY <2>1 DEF ResultOf, Good, Stages, Event, Empty
    <2>6. HooksTellRun => HooksTellRun'
        BY <2>1 DEF HooksTellRun, Stages, Event, Last
    <2>7. ResultIsLastSuccess => ResultIsLastSuccess'
        BY <2>1 DEF ResultIsLastSuccess, Stages, Event, Last, Empty
    <2> QED BY <2>1, <2>2, <2>3, <2>4, <2>5, <2>6, <2>7 DEF AccountInv, Inside
<1>3. CASE Start \/ Write \/ AnswerGear
    <2>1. at' \in {"start", "idle", "write", "read"}
        BY <1>3 DEF Start, Write, AnswerGear
    <2> QED BY <1>1, <2>1
<1>4. CASE Read \/ EncoderGone \/ NotRunning
    <2>1. PICK embed : Encoded(embed)
        BY <1>4 DEF Read, EncoderGone, NotRunning
    <2>2. at' \in {"write", "idle"} \/ \E g \in DOMAIN Gears : Run(g)
        BY <2>1 DEF Encoded, Reply, bestGear
    <2> QED BY <1>1, <2>2, RunTold
<1>5. CASE Request
    <2>1. at' \in {"write", "idle"} \/ \E g \in DOMAIN Gears : Run(g)
        BY <1>5 DEF Request, Reply, findGear
    <2> QED BY <1>1, <2>1, RunTold
<1>6. CASE ExecutorStep
    BY <1>6, ExecutorTold
<1> QED BY <1>2, <1>3, <1>4, <1>5, <1>6 DEF Next, Daemon

\* No gear runs yet.
LEMMA AccountInit == Init => AccountInv
BY DEF Init, AccountInv, Inside, HooksTellRun, ResultIsLastSuccess

\* The hooks of a gear are one for every stage of every iteration, in order,
\* then one with the right count and reason, for any gears and any outcomes.
THEOREM HooksTell == Spec => []HooksTellRun
<1>1. AccountInv => HooksTellRun
    BY DEF AccountInv
<1> QED BY <1>1, AccountInit, AccountStep, PTL DEF Spec

\* The answer is what the last stage made when it last succeeded.
THEOREM ResultTold == Spec => []ResultIsLastSuccess
<1>1. AccountInv => ResultIsLastSuccess
    BY DEF AccountInv
<1> QED BY <1>1, AccountInit, AccountStep, PTL DEF Spec

-----------------------------------------------------------------------------
(* Types                                                                   *)

\* The triggers of all gears, in one sequence.
LEMMA TriggersTyped == Triggers \in Seq([gear : DOMAIN Gears, text : STRING])
<1> DEFINE V == [gear : DOMAIN Gears, text : STRING]
           TriggersOf(g) == [t \in DOMAIN Gears[g].triggers |->
                                [gear |-> g, text |-> Gears[g].triggers[t]]]
           seqs == [g \in DOMAIN Gears |-> TriggersOf(g)]
<1>1. ASSUME NEW g \in DOMAIN Gears PROVE TriggersOf(g) \in Seq(V)
    <2> DEFINE s == Gears[g].triggers
    <2>1. s \in Seq(STRING)
        BY GearTyped
    <2> HIDE DEF s
    <2>2. /\ Len(s) \in Nat /\ DOMAIN s = 1..Len(s)
          /\ \A t \in 1..Len(s) : [gear |-> g, text |-> s[t]] \in V
        BY <2>1, LenProperties, ElementOfSeq
    <2> HIDE DEF V
    <2>3. [t \in 1..Len(s) |-> [gear |-> g, text |-> s[t]]] \in Seq(V)
        BY <2>2, IsASeq
    <2> QED BY <2>2, <2>3 DEF s
<1>2. seqs \in Seq(Seq(V))
    <2> HIDE DEF TriggersOf, V
    <2>1. Len(Gears) \in Nat /\ DOMAIN Gears = 1..Len(Gears)
        BY GearsAssumption, LenProperties
    <2> QED BY <1>1, <2>1, IsASeq
<1>3. Triggers = FlattenSeq(seqs)
    BY DEF Triggers
<1>4. Triggers \in Seq(V)
    <2> HIDE DEF V, seqs
    <2> QED BY <1>2, <1>3, FlattenSeqTyped
<1> QED BY <1>4

\* What loadEmbeddings has before it and what it has put away are, together,
\* nothing or all triggers; the daemon believes in an encoder while there is one.
RouteInv ==
    /\ at \in {"start", "idle", "write", "read", "stage", "gate", "exec", "iterated", "finished"}
    /\ alive => running
    /\ todo \in Seq([gear : DOMAIN Gears, text : STRING])
    /\ \E Embeds : trigger_embeds \in Seq(Embeds)
    /\ Len(trigger_embeds) + Len(todo) \in {0, Len(Triggers)}
    /\ at = "start" => todo = <<>> /\ trigger_embeds = <<>>

\* A gear is in hand from its first stage until its answer, and no longer; its
\* outputs are those of its stages.
HandInv ==
    /\ gate \in BOOLEAN
    /\ ~(Inside \/ at = "finished") => gear = 0
    /\ Inside \/ at = "finished" =>
        /\ gear \in DOMAIN Gears /\ stage \in DOMAIN Stages
        /\ iteration \in 0..Gears[gear].max_iterations
        /\ DOMAIN outputs \subseteq {Stages[k].id : k \in DOMAIN Stages}
        /\ \A id \in DOMAIN outputs : outputs[id].failed \in BOOLEAN

TypeInv == AccountInv /\ RouteInv /\ HandInv

\* A gear begins with its first stage and no outputs.
LEMMA RunHand == \A g \in DOMAIN Gears : Run(g) /\ gate \in BOOLEAN => HandInv'
<1> SUFFICES ASSUME NEW g \in DOMAIN Gears, Run(g), gate \in BOOLEAN PROVE HandInv'
    OBVIOUS
<1>1. /\ Gears[g].stages \in Seq(StageTypes) /\ Gears[g].stages # <<>>
      /\ Gears[g].max_iterations \in Nat
    BY GearTyped
<1>2. /\ gear' = g /\ outputs' = <<>> /\ stage' = 1 /\ gate' = gate
      /\ at' \in {"stage", "finished"} /\ iteration' \in 0..Gears[g].max_iterations
    BY <1>1 DEF Run
<1>3. Stages' = Gears[g].stages
    BY <1>2 DEF Stages
<1>4. 1 \in DOMAIN Stages'
    BY <1>1, <1>3
<1>5. DOMAIN outputs' = {}
    BY <1>2
<1> QED BY <1>2, <1>4, <1>5 DEF HandInv, Inside

\* The end of a stage hands on to the next, or to the next iteration.
LEMMA StageEndsHand ==
    ASSUME HandInv, Inside, Inside', NEW out, StageEnds(out), out.failed \in BOOLEAN,
           UNCHANGED <<gear, iteration, gate>>
    PROVE  HandInv'
<1>1. /\ gate \in BOOLEAN /\ gear \in DOMAIN Gears /\ stage \in DOMAIN Stages
      /\ iteration \in 0..Gears[gear].max_iterations
      /\ DOMAIN outputs \subseteq {Stages[k].id : k \in DOMAIN Stages}
      /\ \A id \in DOMAIN outputs : outputs[id].failed \in BOOLEAN
    BY DEF HandInv
<1>2. Stages' = Stages
    BY DEF Stages
<1>3. Stages \in Seq(StageTypes)
    BY <1>1, GearTyped DEF Stages
<1>4. stage' \in DOMAIN Stages
    BY <1>1, <1>3, LenProperties DEF StageEnds
<1>5. /\ DOMAIN outputs' = DOMAIN outputs \cup {Stage.id} /\ outputs'[Stage.id] = out
      /\ \A id \in DOMAIN outputs : id # Stage.id => outputs'[id] = outputs[id]
    BY DEF StageEnds, Put
<1>6. DOMAIN outputs' \subseteq {Stages[k].id : k \in DOMAIN Stages}
    BY <1>1, <1>5 DEF Stage
<1>7. \A id \in DOMAIN outputs' : outputs'[id].failed \in BOOLEAN
    BY <1>1, <1>5
<1> QED BY <1>1, <1>2, <1>4, <1>6, <1>7 DEF HandInv

\* Every step of a gear keeps it in hand.
LEMMA ExecutorHand == AccountInv /\ HandInv /\ ExecutorStep => HandInv'
<1> SUFFICES ASSUME AccountInv, HandInv, ExecutorStep PROVE HandInv'
    OBVIOUS
<1>1. ASSUME NEW out, StageEnds(out) PROVE Inside'
    BY <1>1 DEF StageEnds, Inside
<1>2. CASE RunModel
    <2>1. PICK out \in {[content |-> Made, failed |-> FALSE], [content |-> Empty, failed |-> TRUE]} :
              StageEnds(out)
        BY <1>2 DEF RunModel
    <2>2. Inside /\ UNCHANGED <<gear, iteration, gate>>
        BY <1>2 DEF RunModel, Inside
    <2>3. out.failed \in BOOLEAN
        <3>1. CASE out = [content |-> Made, failed |-> FALSE]
            BY <3>1
        <3>2. CASE out = [content |-> Empty, failed |-> TRUE]
            BY <3>2
        <3> QED BY <2>1, <3>1, <3>2
    <2> QED BY <1>1, <2>1, <2>2, <2>3, StageEndsHand
<1>3. CASE RunCondition
    <2> DEFINE out == [content |-> Empty, failed |-> FALSE]
    <2>1. StageEnds(out) /\ out.failed \in BOOLEAN /\ Inside /\ UNCHANGED <<gear, iteration, gate>>
        BY <1>3 DEF RunCondition, Inside
    <2> HIDE DEF out
    <2> QED BY <1>1, <2>1, StageEndsHand
<1>4. CASE RunShell
    <2>1. PICK out \in [content : {Made}, failed : BOOLEAN] \cup {[content |-> Empty, failed |-> TRUE]} :
              StageEnds(out)
        BY <1>4 DEF RunShell
    <2>2. Inside /\ UNCHANGED <<gear, iteration, gate>>
        BY <1>4 DEF RunShell, Inside
    <2>3. CASE out \in [content : {Made}, failed : BOOLEAN]
        <3>1. out.failed \in BOOLEAN
            BY <2>3
        <3> QED BY <1>1, <2>1, <2>2, <3>1, StageEndsHand
    <2>4. CASE out = [content |-> Empty, failed |-> TRUE]
        <3>1. out.failed \in BOOLEAN
            BY <2>4
        <3> QED BY <1>1, <2>1, <2>2, <3>1, StageEndsHand
    <2> QED BY <2>1, <2>3, <2>4
<1>5. ASSUME Inside, Inside', UNCHANGED <<gear, iteration, stage, outputs, gate>>
      PROVE  HandInv'
    BY <1>5 DEF HandInv, Stages
<1>6. CASE RunProcess
    <2>1. Inside /\ Inside' /\ UNCHANGED <<gear, iteration, stage, outputs, gate>>
        BY <1>6 DEF RunProcess, Inside
    <2> QED BY <1>5, <2>1
<1>7. CASE AskGate
    <2> DEFINE out == [content |-> Denied, failed |-> TRUE]
    <2>1. out.failed \in BOOLEAN
        OBVIOUS
    <2>2. /\ Inside /\ UNCHANGED <<gear, iteration, gate>>
          /\ \/ at' = "exec" /\ UNCHANGED <<stage, outputs>>
             \/ StageEnds(out)
        BY <1>7 DEF AskGate, Inside
    <2> HIDE DEF out
    <2>3. CASE at' = "exec" /\ UNCHANGED <<stage, outputs>>
        BY <1>5, <2>2, <2>3 DEF Inside
    <2>4. CASE StageEnds(out)
        BY <1>1, <2>1, <2>2, <2>4, StageEndsHand
    <2> QED BY <2>2, <2>3, <2>4
<1>8. CASE EndIteration
    <2>1. at = "iterated" /\ PlaceInv /\ UNCHANGED <<gear, outputs, gate>> /\ Stages' = Stages
        BY <1>8 DEF EndIteration, AccountInv, Inside, Stages
    <2>2. /\ gate \in BOOLEAN /\ gear \in DOMAIN Gears /\ stage \in DOMAIN Stages
          /\ iteration \in 1..Gears[gear].max_iterations /\ 1 \in DOMAIN Stages
          /\ Gears[gear].max_iterations \in Nat
        BY <2>1, GearStages, GearTyped DEF HandInv, PlaceInv, Inside
    <2>3. \/ at' = "finished" /\ UNCHANGED <<iteration, stage>>
          \/ /\ at' = "stage" /\ stage' = 1 /\ iteration' = iteration + 1
             /\ iteration < Gears[gear].max_iterations
        BY <1>8 DEF EndIteration, Again, Complete
    <2>4. stage' \in DOMAIN Stages' /\ iteration' \in 0..Gears[gear].max_iterations
        BY <2>1, <2>2, <2>3
    <2>5. Inside' \/ at' = "finished"
        BY <2>3 DEF Inside
    <2>6. /\ DOMAIN outputs \subseteq {Stages[k].id : k \in DOMAIN Stages}
          /\ \A id \in DOMAIN outputs : outputs[id].failed \in BOOLEAN
        BY <2>1 DEF HandInv, Inside
    <2> QED BY <2>1, <2>2, <2>4, <2>5, <2>6 DEF HandInv
<1> QED BY <1>2, <1>3, <1>4, <1>6, <1>7, <1>8 DEF ExecutorStep

\* Every step keeps HandInv.
LEMMA HandStep == AccountInv /\ HandInv /\ [Next]_vars => HandInv'
<1> SUFFICES ASSUME AccountInv, HandInv, [Next]_vars PROVE HandInv'
    OBVIOUS
<1>1. gate \in BOOLEAN
    BY DEF HandInv
<1>2. ASSUME at' \in {"start", "idle", "write", "read"}, gear' = 0, UNCHANGED gate
      PROVE  HandInv'
    BY <1>1, <1>2 DEF HandInv, Inside
<1>3. CASE UNCHANGED vars \/ Encoder \/ Death
    <2>1. UNCHANGED <<at, gear, stage, iteration, outputs, gate>>
        BY <1>3 DEF vars, Encoder, Death, executorVars, runVars
    <2> QED BY <2>1 DEF HandInv, Inside, Stages
<1>4. ASSUME at \in {"start", "idle", "write", "read"} PROVE gear = 0
    BY <1>4 DEF HandInv, Inside
<1>5. CASE Start \/ Write
    <2>1. /\ at \in {"start", "write"} /\ at' \in {"idle", "write", "read"}
          /\ UNCHANGED <<gate, gear>>
        BY <1>5 DEF Start, Write, runVars
    <2> QED BY <1>2, <1>4, <2>1
<1>6. CASE AnswerGear
    <2>1. at' = "idle" /\ gear' = 0 /\ UNCHANGED gate
        BY <1>6 DEF AnswerGear, Return
    <2> QED BY <1>2, <2>1
<1>7. CASE Read \/ EncoderGone \/ NotRunning
    <2>1. at \in {"write", "read"} /\ \E embed : Encoded(embed)
        BY <1>7 DEF Read, EncoderGone, NotRunning
    <2>2. PICK embed : Encoded(embed)
        BY <2>1
    <2>3. \/ at' \in {"write", "idle"} /\ UNCHANGED <<gate, gear>>
          \/ \E g \in DOMAIN Gears : Run(g)
        BY <2>2 DEF Encoded, Reply, bestGear, runVars
    <2> QED BY <1>1, <1>2, <1>4, <2>1, <2>3, RunHand
<1>8. CASE Request
    <2>1. at = "idle"
        BY <1>8 DEF Request
    <2>2. \/ at' \in {"write", "idle"} /\ UNCHANGED <<gate, gear>>
          \/ \E g \in DOMAIN Gears : Run(g)
        BY <1>8 DEF Request, Reply, findGear, runVars
    <2> QED BY <1>1, <1>2, <1>4, <2>1, <2>2, RunHand
<1>9. CASE ExecutorStep
    BY <1>9, ExecutorHand
<1> QED BY <1>3, <1>5, <1>6, <1>7, <1>8, <1>9 DEF Next, Daemon

\* An answer of the encoder to a trigger moves it from one sequence to the other.
LEMMA EncodedRoute ==
    ASSUME NEW embed, Encoded(embed), RouteInv, at # "start", alive' => running'
    PROVE  RouteInv'
<1>1. Triggers' = Triggers
    BY DEF Triggers
<1>2. PICK Embeds : trigger_embeds \in Seq(Embeds)
    BY DEF RouteInv
<1>3. CASE todo # <<>>
    <2> DEFINE entry == [gear |-> todo[1].gear, embed |-> embed]
    <2>1. /\ trigger_embeds' = Append(trigger_embeds, entry) /\ todo' = Tail(todo)
          /\ at' \in {"write", "idle"}
        BY <1>3 DEF Encoded
    <2> HIDE DEF entry
    <2>2. /\ trigger_embeds' \in Seq(Embeds \cup {entry})
          /\ Len(trigger_embeds') = Len(trigger_embeds) + 1 /\ Len(trigger_embeds) \in Nat
        BY <1>2, <2>1
    <2>3. /\ todo' \in Seq([gear : DOMAIN Gears, text : STRING])
          /\ Len(todo') = Len(todo) - 1 /\ Len(todo) \in Nat
        <3> DEFINE V == [gear : DOMAIN Gears, text : STRING]
        <3>1. todo \in Seq(V)
            BY DEF RouteInv
        <3> HIDE DEF V
        <3>2. todo' \in Seq(V) /\ Len(todo') = Len(todo) - 1 /\ Len(todo) \in Nat
            BY <1>3, <2>1, <3>1
        <3> QED BY <3>2 DEF V
    <2>4. Len(trigger_embeds') + Len(todo') = Len(trigger_embeds) + Len(todo)
        BY <2>2, <2>3
    <2> QED BY <1>1, <2>1, <2>2, <2>3, <2>4 DEF RouteInv
<1>4. CASE todo = <<>>
    <2>1. UNCHANGED <<todo, trigger_embeds>> /\ at' \in {"idle", "stage", "finished"}
        BY <1>4 DEF Encoded, Reply, Run
    <2> QED BY <1>1, <2>1 DEF RouteInv
<1> QED BY <1>3, <1>4

\* Every step keeps RouteInv.
LEMMA RouteStep == RouteInv /\ [Next]_vars => RouteInv'
<1> SUFFICES ASSUME RouteInv, [Next]_vars PROVE RouteInv'
    OBVIOUS
<1>1. Triggers' = Triggers
    BY DEF Triggers
<1>2. ASSUME at' = at \/ at' \in {"idle", "write", "read", "stage", "gate", "exec", "iterated", "finished"},
             alive' => running', UNCHANGED <<todo, trigger_embeds>>
      PROVE  RouteInv'
    BY <1>1, <1>2 DEF RouteInv
<1>3. CASE UNCHANGED vars \/ Encoder \/ Death
    <2>1. UNCHANGED <<at, todo, trigger_embeds>> /\ (alive' => running')
        BY <1>3 DEF vars, Encoder, Death, Serve, EncoderDies, executorVars, routeVars, encoderVars, RouteInv
    <2> QED BY <1>2, <2>1
<1>4. CASE Start
    <2>1. todo = <<>> /\ trigger_embeds = <<>> /\ (alive' => running') /\ UNCHANGED trigger_embeds
        BY <1>4 DEF Start, start, RouteInv
    <2>2. \/ at' = "write" /\ todo' = Triggers
          \/ at' = "idle" /\ UNCHANGED todo
        BY <1>4 DEF Start
    <2>3. CASE at' = "write" /\ todo' = Triggers
        <3>1. Len(trigger_embeds') + Len(todo') = Len(Triggers)
            BY <2>1, <2>3, TriggersTyped, LenProperties
        <3>2. trigger_embeds' \in Seq({})
            BY <2>1
        <3>3. todo' \in Seq([gear : DOMAIN Gears, text : STRING])
            BY <2>3, TriggersTyped
        <3> QED BY <1>1, <2>1, <2>3, <3>1, <3>2, <3>3 DEF RouteInv
    <2>4. CASE at' = "idle" /\ UNCHANGED todo
        BY <1>2, <2>1, <2>4
    <2> QED BY <2>2, <2>3, <2>4
<1>5. CASE Write \/ AnswerGear
    <2>1. at' \in {"read", "idle"} /\ (alive' => running') /\ UNCHANGED <<todo, trigger_embeds>>
        BY <1>5 DEF Write, write, AnswerGear, encoderVars, RouteInv
    <2> QED BY <1>2, <2>1
<1>6. CASE Read \/ EncoderGone \/ NotRunning
    <2>1. at # "start" /\ (alive' => running') /\ \E embed : Encoded(embed)
        BY <1>6 DEF Read, readLine, EncoderGone, markDead, NotRunning, encoderVars, RouteInv
    <2> QED BY <2>1, EncodedRoute
<1>7. CASE Request
    <2>1. /\ at' \in {"idle", "write", "stage", "finished"} /\ (alive' => running')
          /\ UNCHANGED <<todo, trigger_embeds>>
        BY <1>7 DEF Request, Reply, Run, encoderVars, RouteInv
    <2> QED BY <1>2, <2>1
<1>8. CASE ExecutorStep /\ UNCHANGED <<encoderVars, routeVars>>
    <2>1. ASSUME NEW out, StageEnds(out) PROVE at' \in {"stage", "iterated"}
        BY <2>1 DEF StageEnds
    <2>2. at' \in {"stage", "gate", "exec", "iterated", "finished"}
        BY <1>8, <2>1 DEF ExecutorStep, RunModel, RunCondition, RunProcess, AskGate, RunShell,
                          EndIteration, Again, Complete
    <2>3. (alive' => running') /\ UNCHANGED <<todo, trigger_embeds>>
        BY <1>8 DEF encoderVars, routeVars, RouteInv
    <2> QED BY <1>2, <2>2, <2>3
<1> QED BY <1>3, <1>4, <1>5, <1>6, <1>7, <1>8 DEF Next, Daemon

\* For any gears: the stage in hand is one of the gear's, an iteration is one it
\* may take, and no trigger is lost between those to embed and those embedded.
THEOREM GearsTyped == Spec => []TypeOK
<1>1. Init => TypeInv
    <2> SUFFICES ASSUME Init PROVE TypeInv
        OBVIOUS
    <2>1. RouteInv
        <3>1. trigger_embeds \in Seq({}) /\ todo \in Seq([gear : DOMAIN Gears, text : STRING])
            BY DEF Init
        <3>2. Len(trigger_embeds) + Len(todo) = 0
            BY DEF Init
        <3> QED BY <3>1, <3>2 DEF Init, EncoderInit, RouteInv
    <2>2. HandInv
        BY DEF Init, ExecutorInit, HandInv, Inside
    <2> QED BY <2>1, <2>2, AccountInit DEF TypeInv
<1>2. TypeInv /\ [Next]_vars => TypeInv'
    BY AccountStep, RouteStep, HandStep DEF TypeInv
<1>3. TypeInv => TypeOK
    <2> SUFFICES ASSUME TypeInv PROVE TypeOK
        OBVIOUS
    <2>1. ASSUME gear # 0 PROVE ExecutorTypeOK
        <3>1. HandInv /\ (Inside \/ at = "finished")
            BY <2>1 DEF TypeInv, HandInv
        <3>2. gear \in DOMAIN Gears /\ stage \in DOMAIN Stages
            BY <3>1 DEF HandInv
        <3>3. DOMAIN Stages = 1..Len(Stages)
            BY <3>2, GearTyped, LenProperties DEF Stages
        <3> QED BY <3>1, <3>2, <3>3 DEF HandInv, ExecutorTypeOK
    <2>2. ExecutorTypeOK
        BY <2>1 DEF ExecutorTypeOK
    <2> QED BY <2>2 DEF TypeInv, RouteInv, TypeOK
<1> QED BY <1>1, <1>2, <1>3, PTL DEF Spec
====================================================================================
