------------------------------ MODULE GearRequests ------------------------------
(***************************************************************************)
(* gear.run on the IPC thread: router.zig finds the gear for a text, by    *)
(* its triggers or with the encoder, executor.zig runs it, and nobody else *)
(* is served meanwhile.  Before the first request loadEmbeddings asks the  *)
(* encoder about every trigger.                                            *)
(***************************************************************************)
EXTENDS EncodeServer, GearExecutor

CONSTANTS
    Structural,     \* the texts tier 1 takes
    Matches,       \* the pairs <<text, trigger>> tier 2 takes
    Score,          \* the cosine of two lines' embeddings
    Threshold,
    MaxRequests     \* bound: requests

VARIABLES
    todo,               \* the triggers loadEmbeddings has before it
    trigger_embeds,     \* g_trigger_embeds
    text,               \* the text of the request or trigger in hand
    answer, served, deaths

routeVars == <<todo, trigger_embeds, text, answer, served>>
vars == <<encoderVars, executorVars, routeVars, deaths>>

Unmatched == [is |-> "unmatched"]

Triggers == FlattenSeq([g \in DOMAIN Gears |->
    [t \in DOMAIN Gears[g].triggers |-> [gear |-> g, text |-> Gears[g].triggers[t]]]])

Init ==
    /\ EncoderInit /\ ExecutorInit /\ at = "start"
    /\ todo = <<>> /\ trigger_embeds = <<>> /\ text = EmptyLine
    /\ answer = Unmatched /\ served = 0 /\ deaths = 0

\* cmd_start: without an encoder there is nothing to load.
Start ==
    /\ at = "start" /\ start
    /\ IF running' /\ Triggers # <<>>
       THEN at' = "write" /\ todo' = Triggers /\ text' = Triggers[1].text
       ELSE at' = "idle" /\ UNCHANGED <<todo, text>>
    /\ UNCHANGED <<gate, runVars, trigger_embeds, answer, served>>

Reply(a) == at' = "idle" /\ answer' = a /\ UNCHANGED <<gate, runVars>>

\* bestGear: the first of the best, when it is good enough.
cosine(embed, k) ==
    IF trigger_embeds[k].embed = Null THEN 0 ELSE Score[embed.of][trigger_embeds[k].embed.of]
bestGear(embed) ==
    {g \in DOMAIN Gears : \E k \in DOMAIN trigger_embeds :
        /\ trigger_embeds[k].gear = g /\ cosine(embed, k) > Threshold
        /\ \A j \in DOMAIN trigger_embeds : cosine(embed, j) < cosine(embed, k)
                                            \/ (cosine(embed, j) = cosine(embed, k) /\ k <= j)}

\* What encode gave: for a trigger an entry, zeros when it failed; for a
\* request the gear, if any.
Encoded(embed) ==
    \/ /\ todo # <<>>
       /\ trigger_embeds' = Append(trigger_embeds, [gear |-> todo[1].gear, embed |-> embed])
       /\ todo' = Tail(todo)
       /\ IF Len(todo) > 1 THEN at' = "write" /\ text' = todo[2].text
                           ELSE at' = "idle" /\ UNCHANGED text
       /\ UNCHANGED <<gate, runVars, answer>>
    \/ /\ todo = <<>>
       /\ LET best == IF embed = Null THEN {} ELSE bestGear(embed) IN
          IF best = {} THEN Reply(Unmatched)
          ELSE (\E g \in best : Run(g)) /\ UNCHANGED answer
       /\ UNCHANGED <<todo, trigger_embeds, text>>

Write ==
    /\ at = "write" /\ write(text)
    /\ at' = "read"
    /\ UNCHANGED <<gate, runVars, todo, trigger_embeds, text, answer, served>>
Read ==
    /\ at = "read" /\ \E reply \in Range(replies) : readLine(reply) /\ Encoded(reply)
    /\ UNCHANGED served
\* The write fails, or the read after the last reply.
EncoderGone ==
    /\ running /\ ~alive /\ (at = "write" \/ (at = "read" /\ replies = <<>>))
    /\ markDead /\ Encoded(Null)
    /\ UNCHANGED served
\* encode of the triggers that are left.
NotRunning ==
    /\ at = "write" /\ ~running
    /\ Encoded(Null)
    /\ UNCHANGED <<encoderVars, served>>

\* The tiers of classify.
findGear(t) ==
    {g \in DOMAIN Gears : \E k \in DOMAIN Gears[g].triggers : <<t, Gears[g].triggers[k]>> \in Matches}
Request ==
    /\ at = "idle" /\ served < MaxRequests
    /\ served' = served + 1
    /\ \E t \in Texts :
        /\ text' = t
        /\ IF t \in Structural THEN Reply([is |-> "structural"])
           ELSE IF findGear(t) # {}
           THEN /\ \E g \in findGear(t) : (\A h \in findGear(t) : g <= h) /\ Run(g)
                /\ UNCHANGED answer
           ELSE IF running /\ trigger_embeds # <<>>
           THEN at' = "write" /\ UNCHANGED <<gate, runVars, answer>>
           ELSE Reply(Unmatched)
    /\ UNCHANGED <<encoderVars, todo, trigger_embeds>>

AnswerGear ==
    /\ at = "finished"
    /\ at' = "idle" /\ answer' = [is |-> "output", gear |-> gear, output |-> last]
    /\ Return
    /\ UNCHANGED <<encoderVars, todo, trigger_embeds, text, served>>

Daemon ==
    /\ \/ Start \/ Write \/ Read \/ EncoderGone \/ NotRunning \/ Request \/ AnswerGear
       \/ (ExecutorStep /\ UNCHANGED <<encoderVars, routeVars>>)
    /\ UNCHANGED deaths
Encoder == Serve /\ UNCHANGED <<executorVars, routeVars, deaths>>
Death ==
    /\ deaths < MaxDeaths /\ deaths' = deaths + 1
    /\ EncoderDies
    /\ UNCHANGED <<executorVars, routeVars>>
Next == Daemon \/ Encoder \/ Death

\* Commands, models and the gate script come to an end, and the encoder takes
\* what it is given.
Spec == Init /\ [][Next]_vars /\ WF_vars(Daemon) /\ WF_vars(Encoder)
-----------------------------------------------------------------------------
(* Properties                                                              *)

TypeOK ==
    /\ ExecutorTypeOK
    /\ at \in {"start", "idle", "write", "read", "stage", "gate", "exec", "iterated", "finished"}
    /\ alive => running
    /\ Len(trigger_embeds) + Len(todo) \in {0, Len(Triggers)}

\* plugin_main.c:158: "so the daemon always gets one response per request and
\* the protocol stays in sync".  The reply the daemon is about to take is to the
\* text it sent, and between two requests no reply is left to be taken for the
\* next one's.
AnswersInStep ==
    /\ Len(lines) + Len(replies) <= IF at = "read" THEN 1 ELSE 0
    /\ replies # <<>> => Head(replies) \in {Null, Embed(text)}

\* The IPC thread comes back to its clients, whatever stages fail, the gate
\* denies and the encoder does, unless the text is empty: an empty line has no
\* reply, and the thread waits for it until the encoder dies.
EveryRequestAnswered == at # "idle" ~> (at = "idle" \/ (at = "read" /\ text = EmptyLine))
================================================================================
