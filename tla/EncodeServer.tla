------------------------------ MODULE EncodeServer ------------------------------
(***************************************************************************)
(* The encoder process of embed_runner.zig and the loop it runs in         *)
(* plugin_main.c: lines of text one way, one reply to a line the other way.*)
(***************************************************************************)
EXTENDS Integers, SequencesExt

CONSTANTS
    Texts,      \* what is sent; each fits the buffer of fgets and is one line
    EmptyLine,
    MaxDeaths   \* bound: deaths of the encoder

VARIABLES
    running,    \* g_pid > 0: what the daemon believes
    alive,      \* whether the process runs
    lines,      \* the pipe to it
    replies     \* the pipe back, with g_rbuf at its end

encoderVars == <<running, alive, lines, replies>>

\* {"embed":null}, and an array of numbers, named by the line it stands for.
Null == [embed |-> "null"]
Embed(line) == [embed |-> "floats", of |-> line]

EncoderInit == running = FALSE /\ alive = FALSE /\ lines = <<>> /\ replies = <<>>

\* start: two pipes and a fork, any of which may fail.
start == \E up \in BOOLEAN : running' = up /\ alive' = up /\ UNCHANGED <<lines, replies>>

\* encode writes the text and a newline.
write(text) ==
    /\ running /\ alive
    /\ lines' = Append(lines, text)
    /\ UNCHANGED <<running, alive, replies>>

\* readLine.
readLine(reply) ==
    /\ replies # <<>> /\ reply = Head(replies)
    /\ replies' = Tail(replies)
    /\ UNCHANGED <<running, alive, lines>>

\* markDead: when a write finds no reader, or a read finds the end.  Nothing
\* calls start again.
markDead ==
    /\ running' = FALSE /\ alive' = FALSE
    /\ lines' = <<>> /\ replies' = <<>>

\* run_encode_server: an empty line has no reply.
ServeNullGoesOn ==
    /\ alive /\ lines # <<>>
    /\ lines' = Tail(lines)
    /\ \/ Head(lines) = EmptyLine /\ UNCHANGED replies
       \/ Head(lines) # EmptyLine /\ \E rest \in {<<>>, <<Null>>} :
             replies' = replies \o rest \o <<Embed(Head(lines))>>
    /\ UNCHANGED <<running, alive>>
ServeNullSilent ==
    /\ alive /\ lines # <<>>
    /\ lines' = Tail(lines)
    /\ \/ Head(lines) = EmptyLine /\ UNCHANGED replies
       \/ Head(lines) # EmptyLine /\ \E reply \in {<<>>, <<Embed(Head(lines))>>} :
             replies' = replies \o reply
    /\ UNCHANGED <<running, alive>>
Serve ==
    /\ alive /\ lines # <<>>
    /\ lines' = Tail(lines)
    /\ \/ Head(lines) = EmptyLine /\ UNCHANGED replies
       \/ Head(lines) # EmptyLine /\ \E reply \in {Null, Embed(Head(lines))} :
             replies' = Append(replies, reply)
    /\ UNCHANGED <<running, alive>>

\* The process dies: no binary, no models, killed.  What it wrote can be read.
EncoderDies ==
    /\ alive
    /\ alive' = FALSE /\ lines' = <<>>
    /\ UNCHANGED <<running, replies>>
================================================================================
