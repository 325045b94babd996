---------------------------- MODULE ExecProtocol ----------------------------
(***************************************************************************)
(* What the daemon queues for the brain of every exec message, whatever it *)
(* does inside: "started" comes first, output follows, one message at most *)
(* ends the command, a command is given up as "killed" only when somebody  *)
(* asked for it, and only the tool of a killed command may still be heard  *)
(* afterwards.  Once the daemon shuts down, messages may be missing.       *)
(*                                                                         *)
(* The brain need not read all that is queued: after a reconnect the       *)
(* channel is drained, and a write may fail (BrainLink).  It reads some of *)
(* the messages of a command, in their order.  ExecCommands implements     *)
(* the protocol.                                                           *)
(***************************************************************************)
EXTENDS Naturals, Sequences

CONSTANT Commands

VARIABLES
    phase,   \* of a command: pending, running, killed (its tool still runs) or closed
    asked,   \* the commands somebody asked to stop
    over,    \* the daemon is shutting down
    sent     \* the messages queued of each command, in order

vars == <<phase, asked, over, sent>>

Endings == {"result", "killed"}

Init ==
    /\ phase = [c \in Commands |-> "pending"]
    /\ asked = {}
    /\ over = FALSE
    /\ sent = [c \in Commands |-> <<>>]

Moves(c, from, to) ==
    /\ phase[c] = from
    /\ phase' = [phase EXCEPT ![c] = to]

Tells(c, what) ==
    \/ sent' = [sent EXCEPT ![c] = Append(@, what)]
    \/ over /\ UNCHANGED sent

Start(c) ==
    /\ Moves(c, "pending", "running")
    /\ Tells(c, "started")
    /\ UNCHANGED <<asked, over>>

Stream(c) ==
    /\ phase[c] \in {"running", "killed"}
    /\ Tells(c, "output")
    /\ UNCHANGED <<phase, asked, over>>

Finish(c) ==
    /\ Moves(c, "running", "closed")
    /\ Tells(c, "result")
    /\ UNCHANGED <<asked, over>>

\* The tool may or may not have returned by then.
Abandon(c) ==
    /\ c \in asked
    /\ Moves(c, "running", "killed") \/ Moves(c, "running", "closed")
    /\ Tells(c, "killed")
    /\ UNCHANGED <<asked, over>>

\* The tool of a killed command returns.
FallSilent(c) ==
    /\ Moves(c, "killed", "closed")
    /\ UNCHANGED <<asked, over, sent>>

AskToStop(C) ==
    /\ asked' = asked \union C
    /\ UNCHANGED <<phase, over, sent>>

ShutDown ==
    /\ over' = TRUE
    /\ UNCHANGED <<phase, asked, sent>>

Next ==
    \/ \E c \in Commands : Start(c) \/ Stream(c) \/ Finish(c) \/ Abandon(c) \/ FallSilent(c)
    \/ \E C \in SUBSET Commands : AskToStop(C)
    \/ ShutDown

Spec == Init /\ [][Next]_vars

-----------------------------------------------------------------------------
\* Of any two messages of a command the later one is not "started", and if the earlier
\* one ends the command it is "killed", asked for, and the later one output.
InOrder(c) ==
    \A i, j \in 1 .. Len(sent[c]) : i < j =>
        /\ sent[c][j] # "started"
        /\ sent[c][i] \in Endings =>
               sent[c][i] = "killed" /\ c \in asked /\ sent[c][j] = "output"

\* What is queued of a command (the messages of handleExec, client.go:615-674) is in
\* order, at all times: so is what the brain reads, however much of it is lost.  Until
\* the daemon shuts down, what is queued also starts with "started"; the brain may miss it.
Transcript ==
    \A c \in Commands :
        /\ InOrder(c)
        /\ ~over /\ sent[c] # <<>> => sent[c][1] = "started"
=============================================================================
