---------------------------- MODULE ExecCommands ----------------------------
(***************************************************************************)
(* The exec commands of the daemon (internal/ws/client.go): handleExec,    *)
(* handleKill, cancelAllRunning and the registry `running` they share      *)
(* under runningMu, while sessions with the brain end and begin.           *)
(*                                                                         *)
(* A delivery is one exec message; its goroutine is handleExec(msg), and   *)
(* the goroutine that calls ExecuteInContainer is its tool.  Two           *)
(* deliveries may carry the same command id.                               *)
(*                                                                         *)
(* The channel to the write pump is in BrainLink.  Here a message counts   *)
(* once it is queued; what is queued may still be lost on the way to the   *)
(* brain.  sendMsgSync blocks while the channel is full, which it may be   *)
(* for good: a place of a handler that sends is one where it may stay.     *)
(***************************************************************************)
EXTENDS Naturals, Sequences

CONSTANTS
    Ids,           \* command ids
    Deliveries,    \* exec messages
    MaxOutputs,    \* bound: output chunks a tool streams
    None           \* no delivery

ASSUME NoneAssumption == None \notin Deliveries
ASSUME OutputsAssumption == MaxOutputs \in Nat

VARIABLES
    idOf,       \* the id each delivery carries
    session,    \* serving, ended (not yet swept) or offline
    exec,       \* where handleExec is, per delivery
    tool,       \* the tool goroutine, and what it put in resultCh
    running,    \* c.running: whose cancel channel an id is registered with
    cancelled,  \* the deliveries whose cancelCh is closed
    panicked,   \* a closed channel was closed again
    done,       \* c.done is closed
    closing,    \* Close has still to call cancelAllRunning
    sent,       \* the messages queued for each delivery, in order
    past,       \* history: delivered in a session that has been swept
    late        \* history: registered after its session had been swept

vars == <<idOf, session, exec, tool, running, cancelled, panicked, done, closing,
          sent, past, late>>

\* Where the handler is in sendMsgSync, and where the registry may name it.
Sending == {"starting", "completing", "aborting"}
Registered == Sending \union {"waiting", "leaving"}
Terminal == {"result", "killed"}

Init ==
    /\ idOf \in [Deliveries -> Ids]
    /\ session = "serving"
    /\ exec = [d \in Deliveries |-> "unsent"]
    /\ tool = [d \in Deliveries |-> "none"]
    /\ running = [i \in Ids |-> None]
    /\ cancelled = {}
    /\ panicked = FALSE
    /\ done = FALSE
    /\ closing = FALSE
    /\ sent = [d \in Deliveries |-> <<>>]
    /\ past = {}
    /\ late = {}

Goes(d, from, to) ==
    /\ exec[d] = from
    /\ exec' = [exec EXCEPT ![d] = to]

Queues(d, what) == sent' = [sent EXCEPT ![d] = Append(@, what)]

\* sendMsgSync: its select takes the channel's room or done, once closed.
QueuesOrGivesUp(d, what) == Queues(d, what) \/ (done /\ sent' = sent)

\* Variant: the registry keeps the entry.
KeepsEntry(id) == running' = running

Unregister(id) == running' = [running EXCEPT ![id] = None]

(***************************************************************************)
(* handleExec                                                              *)
(***************************************************************************)
\* handleMessage: go c.handleExec(msg)
Deliver(d) ==
    /\ session = "serving"
    /\ Goes(d, "unsent", "spawned")
    /\ UNCHANGED <<idOf, session, tool, running, cancelled, panicked, done,
                   closing, sent, past, late>>

\* The fresh cancel channel replaces whatever the id was registered with.
Register(d) ==
    /\ Goes(d, "spawned", "starting")
    /\ running' = [running EXCEPT ![idOf[d]] = d]
    /\ late' = IF d \in past THEN late \union {d} ELSE late
    /\ UNCHANGED <<idOf, session, tool, cancelled, panicked, done, closing,
                   sent, past>>

\* "started" is queued, and only then the tool goroutine launched, killed or not.
Start(d) ==
    /\ Goes(d, "starting", "waiting")
    /\ QueuesOrGivesUp(d, "started")
    /\ tool' = [tool EXCEPT ![d] = "running"]
    /\ UNCHANGED <<idOf, session, running, cancelled, panicked, done, closing,
                   past, late>>

\* Variant: output still arrives from a tool call that has returned.
StreamsOn(d) == tool[d] # "none"

\* ExecuteInContainer calls onOutput until it returns.
Streams(d) == tool[d] = "running"

\* onOutput, called by the tool goroutine: sendMsg queues the chunk.  When the channel
\* is full it drops the chunk instead, and nothing changes.
Output(d) ==
    /\ Streams(d)
    /\ Len(SelectSeq(sent[d], LAMBDA m : m = "output")) < MaxOutputs
    /\ Queues(d, "output")
    /\ UNCHANGED <<idOf, session, exec, tool, running, cancelled, panicked,
                   done, closing, past, late>>

\* ExecuteInContainer returns; resultCh has room for its one result.
ToolReturns(d) ==
    /\ tool[d] = "running"
    /\ tool' = [tool EXCEPT ![d] = "returned"]
    /\ UNCHANGED <<idOf, session, exec, running, cancelled, panicked, done,
                   closing, sent, past, late>>

\* The select takes the result.
TakeResult(d) ==
    /\ tool[d] = "returned"
    /\ Goes(d, "waiting", "completing")
    /\ UNCHANGED <<idOf, session, tool, running, cancelled, panicked, done, closing,
                   sent, past, late>>

\* Variant: the select does not wait for the cancellation.
IgnoresCancel(d) == FALSE

\* Or it takes the cancellation, and the tool goroutine is left to itself.
TakeCancel(d) ==
    /\ d \in cancelled
    /\ Goes(d, "waiting", "aborting")
    /\ UNCHANGED <<idOf, session, tool, running, cancelled, panicked, done, closing,
                   sent, past, late>>

\* The terminal message is queued: "completed", or "error" when the tool failed (a
\* "result" here) ...
ReportResult(d) ==
    /\ Goes(d, "completing", "leaving")
    /\ QueuesOrGivesUp(d, "result")
    /\ UNCHANGED <<idOf, session, tool, running, cancelled, panicked, done, closing,
                   past, late>>

\* ... or the "error" of a killed command.
ReportKilled(d) ==
    /\ Goes(d, "aborting", "leaving")
    /\ QueuesOrGivesUp(d, "killed")
    /\ UNCHANGED <<idOf, session, tool, running, cancelled, panicked, done, closing,
                   past, late>>

\* The deferred delete, by id.
Leave(d) ==
    /\ Goes(d, "leaving", "gone")
    /\ Unregister(idOf[d])
    /\ UNCHANGED <<idOf, session, tool, cancelled, panicked, done, closing,
                   sent, past, late>>

(***************************************************************************)
(* handleKill and cancelAllRunning                                         *)
(***************************************************************************)
\* Variant: the id is taken to be registered.
AssumesKnown(id) == TRUE

Known(id) == running[id] # None

Kill(id) ==
    /\ session = "serving"
    /\ Known(id)
    /\ panicked' = (panicked \/ running[id] \in cancelled)
    /\ cancelled' = cancelled \union {running[id]}
    /\ Unregister(id)
    /\ UNCHANGED <<idOf, session, exec, tool, done, closing, sent, past, late>>

\* Variant: the registry is emptied and no channel closed.
ForgetsAll ==
    /\ running' = [i \in Ids |-> None]
    /\ UNCHANGED <<cancelled, panicked>>

\* Closes every registered channel that is still open and empties the registry.
cancelAllRunning ==
    /\ cancelled' = cancelled \union ({running[i] : i \in Ids} \ {None})
    /\ running' = [i \in Ids |-> None]
    /\ UNCHANGED panicked

\* The read pump fails; no more messages are handled in this session.
SessionEnds ==
    /\ session = "serving"
    /\ session' = "ended"
    /\ UNCHANGED <<idOf, exec, tool, running, cancelled, panicked, done,
                   closing, sent, past, late>>

\* ConnectAndServe, once both pumps are gone.
Sweep ==
    /\ session = "ended"
    /\ session' = "offline"
    /\ cancelAllRunning
    /\ past' = {d \in Deliveries : exec[d] # "unsent"}
    /\ UNCHANGED <<idOf, exec, tool, done, closing, sent, late>>

Reconnect ==
    /\ session = "offline"
    /\ session' = "serving"
    /\ UNCHANGED <<idOf, exec, tool, running, cancelled, panicked, done,
                   closing, sent, past, late>>

\* Close: done, the connection, then cancelAllRunning.
Close ==
    /\ ~done
    /\ done' = TRUE
    /\ closing' = TRUE
    /\ UNCHANGED <<idOf, session, exec, tool, running, cancelled, panicked,
                   sent, past, late>>

CloseSweep ==
    /\ closing
    /\ closing' = FALSE
    /\ cancelAllRunning
    /\ UNCHANGED <<idOf, session, exec, tool, done, sent, past, late>>

Send(d) == Start(d) \/ ReportResult(d) \/ ReportKilled(d)
Handle(d) == Register(d) \/ TakeResult(d) \/ TakeCancel(d) \/ Leave(d)

Next ==
    \/ \E d \in Deliveries : Deliver(d) \/ Handle(d) \/ Send(d) \/ Output(d) \/ ToolReturns(d)
    \/ \E id \in Ids : Kill(id)
    \/ SessionEnds \/ Sweep \/ Reconnect \/ Close \/ CloseSweep

Spec == Init /\ [][Next]_vars

\* A handler runs on where it need not wait, and takes a ready case of its selects.  A
\* send need not find room in the channel while the daemon runs; once done is closed,
\* it gives up at the latest.  A tool need not return.
Fairness ==
    \A d \in Deliveries : WF_vars(Handle(d)) /\ WF_vars(done /\ Send(d))
FairSpec == Spec /\ Fairness

-----------------------------------------------------------------------------
TypeOK ==
    /\ idOf \in [Deliveries -> Ids]
    /\ session \in {"serving", "ended", "offline"}
    /\ exec \in [Deliveries -> {"unsent", "spawned", "gone"} \union Registered]
    /\ tool \in [Deliveries -> {"none", "running", "returned"}]
    /\ running \in [Ids -> Deliveries \union {None}]
    /\ cancelled \subseteq Deliveries
    /\ panicked \in BOOLEAN
    /\ done \in BOOLEAN
    /\ closing \in BOOLEAN
    /\ sent \in [Deliveries -> Seq({"started", "output"} \union Terminal)]
    /\ past \subseteq Deliveries
    /\ late \subseteq Deliveries

\* handleKill closes its channel without looking (client.go:681): a kill, a second
\* kill, a disconnect and Close never close the same channel twice, which would panic.
NoDoubleClose == ~panicked

\* The registry names only commands whose handler is still there to be cancelled,
\* under their own id: the deferred delete by id (client.go:609) leaves nothing behind.
RegistryLive ==
    \A i \in Ids : running[i] # None =>
        idOf[running[i]] = i /\ exec[running[i]] \in Registered

\* A command that started and was not cancelled can still be killed, unless another
\* delivery of the same id took its place in the registry or left in its stead.
Rival(d) == \E e \in Deliveries \ {d} :
                idOf[e] = idOf[d] /\ exec[e] \notin {"unsent", "spawned"}
Killable ==
    \A d \in Deliveries :
        exec[d] \in Registered /\ d \notin cancelled => running[idOf[d]] = d \/ Rival(d)

\* "In-flight command cancellation on disconnect" (client.go:18), for the commands
\* that had registered when the disconnected session was swept.
DisconnectCancels ==
    \A d \in past \ late :
        exec[d] \in Registered => d \in cancelled \/ Rival(d)

\* What handleExec queues for the brain, killed commands and all, is the protocol of
\* ExecProtocol: the handler queues everything before it leaves, and a tool left to
\* itself may be heard until it returns.
Phase(d) ==
    CASE exec[d] \in {"unsent", "spawned", "starting"} -> "pending"
      [] exec[d] \in {"waiting", "completing", "aborting"} -> "running"
      [] OTHER -> IF tool[d] = "running" THEN "killed" ELSE "closed"

Protocol == INSTANCE ExecProtocol WITH
                Commands <- Deliveries,
                phase <- [d \in Deliveries |-> Phase(d)],
                asked <- cancelled,
                over <- done

\* handleExec, its tool, the kills and the sweeps together implement that protocol.
ImplementsProtocol == Protocol!Spec

\* A cancelled command leaves, even if its tool never returns, unless the running daemon
\* holds it in sendMsgSync for good (client.go:223): that is so when the channel is full
\* and the write pump has died without the session, or no session comes back.  While the
\* pump lives and the link is up, ReplyAccepted of BrainLink rules it out.
CancelledLeaves ==
    \A d \in Deliveries :
        \/ <>[](~done /\ exec[d] \in Sending)
        \/ d \in cancelled ~> exec[d] = "gone"

\* "Cancel all in-flight commands" (client.go:408), "prevents goroutine leaks"
\* (client.go:18): after the sweep, no command of the lost session is left running.
NothingSurvivesDisconnect ==
    session = "offline" =>
        \A d \in past : exec[d] \in {"starting", "waiting"} => d \in cancelled
=============================================================================
