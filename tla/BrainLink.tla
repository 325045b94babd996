------------------------------ MODULE BrainLink ------------------------------
(***************************************************************************)
(* The daemon's WebSocket link to the brain (internal/ws/client.go): the   *)
(* reconnect loop ConnectAndServe, the read pump, the write pump, the two  *)
(* channels between them, the command handlers that send through them, and *)
(* Close.  Each of these is a goroutine; a step is what one of them does   *)
(* between two points where another may run.                               *)
(*                                                                         *)
(* What the messages say is abstracted: on sendCh a message is an "output" *)
(* (sendMsg, dropped when the channel is full) or a "reply" (sendMsgSync,  *)
(* blocks).  A pong is fresh when it answers the latest ping, stale when a *)
(* newer ping has been read since.  The map of running commands and        *)
(* cancelAllRunning are in ExecCommands.                                   *)
(***************************************************************************)
EXTENDS Naturals, Sequences

CONSTANTS
    Handlers,      \* the goroutines spawned for commands, one command each
    SendCap,       \* sendChanSize
    Burst,         \* how many more messages the pump drains after one (16)
    MinBackoff,    \* first reconnect delay
    MaxBackoff     \* maxBackoff

ASSUME SendCapAssumption == SendCap \in Nat \ {0}
ASSUME BurstAssumption == Burst \in Nat \ {0}
ASSUME BackoffAssumption == /\ MinBackoff \in Nat \ {0}
                            /\ MaxBackoff \in Nat
                            /\ MinBackoff <= MaxBackoff

VARIABLES
    link,       \* where ConnectAndServe is
    backoff,    \* its reconnect delay
    connRef,    \* what c.conn points to: nil, an earlier or the current connection
    closed,     \* the current connection has been closed on this side
    net,        \* the current connection as the network sees it
    closeSent,  \* a close frame went out on the current connection
    pongCh,     \* the priority channel: empty, or one pong
    sendCh,     \* the normal channel
    reader,     \* where the read pump is
    writer,     \* where the write pump is
    writing,    \* the frame the write pump is writing
    burst,      \* its loop counter in the drain loop
    tick,       \* the keepalive ticker has fired
    handler,    \* where each command handler is
    done,       \* c.done is closed
    closer,     \* where Close is
    owed,       \* history: the latest ping of this session is unanswered
    overtaken,  \* history: data frames begun while the same pong waited
    leftover    \* history: how many messages at the head of sendCh an ended session left

mainVars == <<link, backoff>>
connVars == <<connRef, closed, net, closeSent>>
pumpVars == <<writer, writing, burst, tick>>
ghostVars == <<owed, overtaken, leftover>>
vars == <<link, backoff, connRef, closed, net, closeSent, pongCh, sendCh, reader,
          writer, writing, burst, tick, handler, done, closer,
          owed, overtaken, leftover>>

Links == {"dialing", "backoff", "dialed", "draining", "serving",
          "closing", "awaiting", "exited"}
Pongs == {"empty", "fresh", "stale"}
Frames == {"none", "freshPong", "stalePong", "ping", "output", "reply"}

Init ==
    /\ link = "dialing"
    /\ backoff = MinBackoff
    /\ connRef = "nil"
    /\ closed = FALSE
    /\ net = "dead"
    /\ closeSent = FALSE
    /\ pongCh = "empty"
    /\ sendCh = <<>>
    /\ reader = "off"
    /\ writer = "off"
    /\ writing = "none"
    /\ burst = 0
    /\ tick = FALSE
    /\ handler = [h \in Handlers |-> "idle"]
    /\ done = FALSE
    /\ closer = "idle"
    /\ owed = FALSE
    /\ overtaken = 0
    /\ leftover = 0

\* Variant: the delay is doubled without end.
Doubled(delay) == 2 * delay

\* backoff *= 2, at most maxBackoff.
NextBackoff(delay) == IF 2 * delay <= MaxBackoff THEN 2 * delay ELSE MaxBackoff

Less(n) == IF n = 0 THEN 0 ELSE n - 1

(***************************************************************************)
(* ConnectAndServe: dial, back off, drain, serve, close, wait for the pump *)
(***************************************************************************)
DialFails ==
    /\ link = "dialing"
    /\ link' = "backoff"
    /\ UNCHANGED <<backoff, connVars, pongCh, sendCh, reader, pumpVars, handler,
                   done, closer, ghostVars>>

BackoffElapses ==
    /\ link = "backoff"
    /\ link' = "dialing"
    /\ backoff' = NextBackoff(backoff)
    /\ UNCHANGED <<connVars, pongCh, sendCh, reader, pumpVars, handler, done,
                   closer, ghostVars>>

BackoffInterrupted ==
    /\ link = "backoff"
    /\ done
    /\ link' = "exited"
    /\ UNCHANGED <<backoff, connVars, pongCh, sendCh, reader, pumpVars, handler,
                   done, closer, ghostVars>>

\* dialer.Dial returns a connection; c.conn still points to the previous one.
DialSucceeds ==
    /\ link = "dialing"
    /\ link' = "dialed"
    /\ net' = "up"
    /\ closed' = FALSE
    /\ closeSent' = FALSE
    /\ connRef' = IF connRef = "nil" THEN "nil" ELSE "earlier"
    /\ UNCHANGED <<backoff, pongCh, sendCh, reader, pumpVars, handler, done,
                   closer, ghostVars>>

StoreConn ==
    /\ link = "dialed"
    /\ link' = "draining"
    /\ connRef' = "current"
    /\ backoff' = MinBackoff
    /\ UNCHANGED <<closed, net, closeSent, pongCh, sendCh, reader, pumpVars,
                   handler, done, closer, ghostVars>>

DrainPong ==
    /\ link = "draining"
    /\ pongCh # "empty"
    /\ pongCh' = "empty"
    /\ overtaken' = 0
    /\ UNCHANGED <<mainVars, connVars, sendCh, reader, pumpVars, handler, done,
                   closer, owed, leftover>>

DrainSend ==
    /\ link = "draining"
    /\ sendCh # <<>>
    /\ sendCh' = Tail(sendCh)
    /\ leftover' = Less(leftover)
    /\ UNCHANGED <<mainVars, connVars, pongCh, reader, pumpVars, handler, done,
                   closer, owed, overtaken>>

\* Variants: only one of the two channels is drained.
OnlySendDrained == sendCh = <<>>
OnlyPongDrained == pongCh = "empty"

\* The default branch of the drain loop.
Drained == pongCh = "empty" /\ sendCh = <<>>

\* The drain loop takes its default branch; the pumps start.
DrainEnds ==
    /\ link = "draining"
    /\ Drained
    /\ link' = "serving"
    /\ reader' = "read"
    /\ writer' = "pong"
    /\ tick' = FALSE
    /\ owed' = FALSE
    /\ UNCHANGED <<backoff, connVars, pongCh, sendCh, writing, burst, handler,
                   done, closer, overtaken, leftover>>

CloseConn ==
    /\ link = "closing"
    /\ link' = "awaiting"
    /\ closed' = TRUE
    /\ UNCHANGED <<backoff, connRef, net, closeSent, pongCh, sendCh, reader,
                   pumpVars, handler, done, closer, ghostVars>>

\* Variant: done is not looked at.
AlwaysRedial == "dialing"

WriteStopped == writer = "off"
AfterSession == IF done THEN "exited" ELSE "dialing"

\* <-writeStopped, cancelAllRunning, then the test of done.
PumpStopped ==
    /\ link = "awaiting"
    /\ WriteStopped
    /\ link' = AfterSession
    /\ leftover' = Len(sendCh)
    /\ UNCHANGED <<backoff, connVars, pongCh, sendCh, reader, pumpVars, handler,
                   done, closer, owed, overtaken>>

(***************************************************************************)
(* readPump and what handleMessage does inline: the answer to a ping.      *)
(***************************************************************************)
Readable == net # "dead" /\ ~closed

\* A ping arrives: any pong not yet on the wire is now a stale one.
ReadPing ==
    /\ reader = "read"
    /\ Readable
    /\ reader' = "push"
    /\ owed' = TRUE
    /\ pongCh' = IF pongCh = "fresh" THEN "stale" ELSE pongCh
    /\ writing' = IF writing = "freshPong" THEN "stalePong" ELSE writing
    /\ UNCHANGED <<mainVars, connVars, sendCh, writer, burst, tick, handler,
                   done, closer, overtaken, leftover>>

\* Every other command but kill is handed to a goroutine of its own.
ReadCommand(h) ==
    /\ reader = "read"
    /\ Readable
    /\ handler[h] = "idle"
    /\ handler' = [handler EXCEPT ![h] = "working"]
    /\ UNCHANGED <<mainVars, connVars, pongCh, sendCh, reader, pumpVars, done,
                   closer, ghostVars>>

\* ReadMessage returns an error: the connection is gone.
ReadFails ==
    /\ reader = "read"
    /\ ~Readable
    /\ reader' = "off"
    /\ link' = "closing"
    /\ UNCHANGED <<backoff, connVars, pongCh, sendCh, pumpVars, handler, done,
                   closer, ghostVars>>

\* ReadMessage returns an error: nothing arrived within readDeadline.
ReadTimesOut ==
    /\ reader = "read"
    /\ Readable
    /\ reader' = "off"
    /\ link' = "closing"
    /\ UNCHANGED <<backoff, connVars, pongCh, sendCh, pumpVars, handler, done,
                   closer, ghostVars>>

\* Variant: a pong is dropped like any other message when its channel is full.
PushPongOrDrop ==
    /\ reader = "push"
    /\ reader' = "read"
    /\ pongCh' = IF pongCh = "empty" THEN "fresh" ELSE pongCh
    /\ UNCHANGED <<mainVars, connVars, sendCh, pumpVars, handler, done, closer,
                   ghostVars>>

\* sendMsg of a pong: the first select queues it or finds the channel full ...
PushPong ==
    /\ reader = "push"
    /\ IF pongCh = "empty"
       THEN pongCh' = "fresh" /\ reader' = "read"
       ELSE pongCh' = pongCh /\ reader' = "replace"
    /\ UNCHANGED <<mainVars, connVars, sendCh, pumpVars, handler, done, closer,
                   ghostVars>>

\* Variant: the full channel is not emptied before the blocking send.
DiscardNothing ==
    /\ reader = "replace"
    /\ reader' = "force"
    /\ UNCHANGED <<mainVars, connVars, pongCh, sendCh, pumpVars, handler, done,
                   closer, ghostVars>>

\* ... then the stale pong is taken out, unless the write pump just did ...
DiscardPong ==
    /\ reader = "replace"
    /\ reader' = "force"
    /\ pongCh' = "empty"
    /\ overtaken' = 0
    /\ UNCHANGED <<mainVars, connVars, sendCh, pumpVars, handler, done, closer,
                   owed, leftover>>

\* ... and the blocking send `c.pongCh <- data` follows.
ForcePong ==
    /\ reader = "force"
    /\ pongCh = "empty"
    /\ pongCh' = "fresh"
    /\ reader' = "read"
    /\ UNCHANGED <<mainVars, connVars, sendCh, pumpVars, handler, done, closer,
                   ghostVars>>

(***************************************************************************)
(* writePump                                                               *)
(***************************************************************************)
PumpAt(place) == writer = place /\ writing = "none"

PongFrame == IF pongCh = "fresh" THEN "freshPong" ELSE "stalePong"

TakePong ==
    /\ pongCh # "empty"
    /\ writing' = PongFrame
    /\ pongCh' = "empty"
    /\ overtaken' = 0
    /\ UNCHANGED <<sendCh, tick, leftover>>

TakeTick ==
    /\ tick
    /\ tick' = FALSE
    /\ writing' = "ping"
    /\ UNCHANGED <<pongCh, sendCh, overtaken, leftover>>

TakeData ==
    /\ sendCh # <<>>
    /\ writing' = Head(sendCh)
    /\ sendCh' = Tail(sendCh)
    /\ leftover' = Less(leftover)
    /\ overtaken' = IF pongCh = "empty" THEN 0 ELSE overtaken + 1
    /\ UNCHANGED <<pongCh, tick>>

TakeNothing == UNCHANGED <<pongCh, sendCh, tick, writing, overtaken, leftover>>

pumpFrame == <<mainVars, connVars, reader, handler, done, closer, owed>>

\* Priority 1: a waiting pong goes first.
PumpPong ==
    /\ PumpAt("pong")
    /\ \/ TakePong /\ writer' = writer
       \/ pongCh = "empty" /\ TakeNothing /\ writer' = "tick"
    /\ UNCHANGED <<pumpFrame, burst>>

\* Priority 2: a keepalive that is due.
PumpTick ==
    /\ PumpAt("tick")
    /\ \/ TakeTick /\ writer' = writer
       \/ ~tick /\ TakeNothing /\ writer' = "select"
    /\ UNCHANGED <<pumpFrame, burst>>

\* The select: any case that is ready, whichever it is.
SelectPong ==
    /\ PumpAt("select")
    /\ TakePong
    /\ UNCHANGED <<pumpFrame, writer, burst>>

SelectData ==
    /\ PumpAt("select")
    /\ TakeData
    /\ burst' = 0
    /\ UNCHANGED <<pumpFrame, writer>>

\* Variant: the select has no case for the ticker.
NoSelectTick == FALSE

SelectTick ==
    /\ PumpAt("select")
    /\ TakeTick
    /\ UNCHANGED <<pumpFrame, writer, burst>>

\* The shutdown case: a close frame, best effort, and the pump ends.
SelectDone ==
    /\ PumpAt("select")
    /\ done
    /\ writer' = "off"
    /\ closeSent' = (net = "up" /\ ~closed)
    /\ UNCHANGED <<mainVars, connRef, closed, net, pongCh, sendCh, reader, writing,
                   burst, tick, handler, done, closer, ghostVars>>

\* The drain loop: a due keepalive, then one more message, up to Burst times.
BurstTick ==
    /\ PumpAt("burstTick")
    /\ \/ TakeTick /\ writer' = writer
       \/ ~tick /\ TakeNothing /\ writer' = "burstTake"
    /\ UNCHANGED <<pumpFrame, burst>>

BurstTake ==
    /\ PumpAt("burstTake")
    /\ \/ TakeData /\ writer' = writer
       \/ sendCh = <<>> /\ TakeNothing /\ writer' = "pong"
    /\ UNCHANGED <<pumpFrame, burst>>

\* Variant: one turn of the drain loop too many.
BurstOverLate == burst >= Burst

\* The drain loop has made its last turn.
BurstOver == burst + 1 >= Burst

\* Where the pump goes on after writing the frame it took at its place.
AfterWrite ==
    CASE writer = "pong" -> "tick"
      [] writer = "tick" -> "select"
      [] writer = "select" -> IF writing \in {"output", "reply"} THEN "burstTick"
                                                                 ELSE "pong"
      [] writer = "burstTick" -> "burstTake"
      [] OTHER -> IF BurstOver THEN "pong" ELSE "burstTick"

WriteOk ==
    /\ writing # "none"
    /\ net = "up" /\ ~closed
    /\ writing' = "none"
    /\ writer' = AfterWrite
    /\ burst' = IF writer = "burstTake" THEN burst + 1 ELSE burst
    /\ owed' = (owed /\ writing # "freshPong")
    /\ UNCHANGED <<mainVars, connVars, pongCh, sendCh, reader, tick, handler, done,
                   closer, overtaken, leftover>>

\* A write error (closed, broken, or not done within writeDeadline) ends the pump.
WriteFails ==
    /\ writing # "none"
    /\ net # "up" \/ closed
    /\ writing' = "none"
    /\ writer' = "off"
    /\ UNCHANGED <<mainVars, connVars, pongCh, sendCh, reader, burst, tick, handler,
                   done, closer, ghostVars>>

TickerFires ==
    /\ writer # "off"
    /\ ~tick
    /\ tick' = TRUE
    /\ UNCHANGED <<mainVars, connVars, pongCh, sendCh, reader, writer, writing,
                   burst, handler, done, closer, ghostVars>>

(***************************************************************************)
(* Command handlers: outputs on the way, one reply at the end.             *)
(***************************************************************************)
handlerFrame == <<mainVars, connVars, pongCh, reader, pumpVars, done, closer,
                  ghostVars>>

\* sendMsg: queued if there is room, dropped otherwise.
SendOutput(h) ==
    /\ handler[h] = "working"
    /\ sendCh' = IF Len(sendCh) < SendCap THEN Append(sendCh, "output") ELSE sendCh
    /\ UNCHANGED <<handler, handlerFrame>>

WorkEnds(h) ==
    /\ handler[h] = "working"
    /\ handler' = [handler EXCEPT ![h] = "replying"]
    /\ UNCHANGED <<sendCh, handlerFrame>>

\* Variant: sendMsgSync without a case for done.
NeverGivesUp == FALSE

GivesUp == done

\* sendMsgSync: waits for room or for done, and takes either when both hold.
SendReply(h) ==
    /\ handler[h] = "replying"
    /\ handler' = [handler EXCEPT ![h] = "finished"]
    /\ \/ Len(sendCh) < SendCap /\ sendCh' = Append(sendCh, "reply")
       \/ GivesUp /\ sendCh' = sendCh
    /\ UNCHANGED handlerFrame

(***************************************************************************)
(* Close, called once by the shutdown goroutine of cmd/daemon/main.go.     *)
(***************************************************************************)
CloseDone ==
    /\ closer = "idle"
    /\ closer' = "done"
    /\ done' = TRUE
    /\ UNCHANGED <<mainVars, connVars, pongCh, sendCh, reader, pumpVars, handler,
                   ghostVars>>

CloseRef ==
    /\ closer = "done"
    /\ closer' = "closed"
    /\ closed' = (closed \/ connRef = "current")
    /\ connRef' = "nil"
    /\ UNCHANGED <<mainVars, net, closeSent, pongCh, sendCh, reader, pumpVars,
                   handler, done, ghostVars>>

(***************************************************************************)
(* The network and the brain.                                              *)
(***************************************************************************)
netFrame == <<mainVars, connRef, closed, closeSent, pongCh, sendCh, reader,
              pumpVars, handler, done, closer, ghostVars>>

\* The brain stops reading (writes time out) but still sends.
NetStalls == net = "up" /\ net' = "stuck" /\ UNCHANGED netFrame

NetBreaks == net # "dead" /\ net' = "dead" /\ UNCHANGED netFrame

\* The closing handshake: the brain answers a close frame by closing.
BrainCloses == closeSent /\ net = "up" /\ net' = "dead" /\ UNCHANGED netFrame

\* The session has lost its write pump, but still reads.
PumpDead == link = "serving" /\ writer = "off"

Main == \/ DialFails \/ BackoffElapses \/ BackoffInterrupted \/ DialSucceeds
        \/ StoreConn \/ DrainPong \/ DrainSend \/ DrainEnds \/ CloseConn \/ PumpStopped
Answer == PushPong \/ DiscardPong \/ ForcePong
Reader == ReadPing \/ ReadFails \/ ReadTimesOut \/ Answer
ReadReturns == ReadPing \/ ReadFails \/ ReadTimesOut \/ \E h \in Handlers : ReadCommand(h)
Pump == \/ PumpPong \/ PumpTick \/ SelectPong \/ SelectData \/ SelectTick
        \/ SelectDone \/ BurstTick \/ BurstTake \/ WriteOk \/ WriteFails
Closer == CloseDone \/ CloseRef
Network == NetStalls \/ NetBreaks \/ BrainCloses

Next ==
    \/ Main \/ Reader \/ Pump \/ TickerFires \/ Closer \/ Network
    \/ \E h \in Handlers : ReadCommand(h) \/ SendOutput(h) \/ WorkEnds(h) \/ SendReply(h)

Spec == Init /\ [][Next]_vars

(***************************************************************************)
(* Fairness: every goroutine runs on and time passes.  A select picks      *)
(* pseudo-randomly among its ready cases and a channel serves its blocked  *)
(* senders in turn, so neither passes one over for ever.  Once the write   *)
(* pump is gone no keepalive draws frames that extend the read deadline,   *)
(* so a read returns: with a message, or because the deadline passed.      *)
(* Nothing is assumed of the brain but that it answers a close frame.      *)
(***************************************************************************)
Fairness ==
    /\ WF_vars(Main) /\ SF_vars(BackoffInterrupted)
    /\ WF_vars(ReadFails) /\ WF_vars(Answer)
    /\ WF_vars(PumpDead /\ ReadReturns)
    /\ WF_vars(Pump) /\ WF_vars(TickerFires)
    /\ SF_vars(SelectPong) /\ SF_vars(SelectData) /\ SF_vars(SelectDone)
    /\ WF_vars(CloseRef)
    /\ WF_vars(BrainCloses)
    /\ \A h \in Handlers : WF_vars(WorkEnds(h)) /\ SF_vars(SendReply(h))

FairSpec == Spec /\ Fairness

-----------------------------------------------------------------------------
(* Safety *)

\* Types, and what is off when: both pumps run inside a session only.
TypeOK ==
    /\ link \in Links
    /\ backoff \in MinBackoff .. MaxBackoff
    /\ connRef \in {"nil", "earlier", "current"}
    /\ closed \in BOOLEAN
    /\ net \in {"up", "stuck", "dead"}
    /\ closeSent \in BOOLEAN
    /\ pongCh \in Pongs
    /\ sendCh \in Seq({"output", "reply"}) /\ Len(sendCh) <= SendCap
    /\ reader \in {"off", "read", "push", "replace", "force"}
    /\ writer \in {"off", "pong", "tick", "select", "burstTick", "burstTake"}
    /\ writing \in Frames
    /\ burst \in 0 .. Burst
    /\ tick \in BOOLEAN
    /\ handler \in [Handlers -> {"idle", "working", "replying", "finished"}]
    /\ done \in BOOLEAN
    /\ closer \in {"idle", "done", "closed"}
    /\ owed \in BOOLEAN
    /\ overtaken \in Nat
    /\ leftover \in Nat

\* The blocking `c.pongCh <- data` of sendMsg (client.go:189, 203) never blocks the
\* read pump: it is the only goroutine that fills the channel.
PongSendNeverBlocks == reader = "force" => pongCh = "empty"

\* "Pong messages ... are never dropped" (client.go:169): when the read pump is back
\* at reading, the answer to the latest ping is queued, being written or written,
\* unless the write pump has died.
LatestPongKept ==
    owed /\ reader = "read" /\ writer # "off" => pongCh = "fresh" \/ writing = "freshPong"

\* No pong goes out that no ping of this session asked for: a pong left from an
\* earlier connection does not survive into the next (drainChannels).
NoUnsolicitedPong ==
    link = "serving" /\ (pongCh # "empty" \/ writing = "freshPong") => owed

\* "Drain any stale messages from previous connection" (client.go:388): no message
\* an ended session left in sendCh is written to the next connection.
NoLeftoverReplayed == link = "serving" => leftover = 0

\* "Heartbeats never blocked by tool results" (client.go:14), as far as it goes: at
\* most Burst + 1 messages go out before a pong that is already waiting.
PongOvertakingBounded == overtaken <= Burst + 1

\* A connection is dialled only when no write pump is left on an earlier one, so
\* no message is taken off the channels for a dead connection.
OnePump == writer # "off" => link \in {"serving", "closing", "awaiting"}

-----------------------------------------------------------------------------
(* Liveness *)

\* A ping is answered, unless a newer one replaces it or the session ends.
PingAnswered == (owed /\ reader = "read") ~> (~owed \/ reader # "read" \/ PumpDead)

\* A session that lost its connection always ends: the wait for the write pump
\* (client.go:406) cannot last, although closing the connection does not wake it.
SessionEnds == link = "closing" ~> link \in {"dialing", "exited"}

\* A handler blocked in sendMsgSync gets through, unless the daemon stays
\* offline or the write pump has died under it.
ReplyAccepted ==
    \A h \in Handlers :
        handler[h] = "replying" ~>
            (handler[h] = "finished" \/ link \in {"dialing", "backoff"} \/ PumpDead)

\* After Close the reconnect loop returns, whatever it was doing, unless the
\* brain no longer takes writes but keeps sending.
ShutdownExits == done ~> (link = "exited" \/ net = "stuck")

-----------------------------------------------------------------------------
(* What the comments claim *)

\* writePump "exits when ... a write fails (triggering reconnect)" (client.go:231).
PumpDeathReconnects == PumpDead /\ ~done ~> ~PumpDead \/ done

\* sendMsgSync is for "critical messages ... that must not be dropped"
\* (client.go:215): a queued reply leaves the channel only to be written.
Replies(s) == {i \in 1 .. Len(s) : s[i] = "reply"}
QueuedReplyIsWritten ==
    [][ Len(sendCh') < Len(sendCh) /\ Head(sendCh) = "reply" => writing' = "reply" ]_vars
=============================================================================
