--------------------------- MODULE BrainLink_proofs ---------------------------
(***************************************************************************)
(* Proofs about BrainLink, for every number of handlers, every channel     *)
(* size, every burst and every backoff range: the type invariant, and that *)
(* the safety properties its runs check are invariants of Spec.            *)
(*                                                                         *)
(* The inductive invariant IInv says, beside the types, which goroutine is *)
(* active in which part of a session (Phases), which frames each place of  *)
(* the write pump can be writing (Places), where a fresh pong can be       *)
(* (FreshPong), and how many data frames have overtaken a waiting pong at  *)
(* each place of the pump (Overtaking).                                    *)
(***************************************************************************)
EXTENDS BrainLink, TLAPS

\* The pumps run within a session, the reader exactly while it is served.
Phases ==
    /\ writer # "off" => link \in {"serving", "closing", "awaiting"}
    /\ reader # "off" <=> link = "serving"
    /\ writer = "off" => writing = "none"

PongFrames == {"freshPong", "stalePong"}
DataFrames == {"output", "reply"}

\* What the pump can be writing at each of its places, and its loop counter.
Places ==
    /\ writer = "pong" => writing \in {"none"} \union PongFrames
    /\ writer \in {"tick", "burstTick"} => writing \in {"none", "ping"}
    /\ writer = "burstTake" => writing \in {"none"} \union DataFrames
    /\ writer \in {"burstTick", "burstTake"} => burst < Burst

\* A fresh pong is in one place at a time and only while no newer ping is being
\* answered; a ping being answered is unanswered.
FreshPong ==
    /\ writing = "freshPong" => pongCh = "empty"
    /\ writing = "freshPong" \/ pongCh = "fresh" => reader \in {"off", "read"}
    /\ reader \in {"push", "replace", "force"} => owed
    /\ PongSendNeverBlocks
    /\ LatestPongKept
    /\ NoUnsolicitedPong

Leftover ==
    /\ leftover <= Len(sendCh)
    /\ NoLeftoverReplayed

\* How many data frames have gone before the waiting pong, place by place.
Overtaking ==
    /\ pongCh = "empty" => overtaken = 0
    /\ writer = "pong" /\ writing # "none" => overtaken = 0
    /\ writer = "tick" => overtaken = 0
    /\ writer = "select" => overtaken <= IF writing \in DataFrames THEN 1 ELSE 0
    /\ writer = "select" /\ writing \in DataFrames => burst = 0
    /\ writer = "burstTick" => overtaken <= burst + 1
    /\ writer = "burstTake" =>
         overtaken <= burst + (IF writing \in DataFrames THEN 2 ELSE 1)
    /\ PongOvertakingBounded

IInv == TypeOK /\ Phases /\ Places /\ FreshPong /\ Leftover /\ Overtaking


-----------------------------------------------------------------------------
USE SendCapAssumption, BurstAssumption, BackoffAssumption
USE DEF mainVars, connVars, pumpVars, ghostVars, handlerFrame, netFrame, pumpFrame,
        PumpAt, TakePong, TakeTick, TakeData, TakeNothing, Readable, Drained,
        WriteStopped, AfterSession, BurstOver, GivesUp

\* The ticker flag stays a Boolean through the steps that read it (a leaf of its own:
\* Zenon reasons about Booleans, the SMT solver about everything else).
LEMMA TickBoolean ==
    ASSUME TypeOK, PumpTick \/ SelectTick \/ BurstTick
    PROVE  tick' \in BOOLEAN
  BY Zenon DEF TypeOK, PumpTick, SelectTick, BurstTick

\* The initial state satisfies the invariant.
THEOREM InitIInv == Init => IInv
<1> SUFFICES ASSUME Init
             PROVE  IInv
  OBVIOUS
<1>1. TypeOK
  <2>1. sendCh \in Seq({"output", "reply"}) /\ Len(sendCh) <= SendCap
    BY DEF Init
  <2>2. handler \in [Handlers -> {"idle", "working", "replying", "finished"}]
    BY DEF Init
  <2>3. /\ backoff \in MinBackoff .. MaxBackoff /\ burst \in 0 .. Burst
        /\ overtaken \in Nat /\ leftover \in Nat
    BY DEF Init
  <2>4. /\ closed \in BOOLEAN /\ closeSent \in BOOLEAN /\ tick \in BOOLEAN
        /\ done \in BOOLEAN /\ owed \in BOOLEAN
    BY Zenon DEF Init
  <2>5. /\ link \in Links /\ connRef \in {"nil", "earlier", "current"}
        /\ net \in {"up", "stuck", "dead"} /\ pongCh \in Pongs
        /\ reader \in {"off", "read", "push", "replace", "force"}
        /\ writer \in {"off", "pong", "tick", "select", "burstTick", "burstTake"}
        /\ writing \in Frames /\ closer \in {"idle", "done", "closed"}
    BY DEF Init, Links, Pongs, Frames
  <2> QED
    BY <2>1, <2>2, <2>3, <2>4, <2>5 DEF TypeOK
<1> USE DEF Init
<1>2. Phases /\ Places
  BY DEF Phases, Places
<1>3. FreshPong
  BY DEF FreshPong, PongSendNeverBlocks, LatestPongKept, NoUnsolicitedPong
<1>4. Leftover
  BY DEF Leftover, NoLeftoverReplayed
<1>5. Overtaking
  BY DEF Overtaking, PongOvertakingBounded
<1> QED
  BY <1>1, <1>2, <1>3, <1>4, <1>5 DEF IInv

\* Every step of every goroutine preserves it.
THEOREM StepIInv == IInv /\ [Next]_vars => IInv'
<1> SUFFICES ASSUME IInv, [Next]_vars
             PROVE  IInv'
  OBVIOUS
<1> USE DEF IInv, TypeOK, Phases, Places, FreshPong, Leftover, Overtaking,
            PongSendNeverBlocks, LatestPongKept, NoUnsolicitedPong,
            NoLeftoverReplayed, PongOvertakingBounded,
            Links, Pongs, Frames, PongFrames, DataFrames
<1>1. CASE DialFails
  BY <1>1 DEF DialFails
<1>2. CASE BackoffElapses
  BY <1>2 DEF BackoffElapses, NextBackoff
<1>3. CASE BackoffInterrupted
  BY <1>3 DEF BackoffInterrupted
<1>4. CASE DialSucceeds
  BY <1>4 DEF DialSucceeds
<1>5. CASE StoreConn
  BY <1>5 DEF StoreConn
<1>6. CASE DrainPong
  BY <1>6 DEF DrainPong
<1>7. CASE DrainSend
  BY <1>7 DEF DrainSend, Less
<1>8. CASE DrainEnds
  <2>1. TypeOK'
    BY <1>8 DEF DrainEnds
  <2>2. Phases'
    BY <1>8 DEF DrainEnds
  <2>3. Places'
    BY <1>8 DEF DrainEnds
  <2>4. FreshPong'
    BY <1>8 DEF DrainEnds
  <2>5. Leftover'
    BY <1>8 DEF DrainEnds
  <2>6. Overtaking'
    BY <1>8 DEF DrainEnds
  <2> QED
    BY <2>1, <2>2, <2>3, <2>4, <2>5, <2>6
<1>9. CASE CloseConn
  BY <1>9 DEF CloseConn
<1>10. CASE PumpStopped
  BY <1>10 DEF PumpStopped
<1>11. CASE ReadPing
  BY <1>11 DEF ReadPing
<1>12. CASE ReadFails
  BY <1>12 DEF ReadFails
<1>13. CASE ReadTimesOut
  BY <1>13 DEF ReadTimesOut
<1>14. CASE PushPong
  BY <1>14 DEF PushPong
<1>15. CASE DiscardPong
  BY <1>15 DEF DiscardPong
<1>16. CASE ForcePong
  BY <1>16 DEF ForcePong
<1>17. CASE PumpPong
  BY <1>17 DEF PumpPong, PongFrame
<1>18. CASE PumpTick
  <2>1. TypeOK'
    <3>1. tick' \in BOOLEAN
      BY <1>18, TickBoolean
    <3>2. /\ writing' \in Frames /\ writer' \in {"tick", "select"}
          /\ UNCHANGED <<pumpFrame, burst, pongCh, sendCh, overtaken, leftover>>
      BY <1>18 DEF PumpTick
    <3> QED
      BY <3>1, <3>2
  <2>2. Phases'
    BY <1>18 DEF PumpTick
  <2>3. Places'
    BY <1>18 DEF PumpTick
  <2>4. FreshPong'
    BY <1>18 DEF PumpTick
  <2>5. Leftover'
    BY <1>18 DEF PumpTick
  <2>6. Overtaking'
    BY <1>18 DEF PumpTick
  <2> QED
    BY <2>1, <2>2, <2>3, <2>4, <2>5, <2>6
<1>19. CASE SelectPong
  BY <1>19 DEF SelectPong, PongFrame
<1>20. CASE SelectData
  BY <1>20 DEF SelectData, Less
<1>21. CASE SelectTick
  <2>1. TypeOK'
    <3>1. tick' \in BOOLEAN
      BY <1>21, TickBoolean
    <3>2. /\ writing' \in Frames /\ writer' \in {"select"}
          /\ UNCHANGED <<pumpFrame, burst, pongCh, sendCh, overtaken, leftover>>
      BY <1>21 DEF SelectTick
    <3> QED
      BY <3>1, <3>2
  <2>2. Phases'
    BY <1>21 DEF SelectTick
  <2>3. Places'
    BY <1>21 DEF SelectTick
  <2>4. FreshPong'
    BY <1>21 DEF SelectTick
  <2>5. Leftover'
    BY <1>21 DEF SelectTick
  <2>6. Overtaking'
    BY <1>21 DEF SelectTick
  <2> QED
    BY <2>1, <2>2, <2>3, <2>4, <2>5, <2>6
<1>22. CASE SelectDone
  BY <1>22 DEF SelectDone
<1>23. CASE BurstTick
  <2>1. TypeOK'
    <3>1. tick' \in BOOLEAN
      BY <1>23, TickBoolean
    <3>2. /\ writing' \in Frames /\ writer' \in {"burstTick", "burstTake"}
          /\ UNCHANGED <<pumpFrame, burst, pongCh, sendCh, overtaken, leftover>>
      BY <1>23 DEF BurstTick
    <3> QED
      BY <3>1, <3>2
  <2>2. Phases'
    BY <1>23 DEF BurstTick
  <2>3. Places'
    BY <1>23 DEF BurstTick
  <2>4. FreshPong'
    BY <1>23 DEF BurstTick
  <2>5. Leftover'
    BY <1>23 DEF BurstTick
  <2>6. Overtaking'
    BY <1>23 DEF BurstTick
  <2> QED
    BY <2>1, <2>2, <2>3, <2>4, <2>5, <2>6
<1>24. CASE BurstTake
  <2>1. TypeOK'
    <3>1. CASE TakeData /\ writer' = writer
      BY <1>24, <3>1 DEF BurstTake, Less
    <3>2. CASE sendCh = <<>> /\ TakeNothing /\ writer' = "pong"
      BY <1>24, <3>2 DEF BurstTake
    <3> QED
      BY <1>24, <3>1, <3>2 DEF BurstTake
  <2>2. Phases'
    BY <1>24 DEF BurstTake, Less
  <2>3. Places'
    BY <1>24 DEF BurstTake, Less
  <2>4. FreshPong'
    BY <1>24 DEF BurstTake, Less
  <2>5. Leftover'
    BY <1>24 DEF BurstTake, Less
  <2>6. Overtaking'
    BY <1>24 DEF BurstTake, Less
  <2> QED
    BY <2>1, <2>2, <2>3, <2>4, <2>5, <2>6
<1>25. CASE WriteOk
  <2>1. TypeOK'
    BY <1>25 DEF WriteOk, AfterWrite
  <2>2. Phases'
    BY <1>25 DEF WriteOk, AfterWrite
  <2>3. Places'
    BY <1>25 DEF WriteOk, AfterWrite
  <2>4. FreshPong'
    BY <1>25 DEF WriteOk, AfterWrite
  <2>5. Leftover'
    BY <1>25 DEF WriteOk, AfterWrite
  <2>6. Overtaking'
    <3>1. CASE writer = "pong"
      BY <1>25, <3>1 DEF WriteOk, AfterWrite
    <3>2. CASE writer = "tick"
      BY <1>25, <3>2 DEF WriteOk, AfterWrite
    <3>3. CASE writer = "select"
      BY <1>25, <3>3 DEF WriteOk, AfterWrite
    <3>4. CASE writer = "burstTick"
      BY <1>25, <3>4 DEF WriteOk, AfterWrite
    <3>5. CASE writer = "burstTake"
      BY <1>25, <3>5 DEF WriteOk, AfterWrite
    <3>6. writer # "off"
      BY <1>25 DEF WriteOk
    <3> QED
      BY <3>1, <3>2, <3>3, <3>4, <3>5, <3>6
  <2> QED
    BY <2>1, <2>2, <2>3, <2>4, <2>5, <2>6
<1>26. CASE WriteFails
  BY <1>26 DEF WriteFails
<1>27. CASE TickerFires
  BY <1>27 DEF TickerFires
<1>28. CASE CloseDone
  BY <1>28 DEF CloseDone
<1>29. CASE CloseRef
  BY <1>29 DEF CloseRef
<1>30. CASE NetStalls
  BY <1>30 DEF NetStalls
<1>31. CASE NetBreaks
  BY <1>31 DEF NetBreaks
<1>32. CASE BrainCloses
  BY <1>32 DEF BrainCloses
<1>33. ASSUME NEW h \in Handlers, ReadCommand(h)
      PROVE  IInv'
  BY <1>33 DEF ReadCommand
<1>34. ASSUME NEW h \in Handlers, SendOutput(h)
      PROVE  IInv'
  BY <1>34 DEF SendOutput
<1>35. ASSUME NEW h \in Handlers, WorkEnds(h)
      PROVE  IInv'
  BY <1>35 DEF WorkEnds
<1>36. ASSUME NEW h \in Handlers, SendReply(h)
      PROVE  IInv'
  BY <1>36 DEF SendReply
<1>37. CASE UNCHANGED vars
  BY <1>37 DEF vars
<1> QED
  BY <1>1, <1>2, <1>3, <1>4, <1>5, <1>6, <1>7, <1>8, <1>9, <1>10, <1>11, <1>12,
     <1>13, <1>14, <1>15, <1>16, <1>17, <1>18, <1>19, <1>20, <1>21, <1>22, <1>23,
     <1>24, <1>25, <1>26, <1>27, <1>28, <1>29, <1>30, <1>31, <1>32, <1>33, <1>34,
     <1>35, <1>36, <1>37
     DEF Next, Main, Reader, Answer, Pump, Closer, Network

\* The inductive invariant holds in every behaviour.
THEOREM SpecIInv == Spec => []IInv
  BY InitIInv, StepIInv, PTL DEF Spec

\* Type correctness.
THEOREM TypeCorrect == Spec => []TypeOK
<1>1. IInv => TypeOK
  BY DEF IInv
<1> QED
  BY <1>1, SpecIInv, PTL

\* The read pump is never blocked by sending a pong.
THEOREM PongSend == Spec => []PongSendNeverBlocks
<1>1. IInv => PongSendNeverBlocks
  BY DEF IInv, FreshPong
<1> QED
  BY <1>1, SpecIInv, PTL

\* The answer to the latest ping is not lost while the write pump lives.
THEOREM LatestPong == Spec => []LatestPongKept
<1>1. IInv => LatestPongKept
  BY DEF IInv, FreshPong
<1> QED
  BY <1>1, SpecIInv, PTL

\* No pong is carried over into a session that did not ask for it.
THEOREM UnsolicitedPong == Spec => []NoUnsolicitedPong
<1>1. IInv => NoUnsolicitedPong
  BY DEF IInv, FreshPong
<1> QED
  BY <1>1, SpecIInv, PTL

\* No message an ended session left behind is written to the next connection.
THEOREM LeftoverReplayed == Spec => []NoLeftoverReplayed
<1>1. IInv => NoLeftoverReplayed
  BY DEF IInv, Leftover
<1> QED
  BY <1>1, SpecIInv, PTL

\* Whatever the burst, a waiting pong is overtaken by one message more at most.
THEOREM PongOvertaking == Spec => []PongOvertakingBounded
<1>1. IInv => PongOvertakingBounded
  BY DEF IInv, Overtaking
<1> QED
  BY <1>1, SpecIInv, PTL

\* A write pump lives within its own session only.
THEOREM PumpWithinSession == Spec => []OnePump
<1>1. IInv => OnePump
  BY DEF IInv, Phases, OnePump
<1> QED
  BY <1>1, SpecIInv, PTL
=============================================================================
