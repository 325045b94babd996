------------------------- MODULE ExecCommands_proofs -------------------------
(***************************************************************************)
(* Proofs about ExecCommands, for every set of command ids and of          *)
(* deliveries: the types, that no cancel channel is closed twice, that the *)
(* registry names live handlers only, and what a kill and a disconnect     *)
(* reach.                                                                  *)
(*                                                                         *)
(* None of these is inductive alone.  handleKill closes a channel without  *)
(* looking, so NoDoubleClose needs that a registered channel is open,      *)
(* which needs that a delivery registers once and before any cancellation  *)
(* (Open), and that a delivery is registered under no id but its own       *)
(* (RegistryLive).  DisconnectCancels rests on Killable at the sweep.      *)
(***************************************************************************)
EXTENDS ExecCommands, TLAPS

\* A registered channel is open, and only a delivery that has registered is cancelled.
Open ==
    /\ \A i \in Ids : running[i] # None => running[i] \notin cancelled
    /\ \A d \in cancelled : exec[d] \notin {"unsent", "spawned"}

IInv == TypeOK /\ NoDoubleClose /\ RegistryLive /\ Open /\ Killable /\ DisconnectCancels

-----------------------------------------------------------------------------
USE NoneAssumption, OutputsAssumption
USE DEF Sending, Registered, Terminal, Goes, Queues, QueuesOrGivesUp, Unregister, Known,
        Streams, cancelAllRunning

\* The initial state satisfies the invariant.
THEOREM InitIInv == Init => IInv
<1> SUFFICES ASSUME Init
             PROVE  IInv
  OBVIOUS
<1>1. /\ session \in {"serving", "ended", "offline"}
      /\ exec \in [Deliveries -> {"unsent", "spawned", "gone"} \union Registered]
      /\ tool \in [Deliveries -> {"none", "running", "returned"}]
      /\ running \in [Ids -> Deliveries \union {None}]
      /\ cancelled \subseteq Deliveries /\ past \subseteq Deliveries /\ late \subseteq Deliveries
      /\ idOf \in [Deliveries -> Ids]
  BY DEF Init
<1>2. sent \in [Deliveries -> Seq({"started", "output"} \union Terminal)]
  BY DEF Init
<1>3. panicked \in BOOLEAN /\ done \in BOOLEAN /\ closing \in BOOLEAN
  BY Zenon DEF Init
<1>4. TypeOK
  BY <1>1, <1>2, <1>3 DEF TypeOK
<1>5. NoDoubleClose
  BY Zenon DEF Init, NoDoubleClose
<1>6. RegistryLive /\ Open
  BY DEF Init, RegistryLive, Open
<1>7. Killable /\ DisconnectCancels
  BY DEF Init, Killable, DisconnectCancels
<1> QED
  BY <1>4, <1>5, <1>6, <1>7 DEF IInv

\* Queuing a message for a delivery keeps the transcripts well typed.
LEMMA QueuesTyped ==
    ASSUME TypeOK, NEW d \in Deliveries,
           NEW what \in {"started", "output"} \union Terminal,
           QueuesOrGivesUp(d, what)
    PROVE  sent' \in [Deliveries -> Seq({"started", "output"} \union Terminal)]
<1> DEFINE Messages == {"started", "output"} \union Terminal
<1>1. sent \in [Deliveries -> Seq(Messages)]
  BY DEF TypeOK
<1>2. CASE Queues(d, what)
  <2>1. sent[d] \in Seq(Messages)
    BY <1>1
  <2>2. Append(sent[d], what) \in Seq(Messages)
    BY <2>1
  <2> QED
    BY <1>1, <1>2, <2>2
<1>3. CASE sent' = sent
  BY <1>1, <1>3
<1> QED
  BY <1>2, <1>3, Zenon DEF QueuesOrGivesUp

\* Every step keeps the types.
LEMMA StepTypeOK == TypeOK /\ [Next]_vars => TypeOK'
<1> SUFFICES ASSUME TypeOK, [Next]_vars
             PROVE  TypeOK'
  OBVIOUS
<1> USE DEF TypeOK
<1>1. ASSUME NEW d \in Deliveries, Deliver(d)
      PROVE  TypeOK'
  BY <1>1 DEF Deliver
<1>2. ASSUME NEW d \in Deliveries, Register(d)
      PROVE  TypeOK'
  BY <1>2 DEF Register
<1>3. ASSUME NEW d \in Deliveries, Start(d)
      PROVE  TypeOK'
  <2>1. QueuesOrGivesUp(d, "started")
    BY <1>3, Zenon DEF Start
  <2>2. sent' \in [Deliveries -> Seq({"started", "output"} \union Terminal)]
    BY <2>1, QueuesTyped
  <2>3. UNCHANGED done
    BY <1>3, Zenon DEF Start
  <2> QED
    BY <1>3, <2>2, <2>3 DEF Start
<1>4. ASSUME NEW d \in Deliveries, ReportResult(d)
      PROVE  TypeOK'
  <2>1. QueuesOrGivesUp(d, "result")
    BY <1>4, Zenon DEF ReportResult
  <2>2. sent' \in [Deliveries -> Seq({"started", "output"} \union Terminal)]
    BY <2>1, QueuesTyped
  <2>3. UNCHANGED done
    BY <1>4, Zenon DEF ReportResult
  <2> QED
    BY <1>4, <2>2, <2>3 DEF ReportResult
<1>5. ASSUME NEW d \in Deliveries, ReportKilled(d)
      PROVE  TypeOK'
  <2>1. QueuesOrGivesUp(d, "killed")
    BY <1>5, Zenon DEF ReportKilled
  <2>2. sent' \in [Deliveries -> Seq({"started", "output"} \union Terminal)]
    BY <2>1, QueuesTyped
  <2>3. UNCHANGED done
    BY <1>5, Zenon DEF ReportKilled
  <2> QED
    BY <1>5, <2>2, <2>3 DEF ReportKilled
<1>6. ASSUME NEW d \in Deliveries, Leave(d)
      PROVE  TypeOK'
  BY <1>6 DEF Leave
<1>7. ASSUME NEW d \in Deliveries, Output(d)
      PROVE  TypeOK'
  <2>1. QueuesOrGivesUp(d, "output")
    BY <1>7, Zenon DEF Output, QueuesOrGivesUp
  <2>2. sent' \in [Deliveries -> Seq({"started", "output"} \union Terminal)]
    BY <2>1, QueuesTyped
  <2>3. UNCHANGED done
    BY <1>7, Zenon DEF Output
  <2> QED
    BY <1>7, <2>2, <2>3 DEF Output
<1>8. ASSUME NEW d \in Deliveries, ToolReturns(d)
      PROVE  TypeOK'
  BY <1>8 DEF ToolReturns
<1>9. ASSUME NEW i \in Ids, Kill(i)
      PROVE  TypeOK'
  <2>1. panicked' \in BOOLEAN
    BY <1>9, Zenon DEF Kill
  <2>2. running[i] \in Deliveries
    BY <1>9 DEF Kill
  <2>3. /\ cancelled' = cancelled \union {running[i]}
        /\ running' = [running EXCEPT ![i] = None]
        /\ UNCHANGED <<idOf, session, exec, tool, done, closing, sent, past, late>>
    BY <1>9, Zenon DEF Kill
  <2>4. done' \in BOOLEAN /\ closing' \in BOOLEAN
    BY <2>3, Zenon
  <2>5. /\ cancelled' \subseteq Deliveries
        /\ running' \in [Ids -> Deliveries \union {None}]
    BY <2>2, <2>3
  <2>6. UNCHANGED <<idOf, session, exec, tool, sent, past, late>>
    BY <2>3, Zenon
  <2> QED
    BY <2>1, <2>4, <2>5, <2>6
<1>10. CASE SessionEnds
  BY <1>10 DEF SessionEnds
<1>11. CASE Sweep
  BY <1>11 DEF Sweep
<1>12. CASE Reconnect
  BY <1>12 DEF Reconnect
<1>13. CASE Close
  <2>1. closing' \in BOOLEAN /\ done' \in BOOLEAN /\ panicked' \in BOOLEAN
    BY <1>13, Zenon DEF Close
  <2>2. UNCHANGED <<idOf, session, exec, tool, running, cancelled, sent, past, late>>
    BY <1>13, Zenon DEF Close
  <2> QED
    BY <2>1, <2>2
<1>14. CASE CloseSweep
  <2>1. closing' \in BOOLEAN /\ done' \in BOOLEAN /\ panicked' \in BOOLEAN
    BY <1>14, Zenon DEF CloseSweep
  <2>2. /\ cancelled' \subseteq Deliveries
        /\ running' \in [Ids -> Deliveries \union {None}]
    BY <1>14 DEF CloseSweep
  <2>3. UNCHANGED <<idOf, session, exec, tool, sent, past, late>>
    BY <1>14, Zenon DEF CloseSweep
  <2> QED
    BY <2>1, <2>2, <2>3
<1>15. CASE UNCHANGED vars
  BY <1>15 DEF vars
<1>16. ASSUME NEW d \in Deliveries, TakeResult(d) \/ TakeCancel(d)
       PROVE  TypeOK'
  BY <1>16 DEF TakeResult, TakeCancel
<1>17. ASSUME NEW d \in Deliveries, Handle(d) \/ Send(d)
       PROVE  TypeOK'
  BY <1>2, <1>3, <1>4, <1>5, <1>6, <1>16, <1>17, Zenon DEF Handle, Send
<1> QED
  BY <1>1, <1>7, <1>8, <1>9, <1>10, <1>11, <1>12, <1>13, <1>14, <1>15, <1>17, Zenon
  DEF Next

\* Every step preserves that registered channels are open and belong to live handlers.
LEMMA StepRegistry ==
    ASSUME TypeOK, RegistryLive, Open, NoDoubleClose, [Next]_vars
    PROVE  RegistryLive' /\ Open' /\ NoDoubleClose'
<1> USE DEF TypeOK, RegistryLive, Open, NoDoubleClose
<1>1. ASSUME NEW d \in Deliveries, Deliver(d)
      PROVE  RegistryLive' /\ Open' /\ NoDoubleClose'
  BY <1>1 DEF Deliver
<1>2. ASSUME NEW d \in Deliveries, Register(d)
      PROVE  RegistryLive' /\ Open' /\ NoDoubleClose'
  BY <1>2 DEF Register
<1>3. ASSUME NEW d \in Deliveries, Start(d)
      PROVE  RegistryLive' /\ Open' /\ NoDoubleClose'
  BY <1>3 DEF Start
<1>4. ASSUME NEW d \in Deliveries, ReportResult(d)
      PROVE  RegistryLive' /\ Open' /\ NoDoubleClose'
  BY <1>4 DEF ReportResult
<1>5. ASSUME NEW d \in Deliveries, ReportKilled(d)
      PROVE  RegistryLive' /\ Open' /\ NoDoubleClose'
  BY <1>5 DEF ReportKilled
<1>6. ASSUME NEW d \in Deliveries, Leave(d)
      PROVE  RegistryLive' /\ Open' /\ NoDoubleClose'
  BY <1>6 DEF Leave
<1>7. ASSUME NEW d \in Deliveries, Output(d)
      PROVE  RegistryLive' /\ Open' /\ NoDoubleClose'
  BY <1>7 DEF Output
<1>8. ASSUME NEW d \in Deliveries, ToolReturns(d)
      PROVE  RegistryLive' /\ Open' /\ NoDoubleClose'
  BY <1>8 DEF ToolReturns
<1>9. ASSUME NEW i \in Ids, Kill(i)
      PROVE  RegistryLive' /\ Open' /\ NoDoubleClose'
  <2>1. running[i] \in Deliveries /\ running[i] \notin cancelled
    BY <1>9 DEF Kill
  <2>2. panicked' = (panicked \/ running[i] \in cancelled)
    BY <1>9, Zenon DEF Kill
  <2>3. ~panicked'
    BY <2>1, <2>2, Zenon
  <2>4. /\ cancelled' = cancelled \union {running[i]}
        /\ running' = [running EXCEPT ![i] = None]
        /\ UNCHANGED <<idOf, exec>>
    BY <1>9, Zenon DEF Kill
  <2>5. RegistryLive'
    BY <2>4
  <2>6. \A j \in Ids \ {i} : running[j] # running[i]
    BY <2>1
  <2>7. \A j \in Ids : running'[j] # None => running'[j] \notin cancelled'
    BY <2>1, <2>4, <2>6
  <2>8. \A d \in cancelled' : exec'[d] \notin {"unsent", "spawned"}
    BY <2>1, <2>4
  <2> QED
    BY <2>3, <2>5, <2>7, <2>8
<1>10. CASE SessionEnds
  BY <1>10 DEF SessionEnds
<1>11. CASE Sweep
  <2>1. NoDoubleClose'
    BY <1>11, Zenon DEF Sweep
  <2>2. RegistryLive'
    BY <1>11 DEF Sweep
  <2>3. /\ \A i \in Ids : running'[i] = None
        /\ \A d \in cancelled' : d \in cancelled \/ \E i \in Ids : running[i] = d /\ d # None
        /\ exec' = exec
    BY <1>11 DEF Sweep
  <2>4. \A i \in Ids : running'[i] # None => running'[i] \notin cancelled'
    BY <2>3
  <2>5. ASSUME NEW d \in cancelled'
        PROVE  exec'[d] \notin {"unsent", "spawned"}
    <3>1. CASE d \in cancelled
      BY <2>3, <3>1
    <3>2. ASSUME NEW i \in Ids, running[i] = d, d # None
          PROVE  exec'[d] \notin {"unsent", "spawned"}
      BY <2>3, <3>2
    <3> QED
      BY <2>3, <3>1, <3>2
  <2> QED
    BY <2>1, <2>2, <2>4, <2>5
<1>12. CASE Reconnect
  BY <1>12 DEF Reconnect
<1>13. CASE Close
  BY <1>13 DEF Close
<1>14. CASE CloseSweep
  <2>1. NoDoubleClose'
    BY <1>14, Zenon DEF CloseSweep
  <2>2. RegistryLive'
    BY <1>14 DEF CloseSweep
  <2>3. /\ \A i \in Ids : running'[i] = None
        /\ \A d \in cancelled' : d \in cancelled \/ \E i \in Ids : running[i] = d /\ d # None
        /\ exec' = exec
    BY <1>14 DEF CloseSweep
  <2>4. \A i \in Ids : running'[i] # None => running'[i] \notin cancelled'
    BY <2>3
  <2>5. ASSUME NEW d \in cancelled'
        PROVE  exec'[d] \notin {"unsent", "spawned"}
    <3>1. CASE d \in cancelled
      BY <2>3, <3>1
    <3>2. ASSUME NEW i \in Ids, running[i] = d, d # None
          PROVE  exec'[d] \notin {"unsent", "spawned"}
      BY <2>3, <3>2
    <3> QED
      BY <2>3, <3>1, <3>2
  <2> QED
    BY <2>1, <2>2, <2>4, <2>5
<1>15. CASE UNCHANGED vars
  BY <1>15 DEF vars
<1>16. ASSUME NEW d \in Deliveries, TakeResult(d) \/ TakeCancel(d)
       PROVE  RegistryLive' /\ Open' /\ NoDoubleClose'
  <2>1. UNCHANGED <<idOf, running, cancelled>>
    BY <1>16 DEF TakeResult, TakeCancel
  <2>2. \A e \in Deliveries : exec'[e] = exec[e] \/ exec'[e] \in {"completing", "aborting"}
    BY <1>16 DEF TakeResult, TakeCancel
  <2>3. RegistryLive' /\ Open'
    <3>1. ASSUME NEW i \in Ids, running'[i] # None
          PROVE  /\ idOf'[running'[i]] = i /\ exec'[running'[i]] \in Registered
                 /\ running'[i] \notin cancelled'
      <4>1. running'[i] = running[i] /\ running[i] \in Deliveries
        BY <2>1, <3>1
      <4> QED
        BY <2>1, <2>2, <3>1, <4>1
    <3>2. ASSUME NEW e \in cancelled'
          PROVE  exec'[e] \notin {"unsent", "spawned"}
      <4>1. e \in Deliveries /\ exec[e] \notin {"unsent", "spawned"}
        BY <2>1, <3>2
      <4> QED
        BY <2>2, <4>1
    <3> QED
      BY <3>1, <3>2
  <2>4. NoDoubleClose'
    BY <1>16, Zenon DEF TakeResult, TakeCancel
  <2> QED
    BY <2>3, <2>4
<1>17. ASSUME NEW d \in Deliveries, Handle(d) \/ Send(d)
       PROVE  RegistryLive' /\ Open' /\ NoDoubleClose'
  BY <1>2, <1>3, <1>4, <1>5, <1>6, <1>16, <1>17, Zenon DEF Handle, Send
<1> QED
  BY <1>1, <1>7, <1>8, <1>9, <1>10, <1>11, <1>12, <1>13, <1>14, <1>15, <1>17, Zenon
  DEF Next

\* A rival stays one: no handler goes back to before its registration.
LEMMA RivalStays ==
    ASSUME TypeOK, [Next]_vars, NEW d \in Deliveries, Rival(d)
    PROVE  Rival(d)'
<1> USE DEF TypeOK, Rival
<1>1. PICK e \in Deliveries \ {d} : idOf[e] = idOf[d] /\ exec[e] \notin {"unsent", "spawned"}
  OBVIOUS
<1>2. idOf' = idOf
  BY DEF Next, Handle, Send, Deliver, Register, Start, TakeResult, TakeCancel,
         ReportResult, ReportKilled, Leave, Output, ToolReturns, Kill, SessionEnds, Sweep, Reconnect, Close, CloseSweep, vars
<1>3. exec'[e] \notin {"unsent", "spawned"}
  <2>1. ASSUME NEW f \in Deliveries, Deliver(f) \/ Handle(f) \/ Send(f)
        PROVE  exec'[e] \notin {"unsent", "spawned"}
    BY <1>1, <2>1 DEF Deliver, Handle, Send, Register, Start, TakeResult, TakeCancel,
                      ReportResult, ReportKilled, Leave
  <2>2. ASSUME UNCHANGED exec
        PROVE  exec'[e] \notin {"unsent", "spawned"}
    BY <1>1, <2>2
  <2> QED
    BY <2>1, <2>2 DEF Next, Output, ToolReturns, Kill, SessionEnds, Sweep, Reconnect,
                      Close, CloseSweep, vars
<1> QED
  BY <1>1, <1>2, <1>3

\* Every step preserves what a kill can reach.
LEMMA StepKillable ==
    ASSUME TypeOK, RegistryLive, Killable, [Next]_vars
    PROVE  Killable'
<1> SUFFICES ASSUME NEW d \in Deliveries, exec'[d] \in Registered, d \notin cancelled',
                    ~Rival(d)'
             PROVE  running'[idOf'[d]] = d
  BY DEF Killable, Rival
<1> USE DEF TypeOK, RegistryLive, Killable
<1>1. ~Rival(d)
  BY RivalStays
<1>2. ASSUME NEW e \in Deliveries, Deliver(e)
      PROVE  running'[idOf'[d]] = d
  BY <1>1, <1>2 DEF Deliver
<1>3. ASSUME NEW e \in Deliveries, Register(e)
      PROVE  running'[idOf'[d]] = d
  <2>1. CASE e = d
    BY <1>3, <2>1 DEF Register
  <2>2. CASE e # d /\ idOf[e] = idOf[d]
    BY <1>3, <2>2 DEF Register, Rival
  <2>3. CASE e # d /\ idOf[e] # idOf[d]
    BY <1>1, <1>3, <2>3 DEF Register
  <2> QED
    BY <2>1, <2>2, <2>3
<1>4. ASSUME NEW e \in Deliveries, Send(e) \/ TakeResult(e) \/ TakeCancel(e)
      PROVE  running'[idOf'[d]] = d
  BY <1>1, <1>4 DEF Send, Start, ReportResult, ReportKilled, TakeResult, TakeCancel
<1>5. ASSUME NEW e \in Deliveries, Leave(e)
      PROVE  running'[idOf'[d]] = d
  <2>1. e # d
    BY <1>5 DEF Leave
  <2>2. idOf[e] # idOf[d]
    BY <1>1, <1>5, <2>1 DEF Leave, Rival
  <2> QED
    BY <1>1, <1>5, <2>1, <2>2 DEF Leave
<1>6. ASSUME NEW e \in Deliveries, Output(e) \/ ToolReturns(e)
      PROVE  running'[idOf'[d]] = d
  BY <1>1, <1>6 DEF Output, ToolReturns
<1>7. ASSUME NEW i \in Ids, Kill(i)
      PROVE  running'[idOf'[d]] = d
  <2>1. /\ cancelled' = cancelled \union {running[i]}
        /\ running' = [running EXCEPT ![i] = None]
        /\ UNCHANGED <<idOf, exec>>
    BY <1>7, Zenon DEF Kill
  <2> QED
    BY <1>1, <2>1
<1>8. CASE SessionEnds
  BY <1>1, <1>8 DEF SessionEnds
<1>9. CASE Sweep
  BY <1>1, <1>9 DEF Sweep
<1>10. CASE Reconnect
  BY <1>1, <1>10 DEF Reconnect
<1>11. CASE Close
  BY <1>1, <1>11 DEF Close
<1>12. CASE CloseSweep
  BY <1>1, <1>12 DEF CloseSweep
<1>13. CASE UNCHANGED vars
  BY <1>1, <1>13 DEF vars
<1> QED
  BY <1>2, <1>3, <1>4, <1>5, <1>6, <1>7, <1>8, <1>9, <1>10, <1>11, <1>12, <1>13
     DEF Next, Handle

\* Every step preserves that a disconnect cancels what had registered.
LEMMA StepDisconnect ==
    ASSUME TypeOK, RegistryLive, Killable, DisconnectCancels, [Next]_vars
    PROVE  DisconnectCancels'
<1> SUFFICES ASSUME NEW d \in Deliveries, d \in past' \ late',
                    exec'[d] \in Registered, ~Rival(d)'
             PROVE  d \in cancelled'
  <2>1. past' \subseteq Deliveries
    BY StepTypeOK DEF TypeOK
  <2> QED
    BY <2>1 DEF DisconnectCancels, Rival
<1> USE DEF TypeOK, RegistryLive, Killable, DisconnectCancels
<1>1. ~Rival(d)
  BY RivalStays
<1>2. ASSUME NEW e \in Deliveries, Deliver(e) \/ Send(e)
      PROVE  d \in cancelled'
  BY <1>1, <1>2 DEF Deliver, Send, Start, ReportResult, ReportKilled
<1>3. ASSUME NEW e \in Deliveries, Register(e)
      PROVE  d \in cancelled'
  BY <1>1, <1>3 DEF Register
<1>4. ASSUME NEW e \in Deliveries, TakeResult(e) \/ TakeCancel(e) \/ Leave(e)
      PROVE  d \in cancelled'
  BY <1>1, <1>4 DEF TakeResult, TakeCancel, Leave
<1>5. ASSUME NEW e \in Deliveries, Output(e) \/ ToolReturns(e)
      PROVE  d \in cancelled'
  BY <1>1, <1>5 DEF Output, ToolReturns
<1>6. ASSUME NEW i \in Ids, Kill(i)
      PROVE  d \in cancelled'
  <2>1. cancelled \subseteq cancelled' /\ UNCHANGED <<exec, past, late>>
    BY <1>6 DEF Kill
  <2> QED
    BY <1>1, <2>1
<1>7. CASE SessionEnds
  BY <1>1, <1>7 DEF SessionEnds
<1>8. CASE Sweep
  <2>1. running[idOf[d]] = d \/ d \in cancelled
    BY <1>1, <1>8 DEF Sweep
  <2> QED
    BY <1>8, <2>1 DEF Sweep
<1>9. CASE Reconnect
  BY <1>1, <1>9 DEF Reconnect
<1>10. CASE Close
  BY <1>1, <1>10 DEF Close
<1>11. CASE CloseSweep
  <2>1. cancelled \subseteq cancelled' /\ UNCHANGED <<exec, past, late>>
    BY <1>11 DEF CloseSweep
  <2> QED
    BY <1>1, <2>1
<1>12. CASE UNCHANGED vars
  BY <1>1, <1>12 DEF vars
<1> QED
  BY <1>2, <1>3, <1>4, <1>5, <1>6, <1>7, <1>8, <1>9, <1>10, <1>11, <1>12
     DEF Next, Handle

-----------------------------------------------------------------------------
\* Every step of handlers, tools, kills, sessions and Close preserves the invariant.
THEOREM StepIInv == IInv /\ [Next]_vars => IInv'
<1> SUFFICES ASSUME IInv, [Next]_vars
             PROVE  IInv'
  OBVIOUS
<1>1. TypeOK'
  BY StepTypeOK DEF IInv
<1>2. RegistryLive' /\ Open' /\ NoDoubleClose'
  BY StepRegistry DEF IInv
<1>3. Killable'
  BY StepKillable DEF IInv
<1>4. DisconnectCancels'
  BY StepDisconnect DEF IInv
<1> QED
  BY <1>1, <1>2, <1>3, <1>4 DEF IInv

\* The inductive invariant holds in every behaviour.
THEOREM SpecIInv == Spec => []IInv
  BY InitIInv, StepIInv, PTL DEF Spec

\* Type correctness.
THEOREM TypeCorrect == Spec => []TypeOK
<1>1. IInv => TypeOK
  BY DEF IInv
<1> QED
  BY <1>1, SpecIInv, PTL

\* No kill, disconnect or Close closes a channel twice.
THEOREM DoubleClose == Spec => []NoDoubleClose
<1>1. IInv => NoDoubleClose
  BY DEF IInv
<1> QED
  BY <1>1, SpecIInv, PTL

\* The registry names live handlers only.
THEOREM Registry == Spec => []RegistryLive
<1>1. IInv => RegistryLive
  BY DEF IInv
<1> QED
  BY <1>1, SpecIInv, PTL

\* A started command without a rival for its id can be killed until it is cancelled.
THEOREM KillReaches == Spec => []Killable
<1>1. IInv => Killable
  BY DEF IInv
<1> QED
  BY <1>1, SpecIInv, PTL

\* A disconnect cancels every command that had registered when it was swept.
THEOREM DisconnectReaches == Spec => []DisconnectCancels
<1>1. IInv => DisconnectCancels
  BY DEF IInv
<1> QED
  BY <1>1, SpecIInv, PTL

-----------------------------------------------------------------------------
\* A tool runs only for a handler that has started it and not taken its result; a
\* handler aborts only what was cancelled.
ToolFits ==
    \A d \in Deliveries :
        /\ tool[d] = "running" => exec[d] \in {"waiting", "aborting", "leaving", "gone"}
        /\ exec[d] = "completing" => tool[d] = "returned"
        /\ exec[d] = "aborting" => d \in cancelled

\* It stays so: only Start launches a tool, and no handler goes back.
LEMMA StepToolFits ==
    ASSUME TypeOK, ToolFits, [Next]_vars
    PROVE  ToolFits'
<1> USE DEF TypeOK, ToolFits
<1>1. ASSUME NEW d \in Deliveries, Deliver(d) \/ Handle(d)
      PROVE  ToolFits'
  BY <1>1 DEF Deliver, Handle, Register, TakeResult, TakeCancel, Leave
<1>2. ASSUME NEW d \in Deliveries, Send(d)
      PROVE  ToolFits'
  BY <1>2 DEF Send, Start, ReportResult, ReportKilled
<1>3. ASSUME NEW d \in Deliveries, Output(d) \/ ToolReturns(d)
      PROVE  ToolFits'
  BY <1>3 DEF Output, ToolReturns
<1>4. ASSUME \/ \E i \in Ids : Kill(i)
             \/ SessionEnds \/ Sweep \/ Reconnect \/ Close \/ CloseSweep
             \/ UNCHANGED vars
      PROVE  ToolFits'
  <2>1. UNCHANGED <<exec, tool>> /\ cancelled \subseteq cancelled'
    BY <1>4 DEF Kill, SessionEnds, Sweep, Reconnect, Close, CloseSweep, vars
  <2> QED
    BY <2>1
<1> QED
  BY <1>1, <1>2, <1>3, <1>4 DEF Next

\* A step of one delivery that keeps Phase moves no command of the protocol.
LEMMA SamePhases ==
    ASSUME \A d \in Deliveries : Phase(d)' = Phase(d)
    PROVE  [d \in Deliveries |-> Phase(d)]' = [d \in Deliveries |-> Phase(d)]
  OBVIOUS

\* A step that changes the phase of one delivery alone moves that command.
LEMMA OnePhaseMoves ==
    ASSUME NEW d \in Deliveries, NEW from, NEW to,
           Phase(d) = from, Phase(d)' = to,
           \A e \in Deliveries \ {d} : Phase(e)' = Phase(e)
    PROVE  Protocol!Moves(d, from, to)
  BY DEF Protocol!Moves

\* Queuing a message, or giving up while shutting down, is telling the brain.
LEMMA QueuingTells ==
    ASSUME NEW d \in Deliveries, NEW what, QueuesOrGivesUp(d, what)
    PROVE  Protocol!Tells(d, what)
  BY DEF Protocol!Tells

\* Every step of the daemon is a step of the protocol or invisible to it.
LEMMA StepProtocol ==
    ASSUME TypeOK, ToolFits, [Next]_vars
    PROVE  [Protocol!Next]_Protocol!vars
<1> DEFINE phase == [d \in Deliveries |-> Phase(d)]
           Unseen == phase' = phase /\ UNCHANGED <<cancelled, done, sent>>
<1>0. Unseen => [Protocol!Next]_Protocol!vars
  BY DEF Protocol!vars
<1>1. ASSUME NEW d \in Deliveries, Deliver(d) \/ Handle(d)
      PROVE  Unseen
  <2>1. \A e \in Deliveries : Phase(e)' = Phase(e)
    BY <1>1 DEF Deliver, Handle, Register, TakeResult, TakeCancel, Leave, Phase, TypeOK
  <2>2. UNCHANGED <<cancelled, done, sent>>
    BY <1>1 DEF Deliver, Handle, Register, TakeResult, TakeCancel, Leave
  <2> QED
    BY <2>1, <2>2
<1>2. ASSUME NEW d \in Deliveries, Start(d)
      PROVE  Protocol!Start(d)
  <2>1. /\ Phase(d) = "pending" /\ Phase(d)' = "running"
        /\ \A e \in Deliveries \ {d} : Phase(e)' = Phase(e)
    BY <1>2 DEF Start, Phase, TypeOK
  <2>2. QueuesOrGivesUp(d, "started") /\ UNCHANGED <<cancelled, done>>
    BY <1>2, Zenon DEF Start
  <2> QED
    BY <2>1, <2>2, OnePhaseMoves, QueuingTells DEF Protocol!Start
<1>3. ASSUME NEW d \in Deliveries, Output(d)
      PROVE  Protocol!Stream(d)
  <2>1. Phase(d) \in {"running", "killed"} /\ \A e \in Deliveries : Phase(e)' = Phase(e)
    BY <1>3 DEF Output, Phase, TypeOK, ToolFits
  <2>2. QueuesOrGivesUp(d, "output") /\ UNCHANGED <<cancelled, done>>
    BY <1>3, Zenon DEF Output, QueuesOrGivesUp
  <2>3. Protocol!Tells(d, "output")
    BY <2>2, QueuingTells
  <2> QED
    BY <2>1, <2>2, <2>3 DEF Protocol!Stream
<1>4. ASSUME NEW d \in Deliveries, ToolReturns(d)
      PROVE  Unseen \/ Protocol!FallSilent(d)
  <2>1. UNCHANGED <<cancelled, done, sent>>
    BY <1>4 DEF ToolReturns
  <2>2. CASE exec[d] \in {"waiting", "aborting"}
    <3>1. \A e \in Deliveries : Phase(e)' = Phase(e)
      BY <1>4, <2>2 DEF ToolReturns, Phase, TypeOK
    <3> QED
      BY <2>1, <3>1
  <2>3. CASE exec[d] \in {"leaving", "gone"}
    <3>1. /\ Phase(d) = "killed" /\ Phase(d)' = "closed"
          /\ \A e \in Deliveries \ {d} : Phase(e)' = Phase(e)
      BY <1>4, <2>3 DEF ToolReturns, Phase, TypeOK
    <3> QED
      BY <2>1, <3>1, OnePhaseMoves DEF Protocol!FallSilent
  <2> QED
    BY <1>4, <2>2, <2>3 DEF ToolReturns, ToolFits
<1>5. ASSUME NEW d \in Deliveries, ReportResult(d)
      PROVE  Protocol!Finish(d)
  <2>1. /\ Phase(d) = "running" /\ Phase(d)' = "closed"
        /\ \A e \in Deliveries \ {d} : Phase(e)' = Phase(e)
    BY <1>5 DEF ReportResult, Phase, TypeOK, ToolFits
  <2>2. QueuesOrGivesUp(d, "result") /\ UNCHANGED <<cancelled, done>>
    BY <1>5, Zenon DEF ReportResult
  <2> QED
    BY <2>1, <2>2, OnePhaseMoves, QueuingTells DEF Protocol!Finish
<1>6. ASSUME NEW d \in Deliveries, ReportKilled(d)
      PROVE  Protocol!Abandon(d)
  <2>1. /\ Phase(d) = "running" /\ Phase(d)' \in {"killed", "closed"}
        /\ \A e \in Deliveries \ {d} : Phase(e)' = Phase(e)
    BY <1>6 DEF ReportKilled, Phase, TypeOK
  <2>2. QueuesOrGivesUp(d, "killed") /\ UNCHANGED <<cancelled, done>>
    BY <1>6, Zenon DEF ReportKilled
  <2>3. d \in cancelled
    BY <1>6 DEF ReportKilled, ToolFits
  <2> QED
    BY <2>1, <2>2, <2>3, OnePhaseMoves, QueuingTells DEF Protocol!Abandon
<1>7. ASSUME NEW C \in SUBSET Deliveries, cancelled' = cancelled \union C,
             UNCHANGED <<exec, tool, done, sent>>
      PROVE  Protocol!AskToStop(C)
  <2>1. \A e \in Deliveries : Phase(e)' = Phase(e)
    BY <1>7 DEF Phase
  <2> QED
    BY <1>7, <2>1 DEF Protocol!AskToStop
<1>8. ASSUME NEW i \in Ids, Kill(i)
      PROVE  \E C \in SUBSET Deliveries : Protocol!AskToStop(C)
  <2>1. {running[i]} \in SUBSET Deliveries
    BY <1>8 DEF Kill, TypeOK
  <2>2. cancelled' = cancelled \union {running[i]} /\ UNCHANGED <<exec, tool, done, sent>>
    BY <1>8, Zenon DEF Kill
  <2> QED
    BY <2>1, <2>2, <1>7
<1>9. CASE Sweep \/ CloseSweep
  <2> DEFINE C == {running[i] : i \in Ids} \ {None}
  <2>1. C \in SUBSET Deliveries
    BY DEF TypeOK
  <2>2. cancelled' = cancelled \union C /\ UNCHANGED <<exec, tool, done, sent>>
    BY <1>9, Zenon DEF Sweep, CloseSweep
  <2> QED
    BY <2>1, <2>2, <1>7 DEF Protocol!Next
<1>10. CASE Close
  <2>1. \A e \in Deliveries : Phase(e)' = Phase(e)
    BY <1>10 DEF Close, Phase
  <2> QED
    BY <1>10, <2>1 DEF Close, Protocol!ShutDown, Protocol!Next
<1>11. CASE SessionEnds \/ Reconnect \/ UNCHANGED vars
  <2>1. UNCHANGED <<exec, tool, cancelled, done, sent>>
    BY <1>11 DEF SessionEnds, Reconnect, vars
  <2>2. \A e \in Deliveries : Phase(e)' = Phase(e)
    BY <2>1 DEF Phase
  <2> QED
    BY <1>0, <2>1, <2>2
<1> QED
  BY <1>0, <1>1, <1>2, <1>3, <1>4, <1>5, <1>6, <1>8, <1>9, <1>10, <1>11
  DEF Next, Send, Protocol!Next

\* The exec handlers, with kills, disconnects and Close, implement the protocol of
\* ExecProtocol, for any deliveries and command ids.
THEOREM Refinement == Spec => ImplementsProtocol
<1>1. Init => ToolFits
  BY DEF Init, ToolFits
<1>2. Init => Protocol!Init
  BY DEF Init, Protocol!Init, Phase
<1>3. IInv => TypeOK
  BY DEF IInv
<1> QED
  BY <1>1, <1>2, <1>3, SpecIInv, StepToolFits, StepProtocol, PTL
  DEF Spec, ImplementsProtocol, Protocol!Spec

\* What was proved of the protocol, for the phases of ExecCommands.
ProtocolFacts == INSTANCE ExecProtocol_proofs WITH
                     Commands <- Deliveries,
                     phase <- [d \in Deliveries |-> Phase(d)],
                     asked <- cancelled,
                     over <- done

\* What the handlers queue of every command is a well-formed transcript, whatever kills,
\* disconnects and reconnects do (client.go:615-674); so whatever part of it survives the
\* drains and failed writes of BrainLink reaches the brain in order.
THEOREM Transcripts == Spec => []Protocol!Transcript
<1>1. Protocol!Init => ProtocolFacts!Init
  BY DEF Protocol!Init, ProtocolFacts!Init
<1>2. [Protocol!Next]_Protocol!vars => [ProtocolFacts!Next]_ProtocolFacts!vars
  BY DEF Protocol!Next, Protocol!vars, Protocol!Start, Protocol!Stream, Protocol!Finish,
         Protocol!Abandon, Protocol!FallSilent, Protocol!AskToStop, Protocol!ShutDown,
         Protocol!Moves, Protocol!Tells,
         ProtocolFacts!Next, ProtocolFacts!vars, ProtocolFacts!Start, ProtocolFacts!Stream,
         ProtocolFacts!Finish, ProtocolFacts!Abandon, ProtocolFacts!FallSilent,
         ProtocolFacts!AskToStop, ProtocolFacts!ShutDown, ProtocolFacts!Moves,
         ProtocolFacts!Tells
<1>3. ProtocolFacts!Transcript => Protocol!Transcript
  BY DEF Protocol!Transcript, Protocol!InOrder, Protocol!Endings,
         ProtocolFacts!Transcript, ProtocolFacts!InOrder, ProtocolFacts!Endings
<1>4. Spec => ProtocolFacts!Spec
  BY <1>1, <1>2, Refinement, PTL DEF ImplementsProtocol, Protocol!Spec, ProtocolFacts!Spec
<1> QED
  BY <1>3, <1>4, ProtocolFacts!TranscriptHolds, PTL
=============================================================================
