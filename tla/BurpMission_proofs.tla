------------------------- MODULE BurpMission_proofs -------------------------
(***************************************************************************)
(* For any missions and any number of requests: the types of BurpMission,  *)
(* that no acquire takes Burp from under a call, that brain and daemon     *)
(* agree on the lease, and that issues are attributed to their mission.    *)
(***************************************************************************)
EXTENDS BurpMission, SequenceTheorems, TLAPS

-----------------------------------------------------------------------------
(* The inductive invariant *)

\* Each kind of request goes through places of its own.
Roles ==
    \A r \in Asked :
        /\ at[r] \in {"probed", "granted"} => request[r].what = "acquire"
        /\ at[r] = "cleared" => request[r].what = "release"
        /\ at[r] \in {"admitted", "calling"} => request[r].what = "call"
        /\ at[r] = "writing" => request[r].what \in {"start", "cancel"}

\* Whatever is said of a scan is said of one that was asked for.
Named ==
    /\ Len(request) <= MaxRequests
    /\ \A r \in Asked : request[r].what = "cancel" => request[r].scan \in Scans
    /\ scanning \subseteq Scans
    /\ \A i \in 1..Len(wire) : wire[i].scan \in Scans
    /\ \A i \in 1..Len(events) : events[i].scan \in Scans

\* What the one request under way about a mission means for its lease.
Standing(m, r) ==
    CASE request[r].what = "acquire" ->
             IF at[r] = "granted" THEN activeMissionID = m
                                  ELSE m \in view <=> activeMissionID = m
      [] OTHER -> m \notin view

Flies(m, r) == at[r] # "done" /\ m \in Concerns(request[r])

Lease(m) ==
    /\ \A r, s \in Asked : Flies(m, r) /\ Flies(m, s) => r = s
    /\ \A r \in Asked : Flies(m, r) => Standing(m, r)
    /\ ~InFlight(m) => (m \in view <=> activeMissionID = m)

Leases == \A m \in Missions \ uncertain : Lease(m)

\* A scan that is still to be written was never told of, but for cancels of it.
Fresh ==
    \A k \in Scans : at[k] \in {"spawned", "writing"} =>
        /\ k \notin scanning
        /\ \A i \in 1..Len(wire) : wire[i] # [do |-> "start", scan |-> k]
        /\ \A i \in 1..Len(events) : events[i] \notin {[event |-> "started", scan |-> k],
                                                       [event |-> "issue", scan |-> k]}

Latest == latest # None => latest \in Scans /\ at[latest] # "spawned"

\* When the j-th event comes to be read, the record names scan k: it does now, or an event
\* before will make it, and none between makes it another.
Names(k, j) ==
    \E i \in 0..(j - 1) :
        /\ IF i = 0 THEN activeBurpScan = Started(k)
                    ELSE events[i] = [event |-> "started", scan |-> k]
        /\ \A l \in (i + 1)..(j - 1) : /\ events[l].event # "started"
                                       /\ events[l] # [event |-> "cancelled", scan |-> k]

\* No start is on its way behind that of the scan started last, the record names it when an
\* issue of it is read, and will as long as more may be found.
Attributed(k) ==
    /\ \A i, j \in 1..Len(wire) :
           wire[i] = [do |-> "start", scan |-> k] /\ i < j => wire[j].do # "start"
    /\ k \in scanning => \A i \in 1..Len(wire) : wire[i].do # "start"
    /\ \A j \in 1..(Len(events) + 1) :
           (IF j = Len(events) + 1 THEN k \in scanning
                                   ELSE events[j] = [event |-> "issue", scan |-> k])
           => Names(k, j)

Attributes == \A k \in Scans : k = latest /\ k \notin letGo /\ ~disturbed => Attributed(k)

IInv == /\ TypeOK /\ Roles /\ Named /\ CallsWithinLease /\ Leases
        /\ Fresh /\ Latest /\ Attributes

-----------------------------------------------------------------------------
(* Requests *)

\* What a request carries.
LEMMA RequestFields ==
    ASSUME NEW q \in Request
    PROVE  /\ q.what \in {"acquire", "release", "call", "start", "disconnect", "cancel"}
           /\ q.what \in {"acquire", "release", "call", "start"} => q.mission \in Missions
           /\ q.what = "cancel" => q.scan \in Requests
BY DEF Request

\* A new request leaves the others and their handlers as they are.
LEMMA AskAppends ==
    ASSUME TypeOK, NEW q \in Request, Ask(q)
    PROVE  /\ Len(request') = Len(request) + 1
           /\ Len(request) \in Nat
           /\ Asked' = Asked \union {Len(request) + 1}
           /\ Len(request) + 1 \notin Asked
           /\ \A r \in Asked : request'[r] = request[r] /\ at'[r] = at[r]
           /\ request'[Len(request) + 1] = q
           /\ at'[Len(request) + 1] = "spawned"
           /\ request' \in Seq(Request)
           /\ at' \in [Asked' -> Places]
<1>1. request \in Seq(Request) /\ Len(request) \in Nat
  BY DEF TypeOK
<1>2. at \in Seq(Places) /\ Len(at) = Len(request)
  <2>1. at \in [1..Len(request) -> Places]
    BY DEF TypeOK, Asked
  <2>2. at \in Seq(Places)
    BY <1>1, <2>1, SeqDef
  <2>3. DOMAIN at = 1..Len(request) /\ DOMAIN at = 1..Len(at) /\ Len(at) \in Nat
    BY <2>1, <2>2
  <2> QED
    BY <1>1, <2>2, <2>3
<1>3. "spawned" \in Places
  BY DEF Places
<1>4. /\ Len(request') = Len(request) + 1
      /\ request' \in Seq(Request)
      /\ \A r \in 1..Len(request) : request'[r] = request[r]
      /\ request'[Len(request) + 1] = q
  BY <1>1 DEF Ask
<1>5. /\ Len(at') = Len(at) + 1
      /\ at' \in Seq(Places)
      /\ \A r \in 1..Len(at) : at'[r] = at[r]
      /\ at'[Len(at) + 1] = "spawned"
  BY <1>2, <1>3 DEF Ask
<1>6. at' \in [1..Len(at') -> Places]
  BY <1>5
<1> QED
  BY <1>1, <1>2, <1>4, <1>5, <1>6 DEF Asked

\* Every handler belongs to a request, which is within the bound.
LEMMA AskedFields ==
    ASSUME TypeOK, Named, NEW r \in Asked
    PROVE  request[r] \in Request /\ r \in Requests
<1>1. request \in Seq(Request) /\ Len(request) \in Nat
  BY DEF TypeOK
<1>2. r \in 1..Len(request) /\ Len(request) <= MaxRequests
  BY DEF Asked, Named
<1>3. request[r] \in Request
  BY <1>1, <1>2
<1>4. r \in 1..MaxRequests
  BY <1>1, <1>2, MissionAssumption
<1> QED
  BY <1>3, <1>4 DEF Requests

-----------------------------------------------------------------------------
(* Types *)

\* Every step keeps the types.
LEMMA StepTypeOK == TypeOK /\ Roles /\ Named /\ [Next]_vars => TypeOK'
<1> SUFFICES ASSUME TypeOK, Roles, Named, [Next]_vars PROVE TypeOK'
  OBVIOUS
<1> USE DEF leaseVars, scanVars, extensionVars, brainVars
<1>1. ASSUME NEW q \in Request, Ask(q) PROVE TypeOK'
  <2>1. view' \subseteq Missions /\ uncertain' \subseteq Missions
    <3>1. Concerns(q) \subseteq Missions
      BY RequestFields DEF Concerns
    <3> QED
      BY <1>1, <3>1 DEF Ask, TypeOK
  <2> QED
    BY <1>1, <2>1, AskAppends DEF Ask, TypeOK
<1>2. ASSUME NEW r \in Asked, Handle(r) PROVE TypeOK'
  <2>1. request[r] \in Request /\ r \in Requests
    BY AskedFields
  <2>2. request[r].what \in {"acquire", "release", "call", "start"} => MissionOf(r) \in Missions
    BY <2>1, RequestFields DEF MissionOf
  <2>3. request' = request
    BY <1>2 DEF Handle, Probe, Grant, Deny, ClearScanForMission, ReleaseMission, Disconnect,
                Admit, CallReaches, CallReturns, SendScanStart, SendScanCancel, NotPaired,
                WriteStart, WriteCancel, AnswerGranted
  <2>4. at' \in [Asked' -> Places]
    <3>1. \A to \in Places : [at EXCEPT ![r] = to] \in [Asked' -> Places]
      BY <2>3 DEF TypeOK, Asked
    <3> QED
      BY <1>2, <3>1 DEF Handle, Probe, Grant, Deny, ClearScanForMission, ReleaseMission,
                Disconnect, Admit, CallReaches, CallReturns, SendScanStart, SendScanCancel,
                NotPaired, WriteStart, WriteCancel, AnswerGranted, Handles, Places
  <2>5. CASE Probe(r) \/ Deny(r) \/ Admit(r) \/ CallReaches(r) \/ CallReturns(r)
             \/ SendScanCancel(r) \/ NotPaired(r)
    BY <2>3, <2>4, <2>5 DEF Probe, Deny, Admit, CallReaches, CallReturns, SendScanCancel,
                            NotPaired, TypeOK
  <2>6. CASE Grant(r)
    BY <2>2, <2>3, <2>4, <2>6 DEF Grant, Handles, TypeOK
  <2>7. CASE ClearScanForMission(r)
    <3>1. letGo' \subseteq Requests
      BY <2>7, AskedFields DEF ClearScanForMission, Scans, TypeOK
    <3> QED
      BY <2>3, <2>4, <2>7, <3>1 DEF ClearScanForMission, TypeOK
  <2>8. CASE ReleaseMission(r) \/ Disconnect(r)
    <3>1. orphaned' \subseteq Requests /\ activeMissionID' \in Missions \union {None}
      BY <2>8, AskedFields DEF ReleaseMission, Disconnect, GivesUp, TypeOK
    <3> QED
      BY <2>3, <2>4, <2>8, <3>1 DEF ReleaseMission, Disconnect, TypeOK
  <2>9. CASE SendScanStart(r)
    BY <2>1, <2>2, <2>3, <2>4, <2>9 DEF SendScanStart, Handles, Record, TypeOK
  <2>10. CASE WriteStart(r)
    <3>1. wire' \in Seq(Message)
      BY <2>1, <2>10 DEF WriteStart, TypeOK, Message
    <3> QED
      BY <2>3, <2>4, <2>10, <3>1 DEF WriteStart, TypeOK
  <2>11. CASE WriteCancel(r)
    <3>1. request[r].scan \in Requests
      BY <2>1, <2>11, RequestFields DEF WriteCancel, Handles
    <3>2. wire' \in Seq(Message)
      BY <2>11, <3>1 DEF WriteCancel, TypeOK, Message
    <3> QED
      BY <2>3, <2>4, <2>11, <3>2 DEF WriteCancel, TypeOK
  <2>12. CASE AnswerGranted(r)
    <3>1. MissionOf(r) \in Missions
      BY <2>2, <2>12 DEF AnswerGranted, Roles
    <3> QED
      BY <2>3, <2>4, <2>12, <3>1 DEF AnswerGranted, TypeOK
  <2> QED
    BY <1>2, <2>5, <2>6, <2>7, <2>8, <2>9, <2>10, <2>11, <2>12 DEF Handle
<1>3. CASE ReadEvent
  <2> DEFINE k == Head(events).scan
  <2>head. Head(events) \in Event /\ Tail(events) \in Seq(Event) /\ 1 \in 1..Len(events)
    BY <1>3, HeadTailProperties, EmptySeq DEF ReadEvent, TypeOK
  <2>1. k \in Scans
    BY <2>head DEF Named
  <2>2. k \in Requests /\ MissionOf(k) \in Missions
    BY <2>1, AskedFields, RequestFields DEF Scans, MissionOf
  <2>3. Started(k) \in Record
    BY <2>2 DEF Started, Record
  <2>4. Cancelled(k) \in Record \union {None} /\ Failed(k) \in Record \union {None}
    BY <2>2 DEF Cancelled, Failed, Record, TypeOK
  <2>5. Head(events).event \in {"started", "cancelled", "failed", "issue"}
    BY <2>head DEF Event
  <2>6. activeBurpScan' \in Record \union {None}
    BY <1>3, <2>3, <2>4, <2>5 DEF ReadEvent, TypeOK
  <2>7. events' \in Seq(Event)
    BY <1>3, <2>head DEF ReadEvent
  <2> QED
    BY <1>3, <2>6, <2>7 DEF ReadEvent, TypeOK, Asked
<1>4. CASE ExtensionActs
  <2> DEFINE m == Head(wire)
  <2>1. m \in Message /\ Tail(wire) \in Seq(Message)
    BY <1>4, HeadTailProperties DEF ExtensionActs, TypeOK
  <2>2. wire' \in Seq(Message)
    BY <1>4, <2>1 DEF ExtensionActs
  <2>3. \A e \in {"started", "cancelled", "failed"} : Tell(e, m.scan) => events' \in Seq(Event)
    BY <2>1 DEF Tell, TypeOK, Message, Event
  <2>4. events' \in Seq(Event)
    BY <1>4, <2>3 DEF ExtensionActs
  <2>5. scanning' \subseteq Requests
    BY <1>4, <2>1 DEF ExtensionActs, TypeOK, Message
  <2> QED
    BY <1>4, <2>2, <2>4, <2>5 DEF ExtensionActs, TypeOK, Asked
<1>5. ASSUME NEW k \in Scans, IssueFound(k) \/ ScanCompletes(k) PROVE TypeOK'
  <2>1. k \in Requests
    BY AskedFields DEF Scans
  <2>2. Tell("issue", k) => events' \in Seq(Event)
    BY <2>1 DEF Tell, TypeOK, Event
  <2> QED
    BY <1>5, <2>2 DEF IssueFound, ScanCompletes, TypeOK, Asked
<1>6. CASE ConnectionLost
  <2>1. events' \in Seq(Event) /\ wire' \in Seq(Message)
    BY <1>6, EmptySeq DEF ConnectionLost, TypeOK
  <2>2. at' \in [Asked' -> Places]
    BY <1>6 DEF ConnectionLost, TypeOK, Asked, Places
  <2> QED
    BY <1>6, <2>1, <2>2 DEF ConnectionLost, TypeOK, Asked
<1>7. CASE ConnectionBack
  BY <1>7 DEF ConnectionBack, TypeOK, Asked
<1>8. CASE DaemonRestarts
  <2>1. letGo' \subseteq Requests
    BY <1>8, AskedFields DEF DaemonRestarts, Scans, TypeOK
  <2>2. events' \in Seq(Event) /\ wire' \in Seq(Message)
    BY <1>8, EmptySeq DEF DaemonRestarts
  <2>3. at' \in [Asked' -> Places]
    BY <1>8 DEF DaemonRestarts, TypeOK, Asked, Places
  <2> QED
    BY <1>8, <2>1, <2>2, <2>3 DEF DaemonRestarts, TypeOK, Asked
<1>9. CASE UNCHANGED vars
  BY <1>9 DEF vars, TypeOK, Asked
<1> QED
  BY <1>1, <1>2, <1>3, <1>4, <1>5, <1>6, <1>7, <1>8, <1>9 DEF Next

\* A handler never leaves the places of its request.
LEMMA StepRoles == TypeOK /\ Roles /\ [Next]_vars => Roles'
<1> SUFFICES ASSUME TypeOK, Roles, [Next]_vars PROVE Roles'
  OBVIOUS
<1> USE DEF leaseVars, scanVars, extensionVars, brainVars
<1>1. ASSUME NEW q \in Request, Ask(q) PROVE Roles'
  BY <1>1, AskAppends DEF Roles
<1>2. ASSUME NEW r \in Asked, Handle(r) PROVE Roles'
  <2>1. request' = request
    BY <1>2 DEF Handle, Probe, Grant, Deny, ClearScanForMission, ReleaseMission, Disconnect,
                Admit, CallReaches, CallReturns, SendScanStart, SendScanCancel, NotPaired,
                WriteStart, WriteCancel, AnswerGranted
  <2>2. CASE Probe(r) \/ Grant(r) \/ Deny(r) \/ AnswerGranted(r)
    BY <2>1, <2>2 DEF Probe, Grant, Deny, AnswerGranted, Handles, Roles, TypeOK, Asked
  <2>3. CASE ClearScanForMission(r) \/ ReleaseMission(r) \/ Disconnect(r)
    BY <2>1, <2>3 DEF ClearScanForMission, ReleaseMission, Disconnect, Handles, Roles, TypeOK,
                      Asked
  <2>4. CASE Admit(r) \/ CallReaches(r) \/ CallReturns(r)
    BY <2>1, <2>4 DEF Admit, CallReaches, CallReturns, Handles, Roles, TypeOK, Asked
  <2>5. CASE SendScanStart(r) \/ SendScanCancel(r) \/ NotPaired(r)
    BY <2>1, <2>5 DEF SendScanStart, SendScanCancel, NotPaired, Handles, Roles, TypeOK, Asked
  <2>6. CASE WriteStart(r) \/ WriteCancel(r)
    BY <2>1, <2>6 DEF WriteStart, WriteCancel, Handles, Roles, TypeOK, Asked
  <2> QED
    BY <1>2, <2>2, <2>3, <2>4, <2>5, <2>6 DEF Handle
<1>3. CASE UNCHANGED <<request, at>>
  BY <1>3 DEF Roles, Asked
<1>4. CASE ConnectionLost
  BY <1>4 DEF ConnectionLost, Roles, TypeOK, Asked
<1>5. CASE DaemonRestarts
  BY <1>5 DEF DaemonRestarts, Roles, TypeOK, Asked
<1> QED
  BY <1>1, <1>2, <1>3, <1>4, <1>5
     DEF Next, ReadEvent, ExtensionActs, IssueFound, ScanCompletes, ConnectionBack, vars

\* Whatever is written or told about a scan names one that was asked for.
LEMMA StepNamed == TypeOK /\ Roles /\ Named /\ [Next]_vars => Named'
<1> SUFFICES ASSUME TypeOK, Roles, Named, [Next]_vars PROVE Named'
  OBVIOUS
<1> USE DEF leaseVars, scanVars, extensionVars, brainVars
<1>1. ASSUME NEW q \in Request, Ask(q) PROVE Named'
  <2>1. Scans \subseteq Scans'
    BY <1>1, AskAppends DEF Scans
  <2>2. q.what = "cancel" => q.scan \in Scans
    BY <1>1 DEF Ask
  <2>3. \A r \in Asked' : request'[r].what = "cancel" => request'[r].scan \in Scans'
    BY <1>1, <2>1, <2>2, AskAppends DEF Named
  <2>4. Len(request') <= MaxRequests
    BY <1>1, AskAppends, MissionAssumption DEF Ask
  <2> QED
    BY <1>1, <2>1, <2>3, <2>4 DEF Ask, Named
<1>2. ASSUME NEW r \in Asked, Handle(r) PROVE Named'
  <2>1. UNCHANGED <<request, scanning, events>>
    BY <1>2 DEF Handle, Probe, Grant, Deny, ClearScanForMission, ReleaseMission, Disconnect,
                Admit, CallReaches, CallReturns, SendScanStart, SendScanCancel, NotPaired,
                WriteStart, WriteCancel, AnswerGranted
  <2>2. \A i \in 1..Len(wire') : wire'[i].scan \in Scans
    <3>1. CASE WriteStart(r)
      <4>1. r \in Scans /\ r \in Requests
        BY <3>1, AskedFields DEF WriteStart, Handles, Scans
      <4>2. wire' = Append(wire, [do |-> "start", scan |-> r])
        BY <3>1 DEF WriteStart
      <4> QED
        BY <4>1, <4>2 DEF Named, TypeOK
    <3>2. CASE WriteCancel(r)
      <4>1. request[r].scan \in Scans
        BY <3>2 DEF WriteCancel, Handles, Named
      <4>2. wire' = Append(wire, [do |-> "cancel", scan |-> request[r].scan])
        BY <3>2 DEF WriteCancel
      <4> QED
        BY <4>1, <4>2 DEF Named, TypeOK
    <3>3. CASE wire' = wire
      BY <3>3 DEF Named
    <3> QED
      BY <1>2, <3>1, <3>2, <3>3
         DEF Handle, Probe, Grant, Deny, ClearScanForMission, ReleaseMission, Disconnect, Admit,
             CallReaches, CallReturns, SendScanStart, SendScanCancel, NotPaired, AnswerGranted
  <2> QED
    BY <2>1, <2>2 DEF Named, Scans, Asked
<1>3. CASE ReadEvent
  <2>1. \A i \in 1..Len(Tail(events)) : i + 1 \in 1..Len(events) /\ Tail(events)[i] = events[i + 1]
    BY <1>3, HeadTailProperties, LenProperties DEF ReadEvent, TypeOK
  <2> QED
    BY <1>3, <2>1 DEF ReadEvent, Named, Scans, Asked
<1>4. CASE ExtensionActs
  <2>1. \A i \in 1..Len(Tail(wire)) : i + 1 \in 1..Len(wire) /\ Tail(wire)[i] = wire[i + 1]
    BY <1>4, HeadTailProperties, LenProperties DEF ExtensionActs, TypeOK
  <2>2. 1 \in 1..Len(wire) /\ Head(wire) = wire[1]
    BY <1>4, EmptySeq DEF ExtensionActs, TypeOK
  <2>3. Head(wire).scan \in Scans
    BY <2>2 DEF Named
  <2>4. \A e : Tell(e, Head(wire).scan) => \A i \in 1..Len(events') : events'[i].scan \in Scans
    BY <2>3 DEF Tell, Named, TypeOK
  <2> QED
    BY <1>4, <2>1, <2>3, <2>4 DEF ExtensionActs, Named, Scans, Asked
<1>5. ASSUME NEW k \in Scans, IssueFound(k) \/ ScanCompletes(k) PROVE Named'
  <2>1. Tell("issue", k) => \A i \in 1..Len(events') : events'[i].scan \in Scans
    BY DEF Tell, Named, TypeOK
  <2> QED
    BY <1>5, <2>1 DEF IssueFound, ScanCompletes, Named, Scans, Asked
<1>6. CASE ConnectionLost
  BY <1>6, EmptySeq DEF ConnectionLost, Named, Scans, Asked
<1>7. CASE DaemonRestarts
  BY <1>7, EmptySeq DEF DaemonRestarts, Named, Scans, Asked
<1>8. CASE ConnectionBack \/ UNCHANGED vars
  BY <1>8 DEF ConnectionBack, vars, Named, Scans, Asked
<1> QED
  BY <1>1, <1>2, <1>3, <1>4, <1>5, <1>6, <1>7, <1>8 DEF Next

-----------------------------------------------------------------------------
(* Calls *)

\* A call that is with Burp has the lease from its admission on, until a release or a
\* disconnect ends it: Free lets no other mission in.
LEMMA StepCalls == TypeOK /\ Roles /\ Named /\ CallsWithinLease /\ [Next]_vars => CallsWithinLease'
<1> SUFFICES ASSUME TypeOK, Roles, Named, CallsWithinLease, [Next]_vars PROVE CallsWithinLease'
  OBVIOUS
<1> USE DEF leaseVars, scanVars, extensionVars, brainVars
<1>1. ASSUME NEW q \in Request, Ask(q) PROVE CallsWithinLease'
  BY <1>1, AskAppends DEF Ask, CallsWithinLease, MissionOf
<1>2. ASSUME NEW r \in Asked, Handle(r) PROVE CallsWithinLease'
  <2> USE DEF Handles, TypeOK, Asked, CallsWithinLease, MissionOf
  <2>1. CASE Grant(r)
    <3>1. ASSUME NEW s \in Asked, at[s] \in {"admitted", "calling"}
          PROVE  activeMissionID' = MissionOf(s) \/ s \in orphaned
      <4>1. MissionOf(s) \in Missions
        BY <3>1, AskedFields, RequestFields DEF Roles
      <4> QED
        BY <2>1, <3>1, <4>1, MissionAssumption DEF Grant, Free
    <3> QED
      BY <2>1, <3>1 DEF Grant
  <2>2. CASE ReleaseMission(r)
    BY <2>2 DEF ReleaseMission, GivesUp
  <2>3. CASE Disconnect(r)
    BY <2>3 DEF Disconnect, GivesUp
  <2>4. CASE Probe(r) \/ Deny(r) \/ ClearScanForMission(r) \/ AnswerGranted(r)
    BY <2>4 DEF Probe, Deny, ClearScanForMission, AnswerGranted
  <2>5. CASE Admit(r) \/ CallReaches(r) \/ CallReturns(r)
    BY <2>5 DEF Admit, CallReaches, CallReturns
  <2>6. CASE SendScanStart(r) \/ SendScanCancel(r) \/ NotPaired(r) \/ WriteStart(r) \/ WriteCancel(r)
    BY <2>6 DEF SendScanStart, SendScanCancel, NotPaired, WriteStart, WriteCancel
  <2> QED
    BY <1>2, <2>1, <2>2, <2>3, <2>4, <2>5, <2>6 DEF Handle
<1>3. CASE UNCHANGED <<request, at, activeMissionID, orphaned>>
  BY <1>3 DEF CallsWithinLease, Asked, MissionOf
<1>4. CASE ConnectionLost
  BY <1>4 DEF ConnectionLost, CallsWithinLease, Asked, MissionOf
<1>5. CASE DaemonRestarts
  BY <1>5 DEF DaemonRestarts, CallsWithinLease, Asked
<1> QED
  BY <1>1, <1>2, <1>3, <1>4, <1>5
     DEF Next, ReadEvent, ExtensionActs, IssueFound, ScanCompletes, ConnectionBack, vars

-----------------------------------------------------------------------------
(* The lease *)

\* What a request is about, by its kind.
LEMMA ConcernsOf ==
    ASSUME NEW q \in Request
    PROVE  /\ q.what \in {"acquire", "release"} => Concerns(q) = {q.mission}
           /\ q.what = "disconnect" => Concerns(q) = Missions
           /\ q.what \in {"call", "start", "cancel"} => Concerns(q) = {}
BY RequestFields DEF Concerns

\* A new request finds nothing about its mission under way, or makes it uncertain.
LEMMA AskLeases ==
    ASSUME TypeOK, Leases, NEW q \in Request, Ask(q)
    PROVE  Leases'
<1> SUFFICES ASSUME NEW m \in Missions, m \notin uncertain' PROVE Lease(m)'
  BY DEF Leases
<1> PICK n \in Nat : n = Len(request) + 1
  BY AskAppends
<1> DEFINE ends == IF q.what = "acquire" THEN {} ELSE Concerns(q)
<1>1. activeMissionID' = activeMissionID
  BY DEF Ask, leaseVars
<1>2. view' = view \ ends /\ (m \in Concerns(q) => ~InFlight(m)) /\ (m \in ends \/ m \notin uncertain)
  BY DEF Ask
<1>3. \A r \in Asked : Flies(m, r)' <=> Flies(m, r)
  BY AskAppends DEF Flies, Concerns
<1>4. Flies(m, n)' <=> m \in Concerns(q)
  BY AskAppends DEF Flies, Concerns
<1>5. Asked' = Asked \union {n}
  BY AskAppends
<1>6. InFlight(m) <=> \E r \in Asked : Flies(m, r)
  BY DEF InFlight, Flies
<1>7. InFlight(m)' <=> \E r \in Asked' : Flies(m, r)'
  BY DEF InFlight, Flies
<1>8. CASE m \in Concerns(q)
  <2>1. \A r \in Asked : ~Flies(m, r)'
    BY <1>2, <1>3, <1>6, <1>8
  <2>2. Standing(m, n)'
    <3>1. request'[n] = q /\ at'[n] = "spawned"
      BY AskAppends
    <3>2. CASE q.what = "acquire"
      <4>1. ~InFlight(m) /\ m \notin uncertain /\ view' = view
        BY <1>2, <1>8, <3>2
      <4>2. m \in view <=> activeMissionID = m
        BY <4>1 DEF Leases, Lease
      <4> QED
        BY <1>1, <3>1, <3>2, <4>1, <4>2 DEF Standing
    <3>3. CASE q.what # "acquire"
      BY <1>2, <1>8, <3>1, <3>3 DEF Standing
    <3> QED
      BY <3>2, <3>3
  <2>3. InFlight(m)'
    BY <1>4, <1>5, <1>7, <1>8
  <2> QED
    BY <1>5, <2>1, <2>2, <2>3 DEF Lease
<1>9. CASE m \notin Concerns(q)
  <2>1. m \notin uncertain /\ (m \in view' <=> m \in view)
    BY <1>2, <1>9
  <2>2. ~Flies(m, n)'
    BY <1>4, <1>9
  <2>3. \A r \in Asked : Standing(m, r)' <=> Standing(m, r)
    BY <1>1, <2>1, AskAppends DEF Standing
  <2>4. Lease(m)
    BY <2>1 DEF Leases
  <2>5. InFlight(m)' <=> InFlight(m)
    BY <1>3, <1>5, <1>6, <1>7, <2>2
  <2>6. \A r, s \in Asked' : Flies(m, r)' /\ Flies(m, s)' => r = s
    BY <1>3, <1>5, <2>2, <2>4 DEF Lease
  <2>7. \A r \in Asked' : Flies(m, r)' => Standing(m, r)'
    BY <1>3, <1>5, <2>2, <2>3, <2>4 DEF Lease
  <2>8. ~InFlight(m)' => (m \in view' <=> activeMissionID' = m)
    BY <1>1, <2>1, <2>4, <2>5 DEF Lease
  <2> QED
    BY <2>6, <2>7, <2>8 DEF Lease
<1> QED
  BY <1>8, <1>9

\* A step of the handler of the one request under way about a mission.
LEMMA OwnLease ==
    ASSUME NEW r \in Asked, NEW m \in Missions, Lease(m), Flies(m, r),
           request' = request, \A s \in Asked \ {r} : at'[s] = at[s],
           IF at'[r] = "done" THEN m \in view' <=> activeMissionID' = m ELSE Standing(m, r)'
    PROVE  Lease(m)'
<1>1. Asked' = Asked
  BY DEF Asked
<1>2. \A s \in Asked : Flies(m, s)' => s = r
  BY DEF Flies, Concerns, Lease
<1>3. Flies(m, r)' <=> at'[r] # "done"
  BY DEF Flies, Concerns
<1>4. InFlight(m)' <=> \E s \in Asked' : Flies(m, s)'
  BY DEF InFlight, Flies
<1>5. \A s, t \in Asked' : Flies(m, s)' /\ Flies(m, t)' => s = t
  BY <1>1, <1>2
<1>6. \A s \in Asked' : Flies(m, s)' => Standing(m, s)'
  BY <1>1, <1>2, <1>3
<1>7. ~InFlight(m)' => (m \in view' <=> activeMissionID' = m)
  BY <1>1, <1>3, <1>4
<1> QED
  BY <1>5, <1>6, <1>7 DEF Lease

\* A step that touches neither a mission's lease nor the requests about it.
LEMMA OtherLease ==
    ASSUME NEW m \in Missions, Lease(m), request' = request,
           \A s \in Asked : Flies(m, s)' <=> Flies(m, s),
           \A s \in Asked : Flies(m, s) => at'[s] = at[s],
           m \in view' <=> m \in view,
           activeMissionID' = m <=> activeMissionID = m
    PROVE  Lease(m)'
<1>1. Asked' = Asked
  BY DEF Asked
<1>2. \A s \in Asked : Flies(m, s) => (Standing(m, s)' <=> Standing(m, s))
  BY DEF Standing
<1>3. InFlight(m) <=> \E s \in Asked : Flies(m, s)
  BY DEF InFlight, Flies
<1>4. InFlight(m)' <=> \E s \in Asked' : Flies(m, s)'
  BY DEF InFlight, Flies
<1>5. \A s, t \in Asked' : Flies(m, s)' /\ Flies(m, t)' => s = t
  BY <1>1 DEF Lease
<1>6. \A s \in Asked' : Flies(m, s)' => Standing(m, s)'
  BY <1>1, <1>2 DEF Lease
<1>7. ~InFlight(m)' => (m \in view' <=> activeMissionID' = m)
  BY <1>1, <1>3, <1>4 DEF Lease
<1> QED
  BY <1>5, <1>6, <1>7 DEF Lease

\* A step of a handler keeps every lease the brain is certain of: while one request is
\* under way, nothing else touches what it stands for.
LEMMA HandleLeases ==
    ASSUME TypeOK, Roles, Named, Leases, NEW r \in Asked, Handle(r)
    PROVE  Leases'
<1> SUFFICES ASSUME NEW m \in Missions, m \notin uncertain' PROVE Lease(m)'
  BY DEF Leases
<1> USE DEF leaseVars, scanVars, extensionVars, brainVars
<1>req. request' = request
  BY DEF Handle, Probe, Grant, Deny, ClearScanForMission, ReleaseMission, Disconnect,
         Admit, CallReaches, CallReturns, SendScanStart, SendScanCancel, NotPaired,
         WriteStart, WriteCancel, AnswerGranted
<1>at. \A s \in Asked \ {r} : at'[s] = at[s]
  BY DEF Handle, Probe, Grant, Deny, ClearScanForMission, ReleaseMission, Disconnect,
         Admit, CallReaches, CallReturns, SendScanStart, SendScanCancel, NotPaired,
         WriteStart, WriteCancel, AnswerGranted, Handles, TypeOK
<1>to. \A what, from, to : Handles(r, what, from, to) =>
           request[r].what = what /\ at[r] = from /\ at'[r] = to
  BY DEF Handles, TypeOK
<1>q. request[r] \in Request
  BY AskedFields
<1>m. m # None
  BY MissionAssumption
<1>lease. Lease(m)
  BY DEF Handle, Probe, Grant, Deny, ClearScanForMission, ReleaseMission, Disconnect,
         Admit, CallReaches, CallReturns, SendScanStart, SendScanCancel, NotPaired,
         WriteStart, WriteCancel, AnswerGranted, Leases
<1>stands. Flies(m, r) => Standing(m, r)
  BY <1>lease DEF Lease
<1>other. \A s \in Asked \ {r} : Flies(m, s)' <=> Flies(m, s)
  BY <1>req, <1>at DEF Flies, Concerns
<1>none. ~Flies(m, r) /\ ~Flies(m, r)' =>
             /\ \A s \in Asked : Flies(m, s)' <=> Flies(m, s)
             /\ \A s \in Asked : Flies(m, s) => at'[s] = at[s]
  BY <1>other, <1>at
<1>away. m \notin Concerns(request[r]) => ~Flies(m, r) /\ ~Flies(m, r)'
  BY <1>req DEF Flies, Concerns
<1>1. CASE Probe(r) \/ Deny(r)
  <2>1. request[r].what = "acquire" /\ at[r] \in {"spawned", "probed"} /\ at'[r] \in {"probed", "done"}
    BY <1>1, <1>to DEF Probe, Deny
  <2>2. view' = view /\ activeMissionID' = activeMissionID
    BY <1>1 DEF Probe, Deny
  <2>3. CASE m \in Concerns(request[r])
    <3>1. Flies(m, r)
      BY <2>1, <2>3 DEF Flies
    <3>2. m \in view <=> activeMissionID = m
      BY <1>stands, <2>1, <3>1 DEF Standing
    <3>3. at'[r] # "done" => Standing(m, r)'
      BY <1>req, <2>1, <2>2, <3>2 DEF Standing
    <3> QED
      BY <1>req, <1>at, <1>lease, <2>2, <3>1, <3>2, <3>3, OwnLease
  <2>4. CASE m \notin Concerns(request[r])
    BY <1>req, <1>none, <1>away, <1>lease, <2>2, <2>4, OtherLease
  <2> QED
    BY <2>3, <2>4
<1>2. CASE Grant(r)
  <2>1. request[r].what = "acquire" /\ at[r] = "probed" /\ at'[r] = "granted"
    BY <1>2, <1>to DEF Grant
  <2>2. view' = view /\ activeMissionID' = MissionOf(r) /\ activeMissionID \in {None, MissionOf(r)}
    BY <1>2 DEF Grant, Free
  <2>3. Concerns(request[r]) = {MissionOf(r)}
    BY <1>q, <2>1, ConcernsOf DEF MissionOf
  <2>4. CASE m = MissionOf(r)
    <3>1. Flies(m, r)
      BY <2>1, <2>3, <2>4 DEF Flies
    <3>2. Standing(m, r)'
      BY <1>req, <2>1, <2>2, <2>4 DEF Standing
    <3> QED
      BY <1>req, <1>at, <1>lease, <2>1, <3>1, <3>2, OwnLease
  <2>5. CASE m # MissionOf(r)
    BY <1>req, <1>none, <1>away, <1>lease, <1>m, <2>2, <2>3, <2>5, OtherLease
  <2> QED
    BY <2>4, <2>5
<1>3. CASE AnswerGranted(r)
  <2>1. request[r].what = "acquire" /\ at[r] = "granted" /\ at'[r] = "done"
    BY <1>3 DEF AnswerGranted, Roles, TypeOK
  <2>2. activeMissionID' = activeMissionID /\ (m # MissionOf(r) => (m \in view' <=> m \in view))
    BY <1>3 DEF AnswerGranted
  <2>3. Concerns(request[r]) = {MissionOf(r)}
    BY <1>q, <2>1, ConcernsOf DEF MissionOf
  <2>4. CASE m = MissionOf(r)
    <3>1. Flies(m, r)
      BY <2>1, <2>3, <2>4 DEF Flies
    <3>2. activeMissionID = m
      BY <1>stands, <2>1, <3>1 DEF Standing
    <3>3. m \in view'
      BY <1>3, <2>4 DEF AnswerGranted
    <3> QED
      BY <1>req, <1>at, <1>lease, <2>1, <2>2, <3>1, <3>2, <3>3, OwnLease
  <2>5. CASE m # MissionOf(r)
    BY <1>req, <1>none, <1>away, <1>lease, <2>2, <2>3, <2>5, OtherLease
  <2> QED
    BY <2>4, <2>5
<1>4. CASE ClearScanForMission(r)
  <2>1. request[r].what = "release" /\ at[r] = "spawned" /\ at'[r] = "cleared"
    BY <1>4, <1>to DEF ClearScanForMission
  <2>2. view' = view /\ activeMissionID' = activeMissionID
    BY <1>4 DEF ClearScanForMission
  <2>3. CASE m \in Concerns(request[r])
    <3>1. Flies(m, r)
      BY <2>1, <2>3 DEF Flies
    <3>2. Standing(m, r)'
      BY <1>req, <1>stands, <2>1, <2>2, <3>1 DEF Standing
    <3> QED
      BY <1>req, <1>at, <1>lease, <2>1, <3>1, <3>2, OwnLease
  <2>4. CASE m \notin Concerns(request[r])
    BY <1>req, <1>none, <1>away, <1>lease, <2>2, <2>4, OtherLease
  <2> QED
    BY <2>3, <2>4
<1>5. CASE ReleaseMission(r)
  <2>1. request[r].what = "release" /\ at[r] = "cleared" /\ at'[r] = "done"
    BY <1>5, <1>to DEF ReleaseMission
  <2>2. /\ view' = view
        /\ IF activeMissionID = MissionOf(r) THEN activeMissionID' = None
                                             ELSE activeMissionID' = activeMissionID
    BY <1>5 DEF ReleaseMission, Releases, GivesUp
  <2>3. Concerns(request[r]) = {MissionOf(r)}
    BY <1>q, <2>1, ConcernsOf DEF MissionOf
  <2>4. CASE m = MissionOf(r)
    <3>1. Flies(m, r)
      BY <2>1, <2>3, <2>4 DEF Flies
    <3>2. m \notin view /\ activeMissionID' # m
      BY <1>stands, <1>m, <2>1, <2>2, <2>4, <3>1 DEF Standing
    <3> QED
      BY <1>req, <1>at, <1>lease, <2>1, <2>2, <3>1, <3>2, OwnLease
  <2>5. CASE m # MissionOf(r)
    BY <1>req, <1>none, <1>away, <1>lease, <1>m, <2>2, <2>3, <2>5, OtherLease
  <2> QED
    BY <2>4, <2>5
<1>6. CASE Disconnect(r)
  <2>1. request[r].what = "disconnect" /\ at[r] = "spawned" /\ at'[r] = "done"
    BY <1>6, <1>to DEF Disconnect
  <2>2. view' = view /\ activeMissionID' = None
    BY <1>6 DEF Disconnect, GivesUp
  <2>3. Flies(m, r)
    BY <1>q, <2>1, ConcernsOf DEF Flies
  <2>4. m \notin view
    BY <1>stands, <2>1, <2>3 DEF Standing
  <2> QED
    BY <1>req, <1>at, <1>lease, <1>m, <2>1, <2>2, <2>3, <2>4, OwnLease
<1>7. CASE Admit(r) \/ CallReaches(r) \/ CallReturns(r) \/ SendScanStart(r) \/ SendScanCancel(r)
           \/ NotPaired(r) \/ WriteStart(r) \/ WriteCancel(r)
  <2>1. request[r].what \in {"call", "start", "cancel"}
    BY <1>7, <1>to DEF Admit, CallReaches, CallReturns, SendScanStart, SendScanCancel, NotPaired,
                       WriteStart, WriteCancel
  <2>2. view' = view /\ activeMissionID' = activeMissionID
    BY <1>7 DEF Admit, CallReaches, CallReturns, SendScanStart, SendScanCancel, NotPaired,
                WriteStart, WriteCancel
  <2>3. m \notin Concerns(request[r])
    BY <1>q, <2>1, ConcernsOf
  <2> QED
    BY <1>req, <1>none, <1>away, <1>lease, <2>2, <2>3, OtherLease
<1> QED
  BY <1>1, <1>2, <1>3, <1>4, <1>5, <1>6, <1>7 DEF Handle

\* Every step keeps every lease the brain is certain of.
LEMMA StepLeases == TypeOK /\ Roles /\ Named /\ Leases /\ [Next]_vars => Leases'
<1> SUFFICES ASSUME TypeOK, Roles, Named, Leases, [Next]_vars PROVE Leases'
  OBVIOUS
<1> USE DEF leaseVars, scanVars, extensionVars, brainVars
<1>1. ASSUME NEW q \in Request, Ask(q) PROVE Leases'
  BY <1>1, AskLeases
<1>2. ASSUME NEW r \in Asked, Handle(r) PROVE Leases'
  BY <1>2, HandleLeases
<1>3. CASE UNCHANGED <<request, at, activeMissionID, view, uncertain>>
  <2> SUFFICES ASSUME NEW m \in Missions \ uncertain PROVE Lease(m)'
    BY <1>3 DEF Leases
  <2>1. Lease(m)
    BY DEF Leases
  <2>2. \A s \in Asked : Flies(m, s)' <=> Flies(m, s)
    BY <1>3 DEF Flies, Concerns
  <2> QED
    BY <1>3, <2>1, <2>2, OtherLease
<1>4. CASE ConnectionLost
  <2> SUFFICES ASSUME NEW m \in Missions \ uncertain PROVE Lease(m)'
    BY <1>4 DEF ConnectionLost, Leases
  <2>1. Lease(m)
    BY DEF Leases
  <2>2. UNCHANGED <<request, activeMissionID, view>>
    BY <1>4 DEF ConnectionLost
  <2>3. \A s \in Asked : at'[s] = IF at[s] = "writing" THEN "done" ELSE at[s]
    BY <1>4 DEF ConnectionLost
  <2>4. \A s \in Asked : at[s] = "writing" => m \notin Concerns(request[s])
    BY AskedFields, ConcernsOf DEF Roles
  <2>5. \A s \in Asked : (Flies(m, s)' <=> Flies(m, s)) /\ (Flies(m, s) => at'[s] = at[s])
    BY <2>2, <2>3, <2>4 DEF Flies, Concerns
  <2> QED
    BY <2>1, <2>2, <2>5, OtherLease
<1>5. CASE DaemonRestarts
  <2> SUFFICES ASSUME NEW m \in Missions, m \notin view PROVE Lease(m)'
    BY <1>5 DEF DaemonRestarts, Leases
  <2>1. Asked' = Asked /\ \A s \in Asked : at'[s] = "done"
    BY <1>5 DEF DaemonRestarts, Asked
  <2>2. \A s \in Asked' : ~Flies(m, s)'
    BY <2>1 DEF Flies
  <2>3. m \notin view' /\ activeMissionID' # m
    BY <1>5, MissionAssumption DEF DaemonRestarts
  <2> QED
    BY <2>2, <2>3 DEF Lease
<1> QED
  BY <1>1, <1>2, <1>3, <1>4, <1>5
     DEF Next, ReadEvent, ExtensionActs, IssueFound, ScanCompletes, ConnectionBack, vars

-----------------------------------------------------------------------------
(* The active scan *)

\* What a longer queue holds.
LEMMA Appended ==
    ASSUME NEW S, NEW q \in Seq(S), NEW m \in S
    PROVE  /\ Append(q, m) \in Seq(S)
           /\ Len(q) \in Nat
           /\ Len(Append(q, m)) = Len(q) + 1
           /\ \A i \in 1..Len(q) : Append(q, m)[i] = q[i]
           /\ Append(q, m)[Len(q) + 1] = m
OBVIOUS

\* What is left of a queue without its head.
LEMMA Shortened ==
    ASSUME NEW S, NEW q \in Seq(S), q # <<>>
    PROVE  /\ Len(q) \in Nat \ {0}
           /\ Head(q) = q[1] /\ q[1] \in S
           /\ Tail(q) \in Seq(S)
           /\ Len(Tail(q)) = Len(q) - 1
           /\ \A i \in 1..Len(Tail(q)) : Tail(q)[i] = q[i + 1]
BY HeadTailProperties, EmptySeq, ElementOfSeq

\* What the step of a handler may touch.
LEMMA HandlerSteps ==
    ASSUME TypeOK, Named, NEW r \in Asked, Handle(r)
    PROVE  /\ UNCHANGED <<request, linked, events, scanning>>
           /\ \A s \in Asked \ {r} : at'[s] = at[s]
           /\ SendScanStart(r) \/ activeBurpScan' = activeBurpScan \/ ClearScanForMission(r)
           /\ SendScanStart(r) \/ latest' = latest
           /\ ClearScanForMission(r) \/ letGo' = letGo
           /\ WriteStart(r) \/ disturbed' = disturbed
           /\ WriteStart(r) \/ WriteCancel(r) \/ wire' = wire
           /\ at'[r] # "spawned"
           /\ at'[r] = "writing" => at[r] = "spawned"
BY DEF Handle, Probe, Grant, Deny, ClearScanForMission, ReleaseMission, Disconnect, Admit,
       CallReaches, CallReturns, SendScanStart, SendScanCancel, NotPaired, WriteStart,
       WriteCancel, AnswerGranted, Handles, TypeOK, leaseVars, scanVars, extensionVars, brainVars

\* A start that goes out is that of its scan; a cancel is none.
LEMMA WriteSteps ==
    ASSUME TypeOK, Named, NEW r \in Asked
    PROVE  /\ WriteStart(r) => /\ r \in Scans /\ at[r] = "writing" /\ at'[r] = "done"
                               /\ [do |-> "start", scan |-> r] \in Message
                               /\ wire' = Append(wire, [do |-> "start", scan |-> r])
           /\ WriteCancel(r) => \E m \in Message : m.do = "cancel" /\ wire' = Append(wire, m)
<1>1. request[r] \in Request /\ r \in Requests
  BY AskedFields
<1>2. CASE WriteStart(r)
  BY <1>1, <1>2 DEF WriteStart, Handles, WriteCancel, Scans, Message, TypeOK
<1>3. CASE WriteCancel(r)
  <2>1. request[r].scan \in Requests /\ request[r].what = "cancel"
    BY <1>1, <1>3, RequestFields DEF WriteCancel, Handles
  <2>2. /\ [do |-> "cancel", scan |-> request[r].scan] \in Message
        /\ [do |-> "cancel", scan |-> request[r].scan].do = "cancel"
        /\ wire' = Append(wire, [do |-> "cancel", scan |-> request[r].scan])
    BY <1>3, <2>1 DEF WriteCancel, Message
  <2>3. ~WriteStart(r)
    BY <2>1 DEF WriteStart, Handles
  <2> QED
    BY <2>2, <2>3
<1> QED
  BY <1>2, <1>3

\* The extension takes the first message and tells one event, about its scan.
LEMMA ActSteps ==
    ASSUME TypeOK, ExtensionActs
    PROVE  \E m \in Message, e \in {"started", "cancelled", "failed"} :
               /\ wire # <<>> /\ m = wire[1]
               /\ wire' = Tail(wire)
               /\ [event |-> e, scan |-> m.scan] \in Event
               /\ events' = Append(events, [event |-> e, scan |-> m.scan])
               /\ e = "started" => m.do = "start" /\ scanning' = scanning \union {m.scan}
               /\ e = "cancelled" => m.do = "cancel" /\ scanning' = scanning \ {m.scan}
               /\ e = "failed" => scanning' = scanning
<1> DEFINE m == Head(wire)
<1>1. m \in Message /\ m = wire[1] /\ wire # <<>>
  BY Shortened DEF ExtensionActs, TypeOK
<1>2. \A e \in {"started", "cancelled", "failed"} : [event |-> e, scan |-> m.scan] \in Event
  BY <1>1 DEF Message, Event
<1>3. CASE m.do = "start" /\ scanning' = scanning \union {m.scan} /\ Tell("started", m.scan)
  BY <1>1, <1>2, <1>3 DEF ExtensionActs, Tell
<1>4. CASE m.do = "cancel" /\ scanning' = scanning \ {m.scan} /\ Tell("cancelled", m.scan)
  BY <1>1, <1>2, <1>4 DEF ExtensionActs, Tell
<1>5. CASE Tell("failed", m.scan) /\ UNCHANGED scanning
  BY <1>1, <1>2, <1>5 DEF ExtensionActs, Tell
<1> QED
  BY <1>3, <1>4, <1>5 DEF ExtensionActs

\* Only a scan that was started is told of.
LEMMA StepFresh == TypeOK /\ Named /\ Fresh /\ [Next]_vars => Fresh'
<1> SUFFICES ASSUME TypeOK, Named, Fresh, [Next]_vars,
                    NEW k \in Scans', at'[k] \in {"spawned", "writing"}
             PROVE  /\ k \notin scanning'
                    /\ \A i \in 1..Len(wire') : wire'[i] # [do |-> "start", scan |-> k]
                    /\ \A i \in 1..Len(events') :
                           events'[i] \notin {[event |-> "started", scan |-> k],
                                              [event |-> "issue", scan |-> k]}
  BY DEF Fresh
<1> USE DEF leaseVars, scanVars, extensionVars, brainVars
<1>0. wire \in Seq(Message) /\ events \in Seq(Event)
  BY DEF TypeOK
<1>1. ASSUME NEW q \in Request, Ask(q) PROVE k \in Scans => at[k] \in {"spawned", "writing"}
  BY <1>1, AskAppends DEF Scans
<1>2. CASE \E q \in Request : Ask(q)
  <2>1. UNCHANGED <<wire, events, scanning>>
    BY <1>2 DEF Ask
  <2>2. CASE k \in Scans
    BY <1>1, <1>2, <2>1, <2>2 DEF Fresh
  <2>3. CASE k \notin Scans
    <3>1. /\ k \notin scanning /\ \A i \in 1..Len(wire) : wire[i].scan # k
          /\ \A i \in 1..Len(events) : events[i].scan # k
      BY <2>3 DEF Named
    <3> QED
      BY <2>1, <3>1
  <2> QED
    BY <2>2, <2>3
<1>3. ASSUME request' = request, at[k] \in {"spawned", "writing"}
      PROVE  /\ k \in Scans /\ k \notin scanning
             /\ \A i \in 1..Len(wire) : wire[i] # [do |-> "start", scan |-> k]
             /\ \A i \in 1..Len(events) :
                    events[i] \notin {[event |-> "started", scan |-> k],
                                      [event |-> "issue", scan |-> k]}
  BY <1>3 DEF Fresh, Scans, Asked
<1>4. ASSUME NEW r \in Asked, Handle(r)
      PROVE  /\ request' = request /\ at[k] \in {"spawned", "writing"}
             /\ \A i \in 1..Len(wire') : wire'[i] # [do |-> "start", scan |-> k]
  <2>1. request' = request /\ k \in Asked /\ at[k] \in {"spawned", "writing"}
    BY <1>4, HandlerSteps DEF Scans, Asked
  <2>2. \A i \in 1..Len(wire) : wire[i] # [do |-> "start", scan |-> k]
    BY <1>3, <2>1
  <2>3. CASE WriteStart(r)
    <3>1. r # k /\ [do |-> "start", scan |-> r] # [do |-> "start", scan |-> k]
      <4>1. r # k
        BY <2>3, WriteSteps
      <4>2. [do |-> "start", scan |-> r].scan = r /\ [do |-> "start", scan |-> k].scan = k
        OBVIOUS
      <4> QED
        BY <4>1, <4>2
    <3> QED
      BY <1>0, <2>1, <2>2, <2>3, <3>1, WriteSteps, Appended
  <2>4. CASE WriteCancel(r)
    <3>1. PICK m \in Message : m.do = "cancel" /\ wire' = Append(wire, m)
      BY <2>4, WriteSteps
    <3>2. m # [do |-> "start", scan |-> k]
      BY <3>1
    <3> QED
      BY <1>0, <2>1, <2>2, <3>1, <3>2, Appended
  <2> QED
    BY <1>4, <2>1, <2>2, <2>3, <2>4, HandlerSteps
<1>5. CASE \E r \in Asked : Handle(r)
  BY <1>3, <1>4, <1>5, HandlerSteps
<1>6. CASE ReadEvent
  <2>1. \A i \in 1..Len(Tail(events)) : i + 1 \in 1..Len(events) /\ Tail(events)[i] = events[i + 1]
    BY <1>0, <1>6, Shortened DEF ReadEvent
  <2> QED
    BY <1>3, <1>6, <2>1 DEF ReadEvent
<1>7. CASE ExtensionActs
  <2>1. PICK m \in Message, e \in {"started", "cancelled", "failed"} :
            /\ wire # <<>> /\ m = wire[1]
            /\ wire' = Tail(wire)
            /\ [event |-> e, scan |-> m.scan] \in Event
            /\ events' = Append(events, [event |-> e, scan |-> m.scan])
            /\ e = "started" => m.do = "start" /\ scanning' = scanning \union {m.scan}
            /\ e = "cancelled" => m.do = "cancel" /\ scanning' = scanning \ {m.scan}
            /\ e = "failed" => scanning' = scanning
    BY <1>7, ActSteps
  <2>2. /\ request' = request /\ k \in Scans /\ k \notin scanning
        /\ \A i \in 1..Len(wire) : wire[i] # [do |-> "start", scan |-> k]
        /\ \A i \in 1..Len(events) :
               events[i] \notin {[event |-> "started", scan |-> k],
                                 [event |-> "issue", scan |-> k]}
    BY <1>3, <1>7 DEF ExtensionActs
  <2>3. \A i \in 1..Len(Tail(wire)) : i + 1 \in 1..Len(wire) /\ Tail(wire)[i] = wire[i + 1]
    BY <1>0, <2>1, Shortened
  <2>4. 1 \in 1..Len(wire) /\ m = [do |-> m.do, scan |-> m.scan]
    BY <1>0, <2>1, Shortened DEF Message
  <2>5. e = "started" => m.scan # k
    BY <2>1, <2>2, <2>4
  <2>6. [event |-> e, scan |-> m.scan] \notin {[event |-> "started", scan |-> k],
                                               [event |-> "issue", scan |-> k]}
    <3> DEFINE told == [event |-> e, scan |-> m.scan]
    <3>1. told.event = e /\ told.scan = m.scan
      OBVIOUS
    <3>2. \A x : [event |-> x, scan |-> k].event = x /\ [event |-> x, scan |-> k].scan = k
      OBVIOUS
    <3> HIDE DEF told
    <3> QED
      BY <2>5, <3>1, <3>2 DEF told
  <2> QED
    BY <1>0, <2>1, <2>2, <2>3, <2>5, <2>6, Appended
<1>8. ASSUME NEW j \in Scans, IssueFound(j) \/ ScanCompletes(j) PROVE
             /\ k \notin scanning'
             /\ \A i \in 1..Len(wire') : wire'[i] # [do |-> "start", scan |-> k]
             /\ \A i \in 1..Len(events') :
                    events'[i] \notin {[event |-> "started", scan |-> k],
                                       [event |-> "issue", scan |-> k]}
  <2>1. request' = request /\ at' = at /\ wire' = wire
    BY <1>8 DEF IssueFound, ScanCompletes
  <2>2. CASE ScanCompletes(j)
    BY <1>3, <2>1, <2>2 DEF ScanCompletes
  <2>3. CASE IssueFound(j)
    <3>1. j # k
      BY <1>3, <2>1, <2>3 DEF IssueFound
    <3>2. [event |-> "issue", scan |-> j] \in Event
      BY <1>8, AskedFields DEF Scans, Event
    <3>3. [event |-> "issue", scan |-> j] \notin {[event |-> "started", scan |-> k],
                                                  [event |-> "issue", scan |-> k]}
      <4>1. \A x, y : [event |-> x, scan |-> y].event = x /\ [event |-> x, scan |-> y].scan = y
        OBVIOUS
      <4> QED
        BY <3>1, <4>1
    <3> QED
      BY <1>0, <1>3, <2>1, <2>3, <3>2, <3>3, Appended DEF IssueFound, Tell
  <2> QED
    BY <1>8, <2>2, <2>3
<1>9. CASE ConnectionLost \/ DaemonRestarts
  BY <1>3, <1>9, EmptySeq DEF ConnectionLost, DaemonRestarts, Scans, Asked
<1>10. CASE ConnectionBack \/ UNCHANGED vars
  BY <1>3, <1>10 DEF ConnectionBack, vars
<1> QED
  BY <1>2, <1>5, <1>6, <1>7, <1>8, <1>9, <1>10 DEF Next

\* The scan started last was started, and is not started again.
LEMMA StepLatest == TypeOK /\ Named /\ Latest /\ [Next]_vars => Latest'
<1> SUFFICES ASSUME TypeOK, Named, Latest, [Next]_vars, latest' # None
             PROVE  latest' \in Scans' /\ at'[latest'] # "spawned"
  BY DEF Latest
<1> USE DEF leaseVars, scanVars, extensionVars, brainVars
<1>1. ASSUME NEW q \in Request, Ask(q) PROVE latest' \in Scans' /\ at'[latest'] # "spawned"
  BY <1>1, AskAppends DEF Ask, Latest, Scans
<1>2. ASSUME NEW r \in Asked, Handle(r) PROVE latest' \in Scans' /\ at'[latest'] # "spawned"
  <2>1. request' = request /\ at'[r] # "spawned" /\ \A s \in Asked \ {r} : at'[s] = at[s]
    BY <1>2, HandlerSteps
  <2>2. SendScanStart(r) => latest' = r /\ r \in Scans
    BY DEF SendScanStart, Handles, Scans
  <2>3. ~SendScanStart(r) => latest' = latest
    BY <1>2, HandlerSteps
  <2> QED
    BY <2>1, <2>2, <2>3 DEF Latest, Scans, Asked
<1>3. CASE ConnectionLost \/ DaemonRestarts
  BY <1>3 DEF ConnectionLost, DaemonRestarts, Latest, Scans, Asked
<1>4. CASE UNCHANGED <<request, at, latest>>
  BY <1>4 DEF Latest, Scans, Asked
<1> QED
  BY <1>1, <1>2, <1>3, <1>4
     DEF Next, ReadEvent, ExtensionActs, IssueFound, ScanCompletes, ConnectionBack, vars

\* A record that names a scan goes on to, if events are told behind that do not unname it.
LEMMA SameNames ==
    ASSUME NEW k \in Scans, NEW j \in Nat, Names(k, j), request'[k] = request[k],
           activeBurpScan = Started(k) => activeBurpScan' = Started(k),
           \A i \in 1..(j - 1) : events'[i] = events[i]
    PROVE  Names(k, j)'
<1>1. Started(k)' = Started(k)
  BY DEF Started, MissionOf
<1>2. PICK i \in 0..(j - 1) :
        /\ IF i = 0 THEN activeBurpScan = Started(k)
                    ELSE events[i] = [event |-> "started", scan |-> k]
        /\ \A l \in (i + 1)..(j - 1) : /\ events[l].event # "started"
                                       /\ events[l] # [event |-> "cancelled", scan |-> k]
  BY DEF Names
<1>3. IF i = 0 THEN activeBurpScan' = Started(k)'
               ELSE events'[i] = [event |-> "started", scan |-> k]
  BY <1>1, <1>2
<1>4. \A l \in (i + 1)..(j - 1) : /\ events'[l].event # "started"
                                  /\ events'[l] # [event |-> "cancelled", scan |-> k]
  BY <1>2
<1> QED
  BY <1>3, <1>4 DEF Names

\* Nothing under way changes, and the record only for another scan's sake.
LEMMA SameAttributed ==
    ASSUME NEW k \in Scans, Attributed(k), request'[k] = request[k], TypeOK,
           wire' = wire, events' = events, k \in scanning' => k \in scanning,
           activeBurpScan = Started(k) => activeBurpScan' = Started(k)
    PROVE  Attributed(k)'
<1>1. Len(events) \in Nat
  BY DEF TypeOK
<1>2. \A j \in 1..(Len(events) + 1) : Names(k, j) => Names(k, j)'
  BY <1>1, SameNames
<1> QED
  BY <1>2 DEF Attributed

\* A scan that goes out last has no start behind it, and nothing was told of it yet.
LEMMA WriteAttributed ==
    ASSUME TypeOK, Named, Fresh, NEW k \in Scans, Attributed(k), NEW r \in Asked,
           (WriteStart(r) /\ r = k) \/ WriteCancel(r)
    PROVE  Attributed(k)'
<1> USE DEF leaseVars, scanVars, extensionVars, brainVars
<1>0. wire \in Seq(Message) /\ Len(wire) \in Nat /\ Len(events) \in Nat
  BY DEF TypeOK
<1>1. UNCHANGED <<request, events, scanning, activeBurpScan>>
  BY DEF WriteStart, WriteCancel
<1>2. PICK m \in Message :
        /\ wire' = Append(wire, m)
        /\ m.do = "cancel" \/ (/\ m = [do |-> "start", scan |-> k] /\ k \notin scanning
                               /\ \A i \in 1..Len(wire) : wire[i] # [do |-> "start", scan |-> k])
  <2>1. CASE WriteStart(r) /\ r = k
    BY <2>1, WriteSteps DEF Fresh
  <2>2. CASE WriteCancel(r)
    BY <2>2, WriteSteps
  <2> QED
    BY <2>1, <2>2
<1>3. /\ Len(wire') = Len(wire) + 1 /\ wire'[Len(wire) + 1] = m
      /\ \A i \in 1..Len(wire) : wire'[i] = wire[i]
  BY <1>0, <1>2, Appended
<1>4. m.do = "cancel" => m # [do |-> "start", scan |-> k]
  OBVIOUS
<1>5. ASSUME NEW i \in 1..Len(wire'), NEW j \in 1..Len(wire'), i < j,
             wire'[i] = [do |-> "start", scan |-> k]
      PROVE  wire'[j].do # "start"
  <2>1. i \in 1..Len(wire) /\ wire[i] = [do |-> "start", scan |-> k]
    BY <1>0, <1>3, <1>5
  <2>2. m.do = "cancel"
    BY <1>2, <2>1
  <2>3. CASE j \in 1..Len(wire)
    BY <1>3, <1>5, <2>1, <2>3 DEF Attributed
  <2>4. CASE j = Len(wire) + 1
    BY <1>3, <2>2, <2>4
  <2> QED
    BY <1>0, <1>3, <2>3, <2>4
<1>6. k \in scanning => \A i \in 1..Len(wire') : wire'[i].do # "start"
  <2>1. k \in scanning => m.do = "cancel" /\ \A i \in 1..Len(wire) : wire[i].do # "start"
    BY <1>2 DEF Attributed
  <2> QED
    BY <1>0, <1>3, <2>1
<1>7. \A j \in 1..(Len(events) + 1) : Names(k, j) => Names(k, j)'
  BY <1>0, <1>1, SameNames
<1> QED
  BY <1>1, <1>5, <1>6, <1>7 DEF Attributed

\* The next event is read: the record names the scan as it was to.
LEMMA ReadAttributed ==
    ASSUME TypeOK, Named, NEW k \in Scans, Attributed(k), ReadEvent
    PROVE  Attributed(k)'
<1> USE DEF leaseVars, scanVars, extensionVars, brainVars
<1>0. /\ events # <<>> /\ events \in Seq(Event) /\ Len(events) \in Nat \ {0}
      /\ Head(events) = events[1] /\ events[1] \in Event /\ Len(events') = Len(events) - 1
      /\ \A i \in 1..Len(events') : events'[i] = events[i + 1]
  BY Shortened DEF ReadEvent, TypeOK
<1>1. UNCHANGED <<request, wire, scanning>>
  BY DEF ReadEvent
<1>2. Started(k)' = Started(k) /\ Started(k).scan = k /\ Started(k) # None
  <2>1. Started(k) \in Record
    BY AskedFields, RequestFields DEF Started, MissionOf, Record, Scans
  <2> QED
    BY <1>1, <2>1, MissionAssumption DEF Started, MissionOf
<1>3. events[1] = [event |-> "started", scan |-> k] => activeBurpScan' = Started(k)
  BY <1>0 DEF ReadEvent
<1>4. /\ activeBurpScan = Started(k) /\ events[1].event # "started"
      /\ events[1] # [event |-> "cancelled", scan |-> k]
      => activeBurpScan' = Started(k)
  <2> SUFFICES ASSUME activeBurpScan = Started(k), events[1].event # "started",
                      events[1] # [event |-> "cancelled", scan |-> k]
               PROVE  activeBurpScan' = Started(k)
    OBVIOUS
  <2>1. /\ events[1].event \in {"cancelled", "failed", "issue"}
        /\ events[1] = [event |-> events[1].event, scan |-> events[1].scan]
    BY <1>0 DEF Event
  <2>2. events[1].event = "cancelled" => events[1].scan # k
    BY <2>1
  <2>3. events[1].event = "cancelled" => activeBurpScan' = Cancelled(events[1].scan)
    BY <1>0 DEF ReadEvent
  <2>4. events[1].event = "failed" => activeBurpScan' = Failed(events[1].scan)
    BY <1>0 DEF ReadEvent
  <2>5. events[1].event = "issue" => activeBurpScan' = activeBurpScan
    BY <1>0 DEF ReadEvent
  <2> QED
    BY <1>2, <2>1, <2>2, <2>3, <2>4, <2>5 DEF Cancelled, Failed
<1>5. ASSUME NEW j \in 2..(Len(events) + 1), Names(k, j) PROVE Names(k, j - 1)'
  <2>1. PICK i \in 0..(j - 1) :
          /\ IF i = 0 THEN activeBurpScan = Started(k)
                      ELSE events[i] = [event |-> "started", scan |-> k]
          /\ \A l \in (i + 1)..(j - 1) : /\ events[l].event # "started"
                                         /\ events[l] # [event |-> "cancelled", scan |-> k]
    BY <1>5 DEF Names
  <2>2. ASSUME NEW h \in 0..(j - 2), i <= h + 1
        PROVE  \A l \in (h + 1)..(j - 2) : /\ events'[l].event # "started"
                                           /\ events'[l] # [event |-> "cancelled", scan |-> k]
    <3> SUFFICES ASSUME NEW l \in (h + 1)..(j - 2)
                 PROVE  /\ events'[l].event # "started"
                        /\ events'[l] # [event |-> "cancelled", scan |-> k]
      OBVIOUS
    <3>1. l + 1 \in (i + 1)..(j - 1) /\ l \in 1..Len(events')
      BY <1>0, <2>2
    <3>2. events'[l] = events[l + 1]
      BY <1>0, <3>1
    <3> QED
      BY <2>1, <3>1, <3>2
  <2>3. CASE i \in {0, 1}
    <3>1. activeBurpScan' = Started(k)
      <4>1. CASE i = 0
        BY <1>4, <2>1, <4>1
      <4>2. CASE i = 1
        BY <1>3, <2>1, <4>2
      <4> QED
        BY <2>3, <4>1, <4>2
    <3>2. \A l \in (0 + 1)..((j - 1) - 1) : /\ events'[l].event # "started"
                                            /\ events'[l] # [event |-> "cancelled", scan |-> k]
      BY <2>2, <2>3
    <3>3. 0 \in 0..((j - 1) - 1)
      OBVIOUS
    <3> QED
      BY <1>2, <3>1, <3>2, <3>3 DEF Names
  <2>4. CASE i \notin {0, 1}
    <3>1. i - 1 \in 1..Len(events') /\ i - 1 \in 0..((j - 1) - 1) /\ i - 1 # 0
      BY <1>0, <2>4
    <3>2. events'[i - 1] = [event |-> "started", scan |-> k]
      BY <1>0, <2>1, <2>4, <3>1
    <3>3. \A l \in ((i - 1) + 1)..((j - 1) - 1) :
              /\ events'[l].event # "started"
              /\ events'[l] # [event |-> "cancelled", scan |-> k]
      BY <2>2, <3>1
    <3> QED
      BY <3>1, <3>2, <3>3 DEF Names
  <2> QED
    BY <2>3, <2>4
<1>6. ASSUME NEW j \in 1..(Len(events') + 1),
             IF j = Len(events') + 1 THEN k \in scanning
                                     ELSE events'[j] = [event |-> "issue", scan |-> k]
      PROVE  Names(k, j)'
  <2> DEFINE n == j + 1
  <2>1. n \in 2..(Len(events) + 1) /\ n - 1 = j
    BY <1>0
  <2>2. IF n = Len(events) + 1 THEN k \in scanning
                               ELSE events[n] = [event |-> "issue", scan |-> k]
    BY <1>0, <1>6
  <2> HIDE DEF n
  <2>3. Names(k, n)
    BY <1>0, <2>1, <2>2 DEF Attributed
  <2>4. Names(k, n - 1)'
    BY <1>5, <2>1, <2>3
  <2> QED
    BY <2>1, <2>4
<1> QED
  BY <1>1, <1>6 DEF Attributed

\* What the extension tells behind what it told keeps the names of what is to be read.
LEMMA ToldAttributed ==
    ASSUME TypeOK, NEW k \in Scans, Attributed(k), NEW e \in Event,
           events' = Append(events, e), request' = request, activeBurpScan' = activeBurpScan,
           \A i, j \in 1..Len(wire') :
               wire'[i] = [do |-> "start", scan |-> k] /\ i < j => wire'[j].do # "start",
           k \in scanning' => \A i \in 1..Len(wire') : wire'[i].do # "start",
           e = [event |-> "issue", scan |-> k] => k \in scanning,
           k \in scanning' => \/ e = [event |-> "started", scan |-> k]
                              \/ /\ k \in scanning
                                 /\ e.event # "started"
                                 /\ e # [event |-> "cancelled", scan |-> k]
    PROVE  Attributed(k)'
<1>0. /\ events \in Seq(Event) /\ Len(events) \in Nat /\ Len(events') = Len(events) + 1
      /\ \A i \in 1..Len(events) : events'[i] = events[i]
      /\ events'[Len(events) + 1] = e
  BY Appended DEF TypeOK
<1>1. \A j \in 1..(Len(events) + 1) : Names(k, j) => Names(k, j)'
  BY <1>0, SameNames
<1>2. ASSUME NEW j \in 1..Len(events'), events'[j] = [event |-> "issue", scan |-> k]
      PROVE  Names(k, j)'
  <2>1. Names(k, j)
    BY <1>0, <1>2 DEF Attributed
  <2> QED
    BY <1>0, <1>1, <2>1
<1>3. ASSUME k \in scanning', NEW n \in Nat, n = Len(events') PROVE Names(k, n + 1)'
  <2>0. n = Len(events) + 1 /\ n # 0 /\ n \in 0..((n + 1) - 1) /\ events'[n] = e
    BY <1>0, <1>3
  <2>1. CASE e = [event |-> "started", scan |-> k]
    <3>1. \A l \in (n + 1)..((n + 1) - 1) : FALSE
      BY <2>0
    <3> QED
      BY <2>0, <2>1, <3>1 DEF Names
  <2>2. CASE e # [event |-> "started", scan |-> k]
    <3>1. e.event # "started" /\ e # [event |-> "cancelled", scan |-> k] /\ k \in scanning
      BY <1>3, <2>2
    <3>2. Names(k, n)
      BY <1>0, <2>0, <3>1 DEF Attributed
    <3>3. Names(k, n)'
      BY <1>0, <1>1, <2>0, <3>2
    <3>4. PICK i \in 0..(n - 1) :
            /\ IF i = 0 THEN activeBurpScan' = Started(k)'
                        ELSE events'[i] = [event |-> "started", scan |-> k]
            /\ \A l \in (i + 1)..(n - 1) : /\ events'[l].event # "started"
                                           /\ events'[l] # [event |-> "cancelled", scan |-> k]
      BY <3>3 DEF Names
    <3>5. \A l \in (i + 1)..((n + 1) - 1) : l \in (i + 1)..(n - 1) \/ l = n
      BY <2>0
    <3>6. i \in 0..((n + 1) - 1)
      BY <2>0
    <3>7. \A l \in (i + 1)..((n + 1) - 1) : /\ events'[l].event # "started"
                                            /\ events'[l] # [event |-> "cancelled", scan |-> k]
      BY <2>0, <3>1, <3>4, <3>5
    <3> QED
      BY <3>4, <3>6, <3>7 DEF Names
  <2> QED
    BY <2>1, <2>2
<1>4. ASSUME NEW j \in 1..(Len(events') + 1),
             IF j = Len(events') + 1 THEN k \in scanning'
                                     ELSE events'[j] = [event |-> "issue", scan |-> k]
      PROVE  Names(k, j)'
  <2>1. CASE j = Len(events') + 1
    <3>1. PICK n \in Nat : n = Len(events')
      BY <1>0
    <3>2. Names(k, n + 1)' /\ j = n + 1
      BY <1>3, <1>4, <2>1, <3>1
    <3> QED
      BY <3>2
  <2>2. CASE j # Len(events') + 1
    BY <1>0, <1>2, <1>4, <2>2
  <2> QED
    BY <2>1, <2>2
<1> QED
  BY <1>4 DEF Attributed

\* The extension starts scans in the order their starts were written, and tells so.
LEMMA ActsAttributed ==
    ASSUME TypeOK, NEW k \in Scans, Attributed(k), ExtensionActs
    PROVE  Attributed(k)'
<1> USE DEF leaseVars, scanVars, extensionVars, brainVars
<1>1. PICK m \in Message, e \in {"started", "cancelled", "failed"} :
          /\ wire # <<>> /\ m = wire[1]
          /\ wire' = Tail(wire)
          /\ [event |-> e, scan |-> m.scan] \in Event
          /\ events' = Append(events, [event |-> e, scan |-> m.scan])
          /\ e = "started" => m.do = "start" /\ scanning' = scanning \union {m.scan}
          /\ e = "cancelled" => m.do = "cancel" /\ scanning' = scanning \ {m.scan}
          /\ e = "failed" => scanning' = scanning
  BY ActSteps
<1>2. /\ Len(wire) \in Nat \ {0} /\ Len(wire') = Len(wire) - 1
      /\ \A i \in 1..Len(wire') : i + 1 \in 1..Len(wire) /\ wire'[i] = wire[i + 1]
      /\ m = [do |-> m.do, scan |-> m.scan]
  <2>1. wire \in Seq(Message)
    BY DEF TypeOK
  <2> QED
    BY <1>1, <2>1, Shortened DEF Message
<1>3. ASSUME NEW i \in 1..Len(wire'), NEW j \in 1..Len(wire'), i < j,
             wire'[i] = [do |-> "start", scan |-> k]
      PROVE  wire'[j].do # "start"
  BY <1>2, <1>3 DEF Attributed
<1>4. k \in scanning => m.do # "start" /\ \A i \in 1..Len(wire') : wire'[i].do # "start"
  BY <1>1, <1>2 DEF Attributed
<1>5. ASSUME m = [do |-> "start", scan |-> k], NEW i \in 1..Len(wire') PROVE wire'[i].do # "start"
  <2>1. 1 \in 1..Len(wire) /\ i + 1 \in 1..Len(wire) /\ 1 < i + 1
    BY <1>2
  <2> QED
    BY <1>1, <1>2, <1>5, <2>1 DEF Attributed
<1>6. k \in scanning' => \A i \in 1..Len(wire') : wire'[i].do # "start"
  BY <1>1, <1>2, <1>4, <1>5
<1>7. [event |-> e, scan |-> m.scan] # [event |-> "issue", scan |-> k]
  <2>1. [event |-> e, scan |-> m.scan].event # [event |-> "issue", scan |-> k].event
    OBVIOUS
  <2> QED
    BY <2>1
<1>8. k \in scanning' => \/ [event |-> e, scan |-> m.scan] = [event |-> "started", scan |-> k]
                         \/ /\ k \in scanning
                            /\ [event |-> e, scan |-> m.scan].event # "started"
                            /\ [event |-> e, scan |-> m.scan] # [event |-> "cancelled", scan |-> k]
  <2>1. CASE e = "started"
    BY <1>1, <1>4, <2>1
  <2>2. CASE e = "cancelled"
    <3>1. k \in scanning' => k \in scanning /\ m.scan # k
      BY <1>1, <2>2
    <3>2. [event |-> e, scan |-> m.scan].scan = m.scan /\ [event |-> "cancelled", scan |-> k].scan = k
      OBVIOUS
    <3> QED
      BY <2>2, <3>1, <3>2
  <2>3. CASE e = "failed"
    BY <1>1, <2>3
  <2> QED
    BY <2>1, <2>2, <2>3
<1>9. request' = request /\ activeBurpScan' = activeBurpScan
  BY DEF ExtensionActs
<1> DEFINE told == [event |-> e, scan |-> m.scan]
<1> HIDE DEF told
<1> QED
  BY <1>1, <1>3, <1>6, <1>7, <1>8, <1>9, ToldAttributed DEF told

\* The scan started last goes on to have its issues attributed, or was disturbed or let go.
LEMMA StepAttributes ==
    TypeOK /\ Named /\ Fresh /\ Latest /\ Attributes /\ [Next]_vars => Attributes'
<1> SUFFICES ASSUME TypeOK, Named, Fresh, Latest, Attributes, [Next]_vars,
                    NEW k \in Scans', k = latest', k \notin letGo', ~disturbed'
             PROVE  Attributed(k)'
  BY DEF Attributes
<1> USE DEF leaseVars, scanVars, extensionVars, brainVars
<1>0. ASSUME latest' = latest, letGo \subseteq letGo', disturbed => disturbed', request' = request
      PROVE  k \in Scans /\ k = latest /\ Attributed(k)
  BY <1>0 DEF Attributes, Scans, Asked
<1>1. ASSUME NEW q \in Request, Ask(q) PROVE Attributed(k)'
  <2>1. k = latest /\ k \in Asked'
    BY <1>1 DEF Ask, Scans
  <2>2. k # None
    <3>1. Len(request') <= MaxRequests /\ Len(request') \in Nat
      BY <1>1, AskAppends, MissionAssumption DEF Ask
    <3>2. k \in Requests
      BY <2>1, <3>1, MissionAssumption DEF Asked, Requests
    <3> QED
      BY <3>2, MissionAssumption
  <2>3. k \in Scans
    BY <2>1, <2>2 DEF Latest
  <2>4. Attributed(k) /\ request'[k] = request[k]
    BY <1>1, <2>1, <2>3, AskAppends DEF Ask, Attributes, Scans
  <2> QED
    BY <1>1, <2>3, <2>4, SameAttributed DEF Ask
<1>2. ASSUME NEW r \in Asked, SendScanStart(r) PROVE Attributed(k)'
  <2>1. /\ k = r /\ r \in Scans /\ at[r] = "spawned"
        /\ UNCHANGED <<wire, events, scanning>>
    BY <1>2 DEF SendScanStart, Handles, Scans
  <2>2. Attributed(r)'
    BY <2>1 DEF Fresh, Attributed
  <2> QED
    BY <2>1, <2>2
<1>3. ASSUME NEW r \in Asked, ClearScanForMission(r) PROVE Attributed(k)'
  <2>1. /\ latest' = latest /\ disturbed' = disturbed
        /\ letGo' = letGo \union {j \in Scans : MissionOf(j) = MissionOf(r) /\ at[j] # "spawned"}
        /\ UNCHANGED <<request, wire, events, scanning>>
    BY <1>3 DEF ClearScanForMission
  <2>2. k \in Scans /\ k = latest /\ Attributed(k)
    BY <1>0, <2>1
  <2>3. MissionOf(k) # MissionOf(r)
    <3>1. k \in Requests /\ k # None
      BY <2>2, AskedFields, MissionAssumption DEF Scans
    <3> QED
      BY <2>1, <2>2, <3>1 DEF Latest
  <2>4. activeBurpScan = Started(k) => activeBurpScan' = activeBurpScan
    BY <1>3, <2>3 DEF ClearScanForMission, ClearsScan, Started
  <2> QED
    BY <2>1, <2>2, <2>4, SameAttributed
<1>4. ASSUME NEW r \in Asked, Handle(r), ~SendScanStart(r), ~ClearScanForMission(r)
      PROVE  Attributed(k)'
  <2>1. /\ latest' = latest /\ letGo' = letGo
        /\ activeBurpScan' = activeBurpScan
        /\ UNCHANGED <<request, events, scanning>>
    BY <1>4, HandlerSteps
  <2>2. disturbed => disturbed'
    BY <1>4, HandlerSteps DEF WriteStart
  <2>3. k \in Scans /\ k = latest /\ Attributed(k)
    BY <1>0, <2>1, <2>2
  <2>4. CASE WriteStart(r)
    <3>1. r = k
      BY <2>3, <2>4 DEF WriteStart
    <3>2. Attributed(k)'
      BY <2>3, <2>4, <3>1, WriteAttributed
    <3> QED
      BY <2>1, <3>2
  <2>5. CASE WriteCancel(r)
    BY <2>1, <2>3, <2>5, WriteAttributed
  <2>6. CASE wire' = wire
    BY <2>1, <2>3, <2>6, SameAttributed
  <2> QED
    BY <1>4, <2>4, <2>5, <2>6, HandlerSteps
<1>5. CASE ReadEvent
  <2>1. k \in Scans /\ k = latest /\ Attributed(k)
    BY <1>0, <1>5 DEF ReadEvent
  <2> QED
    BY <1>5, <2>1, ReadAttributed
<1>6. CASE ExtensionActs
  <2>1. k \in Scans /\ k = latest /\ Attributed(k)
    BY <1>0, <1>6 DEF ExtensionActs
  <2> QED
    BY <1>6, <2>1, ActsAttributed
<1>7. ASSUME NEW j \in Scans, IssueFound(j) PROVE Attributed(k)'
  <2>1. k \in Scans /\ k = latest /\ Attributed(k)
    BY <1>0, <1>7 DEF IssueFound
  <2>2. [event |-> "issue", scan |-> j] \in Event
    BY AskedFields DEF Scans, Event
  <2>3. /\ [event |-> "issue", scan |-> j] = [event |-> "issue", scan |-> k]
              => k \in scanning
        /\ [event |-> "issue", scan |-> j].event # "started"
        /\ [event |-> "issue", scan |-> j] # [event |-> "cancelled", scan |-> k]
    <3>1. \A x, y : [event |-> x, scan |-> y].event = x /\ [event |-> x, scan |-> y].scan = y
      OBVIOUS
    <3>2. j \in scanning
      BY <1>7 DEF IssueFound
    <3>3. j # k => [event |-> "issue", scan |-> j] # [event |-> "issue", scan |-> k]
      BY <3>1
    <3>4. [event |-> "issue", scan |-> j].event # [event |-> "cancelled", scan |-> k].event
      BY <3>1
    <3> QED
      BY <3>1, <3>2, <3>3, <3>4
  <2>4. /\ UNCHANGED <<request, wire, scanning, activeBurpScan>>
        /\ events' = Append(events, [event |-> "issue", scan |-> j])
    BY <1>7 DEF IssueFound, Tell
  <2>5. /\ \A i, h \in 1..Len(wire) :
               wire[i] = [do |-> "start", scan |-> k] /\ i < h => wire[h].do # "start"
        /\ k \in scanning => \A i \in 1..Len(wire) : wire[i].do # "start"
    BY <2>1 DEF Attributed
  <2>6. Attributed(k)'
    BY <2>1, <2>2, <2>3, <2>4, <2>5, ToldAttributed
  <2> QED
    BY <2>1, <2>6
<1>8. ASSUME NEW j \in Scans, ScanCompletes(j) PROVE Attributed(k)'
  <2>1. k \in Scans /\ k = latest /\ Attributed(k)
    BY <1>0, <1>8 DEF ScanCompletes
  <2> QED
    BY <1>8, <2>1, SameAttributed DEF ScanCompletes
<1>9. CASE ConnectionLost
  <2>1. k \in Scans /\ k = latest /\ Attributed(k)
    BY <1>0, <1>9 DEF ConnectionLost
  <2>2. wire' = wire /\ events' = events
    BY <1>9 DEF ConnectionLost
  <2> QED
    BY <1>9, <2>1, <2>2, SameAttributed DEF ConnectionLost
<1>10. CASE DaemonRestarts
  <2>1. k \in Scans /\ letGo' = letGo \union Scans
    BY <1>10 DEF DaemonRestarts, Scans, Asked
  <2> QED
    BY <2>1
<1>11. CASE ConnectionBack \/ UNCHANGED vars
  <2>1. k \in Scans /\ k = latest /\ Attributed(k)
    BY <1>0, <1>11 DEF ConnectionBack, vars
  <2> QED
    BY <1>11, <2>1, SameAttributed DEF ConnectionBack, vars
<1> QED
  BY <1>1, <1>2, <1>3, <1>4, <1>5, <1>6, <1>7, <1>8, <1>9, <1>10, <1>11 DEF Next

-----------------------------------------------------------------------------
(* Theorems *)

\* It holds at the start, when nothing was asked and nobody has Burp ...
LEMMA InitIInv == Init => IInv
<1> SUFFICES ASSUME Init PROVE IInv
  OBVIOUS
<1>1. Asked = {} /\ Len(request) = 0
  BY DEF Init, Asked
<1>2. TypeOK
  <2>1. request \in Seq(Request) /\ wire \in Seq(Message) /\ events \in Seq(Event)
    BY EmptySeq DEF Init
  <2>2. at \in [Asked -> Places]
    <3>1. at \in Seq(Places) /\ Len(at) = 0
      BY EmptySeq DEF Init
    <3> QED
      BY <1>1, <3>1
  <2> QED
    BY <2>1, <2>2 DEF Init, TypeOK
<1>3. Roles /\ CallsWithinLease
  BY <1>1 DEF Roles, CallsWithinLease
<1>4. Named
  BY <1>1, MissionAssumption DEF Init, Named
<1>5. Leases
  BY <1>1, MissionAssumption DEF Init, Leases, Lease
<1>6. Fresh /\ Latest /\ Attributes
  BY <1>1 DEF Init, Fresh, Scans, Latest, Attributes
<1> QED
  BY <1>2, <1>3, <1>4, <1>5, <1>6 DEF IInv

\* ... and every step keeps it.
THEOREM SpecIInv == Spec => []IInv
<1>1. Init => IInv
  BY InitIInv
<1>2. IInv /\ [Next]_vars => IInv'
  BY StepTypeOK, StepRoles, StepNamed, StepCalls, StepLeases, StepFresh, StepLatest,
     StepAttributes DEF IInv
<1> QED
  BY <1>1, <1>2, PTL DEF Spec

\* Every variable keeps its type.
THEOREM TypeCorrect == Spec => []TypeOK
<1>1. IInv => TypeOK
  BY DEF IInv
<1> QED
  BY <1>1, SpecIInv, PTL

\* No mission takes Burp from under a call of another: AcquireMission turns away whoever
\* does not hold it, so only the brain's own release or disconnect ends the lease of a call.
THEOREM Calls == Spec => []CallsWithinLease
<1>1. IInv => CallsWithinLease
  BY DEF IInv
<1> QED
  BY <1>1, SpecIInv, PTL

\* Brain and daemon agree on who has Burp when nothing about a mission is under way,
\* unless requests about it overtook one another or an answer was lost.
THEOREM Agreement == Spec => []LeaseAgrees
<1>1. IInv => LeaseAgrees
  BY DEF IInv, Leases, Lease, LeaseAgrees
<1> QED
  BY <1>1, SpecIInv, PTL

\* An issue of the scan started last is handed on as one of its own mission and scan, for any
\* number of requests and missions, unless its mission was released, the daemon restarted, two
\* starts went out in the other order or a connection was lost with messages under way.
THEOREM IssuesAttributed == Spec => []IssuesNameTheirMission
<1>1. IInv => IssuesNameTheirMission
  <2> SUFFICES ASSUME IInv, NEW k \in Scans,
                      events # <<>>, Head(events) = [event |-> "issue", scan |-> k],
                      k = latest, k \notin letGo, ~disturbed
               PROVE  Attribution = [mission |-> MissionOf(k), scan |-> k]
    BY DEF IssuesNameTheirMission
  <2>1. k \in Requests /\ MissionOf(k) \in Missions
    BY AskedFields, RequestFields DEF IInv, Scans, MissionOf
  <2>2. Attributed(k)
    BY DEF IInv, Attributes
  <2>3. 1 \in 1..Len(events) /\ Head(events) = events[1]
    BY Shortened DEF IInv, TypeOK
  <2>4. Names(k, 1)
    BY <2>2, <2>3 DEF Attributed
  <2>5. activeBurpScan = Started(k)
    BY <2>4 DEF Names
  <2>6. Started(k) \in Record
    BY <2>1 DEF Started, Record
  <2> QED
    BY <2>1, <2>5, <2>6, MissionAssumption DEF Attribution, Started
<1> QED
  BY <1>1, SpecIInv, PTL
=============================================================================
