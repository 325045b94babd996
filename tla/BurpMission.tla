---------------------------- MODULE BurpMission ----------------------------
(***************************************************************************)
(* The mission lease on Burp and the scan of a mission: Manager            *)
(* (internal/burp/manager.go) lends Burp to one mission at a time, and     *)
(* ExtensionServer (internal/burp/extension_server.go) keeps the active    *)
(* scan, whose record says which mission an issue found belongs to.        *)
(*                                                                         *)
(* Every message of the brain is handled by a goroutine of its own         *)
(* (internal/ws/client.go), so requests are overtaken by later ones, and   *)
(* an answer is sent after the unlock.  A scan is named by the request     *)
(* that starts it.  The status, target and times of a scan are left out:   *)
(* no decision reads them.                                                 *)
(***************************************************************************)
EXTENDS Naturals, Sequences

CONSTANTS
    Missions,     \* mission ids
    MaxRequests,  \* bound: messages of the brain
    None          \* no mission, no scan

Requests == 1..MaxRequests

\* What s.activeBurpScan points to.
Record == [mission : Missions \union {None}, scan : Requests]

ASSUME MissionAssumption ==
    MaxRequests \in Nat /\ None \notin Missions \union Requests \union Record

VARIABLES
    request,          \* what the brain asked for, in the order it asked
    at,               \* where the handler of each request is
    activeMissionID,  \* m.activeMissionID
    forwarder,        \* the proxy forwarder runs
    activeBurpScan,   \* s.activeBurpScan: a mission and a scan
    linked,           \* the extension is connected
    wire,             \* what is on its way to the extension
    events,           \* what is on its way back
    scanning,         \* the scans the extension runs
    view,             \* the missions the brain believes to hold Burp
    uncertain,        \* history: missions whose last exchange may have crossed another
    orphaned,         \* history: calls whose lease was given up under them
    latest,           \* history: the scan started last
    disturbed,        \* history: starts were written in another order, or messages lost
    letGo             \* history: scans whose mission was released or forgotten since

leaseVars == <<activeMissionID, forwarder, orphaned>>
scanVars == <<activeBurpScan, latest, disturbed, letGo>>
extensionVars == <<linked, wire, events, scanning>>
brainVars == <<request, view, uncertain>>
vars == <<at, leaseVars, scanVars, extensionVars, brainVars>>

Request == [what : {"acquire", "release", "call", "start"}, mission : Missions]
           \union [what : {"disconnect"}]
           \union [what : {"cancel"}, scan : Requests]

Asked == 1..Len(request)
MissionOf(k) == request[k].mission
Scans == {k \in Asked : request[k].what = "start"}

Init ==
    /\ request = <<>>
    /\ at = <<>>
    /\ activeMissionID = None
    /\ forwarder = FALSE
    /\ activeBurpScan = None
    /\ linked = TRUE
    /\ wire = <<>>
    /\ events = <<>>
    /\ scanning = {}
    /\ view = {}
    /\ uncertain = {}
    /\ orphaned = {}
    /\ latest = None
    /\ disturbed = FALSE
    /\ letGo = {}

Handles(r, what, from, to) ==
    /\ request[r].what = what
    /\ at[r] = from
    /\ at' = [at EXCEPT ![r] = to]

(***************************************************************************)
(* The brain                                                               *)
(***************************************************************************)
\* The missions whose lease a request is about.
Concerns(q) ==
    CASE q.what \in {"acquire", "release"} -> {q.mission}
      [] q.what = "disconnect" -> Missions
      [] OTHER -> {}

InFlight(m) == \E r \in Asked : at[r] # "done" /\ m \in Concerns(request[r])

\* handleMessage spawns the handler.  With a release the brain gives Burp up, and
\* knows where it stands if nothing else about the mission is under way.
Ask(q) ==
    /\ Len(request) < MaxRequests
    /\ q.what = "cancel" => q.scan \in Scans
    /\ request' = Append(request, q)
    /\ at' = Append(at, "spawned")
    /\ LET busy == {m \in Concerns(q) : InFlight(m)}
           ends == IF q.what = "acquire" THEN {} ELSE Concerns(q)
       IN  /\ view' = view \ ends
           /\ uncertain' = (uncertain \ ends) \union busy
    /\ UNCHANGED <<leaseVars, scanVars, extensionVars>>

\* Burp is granted and the answer sent; it may be lost on the way (BrainLink).  No other
\* answer changes what the brain believes: those are one step with what they follow.
AnswerGranted(r) ==
    /\ at[r] = "granted"
    /\ at' = [at EXCEPT ![r] = "done"]
    /\ \/ view' = view \union {MissionOf(r)} /\ UNCHANGED uncertain
       \/ uncertain' = uncertain \union {MissionOf(r)} /\ UNCHANGED view
    /\ UNCHANGED <<request, leaseVars, scanVars, extensionVars>>

(***************************************************************************)
(* Manager: AcquireMission, ReleaseMission, Disconnect, CallTool           *)
(***************************************************************************)
\* The lease ends under the calls that are with Burp.
GivesUp ==
    /\ activeMissionID' = None
    /\ orphaned' = orphaned \union {r \in Asked : at[r] \in {"admitted", "calling"}}

\* Health, without the lock: Burp has to be reachable and Pro.
Probe(r) ==
    /\ Handles(r, "acquire", "spawned", "probed") \/ Handles(r, "acquire", "spawned", "done")
    /\ UNCHANGED <<leaseVars, scanVars, extensionVars, brainVars>>

\* Variant: the mission that has Burp is not looked at.
Whoever(m) == TRUE

Free(m) == activeMissionID \in {None, m}

\* The rest of AcquireMission, under the lock.  The forwarder is started once.
Grant(r) ==
    /\ Handles(r, "acquire", "probed", "granted")
    /\ Free(MissionOf(r))
    /\ activeMissionID' = MissionOf(r)
    /\ forwarder' = TRUE
    /\ UNCHANGED <<orphaned, scanVars, extensionVars, brainVars>>

\* A conflict, or a forwarder that does not start.
Deny(r) ==
    /\ Handles(r, "acquire", "probed", "done")
    /\ ~Free(MissionOf(r)) \/ ~forwarder
    /\ UNCHANGED <<leaseVars, scanVars, extensionVars, brainVars>>

\* Variant: the scan of any mission is cleared.
ClearsAny(m) == activeBurpScan # None

ClearsScan(m) == activeBurpScan # None /\ activeBurpScan.mission = m

\* handleBurpReleaseMission: ClearScanForMission ...
ClearScanForMission(r) ==
    /\ Handles(r, "release", "spawned", "cleared")
    /\ activeBurpScan' = IF ClearsScan(MissionOf(r)) THEN None ELSE activeBurpScan
    /\ letGo' = letGo \union {k \in Scans : MissionOf(k) = MissionOf(r) /\ at[k] # "spawned"}
    /\ UNCHANGED <<leaseVars, latest, disturbed, extensionVars, brainVars>>

\* Variant: a release is not matched with the mission that has Burp.
ReleasesAny(m) == TRUE

Releases(m) == activeMissionID = m

\* ... then ReleaseMission.
ReleaseMission(r) ==
    /\ Handles(r, "release", "cleared", "done")
    /\ IF Releases(MissionOf(r)) THEN GivesUp ELSE UNCHANGED <<activeMissionID, orphaned>>
    /\ UNCHANGED <<forwarder, scanVars, extensionVars, brainVars>>

Disconnect(r) ==
    /\ Handles(r, "disconnect", "spawned", "done")
    /\ GivesUp
    /\ UNCHANGED <<forwarder, scanVars, extensionVars, brainVars>>

\* CallTool looks at the lease under the lock and calls Burp after it.
Admit(r) ==
    /\ \/ Handles(r, "call", "spawned", "admitted") /\ activeMissionID = MissionOf(r)
       \/ Handles(r, "call", "spawned", "done") /\ activeMissionID # MissionOf(r)
    /\ UNCHANGED <<leaseVars, scanVars, extensionVars, brainVars>>

CallReaches(r) ==
    /\ Handles(r, "call", "admitted", "calling")
    /\ UNCHANGED <<leaseVars, scanVars, extensionVars, brainVars>>

\* callMCP returns: a result, an error, or that Burp's user has still to approve it.
CallReturns(r) ==
    /\ Handles(r, "call", "admitted", "done") \/ Handles(r, "call", "calling", "done")
    /\ UNCHANGED <<leaseVars, scanVars, extensionVars, brainVars>>

(***************************************************************************)
(* ExtensionServer: scan control.  None of it asks who holds the lease.    *)
(***************************************************************************)
\* SendScanStart: the record first, whatever was there ...
SendScanStart(r) ==
    /\ linked
    /\ Handles(r, "start", "spawned", "writing")
    /\ activeBurpScan' = [mission |-> MissionOf(r), scan |-> r]
    /\ latest' = r
    /\ UNCHANGED <<leaseVars, disturbed, letGo, extensionVars, brainVars>>

\* SendScanCancel leaves the record where it is.
SendScanCancel(r) ==
    /\ linked
    /\ Handles(r, "cancel", "spawned", "writing")
    /\ UNCHANGED <<leaseVars, scanVars, extensionVars, brainVars>>

NotPaired(r) ==
    /\ ~linked
    /\ Handles(r, "start", "spawned", "done") \/ Handles(r, "cancel", "spawned", "done")
    /\ UNCHANGED <<leaseVars, scanVars, extensionVars, brainVars>>

\* ... then the message, after the unlock.
WriteStart(r) ==
    /\ Handles(r, "start", "writing", "done")
    /\ wire' = Append(wire, [do |-> "start", scan |-> r])
    /\ disturbed' = (disturbed \/ r # latest)
    /\ UNCHANGED <<leaseVars, activeBurpScan, latest, letGo, linked, events,
                   scanning, brainVars>>

WriteCancel(r) ==
    /\ Handles(r, "cancel", "writing", "done")
    /\ wire' = Append(wire, [do |-> "cancel", scan |-> request[r].scan])
    /\ UNCHANGED <<leaseVars, scanVars, linked, events, scanning, brainVars>>

\* What each event of scan k makes of the record.
Started(k) == [mission |-> MissionOf(k), scan |-> k]

\* Variant: the record outlives its scan without a name.
LosesName(k) ==
    IF activeBurpScan # None /\ activeBurpScan.scan = k
    THEN [activeBurpScan EXCEPT !.scan = None] ELSE activeBurpScan

Cancelled(k) ==
    IF activeBurpScan # None /\ activeBurpScan.scan # k THEN activeBurpScan ELSE None

Failed(k) ==
    IF activeBurpScan = None THEN [mission |-> None, scan |-> k] ELSE activeBurpScan

\* handleScanIssueFound, handleExtensionScanIssue: an issue carries no name of its own
\* and is forwarded under that of the record, or dropped for want of a mission.
Attribution ==
    IF activeBurpScan = None \/ activeBurpScan.mission = None THEN None ELSE activeBurpScan

\* The read loop handles one event.
ReadEvent ==
    /\ events # <<>>
    /\ events' = Tail(events)
    /\ LET k == Head(events).scan
           e == Head(events).event
       IN  activeBurpScan' = CASE e = "started" -> Started(k)
                               [] e = "cancelled" -> Cancelled(k)
                               [] e = "failed" -> Failed(k)
                               [] e = "issue" -> activeBurpScan
    /\ UNCHANGED <<at, leaseVars, latest, disturbed, letGo, linked, wire, scanning, brainVars>>

(***************************************************************************)
(* The extension, its connection, and the daemon's restart                 *)
(***************************************************************************)
Tell(e, k) == events' = Append(events, [event |-> e, scan |-> k])

\* It starts and cancels scans in the order it is told, or fails to.
ExtensionActs ==
    /\ linked /\ wire # <<>>
    /\ wire' = Tail(wire)
    /\ LET m == Head(wire)
       IN  \/ /\ m.do = "start"
              /\ scanning' = scanning \union {m.scan}
              /\ Tell("started", m.scan)
           \/ /\ m.do = "cancel"
              /\ scanning' = scanning \ {m.scan}
              /\ Tell("cancelled", m.scan)
           \/ Tell("failed", m.scan) /\ UNCHANGED scanning
    /\ UNCHANGED <<at, leaseVars, scanVars, linked, brainVars>>

\* It finds an issue; one of each scan at a time is on its way.
IssueFound(k) ==
    /\ linked /\ k \in scanning
    /\ \A i \in 1..Len(events) : events[i] # [event |-> "issue", scan |-> k]
    /\ Tell("issue", k)
    /\ UNCHANGED <<at, leaseVars, scanVars, linked, wire, scanning, brainVars>>

\* A scan that is through says nothing.
ScanCompletes(k) ==
    /\ k \in scanning
    /\ scanning' = scanning \ {k}
    /\ UNCHANGED <<at, leaseVars, scanVars, linked, wire, events, brainVars>>

\* The connection breaks, and with it the writes under way; what had arrived may still
\* be read.
ConnectionLost ==
    /\ linked
    /\ linked' = FALSE
    /\ wire' = <<>>
    /\ events' \in {events, <<>>}
    /\ at' = [r \in Asked |-> IF at[r] = "writing" THEN "done" ELSE at[r]]
    /\ disturbed' = (disturbed \/ wire # <<>> \/ events # <<>>)
    /\ UNCHANGED <<leaseVars, activeBurpScan, latest, letGo, scanning, brainVars>>

ConnectionBack ==
    /\ ~linked
    /\ linked' = TRUE
    /\ UNCHANGED <<at, leaseVars, scanVars, wire, events, scanning, brainVars>>

\* Neither lease nor scan is kept on disk, and no handler survives.
DaemonRestarts ==
    /\ at' = [r \in Asked |-> "done"]
    /\ activeMissionID' = None
    /\ forwarder' = FALSE
    /\ activeBurpScan' = None
    /\ linked' = FALSE
    /\ wire' = <<>>
    /\ events' = <<>>
    /\ letGo' = letGo \union Scans
    /\ uncertain' = view
    /\ UNCHANGED <<request, view, orphaned, latest, disturbed, scanning>>

Handle(r) ==
    \/ Probe(r) \/ Grant(r) \/ Deny(r)
    \/ ClearScanForMission(r) \/ ReleaseMission(r) \/ Disconnect(r)
    \/ Admit(r) \/ CallReaches(r) \/ CallReturns(r)
    \/ SendScanStart(r) \/ SendScanCancel(r) \/ NotPaired(r)
    \/ WriteStart(r) \/ WriteCancel(r)
    \/ AnswerGranted(r)

Next ==
    \/ \E q \in Request : Ask(q)
    \/ \E r \in Asked : Handle(r)
    \/ ReadEvent \/ ExtensionActs
    \/ \E k \in Scans : IssueFound(k) \/ ScanCompletes(k)
    \/ ConnectionLost \/ ConnectionBack \/ DaemonRestarts

Spec == Init /\ [][Next]_vars

-----------------------------------------------------------------------------
Places == {"spawned", "probed", "granted", "cleared", "admitted", "calling", "writing",
           "done"}
Message == [do : {"start", "cancel"}, scan : Requests]
Event == [event : {"started", "cancelled", "failed", "issue"}, scan : Requests]

TypeOK ==
    /\ request \in Seq(Request)
    /\ at \in [Asked -> Places]
    /\ activeMissionID \in Missions \union {None}
    /\ forwarder \in BOOLEAN
    /\ activeBurpScan \in Record \union {None}
    /\ linked \in BOOLEAN
    /\ wire \in Seq(Message)
    /\ events \in Seq(Event)
    /\ scanning \subseteq Requests
    /\ view \subseteq Missions
    /\ uncertain \subseteq Missions
    /\ orphaned \subseteq Requests
    /\ latest \in Requests \union {None}
    /\ disturbed \in BOOLEAN
    /\ letGo \subseteq Requests

\* Brain and daemon agree on who has Burp whenever nothing about a mission is under way,
\* through conflicts, Burp's failures, releases by other missions and restarts; unless
\* its requests overtook one another or the last answer was lost (manager.go:302-342).
LeaseAgrees ==
    \A m \in Missions \ uncertain :
        ~InFlight(m) => (m \in view <=> activeMissionID = m)

\* Burp works for a mission other than the holder of the lease only because the brain
\* gave the lease up while the call was with Burp: no mission takes Burp from under a
\* call of another (CallTool, manager.go:455-475).
CallsWithinLease ==
    \A r \in Asked :
        at[r] \in {"admitted", "calling"} => activeMissionID = MissionOf(r) \/ r \in orphaned

\* An issue of the scan started last is handed on as one of its own mission and scan,
\* whatever earlier scans, late releases, cancellations and reconnects do to the record (the
\* brain may still not get it: client.go:1148 drops what finds the queue full);
\* unless its mission was released meanwhile, the daemon restarted, two starts were
\* written in the other order or a connection was lost with messages under way: then a
\* late "started" may name an older scan (extension_server.go:1123-1231).
IssuesNameTheirMission ==
    \A k \in Scans :
        /\ events # <<>> /\ Head(events) = [event |-> "issue", scan |-> k]
        /\ k = latest /\ k \notin letGo /\ ~disturbed
        => Attribution = [mission |-> MissionOf(k), scan |-> k]
=============================================================================
