----------------------------- MODULE ImagePull -----------------------------
(***************************************************************************)
(* What the pongs say of Docker and of the sandbox image: the Reporter's   *)
(* sampler (internal/health/reporter.go) and the goroutines that pull the  *)
(* image, prePullSandboxImage (internal/ws/client.go) over PullImage       *)
(* (internal/docker/manager.go).  They share the status under r.mu, but    *)
(* ask the Docker engine without it: what is written may be out of date.   *)
(* The progress in percent and the system's statistics are left out.       *)
(***************************************************************************)
EXTENDS Naturals

CONSTANT Pullers    \* bound: goroutines of prePullSandboxImage at a time

VARIABLES
    docker,        \* the Docker engine answers
    present,       \* the image is there
    dockerStatus,  \* as reported
    imageStatus,   \* as reported
    registered,    \* onNeedsPull is set
    sample,        \* what the sample under way has found so far
    puller         \* where each goroutine of prePullSandboxImage is

engineVars == <<docker, present>>
vars == <<docker, present, dockerStatus, imageStatus, registered, sample, puller>>

Init ==
    /\ docker \in BOOLEAN
    /\ present \in BOOLEAN
    /\ dockerStatus = "unknown"
    /\ imageStatus = "unknown"
    /\ registered = FALSE
    /\ sample = "none"
    /\ puller = [p \in Pullers |-> "none"]

(***************************************************************************)
(* sampleOnce                                                              *)
(***************************************************************************)
\* IsAvailable
Ping ==
    /\ sample = "none"
    /\ sample' = IF docker THEN "up" ELSE "down"
    /\ UNCHANGED <<engineVars, dockerStatus, imageStatus, registered, puller>>

\* IsImagePresent: an engine that does not answer has no image either.
Inspect ==
    /\ sample = "up"
    /\ sample' = IF docker /\ present THEN "ready" ELSE "missing"
    /\ UNCHANGED <<engineVars, dockerStatus, imageStatus, registered, puller>>

\* Variant: a missing image stays missing.
OverwritesButMissing == imageStatus \notin {"pulling", "missing"}

Overwrites == imageStatus # "pulling"

\* Variant: what Ping says is taken for the image's status.
SeenRaw == sample

\* Without an engine there is nothing to say of the image.
Seen == IF sample = "down" THEN "" ELSE sample

\* Variant: only an image newly found missing is pulled.
TriggersOnce == sample = "missing" /\ imageStatus # "missing" /\ registered

Triggers == sample = "missing" /\ registered

\* go cb(), if the bound leaves a goroutine for it.
Spawns ==
    \/ \E p \in Pullers : puller[p] = "none" /\ puller' = [puller EXCEPT ![p] = "spawned"]
    \/ (\A p \in Pullers : puller[p] # "none") /\ UNCHANGED puller

\* Under the lock.  The status of a pull under way stands.
Publish ==
    /\ sample \in {"down", "ready", "missing"}
    /\ sample' = "none"
    /\ dockerStatus' = IF sample = "down" THEN "stopped" ELSE "running"
    /\ IF Overwrites THEN imageStatus' = Seen ELSE UNCHANGED imageStatus
    /\ IF Overwrites /\ Triggers THEN Spawns ELSE UNCHANGED puller
    /\ UNCHANGED <<engineVars, registered>>

(***************************************************************************)
(* prePullSandboxImage                                                     *)
(***************************************************************************)
Goes(p, from, to) ==
    /\ puller[p] = from
    /\ puller' = [puller EXCEPT ![p] = to]

\* ConnectAndServe, on the first connection: NewReporter has taken a sample by then.
FirstConnection ==
    /\ ~registered
    /\ dockerStatus # "unknown"
    /\ registered' = TRUE
    /\ Spawns
    /\ UNCHANGED <<engineVars, dockerStatus, imageStatus, sample>>

CheckDocker(p) ==
    /\ Goes(p, "spawned", IF docker THEN "available" ELSE "none")
    /\ UNCHANGED <<engineVars, dockerStatus, imageStatus, registered, sample>>

\* "Skip if already pulling or ready": the status is read, and set only later.
CheckStatus(p) ==
    /\ Goes(p, "available", IF imageStatus \in {"pulling", "ready"} THEN "none" ELSE "wanted")
    /\ UNCHANGED <<engineVars, dockerStatus, imageStatus, registered, sample>>

CheckImage(p) ==
    /\ Goes(p, "wanted", IF docker /\ present THEN "found" ELSE "absent")
    /\ UNCHANGED <<engineVars, dockerStatus, imageStatus, registered, sample>>

SetImageStatus(status) ==
    /\ imageStatus' = status
    /\ UNCHANGED <<engineVars, dockerStatus, registered, sample>>

ReportFound(p) == Goes(p, "found", "none") /\ SetImageStatus("ready")

BeginPull(p) == Goes(p, "absent", "pulling") /\ SetImageStatus("pulling")

\* The callback of PullImage, for every line of progress.
Progress(p) == puller[p] = "pulling" /\ SetImageStatus("pulling") /\ UNCHANGED puller

\* PullImage fails to begin, or its stream breaks.
PullFails(p) ==
    /\ Goes(p, "pulling", "failed")
    /\ UNCHANGED <<engineVars, dockerStatus, imageStatus, registered, sample>>

\* Or the stream ends.  An error the engine reports in it is not looked at: the image
\* may be there or not.
PullEnds(p) == Goes(p, "pulling", "pulled") /\ SetImageStatus("pulling")

\* Variant: a failed pull is only logged.
OnlyLogs(p) == Goes(p, "failed", "none") /\ SetImageStatus(imageStatus)

ReportFailed(p) == Goes(p, "failed", "none") /\ SetImageStatus("missing")

ReportPulled(p) == Goes(p, "pulled", "none") /\ SetImageStatus("ready")

(***************************************************************************)
(* The Docker engine: it stops and starts, an image arrives, pulled by the *)
(* daemon or by somebody else, and is removed.                             *)
(***************************************************************************)
DockerChanges ==
    /\ docker' = ~docker
    /\ UNCHANGED <<present, dockerStatus, imageStatus, registered, sample, puller>>

ImageChanges ==
    /\ docker
    /\ present' = ~present
    /\ UNCHANGED <<docker, dockerStatus, imageStatus, registered, sample, puller>>

Sample == Ping \/ Inspect \/ Publish

Pull(p) ==
    \/ CheckDocker(p) \/ CheckStatus(p) \/ CheckImage(p) \/ ReportFound(p)
    \/ BeginPull(p) \/ PullFails(p) \/ PullEnds(p) \/ ReportFailed(p) \/ ReportPulled(p)

Next ==
    \/ Sample \/ FirstConnection
    \/ \E p \in Pullers : Pull(p) \/ Progress(p)
    \/ DockerChanges \/ ImageChanges

Spec == Init /\ [][Next]_vars

\* The sampler's ticker goes on, the engine's answers have timeouts, and a pull ends:
\* this one is the engine's part, PullImage itself would wait for ever.
FairSpec ==
    /\ Spec
    /\ WF_vars(Sample)
    /\ \A p \in Pullers : WF_vars(Pull(p))

-----------------------------------------------------------------------------
TypeOK ==
    /\ docker \in BOOLEAN
    /\ present \in BOOLEAN
    /\ dockerStatus \in {"unknown", "running", "stopped"}
    /\ imageStatus \in {"unknown", "", "missing", "pulling", "ready"}
    /\ registered \in BOOLEAN
    /\ sample \in {"none", "up", "down", "ready", "missing"}
    /\ puller \in [Pullers -> {"none", "spawned", "available", "wanted", "found", "absent",
                               "pulling", "failed", "pulled"}]

\* "pulling" is reported only while a goroutine is pulling and will still say how it
\* went: the sampler does not touch that status (reporter.go:154), so one left behind
\* would stay for ever, and no pull would follow.
PullingIsPulling ==
    imageStatus = "pulling" => \E p \in Pullers : puller[p] \in {"pulling", "failed", "pulled"}

\* An image that is there and stays is reported in the end, and for good, whatever
\* pulls and stale samples wrote about it meanwhile (reporter.go:139-164,
\* client.go:1279-1302).
PresentIsReady == <>[](docker /\ present) => <>[](imageStatus = "ready" /\ dockerStatus = "running")

\* While the engine answers, a missing image is pulled again and again until it is
\* there, also after failed pulls and after an error taken for success.
MissingIsPulled ==
    <>[](docker /\ registered) =>
        [](~present => <>(present \/ \E p \in Pullers : puller[p] = "pulling"))
=============================================================================
