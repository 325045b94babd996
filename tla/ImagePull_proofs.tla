-------------------------- MODULE ImagePull_proofs --------------------------
(***************************************************************************)
(* For any number of goroutines that pull: the types of ImagePull, and     *)
(* that "pulling" is never reported without somebody pulling.              *)
(***************************************************************************)
EXTENDS ImagePull, TLAPS

\* The goroutines that will still say how their pull went.
AtIt(p) == puller[p] \in {"pulling", "failed", "pulled"}

\* Every step of sampler, pulls and engine keeps the types.
LEMMA StepTypeOK == TypeOK /\ [Next]_vars => TypeOK'
<1> SUFFICES ASSUME TypeOK, [Next]_vars PROVE TypeOK'
  OBVIOUS
<1> USE DEF TypeOK, engineVars
<1>1. CASE Ping
  BY <1>1 DEF Ping
<1>2. CASE Inspect
  BY <1>2 DEF Inspect
<1>3. CASE Publish
  <2>1. Spawns => puller' \in [Pullers -> {"none", "spawned", "available", "wanted", "found",
                                           "absent", "pulling", "failed", "pulled"}]
    BY DEF Spawns
  <2>2. puller' \in [Pullers -> {"none", "spawned", "available", "wanted", "found",
                                 "absent", "pulling", "failed", "pulled"}]
    BY <1>3, <2>1 DEF Publish
  <2>3. Seen \in {"", "ready", "missing"}
    BY <1>3 DEF Publish, Seen
  <2>4. imageStatus' \in {"unknown", "", "missing", "pulling", "ready"}
    BY <1>3, <2>3 DEF Publish
  <2> QED
    BY <1>3, <2>2, <2>4 DEF Publish
<1>4. CASE FirstConnection
  BY <1>4 DEF FirstConnection, Spawns
<1>5. ASSUME NEW p \in Pullers, Pull(p) PROVE TypeOK'
  <2> USE DEF Goes, SetImageStatus
  <2>1. CASE CheckDocker(p)
    BY <2>1 DEF CheckDocker
  <2>2. CASE CheckStatus(p)
    BY <2>2 DEF CheckStatus
  <2>3. CASE CheckImage(p)
    BY <2>3 DEF CheckImage
  <2>4. CASE ReportFound(p)
    BY <2>4 DEF ReportFound
  <2>5. CASE BeginPull(p)
    BY <2>5 DEF BeginPull
  <2>6. CASE PullFails(p)
    BY <2>6 DEF PullFails
  <2>7. CASE PullEnds(p)
    BY <2>7 DEF PullEnds
  <2>8. CASE ReportFailed(p)
    BY <2>8 DEF ReportFailed
  <2>9. CASE ReportPulled(p)
    BY <2>9 DEF ReportPulled
  <2> QED
    BY <1>5, <2>1, <2>2, <2>3, <2>4, <2>5, <2>6, <2>7, <2>8, <2>9 DEF Pull
<1>6. ASSUME NEW p \in Pullers, Progress(p) PROVE TypeOK'
  BY <1>6 DEF Progress, SetImageStatus
<1>7. CASE DockerChanges
  BY <1>7 DEF DockerChanges
<1>8. CASE ImageChanges
  BY <1>8 DEF ImageChanges
<1>9. CASE UNCHANGED vars
  BY <1>9 DEF vars
<1> QED
  BY <1>1, <1>2, <1>3, <1>4, <1>5, <1>6, <1>7, <1>8, <1>9 DEF Next, Sample

\* Goroutines that are spawned are new ones.
LEMMA SpawnsKeep ==
    ASSUME TypeOK, Spawns, NEW p \in Pullers, AtIt(p)
    PROVE  AtIt(p)'
BY DEF Spawns, AtIt, TypeOK

\* The sampler leaves "pulling" alone, and who set it is the last to clear it.
LEMMA StepPulling == TypeOK /\ PullingIsPulling /\ [Next]_vars => PullingIsPulling'
<1> SUFFICES ASSUME TypeOK, PullingIsPulling, [Next]_vars, imageStatus' = "pulling"
             PROVE  \E p \in Pullers : AtIt(p)'
  BY DEF PullingIsPulling, AtIt
<1> USE DEF engineVars
<1>1. imageStatus = "pulling" => \E p \in Pullers : AtIt(p)
  BY DEF PullingIsPulling, AtIt
<1>2. CASE UNCHANGED <<imageStatus, puller>>
  BY <1>1, <1>2 DEF AtIt
<1>3. CASE Publish
  <2>1. CASE Overwrites
    BY <1>3, <2>1 DEF Publish, Seen
  <2>2. CASE ~Overwrites
    BY <1>1, <1>3, <2>2 DEF Publish, AtIt
  <2> QED
    BY <2>1, <2>2
<1>4. CASE FirstConnection
  BY <1>1, <1>4, SpawnsKeep DEF FirstConnection
<1>5. ASSUME NEW p \in Pullers, Pull(p) PROVE \E q \in Pullers : AtIt(q)'
  <2> USE DEF Goes, SetImageStatus, AtIt
  <2>1. CASE CheckDocker(p)
    BY <1>1, <2>1 DEF CheckDocker, TypeOK
  <2>2. CASE CheckStatus(p)
    BY <1>1, <2>2 DEF CheckStatus, TypeOK
  <2>3. CASE CheckImage(p)
    BY <1>1, <2>3 DEF CheckImage, TypeOK
  <2>4. CASE ReportFound(p)
    BY <2>4 DEF ReportFound
  <2>5. CASE BeginPull(p)
    BY <2>5 DEF BeginPull, TypeOK
  <2>6. CASE PullFails(p)
    BY <2>6 DEF PullFails, TypeOK
  <2>7. CASE PullEnds(p)
    BY <2>7 DEF PullEnds, TypeOK
  <2>8. CASE ReportFailed(p)
    BY <2>8 DEF ReportFailed
  <2>9. CASE ReportPulled(p)
    BY <2>9 DEF ReportPulled
  <2> QED
    BY <1>5, <2>1, <2>2, <2>3, <2>4, <2>5, <2>6, <2>7, <2>8, <2>9 DEF Pull
<1>6. ASSUME NEW p \in Pullers, Progress(p) PROVE \E q \in Pullers : AtIt(q)'
  BY <1>6 DEF Progress, SetImageStatus, AtIt
<1> QED
  BY <1>2, <1>3, <1>4, <1>5, <1>6
     DEF Next, Sample, Ping, Inspect, DockerChanges, ImageChanges, vars

\* Every variable of sampler and pulls keeps its type (reporter.go:42-57).
THEOREM TypeCorrect == Spec => []TypeOK
<1>1. Init => TypeOK
  BY DEF Init, TypeOK
<1> QED
  BY <1>1, StepTypeOK, PTL DEF Spec

\* "pulling" is reported only while somebody pulls and will say how it went
\* (reporter.go:155, client.go:1290-1302).
THEOREM Pulling == Spec => []PullingIsPulling
<1>1. Init => PullingIsPulling
  BY DEF Init, PullingIsPulling
<1> QED
  BY <1>1, StepPulling, TypeCorrect, PTL DEF Spec
=============================================================================
