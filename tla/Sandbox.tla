------------------------------- MODULE Sandbox -------------------------------
(***************************************************************************)
(* The sandbox containers of the daemon (internal/docker/manager.go):      *)
(* CreateContainer, recoverContainer, DestroyContainer and CleanupAll, run *)
(* by the goroutines that handle create_container and destroy_container    *)
(* messages and by the shutdown goroutine of cmd/daemon/main.go, against a *)
(* Docker engine that outlives the daemon.                                 *)
(*                                                                         *)
(* A create operation makes one container at most, which is named by the   *)
(* operation here; its tool-server token is the one that operation made.   *)
(* The manager's lock covers single accesses to the map only, so every     *)
(* call to the engine is a step of its own.                                *)
(***************************************************************************)
EXTENDS Naturals, FiniteSets

CONSTANTS
    Scans,      \* scan ids
    Names,      \* container names, "revelion-scan-" and eight characters of a scan id
    Creates,    \* create_container messages
    Destroys,   \* destroy_container messages
    None        \* no entry, no scan, no container

ASSUME OpsAssumption ==
    /\ Creates \cap Destroys = {}
    /\ None \notin Scans \union Creates \union [id : Creates, token : Creates]

VARIABLES
    nameOf,      \* the container name of each scan
    containers,  \* m.containers: the container and the token a scan is known with
    docker,      \* the engine: the state of the container each create made
    create,      \* where each create operation is
    destroy,     \* where each destroy operation is
    scanOf,      \* the scan each operation is for
    target,      \* the container each operation works on
    process,     \* the daemon: up, closing, cleaning, cleaned, exited
    todo,        \* scanIDs, the snapshot CleanupAll works through
    cleaning,    \* where CleanupAll is in its current DestroyContainer
    doomed,      \* the container it is destroying
    faulty,      \* history: a call failed of itself, or the daemon died
    overlapped,  \* history: names a create and a destroy worked on at once
    busy         \* history: operations under way when CleanupAll took its snapshot

Ops == Creates \union Destroys
opVars == <<create, destroy, scanOf, target>>
shutdownVars == <<process, todo, cleaning, doomed, busy>>
vars == <<nameOf, containers, docker, create, destroy, scanOf, target, process,
          todo, cleaning, doomed, faulty, overlapped, busy>>

CreateBusy == {"checking", "creating", "starting", "mapping", "recovering",
               "restarting", "reinspecting", "storing"}
DestroyBusy == {"taking", "stopping", "removing"}
Present == {"created", "running", "exited"}

Init ==
    /\ nameOf \in [Scans -> Names]
    /\ containers = [s \in Scans |-> None]
    /\ docker = [c \in Creates |-> "none"]
    /\ create = [o \in Creates |-> "idle"]
    /\ destroy = [o \in Destroys |-> "idle"]
    /\ scanOf = [o \in Ops |-> None]
    /\ target = [o \in Ops |-> None]
    /\ process = "up"
    /\ todo = {}
    /\ cleaning = "idle"
    /\ doomed = None
    /\ faulty = FALSE
    /\ overlapped = {}
    /\ busy = {}

Alive == process \in {"up", "closing", "cleaning"}
NameFor(o) == nameOf[scanOf[o]]
Named(n) == {c \in Creates : docker[c] \in Present /\ NameFor(c) = n}

CreatingNames == {NameFor(o) : o \in {x \in Creates : create[x] \in CreateBusy}}
DestroyingNames == {NameFor(o) : o \in {x \in Destroys : destroy[x] \in DestroyBusy}}
NotesOverlap == overlapped' = overlapped \union (CreatingNames' \cap DestroyingNames')

(***************************************************************************)
(* CreateContainer                                                         *)
(***************************************************************************)
Moves(o, from, to) ==
    /\ Alive
    /\ create[o] = from
    /\ create' = [create EXCEPT ![o] = to]

\* handleMessage: go c.handleCreateContainer(msg)
ReceiveCreate(o, s) ==
    /\ process = "up"
    /\ Moves(o, "idle", "checking")
    /\ scanOf' = [scanOf EXCEPT ![o] = s]
    /\ UNCHANGED <<nameOf, containers, docker, destroy, target, shutdownVars, faulty>>
    /\ NotesOverlap

createFrame == <<nameOf, destroy, scanOf, shutdownVars, overlapped>>

\* An error of a call that the state of the engine does not explain.
CallFails(o, place) ==
    /\ Moves(o, place, "failed")
    /\ faulty' = TRUE
    /\ UNCHANGED <<createFrame, containers, docker, target>>

\* A container the map already holds is returned as it is.
CheckMap(o) ==
    /\ Moves(o, "checking", IF containers[scanOf[o]] = None THEN "creating" ELSE "ready")
    /\ target' = [target EXCEPT ![o] =
                     IF containers[scanOf[o]] = None THEN None
                                                     ELSE containers[scanOf[o]].id]
    /\ UNCHANGED <<createFrame, containers, docker, faulty>>

\* The engine refuses a name that a container has.
NameInUse(o) == Named(NameFor(o)) # {}

\* ContainerCreate; a name already in use sends the operation to recoverContainer.
ContainerCreate(o) ==
    /\ \/ /\ Moves(o, "creating", "starting")
          /\ ~NameInUse(o)
          /\ docker' = [docker EXCEPT ![o] = "created"]
          /\ target' = [target EXCEPT ![o] = o]
       \/ /\ Moves(o, "creating", "recovering")
          /\ NameInUse(o)
          /\ UNCHANGED <<docker, target>>
    /\ UNCHANGED <<createFrame, containers, faulty>>

\* ContainerStart succeeds on any container that is still there.
Started(c) == IF docker[c] \in Present THEN [docker EXCEPT ![c] = "running"] ELSE docker

ContainerStart(o) ==
    /\ Moves(o, "starting", IF docker[target[o]] \in Present THEN "mapping" ELSE "failed")
    /\ docker' = Started(target[o])
    /\ UNCHANGED <<createFrame, containers, target, faulty>>

\* getMappedPort: only a running container has its port bound.
GetMappedPort(o) ==
    /\ Moves(o, "mapping", IF docker[target[o]] = "running" THEN "storing" ELSE "failed")
    /\ UNCHANGED <<createFrame, containers, docker, target, faulty>>

\* Variant: the entry gets the token this operation made, recovered or not.
OwnToken(o) == o

\* The token the container was created with: the operation's own, or the one
\* recoverContainer reads back from the container's environment.
TokenOf(o) == target[o]

\* waitForToolServer is over, healthy or not; the container enters the map with
\* the token the tool server was given.
Store(o) ==
    /\ Moves(o, "storing", "ready")
    /\ containers' = [containers EXCEPT ![scanOf[o]] =
                         [id |-> target[o], token |-> TokenOf(o)]]
    /\ UNCHANGED <<createFrame, docker, target, faulty>>

\* Variant: the error of the inspection is ignored.
InspectIgnored == "storing"

InspectFailed == "failed"

\* recoverContainer: inspect by name ...
Recover(o) ==
    /\ \/ /\ Moves(o, "recovering", InspectFailed)
          /\ Named(NameFor(o)) = {}
          /\ UNCHANGED target
       \/ /\ create[o] = "recovering"
          /\ \E c \in Named(NameFor(o)) :
               /\ Moves(o, "recovering",
                        IF docker[c] = "running" THEN "storing" ELSE "restarting")
               /\ target' = [target EXCEPT ![o] = c]
    /\ UNCHANGED <<createFrame, containers, docker, faulty>>

\* ... start it by id if it was not running ...
Restart(o) ==
    /\ Moves(o, "restarting",
             IF docker[target[o]] \in Present THEN "reinspecting" ELSE "failed")
    /\ docker' = Started(target[o])
    /\ UNCHANGED <<createFrame, containers, target, faulty>>

\* ... and look at it again, for its port.
Reinspect(o) ==
    /\ Moves(o, "reinspecting",
             IF docker[target[o]] = "running" THEN "storing" ELSE "failed")
    /\ UNCHANGED <<createFrame, containers, docker, target, faulty>>

(***************************************************************************)
(* DestroyContainer: the map entry goes first, then the container.         *)
(***************************************************************************)
Proceeds(o, from, to) ==
    /\ Alive
    /\ destroy[o] = from
    /\ destroy' = [destroy EXCEPT ![o] = to]

ReceiveDestroy(o, s) ==
    /\ process = "up"
    /\ Proceeds(o, "idle", "taking")
    /\ scanOf' = [scanOf EXCEPT ![o] = s]
    /\ UNCHANGED <<nameOf, containers, docker, create, target, shutdownVars, faulty>>
    /\ NotesOverlap

destroyFrame == <<nameOf, create, scanOf, shutdownVars, overlapped>>

\* Variant: the entry stays in the map.
Kept(s) == containers

\* delete(m.containers, scanID)
Dropped(s) == [containers EXCEPT ![s] = None]

Take(o) ==
    /\ Proceeds(o, "taking",
                IF containers[scanOf[o]] = None THEN "finished" ELSE "stopping")
    /\ target' = [target EXCEPT ![o] =
                     IF containers[scanOf[o]] = None THEN None
                                                     ELSE containers[scanOf[o]].id]
    /\ containers' = Dropped(scanOf[o])
    /\ UNCHANGED <<destroyFrame, docker, faulty>>

\* ContainerStop, whose error is ignored.
Stopped(c) == IF docker[c] = "running" THEN [docker EXCEPT ![c] = "exited"] ELSE docker
Removed(c) == IF docker[c] \in Present THEN [docker EXCEPT ![c] = "removed"] ELSE docker

\* Variant: an error of ContainerStop ends the operation.
StopGivesUp(o) ==
    /\ Proceeds(o, "stopping", "finished")
    /\ UNCHANGED <<destroyFrame, containers, docker, target, faulty>>

Stop(o) ==
    /\ Proceeds(o, "stopping", "removing")
    /\ docker' = Stopped(target[o])
    /\ UNCHANGED <<destroyFrame, containers, target, faulty>>

Remove(o) ==
    /\ Proceeds(o, "removing", "finished")
    /\ docker' = Removed(target[o])
    /\ UNCHANGED <<destroyFrame, containers, target, faulty>>

RemoveFails(o) ==
    /\ Proceeds(o, "removing", "finished")
    /\ faulty' = TRUE
    /\ UNCHANGED <<destroyFrame, containers, docker, target>>

(***************************************************************************)
(* Shutdown (main.go:123-131): the client is closed, then CleanupAll       *)
(* destroys what its snapshot names, one scan after the other, and         *)
(* os.Exit(0) ends the process.  Closing the client also lets              *)
(* ConnectAndServe return, and with it main.                               *)
(***************************************************************************)
shutdownFrame == <<nameOf, opVars, faulty, overlapped>>

ClientClosed ==
    /\ process = "up"
    /\ process' = "closing"
    /\ UNCHANGED <<shutdownFrame, containers, docker, todo, cleaning, doomed, busy>>

CleanupSnapshot ==
    /\ process = "closing"
    /\ process' = "cleaning"
    /\ todo' = {s \in Scans : containers[s] # None}
    /\ busy' = {o \in Creates : create[o] \in CreateBusy}
               \union {o \in Destroys : destroy[o] \in DestroyBusy}
    /\ UNCHANGED <<shutdownFrame, containers, docker, cleaning, doomed>>

CleanupTake ==
    /\ process = "cleaning"
    /\ cleaning = "idle"
    /\ \E s \in todo :
         /\ todo' = todo \ {s}
         /\ containers' = Dropped(s)
         /\ IF containers[s] = None
            THEN UNCHANGED <<cleaning, doomed>>
            ELSE cleaning' = "stopping" /\ doomed' = containers[s].id
    /\ UNCHANGED <<shutdownFrame, docker, process, busy>>

CleanupStop ==
    /\ process = "cleaning"
    /\ cleaning = "stopping"
    /\ cleaning' = "removing"
    /\ docker' = Stopped(doomed)
    /\ UNCHANGED <<shutdownFrame, containers, process, todo, doomed, busy>>

CleanupRemove ==
    /\ process = "cleaning"
    /\ cleaning = "removing"
    /\ cleaning' = "idle"
    /\ docker' = Removed(doomed)
    /\ UNCHANGED <<shutdownFrame, containers, process, todo, doomed, busy>>

\* Variant: one container is waited for.
OneDestroyed == TRUE

AllDestroyed == todo = {}

\* os.Exit(0), or the return of main, whichever comes first.
Exit ==
    /\ process = "cleaning"
    /\ cleaning = "idle"
    /\ AllDestroyed
    /\ process' = "cleaned"
    /\ UNCHANGED <<shutdownFrame, containers, docker, todo, cleaning, doomed, busy>>

MainReturns ==
    /\ process \in {"closing", "cleaning"}
    /\ process' = "exited"
    /\ UNCHANGED <<shutdownFrame, containers, docker, todo, cleaning, doomed, busy>>

\* The daemon is killed, or started again: the map and the operations are gone,
\* the containers are not.
Abandoned(f, working) == [o \in DOMAIN f |-> IF f[o] \in working THEN "lost" ELSE f[o]]

DaemonRestarts ==
    /\ process' = "up"
    /\ containers' = [s \in Scans |-> None]
    /\ create' = Abandoned(create, CreateBusy)
    /\ destroy' = Abandoned(destroy, DestroyBusy)
    /\ todo' = {} /\ busy' = {} /\ doomed' = None /\ cleaning' = "idle"
    /\ faulty' = TRUE
    /\ UNCHANGED <<nameOf, docker, scanOf, target, overlapped>>

\* A container stops by itself.
ContainerDies(c) ==
    /\ docker[c] = "running"
    /\ docker' = [docker EXCEPT ![c] = "exited"]
    /\ UNCHANGED <<nameOf, containers, opVars, shutdownVars, faulty, overlapped>>

CreateStep(o) ==
    \/ \E s \in Scans : ReceiveCreate(o, s)
    \/ CheckMap(o) \/ ContainerCreate(o) \/ ContainerStart(o) \/ GetMappedPort(o)
    \/ Store(o) \/ Recover(o) \/ Restart(o) \/ Reinspect(o)
    \/ \E p \in CreateBusy \ {"checking", "storing"} : CallFails(o, p)

DestroyStep(o) ==
    \/ \E s \in Scans : ReceiveDestroy(o, s)
    \/ Take(o) \/ Stop(o) \/ Remove(o) \/ RemoveFails(o)

Shutdown == \/ ClientClosed \/ CleanupSnapshot \/ CleanupTake \/ CleanupStop
            \/ CleanupRemove \/ Exit \/ MainReturns

Next ==
    \/ \E o \in Creates : CreateStep(o)
    \/ \E o \in Destroys : DestroyStep(o)
    \/ \E c \in Creates : ContainerDies(c)
    \/ Shutdown \/ DaemonRestarts

Spec == Init /\ [][Next]_vars

-----------------------------------------------------------------------------
Entry == [id : Creates, token : Creates]

TypeOK ==
    /\ nameOf \in [Scans -> Names]
    /\ containers \in [Scans -> Entry \union {None}]
    /\ docker \in [Creates -> {"none", "removed"} \union Present]
    /\ create \in [Creates -> {"idle", "ready", "failed", "lost"} \union CreateBusy]
    /\ destroy \in [Destroys -> {"idle", "finished", "lost"} \union DestroyBusy]
    /\ scanOf \in [Ops -> Scans \union {None}]
    /\ target \in [Ops -> Creates \union {None}]
    /\ process \in {"up", "closing", "cleaning", "cleaned", "exited"}
    /\ todo \subseteq Scans
    /\ cleaning \in {"idle", "stopping", "removing"}
    /\ doomed \in Creates \union {None}
    /\ faulty \in BOOLEAN
    /\ overlapped \subseteq Names
    /\ busy \subseteq Ops

Tracked == {containers[s].id : s \in {x \in Scans : containers[x] # None}}

\* An entry is for a container made under the scan's name, and holds the token that
\* container was started with, also when it is recovered after a restart.
EntryMatches ==
    \A s \in Scans : containers[s] # None =>
        /\ NameFor(containers[s].id) = nameOf[s]
        /\ containers[s].token = containers[s].id

\* Short of faults, and of a destroy that met a create, a container is never left
\* behind: what runs is in the map, where a destroy can reach it, or worked on.
NoOrphanWithoutFault ==
    process = "up" /\ ~faulty =>
        \A c \in Creates : docker[c] = "running" /\ NameFor(c) \notin overlapped =>
            \/ c \in Tracked
            \/ \E o \in Creates : create[o] \in CreateBusy /\ target[o] = c
            \/ \E o \in Destroys : destroy[o] \in DestroyBusy /\ target[o] = c

\* Before shutdown, an entry names a container that is still there, unless a destroy
\* met a create or another scan has the same name.
Alone(s) == \A t \in Scans \ {s} : nameOf[t] # nameOf[s]
TrackedIsThere ==
    process = "up" => \A s \in Scans :
        containers[s] # None /\ Alone(s) /\ nameOf[s] \notin overlapped =>
            docker[containers[s].id] # "removed"

\* "CleanupAll destroys all containers" (manager.go:710), when it is given the time
\* and no call fails: only an operation that was under way, a create or a destroy that
\* had taken the entry already, can leave one running.
CleanupComplete ==
    process = "cleaned" /\ ~faulty =>
        \A c \in Creates : docker[c] = "running" /\ NameFor(c) \notin overlapped =>
            \E o \in busy : target[o] = c

\* "ContainerInfo tracks a running sandbox container" (manager.go:41): at the least,
\* it has not been removed.
TrackedNotRemoved == \A c \in Tracked : docker[c] # "removed"

\* "CleanupAll destroys all containers (called on daemon shutdown)" (manager.go:710):
\* no container the daemon knows outlives a shutdown.
ShutdownCleans ==
    process \in {"cleaned", "exited"} => \A c \in Tracked : docker[c] # "running"
=============================================================================
