--------------------------- MODULE Sandbox_proofs ---------------------------
(***************************************************************************)
(* For any scans, names and numbers of operations: what the map says of a  *)
(* container is true of it, and no container is left behind but in the     *)
(* named cases.                                                            *)
(***************************************************************************)
EXTENDS Sandbox, TLAPS

-----------------------------------------------------------------------------
(* The inductive invariant *)

\* Every operation was received for a scan.
Received ==
    /\ \A o \in Creates : create[o] # "idle" => scanOf[o] \in Scans
    /\ \A o \in Destroys : destroy[o] # "idle" => scanOf[o] \in Scans

\* The places of a create that works on a container.
Holding == {"starting", "mapping", "restarting", "reinspecting", "storing"}

\* An operation works on a container with the name of its scan, ...
Aims(o) ==
    /\ target[o] \in Creates
    /\ docker[target[o]] # "none"
    /\ NameFor(target[o]) = NameFor(o)

Aimed ==
    /\ \A o \in Creates :
         /\ create[o] \in {"idle", "checking", "creating", "recovering"} => target[o] = None
         /\ create[o] \in Holding => Aims(o)
    /\ \A o \in Destroys :
         /\ destroy[o] \in {"idle", "taking"} => target[o] = None
         /\ destroy[o] \in {"stopping", "removing"} => Aims(o)

\* ... which a create made when it got that far, ...
Made == \A c \in Creates : docker[c] # "none" => create[c] \notin {"idle", "checking", "creating"}

\* ... and so does the map.
Entries == \A s \in Scans : containers[s] # None => docker[containers[s].id] # "none"

\* CleanupAll destroys only at shutdown.
Dooming == cleaning # "idle" => process \in {"cleaning", "exited"} /\ doomed \in Creates

\* The engine gives a name to one container at a time.
OneName ==
    \A c, d \in Creates :
        docker[c] \in Present /\ docker[d] \in Present /\ NameFor(c) = NameFor(d) => c = d

\* A create and a destroy of one name that are at work have met.
Met ==
    \A o \in Creates, d \in Destroys :
        create[o] \in CreateBusy /\ destroy[d] \in DestroyBusy /\ NameFor(o) = NameFor(d) =>
            NameFor(o) \in overlapped

\* A destroy that met no create finds the entry it took still missing.
Taken ==
    \A d \in Destroys :
        /\ destroy[d] \in {"stopping", "removing"}
        /\ Alone(scanOf[d]) /\ NameFor(d) \notin overlapped
        => containers[scanOf[d]] = None

\* The container was worked on when CleanupAll took its snapshot, or is by an operation of
\* that time.
Late(c) == process = "cleaning" /\ \E o \in busy : target[o] = c

\* A container is not removed from under a create that met no destroy, but at shutdown.
Lives ==
    \A o \in Creates :
        create[o] \in Holding /\ Alive /\ NameFor(o) \notin overlapped =>
            \/ docker[target[o]] \in Present
            \/ process = "cleaning" /\ \A c \in Named(NameFor(o)) : Late(c)

\* Where a running container can be found.
Watched(c) ==
    \/ c \in Tracked
    \/ \E o \in Creates : create[o] \in CreateBusy /\ target[o] = c
    \/ \E o \in Destroys : destroy[o] \in DestroyBusy /\ target[o] = c
    \/ cleaning = "stopping" /\ doomed = c
    \/ Late(c)

AllWatched ==
    Alive /\ ~faulty =>
        \A c \in Creates : docker[c] = "running" /\ NameFor(c) \notin overlapped => Watched(c)

\* CleanupAll misses only what operations of the time of its snapshot work on.
Snapshot ==
    process = "cleaning" =>
        /\ \A o \in Creates : create[o] \in CreateBusy => o \in busy
        /\ \A o \in Destroys : destroy[o] \in DestroyBusy => o \in busy
        /\ \A s \in Scans : containers[s] # None => s \in todo \/ Late(containers[s].id)

Base == TypeOK /\ Received
Shape == Aimed /\ Made /\ Entries /\ EntryMatches /\ Dooming
Meeting == OneName /\ Met /\ Taken /\ TrackedIsThere
IInv == /\ Base /\ Shape /\ Meeting /\ Lives
        /\ Snapshot /\ AllWatched /\ CleanupComplete

-----------------------------------------------------------------------------
(* Types *)

\* The steps of a create keep the types.
LEMMA CreateBase ==
    ASSUME Base, Aimed, NEW o \in Creates, CreateStep(o)
    PROVE  Base'
<1> USE DEF Base, Moves, createFrame, shutdownVars, CreateBusy, Present, Ops
<1>1. ASSUME NEW s \in Scans, ReceiveCreate(o, s) PROVE Base'
  <2>1. overlapped' \subseteq Names
    <3>1. DestroyingNames' \subseteq Names
      BY <1>1, OpsAssumption DEF ReceiveCreate, DestroyingNames, NameFor, DestroyBusy, TypeOK, Received
    <3> QED
      BY <1>1, <3>1 DEF ReceiveCreate, NotesOverlap, TypeOK
  <2> QED
    BY <1>1, <2>1 DEF ReceiveCreate, TypeOK, Received
<1>2. ASSUME NEW p \in CreateBusy, CallFails(o, p) PROVE Base'
  BY <1>2 DEF CallFails, TypeOK, Received
<1>3. CASE CheckMap(o)
  <2>1. target' \in [Ops -> Creates \union {None}]
    BY <1>3 DEF CheckMap, TypeOK, Received, Entry
  <2> QED
    BY <1>3, <2>1 DEF CheckMap, TypeOK, Received
<1>4. CASE ContainerCreate(o)
  BY <1>4 DEF ContainerCreate, TypeOK, Received
<1>5. CASE ContainerStart(o)
  BY <1>5 DEF ContainerStart, Started, TypeOK, Received
<1>6. CASE GetMappedPort(o) \/ Reinspect(o)
  BY <1>6 DEF GetMappedPort, Reinspect, TypeOK, Received
<1>7. CASE Store(o)
  <2>1. target[o] \in Creates
    BY <1>7 DEF Store, Aimed, Holding, Aims
  <2> QED
    BY <1>7, <2>1 DEF Store, TokenOf, TypeOK, Received, Entry
<1>8. CASE Recover(o)
  <2>1. target' \in [Ops -> Creates \union {None}]
    BY <1>8 DEF Recover, Named, TypeOK
  <2> QED
    BY <1>8, <2>1 DEF Recover, InspectFailed, TypeOK, Received
<1>9. CASE Restart(o)
  BY <1>9 DEF Restart, Started, TypeOK, Received
<1> QED
  BY <1>1, <1>2, <1>3, <1>4, <1>5, <1>6, <1>7, <1>8, <1>9 DEF CreateStep

\* The steps of a destroy keep the types.
LEMMA DestroyBase ==
    ASSUME Base, NEW o \in Destroys, DestroyStep(o)
    PROVE  Base'
<1> USE DEF Base, Proceeds, destroyFrame, shutdownVars, DestroyBusy, Present, Ops
<1>1. ASSUME NEW s \in Scans, ReceiveDestroy(o, s) PROVE Base'
  <2>1. overlapped' \subseteq Names
    <3>1. CreatingNames' \subseteq Names
      BY <1>1, OpsAssumption DEF ReceiveDestroy, CreatingNames, NameFor, CreateBusy, TypeOK, Received
    <3> QED
      BY <1>1, <3>1 DEF ReceiveDestroy, NotesOverlap, TypeOK
  <2> QED
    BY <1>1, <2>1 DEF ReceiveDestroy, TypeOK, Received
<1>2. CASE Take(o)
  <2>1. target' \in [Ops -> Creates \union {None}]
    BY <1>2 DEF Take, TypeOK, Received, Entry
  <2> QED
    BY <1>2, <2>1 DEF Take, Dropped, TypeOK, Received
<1>3. CASE Stop(o)
  BY <1>3 DEF Stop, Stopped, TypeOK, Received
<1>4. CASE Remove(o)
  BY <1>4 DEF Remove, Removed, TypeOK, Received
<1>5. CASE RemoveFails(o)
  BY <1>5 DEF RemoveFails, TypeOK, Received
<1> QED
  BY <1>1, <1>2, <1>3, <1>4, <1>5 DEF DestroyStep

\* Shutdown and restart keep the types.
LEMMA ProcessBase ==
    ASSUME Base, Shutdown \/ DaemonRestarts \/ (\E c \in Creates : ContainerDies(c)) \/ UNCHANGED vars
    PROVE  Base'
<1> USE DEF Base, shutdownFrame, shutdownVars, opVars, Present, Ops
<1>1. CASE ClientClosed \/ CleanupSnapshot
  BY <1>1 DEF ClientClosed, CleanupSnapshot, TypeOK, Received
<1>2. CASE CleanupTake
  BY <1>2 DEF CleanupTake, Dropped, TypeOK, Received, Entry
<1>3. CASE CleanupStop
  BY <1>3 DEF CleanupStop, Stopped, TypeOK, Received
<1>4. CASE CleanupRemove
  BY <1>4 DEF CleanupRemove, Removed, TypeOK, Received
<1>5. CASE Exit \/ MainReturns
  BY <1>5 DEF Exit, MainReturns, TypeOK, Received
<1>6. CASE DaemonRestarts
  BY <1>6 DEF DaemonRestarts, Abandoned, CreateBusy, DestroyBusy, TypeOK, Received
<1>7. ASSUME NEW c \in Creates, ContainerDies(c) PROVE Base'
  BY <1>7 DEF ContainerDies, TypeOK, Received
<1>8. CASE UNCHANGED vars
  BY <1>8 DEF vars, TypeOK, Received
<1> QED
  BY <1>1, <1>2, <1>3, <1>4, <1>5, <1>6, <1>7, <1>8 DEF Shutdown

\* Every step keeps the types.
LEMMA StepBase == Base /\ Aimed /\ [Next]_vars => Base'
BY CreateBase, DestroyBase, ProcessBase DEF Next

-----------------------------------------------------------------------------
(* What operations and the map point at *)

\* An operation keeps its scan and its name from its message on.
LEMMA NamesKept ==
    ASSUME Base, [Next]_vars
    PROVE  /\ nameOf' = nameOf
           /\ \A o \in Creates : create[o] # "idle" =>
                  /\ scanOf'[o] = scanOf[o] /\ NameFor(o)' = NameFor(o) /\ create'[o] # "idle"
           /\ \A o \in Destroys : destroy[o] # "idle" =>
                  /\ scanOf'[o] = scanOf[o] /\ NameFor(o)' = NameFor(o) /\ destroy'[o] # "idle"
<1> USE DEF Base, createFrame, destroyFrame, shutdownFrame, shutdownVars, opVars, NameFor, Ops
<1>1. ASSUME NEW o \in Creates, NEW s \in Scans, ReceiveCreate(o, s)
      PROVE  /\ nameOf' = nameOf /\ destroy' = destroy
             /\ \A x \in Ops \ {o} : scanOf'[x] = scanOf[x]
             /\ create[o] = "idle" /\ create'[o] # "idle" /\ \A x \in Creates \ {o} : create'[x] = create[x]
  BY <1>1 DEF ReceiveCreate, Moves, TypeOK
<1>2. ASSUME NEW o \in Destroys, NEW s \in Scans, ReceiveDestroy(o, s)
      PROVE  /\ nameOf' = nameOf /\ create' = create
             /\ \A x \in Ops \ {o} : scanOf'[x] = scanOf[x]
             /\ destroy[o] = "idle" /\ destroy'[o] # "idle" /\ \A x \in Destroys \ {o} : destroy'[x] = destroy[x]
  BY <1>2 DEF ReceiveDestroy, Proceeds, TypeOK
<1>3. ASSUME NEW o \in Creates, CreateStep(o), \A s \in Scans : ~ReceiveCreate(o, s)
      PROVE  /\ UNCHANGED <<nameOf, scanOf, destroy>>
             /\ create'[o] # "idle" /\ \A x \in Creates \ {o} : create'[x] = create[x]
  BY <1>3 DEF CreateStep, CallFails, CheckMap, ContainerCreate, ContainerStart, GetMappedPort, Store,
              Recover, InspectFailed, Restart, Reinspect, Moves, TypeOK
<1>4. ASSUME NEW o \in Destroys, DestroyStep(o), \A s \in Scans : ~ReceiveDestroy(o, s)
      PROVE  /\ UNCHANGED <<nameOf, scanOf, create>>
             /\ destroy'[o] # "idle" /\ \A x \in Destroys \ {o} : destroy'[x] = destroy[x]
  BY <1>4 DEF DestroyStep, Take, Stop, Remove, RemoveFails, Proceeds, TypeOK
<1>5. ASSUME Shutdown \/ (\E c \in Creates : ContainerDies(c)) \/ UNCHANGED vars
      PROVE  UNCHANGED <<nameOf, scanOf, create, destroy>>
  BY <1>5 DEF Shutdown, ClientClosed, CleanupSnapshot, CleanupTake, CleanupStop, CleanupRemove, Exit,
              MainReturns, ContainerDies, vars
<1>6. ASSUME DaemonRestarts
      PROVE  /\ UNCHANGED <<nameOf, scanOf>>
             /\ \A o \in Creates : create[o] # "idle" => create'[o] # "idle"
             /\ \A o \in Destroys : destroy[o] # "idle" => destroy'[o] # "idle"
  BY <1>6 DEF DaemonRestarts, Abandoned, TypeOK
<1>7. CASE \E o \in Creates : CreateStep(o)
  BY <1>1, <1>3, <1>7, OpsAssumption
<1>8. CASE \E o \in Destroys : DestroyStep(o)
  BY <1>2, <1>4, <1>8, OpsAssumption
<1> QED
  BY <1>5, <1>6, <1>7, <1>8 DEF Next

\* What was made under a name stays known to the engine under it.
LEMMA DockerKept ==
    ASSUME Base, Made, [Next]_vars
    PROVE  \A c \in Creates : docker[c] # "none" =>
               docker'[c] # "none" /\ NameFor(c)' = NameFor(c) /\ create[c] # "idle"
<1> USE DEF Base, TypeOK, Present
<1>1. \A c \in Creates : docker[c] # "none" => docker'[c] # "none"
  BY DEF Next, CreateStep, ReceiveCreate, CallFails, CheckMap, ContainerCreate, ContainerStart,
         GetMappedPort, Store, Recover, Restart, Reinspect, DestroyStep, ReceiveDestroy, Take, Stop,
         Remove, RemoveFails, Shutdown, ClientClosed, CleanupSnapshot, CleanupTake, CleanupStop,
         CleanupRemove, Exit, MainReturns, DaemonRestarts, ContainerDies, vars, Started, Stopped,
         Removed
<1> QED
  BY <1>1, NamesKept DEF Made

\* A create aims at the container it made, finds or takes from the map.
LEMMA CreateShape ==
    ASSUME Base, Shape, NEW o \in Creates, CreateStep(o)
    PROVE  Shape'
<1>k. /\ \A c \in Creates : docker[c] # "none" => docker'[c] # "none" /\ NameFor(c)' = NameFor(c)
      /\ \A x \in Creates : create[x] # "idle" => NameFor(x)' = NameFor(x)
      /\ \A x \in Destroys : destroy[x] # "idle" => NameFor(x)' = NameFor(x)
      /\ nameOf' = nameOf
  BY DockerKept, NamesKept DEF Next, Shape
<1>n. None \notin Creates /\ Creates \cap Destroys = {}
  BY OpsAssumption
<1>a. Aimed /\ Made /\ Entries /\ EntryMatches /\ Dooming
  BY DEF Shape
<1>t. /\ create \in [Creates -> {"idle", "ready", "failed", "lost"} \union CreateBusy]
      /\ destroy \in [Destroys -> {"idle", "finished", "lost"} \union DestroyBusy]
      /\ target \in [Ops -> Creates \union {None}] /\ Ops = Creates \union Destroys
      /\ containers \in [Scans -> Entry \union {None}]
      /\ docker \in [Creates -> {"none", "removed"} \union Present]
  BY DEF Base, TypeOK, Ops
<1> USE DEF Moves, createFrame, shutdownVars
<1>1. ASSUME NEW s \in Scans, ReceiveCreate(o, s) PROVE Shape'
  <2>1. Aimed'
    BY <1>1, <1>k, <1>n, <1>a, <1>t DEF ReceiveCreate, Aimed, Aims, Holding
  <2>2. Made' /\ Entries' /\ EntryMatches' /\ Dooming'
    BY <1>1, <1>k, <1>a, <1>t DEF ReceiveCreate, Made, Entries, EntryMatches, Entry, Dooming
  <2> QED
    BY <2>1, <2>2 DEF Shape
<1>2. ASSUME NEW p \in CreateBusy, CallFails(o, p) PROVE Shape'
  <2>1. Aimed'
    BY <1>2, <1>k, <1>n, <1>a, <1>t DEF CallFails, Aimed, Aims, Holding
  <2>2. Made' /\ Entries' /\ EntryMatches' /\ Dooming'
    BY <1>2, <1>k, <1>a, <1>t DEF CallFails, Made, Entries, EntryMatches, Entry, Dooming, CreateBusy
  <2> QED
    BY <2>1, <2>2 DEF Shape
<1>3. CASE CheckMap(o)
  <2>1. Aimed'
    BY <1>3, <1>k, <1>n, <1>a, <1>t DEF CheckMap, Aimed, Aims, Holding
  <2>2. Made' /\ Entries' /\ EntryMatches' /\ Dooming'
    BY <1>3, <1>k, <1>a, <1>t DEF CheckMap, Made, Entries, EntryMatches, Entry, Dooming
  <2> QED
    BY <2>1, <2>2 DEF Shape
<1>4. CASE ContainerCreate(o)
  <2>1. Aimed'
    BY <1>4, <1>k, <1>n, <1>a, <1>t DEF ContainerCreate, Aimed, Aims, Holding
  <2>2. Made' /\ Entries' /\ EntryMatches' /\ Dooming'
    BY <1>4, <1>k, <1>a, <1>t DEF ContainerCreate, Made, Entries, EntryMatches, Entry, Dooming
  <2> QED
    BY <2>1, <2>2 DEF Shape
<1>5. CASE ContainerStart(o)
  <2>1. Aimed'
    BY <1>5, <1>k, <1>n, <1>a, <1>t DEF ContainerStart, Aimed, Aims, Holding
  <2>2. Made' /\ Entries' /\ EntryMatches' /\ Dooming'
    BY <1>5, <1>k, <1>a, <1>t DEF ContainerStart, Started, Made, Entries, EntryMatches, Entry, Dooming,
       Present
  <2> QED
    BY <2>1, <2>2 DEF Shape
<1>6. CASE GetMappedPort(o) \/ Reinspect(o)
  <2>1. Aimed'
    BY <1>6, <1>k, <1>n, <1>a, <1>t DEF GetMappedPort, Reinspect, Aimed, Aims, Holding
  <2>2. Made' /\ Entries' /\ EntryMatches' /\ Dooming'
    BY <1>6, <1>k, <1>a, <1>t DEF GetMappedPort, Reinspect, Made, Entries, EntryMatches, Entry, Dooming
  <2> QED
    BY <2>1, <2>2 DEF Shape
<1>7. CASE Store(o)
  <2>0. Aims(o) /\ scanOf[o] \in Scans
    BY <1>7, <1>a DEF Store, Aimed, Holding, Base, Received
  <2>1. Aimed'
    BY <1>7, <1>k, <1>n, <1>a, <1>t DEF Store, Aimed, Aims, Holding
  <2>2. Made' /\ Dooming'
    BY <1>7, <1>k, <1>a, <1>t DEF Store, Made, Dooming
  <2>3. Entries' /\ EntryMatches'
    BY <1>7, <1>k, <1>a, <1>t, <2>0 DEF Store, TokenOf, Aims, Entries, EntryMatches, Entry, NameFor
  <2> QED
    BY <2>1, <2>2, <2>3 DEF Shape
<1>8. CASE Recover(o)
  <2>1. Aimed'
    BY <1>8, <1>k, <1>n, <1>a, <1>t
       DEF Recover, InspectFailed, Named, Present, Aimed, Aims, Holding
  <2>2. Made' /\ Entries' /\ EntryMatches' /\ Dooming'
    BY <1>8, <1>k, <1>a, <1>t
       DEF Recover, InspectFailed, Made, Entries, EntryMatches, Entry, Dooming
  <2> QED
    BY <2>1, <2>2 DEF Shape
<1>9. CASE Restart(o)
  <2>1. Aimed'
    BY <1>9, <1>k, <1>n, <1>a, <1>t DEF Restart, Aimed, Aims, Holding
  <2>2. Made' /\ Entries' /\ EntryMatches' /\ Dooming'
    BY <1>9, <1>k, <1>a, <1>t DEF Restart, Started, Present, Made, Entries, EntryMatches, Entry, Dooming
  <2> QED
    BY <2>1, <2>2 DEF Shape
<1> QED
  BY <1>1, <1>2, <1>3, <1>4, <1>5, <1>6, <1>7, <1>8, <1>9 DEF CreateStep

\* A destroy aims at the container it takes from the map.
LEMMA DestroyShape ==
    ASSUME Base, Shape, NEW o \in Destroys, DestroyStep(o)
    PROVE  Shape'
<1>k. /\ \A c \in Creates : docker[c] # "none" => docker'[c] # "none" /\ NameFor(c)' = NameFor(c)
      /\ \A x \in Creates : create[x] # "idle" => NameFor(x)' = NameFor(x)
      /\ \A x \in Destroys : destroy[x] # "idle" => NameFor(x)' = NameFor(x)
      /\ nameOf' = nameOf
  BY DockerKept, NamesKept DEF Next, Shape
<1>n. None \notin Creates /\ Creates \cap Destroys = {}
  BY OpsAssumption
<1>a. Aimed /\ Made /\ Entries /\ EntryMatches /\ Dooming
  BY DEF Shape
<1>t. /\ create \in [Creates -> {"idle", "ready", "failed", "lost"} \union CreateBusy]
      /\ destroy \in [Destroys -> {"idle", "finished", "lost"} \union DestroyBusy]
      /\ target \in [Ops -> Creates \union {None}] /\ Ops = Creates \union Destroys
      /\ containers \in [Scans -> Entry \union {None}]
      /\ docker \in [Creates -> {"none", "removed"} \union Present]
  BY DEF Base, TypeOK, Ops
<1> USE DEF Proceeds, destroyFrame, shutdownVars
<1>1. ASSUME NEW s \in Scans, ReceiveDestroy(o, s) PROVE Shape'
  <2>1. Aimed'
    BY <1>1, <1>k, <1>n, <1>a, <1>t DEF ReceiveDestroy, Aimed, Aims, Holding
  <2>2. Made' /\ Entries' /\ EntryMatches' /\ Dooming'
    BY <1>1, <1>k, <1>a, <1>t DEF ReceiveDestroy, Made, Entries, EntryMatches, Entry, Dooming
  <2> QED
    BY <2>1, <2>2 DEF Shape
<1>2. CASE Take(o)
  <2>0. scanOf[o] \in Scans /\ NameFor(o) = nameOf[scanOf[o]]
    BY <1>2 DEF Take, Base, Received, NameFor
  <2>1. Aimed'
    BY <1>2, <1>k, <1>n, <1>a, <1>t, <2>0
       DEF Take, Entries, EntryMatches, Entry, Aimed, Aims, Holding
  <2>2. Made' /\ Entries' /\ EntryMatches' /\ Dooming'
    BY <1>2, <1>k, <1>a, <1>t DEF Take, Dropped, Made, Entries, EntryMatches, Entry, Dooming
  <2> QED
    BY <2>1, <2>2 DEF Shape
<1>3. CASE Stop(o) \/ Remove(o) \/ RemoveFails(o)
  <2>1. Aimed'
    BY <1>3, <1>k, <1>n, <1>a, <1>t DEF Stop, Remove, RemoveFails, Aimed, Aims, Holding
  <2>2. Made' /\ Entries' /\ EntryMatches' /\ Dooming'
    BY <1>3, <1>k, <1>a, <1>t
       DEF Stop, Remove, RemoveFails, Stopped, Removed, Present, Made, Entries, EntryMatches, Entry,
           Dooming
  <2> QED
    BY <2>1, <2>2 DEF Shape
<1> QED
  BY <1>1, <1>2, <1>3 DEF DestroyStep

\* CleanupAll aims at what the map names.
LEMMA ProcessShape ==
    ASSUME Base, Shape,
           Shutdown \/ DaemonRestarts \/ (\E c \in Creates : ContainerDies(c)) \/ UNCHANGED vars
    PROVE  Shape'
<1>k. /\ \A c \in Creates : docker[c] # "none" => docker'[c] # "none" /\ NameFor(c)' = NameFor(c)
      /\ \A x \in Creates : create[x] # "idle" => NameFor(x)' = NameFor(x)
      /\ \A x \in Destroys : destroy[x] # "idle" => NameFor(x)' = NameFor(x)
      /\ nameOf' = nameOf
  BY DockerKept, NamesKept DEF Next, Shape
<1>a. Aimed /\ Made /\ Entries /\ EntryMatches /\ Dooming
  BY DEF Shape
<1>t. /\ create \in [Creates -> {"idle", "ready", "failed", "lost"} \union CreateBusy]
      /\ destroy \in [Destroys -> {"idle", "finished", "lost"} \union DestroyBusy]
      /\ target \in [Ops -> Creates \union {None}] /\ Ops = Creates \union Destroys
      /\ containers \in [Scans -> Entry \union {None}]
      /\ docker \in [Creates -> {"none", "removed"} \union Present]
  BY DEF Base, TypeOK, Ops
<1> USE DEF shutdownFrame, shutdownVars, opVars
<1>1. CASE Shutdown
  <2>1. Aimed' /\ Made'
    <3>1. UNCHANGED <<create, destroy, target>>
      BY <1>1 DEF Shutdown, ClientClosed, CleanupSnapshot, CleanupTake, CleanupStop, CleanupRemove,
                  Exit, MainReturns
    <3>2. \A c \in Creates : docker'[c] # "none" => docker[c] # "none"
      BY <1>1, <1>t
         DEF Shutdown, ClientClosed, CleanupSnapshot, CleanupTake, CleanupStop, CleanupRemove,
             Exit, MainReturns, Stopped, Removed, Present
    <3> QED
      BY <1>k, <1>a, <1>t, <3>1, <3>2 DEF Aimed, Aims, Holding, Made
  <2>2. Entries' /\ EntryMatches'
    <3>1. \A s \in Scans : containers'[s] = containers[s] \/ containers'[s] = None
      BY <1>1, <1>t
         DEF Shutdown, ClientClosed, CleanupSnapshot, CleanupTake, CleanupStop, CleanupRemove,
             Exit, MainReturns, Dropped
    <3> QED
      BY <1>k, <1>a, <1>t, <3>1 DEF Entries, EntryMatches, Entry
  <2>3. Dooming'
    <3>1. CASE CleanupTake
      <4>1. todo \subseteq Scans
        BY DEF Base, TypeOK
      <4> QED
        BY <1>a, <1>t, <3>1, <4>1 DEF CleanupTake, Dooming, Entry
    <3>2. CASE ~CleanupTake
      BY <1>1, <1>a, <3>2
         DEF Shutdown, ClientClosed, CleanupSnapshot, CleanupStop, CleanupRemove, Exit, MainReturns,
             Dooming
    <3> QED
      BY <3>1, <3>2
  <2> QED
    BY <2>1, <2>2, <2>3 DEF Shape
<1>2. CASE DaemonRestarts
  <2>1. Aimed' /\ Made'
    BY <1>2, <1>k, <1>a, <1>t
       DEF DaemonRestarts, Abandoned, CreateBusy, DestroyBusy, Aimed, Aims, Holding, Made
  <2>2. Entries' /\ EntryMatches' /\ Dooming'
    BY <1>2, <1>k, <1>a, <1>t DEF DaemonRestarts, Entries, EntryMatches, Dooming
  <2> QED
    BY <2>1, <2>2 DEF Shape
<1>3. CASE (\E c \in Creates : ContainerDies(c)) \/ UNCHANGED vars
  <2>1. UNCHANGED <<containers, create, destroy, target, cleaning, process, doomed>>
    BY <1>3 DEF ContainerDies, vars
  <2>2. \A c \in Creates : docker'[c] # "none" => docker[c] # "none"
    BY <1>3, <1>t DEF ContainerDies, vars
  <2>3. Aimed' /\ Made'
    BY <1>k, <1>a, <1>t, <2>1, <2>2 DEF Aimed, Aims, Holding, Made
  <2>4. Entries' /\ EntryMatches' /\ Dooming'
    BY <1>k, <1>a, <1>t, <2>1 DEF Entries, EntryMatches, Entry, Dooming
  <2> QED
    BY <2>3, <2>4 DEF Shape
<1> QED
  BY <1>1, <1>2, <1>3

\* Every step keeps what operations and the map point at.
LEMMA StepShape == Base /\ Shape /\ [Next]_vars => Shape'
BY CreateShape, DestroyShape, ProcessShape DEF Next

-----------------------------------------------------------------------------
(* Creates and destroys that meet *)

\* What no step of one life of the daemon undoes.
LEMMA StepFacts ==
    ASSUME Base, Shape, [Next]_vars, ~DaemonRestarts
    PROVE  /\ overlapped \subseteq overlapped'
           /\ \A o \in Ops : target[o] # None => target'[o] = target[o]
           /\ process' = "up" => process = "up"
           /\ Alive' => Alive
           /\ ~faulty' => ~faulty
           /\ process' = "cleaning" => CleanupSnapshot \/ (process = "cleaning" /\ busy' = busy)
           /\ process = "cleaning" /\ Alive' => process' = "cleaning" /\ busy' = busy
<1>t. /\ target \in [Ops -> Creates \union {None}] /\ Ops = Creates \union Destroys
      /\ \A o \in Creates : create[o] \in {"idle", "checking", "creating", "recovering"} => target[o] = None
      /\ \A o \in Destroys : destroy[o] \in {"idle", "taking"} => target[o] = None
  BY DEF Base, Shape, Aimed, TypeOK, Ops
<1> USE DEF createFrame, destroyFrame, shutdownFrame, shutdownVars, opVars, Moves, Proceeds, Alive
<1>1. ASSUME NEW o \in Creates, CreateStep(o)
      PROVE  /\ overlapped \subseteq overlapped' /\ process' = process /\ (~faulty' => ~faulty)
             /\ \A x \in Ops : target[x] # None => target'[x] = target[x]
             /\ busy' = busy
  BY <1>1, <1>t
     DEF CreateStep, ReceiveCreate, NotesOverlap, CallFails, CheckMap, ContainerCreate,
         ContainerStart, GetMappedPort, Store, Recover, Restart, Reinspect
<1>2. ASSUME NEW o \in Destroys, DestroyStep(o)
      PROVE  /\ overlapped \subseteq overlapped' /\ process' = process /\ (~faulty' => ~faulty)
             /\ \A x \in Ops : target[x] # None => target'[x] = target[x]
             /\ busy' = busy
  BY <1>2, <1>t DEF DestroyStep, ReceiveDestroy, NotesOverlap, Take, Stop, Remove, RemoveFails
<1>3. CASE Shutdown
  BY <1>3 DEF Shutdown, ClientClosed, CleanupSnapshot, CleanupTake, CleanupStop, CleanupRemove, Exit,
              MainReturns
<1>4. CASE (\E c \in Creates : ContainerDies(c)) \/ UNCHANGED vars
  BY <1>4 DEF ContainerDies, vars
<1> QED
  BY <1>1, <1>2, <1>3, <1>4 DEF Next

\* A container appears only where ContainerCreate finds its name free.
LEMMA PresentKept ==
    ASSUME Base, [Next]_vars
    PROVE  \/ \E o \in Creates : ContainerCreate(o) /\ docker' = [docker EXCEPT ![o] = "created"]
                                  /\ ~NameInUse(o)
           \/ \A c \in Creates : docker'[c] \in Present => docker[c] \in Present
<1> USE DEF Base, TypeOK, Present
<1>1. ASSUME NEW o \in Creates, CreateStep(o), ~ContainerCreate(o)
      PROVE  \A c \in Creates : docker'[c] \in Present => docker[c] \in Present
  BY <1>1 DEF CreateStep, ReceiveCreate, CallFails, CheckMap, ContainerStart, Started, GetMappedPort,
              Store, Recover, Restart, Reinspect
<1>2. ASSUME NEW o \in Destroys, DestroyStep(o)
      PROVE  \A c \in Creates : docker'[c] \in Present => docker[c] \in Present
  BY <1>2 DEF DestroyStep, ReceiveDestroy, Take, Stop, Stopped, Remove, Removed, RemoveFails
<1>3. CASE Shutdown \/ DaemonRestarts \/ (\E c \in Creates : ContainerDies(c)) \/ UNCHANGED vars
  BY <1>3 DEF Shutdown, ClientClosed, CleanupSnapshot, CleanupTake, CleanupStop, Stopped,
              CleanupRemove, Removed, Exit, MainReturns, DaemonRestarts, ContainerDies, vars,
              shutdownFrame
<1>4. ASSUME NEW o \in Creates, ContainerCreate(o)
      PROVE  \/ docker' = [docker EXCEPT ![o] = "created"] /\ ~NameInUse(o)
             \/ \A c \in Creates : docker'[c] \in Present => docker[c] \in Present
  BY <1>4 DEF ContainerCreate
<1> QED
  BY <1>1, <1>2, <1>3, <1>4 DEF Next

\* Only its own steps, or the end of the daemon, move an operation.
LEMMA PlacesChange ==
    ASSUME Base, [Next]_vars, ~DaemonRestarts
    PROVE  /\ \A o \in Creates : create'[o] # create[o] => CreateStep(o)
           /\ \A o \in Destroys : destroy'[o] # destroy[o] => DestroyStep(o)
<1> USE DEF Base, TypeOK, createFrame, destroyFrame, shutdownFrame, opVars, Moves, Proceeds
<1>1. ASSUME NEW o \in Creates, CreateStep(o)
      PROVE  destroy' = destroy /\ \A x \in Creates \ {o} : create'[x] = create[x]
  BY <1>1 DEF CreateStep, ReceiveCreate, CallFails, CheckMap, ContainerCreate, ContainerStart,
              GetMappedPort, Store, Recover, Restart, Reinspect
<1>2. ASSUME NEW o \in Destroys, DestroyStep(o)
      PROVE  create' = create /\ \A x \in Destroys \ {o} : destroy'[x] = destroy[x]
  BY <1>2 DEF DestroyStep, ReceiveDestroy, Take, Stop, Remove, RemoveFails
<1>3. CASE Shutdown \/ (\E c \in Creates : ContainerDies(c)) \/ UNCHANGED vars
  BY <1>3 DEF Shutdown, ClientClosed, CleanupSnapshot, CleanupTake, CleanupStop, CleanupRemove,
              Exit, MainReturns, ContainerDies, vars
<1> QED
  BY <1>1, <1>2, <1>3 DEF Next

\* The engine never has two containers of one name.
LEMMA StepOneName == Base /\ Shape /\ OneName /\ [Next]_vars => OneName'
<1> SUFFICES ASSUME Base, Shape, OneName, [Next]_vars PROVE OneName'
  OBVIOUS
<1>1. \A c \in Creates : docker[c] # "none" => NameFor(c)' = NameFor(c)
  BY DockerKept DEF Shape
<1>2. CASE \A c \in Creates : docker'[c] \in Present => docker[c] \in Present
  BY <1>1, <1>2 DEF OneName, Present
<1>3. ASSUME NEW o \in Creates, ContainerCreate(o), docker' = [docker EXCEPT ![o] = "created"],
             ~NameInUse(o)
      PROVE  OneName'
  <2>1. \A c \in Creates \ {o} : docker'[c] \in Present =>
            docker[c] \in Present /\ NameFor(c)' = NameFor(c) /\ NameFor(c) # NameFor(o)
    BY <1>1, <1>3 DEF NameInUse, Named, Present, Base, TypeOK
  <2>2. NameFor(o)' = NameFor(o)
    BY <1>3, NamesKept DEF ContainerCreate, Moves
  <2> QED
    BY <2>1, <2>2 DEF OneName
<1> QED
  BY <1>2, <1>3, PresentKept

\* A meeting of a create and a destroy is noticed when the later one begins.
LEMMA StepMet == Base /\ Shape /\ Met /\ [Next]_vars => Met'
<1> SUFFICES ASSUME Base, Shape, Met, [Next]_vars PROVE Met'
  OBVIOUS
<1>1. CASE NotesOverlap
  BY <1>1 DEF NotesOverlap, CreatingNames, DestroyingNames, Met
<1>2. CASE ~NotesOverlap
  <2>1. /\ \A o \in Creates : create'[o] \in CreateBusy => create[o] \in CreateBusy
        /\ \A o \in Destroys : destroy'[o] \in DestroyBusy => destroy[o] \in DestroyBusy
    <3> USE DEF Base, TypeOK, createFrame, destroyFrame, shutdownFrame, opVars, Moves, Proceeds
    <3>1. ASSUME NEW o \in Creates, CreateStep(o)
          PROVE  /\ create[o] \in CreateBusy /\ destroy' = destroy
                 /\ \A x \in Creates \ {o} : create'[x] = create[x]
      BY <1>2, <3>1
         DEF CreateStep, ReceiveCreate, CallFails, CheckMap, ContainerCreate, ContainerStart,
             GetMappedPort, Store, Recover, Restart, Reinspect, CreateBusy
    <3>2. ASSUME NEW o \in Destroys, DestroyStep(o)
          PROVE  /\ destroy[o] \in DestroyBusy /\ create' = create
                 /\ \A x \in Destroys \ {o} : destroy'[x] = destroy[x]
      BY <1>2, <3>2 DEF DestroyStep, ReceiveDestroy, Take, Stop, Remove, RemoveFails, DestroyBusy
    <3>3. CASE DaemonRestarts
      BY <3>3 DEF DaemonRestarts, Abandoned, CreateBusy, DestroyBusy
    <3>4. CASE Shutdown \/ (\E c \in Creates : ContainerDies(c)) \/ UNCHANGED vars
      BY <3>4 DEF Shutdown, ClientClosed, CleanupSnapshot, CleanupTake, CleanupStop, CleanupRemove,
                  Exit, MainReturns, ContainerDies, vars
    <3> QED
      BY <3>1, <3>2, <3>3, <3>4 DEF Next
  <2>2. overlapped \subseteq overlapped'
    <3>1. CASE DaemonRestarts
      BY <3>1 DEF DaemonRestarts
    <3>2. CASE ~DaemonRestarts
      BY <3>2, StepFacts
    <3> QED
      BY <3>1, <3>2
  <2> QED
    BY <2>1, <2>2, NamesKept DEF Met, CreateBusy, DestroyBusy
<1> QED
  BY <1>1, <1>2

\* The entries of the map change by a Store, a Take, CleanupAll or a restart.
LEMMA EntriesChange ==
    ASSUME Base, Shape, [Next]_vars, NEW s \in Scans, containers'[s] # None
    PROVE  \/ containers'[s] = containers[s]
           \/ \E o \in Creates : Store(o) /\ scanOf[o] = s /\ containers'[s] = [id |-> target[o], token |-> target[o]]
<1> USE DEF Base, TypeOK, Dropped, TokenOf, shutdownFrame, shutdownVars
<1>1. ASSUME NEW o \in Creates, CreateStep(o)
      PROVE  containers'[s] = containers[s] \/ (Store(o) /\ scanOf[o] = s /\ containers'[s] = [id |-> target[o], token |-> target[o]])
  BY <1>1 DEF CreateStep, ReceiveCreate, CallFails, CheckMap, ContainerCreate, ContainerStart,
              GetMappedPort, Store, Recover, Restart, Reinspect
<1>2. ASSUME NEW o \in Destroys, DestroyStep(o)
      PROVE  containers'[s] = containers[s]
  BY <1>2 DEF DestroyStep, ReceiveDestroy, Take, Stop, Remove, RemoveFails
<1>3. CASE Shutdown \/ DaemonRestarts \/ (\E c \in Creates : ContainerDies(c)) \/ UNCHANGED vars
  BY <1>3 DEF Shutdown, ClientClosed, CleanupSnapshot, CleanupTake, CleanupStop, CleanupRemove,
              Exit, MainReturns, DaemonRestarts, ContainerDies, vars
<1> QED
  BY <1>1, <1>2, <1>3 DEF Next

\* A destroy takes its entry, and only a create it has met puts one back.
LEMMA StepTaken == Base /\ Shape /\ Met /\ Taken /\ [Next]_vars => Taken'
<1> SUFFICES ASSUME Base, Shape, Met, Taken, [Next]_vars,
                    NEW d \in Destroys, destroy'[d] \in {"stopping", "removing"},
                    Alone(scanOf[d])', NameFor(d)' \notin overlapped'
             PROVE  containers'[scanOf'[d]] = None
  BY DEF Taken
<1>0. ~DaemonRestarts
  BY DEF DaemonRestarts, Abandoned, DestroyBusy, Base, TypeOK
<1>1. \/ destroy[d] = destroy'[d]
      \/ Take(d) /\ destroy[d] = "taking"
      \/ destroy[d] = "stopping"
  <2>1. CASE destroy'[d] # destroy[d]
    <3>1. DestroyStep(d)
      BY <1>0, <2>1, PlacesChange
    <3> QED
      BY <3>1 DEF DestroyStep, ReceiveDestroy, Take, Stop, Remove, RemoveFails, Proceeds, Base, TypeOK
  <2> QED
    BY <2>1
<1>2. scanOf'[d] = scanOf[d] /\ NameFor(d)' = NameFor(d) /\ nameOf' = nameOf /\ scanOf[d] \in Scans
  BY <1>1, NamesKept DEF Base, Received
<1>3. NameFor(d) \notin overlapped /\ Alone(scanOf[d])
  <2>1. Alone(scanOf[d])
    BY <1>2 DEF Alone
  <2> QED
    BY <1>0, <1>2, <2>1, StepFacts
<1>4. CASE destroy[d] = "taking"
  BY <1>1, <1>2, <1>4 DEF Take, Dropped, Base, TypeOK
<1>5. CASE destroy[d] # "taking"
  <2>1. containers[scanOf[d]] = None
    BY <1>1, <1>3, <1>5 DEF Taken
  <2>2. ASSUME NEW o \in Creates, Store(o), scanOf[o] = scanOf[d] PROVE FALSE
    <3>1. create[o] \in CreateBusy /\ NameFor(o) = NameFor(d)
      BY <2>2 DEF Store, Moves, CreateBusy, NameFor
    <3> QED
      BY <1>1, <1>3, <3>1 DEF Met, DestroyBusy
  <2>3. PICK s \in Scans : s = scanOf[d]
    BY <1>2
  <2>4. containers'[s] = None
    <3> SUFFICES ASSUME containers'[s] # None PROVE FALSE
      OBVIOUS
    <3>1. containers'[s] = containers[s] \/ \E o \in Creates : Store(o) /\ scanOf[o] = s
      BY EntriesChange
    <3> QED
      BY <2>1, <2>2, <2>3, <3>1
  <2> QED
    BY <1>2, <2>3, <2>4
<1> QED
  BY <1>4, <1>5

-----------------------------------------------------------------------------
(* What is removed, and what is left *)

\* Containers are removed by a destroy or by CleanupAll.
LEMMA PresentLost ==
    ASSUME Base, [Next]_vars, NEW c \in Creates, docker[c] \in Present, docker'[c] \notin Present
    PROVE  \/ \E d \in Destroys : Remove(d) /\ target[d] = c
           \/ CleanupRemove /\ doomed = c /\ docker' = [docker EXCEPT ![c] = "removed"]
<1> USE DEF Base, TypeOK, Present
<1>1. ASSUME NEW o \in Creates, CreateStep(o) PROVE docker'[c] \in Present
  BY <1>1 DEF CreateStep, ReceiveCreate, CallFails, CheckMap, ContainerCreate, ContainerStart, Started,
              GetMappedPort, Store, Recover, Restart, Reinspect
<1>2. ASSUME NEW o \in Destroys, DestroyStep(o) PROVE Remove(o) /\ target[o] = c
  BY <1>2 DEF DestroyStep, ReceiveDestroy, Take, Stop, Stopped, Remove, Removed, RemoveFails
<1>3. CASE Shutdown
  BY <1>3 DEF Shutdown, ClientClosed, CleanupSnapshot, CleanupTake, CleanupStop, Stopped,
              CleanupRemove, Removed, Exit, MainReturns, shutdownFrame
<1>4. CASE DaemonRestarts \/ (\E x \in Creates : ContainerDies(x)) \/ UNCHANGED vars
  BY <1>4 DEF DaemonRestarts, ContainerDies, vars
<1> QED
  BY <1>1, <1>2, <1>3, <1>4 DEF Next

\* An operation that was late when the snapshot was taken stays so.
LEMMA LateKept ==
    ASSUME Base, Shape, [Next]_vars, ~DaemonRestarts, NEW c \in Creates, Late(c), Alive'
    PROVE  Late(c)'
<1>1. process' = "cleaning" /\ busy' = busy
  BY StepFacts DEF Late
<1>2. PICK o \in busy : target[o] = c
  BY DEF Late
<1>3. o \in Ops /\ target[o] # None
  BY <1>2, OpsAssumption DEF Base, TypeOK
<1> QED
  BY <1>1, <1>2, <1>3, StepFacts DEF Late

\* A create and a destroy at work on one container have met.
LEMMA SameContainer ==
    ASSUME Base, Shape, Met, NEW o \in Creates, create[o] \in Holding,
           NEW d \in Destroys, destroy[d] \in {"stopping", "removing"}, target[d] = target[o]
    PROVE  NameFor(o) \in overlapped
BY DEF Shape, Aimed, Aims, Met, Holding, CreateBusy, DestroyBusy

\* The container a create works on is there, or its name has passed to a late operation.
LEMMA StepLives == Base /\ Shape /\ OneName /\ Met /\ Snapshot /\ Lives /\ [Next]_vars => Lives'
<1> SUFFICES ASSUME Base, Shape, OneName, Met, Snapshot, Lives, [Next]_vars,
                    NEW o \in Creates, create'[o] \in Holding, Alive', NameFor(o)' \notin overlapped'
             PROVE  \/ docker'[target'[o]] \in Present
                    \/ process' = "cleaning" /\ \A c \in Named(NameFor(o))' : Late(c)'
  BY DEF Lives
<1>0. ~DaemonRestarts
  BY DEF DaemonRestarts, Abandoned, Holding, CreateBusy, Base, TypeOK
<1>1. CASE create[o] \notin Holding
  <2>1. CreateStep(o)
    BY <1>0, <1>1, PlacesChange
  <2>2. ContainerCreate(o) \/ Recover(o)
    BY <1>1, <2>1
       DEF CreateStep, ReceiveCreate, CallFails, CheckMap, ContainerStart, GetMappedPort, Store,
           Restart, Reinspect, Moves, Holding, Base, TypeOK
  <2>3. CASE ContainerCreate(o)
    BY <1>1, <2>3 DEF ContainerCreate, Moves, Holding, Base, TypeOK, Present, Ops
  <2>4. CASE Recover(o)
    BY <1>1, <2>4 DEF Recover, InspectFailed, Moves, Named, Holding, Base, TypeOK, Ops
  <2> QED
    BY <2>2, <2>3, <2>4
<1>2. CASE create[o] \in Holding
  <2> DEFINE c == target[o]
  <2>1. c \in Creates /\ docker[c] # "none" /\ NameFor(c) = NameFor(o) /\ o \in Ops /\ c # None
    BY <1>2, OpsAssumption DEF Shape, Aimed, Aims, Ops
  <2>2. target'[o] = c /\ NameFor(o)' = NameFor(o) /\ NameFor(o) \notin overlapped /\ Alive
    BY <1>0, <1>2, <2>1, StepFacts, NamesKept DEF Holding
  <2>3. \A x \in Creates : docker[x] \in Present => NameFor(x)' = NameFor(x)
    BY DockerKept DEF Shape, Present
  <2> HIDE DEF c
  <2>4. CASE docker[c] \in Present /\ docker'[c] \notin Present
    <3>1. CASE CleanupRemove /\ doomed = c /\ docker' = [docker EXCEPT ![c] = "removed"]
      <4>1. process' = "cleaning"
        BY <3>1 DEF CleanupRemove
      <4>2. Named(NameFor(o))' = {}
        BY <2>1, <2>2, <2>3, <2>4, <3>1 DEF Named, OneName, Base, TypeOK, Present
      <4> QED
        BY <4>1, <4>2
    <3>2. ASSUME NEW d \in Destroys, Remove(d), target[d] = c PROVE FALSE
      BY <1>2, <2>2, <3>2, SameContainer DEF Remove, Proceeds, c
    <3> QED
      BY <2>1, <2>4, <3>1, <3>2, PresentLost
  <2>5. CASE docker[c] \notin Present
    <3>1. process = "cleaning" /\ \A x \in Named(NameFor(o)) : Late(x)
      BY <1>2, <2>2, <2>5 DEF Lives, c
    <3>2. process' = "cleaning" /\ busy' = busy
      BY <1>0, <3>1, StepFacts
    <3>3. ASSUME NEW x \in Creates, docker'[x] \in Present, NameFor(x)' = NameFor(o)' PROVE Late(x)'
      <4>1. CASE docker[x] \in Present
        <5>1. Late(x)
          BY <2>2, <2>3, <3>1, <3>3, <4>1 DEF Named
        <5> QED
          BY <1>0, <5>1, LateKept
      <4>2. CASE docker[x] \notin Present
        <5>1. ContainerCreate(x) /\ docker' = [docker EXCEPT ![x] = "created"] /\ ~NameInUse(x)
          BY <3>3, <4>2, PresentKept DEF Base, TypeOK
        <5>2. create[x] = "creating" /\ x \in Ops
          BY <5>1 DEF ContainerCreate, Moves, Ops
        <5>3. target'[x] = x
          BY <3>3, <4>2, <5>1, <5>2 DEF ContainerCreate, Base, TypeOK
        <5>4. x \in busy
          BY <3>1, <5>2 DEF Snapshot, CreateBusy
        <5> QED
          BY <3>2, <5>3, <5>4 DEF Late
      <4> QED
        BY <4>1, <4>2
    <3> QED
      BY <3>2, <3>3 DEF Named
  <2> QED
    BY <2>2, <2>4, <2>5
<1> QED
  BY <1>1, <1>2

\* What the map names is there: only a destroy that met a create, or one of another scan
\* with the same name, removes it.
LEMMA StepTracked == Base /\ Shape /\ Met /\ Taken /\ Lives /\ TrackedIsThere /\ [Next]_vars => TrackedIsThere'
<1> SUFFICES ASSUME Base, Shape, Met, Taken, Lives, TrackedIsThere, [Next]_vars, process' = "up",
                    NEW s \in Scans, containers'[s] # None, Alone(s)', nameOf'[s] \notin overlapped'
             PROVE  docker'[containers'[s].id] # "removed"
  BY DEF TrackedIsThere
<1>0. ~DaemonRestarts
  BY DEF DaemonRestarts
<1>1. process = "up" /\ nameOf' = nameOf /\ nameOf[s] \notin overlapped /\ Alone(s)
  <2>1. nameOf' = nameOf
    BY NamesKept
  <2>2. Alone(s)
    BY <2>1 DEF Alone
  <2> QED
    BY <1>0, <2>1, <2>2, StepFacts
<1>2. ASSUME NEW o \in Creates, Store(o), scanOf[o] = s,
             containers'[s] = [id |-> target[o], token |-> target[o]]
      PROVE  docker'[containers'[s].id] # "removed"
  <2>1. create[o] \in Holding /\ NameFor(o) \notin overlapped /\ Alive /\ docker' = docker
    BY <1>1, <1>2 DEF Store, Moves, Holding, NameFor
  <2>2. docker[target[o]] \in Present
    BY <1>1, <2>1 DEF Lives
  <2> QED
    BY <1>2, <2>1, <2>2 DEF Present
<1>3. CASE containers'[s] = containers[s]
  <2> DEFINE c == containers[s].id
  <2>1. c \in Creates /\ docker[c] # "none" /\ NameFor(c) = nameOf[s] /\ docker[c] # "removed"
    BY <1>1, <1>3 DEF Shape, Entries, EntryMatches, TrackedIsThere, Base, TypeOK, Entry
  <2>2. docker[c] \in Present
    BY <2>1 DEF Base, TypeOK
  <2> HIDE DEF c
  <2>3. ASSUME NEW d \in Destroys, Remove(d), target[d] = c PROVE FALSE
    <3>1. destroy[d] = "removing"
      BY <2>3 DEF Remove, Proceeds
    <3>2. NameFor(d) = nameOf[s] /\ scanOf[d] \in Scans
      BY <2>1, <2>3, <3>1 DEF Shape, Aimed, Aims, Base, Received
    <3>3. scanOf[d] = s
      BY <1>1, <3>2 DEF Alone, NameFor
    <3> QED
      BY <1>1, <1>3, <3>1, <3>2, <3>3 DEF Taken
  <2>4. docker'[c] \in Present
    BY <1>1, <2>1, <2>2, <2>3, PresentLost DEF CleanupRemove
  <2> QED
    BY <1>3, <2>4 DEF c, Present
<1> QED
  BY <1>2, <1>3, EntriesChange

\* CleanupAll's snapshot covers the map but for late operations.
LEMMA StepSnapshot == Base /\ Shape /\ Snapshot /\ [Next]_vars => Snapshot'
<1> SUFFICES ASSUME Base, Shape, Snapshot, [Next]_vars, process' = "cleaning" PROVE Snapshot'
  BY DEF Snapshot
<1>0. ~DaemonRestarts
  BY DEF DaemonRestarts
<1>1. CASE CleanupSnapshot
  BY <1>1 DEF CleanupSnapshot, Snapshot, shutdownFrame, opVars
<1>2. CASE process = "cleaning" /\ busy' = busy
  <2>1. ASSUME NEW o \in Creates, create'[o] \in CreateBusy PROVE o \in busy'
    <3>1. CASE create'[o] = create[o]
      BY <1>2, <2>1, <3>1 DEF Snapshot
    <3>2. CASE create'[o] # create[o]
      <4>1. CreateStep(o)
        BY <1>0, <3>2, PlacesChange
      <4>2. create[o] \in CreateBusy
        BY <1>2, <4>1
           DEF CreateStep, ReceiveCreate, CallFails, CheckMap, ContainerCreate, ContainerStart,
               GetMappedPort, Store, Recover, Restart, Reinspect, Moves, CreateBusy
      <4> QED
        BY <1>2, <4>2 DEF Snapshot
    <3> QED
      BY <3>1, <3>2
  <2>2. ASSUME NEW o \in Destroys, destroy'[o] \in DestroyBusy PROVE o \in busy'
    <3>1. CASE destroy'[o] = destroy[o]
      BY <1>2, <2>2, <3>1 DEF Snapshot
    <3>2. CASE destroy'[o] # destroy[o]
      <4>1. DestroyStep(o)
        BY <1>0, <3>2, PlacesChange
      <4>2. destroy[o] \in DestroyBusy
        BY <1>2, <4>1
           DEF DestroyStep, ReceiveDestroy, Take, Stop, Remove, RemoveFails, Proceeds, DestroyBusy
      <4> QED
        BY <1>2, <4>2 DEF Snapshot
    <3> QED
      BY <3>1, <3>2
  <2>3. ASSUME NEW s \in Scans, containers'[s] # None PROVE s \in todo' \/ Late(containers[s].id)'
    <3>1. ASSUME NEW o \in Creates, Store(o), containers'[s] = [id |-> target[o], token |-> target[o]]
          PROVE  Late(containers[s].id)'
      <4>1. o \in busy /\ target' = target
        BY <1>2, <3>1 DEF Snapshot, Store, Moves, CreateBusy
      <4> QED
        BY <1>2, <3>1, <4>1 DEF Late
    <3>2. CASE containers'[s] = containers[s]
      <4>1. containers[s].id \in Creates
        BY <2>3, <3>2 DEF Base, TypeOK, Entry
      <4>2. CASE Late(containers[s].id)
        <5>1. Alive'
          BY DEF Alive
        <5>2. PICK c \in Creates : c = containers[s].id
          BY <4>1
        <5> QED
          BY <1>0, <3>2, <4>2, <5>1, <5>2, LateKept
      <4>3. CASE s \in todo
        <5>1. CASE CleanupTake
          BY <2>3, <4>3, <5>1 DEF CleanupTake, Dropped, Base, TypeOK
        <5>2. CASE ~CleanupTake
          <6>1. todo' = todo
            <7>1. ASSUME NEW o \in Creates, CreateStep(o) PROVE todo' = todo
              BY <7>1
                 DEF CreateStep, ReceiveCreate, CallFails, CheckMap, ContainerCreate,
                     ContainerStart, GetMappedPort, Store, Recover, Restart, Reinspect,
                     createFrame, shutdownVars
            <7>2. ASSUME NEW o \in Destroys, DestroyStep(o) PROVE todo' = todo
              BY <7>2
                 DEF DestroyStep, ReceiveDestroy, Take, Stop, Remove, RemoveFails, destroyFrame,
                     shutdownVars
            <7>3. CASE Shutdown
              BY <1>2, <5>2, <7>3
                 DEF Shutdown, ClientClosed, CleanupSnapshot, CleanupStop, CleanupRemove, Exit,
                     MainReturns
            <7>4. CASE (\E x \in Creates : ContainerDies(x)) \/ UNCHANGED vars
              BY <7>4 DEF ContainerDies, vars, shutdownVars
            <7> QED
              BY <1>0, <7>1, <7>2, <7>3, <7>4 DEF Next
          <6> QED
            BY <4>3, <6>1
        <5> QED
          BY <5>1, <5>2
      <4> QED
        BY <1>2, <2>3, <3>2, <4>2, <4>3 DEF Snapshot
    <3> QED
      BY <2>3, <3>1, <3>2, EntriesChange
  <2> QED
    BY <1>2, <2>1, <2>2, <2>3 DEF Snapshot
<1> QED
  BY <1>0, <1>1, <1>2, StepFacts

\* An entry goes to another of its scan, to a destroy or to CleanupAll.
LEMMA EntryLost ==
    ASSUME Base, [Next]_vars, ~DaemonRestarts, NEW s \in Scans, containers[s] # None,
           containers'[s] # containers[s]
    PROVE  \/ \E o \in Creates : /\ Store(o) /\ scanOf[o] = s
                                 /\ containers'[s] = [id |-> target[o], token |-> target[o]]
           \/ \E d \in Destroys : /\ Take(d) /\ scanOf[d] = s
           \/ CleanupTake /\ cleaning' = "stopping" /\ doomed' = containers[s].id
<1> USE DEF Base, TypeOK, shutdownVars
<1>1. ASSUME NEW o \in Creates, CreateStep(o)
      PROVE  Store(o) /\ scanOf[o] = s /\ containers'[s] = [id |-> target[o], token |-> target[o]]
  BY <1>1 DEF CreateStep, ReceiveCreate, CallFails, CheckMap, ContainerCreate, ContainerStart,
              GetMappedPort, Store, TokenOf, Recover, Restart, Reinspect
<1>2. ASSUME NEW o \in Destroys, DestroyStep(o)
      PROVE  Take(o) /\ scanOf[o] = s
  BY <1>2 DEF DestroyStep, ReceiveDestroy, Take, Dropped, Stop, Remove, RemoveFails
<1>3. CASE Shutdown
  <2>1. CleanupTake
    BY <1>3 DEF Shutdown, ClientClosed, CleanupSnapshot, CleanupStop, CleanupRemove, Exit, MainReturns
  <2>2. PICK x \in todo : /\ containers' = Dropped(x)
                          /\ IF containers[x] = None THEN UNCHANGED <<cleaning, doomed>>
                             ELSE cleaning' = "stopping" /\ doomed' = containers[x].id
    BY <2>1 DEF CleanupTake
  <2>3. x = s
    BY <2>2 DEF Dropped
  <2> QED
    BY <2>1, <2>2, <2>3
<1>4. CASE (\E x \in Creates : ContainerDies(x)) \/ UNCHANGED vars
  BY <1>4 DEF ContainerDies, vars
<1> QED
  BY <1>1, <1>2, <1>3, <1>4 DEF Next

\* A container that an operation leaves is stopped, tracked, or lost to a failed call.
LEMMA WorkEnds ==
    ASSUME Base, Shape, [Next]_vars, ~DaemonRestarts, ~faulty',
           NEW c \in Creates, docker[c] = "running", docker'[c] = "running"
    PROVE  /\ \A o \in Creates :
                create[o] \in CreateBusy /\ target[o] = c =>
                    target'[o] = c /\ (create'[o] \in CreateBusy \/ c \in Tracked')
           /\ \A d \in Destroys :
                destroy[d] \in DestroyBusy /\ target[d] = c =>
                    target'[d] = c /\ destroy'[d] \in DestroyBusy
<1>n. c # None
  BY OpsAssumption
<1>1. ASSUME NEW o \in Creates, create[o] \in CreateBusy, target[o] = c
      PROVE  target'[o] = c /\ (create'[o] \in CreateBusy \/ c \in Tracked')
  <2>1. target'[o] = c
    BY <1>n, <1>1, StepFacts DEF Ops
  <2>2. create[o] \in Holding
    BY <1>n, <1>1 DEF Shape, Aimed, Holding, CreateBusy
  <2>3. CASE CreateStep(o)
    <3>1. CASE Store(o)
      <4>1. containers' = [containers EXCEPT ![scanOf[o]] = [id |-> c, token |-> c]]
        BY <1>1, <3>1 DEF Store, TokenOf
      <4>2. scanOf[o] \in Scans
        BY <2>2 DEF Base, Received, Holding
      <4>3. PICK s \in Scans : s = scanOf[o]
        BY <4>2
      <4>4. containers'[s] = [id |-> c, token |-> c] /\ containers'[s].id = c /\ containers'[s] \in Entry
        BY <4>1, <4>3 DEF Base, TypeOK, Entry
      <4>5. None \notin Entry
        BY OpsAssumption DEF Entry
      <4> QED
        BY <2>1, <4>4, <4>5 DEF Tracked
    <3>2. CASE ~Store(o)
      <4>1. create'[o] \in CreateBusy
        BY <1>1, <2>2, <2>3, <3>2
           DEF CreateStep, ReceiveCreate, CallFails, CheckMap, ContainerCreate, ContainerStart,
               GetMappedPort, Recover, Restart, Reinspect, Moves, Holding, CreateBusy, Present,
               Base, TypeOK
      <4> QED
        BY <2>1, <4>1
    <3> QED
      BY <3>1, <3>2
  <2>4. CASE ~CreateStep(o)
    BY <1>1, <2>1, <2>4, PlacesChange
  <2> QED
    BY <2>3, <2>4
<1>2. ASSUME NEW d \in Destroys, destroy[d] \in DestroyBusy, target[d] = c
      PROVE  target'[d] = c /\ destroy'[d] \in DestroyBusy
  <2>1. target'[d] = c
    BY <1>n, <1>2, StepFacts DEF Ops
  <2>2. destroy[d] \in {"stopping", "removing"}
    BY <1>n, <1>2 DEF Shape, Aimed, DestroyBusy
  <2>3. CASE DestroyStep(d)
    BY <1>2, <2>1, <2>2, <2>3
       DEF DestroyStep, ReceiveDestroy, Take, Stop, Remove, Removed, RemoveFails, Proceeds,
           DestroyBusy, Present, Base, TypeOK
  <2>4. CASE ~DestroyStep(d)
    BY <1>2, <2>1, <2>4, PlacesChange
  <2> QED
    BY <2>3, <2>4
<1> QED
  BY <1>1, <1>2

\* A container that runs is in the map or worked on, short of faults and of a destroy that
\* met a create; at shutdown it may be a late one.
LEMMA StepWatched ==
    Base /\ Shape /\ OneName /\ Lives /\ AllWatched /\ [Next]_vars => AllWatched'
<1> SUFFICES ASSUME Base, Shape, OneName, Lives, AllWatched, [Next]_vars, Alive', ~faulty',
                    NEW c \in Creates, docker'[c] = "running", NameFor(c)' \notin overlapped'
             PROVE  Watched(c)'
  BY DEF AllWatched
<1>0. ~DaemonRestarts
  BY DEF DaemonRestarts
<1>1. docker[c] \in Present
  BY PresentKept DEF Present, Base, TypeOK
<1>2. NameFor(c)' = NameFor(c) /\ NameFor(c) \notin overlapped /\ Alive /\ ~faulty
  BY <1>0, <1>1, DockerKept, StepFacts DEF Shape, Present
<1>late. Late(c) => Late(c)'
  BY <1>0, LateKept
<1>3. CASE docker[c] # "running"
  <2>1. PICK o \in Creates : (ContainerStart(o) \/ Restart(o)) /\ target[o] = c
    BY <1>0, <1>1, <1>3
       DEF Next, CreateStep, ReceiveCreate, CallFails, CheckMap, ContainerCreate, ContainerStart,
           Started, GetMappedPort, Store, Recover, Restart, Reinspect, DestroyStep, ReceiveDestroy,
           Take, Stop, Stopped, Remove, Removed, RemoveFails, Shutdown, ClientClosed,
           CleanupSnapshot, CleanupTake, CleanupStop, CleanupRemove, Exit, MainReturns,
           ContainerDies, vars, shutdownFrame, Present, Base, TypeOK
  <2>2. create'[o] \in CreateBusy /\ target'[o] = c
    BY <1>1, <2>1 DEF ContainerStart, Restart, Moves, CreateBusy, Base, TypeOK
  <2> QED
    BY <2>2 DEF Watched
<1>4. CASE docker[c] = "running"
  <2>0. Watched(c)
    BY <1>2, <1>4 DEF AllWatched
  <2>1. CASE c \in Tracked
    <3>1. PICK s \in Scans : containers[s] # None /\ containers[s].id = c
      BY <2>1 DEF Tracked
    <3>2. CASE containers'[s] = containers[s]
      BY <3>1, <3>2 DEF Watched, Tracked
    <3>3. ASSUME NEW o \in Creates, Store(o), scanOf[o] = s,
                 containers'[s] = [id |-> target[o], token |-> target[o]]
          PROVE  Watched(c)'
      <4>1. create[o] \in Holding /\ NameFor(o) = NameFor(c) /\ process' = process
        BY <3>1, <3>3 DEF Store, Moves, Holding, NameFor, Shape, EntryMatches, createFrame, shutdownVars
      <4>2. target[o] \in Creates /\ NameFor(target[o]) = NameFor(o)
        BY <4>1 DEF Shape, Aimed, Aims
      <4>3. CASE docker[target[o]] \in Present
        <5>1. target[o] = c
          BY <1>1, <4>1, <4>2, <4>3 DEF OneName
        <5>2. containers'[s] # None
          BY <3>3, <5>1, OpsAssumption
        <5> QED
          BY <3>3, <5>1, <5>2 DEF Watched, Tracked
      <4>4. CASE docker[target[o]] \notin Present
        <5>1. Late(c)
          BY <1>1, <1>2, <4>1, <4>4 DEF Lives, Named
        <5> QED
          BY <1>late, <5>1 DEF Watched
      <4> QED
        BY <4>3, <4>4
    <3>4. ASSUME NEW d \in Destroys, Take(d), scanOf[d] = s PROVE Watched(c)'
      <4>1. target'[d] = c /\ destroy'[d] = "stopping"
        BY <3>1, <3>4 DEF Take, Proceeds, Ops, Base, TypeOK
      <4> QED
        BY <4>1 DEF Watched, DestroyBusy
    <3>5. CASE CleanupTake /\ cleaning' = "stopping" /\ doomed' = containers[s].id
      BY <3>1, <3>5 DEF Watched
    <3> QED
      BY <1>0, <3>1, <3>2, <3>3, <3>4, <3>5, EntryLost
  <2>2. CASE \E o \in Creates : create[o] \in CreateBusy /\ target[o] = c
    BY <1>0, <1>4, <2>2, WorkEnds DEF Watched
  <2>3. CASE \E d \in Destroys : destroy[d] \in DestroyBusy /\ target[d] = c
    BY <1>0, <1>4, <2>3, WorkEnds DEF Watched
  <2>4. CASE cleaning = "stopping" /\ doomed = c
    <3>1. cleaning' = "stopping" /\ doomed' = c
      <4>1. ASSUME NEW o \in Creates, CreateStep(o) PROVE UNCHANGED <<cleaning, doomed>>
        BY <4>1 DEF CreateStep, ReceiveCreate, CallFails, CheckMap, ContainerCreate,
                    ContainerStart, GetMappedPort, Store, Recover, Restart, Reinspect,
                    createFrame, shutdownVars
      <4>2. ASSUME NEW o \in Destroys, DestroyStep(o) PROVE UNCHANGED <<cleaning, doomed>>
        BY <4>2 DEF DestroyStep, ReceiveDestroy, Take, Stop, Remove, RemoveFails, destroyFrame,
                    shutdownVars
      <4>3. CASE Shutdown
        BY <1>4, <2>4, <4>3
           DEF Shutdown, ClientClosed, CleanupSnapshot, CleanupTake, CleanupStop, Stopped,
               CleanupRemove, Exit, MainReturns, Base, TypeOK
      <4>4. CASE (\E x \in Creates : ContainerDies(x)) \/ UNCHANGED vars
        BY <2>4, <4>4 DEF ContainerDies, vars, shutdownVars
      <4> QED
        BY <1>0, <2>4, <4>1, <4>2, <4>3, <4>4 DEF Next
    <3> QED
      BY <3>1 DEF Watched
  <2>5. CASE Late(c)
    BY <1>late, <2>5 DEF Watched
  <2> QED
    BY <2>0, <2>1, <2>2, <2>3, <2>4, <2>5 DEF Watched
<1> QED
  BY <1>3, <1>4

\* When CleanupAll has gone through its snapshot, what still runs was worked on.
LEMMA StepCleanup ==
    Base /\ Shape /\ Snapshot /\ AllWatched /\ CleanupComplete /\ [Next]_vars => CleanupComplete'
<1> SUFFICES ASSUME Base, Shape, Snapshot, AllWatched, CleanupComplete, [Next]_vars,
                    process' = "cleaned", ~faulty',
                    NEW c \in Creates, docker'[c] = "running", NameFor(c)' \notin overlapped'
             PROVE  \E o \in busy' : target'[o] = c
  BY DEF CleanupComplete
<1>0. ~DaemonRestarts
  BY DEF DaemonRestarts
<1>1. CASE Exit
  <2>1. /\ process = "cleaning" /\ cleaning = "idle" /\ todo = {}
        /\ UNCHANGED <<nameOf, scanOf, docker, overlapped, busy, target, faulty>>
    BY <1>1 DEF Exit, AllDestroyed, shutdownFrame, opVars
  <2>2. Watched(c)
    BY <2>1 DEF AllWatched, Alive, NameFor
  <2>3. \E o \in busy : target[o] = c
    BY <2>1, <2>2 DEF Watched, Snapshot, Late, Tracked
  <2> QED
    BY <2>1, <2>3
<1>2. CASE ~Exit
  <2>1. /\ process = "cleaned"
        /\ UNCHANGED <<nameOf, scanOf, overlapped, busy, target, faulty>>
        /\ docker[c] = "running"
    <3> USE DEF createFrame, destroyFrame, shutdownVars, opVars, Moves, Proceeds, Alive
    <3>1. ASSUME NEW o \in Creates, CreateStep(o) PROVE process' # "cleaned"
      BY <3>1 DEF CreateStep, ReceiveCreate, CallFails, CheckMap, ContainerCreate,
                  ContainerStart, GetMappedPort, Store, Recover, Restart, Reinspect
    <3>2. ASSUME NEW o \in Destroys, DestroyStep(o) PROVE process' # "cleaned"
      BY <3>2 DEF DestroyStep, ReceiveDestroy, Take, Stop, Remove, RemoveFails
    <3>3. CASE Shutdown
      BY <1>2, <3>3 DEF Shutdown, ClientClosed, CleanupSnapshot, CleanupTake, CleanupStop,
                        CleanupRemove, MainReturns
    <3>4. CASE (\E x \in Creates : ContainerDies(x)) \/ UNCHANGED vars
      BY <3>4 DEF ContainerDies, vars, Base, TypeOK
    <3> QED
      BY <1>0, <3>1, <3>2, <3>3, <3>4 DEF Next
  <2> QED
    BY <2>1 DEF CleanupComplete, NameFor
<1> QED
  BY <1>1, <1>2

-----------------------------------------------------------------------------
(* Theorems *)

\* Nothing is made, tracked or worked on at the start.
LEMMA InitIInv == Init => IInv
<1> SUFFICES ASSUME Init PROVE IInv
  OBVIOUS
<1>1. Base
  BY DEF Init, Base, TypeOK, Received
<1>2. Shape
  BY DEF Init, Ops, Shape, Aimed, Holding, Made, Entries, EntryMatches, Dooming
<1>3. Meeting
  BY DEF Init, Meeting, OneName, Present, Met, CreateBusy, Taken, TrackedIsThere
<1>4. Lives /\ Snapshot /\ AllWatched /\ CleanupComplete
  BY DEF Init, Lives, Holding, Snapshot, AllWatched, CleanupComplete
<1> QED
  BY <1>1, <1>2, <1>3, <1>4 DEF IInv

\* The inductive invariant holds in every behaviour.
THEOREM SpecIInv == Spec => []IInv
<1>1. Init => IInv
  BY InitIInv
<1>2. IInv /\ [Next]_vars => IInv'
  <2> SUFFICES ASSUME IInv, [Next]_vars PROVE IInv'
    OBVIOUS
  <2>0. /\ Base /\ Shape /\ Aimed /\ OneName /\ Met /\ Taken /\ TrackedIsThere /\ Lives
        /\ Snapshot /\ AllWatched /\ CleanupComplete
    BY DEF IInv, Meeting, Shape
  <2>1. Base' /\ Shape'
    BY <2>0, StepBase, StepShape
  <2>2. Meeting'
    BY <2>0, StepOneName, StepMet, StepTaken, StepTracked DEF Meeting
  <2>3. Lives' /\ Snapshot' /\ AllWatched' /\ CleanupComplete'
    BY <2>0, StepLives, StepSnapshot, StepWatched, StepCleanup
  <2> QED
    BY <2>1, <2>2, <2>3 DEF IInv
<1> QED
  BY <1>1, <1>2, PTL DEF Spec

\* Every variable keeps its type.
THEOREM TypeCorrect == Spec => []TypeOK
<1>1. IInv => TypeOK
  BY DEF IInv, Base
<1> QED
  BY <1>1, SpecIInv, PTL

\* What the map says of a container is true of it, for any scans and operations.
THEOREM EntriesMatch == Spec => []EntryMatches
<1>1. IInv => EntryMatches
  BY DEF IInv, Shape
<1> QED
  BY <1>1, SpecIInv, PTL

\* An entry names a container that is there, but where a destroy met a create or scans
\* share a name.
THEOREM EntriesLive == Spec => []TrackedIsThere
<1>1. IInv => TrackedIsThere
  BY DEF IInv, Meeting
<1> QED
  BY <1>1, SpecIInv, PTL

\* A running container is in the map or worked on, short of faults and of a destroy that
\* met a create.
THEOREM NoOrphan == Spec => []NoOrphanWithoutFault
<1>1. IInv => NoOrphanWithoutFault
  <2> SUFFICES ASSUME IInv, process = "up", ~faulty,
                      NEW c \in Creates, docker[c] = "running", NameFor(c) \notin overlapped
               PROVE  \/ c \in Tracked
                      \/ \E o \in Creates : create[o] \in CreateBusy /\ target[o] = c
                      \/ \E o \in Destroys : destroy[o] \in DestroyBusy /\ target[o] = c
    BY DEF NoOrphanWithoutFault
  <2>1. Watched(c)
    BY DEF IInv, AllWatched, Alive
  <2>2. cleaning = "idle" /\ ~Late(c)
    BY DEF IInv, Shape, Dooming, Late
  <2> QED
    BY <2>1, <2>2 DEF Watched
<1> QED
  BY <1>1, SpecIInv, PTL

\* CleanupAll, given the time, leaves only containers that operations were working on.
THEOREM Cleanup == Spec => []CleanupComplete
<1>1. IInv => CleanupComplete
  BY DEF IInv
<1> QED
  BY <1>1, SpecIInv, PTL
=============================================================================
