# Verification of the Revelion daemon

TLA+ models of the daemon that connects a host to the Revelion brain: it holds a
WebSocket to the brain, runs tool commands in Docker sandboxes, and controls Burp
through an extension. The modules are translated from the Go source under `src/`;
`PROJECT.json` maps each definition to the lines it stands for, lists the TLC runs, the
mutants that show each property can fail, the hazards and the theorems.

## The system

| Component | State | Operations | Talks to |
|---|---|---|---|
| Brain link (`internal/ws/client.go`) | `conn`, `pongCh` (1), `sendCh` (256), `done`, backoff | `ConnectAndServe`, `readPump`, `writePump`, `sendMsg`, `sendMsgSync`, `drainChannels`, `Close` | brain over a WebSocket; every handler sends through its channels |
| Exec commands (same file) | `running`: id -> cancel channel | `handleExec`, `handleKill`, `cancelAllRunning` | brain link (messages, end of session), Docker manager (tool call and its output callback) |
| Sandbox containers (`internal/docker/manager.go`) | `containers`: scan -> container, port, token | `CreateContainer`, `recoverContainer`, `DestroyContainer`, `CleanupAll` | Docker engine, which outlives the daemon |
| Extension sessions (`internal/burp/extension_server.go`, `internal/config/config.go`) | tokens in `cfg`, the current connection, the configuration file, the pair file | `InitiatePair`, `CancelPair`, `DisconnectExtension`, `authenticate`, `Save`, `Load` | local HTTP API, brain requests, extension |
| Extension connection (same file) | `conn`, `lastPing`, `activeScope`, `activeApprovalGates` | upgrade, eviction, republishing, read loop, ping watch, `Send*Set`, `Send*Restore` | extension over a WebSocket, brain requests |
| Extension scans and pushed state (same file) | `activeBurpScan`, `burpState` | scan start, cancel, answers, issues; `state.push` | extension, brain link (issues) |
| Burp manager (`internal/burp/manager.go`) | `activeMissionID`, approval mode, forwarder | `AcquireMission`, `ReleaseMission`, `CallTool`, `ConfigureApprovalMode` | Burp's MCP bridge |
| Health reporter (`internal/health/reporter.go`), image pull | `imageStatus`, samples | sampler, `SetImageStatus`, `prePullSandboxImage`, `PullImage` | Docker engine; answers pings |
| Burp REST client, CLI, installers | none | one-shot I/O | |

What is hard: almost every command runs in a goroutine of its own and most state is
read under a lock and acted on after it; connections are lost, replaced and reopened while
handlers of the old one still work; writes fail or stall; the Docker engine and the
configuration file survive the process and the process can end between any two steps.

What makes each component correct:

- link: a ping is answered; nothing blocks the reader; nothing of one session reaches the
  next; a lost session ends and a shutdown ends the loop;
- exec: a command can be killed, is cancelled with its session, queues its messages to the brain
  in order and one ending at most, and no cancel channel is closed twice;
- sandbox: the map agrees with the engine and with the tokens, nothing is left running;
- sessions: memory, configuration file and pair file agree; a pair token gives one
  session; a revoked session stays revoked and has no connection;
- connection: one live connection; the scope and gates the daemon reports are those the
  extension holds; a silent extension is dropped;
- lease: brain and daemon agree on who has Burp; no mission takes it from under another's
  call;
- scan: an issue is counted to the mission and scan that found it;
- image: the reported status settles on the truth, and a missing image is pulled.

## Modules

`MC<Module>.tla` extends each module with what its TLC instance needs (symmetry, a
restriction of the inputs); `<Module>_proofs.tla` holds its theorems.

**BrainLink.** One variable per goroutine says where it is: `link` (`ConnectAndServe`),
`reader`, `writer` with the frame it is `writing`, `handler[h]`, `closer` (`Close`). The
channels are `pongCh` (empty, a fresh or a stale pong) and `sendCh`. Every `select` is
split into its cases (`PumpPong`, `PumpTick`, `SelectPong`, `SelectData`, `SelectTick`,
`SelectDone`, `BurstTick`, `BurstTake`); a write begins when the frame is taken and ends
in `WriteOk` or `WriteFails`. The three steps of sending a pong (`PushPong`,
`DiscardPong`, `ForcePong`) are separate, since the write pump runs between them. The
network breaks or stalls (writes time out, messages still arrive). History: `owed`
(unanswered ping), `overtaken`, `leftover` (messages of an ended session in `sendCh`).
Message contents are abstracted to output (droppable) and reply (blocking). WebSocket
control pings of the brain are not modelled: they only extend the read deadline or make
the read fail.

**ExecCommands.** A delivery is one `exec` message; two may carry one id. `exec[d]` is
where its `handleExec` is, `tool[d]` the goroutine of the tool call, `running` the
registry, `cancelled` the closed channels. `Sweep` is `cancelAllRunning` at the end of a
session, `CloseSweep` the one in `Close`. A handler that sends is first at a place of
`Sending`, where `sendMsgSync` may keep it, and then has queued its message (or given up after
`done`); `sent[d]` is the transcript queued for the brain. History: `past` (delivered in a
swept session), `late` (registered after it).

**ExecProtocol** is what the daemon queues of each command: a phase (pending, running,
killed with its tool still heard, closed) and the messages so far. The channel is drained on
reconnect and writes may fail (findings 1 and 2), so the brain reads some of these
messages, in this order. ExecCommands
implements it (`ImplementsProtocol`): the phase is read off `exec`, `tool` and the
registration (`Phase`), `asked` is the closed cancel channels, `over` is `done`.

**Sandbox.** One action per call to the Docker engine or access to the map, because the
manager's lock covers single accesses only: `CheckMap`, `ContainerCreate`,
`ContainerStart`, `GetMappedPort`, `Store`, and `Recover`, `Restart`, `Reinspect` for a
name in use; `Take`, `Stop`, `Remove`; the shutdown goroutine (`ClientClosed`,
`CleanupSnapshot`, ..., `Exit`) racing `MainReturns`; `DaemonRestarts` after a crash or
an exit, with the containers still there. A container is named by the create that made
it, and so is the token it was started with. The health wait has no state and always ends,
healthy or not; it is the time between `GetMappedPort` and `Store`. History: `faulty`,
`overlapped` (names a create and a destroy worked on at once), `busy` (under way at the
cleanup snapshot).

**ExtensionSession.** `authenticate` is split where it reads the configuration without the lock
(`PresentPairing`, `CheckPairing`, `Grant`); `config.Save` is marshal, truncate, write
(`Marshal`, `Truncate`, `SaveSucceeds`, `SaveFails`), with the torn file in between and
overlapping writes that may leave one. `Restart` ends the daemon at any point and loads
the file. Tokens are named by the operation that made them. The brain's settings
(`ChangeSetting`: approval mode, REST key, CA path; `ws/client.go:805,831,863`) change no
token but save the same file, so their saves race the others. History: `ended[o]` (the tokens
operation `o` used up, replaced or cancelled), `saved` (operations whose save succeeded with no
older save of what they ended still to be written), `granted`, `restored` (pair tokens a restart
brought back), `jostled` (commands that paired while another was at the pair file),
`contended` (two requests in `authenticate` with one token), `mishap` (a save that
overlapped another, failed or was cut off), `crossed`. `conn` is the
request whose connection is current: an accepted request is upgraded, replaces the
connection before it and ends, and a disconnect cuts off whichever connection is current.
A request accepted before a disconnect and registered after it is let in all the same:
`crossed` records exactly those.

**ExtensionLink.** `Register` evicts the previous connection, `CopyActive` and
`Republish` are the two halves of `republishActiveState`, `ReadAnswer` the handlers of
the read loop, `FindStale` and `CloseStale` the ping watch with its test under the lock
and its close after it. Commands change the state under the lock (`Set`, `Restore`) and
write after it (`Write`). Scope and gates are one set of actions indexed by kind; the
three places where the code treats them differently are explicit (`StartsAs`, `Applied`,
`Republished`). A write may meet its ten-second deadline
(`Writes`): the message is lost, as is every later one of the connection ("cut"), which stays current and
is read until a pong cannot be written or the ping watch finds it silent; the caller leaves
the state as it set it. A restore may name no snapshot (`Blank`: `ClearScope` when
nothing is active), and so may the answers to it, which are then taken for whatever is active
(`Matches`). That every set has an id of its own is the brain's doing and assumed. The
extension (external) carries out messages in order, may fail to, go silent, leave or restart
without what it held, and gives up its old connection when it opens a new one. History:
`disordered` records the five ways writes and answers get out of order: a command begun when
another write of its kind is still to come (`Crosses`), a scope republished while it is being
restored (`Revived`), an answer read from an evicted connection, a restore that names another
snapshot than the active one (`Misses`), an answer without an id taken for a snapshot that has
one (`Mistaken`).

**BurpMission** holds the lease of `manager.go` and the scan record of `extension_server.go`,
because the brain's requests work on both (`handleBurpReleaseMission` clears the scan, then
releases the lease). `request` is what the brain asked for, in order; `at[r]` is where the
goroutine of request `r` is. `Probe` is `Health`, outside the lock and taking seconds;
`Grant` and `Deny` the rest of `AcquireMission` under it; `Admit` the check of `CallTool`
and `CallReaches`, `CallReturns` the call after the unlock. A scan is named by the request
that starts it: `SendScanStart` writes the record under the lock, `WriteStart` the message
after it; the extension (external) starts, cancels, fails and finds issues in the order
it is told, and `ReadEvent` does to the record what each handler does. `view` is what the
brain believes from the answers it got. History: `uncertain` (requests about a mission that
overlapped, an answer lost, a lease the daemon forgot in a restart), `orphaned` (calls the brain
gave the lease up under), `latest`, `disturbed`, `letGo` (see `IssuesNameTheirMission`).

**ImagePull.** `sample` is where `sampleOnce` is: `Ping` and `Inspect` ask the engine without
the lock, `Publish` writes under it. `puller[p]` is a goroutine of `prePullSandboxImage`;
each of its checks is a step, since the lock is taken for single accesses to the status.
`PullEnds` covers a stream that ends with an error in it, which `PullImage` does not look
at. The engine stops, starts, gets the image from elsewhere and loses it at any time.

BrainLink and ExecCommands meet in the channels and at the end of a session. ExecCommands
assumes nothing of the channel: a send need not complete while the daemon runs.
`ReplyAccepted` of BrainLink says when it does, namely while the write pump lives and the link is
up. ExtensionSession
hands an accepted request to ExtensionLink, which numbers it when it registers; it keeps
of the connection only who is current. BurpMission keeps of the link only whether it is up
and that messages are lost with it. ImagePull feeds the pongs of BrainLink. The compositions
themselves are planned.

## Runs

| Run | Shows | Instance | States |
|---|---|---|---|
| `brain_link` | safety and liveness of the link | 1 handler, `sendCh` of 1, drain loop of 1, delays 1..2 | 66,784 |
| `write_failure`, `dropped_reply` | findings below | the same | |
| `exec_commands` | registry, kills, disconnects, `ExecProtocol`, cancelled handlers leave | 2 deliveries, same or different ids, 1 output of one of them | 441,083 |
| `late_registration` | finding | the same | |
| `sandbox` | containers, map, shutdown | 2 scans, 2 names (shared or not), 3 creates, 1 destroy | 2,101,272 |
| `stale_entry`, `shutdown_cleanup` | findings | 1 scan, 2 creates, 1 destroy | |
| `extension_session` | tokens, files, restarts, connection of a revoked session | 2 requests, 2 commands or settings of any kind | 2,514,254 |
| `extension_link` | connection, scope and gates, a silent extension is dropped | 2 connections, 2 commands of one kind | 808,251 |
| `burp_mission` | lease, calls, issues | 2 missions, 3 requests of any kind | 878,156 |
| `image_pull` | image and Docker status settle | 2 pulls at a time | 6,880 |

Why the bounds are enough: the instance of `brain_link` is small because liveness is
expensive, and its safety properties are proved for every instance; one place in the
channel is full and empty, and one round of the drain loop still lets a message overtake.
Two deliveries, requests or connections are what a race needs, and every property relates
at most two; the one disorder of `Agreement` that needs a third command is under the theorem,
and the inductive invariant was also checked with three commands (one connection) before it
was proved. Three creates let a third meet the container two others raced for, and a daemon
restart puts any of them in a later life of the process. Three requests of two missions are
an acquire, its release and what comes between them; or two scans and what ends one. Two pulls are
two goroutines between reading the status and setting it; a third would repeat one of them.

In `extension_link` the two commands are both about the scope or both about the gates (the
constraint `OneKind`), which never meet but in the order of republishing. Once `disordered`,
of which `Agreement` says nothing, no more commands begin and the extension does not act on what it
is told (`OnlyWhileOrdered`). Neither constraint hides a violation of `SilentIsDropped`: they
cut off only `Set`, `Restore` and `ExtensionActs`, which carry no fairness and touch no
connection, so a behaviour that stays inside is never cut off from the ping watch. In
`exec_commands` one tool streams (`OnlyD1Streams`): deliveries are alike and meet only in the
registry, so their transcripts do not mix.
Symmetry is used over sets whose members the specifications treat alike, in runs that check
no liveness. Deadlock is checked for Sandbox, where a restart is always possible, and for ImagePull, whose
sampler never stops; the others may stop for good, when the daemon has shut down and its
handlers are done or the inputs are used up.

### Properties worth naming

- `PongOvertakingBounded`: "heartbeats never blocked by tool results" holds up to a
  bound, `Burst + 1` = 17 messages in the code, not literally.
- `Killable`, `DisconnectCancels`: hold unless another delivery of the same id (`Rival`)
  or a late registration interferes; both exceptions occur.
- `CancelledLeaves`: a cancelled handler leaves even if its tool never returns, unless the running
  daemon holds it in `sendMsgSync` for good (`client.go:223`). That happens: the channel is
  full and the write pump is dead (finding 1), or no session comes back.
- `ImplementsProtocol`: what is queued of a command is in order through kills that race the
  result; only the tool of a killed command is heard after the ending. While the daemon
  shuts down messages may be missing. Delivery is not part of it.
- `NoOrphanWithoutFault`, `TrackedIsThere`, `CleanupComplete`: a container can be left behind only by a
  failed call, a daemon that died, a destroy that met a create, two scans with one name,
  or an operation under way at shutdown. Each exception is needed: TLC finds a violation without it.
- `PairFileMatches`: the pair file names the pairing the daemon expects, but for a token that
  was paired while another command was at the file (`extension_server.go:279-286`: the file
  may keep one token and the configuration the other), one whose file could not be written, and
  one that a restart brought back. All three occur.
- `RevokedStaysRevoked`: what an operation ended stays ended, by this daemon and after restarts,
  if its own save succeeds and no save that was marshalled before it is written after it
  (`config.go:109,113`). An `InitiatePair` that overlaps a disconnect can be that older
  save: the revoked session is back in the file and a restart accepts it. No other failure,
  overlap or crash is excepted.
- `OneSessionPerPairing`: a pair token gives two sessions only to two requests that are
  in `authenticate` at once, which the code allows (no lock is held).
- `RevokedIsCutOff`: after a disconnect that lasts (as above) no connection of the revoked session
  is current, but for a request that was between `authenticate` and `registerConnection` when the
  disconnect came; nothing closes that one.
- `Agreement`: after any sequence of lost connections, failures and restarts of the
  extension, what the daemon reports as applied is what the extension holds, and nothing
  only if it holds nothing, on a connection no write has failed on and outside the five
  disorders above. All five occur. When a write fails (`extension_server.go:1274-1279`)
  the daemon goes on to report what it set before it (386-402), which the extension never got; only
  the next connection, which is given the active scope and gates again, mends it. The
  second disorder is an asymmetry of the code: gates that are being restored are not
  republished (`extension_server.go:778`), a scope is. The fourth takes three commands, so
  it lies beyond the run and came out of the proof: set 1, set 2, restore 1 leaves snapshot 2
  "restoring", the answer to the set of 2 makes it "applied" again, and the answer to the
  restore is ignored since it names 1, though the extension now holds nothing. The
  theorem covers any number of commands. A restore that names nothing is harmless unless a set
  comes between it and its answer, the fifth disorder: the "restored" (1029, 1094) then clears
  a snapshot the extension holds.
- `LeaseAgrees`: once nothing about a mission is under way, the brain believes it holds Burp
  if and only if the daemon does. Outside `uncertain` this survives conflicts, failed probes, releases by
  other missions, and restarts of the daemon. Inside it does not: an acquire that
  probes for seconds is overtaken by the release that follows it, and the lease
  stays with a mission the brain has given up.
- `CallsWithinLease`: a call can be with Burp while its mission no longer has the lease,
  but only because the brain gave it up; an acquire of another mission never does that.
- `IssuesNameTheirMission`: an issue of the scan started last is handed on as one of its own
  mission and scan, whatever earlier scans, cancellations, failures and releases of other missions do to
  the record. Delivery is not part of it: the message may be dropped (`client.go:1148`).
  A late `scan.started` of an older scan overwrites a newer record
  (`extension_server.go:1141`); that takes two starts written in the other order or a lost
  connection, which `disturbed` records, and it occurs.
- `PullingIsPulling`: the sampler leaves the status "pulling" alone, so one left
  behind would stay for good and no pull would follow.

### Findings

1. A failed write ends the write pump and not the session (`write_failure`), against
   `client.go:231`.
2. Replies queued while offline are drained on reconnect (`dropped_reply`), against
   `client.go:215`.
3. A command that registers after the sweep survives its session (`late_registration`),
   against `client.go:18,408`.
4. A create that finishes after a destroy tracks a removed container (`stale_entry`),
   against `manager.go:41`.
5. Shutdown may end the process before `CleanupAll` is done (`shutdown_cleanup`), against
   `manager.go:710`.

### Fairness

- BrainLink: weak fairness for each goroutine, for timers and for each handler: the Go
  scheduler runs every runnable goroutine.
- ExecCommands: weak fairness of the steps of a handler that wait for nothing or take a ready
  case (`Handle`), and of a send once `done` is closed. Before that a send need not complete.
- Strong fairness for single cases of a `select` (`SelectPong`, `SelectData`,
  `SelectDone`, `BackoffInterrupted`) and for blocked senders (`SendReply`): a select picks
  uniformly at random among ready cases, and a channel serves waiting senders in order.
- A read returns once the write pump is gone, since without keepalives the read deadline passes unless messages
  arrive. The brain answers a close frame. Nothing else is assumed of it: `ShutdownExits`
  excepts a brain that stops reading and keeps sending.
- A tool need not return. The extension need not do anything.
- ExtensionLink: weak fairness of the whole daemon side, `TimePasses` and the goroutines of
  the connections together. It is weaker than fairness of each of them, which the scheduler
  and the ticker of the ping watch give; it suffices because the steps of a connection
  between two ticks are bounded.
- ImagePull: the sampler's ticker goes on and the engine's answers have timeouts, so each
  step of a sample and of a pull comes; that the stream of a pull ends is the engine's part,
  since `PullImage` itself has no timeout (`docker/manager.go:120`).

## Proofs

Checked by TLAPS for every value of the constants (numbers of handlers, ids, deliveries,
outputs, channel size, burst, delays, scans, names, operations, connections, commands,
missions, requests, pulls), from the named assumptions of the modules: constants are naturals
(positive where the code has positive constants), `None` is none of the elements and no
record, a torn file is no configuration, and creates and destroys, requests and commands are different
operations.

**BrainLink_proofs.** `IInv` = types, `Phases` (which goroutine is active in which part of
a session), `Places` (what the write pump can be writing at each of its places),
`FreshPong` (a fresh pong is in one place, and only while no newer ping is being answered),
`Leftover`, `Overtaking`. `LatestPongKept` alone is not inductive: that a written pong was
the fresh one needs `Places` and `FreshPong`; the bound on overtaking needs the count at
each place of the drain loop. Every safety property of `brain_link` follows.

**ExecCommands_proofs.** `IInv` = types, `NoDoubleClose`, `RegistryLive`, `Open` (a
registered channel is open, only registered deliveries are cancelled), `Killable`,
`DisconnectCancels`. `handleKill` closes without looking, so `NoDoubleClose` needs `Open`,
which needs `RegistryLive`; `DisconnectCancels` rests on `Killable` at the sweep.
`Refinement` then shows that ExecCommands implements ExecProtocol: the initial states map to
initial ones, and each action to one of the protocol or a stutter; that a
handler gives up only a cancelled command, and its tool runs only where the phase says so, is
`ToolFits`. `Transcripts` takes what is proved of the protocol over to ExecCommands; like the
protocol it speaks of what is queued. All properties of `exec_commands` but
`CancelledLeaves` are theorems.

**ExecProtocol_proofs.** `Transcript`, the shape of a command's messages, of the protocol
alone: `InOrder` of any two messages, so also of any part of them that is delivered. It is not
inductive: what may be appended depends on what the phase says of the messages queued already
(`Fits`, `Begun`).

**Sandbox_proofs.** `IInv` in seven parts: `Base` (types, who was received), `Shape` (what
an operation or an entry points at was made, under the right name, with its own token),
`Meeting` (`OneName`: the engine gives a name once; `Met`: a create and a destroy at
work on one name have met; `Taken`: the entry a destroy took stays missing unless it met
a create; `TrackedIsThere`), `Lives` (nobody removes the container of a create that met no
destroy, but at shutdown), `Snapshot` (what is not in `CleanupAll`'s snapshot was being
worked on when it was taken), `AllWatched` (the general form of `NoOrphanWithoutFault`, with
`CleanupAll` among those who may hold a container) and `CleanupComplete`. The argument is
`StepWatched`: a running container moves from its operation to the map, from the map to a
destroy or to `CleanupAll`, and a create that overwrites an entry overwrites it with the same
container, by `OneName` and `Lives`.

**ExtensionSession_proofs.** `IInv` = types with what each operation carries (`Base`); a token
nobody has made yet appears nowhere (`NoneBefore`); what an operation ended, while that
lasts, is not current, and once it is saved it is in no file or save that could come back
(`Final`), nor the token of a request let in unless the two met (`Cut`); a pair token that was
granted a lasting session is expected by no request it did not contend with (`Spent`); the
command that paired last and alone has the pair file (`PairFile`); and short of mishaps, one
operation at a time has the configuration file (`OneWriter`) and what is not on its way to
it is in it (`Saved`). The properties of the run each say too little of what is
between the steps of an operation: that a restart brings back nothing that was ended rests on what
every unfinished save is about to write. Only `SavedWhenQuiet` needs the absence of mishaps; the
others are proved through overlapping, failing and cut-off saves. Every property of
`extension_session` follows.

**ExtensionLink_proofs.** Types, `OneConnection`, `Structure` (a connection that has not
registered has nothing, one that left has nothing on its way to it), `Numbered` (every
snapshot anywhere was set) and, short of disorder, `Ordered`, which says of the current
connection what the messages in both directions and the writes still to come mean for
`Agreement`: one write of a kind is to come at most (`OneUnwritten`), nothing is set after a
restore of what is active (`RestoredLast`), nothing else is told after it was set
(`SetLast`), and what the daemon will take for applied is held and stays so unless more
is to come about it (`Kept`). A message is about the active snapshot if it has its id or, being a
restore or its answer, none (`Names`). Before a connection has republished, nothing is still to be
written but the set of what is active, unless that is being restored (`MarkedBefore`): so republishing
does not cross another write. `Agreement` is what `Ordered` says when nothing is on its way;
`HeldIsKnown` is the half of it that holds at every moment: what the extension enforces, the daemon
does not take for nothing.

**BurpMission_proofs.** `IInv` = types, `Roles`, `Named`, `CallsWithinLease`, `Leases`:
outside `uncertain` at most one request about a mission is under way, and `Standing` says
what that request's place means for the lease and for what the brain believes.
`LeaseAgrees` alone is not inductive, because it says nothing while a request is under way.
For the issues, `Fresh` (a scan not yet written has no messages or events), `Latest` and
`Attributes`: no start is on its way behind that of the latest scan, and when the j-th event
under way comes to be read the record `Names` the scan if the event is an issue of it.
`IssuesNameTheirMission` says this of the first event only.

**ImagePull_proofs.** Types and `PullingIsPulling`, inductive as it stands.

Every invariant the runs check is a theorem. Model-checked only: the liveness properties
(`PingAnswered`, `SessionEnds`, `ReplyAccepted`, `ShutdownExits`, `CancelledLeaves`,
`SilentIsDropped`, `PresentIsReady`, `MissingIsPulled`), which with fairness and ENABLED are
out of the prover's reach.

## Not modelled

Message encoding, container configuration, MCP and SSE transport and REST calls;
HTTP host, origin and CORS checks; what the approval mode, REST key and CA commands set and ask of
Burp (that their saves race others is in ExtensionSession); the settings messages; the CLI's
one-shot commands; `RegisterAgent`; installers: apart from those saves, single requests and
I/O. `state.push` replaces a copy. A call that Burp answers with
"approval pending" may still be carried out later by Burp; that is Burp's affair and not
visible to the daemon. `EnsurePairToken` and `FetchPendingCommands` are called by no
production code. A scan id shorter than eight bytes makes `CreateContainer` panic
(`docker/manager.go:214`); ids are model values here, long enough.

## Plan

Next come compositions: ExecCommands with Sandbox (a tool call against a container that is
destroyed) and ExtensionSession with ExtensionLink through the upgrade; then abstract
specifications for the link (a lossy FIFO with a one-place priority lane) and for the sessions
(granted, revoked), with refinements.
