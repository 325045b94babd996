---------------------------- MODULE ExtensionLink ----------------------------
(***************************************************************************)
(* The connection to the Burp extension and what is controlled over it     *)
(* (internal/burp/extension_server.go): an accepted upgrade request        *)
(* registers its connection, evicts the one before, republishes the active *)
(* scope and approval gates and reads the extension's answers;             *)
(* watchPingTimeout closes a connection that went silent; commands of the  *)
(* brain set and restore the scope and the gates.  State changes under     *)
(* s.mu; every write to the connection comes after, under writeMu.         *)
(*                                                                         *)
(* A scope or a set of gates is named by the command that set it, its      *)
(* snapshot id; a restore may name none, and neither may its answer.  That *)
(* every set has an id of its own is the brain's doing, which the code     *)
(* does not check.  Scope and gates are handled alike but for three        *)
(* differences, kept here: the status a set begins with, an "applied" that *)
(* nothing waits for, and what is republished while it is being restored.  *)
(* Which requests are accepted is in ExtensionSession.                     *)
(***************************************************************************)
EXTENDS Naturals, Sequences

CONSTANTS
    MaxConns,    \* bound: accepted upgrade requests, each a connection
    MaxCommands, \* bound: commands of the brain
    None         \* no connection, no scope, no gates

Conns == 1..MaxConns
Commands == 1..MaxCommands

\* Snapshot ids; the empty one belongs to no snapshot and matches every one.
Blank == 0
Ids == Commands \union {Blank}

\* What s.activeScope and s.activeApprovalGates point to.
Active == [id : Ids, status : {"applying", "applied", "restoring", "failed"}]

ASSUME LinkAssumption ==
    /\ MaxConns \in Nat /\ MaxCommands \in Nat
    /\ None \notin Conns \union Ids \union Active

VARIABLES
    conn,        \* s.conn
    place,       \* where the goroutine of each connection is
    closed,      \* the connections closed on this side
    peer,        \* the extension's end of each connection
    quiet,       \* s.lastPing of the current connection is more than pingTimeout ago
    expiring,    \* connections watchPingTimeout found stale and has not closed yet
    active,      \* s.activeScope, s.activeApprovalGates
    copy,        \* what republishActiveState of each connection has still to write
    sent,        \* commands begun so far
    pending,     \* commands that have still to write
    wire,        \* what is on its way to the extension, per connection
    answers,     \* what is on its way back
    held,        \* what the extension has applied
    disordered   \* history: writes crossed, what was being restored was set again, an
                 \* answer came from an old connection or named no snapshot, or a restore
                 \* named another than the active one

linkVars == <<conn, place, closed, peer, quiet, expiring>>
controlVars == <<active, copy, sent, pending, wire, answers, held, disordered>>
vars == <<conn, place, closed, peer, quiet, expiring, active, copy, sent, pending, wire,
          answers, held, disordered>>

Kinds == {"scope", "gates"}
Message(do, k, id) == [do |-> do, kind |-> k, id |-> id]
Orders == [do : {"set", "restore"}, kind : Kinds, id : Ids]
Answers == [do : {"applied", "restored", "failed"}, kind : Kinds, id : Ids]
Nothing == [k \in Kinds |-> None]

Init ==
    /\ conn = None
    /\ place = [c \in Conns |-> "idle"]
    /\ closed = {}
    /\ peer = [c \in Conns |-> "none"]
    /\ quiet = FALSE
    /\ expiring = {}
    /\ active = Nothing
    /\ copy = [c \in Conns |-> Nothing]
    /\ sent = 0
    /\ pending = {}
    /\ wire = [c \in Conns |-> <<>>]
    /\ answers = [c \in Conns |-> <<>>]
    /\ held = Nothing
    /\ disordered = FALSE

\* A goroutine between its registration and its end.
Busy == {"granted", "serving"}

Goes(c, from, to) ==
    /\ place[c] = from
    /\ place' = [place EXCEPT ![c] = to]

\* A write of this kind is still to come on the connection, and may now be overtaken.
Crosses(c, k) == copy[c][k] # None \/ \E p \in pending : p.on = c /\ p.order.kind = k

\* writeJSON: the message goes out, or meets its deadline; then every later one meets its
\* error (gorilla keeps it), while the connection is read and current as before and what had
\* gone out still arrives.  Callers pass the error on and leave what they have set as it is.
Writes(c, m) ==
    IF c \notin closed /\ peer[c] = "alive"
    THEN \/ wire' = [wire EXCEPT ![c] = Append(@, m)] /\ peer' = peer
         \/ wire' = wire /\ peer' = [peer EXCEPT ![c] = "cut"]
    ELSE UNCHANGED <<wire, peer>>

(***************************************************************************)
(* handleExtension: register, republish, read                              *)
(***************************************************************************)
\* Variant: the previous connection is left open.
LeavesOpen == closed

\* Variant: a previous connection is taken for granted.
ClosesAlways == closed \union {conn}

ClosesPrevious == closed \union ({conn} \ {None})

\* registerConnection.  Connections are numbered as they register.  The extension keeps
\* one connection: it has given up the last.
Register(c) ==
    /\ \A d \in 1..(c - 1) : place[d] # "idle"
    /\ Goes(c, "idle", "granted")
    /\ closed' = ClosesPrevious
    /\ conn' = c
    /\ peer' = [d \in Conns |-> CASE d = c -> "alive"
                                  [] peer[d] \in {"alive", "cut", "silent"} -> "left"
                                  [] OTHER -> peer[d]]
    /\ wire' = [d \in Conns |-> <<>>]
    /\ quiet' = FALSE
    /\ UNCHANGED <<expiring, active, copy, sent, pending, answers, held, disordered>>

\* Variant: gates are republished whatever became of them.
AnyState(k) == active[k] # None

\* Neither what failed nor, for gates, what is being restored is republished.
Republished(k) ==
    /\ active[k] # None
    /\ active[k].status # "failed"
    /\ k = "gates" => active[k].status # "restoring"

\* A scope that is being restored is set again.
Revived(k) == k = "scope" /\ active[k] # None /\ active[k].status = "restoring"

\* republishActiveState copies under the lock ...
CopyActive(c) ==
    /\ Goes(c, "granted", "serving")
    /\ copy' = [copy EXCEPT ![c] =
                   [k \in Kinds |-> IF Republished(k) THEN active[k].id ELSE None]]
    /\ disordered' = (disordered \/ \E k \in Kinds : Revived(k))
    /\ UNCHANGED <<conn, closed, peer, quiet, expiring, active, sent, pending, wire,
                   answers, held>>

\* ... and writes the scope, then the gates, after it; then it reads.
Republish(c, k) ==
    /\ copy[c][k] # None
    /\ k = "gates" => copy[c]["scope"] = None
    /\ copy' = [copy EXCEPT ![c][k] = None]
    /\ Writes(c, Message("set", k, copy[c][k]))
    /\ UNCHANGED <<conn, place, closed, quiet, expiring, active, sent, pending, answers,
                   held, disordered>>

Reads(c) == place[c] = "serving" /\ copy[c] = Nothing

\* if s.conn == conn
ConnWithout(c) == IF conn = c THEN None ELSE conn

\* The end of readLoop: clearConnection, then Close; the watch ends with it.
EndsReading(c) ==
    /\ Reads(c)
    /\ place' = [place EXCEPT ![c] = "gone"]
    /\ answers' = [answers EXCEPT ![c] = <<>>]
    /\ conn' = ConnWithout(c)
    /\ quiet' = (quiet /\ conn' # None)
    /\ closed' = closed \union {c}
    /\ expiring' = expiring \ {c}
    /\ UNCHANGED <<peer, active, copy, sent, pending, wire, held, disordered>>

\* ReadMessage fails, once what had arrived is read.
ReadFails(c) ==
    /\ c \in closed \/ (peer[c] = "left" /\ answers[c] = <<>>)
    /\ EndsReading(c)

\* The ping handler cannot write its pong, and ReadMessage returns its error.
PongFails(c) ==
    /\ c \notin closed /\ peer[c] \in {"alive", "cut"}
    /\ EndsReading(c)

\* A ping of the extension: markPing.  The answer to one sent as a message may fail unseen.
MarkPing(c) ==
    /\ Reads(c) /\ c \notin closed /\ peer[c] \in {"alive", "cut"}
    /\ quiet /\ conn = c
    /\ quiet' = FALSE
    /\ UNCHANGED <<conn, place, closed, peer, expiring, controlVars>>

TimePasses ==
    /\ conn # None /\ ~quiet
    /\ quiet' = TRUE
    /\ UNCHANGED <<conn, place, closed, peer, expiring, controlVars>>

\* Variant: no connection is ever found stale.
NeverStale(c) == FALSE

Stale(c) == conn = c /\ quiet

\* watchPingTimeout tests under the lock and closes its own connection without it.
FindStale(c) ==
    /\ Reads(c)
    /\ Stale(c) /\ c \notin expiring /\ c \notin closed
    /\ expiring' = expiring \union {c}
    /\ UNCHANGED <<conn, place, closed, peer, quiet, controlVars>>

CloseStale(c) ==
    /\ c \in expiring
    /\ expiring' = expiring \ {c}
    /\ closed' = closed \union {c}
    /\ UNCHANGED <<conn, place, peer, quiet, controlVars>>

\* DisconnectExtension, or Close at shutdown: the current connection is closed.
Disconnect ==
    /\ conn # None
    /\ closed' = closed \union {conn}
    /\ conn' = None
    /\ quiet' = FALSE
    /\ UNCHANGED <<place, peer, expiring, controlVars>>

(***************************************************************************)
(* Commands of the brain: the state first, the write after it.             *)
(***************************************************************************)
StartsAs == [k \in Kinds |-> IF k = "scope" THEN "applied" ELSE "applying"]

\* Whatever is active is restored, also when the order names an older snapshot, whose
\* "restored" will not be taken for it.
Misses(order) ==
    LET now == active[order.kind]
    IN  order.do = "restore" /\ now # None /\ order.id \notin {Blank, now.id}

Begin(order) ==
    /\ conn # None
    /\ sent < MaxCommands
    /\ sent' = sent + 1
    /\ pending' = pending \union {[on |-> conn, order |-> order]}
    /\ disordered' = (disordered \/ Crosses(conn, order.kind) \/ Misses(order))
    /\ UNCHANGED <<linkVars, copy, wire, answers, held>>

\* SendScopeSet, SendApprovalGatesSet: a new snapshot, whatever was active.
Set(k) ==
    /\ Begin(Message("set", k, sent + 1))
    /\ active' = [active EXCEPT ![k] = [id |-> sent + 1, status |-> StartsAs[k]]]

\* SendScopeRestore, SendApprovalGatesRestore: whatever is active is being restored.  The
\* id is the brain's, or what ClearScope read before: blank if nothing was active.
Restore(k, id) ==
    /\ id <= sent
    /\ Begin(Message("restore", k, id))
    /\ active' = IF active[k] = None THEN active
                 ELSE [active EXCEPT ![k].status = "restoring"]

Write(p) ==
    /\ pending' = pending \ {p}
    /\ Writes(p.on, p.order)
    /\ UNCHANGED <<conn, place, closed, quiet, expiring, active, copy, sent, answers, held,
                   disordered>>

(***************************************************************************)
(* The extension's answers                                                 *)
(***************************************************************************)
\* A blank id is taken for whatever is active.
Matches(k, id) == active[k] # None /\ id \in {Blank, active[k].id}

\* What is active, or if nothing is, what the answer names.
Marked(k, id, status) ==
    [id |-> IF active[k] = None THEN id ELSE active[k].id, status |-> status]

\* handleScopeApplied, handleApprovalGatesApplied
Applied(k, id) ==
    IF Matches(k, id) \/ (active[k] = None /\ k = "gates")
    THEN Marked(k, id, "applied")
    ELSE active[k]

\* handleScopeRestored, handleApprovalGatesRestored
Restored(k, id) == IF Matches(k, id) THEN None ELSE active[k]

\* handleScopeFailed, handleApprovalGatesFailed
Failed(k, id) ==
    IF Matches(k, id) \/ active[k] = None THEN Marked(k, id, "failed") ELSE active[k]

\* An answer that names no snapshot is taken for one that has a name.
Mistaken(m) == m.id = Blank /\ active[m.kind] # None /\ active[m.kind].id # Blank

\* The read loop handles one answer, whether or not its connection is still current.
ReadAnswer(c) ==
    /\ Reads(c)
    /\ answers[c] # <<>>
    /\ LET m == Head(answers[c])
       IN  active' = [active EXCEPT ![m.kind] =
                         CASE m.do = "applied" -> Applied(m.kind, m.id)
                           [] m.do = "restored" -> Restored(m.kind, m.id)
                           [] OTHER -> Failed(m.kind, m.id)]
    /\ answers' = [answers EXCEPT ![c] = Tail(@)]
    /\ disordered' = (disordered \/ c # conn \/ Mistaken(Head(answers[c])))
    /\ UNCHANGED <<linkVars, copy, sent, pending, wire, held>>

(***************************************************************************)
(* The extension: it does what it is told, in order, and answers; it may   *)
(* fail to, go silent, leave, or lose all it held with the end of Burp.    *)
(***************************************************************************)
Answer(c, m, result, now) ==
    /\ answers' = IF c \in closed THEN answers
                  ELSE [answers EXCEPT ![c] = Append(@, Message(result, m.kind, m.id))]
    /\ held' = [held EXCEPT ![m.kind] = now]

ExtensionActs(c) ==
    /\ peer[c] \in {"alive", "cut"}
    /\ wire[c] # <<>>
    /\ LET m == Head(wire[c])
       IN  \/ m.do = "set" /\ Answer(c, m, "applied", m.id)
           \/ m.do = "restore" /\ Answer(c, m, "restored", None)
           \/ Answer(c, m, "failed", held[m.kind])
    /\ wire' = [wire EXCEPT ![c] = Tail(@)]
    /\ UNCHANGED <<linkVars, active, copy, sent, pending, disordered>>

ExtensionStops(c) ==
    /\ peer[c] \in {"alive", "cut"}
    /\ \/ peer' = [peer EXCEPT ![c] = "silent"] /\ held' = held
       \/ peer' = [peer EXCEPT ![c] = "left"] /\ held' \in {held, Nothing}
    /\ wire' = [wire EXCEPT ![c] = <<>>]
    /\ UNCHANGED <<conn, place, closed, quiet, expiring, active, copy, sent, pending,
                   answers, disordered>>

Serve(c) == \/ CopyActive(c) \/ (\E k \in Kinds : Republish(c, k))
            \/ ReadAnswer(c) \/ ReadFails(c)
            \/ FindStale(c) \/ CloseStale(c)

Next ==
    \/ \E c \in Conns : Register(c) \/ Serve(c) \/ MarkPing(c) \/ PongFails(c)
    \/ \E c \in Conns : ExtensionActs(c) \/ ExtensionStops(c)
    \/ \E k \in Kinds : Set(k)
    \/ \E k \in Kinds, id \in Ids : Restore(k, id)
    \/ \E p \in pending : Write(p)
    \/ TimePasses \/ Disconnect

Spec == Init /\ [][Next]_vars

\* The goroutines of the connections run on, and time passes.  That one of them does is
\* enough: no connection has work without end.
FairSpec == Spec /\ WF_vars(TimePasses \/ \E c \in Conns : Serve(c))

-----------------------------------------------------------------------------
TypeOK ==
    /\ conn \in Conns \union {None}
    /\ place \in [Conns -> {"idle", "gone"} \union Busy]
    /\ closed \subseteq Conns
    /\ peer \in [Conns -> {"none", "alive", "cut", "silent", "left"}]
    /\ quiet \in BOOLEAN
    /\ expiring \subseteq Conns
    /\ active \in [Kinds -> Active \union {None}]
    /\ copy \in [Conns -> [Kinds -> Ids \union {None}]]
    /\ sent \in 0..MaxCommands
    /\ pending \subseteq [on : Conns, order : Orders]
    /\ wire \in [Conns -> Seq(Orders)]
    /\ answers \in [Conns -> Seq(Answers)]
    /\ held \in [Kinds -> Ids \union {None}]
    /\ disordered \in BOOLEAN

\* What is read and not closed is the current connection, and the current connection is
\* one whose goroutine will still clear it: a new connection evicts the one before it
\* (extension_server.go:859-863), whose end leaves its successor alone, and "connected"
\* does not outlive the connection.
OneConnection ==
    \A c \in Conns :
        /\ place[c] \in Busy /\ c \notin closed => conn = c
        /\ conn = c => place[c] \in Busy

\* Nothing under way on a connection whose writes arrive: every command written, every
\* answer read.
Settled(c) ==
    /\ conn = c /\ c \notin closed /\ Reads(c) /\ peer[c] = "alive"
    /\ wire[c] = <<>>
    /\ \A d \in Conns : answers[d] = <<>>
    /\ pending = {}

\* Once all is settled, on a connection no write has failed on, the daemon reports applied
\* only what the extension holds, and nothing only if it holds nothing, through lost
\* connections, new ones and an extension that failed or restarted; unless
\*   - a command was begun when the write of another of its kind was still to come;
\*   - a scope was republished while it was being restored;
\*   - an answer came from a connection that was no longer the current one;
\*   - a restore named another snapshot than the active one; or
\*   - an answer that named no snapshot was taken for one that has a name.
\* When a write has failed (extension_server.go:1274-1279) nothing of the kind holds: what
\* was set before it (386-402) stays reported, until a new connection is given it again.
Agreement ==
    (\E c \in Conns : Settled(c)) /\ ~disordered =>
        \A k \in Kinds :
            /\ active[k] = None => held[k] = None
            /\ active[k] # None /\ active[k].status = "applied" => held[k] = active[k].id

\* An extension that no longer answers does not stay the current connection.
CurrentIsSilent == conn # None /\ peer[conn] = "silent"
SilentIsDropped == CurrentIsSilent ~> ~CurrentIsSilent
=============================================================================
