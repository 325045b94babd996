-------------------------- MODULE ExtensionSession --------------------------
(***************************************************************************)
(* Pairing the Burp extension (internal/burp/extension_server.go): the     *)
(* commands InitiatePair, CancelPair and DisconnectExtension, run by the   *)
(* local HTTP API and by requests of the brain; authenticate, run by the   *)
(* goroutine of each upgrade request of the extension; and the             *)
(* configuration all of them change in memory and save to a file           *)
(* (internal/config/config.go) that a restart reads.  The brain's settings *)
(* (approval mode, REST key, CA path) save it too.                         *)
(*                                                                         *)
(* A pair token is named by the command that made it, a session token by   *)
(* the upgrade request it was granted to.  What goes over the connection   *)
(* an accepted request becomes is in ExtensionLink.                        *)
(***************************************************************************)
EXTENDS Naturals, FiniteSets

CONSTANTS
    Requests,    \* upgrade requests at /burp/extension
    Commands,    \* pairing commands and settings
    None,        \* no token
    Torn         \* a configuration file that does not parse

Ops == Requests \union Commands
Configs == [pairing : Commands \union {None}, session : Requests \union {None}]

ASSUME DistinctAssumption ==
    /\ Requests \cap Commands = {}
    /\ None \notin Ops
    /\ None \notin Configs /\ Torn \notin Configs

VARIABLES
    cfg,         \* the tokens of s.cfg: the pairing (with its deadline), the session
    disk,        \* the same in the configuration file, or Torn
    pairFile,    \* the pair token in ~/.revelion/burp-pair.json
    lapsed,      \* the pair tokens whose window has passed
    place,       \* where each request and command is
    kind,        \* what each command does
    marshalled,  \* what each of them is about to write to the configuration file
    token,       \* the token each request carries, then the session it was granted
    expected,    \* the pair token authenticate read, per request
    known,       \* the session tokens the extension has been told
    conn,        \* s.conn: the request whose connection is current
    up,          \* the daemon runs
    ended,       \* history: the tokens each of them used up, replaced or cancelled
    saved,       \* history: those saved with no older save of what they ended under way
    granted,     \* history: the requests each pair token was granted a session for
    restored,    \* history: pair tokens a restart brought back
    jostled,     \* history: commands that paired with another one at the pair file
    crossed,     \* history: requests a disconnect met between authenticate and s.conn
    contended,   \* history: pair tokens two requests had in authenticate at once
    mishap       \* history: a save overlapped another, failed or was cut off

fileVars == <<disk, pairFile, marshalled>>
requestVars == <<token, expected, known, conn>>
historyVars == <<ended, saved, granted, restored, jostled, crossed, contended>>
vars == <<cfg, disk, pairFile, lapsed, place, kind, marshalled, requestVars, up,
          historyVars, mishap>>

Kinds == {"initiate", "cancel", "disconnect", "setting"}
Saving == {"saving", "opening", "writing"}

Tokens(config) ==
    IF config \in Configs THEN {config.pairing, config.session} \ {None} ELSE {}

Init ==
    /\ cfg = [pairing |-> None, session |-> None]
    /\ disk = cfg
    /\ pairFile = None
    /\ lapsed = {}
    /\ place = [o \in Ops |-> "idle"]
    /\ kind \in [Commands -> Kinds]
    /\ marshalled = [o \in Ops |-> None]
    /\ token = [r \in Requests |-> None]
    /\ expected = [r \in Requests |-> None]
    /\ known = {}
    /\ conn = None
    /\ up = TRUE
    /\ ended = [o \in Ops |-> {}]
    /\ saved = {}
    /\ granted = [c \in Commands |-> {}]
    /\ restored = {}
    /\ jostled = {}
    /\ crossed = {}
    /\ contended = {}
    /\ mishap = FALSE

Goes(o, from, to) ==
    /\ up
    /\ place[o] = from
    /\ place' = [place EXCEPT ![o] = to]

(***************************************************************************)
(* config.Save: marshal, truncate the file, write.  No lock is held, so    *)
(* saves overlap; a write after another's may leave its tail, and a file   *)
(* that does not parse.                                                    *)
(***************************************************************************)
saveFrame == <<cfg, pairFile, lapsed, kind, requestVars, up, ended, granted, restored,
               jostled, crossed, contended>>

Marshal(o) ==
    /\ Goes(o, "saving", "opening")
    /\ marshalled' = [marshalled EXCEPT ![o] = cfg]
    /\ mishap' = (mishap \/ \E x \in Ops \ {o} : place[x] \in {"opening", "writing"})
    /\ UNCHANGED <<saveFrame, disk, saved>>

Truncate(o) ==
    /\ Goes(o, "opening", "writing")
    /\ disk' = Torn
    /\ UNCHANGED <<saveFrame, marshalled, saved, mishap>>

\* Some other save has still to write a token that o ended.
Raced(o) == \E x \in Ops \ {o} : Tokens(marshalled[x]) \cap ended[o] # {}

SaveSucceeds(o) ==
    /\ Goes(o, "writing", IF o \in Requests THEN "upgrading" ELSE "gone")
    /\ \/ disk' = marshalled[o]
       \/ disk \notin {Torn, marshalled[o]} /\ disk' = Torn
    /\ marshalled' = [marshalled EXCEPT ![o] = None]
    /\ saved' = IF Raced(o) THEN saved ELSE saved \union {o}
    /\ UNCHANGED <<saveFrame, mishap>>

\* The directory, the open or the write fails; the operation reports an error, and
\* what it changed in memory stays changed.
SaveFails(o) ==
    /\ Goes(o, "opening", "gone") \/ Goes(o, "writing", "gone")
    /\ marshalled' = [marshalled EXCEPT ![o] = None]
    /\ mishap' = TRUE
    /\ UNCHANGED <<saveFrame, disk, saved>>

(***************************************************************************)
(* Pairing commands                                                        *)
(***************************************************************************)
commandFrame == <<disk, marshalled, lapsed, kind, token, expected, known, up, saved,
                  granted, restored, contended>>

Ends(o, tokens) == ended' = [ended EXCEPT ![o] = tokens \ {None}]

SetPairing(c, pairing) ==
    /\ Goes(c, "idle", "file")
    /\ cfg' = [cfg EXCEPT !.pairing = pairing]
    /\ Ends(c, {cfg.pairing})
    /\ jostled' = IF \E x \in Commands : place[x] = "file" THEN jostled \union {c} ELSE jostled
    /\ UNCHANGED <<commandFrame, pairFile, conn, crossed, mishap>>

InitiatePair(c) == kind[c] = "initiate" /\ SetPairing(c, c)
CancelPair(c) == kind[c] = "cancel" /\ SetPairing(c, None)

\* Variant: the file of an earlier pairing is kept.
FirstFile(c) == IF pairFile = None THEN c ELSE pairFile

\* os.WriteFile of the new token, or os.Remove.
FileAfter(c) == IF kind[c] = "initiate" THEN c ELSE None

PairFileChanged(c) ==
    /\ Goes(c, "file", "saving")
    /\ pairFile' = FileAfter(c)
    /\ UNCHANGED <<commandFrame, cfg, conn, ended, jostled, crossed, mishap>>

\* writePairFile fails: InitiatePair returns before it saves, and nobody learns the token.
PairFileFails(c) ==
    /\ kind[c] = "initiate"
    /\ Goes(c, "file", "unwritten")
    /\ mishap' = TRUE
    /\ UNCHANGED <<commandFrame, pairFile, cfg, conn, ended, jostled, crossed>>

\* Variant: the session is forgotten in memory only.
NotSaved == "gone"

ThenSaves == "saving"

\* Variant: only the connection is closed.
SessionKept == cfg.session

SessionCleared == None

\* Variant: the extension is left on its connection.
LeftOpen == conn

CutOff == None

Accepted == {r \in Requests : place[r] \in Saving \union {"upgrading"}}

\* The session is forgotten and the current connection closed.
DisconnectExtension(c) ==
    /\ kind[c] = "disconnect"
    /\ Goes(c, "idle", ThenSaves)
    /\ cfg' = [cfg EXCEPT !.session = SessionCleared]
    /\ conn' = CutOff
    /\ Ends(c, {cfg.session})
    /\ crossed' = crossed \union Accepted
    /\ UNCHANGED <<commandFrame, pairFile, jostled, mishap>>

\* A setting that is saved in the same file: no token changes.
ChangeSetting(c) ==
    /\ kind[c] = "setting"
    /\ Goes(c, "idle", "saving")
    /\ UNCHANGED <<commandFrame, pairFile, cfg, conn, ended, jostled, crossed, mishap>>

PairWindowEnds(c) ==
    /\ kind[c] = "initiate" /\ place[c] # "idle"
    /\ c \notin lapsed
    /\ lapsed' = lapsed \union {c}
    /\ UNCHANGED <<fileVars, cfg, place, kind, requestVars, up, historyVars, mishap>>

(***************************************************************************)
(* authenticate                                                            *)
(***************************************************************************)
authFrame == <<fileVars, lapsed, kind, known, conn, up, saved, restored, jostled, crossed,
               mishap>>

\* The extension shows a session token it was told, or a pair token from the file.
PresentSession(r, t) ==
    /\ t \in known
    /\ Goes(r, "idle", IF t = cfg.session THEN "upgrading" ELSE "gone")
    /\ token' = [token EXCEPT ![r] = t]
    /\ UNCHANGED <<authFrame, cfg, expected, ended, granted, contended>>

PresentPairing(r, c) ==
    /\ kind[c] = "initiate" /\ place[c] \notin {"idle", "file", "unwritten"}
    /\ Goes(r, "idle", "checking")
    /\ token' = [token EXCEPT ![r] = c]
    /\ expected' = [expected EXCEPT ![r] = cfg.pairing]
    /\ UNCHANGED <<authFrame, cfg, ended, granted, contended>>

\* The deadline is looked at under the lock, after the token was read without it.
CheckPairing(r) ==
    /\ Goes(r, "checking",
            IF cfg.pairing \notin lapsed /\ token[r] = expected[r] THEN "granting"
                                                                  ELSE "gone")
    /\ UNCHANGED <<authFrame, cfg, token, expected, ended, granted, contended>>

\* Variant: the pair token is left for the next request.
StaysPaired == cfg.pairing

UsedUp == None

\* A new session replaces the old one, and the pairing, whichever it is by now, is
\* used up.
Grant(r) ==
    /\ Goes(r, "granting", "saving")
    /\ cfg' = [pairing |-> UsedUp, session |-> r]
    /\ token' = [token EXCEPT ![r] = r]
    /\ expected' = [expected EXCEPT ![r] = None]
    /\ Ends(r, {token[r], cfg.pairing, cfg.session})
    /\ granted' = [granted EXCEPT ![token[r]] = @ \union {r}]
    /\ contended' = IF \E q \in Requests \ {r} : /\ place[q] \in {"checking", "granting"}
                                                 /\ expected[q] = token[r]
                    THEN contended \union {token[r]} ELSE contended
    /\ UNCHANGED authFrame

upgradeFrame == <<fileVars, cfg, lapsed, kind, token, expected, up, historyVars, mishap>>

\* The connection is made and replaces the one before it, whatever became of its session
\* since it was looked at; the extension is told its session, or that write fails.
Upgrade(r) ==
    /\ Goes(r, "upgrading", "connected")
    /\ conn' = r
    /\ known' \in {known, known \union {token[r]}}
    /\ UNCHANGED upgradeFrame

UpgradeFails(r) ==
    /\ Goes(r, "upgrading", "gone")
    /\ UNCHANGED <<upgradeFrame, known, conn>>

\* The connection is over: it was closed, or the extension left.
ConnectionEnds(r) ==
    /\ Goes(r, "connected", "gone")
    /\ conn' = IF conn = r THEN None ELSE conn
    /\ UNCHANGED <<upgradeFrame, known>>

(***************************************************************************)
(* The daemon ends at any point and starts again from the configuration    *)
(* file, or not at all if that is torn.                                    *)
(***************************************************************************)
\* Variant: whatever the file holds is taken.
LoadsAnything == disk

\* config.Load: a file that does not parse is refused.
Loaded == IF disk = Torn THEN cfg ELSE disk

Restart ==
    /\ up
    /\ up' = (disk # Torn)
    /\ cfg' = Loaded
    /\ conn' = None
    /\ place' = [o \in Ops |-> CASE place[o] = "idle" -> "idle"
                                 [] place[o] \in {"file", "unwritten"} -> "unwritten"
                                 [] OTHER -> "gone"]
    /\ mishap' = (mishap \/ \E o \in Ops : place[o] \in Saving \union {"file"})
    /\ marshalled' = [o \in Ops |-> None]
    /\ expected' = [r \in Requests |-> None]
    /\ restored' = restored \union ((Commands \cap Tokens(Loaded)) \ {cfg.pairing})
    /\ UNCHANGED <<disk, pairFile, lapsed, kind, token, known, ended, saved, granted,
                   jostled, crossed, contended>>

Save(o) == Marshal(o) \/ Truncate(o) \/ SaveSucceeds(o) \/ SaveFails(o)

Command(c) ==
    \/ InitiatePair(c) \/ CancelPair(c) \/ DisconnectExtension(c) \/ ChangeSetting(c)
    \/ PairFileChanged(c) \/ PairFileFails(c) \/ PairWindowEnds(c) \/ Save(c)

Request(r) ==
    \/ \E t \in Requests : PresentSession(r, t)
    \/ \E c \in Commands : PresentPairing(r, c)
    \/ CheckPairing(r) \/ Grant(r) \/ Save(r)
    \/ Upgrade(r) \/ UpgradeFails(r) \/ ConnectionEnds(r)

Next ==
    \/ \E c \in Commands : Command(c)
    \/ \E r \in Requests : Request(r)
    \/ Restart

Spec == Init /\ [][Next]_vars

-----------------------------------------------------------------------------
Places == {"idle", "file", "unwritten", "checking", "granting", "upgrading",
           "connected", "gone"} \union Saving

TypeOK ==
    /\ cfg \in Configs
    /\ disk \in Configs \union {Torn}
    /\ pairFile \in Commands \union {None}
    /\ lapsed \subseteq Commands
    /\ place \in [Ops -> Places]
    /\ kind \in [Commands -> Kinds]
    /\ marshalled \in [Ops -> Configs \union {None}]
    /\ token \in [Requests -> Ops \union {None}]
    /\ expected \in [Requests -> Commands \union {None}]
    /\ known \subseteq Requests
    /\ conn \in Requests \union {None}
    /\ up \in BOOLEAN
    /\ ended \in [Ops -> SUBSET Ops]
    /\ saved \subseteq Ops
    /\ granted \in [Commands -> SUBSET Requests]
    /\ restored \subseteq Commands
    /\ jostled \subseteq Commands
    /\ crossed \subseteq Requests
    /\ contended \subseteq Commands
    /\ mishap \in BOOLEAN

Pending == \E o \in Ops : place[o] \in Saving \union {"file"}

\* Once no save is under way the configuration file holds what the daemon goes by,
\* unless saves overlapped, failed or were cut off.
SavedWhenQuiet == up /\ ~mishap /\ ~Pending => disk = cfg

\* The pair file the extension reads holds the pair token the daemon expects, once no
\* command is changing it (InitiatePair, CancelPair, authenticate).  Not so for a token
\* that was paired while another command was still at the pair file (279-286: the two may
\* write in the other order), one whose file was never written (285), and one that a
\* restart brought back, the file meanwhile being another's.
PairFileMatches ==
    LET p == cfg.pairing
    IN  up /\ p # None /\ (\A c \in Commands : place[c] # "file") =>
            pairFile = p \/ place[p] = "unwritten" \/ p \in jostled \union restored

\* What an operation ended is to stay ended: its save is still to come or has succeeded,
\* and no older save of what it ended was to be written after it.
Lasts(o) == o \in saved \/ place[o] \in Saving \union {"file"}

\* A session ended by a disconnect is not accepted again, by this daemon or after a restart
\* (extension_server_test.go:446), whatever other saves fail, overlap or are cut off; no more
\* is a session replaced by a newer one, or a pair token used up, replaced or cancelled.
\* What it takes is that the operation's own save succeeds, and that no save which was
\* marshalled before (config.go:109) is written after it (113): that one puts the token
\* back into the file, and a restart accepts it.
RevokedStaysRevoked == \A o \in Ops : Lasts(o) => ended[o] \cap Tokens(cfg) = {}

\* A disconnect leaves no connection to the session it ended, whoever connects with it
\* meanwhile, or after a restart if it lasts (as above); but for a request it met between
\* authenticate and registerConnection, which is let in all the same
\* (extension_server.go:733-760).
RevokedIsCutOff ==
    conn # None =>
        conn \in crossed \/ \A c \in Commands : Lasts(c) => token[conn] \notin ended[c]

\* A pair token is good for one session (extension_server_test.go:287): once it was granted
\* one that lasts (as above) it is granted no other, unless two requests had the token in
\* authenticate at once.
OneSessionPerPairing ==
    [][\A c \in Commands : granted'[c] # granted[c] =>
          c \in contended' \/ \A q \in granted[c] : ~Lasts(q)]_vars
=============================================================================
