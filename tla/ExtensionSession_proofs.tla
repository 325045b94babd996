---------------------- MODULE ExtensionSession_proofs ----------------------
(***************************************************************************)
(* For any numbers of upgrade requests, commands and settings: memory,     *)
(* configuration file and pair file agree, a revoked session stays revoked *)
(* and cut off, and a pair token is good for one session, each but for the *)
(* races its property names.                                               *)
(***************************************************************************)
EXTENDS ExtensionSession, TLAPS

-----------------------------------------------------------------------------
(* The inductive invariant *)

\* What a request carries and an operation is about to write.
Carries ==
    /\ \A r \in Requests :
         /\ place[r] \in {"checking", "granting"} =>
                token[r] \in Commands /\ place[token[r]] # "idle"
         /\ place[r] = "granting" => expected[r] = token[r]
         /\ place[r] \in Saving \union {"upgrading", "connected"} => token[r] \in Requests
    /\ \A o \in Ops : place[o] \in {"opening", "writing"} => marshalled[o] \in Configs
    /\ \A c \in Commands : place[c] \notin {"checking", "granting"}
    /\ conn # None => place[conn] = "connected"

Base == TypeOK /\ Carries

\* An operation that has made no token is named nowhere, and has ended nothing.
Unmade(o) == place[o] \in {"idle", "checking", "granting"}

Unnamed(o) ==
    /\ o \notin Tokens(cfg) \union Tokens(disk)
    /\ \A x \in Ops : o \notin Tokens(marshalled[x]) \union ended[x]
    /\ o \notin known
    /\ \A q \in Requests : token[q] = o => o \in Commands

NoneBefore == \A o \in Ops : Unmade(o) => Unnamed(o) /\ ended[o] = {} /\ o \notin saved

\* A token is not current while its end lasts, and is in no file that can come back once
\* the end is saved.
Final ==
    \A o \in Ops :
        /\ Lasts(o) => ended[o] \cap Tokens(cfg) = {}
        /\ o \in saved =>
               /\ place[o] \in {"upgrading", "connected", "gone"}
               /\ ended[o] \cap Tokens(disk) = {}
               /\ \A x \in Ops : ended[o] \cap Tokens(marshalled[x]) = {}
        /\ place[o] \in {"opening", "writing"} => ended[o] \cap Tokens(marshalled[o]) = {}

\* Nor is it the token of a request let in, unless the two met.
Cut ==
    \A r \in Requests :
        place[r] \in Saving \union {"upgrading"} \/ conn = r =>
            r \in crossed \/ \A c \in Commands : Lasts(c) => token[r] \notin ended[c]

\* A pair token that was granted a lasting session is expected by nobody it did not contend
\* with.
Spent ==
    \A c \in Commands : \A q \in granted[c] :
        /\ c \in ended[q] /\ ~Unmade(q)
        /\ Lasts(q) =>
               \/ c \in contended
               \/ \A r \in Requests : place[r] \in {"checking", "granting"} => expected[r] # c

\* The command that paired last and alone is at the pair file, or was the last there.
PairFile ==
    \A p \in Commands \ (jostled \union restored) : up /\ cfg.pairing = p =>
        \/ kind[p] = "initiate" /\ \A c \in Commands : place[c] = "file" <=> c = p
        \/ place[p] = "unwritten"
        \/ pairFile = p /\ \A c \in Commands : place[c] # "file"

\* Short of mishaps, one operation at a time has the configuration file, ...
AtFile == {o \in Ops : place[o] \in {"opening", "writing"}}

OneWriter ==
    /\ \A x, y \in AtFile : x = y
    /\ disk = Torn <=> \E o \in Ops : place[o] = "writing"
    /\ up

\* ... and what is not on its way to it is in it.
Saved ==
    \/ \E o \in Ops : place[o] \in {"file", "saving"}
    \/ \E o \in AtFile : marshalled[o] = cfg
    \/ AtFile = {} /\ disk = cfg

IInv ==
    /\ Base
    /\ NoneBefore /\ Final /\ Cut /\ Spent /\ PairFile
    /\ ~mishap => OneWriter /\ Saved

-----------------------------------------------------------------------------
(* Types *)

USE DistinctAssumption
USE DEF Ops, Goes, Saving

\* A save keeps the types, and what it carries.
LEMMA SaveBase ==
    ASSUME Base, NEW o \in Ops, Save(o)
    PROVE  Base'
<1> USE DEF Base, saveFrame, requestVars
<1>1. CASE Marshal(o)
  BY <1>1 DEF Marshal, TypeOK, Carries, Places
<1>2. CASE Truncate(o)
  BY <1>2 DEF Truncate, TypeOK, Carries, Places
<1>3. CASE SaveSucceeds(o)
  <2>1. marshalled[o] \in Configs /\ disk' \in Configs \union {Torn}
    BY <1>3 DEF SaveSucceeds, TypeOK, Carries
  <2>2. TypeOK'
    BY <1>3, <2>1 DEF SaveSucceeds, TypeOK, Places
  <2>3. Carries'
    BY <1>3 DEF SaveSucceeds, TypeOK, Carries
  <2> QED
    BY <2>2, <2>3
<1>4. CASE SaveFails(o)
  BY <1>4 DEF SaveFails, TypeOK, Carries, Places
<1> QED
  BY <1>1, <1>2, <1>3, <1>4 DEF Save

\* So do the other steps of a command, ...
LEMMA CommandBase ==
    ASSUME Base, NEW c \in Commands, Command(c)
    PROVE  Base'
<1> USE DEF Base, commandFrame
<1>1. ASSUME NEW pairing \in Commands \union {None}, SetPairing(c, pairing) PROVE Base'
  <2>1. cfg' \in Configs
    BY <1>1 DEF SetPairing, TypeOK, Configs
  <2>2. ended' \in [Ops -> SUBSET Ops]
    BY <1>1 DEF SetPairing, Ends, TypeOK, Configs
  <2>3. TypeOK'
    BY <1>1, <2>1, <2>2 DEF SetPairing, TypeOK, Places
  <2>4. Carries'
    BY <1>1 DEF SetPairing, TypeOK, Carries
  <2> QED
    BY <2>3, <2>4
<1>2. CASE DisconnectExtension(c)
  <2>1. cfg' \in Configs
    BY <1>2 DEF DisconnectExtension, SessionCleared, TypeOK, Configs
  <2>2. ended' \in [Ops -> SUBSET Ops]
    BY <1>2 DEF DisconnectExtension, Ends, TypeOK, Configs
  <2>3. TypeOK'
    BY <1>2, <2>1, <2>2 DEF DisconnectExtension, ThenSaves, CutOff, Accepted, TypeOK, Places
  <2>4. Carries'
    BY <1>2 DEF DisconnectExtension, ThenSaves, CutOff, TypeOK, Carries
  <2> QED
    BY <2>3, <2>4
<1>3. CASE PairFileChanged(c)
  BY <1>3 DEF PairFileChanged, FileAfter, TypeOK, Carries, Places
<1>4. CASE PairFileFails(c)
  BY <1>4 DEF PairFileFails, TypeOK, Carries, Places
<1>5. CASE PairWindowEnds(c)
  BY <1>5 DEF PairWindowEnds, fileVars, requestVars, historyVars, TypeOK, Carries
<1>6. CASE ChangeSetting(c)
  BY <1>6 DEF ChangeSetting, TypeOK, Carries, Places
<1>7. CASE Save(c)
  BY <1>7, SaveBase
<1> QED
  BY <1>1, <1>2, <1>3, <1>4, <1>5, <1>6, <1>7 DEF Command, InitiatePair, CancelPair

\* ... those of a request, ...
LEMMA RequestBase ==
    ASSUME Base, NEW r \in Requests, Request(r)
    PROVE  Base'
<1> USE DEF Base, authFrame, upgradeFrame, fileVars, historyVars
<1>1. ASSUME NEW t \in Requests, PresentSession(r, t) PROVE Base'
  BY <1>1 DEF PresentSession, TypeOK, Carries, Places
<1>2. ASSUME NEW c \in Commands, PresentPairing(r, c) PROVE Base'
  <2>1. TypeOK'
    BY <1>2 DEF PresentPairing, TypeOK, Places, Configs
  <2>2. Carries'
    BY <1>2 DEF PresentPairing, TypeOK, Carries
  <2> QED
    BY <2>1, <2>2
<1>3. CASE CheckPairing(r)
  BY <1>3 DEF CheckPairing, TypeOK, Carries, Places
<1>4. CASE Grant(r)
  <2>1. token[r] \in Commands
    BY <1>4 DEF Grant, Carries
  <2>2. cfg' \in Configs
    BY <1>4 DEF Grant, UsedUp, Configs
  <2>3. granted' \in [Commands -> SUBSET Requests] /\ ended' \in [Ops -> SUBSET Ops]
    BY <1>4, <2>1 DEF Grant, Ends, TypeOK, Configs
  <2>4. contended' \subseteq Commands
    BY <1>4, <2>1 DEF Grant, TypeOK
  <2>5. TypeOK'
    BY <1>4, <2>2, <2>3, <2>4 DEF Grant, TypeOK, Places
  <2>6. Carries'
    BY <1>4 DEF Grant, TypeOK, Carries
  <2> QED
    BY <2>5, <2>6
<1>5. CASE Save(r)
  BY <1>5, SaveBase
<1>6. CASE Upgrade(r)
  <2>1. token[r] \in Requests
    BY <1>6 DEF Upgrade, Carries
  <2> QED
    BY <1>6, <2>1 DEF Upgrade, TypeOK, Carries, Places
<1>7. CASE UpgradeFails(r) \/ ConnectionEnds(r)
  BY <1>7 DEF UpgradeFails, ConnectionEnds, TypeOK, Carries, Places
<1> QED
  BY <1>1, <1>2, <1>3, <1>4, <1>5, <1>6, <1>7 DEF Request

\* ... and a restart.
LEMMA StepBase == Base /\ [Next]_vars => Base'
<1> SUFFICES ASSUME Base, [Next]_vars PROVE Base'
  OBVIOUS
<1>1. CASE Restart
  <2>1. TypeOK'
    <3>1. cfg' \in Configs
      BY <1>1 DEF Restart, Loaded, Base, TypeOK
    <3>2. place' \in [Ops -> Places]
      BY <1>1 DEF Restart, Base, TypeOK, Places
    <3>3. up' \in BOOLEAN /\ mishap' \in BOOLEAN
      BY <1>1 DEF Restart, Base, TypeOK
    <3> QED
      BY <1>1, <3>1, <3>2, <3>3 DEF Restart, Base, TypeOK
  <2>2. Carries'
    BY <1>1 DEF Restart, Base, TypeOK, Carries
  <2> QED
    BY <2>1, <2>2 DEF Base
<1>2. CASE UNCHANGED vars
  BY <1>2 DEF vars, requestVars, historyVars, Base, TypeOK, Carries
<1> QED
  BY <1>1, <1>2, CommandBase, RequestBase DEF Next

-----------------------------------------------------------------------------
(* Steps and tokens *)

USE DEF saveFrame, commandFrame, authFrame, upgradeFrame, fileVars, requestVars, historyVars

\* A token appears where it is made, and nowhere before.
LEMMA StepNoneBefore == Base /\ NoneBefore /\ [Next]_vars => NoneBefore'
<1> SUFFICES ASSUME Base, NoneBefore, [Next]_vars, NEW o \in Ops, Unmade(o)'
             PROVE  Unnamed(o)' /\ ended'[o] = {} /\ o \notin saved'
  BY DEF NoneBefore
<1> DEFINE Goal == Unnamed(o)' /\ ended'[o] = {} /\ o \notin saved'
<1> USE DEF Unmade, Unnamed, Tokens, Base, TypeOK
<1>0. ASSUME Unmade(o) PROVE Unnamed(o) /\ ended[o] = {} /\ o \notin saved
  BY <1>0 DEF NoneBefore
<1>1. ASSUME NEW x \in Ops, Save(x) PROVE Goal
  BY <1>0, <1>1 DEF Save, Marshal, Truncate, SaveSucceeds, SaveFails
<1>2. ASSUME NEW c \in Commands, Command(c) PROVE Goal
  <2>1. CASE InitiatePair(c) \/ CancelPair(c)
    BY <1>0, <1>2, <2>1 DEF InitiatePair, CancelPair, SetPairing, Ends, Configs
  <2>2. CASE DisconnectExtension(c)
    BY <1>0, <1>2, <2>2 DEF DisconnectExtension, SessionCleared, ThenSaves, Ends, Configs
  <2>3. CASE PairFileChanged(c) \/ PairFileFails(c) \/ PairWindowEnds(c) \/ ChangeSetting(c)
    BY <1>0, <1>2, <2>3 DEF PairFileChanged, PairFileFails, PairWindowEnds, ChangeSetting
  <2> QED
    BY <1>1, <1>2, <2>1, <2>2, <2>3 DEF Command
<1>3. ASSUME NEW r \in Requests, Request(r) PROVE Goal
  <2>1. ASSUME NEW t \in Requests, PresentSession(r, t) PROVE Goal
    BY <1>0, <2>1 DEF PresentSession
  <2>2. ASSUME NEW c \in Commands, PresentPairing(r, c) PROVE Goal
    BY <1>0, <2>2 DEF PresentPairing
  <2>3. CASE Grant(r)
    <3>1. o # r /\ Unmade(o)
      BY <1>3, <2>3 DEF Grant
    <3>2. token[r] \in Commands /\ place[token[r]] # "idle"
      BY <1>3, <2>3 DEF Grant, Carries
    <3>3. token[r] # o
      <4>1. CASE o \in Requests
        BY <3>2, <4>1
      <4>2. CASE o \in Commands
        BY <1>0, <3>1, <3>2, <4>2 DEF Carries
      <4> QED
        BY <4>1, <4>2
    <3>4. Tokens(cfg') \subseteq {r} /\ o \notin Tokens(cfg')
      BY <2>3, <3>1 DEF Grant, UsedUp
    <3>5. ended' = [ended EXCEPT ![r] = {token[r], cfg.pairing, cfg.session} \ {None}]
      BY <2>3 DEF Grant, Ends
    <3>6. o \notin {token[r], cfg.pairing, cfg.session} \ {None}
      BY <1>0, <3>1, <3>3
    <3>7. \A x \in Ops : o \notin ended'[x]
      BY <1>0, <1>3, <3>1, <3>5, <3>6
    <3>8. ended'[o] = {}
      BY <1>0, <3>1, <3>5
    <3>9. \A q \in Requests : token'[q] = o => o \in Commands
      BY <1>0, <1>3, <2>3, <3>1 DEF Grant
    <3> QED
      BY <1>0, <2>3, <3>1, <3>4, <3>7, <3>8, <3>9 DEF Grant
  <2>4. CASE CheckPairing(r)
    BY <1>0, <2>4 DEF CheckPairing
  <2>5. CASE Upgrade(r)
    <3>1. Unmade(o) /\ token[r] # o /\ known' \subseteq known \union {token[r]}
      BY <1>0, <1>3, <2>5 DEF Upgrade, Carries
    <3> QED
      BY <1>0, <2>5, <3>1 DEF Upgrade
  <2>6. CASE UpgradeFails(r) \/ ConnectionEnds(r)
    BY <1>0, <2>6 DEF UpgradeFails, ConnectionEnds
  <2> QED
    BY <1>1, <1>3, <2>1, <2>2, <2>3, <2>4, <2>5, <2>6 DEF Request
<1>4. CASE Restart
  BY <1>0, <1>4 DEF Restart, Loaded
<1>5. CASE UNCHANGED vars
  BY <1>0, <1>5 DEF vars
<1> QED
  BY <1>2, <1>3, <1>4, <1>5 DEF Next

\* An end lasts until its own save fails, or succeeds while an older one is under way.
LEMMA StepFinal == Base /\ NoneBefore /\ Final /\ [Next]_vars => Final'
<1> SUFFICES ASSUME Base, NoneBefore, Final, [Next]_vars PROVE Final'
  OBVIOUS
<1> USE DEF Final, Lasts, Tokens, Base, TypeOK
<1>1. ASSUME NEW o \in Ops, Save(o) PROVE Final'
  <2>1. CASE Marshal(o)
    BY <1>1, <2>1 DEF Marshal
  <2>2. CASE Truncate(o)
    BY <1>1, <2>2 DEF Truncate
  <2>3. CASE SaveSucceeds(o)
    BY <1>1, <2>3 DEF SaveSucceeds, Raced, Carries
  <2>4. CASE SaveFails(o)
    BY <1>1, <2>4 DEF SaveFails
  <2> QED
    BY <1>1, <2>1, <2>2, <2>3, <2>4 DEF Save
<1>2. ASSUME NEW c \in Commands, Command(c) PROVE Final'
  <2>0. place[c] = "idle" => c \notin Tokens(cfg) /\ \A x \in Ops : c \notin ended[x]
    BY <1>2 DEF NoneBefore, Unmade, Unnamed
  <2>1. CASE InitiatePair(c) \/ CancelPair(c)
    BY <1>2, <2>0, <2>1 DEF InitiatePair, CancelPair, SetPairing, Ends, Configs
  <2>2. CASE DisconnectExtension(c)
    BY <1>2, <2>0, <2>2 DEF DisconnectExtension, SessionCleared, ThenSaves, Ends, Configs
  <2>3. CASE PairFileChanged(c) \/ PairFileFails(c) \/ PairWindowEnds(c)
    BY <1>2, <2>3 DEF PairFileChanged, PairFileFails, PairWindowEnds
  <2>4. CASE ChangeSetting(c)
    BY <1>2, <2>4 DEF ChangeSetting, NoneBefore, Unmade
  <2> QED
    BY <1>1, <1>2, <2>1, <2>2, <2>3, <2>4 DEF Command
<1>3. ASSUME NEW r \in Requests, Request(r) PROVE Final'
  <2>1. CASE Grant(r)
    <3>1. r \notin Tokens(cfg) /\ r # token[r] /\ \A x \in Ops : r \notin ended[x]
      BY <1>3, <2>1 DEF Grant, NoneBefore, Unmade, Unnamed, Carries
    <3> QED
      BY <1>3, <2>1, <3>1 DEF Grant, UsedUp, Ends, Configs
  <2>2. ASSUME UNCHANGED <<cfg, disk, marshalled, ended, saved>>,
               NEW from \in {"idle", "checking", "upgrading", "connected"},
               NEW to \in {"upgrading", "gone", "checking", "granting", "connected"},
               Goes(r, from, to),
               from \in {"upgrading", "connected"} => to \in {"connected", "gone"}
        PROVE  Final'
    <3>1. /\ \A o \in Ops \ {r} : place'[o] = place[o]
          /\ place[r] = from /\ place'[r] = to
      BY <1>3, <2>2
    <3>2. \A o \in Ops : Lasts(o)' <=> Lasts(o)
      BY <1>3, <2>2, <3>1
    <3>3. r \in saved => from \in {"upgrading", "connected"}
      BY <1>3, <2>2, <3>1
    <3> QED
      BY <1>3, <2>2, <3>1, <3>2, <3>3
  <2> QED
    BY <1>1, <1>3, <2>1, <2>2
       DEF Request, PresentSession, PresentPairing, CheckPairing, Upgrade, UpgradeFails,
           ConnectionEnds
<1>4. CASE Restart
  BY <1>4 DEF Restart, Loaded
<1>5. CASE UNCHANGED vars
  BY <1>5 DEF vars
<1> QED
  BY <1>2, <1>3, <1>4, <1>5 DEF Next

\* A disconnect ends the current session and meets every request accepted for it; what is
\* granted or accepted later is another, as long as that lasts.
LEMMA StepCut == Base /\ NoneBefore /\ Final /\ Cut /\ [Next]_vars => Cut'
<1> SUFFICES ASSUME Base, NoneBefore, Final, Cut, [Next]_vars PROVE Cut'
  OBVIOUS
<1> USE DEF Cut, Lasts, Base, TypeOK
<1>1. ASSUME NEW o \in Ops, Save(o) PROVE Cut'
  BY <1>1 DEF Save, Marshal, Truncate, SaveSucceeds, SaveFails
<1>2. ASSUME NEW c \in Commands, Command(c) PROVE Cut'
  <2>1. CASE InitiatePair(c) \/ CancelPair(c)
    BY <1>2, <2>1 DEF InitiatePair, CancelPair, SetPairing, Ends, Configs, Carries
  <2>2. CASE DisconnectExtension(c)
    BY <1>2, <2>2 DEF DisconnectExtension, ThenSaves, CutOff, Accepted
  <2>3. CASE PairFileChanged(c) \/ PairFileFails(c) \/ PairWindowEnds(c)
    BY <1>2, <2>3 DEF PairFileChanged, PairFileFails, PairWindowEnds
  <2>4. CASE ChangeSetting(c)
    BY <1>2, <2>4 DEF ChangeSetting, NoneBefore, Unmade
  <2> QED
    BY <1>1, <1>2, <2>1, <2>2, <2>3, <2>4 DEF Command
<1>3. ASSUME NEW r \in Requests, Request(r) PROVE Cut'
  <2>1. ASSUME NEW t \in Requests, PresentSession(r, t) PROVE Cut'
    BY <2>1 DEF PresentSession, Carries, Final, Tokens, Configs
  <2>2. ASSUME NEW c \in Commands, PresentPairing(r, c) PROVE Cut'
    BY <2>2 DEF PresentPairing, Carries
  <2>3. CASE Grant(r)
    <3>1. \A x \in Ops : r \notin ended[x]
      BY <1>3, <2>3 DEF Grant, NoneBefore, Unmade, Unnamed
    <3> QED
      BY <1>3, <2>3, <3>1 DEF Grant, Ends, Carries
  <2>4. CASE CheckPairing(r) \/ Upgrade(r) \/ UpgradeFails(r) \/ ConnectionEnds(r)
    BY <1>3, <2>4 DEF CheckPairing, Upgrade, UpgradeFails, ConnectionEnds
  <2> QED
    BY <1>1, <1>3, <2>1, <2>2, <2>3, <2>4 DEF Request
<1>4. CASE Restart
  BY <1>4 DEF Restart
<1>5. CASE UNCHANGED vars
  BY <1>5 DEF vars
<1> QED
  BY <1>2, <1>3, <1>4, <1>5 DEF Next

\* Whoever still expects a pair token when it is used up has contended for it, and nobody
\* comes to expect it after.
LEMMA StepSpent == Base /\ NoneBefore /\ Final /\ Spent /\ [Next]_vars => Spent'
<1> SUFFICES ASSUME Base, NoneBefore, Final, Spent, [Next]_vars PROVE Spent'
  OBVIOUS
<1> USE DEF Spent, Lasts, Unmade, Base, TypeOK
<1>1. ASSUME NEW o \in Ops, Save(o) PROVE Spent'
  BY <1>1 DEF Save, Marshal, Truncate, SaveSucceeds, SaveFails
<1>2. ASSUME NEW c \in Commands, Command(c) PROVE Spent'
  <2>1. CASE InitiatePair(c) \/ CancelPair(c)
    BY <1>2, <2>1 DEF InitiatePair, CancelPair, SetPairing, Ends
  <2>2. CASE DisconnectExtension(c)
    BY <1>2, <2>2 DEF DisconnectExtension, ThenSaves, Ends
  <2>3. CASE PairFileChanged(c) \/ PairFileFails(c) \/ PairWindowEnds(c) \/ ChangeSetting(c)
    BY <1>2, <2>3 DEF PairFileChanged, PairFileFails, PairWindowEnds, ChangeSetting
  <2> QED
    BY <1>1, <1>2, <2>1, <2>2, <2>3 DEF Command
<1>3. ASSUME NEW r \in Requests, Request(r) PROVE Spent'
  <2>1. ASSUME NEW t \in Requests, PresentSession(r, t) PROVE Spent'
    BY <2>1 DEF PresentSession
  <2>2. ASSUME NEW c \in Commands, PresentPairing(r, c) PROVE Spent'
    BY <2>2 DEF PresentPairing, Final, Tokens
  <2>3. CASE Grant(r)
    BY <1>3, <2>3 DEF Grant, Ends, Carries
  <2>4. CASE CheckPairing(r) \/ Upgrade(r) \/ UpgradeFails(r) \/ ConnectionEnds(r)
    BY <1>3, <2>4 DEF CheckPairing, Upgrade, UpgradeFails, ConnectionEnds
  <2> QED
    BY <1>1, <1>3, <2>1, <2>2, <2>3, <2>4 DEF Request
<1>4. CASE Restart
  BY <1>4 DEF Restart
<1>5. CASE UNCHANGED vars
  BY <1>5 DEF vars
<1> QED
  BY <1>2, <1>3, <1>4, <1>5 DEF Next

\* The pair file follows the pairing.
LEMMA StepPairFile == Base /\ NoneBefore /\ PairFile /\ [Next]_vars => PairFile'
<1> SUFFICES ASSUME Base, NoneBefore, PairFile, [Next]_vars PROVE PairFile'
  OBVIOUS
<1> DEFINE Elsewhere ==
      /\ UNCHANGED <<pairFile, kind, jostled, restored, up>>
      /\ cfg'.pairing \in {cfg.pairing, None}
      /\ \A c \in Commands : /\ place'[c] = "file" <=> place[c] = "file"
                             /\ place[c] = "unwritten" => place'[c] = "unwritten"
<1>0. Elsewhere => PairFile'
  BY DEF PairFile
<1>p. place \in [Ops -> Places]
  BY DEF Base, TypeOK
<1>1. ASSUME NEW o \in Ops, Save(o) PROVE Elsewhere
  <2>1. CASE Marshal(o) \/ Truncate(o)
    BY <1>p, <2>1 DEF Marshal, Truncate
  <2>2. CASE SaveSucceeds(o)
    BY <1>p, <2>2 DEF SaveSucceeds
  <2>3. CASE SaveFails(o)
    BY <1>p, <2>3 DEF SaveFails
  <2> QED
    BY <1>1, <2>1, <2>2, <2>3 DEF Save
<1>2. ASSUME NEW c \in Commands, Command(c) PROVE PairFile'
  <2>1. CASE InitiatePair(c) \/ CancelPair(c)
    <3>1. ASSUME NEW pairing \in Commands \union {None}, SetPairing(c, pairing),
                 pairing \in Commands => pairing = c /\ kind[c] = "initiate"
          PROVE  PairFile'
      <4>1. /\ place[c] = "idle" /\ place' = [place EXCEPT ![c] = "file"]
            /\ kind' = kind /\ up' = up
            /\ jostled' = IF \E x \in Commands : place[x] = "file" THEN jostled \union {c}
                                                                   ELSE jostled
        BY <3>1 DEF SetPairing
      <4>2. cfg'.pairing = pairing
        BY <3>1 DEF SetPairing, Base, TypeOK, Configs
      <4>3. /\ place'[c] = "file"
            /\ \A x \in Commands \ {c} : place'[x] = place[x]
        BY <1>p, <1>2, <4>1
      <4>4. c \in jostled' \/ \A x \in Commands : place[x] # "file"
        BY <4>1
      <4> QED
        BY <3>1, <4>1, <4>2, <4>3, <4>4 DEF PairFile
    <3> QED
      BY <1>2, <2>1, <3>1 DEF InitiatePair, CancelPair
  <2>2. CASE DisconnectExtension(c)
    <3>1. Elsewhere
      BY <1>p, <2>2 DEF DisconnectExtension, ThenSaves, Base, TypeOK, Configs
    <3> QED
      BY <1>0, <3>1
  <2>3. CASE ChangeSetting(c) \/ PairWindowEnds(c)
    <3>1. Elsewhere
      BY <1>p, <2>3 DEF ChangeSetting, PairWindowEnds
    <3> QED
      BY <1>0, <3>1
  <2>4. CASE PairFileChanged(c)
    <3>1. /\ pairFile' = FileAfter(c) /\ place[c] = "file" /\ place'[c] = "saving"
          /\ \A x \in Commands \ {c} : place'[x] = place[x]
          /\ UNCHANGED <<cfg, kind, jostled, restored, up>>
      BY <1>p, <2>4 DEF PairFileChanged
    <3> QED
      BY <3>1 DEF PairFile, FileAfter
  <2>5. CASE PairFileFails(c)
    <3>1. /\ place[c] = "file" /\ place'[c] = "unwritten"
          /\ \A x \in Commands \ {c} : place'[x] = place[x]
          /\ UNCHANGED <<pairFile, cfg, kind, jostled, restored, up>>
      BY <1>p, <2>5 DEF PairFileFails
    <3> QED
      BY <3>1 DEF PairFile
  <2> QED
    BY <1>0, <1>1, <1>2, <2>1, <2>2, <2>3, <2>4, <2>5 DEF Command
<1>3. ASSUME NEW r \in Requests, Request(r) PROVE Elsewhere
  <2>1. CASE Grant(r)
    BY <1>p, <1>3, <2>1 DEF Grant, UsedUp
  <2>2. CASE Upgrade(r) \/ UpgradeFails(r) \/ ConnectionEnds(r) \/ CheckPairing(r)
    BY <1>p, <1>3, <2>2 DEF CheckPairing, Upgrade, UpgradeFails, ConnectionEnds
  <2>3. ASSUME NEW t \in Requests, PresentSession(r, t) PROVE Elsewhere
    BY <1>p, <1>3, <2>3 DEF PresentSession
  <2>4. ASSUME NEW c \in Commands, PresentPairing(r, c) PROVE Elsewhere
    BY <1>p, <1>3, <2>4 DEF PresentPairing
  <2> QED
    BY <1>1, <1>3, <2>1, <2>2, <2>3, <2>4 DEF Request
<1>4. CASE Restart
  BY <1>4 DEF Restart, Loaded, Tokens, PairFile, Base, TypeOK
<1>5. CASE UNCHANGED vars
  BY <1>0, <1>5 DEF vars
<1> QED
  BY <1>0, <1>2, <1>3, <1>4, <1>5 DEF Next

-----------------------------------------------------------------------------
(* Steps short of mishaps *)

\* A mishap is not forgotten.
LEMMA MishapStays == [Next]_vars /\ ~mishap' => ~mishap
<1> SUFFICES ASSUME [Next]_vars, ~mishap' PROVE ~mishap
  OBVIOUS
<1>1. ASSUME NEW o \in Ops, Save(o) PROVE ~mishap
  BY <1>1 DEF Save, Marshal, Truncate, SaveSucceeds, SaveFails
<1>2. ASSUME NEW c \in Commands, Command(c) PROVE ~mishap
  BY <1>1, <1>2 DEF Command, InitiatePair, CancelPair, SetPairing, DisconnectExtension,
                    PairFileChanged, PairFileFails, PairWindowEnds, ChangeSetting
<1>3. ASSUME NEW r \in Requests, Request(r) PROVE ~mishap
  BY <1>1, <1>3 DEF Request, PresentSession, PresentPairing, CheckPairing, Grant, Upgrade,
                    UpgradeFails, ConnectionEnds
<1> QED
  BY <1>2, <1>3 DEF Next, Restart, vars

\* A restart without one finds everything in the file.
LEMMA QuietRestart ==
    ASSUME Base, OneWriter, Saved, Restart, ~mishap'
    PROVE  /\ up' /\ UNCHANGED <<cfg, disk>> /\ disk # Torn
           /\ \A o \in Ops : /\ place[o] \notin Saving \union {"file"}
                             /\ place'[o] \in {"idle", "gone", "unwritten"}
<1>1. \A o \in Ops : place[o] \notin Saving \union {"file"}
  BY DEF Restart
<1>2. disk # Torn /\ disk = cfg
  BY <1>1 DEF OneWriter, Saved, AtFile
<1> QED
  BY <1>1, <1>2 DEF Restart, Loaded, Base, TypeOK

\* No two operations have the file, which is torn while one is writing.
LEMMA StepOneWriter == Base /\ OneWriter /\ Saved /\ [Next]_vars /\ ~mishap' => OneWriter'
<1> SUFFICES ASSUME Base, OneWriter, Saved, [Next]_vars, ~mishap' PROVE OneWriter'
  OBVIOUS
<1> DEFINE Elsewhere ==
      /\ UNCHANGED <<disk, up>>
      /\ \A x \in Ops : /\ place'[x] = "opening" <=> place[x] = "opening"
                        /\ place'[x] = "writing" <=> place[x] = "writing"
<1>0. Elsewhere => OneWriter'
  BY DEF OneWriter, AtFile
<1>p. place \in [Ops -> Places]
  BY DEF Base, TypeOK
<1>1. ASSUME NEW o \in Ops, Save(o) PROVE OneWriter'
  <2> USE DEF OneWriter, AtFile
  <2>1. CASE Marshal(o)
    BY <1>p, <2>1 DEF Marshal
  <2>2. CASE Truncate(o)
    BY <1>p, <2>2 DEF Truncate
  <2>3. CASE SaveSucceeds(o)
    <3>1. marshalled[o] \in Configs
      BY <2>3 DEF SaveSucceeds, Base, Carries
    <3> QED
      BY <1>p, <2>3, <3>1 DEF SaveSucceeds
  <2> QED
    BY <1>1, <2>1, <2>2, <2>3 DEF Save, SaveFails
<1>2. ASSUME NEW c \in Commands, Command(c) PROVE OneWriter'
  <2>1. CASE InitiatePair(c) \/ CancelPair(c)
    <3>1. Elsewhere
      BY <1>p, <2>1 DEF InitiatePair, CancelPair, SetPairing, commandFrame
    <3> QED
      BY <1>0, <3>1
  <2>2. CASE DisconnectExtension(c) \/ ChangeSetting(c)
    <3>1. Elsewhere
      BY <1>p, <2>2 DEF DisconnectExtension, ThenSaves, ChangeSetting, fileVars
    <3> QED
      BY <1>0, <3>1
  <2>3. CASE PairFileChanged(c) \/ PairFileFails(c)
    <3>1. Elsewhere
      BY <1>p, <2>3 DEF PairFileChanged, PairFileFails, commandFrame
    <3> QED
      BY <1>0, <3>1
  <2>4. CASE PairWindowEnds(c)
    <3>1. Elsewhere
      BY <2>4 DEF PairWindowEnds, fileVars
    <3> QED
      BY <1>0, <3>1
  <2> QED
    BY <1>1, <1>2, <2>1, <2>2, <2>3, <2>4 DEF Command
<1>3. ASSUME NEW r \in Requests, Request(r) PROVE OneWriter'
  <2>1. ASSUME NEW t \in Requests, PresentSession(r, t) PROVE OneWriter'
    <3>1. Elsewhere
      BY <1>p, <2>1 DEF PresentSession, authFrame, fileVars
    <3> QED
      BY <1>0, <3>1
  <2>2. ASSUME NEW c \in Commands, PresentPairing(r, c) PROVE OneWriter'
    <3>1. Elsewhere
      BY <1>p, <2>2 DEF PresentPairing, authFrame, fileVars
    <3> QED
      BY <1>0, <3>1
  <2>3. CASE CheckPairing(r) \/ Grant(r)
    <3>1. Elsewhere
      BY <1>p, <2>3 DEF CheckPairing, Grant, authFrame, fileVars
    <3> QED
      BY <1>0, <3>1
  <2>4. CASE Upgrade(r) \/ UpgradeFails(r) \/ ConnectionEnds(r)
    <3>1. Elsewhere
      BY <1>p, <2>4 DEF Upgrade, UpgradeFails, ConnectionEnds, upgradeFrame, fileVars
    <3> QED
      BY <1>0, <3>1
  <2> QED
    BY <1>1, <1>3, <2>1, <2>2, <2>3, <2>4 DEF Request
<1>4. CASE Restart
  BY <1>4, QuietRestart DEF OneWriter, AtFile
<1>5. CASE UNCHANGED vars
  BY <1>5 DEF vars, OneWriter, AtFile
<1> QED
  BY <1>2, <1>3, <1>4, <1>5 DEF Next

\* What a command or a grant changes is on its way to the file until it is there.
LEMMA StepSaved == Base /\ OneWriter /\ Saved /\ [Next]_vars /\ ~mishap' => Saved'
<1> SUFFICES ASSUME Base, OneWriter, Saved, [Next]_vars, ~mishap' PROVE Saved'
  OBVIOUS
<1> USE DEF Saved, AtFile, Base, TypeOK
<1>1. ASSUME NEW o \in Ops, Save(o) PROVE Saved'
  <2>1. CASE Marshal(o)
    BY <1>1, <2>1 DEF Marshal
  <2>2. CASE Truncate(o)
    BY <1>1, <2>2 DEF Truncate
  <2>3. CASE SaveSucceeds(o)
    <3>1. disk' = marshalled[o] /\ \A x \in AtFile : x = o
      BY <1>1, <2>3 DEF SaveSucceeds, OneWriter
    <3> QED
      BY <1>1, <2>3, <3>1 DEF SaveSucceeds
  <2> QED
    BY <1>1, <2>1, <2>2, <2>3 DEF Save, SaveFails
<1>2. ASSUME NEW c \in Commands, Command(c) PROVE Saved'
  <2>1. CASE InitiatePair(c) \/ CancelPair(c)
    BY <1>2, <2>1 DEF InitiatePair, CancelPair, SetPairing
  <2>2. CASE DisconnectExtension(c) \/ PairFileChanged(c) \/ ChangeSetting(c)
    BY <1>2, <2>2 DEF DisconnectExtension, ThenSaves, PairFileChanged, ChangeSetting
  <2>3. CASE PairWindowEnds(c)
    BY <1>2, <2>3 DEF PairWindowEnds
  <2> QED
    BY <1>1, <1>2, <2>1, <2>2, <2>3 DEF Command, PairFileFails
<1>3. ASSUME NEW r \in Requests, Request(r) PROVE Saved'
  <2>1. CASE Grant(r)
    BY <1>3, <2>1 DEF Grant
  <2>2. CASE UNCHANGED <<cfg, disk, marshalled>> /\ place[r] \notin Saving \union {"file"}
             /\ \E to : Goes(r, place[r], to) /\ to \notin Saving
    BY <1>3, <2>2
  <2> QED
    BY <1>1, <1>3, <2>1, <2>2
       DEF Request, PresentSession, PresentPairing, CheckPairing, Upgrade, UpgradeFails,
           ConnectionEnds
<1>4. CASE Restart
  BY <1>4, QuietRestart DEF Restart
<1>5. CASE UNCHANGED vars
  BY <1>5 DEF vars
<1> QED
  BY <1>2, <1>3, <1>4, <1>5 DEF Next

-----------------------------------------------------------------------------
(* Theorems *)

\* At the start nothing is paired, granted or under way.
LEMMA InitIInv == Init => IInv
<1> SUFFICES ASSUME Init PROVE IInv
  OBVIOUS
<1>1. TypeOK /\ Carries
  BY DEF Init, TypeOK, Carries, Configs, Places
<1>2. NoneBefore /\ Final
  BY DEF Init, NoneBefore, Unmade, Unnamed, Final, Lasts, Tokens, Configs
<1>3. Cut /\ Spent /\ PairFile
  BY DEF Init, Cut, Spent, PairFile
<1>4. OneWriter /\ Saved
  BY DEF Init, OneWriter, Saved, AtFile, Configs
<1> QED
  BY <1>1, <1>2, <1>3, <1>4 DEF IInv, Base

\* Every step keeps the invariant.
LEMMA StepIInv == IInv /\ [Next]_vars => IInv'
<1> SUFFICES ASSUME IInv, [Next]_vars PROVE IInv'
  OBVIOUS
<1>1. Base /\ Base' /\ NoneBefore /\ Final
  BY StepBase DEF IInv
<1>2. NoneBefore' /\ Final' /\ Cut' /\ Spent' /\ PairFile'
  BY <1>1, StepNoneBefore, StepFinal, StepCut, StepSpent, StepPairFile DEF IInv
<1>3. ASSUME ~mishap' PROVE OneWriter' /\ Saved'
  <2>1. OneWriter /\ Saved
    BY <1>3, MishapStays DEF IInv
  <2> QED
    BY <1>1, <1>3, <2>1, StepOneWriter, StepSaved
<1> QED
  BY <1>1, <1>2, <1>3 DEF IInv

\* The inductive invariant holds in every behaviour.
THEOREM SpecIInv == Spec => []IInv
BY InitIInv, StepIInv, PTL DEF Spec

\* Every variable keeps its type.
THEOREM TypeCorrect == Spec => []TypeOK
<1>1. IInv => TypeOK
  BY DEF IInv, Base
<1> QED
  BY <1>1, SpecIInv, PTL

\* The configuration file holds what the daemon goes by once no save is under way, short of
\* mishaps.
THEOREM SavedQuiet == Spec => []SavedWhenQuiet
<1>1. IInv => SavedWhenQuiet
  BY DEF IInv, Saved, AtFile, SavedWhenQuiet, Pending
<1> QED
  BY <1>1, SpecIInv, PTL

\* The pair file holds the pair token the daemon expects, through failed saves and restarts,
\* unless the command was not alone at the pair file or its write failed.
THEOREM PairFileHolds == Spec => []PairFileMatches
<1>1. IInv => PairFileMatches
  <2> SUFFICES ASSUME IInv, up, cfg.pairing # None,
                      \A c \in Commands : place[c] # "file", cfg.pairing \notin jostled \union restored
               PROVE  pairFile = cfg.pairing \/ place[cfg.pairing] = "unwritten"
    BY DEF PairFileMatches
  <2>1. cfg.pairing \in Commands
    BY DEF IInv, Base, TypeOK, Configs
  <2> QED
    BY <2>1 DEF IInv, PairFile
<1> QED
  BY <1>1, SpecIInv, PTL

\* What a disconnect, a grant or another pairing ended is not accepted again, whatever saves
\* fail, overlap or are cut off, as long as its own save is not one of them.
THEOREM StaysRevoked == Spec => []RevokedStaysRevoked
<1>1. IInv => RevokedStaysRevoked
  BY DEF IInv, Final, RevokedStaysRevoked
<1> QED
  BY <1>1, SpecIInv, PTL

\* Nor is there a connection to it, but for a request the disconnect met.
THEOREM CutsOff == Spec => []RevokedIsCutOff
<1>1. IInv => RevokedIsCutOff
  BY DEF IInv, Base, TypeOK, Cut, RevokedIsCutOff
<1> QED
  BY <1>1, SpecIInv, PTL

\* A pair token is good for one session that lasts, unless requests contend for it.
THEOREM OneSession == Spec => OneSessionPerPairing
<1> DEFINE Step == \A c \in Commands : granted'[c] # granted[c] =>
                       c \in contended' \/ \A q \in granted[c] : ~Lasts(q)
<1>1. IInv /\ [Next]_vars => [Step]_vars
  <2> SUFFICES ASSUME IInv, Next PROVE Step
    OBVIOUS
  <2>1. ASSUME NEW o \in Ops, Save(o) PROVE Step
    BY <2>1 DEF Save, Marshal, Truncate, SaveSucceeds, SaveFails
  <2>2. ASSUME NEW c \in Commands, Command(c) PROVE Step
    BY <2>1, <2>2
       DEF Command, InitiatePair, CancelPair, SetPairing, DisconnectExtension, PairFileChanged,
           PairFileFails, PairWindowEnds, ChangeSetting
  <2>3. ASSUME NEW r \in Requests, Request(r) PROVE Step
    <3>1. CASE Grant(r)
      <4>1. /\ token[r] \in Commands /\ expected[r] = token[r] /\ place[r] = "granting"
            /\ \A c \in Commands \ {token[r]} : granted'[c] = granted[c]
            /\ contended \subseteq contended'
        BY <2>3, <3>1 DEF Grant, IInv, Base, TypeOK, Carries
      <4> QED
        BY <2>3, <4>1 DEF IInv, Spent
    <3> QED
      BY <2>1, <2>3, <3>1 DEF Request, PresentSession, PresentPairing, CheckPairing, Upgrade,
                              UpgradeFails, ConnectionEnds
  <2>4. CASE Restart
    BY <2>4 DEF Restart
  <2> QED
    BY <2>2, <2>3, <2>4 DEF Next
<1> QED
  BY <1>1, SpecIInv, PTL DEF Spec, OneSessionPerPairing
=============================================================================
