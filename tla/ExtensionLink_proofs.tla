------------------------ MODULE ExtensionLink_proofs ------------------------
(***************************************************************************)
(* For any number of connections and commands: the types of ExtensionLink, *)
(* that one connection at a time is read and current, and that daemon and  *)
(* extension agree on scope and gates once all is settled.                 *)
(***************************************************************************)
EXTENDS ExtensionLink, SequenceTheorems, TLAPS

-----------------------------------------------------------------------------
(* The inductive invariant *)

\* Connections that have not registered have nothing; those that were replaced are closed.
Structure ==
    /\ \A c \in Conns : place[c] = "idle" =>
         /\ wire[c] = <<>> /\ answers[c] = <<>> /\ copy[c] = Nothing
         /\ peer[c] = "none" /\ c \notin closed \union expiring
         /\ \A p \in pending : p.on # c
    /\ \A c \in Conns : place[c] = "gone" => c \in closed
    /\ \A c \in Conns : peer[c] = "none" => place[c] = "idle"
    /\ \A c \in Conns : peer[c] = "left" => wire[c] = <<>>
    /\ \A c \in Conns : place[c] = "granted" => copy[c] = Nothing
    /\ \A c \in Conns : conn = c => \A d \in Conns \ {c} : peer[d] \notin {"alive", "cut", "silent"}

\* Every snapshot anywhere was set.
Numbered ==
    /\ \A k \in Kinds : active[k] # None => active[k].id <= sent
    /\ \A k \in Kinds, c \in Conns : copy[c][k] # None => copy[c][k] <= sent
    /\ \A p \in pending : p.order.id <= sent
    /\ \A c \in Conns : \A i \in 1..Len(wire[c]) : wire[c][i].id <= sent
    /\ \A c \in Conns : \A i \in 1..Len(answers[c]) : answers[c][i].id <= sent

\* What the extension will be told of a kind: what is on its way, then what has still to be
\* written.
OfKind(q, k) == {i \in 1..Len(q) : q[i].kind = k}

Unwritten(c, k) ==
    {p.order : p \in {x \in pending : x.on = c /\ x.order.kind = k}}
    \union (IF copy[c][k] = None THEN {} ELSE {Message("set", k, copy[c][k])})

Todo(c, k) == {wire[c][i] : i \in OfKind(wire[c], k)} \union Unwritten(c, k)

\* Without disorder one write of a kind is to come at most.
OneUnwritten(c, k) == \A m, n \in Unwritten(c, k) : m = n

\* Nothing is active: nothing is held, or will be.
NoneHeld(k) ==
    active[k] = None =>
        /\ held[k] = None
        /\ \A c \in Conns : \A i \in OfKind(wire[c], k) : wire[c][i].do # "set"
        /\ conn # None =>
             /\ \A m \in Unwritten(conn, k) : m.do # "set"
             /\ \A i \in OfKind(answers[conn], k) : answers[conn][i].do # "applied"

\* Nothing is set after a restore of what is active, which is then gone; ...
RestoredLast(c, k) ==
    /\ \A i \in OfKind(answers[c], k) : answers[c][i] = Message("restored", k, active[k].id) =>
         /\ held[k] = None
         /\ \A j \in OfKind(answers[c], k) : i < j => answers[c][j].do # "applied"
         /\ \A m \in Todo(c, k) : m.do # "set"
    /\ \A i \in OfKind(wire[c], k) : wire[c][i] = Message("restore", k, active[k].id) =>
         /\ \A j \in OfKind(wire[c], k) : i < j => wire[c][j].do # "set"
         /\ \A m \in Unwritten(c, k) : m.do # "set"

\* A message about the active snapshot: it has its id, or restores whatever is active.
Names(m, k) ==
    \/ m.id = active[k].id
    \/ m.id = Blank /\ m.do \in {"restore", "restored", "failed"}

\* ... nothing else is told after what is active was set, ...
SetLast(c, k) ==
    \A i \in OfKind(wire[c], k) : wire[c][i] = Message("set", k, active[k].id) =>
        /\ \A j \in OfKind(wire[c], k) : i < j => Names(wire[c][j], k)
        /\ \A m \in Unwritten(c, k) : Names(m, k)

\* ... and before it could be republished, nothing but the set of what is active is still to
\* be written, unless it is marked as being restored.
MarkedBefore(c, k) ==
    place[c] = "granted" =>
        /\ \A i \in OfKind(answers[c], k) :
             answers[c][i] = Message("restored", k, active[k].id) => active[k].status = "restoring"
        /\ \A m \in Todo(c, k) :
             m = Message("restore", k, active[k].id) => active[k].status = "restoring"
        /\ active[k].status # "restoring" =>
             \A m \in Unwritten(c, k) : m = Message("set", k, active[k].id)

\* Once every answer is read the daemon will take what is active for applied.
Says(c, k, i) ==
    /\ IF i = 0 THEN place[c] = "serving" /\ active[k].status = "applied"
                ELSE answers[c][i] = Message("applied", k, active[k].id)
    /\ \A j \in OfKind(answers[c], k) :
         i < j /\ Names(answers[c][j], k) => answers[c][j].do = "applied"

\* It is, then, and stays so, unless more is to come about it.
Kept(c, k) ==
    /\ c \notin closed /\ peer[c] = "alive"
    /\ \E i \in 0..Len(answers[c]) : Says(c, k, i)
    /\ \A m \in Todo(c, k) : ~Names(m, k)
    => held[k] = active[k].id /\ Todo(c, k) = {}

\* All this, for one connection and one kind.
Consistent(c, k) ==
    /\ OneUnwritten(c, k)
    /\ active[k] # None => /\ RestoredLast(c, k) /\ SetLast(c, k)
                           /\ MarkedBefore(c, k) /\ Kept(c, k)

Ordered ==
    /\ \A k \in Kinds : NoneHeld(k)
    /\ \A c \in Conns : conn = c => \A k \in Kinds : Consistent(c, k)

IInv == TypeOK /\ OneConnection /\ Structure /\ Numbered /\ (~disordered => Ordered)

-----------------------------------------------------------------------------
(* Messages *)

\* What the daemon writes is an order.
LEMMA OrderType ==
    ASSUME NEW k \in Kinds, NEW id \in Ids, NEW do \in {"set", "restore"}
    PROVE  Message(do, k, id) \in Orders
BY DEF Message, Orders

\* Writing one order, or losing it, keeps the types of what is on its way.
LEMMA WritesType ==
    ASSUME TypeOK, NEW c \in Conns, NEW m \in Orders, Writes(c, m)
    PROVE  /\ wire' \in [Conns -> Seq(Orders)]
           /\ peer' \in [Conns -> {"none", "alive", "cut", "silent", "left"}]
<1>1. Append(wire[c], m) \in Seq(Orders)
  BY DEF TypeOK
<1>2. wire' = wire \/ wire' = [wire EXCEPT ![c] = Append(wire[c], m)]
  BY DEF Writes
<1>3. peer' = peer \/ peer' = [peer EXCEPT ![c] = "cut"]
  BY DEF Writes
<1> QED
  BY <1>1, <1>2, <1>3 DEF TypeOK

\* An answer of the extension keeps the types of what is on its way back.
LEMMA AnswerType ==
    ASSUME TypeOK, NEW c \in Conns, NEW m \in Orders, NEW now \in Ids \union {None},
           NEW result \in {"applied", "restored", "failed"}, Answer(c, m, result, now)
    PROVE  /\ answers' \in [Conns -> Seq(Answers)]
           /\ held' \in [Kinds -> Ids \union {None}]
<1>1. Message(result, m.kind, m.id) \in Answers /\ m.kind \in Kinds
  BY DEF Message, Orders, Answers
<1>2. Append(answers[c], Message(result, m.kind, m.id)) \in Seq(Answers)
  BY <1>1 DEF TypeOK
<1> QED
  BY <1>1, <1>2 DEF Answer, TypeOK

\* What an answer makes of the active scope or gates.
LEMMA ActiveType ==
    ASSUME TypeOK, NEW k \in Kinds, NEW id \in Ids
    PROVE  {Applied(k, id), Restored(k, id), Failed(k, id)} \subseteq Active \union {None}
<1>1. active[k] \in Active \union {None}
  BY DEF TypeOK
<1> QED
  BY <1>1 DEF Applied, Restored, Failed, Matches, Marked, Active

-----------------------------------------------------------------------------
(* Types *)

\* The goroutine of a connection keeps the types.
LEMMA ServeTypeOK ==
    ASSUME TypeOK, NEW c \in Conns, Register(c) \/ Serve(c) \/ MarkPing(c) \/ PongFails(c)
    PROVE  TypeOK'
<1> USE DEF linkVars, controlVars
<1>1. CASE Register(c)
  <2>1. /\ place' \in [Conns -> {"idle", "gone"} \union Busy]
        /\ wire' \in [Conns -> Seq(Orders)]
    BY <1>1, EmptySeq DEF Register, Goes, Busy, TypeOK
  <2>2. peer' \in [Conns -> {"none", "alive", "cut", "silent", "left"}]
    BY <1>1 DEF Register, TypeOK
  <2>3. closed' \subseteq Conns /\ conn' \in Conns \union {None} /\ quiet' \in BOOLEAN
    BY <1>1 DEF Register, ClosesPrevious, TypeOK
  <2> QED
    BY <1>1, <2>1, <2>2, <2>3 DEF Register, TypeOK
<1>2. CASE CopyActive(c)
  <2>1. place' \in [Conns -> {"idle", "gone"} \union Busy]
    BY <1>2 DEF CopyActive, Goes, Busy, TypeOK
  <2>2. [k \in Kinds |-> IF Republished(k) THEN active[k].id ELSE None]
            \in [Kinds -> Ids \union {None}]
    BY DEF Republished, Active, TypeOK
  <2>3. copy' \in [Conns -> [Kinds -> Ids \union {None}]]
    BY <1>2, <2>2 DEF CopyActive, TypeOK
  <2>4. disordered' \in BOOLEAN
    BY <1>2 DEF CopyActive, TypeOK
  <2> QED
    BY <1>2, <2>1, <2>3, <2>4 DEF CopyActive, TypeOK
<1>3. ASSUME NEW k \in Kinds, Republish(c, k) PROVE TypeOK'
  <2>1. copy[c][k] \in Ids
    BY <1>3 DEF Republish, TypeOK
  <2>2. /\ wire' \in [Conns -> Seq(Orders)]
        /\ peer' \in [Conns -> {"none", "alive", "cut", "silent", "left"}]
    <3>1. Message("set", k, copy[c][k]) \in Orders
      BY <2>1, OrderType
    <3> QED
      BY <1>3, <3>1, WritesType DEF Republish
  <2>3. copy' \in [Conns -> [Kinds -> Ids \union {None}]]
    BY <1>3 DEF Republish, TypeOK
  <2> QED
    BY <1>3, <2>2, <2>3 DEF Republish, TypeOK
<1>4. CASE ReadAnswer(c)
  <2> DEFINE m == Head(answers[c])
  <2>1. answers[c] \in Seq(Answers) /\ answers[c] # <<>>
    BY <1>4 DEF ReadAnswer, TypeOK
  <2>2. m \in Answers /\ Tail(answers[c]) \in Seq(Answers)
    BY <2>1, HeadTailProperties
  <2>3. m.kind \in Kinds /\ m.id \in Ids
    BY <2>2 DEF Answers
  <2>4. active' \in [Kinds -> Active \union {None}]
    <3>1. \A x \in Active \union {None} :
              [active EXCEPT ![m.kind] = x] \in [Kinds -> Active \union {None}]
      BY <2>3 DEF TypeOK
    <3>2. \E x \in {Applied(m.kind, m.id), Restored(m.kind, m.id), Failed(m.kind, m.id)} :
              active' = [active EXCEPT ![m.kind] = x]
      <4>1. CASE m.do = "applied"
        BY <1>4, <4>1 DEF ReadAnswer
      <4>2. CASE m.do = "restored"
        BY <1>4, <4>2 DEF ReadAnswer
      <4>3. CASE m.do \notin {"applied", "restored"}
        BY <1>4, <4>3 DEF ReadAnswer
      <4> QED
        BY <4>1, <4>2, <4>3
    <3> HIDE DEF m
    <3> QED
      BY <2>3, <3>1, <3>2, ActiveType
  <2>5. answers' \in [Conns -> Seq(Answers)]
    BY <1>4, <2>2 DEF ReadAnswer, TypeOK
  <2>6. disordered' \in BOOLEAN
    BY <1>4 DEF ReadAnswer, TypeOK
  <2> QED
    BY <1>4, <2>4, <2>5, <2>6 DEF ReadAnswer, TypeOK
<1>5. CASE EndsReading(c)
  <2>1. place' \in [Conns -> {"idle", "gone"} \union Busy]
    BY <1>5 DEF EndsReading, TypeOK
  <2>2. answers' \in [Conns -> Seq(Answers)]
    BY <1>5, EmptySeq DEF EndsReading, TypeOK
  <2>3. /\ conn' \in Conns \union {None} /\ quiet' \in BOOLEAN
        /\ closed' \subseteq Conns /\ expiring' \subseteq Conns
    BY <1>5 DEF EndsReading, ConnWithout, TypeOK
  <2> QED
    BY <1>5, <2>1, <2>2, <2>3 DEF EndsReading, TypeOK
<1>6. CASE FindStale(c) \/ CloseStale(c) \/ MarkPing(c)
  BY <1>6 DEF FindStale, CloseStale, MarkPing, TypeOK
<1> QED
  BY <1>1, <1>2, <1>3, <1>4, <1>5, <1>6 DEF Serve, ReadFails, PongFails

\* A command of the brain keeps the types.
LEMMA CommandTypeOK ==
    ASSUME TypeOK, NEW k \in Kinds, Set(k) \/ \E id \in Ids : Restore(k, id)
    PROVE  TypeOK'
<1> USE DEF linkVars
<1>1. ASSUME NEW order \in Orders, Begin(order), active' \in [Kinds -> Active \union {None}]
      PROVE  TypeOK'
  <2>1. conn \in Conns
    BY <1>1 DEF Begin, TypeOK
  <2>2. sent' \in 0..MaxCommands
    BY <1>1, LinkAssumption DEF Begin, TypeOK
  <2>3. [on |-> conn, order |-> order] \in [on : Conns, order : Orders]
    BY <1>1, <2>1
  <2>4. disordered' \in BOOLEAN
    BY <1>1 DEF Begin, TypeOK
  <2> QED
    BY <1>1, <2>2, <2>3, <2>4 DEF Begin, TypeOK
<1>2. CASE Set(k)
  <2>1. sent + 1 \in Ids
    BY <1>2, LinkAssumption DEF Set, Begin, Ids, Commands, TypeOK
  <2>2. Message("set", k, sent + 1) \in Orders
    BY <2>1, OrderType
  <2>3. [id |-> sent + 1, status |-> StartsAs[k]] \in Active
    BY <2>1 DEF Active, StartsAs
  <2>4. active' \in [Kinds -> Active \union {None}]
    BY <1>2, <2>3 DEF Set, TypeOK
  <2> QED
    BY <1>1, <1>2, <2>2, <2>4 DEF Set
<1>3. ASSUME NEW id \in Ids, Restore(k, id) PROVE TypeOK'
  <2>1. Message("restore", k, id) \in Orders
    BY OrderType
  <2>2. active' \in [Kinds -> Active \union {None}]
    <3>1. CASE active[k] = None
      BY <1>3, <3>1 DEF Restore, TypeOK
    <3>2. CASE active[k] # None
      <4>1. active[k] \in Active
        BY <3>2 DEF TypeOK
      <4>2. [active[k] EXCEPT !.status = "restoring"] \in Active
        BY <4>1 DEF Active
      <4>3. active' = [active EXCEPT ![k] = [active[k] EXCEPT !.status = "restoring"]]
        BY <1>3, <3>2 DEF Restore
      <4> QED
        BY <4>2, <4>3 DEF TypeOK
    <3> QED
      BY <3>1, <3>2
  <2> QED
    BY <1>1, <1>3, <2>1, <2>2 DEF Restore
<1> QED
  BY <1>2, <1>3

\* The extension keeps the types.
LEMMA ExtensionTypeOK ==
    ASSUME TypeOK, NEW c \in Conns, ExtensionActs(c) \/ ExtensionStops(c)
    PROVE  TypeOK'
<1> USE DEF linkVars
<1>1. CASE ExtensionActs(c)
  <2> DEFINE m == Head(wire[c])
  <2>1. m \in Orders /\ Tail(wire[c]) \in Seq(Orders)
    BY <1>1, HeadTailProperties DEF ExtensionActs, TypeOK
  <2>2. m.id \in Ids /\ m.kind \in Kinds /\ held[m.kind] \in Ids \union {None}
    BY <2>1 DEF Orders, TypeOK
  <2>3. \/ Answer(c, m, "applied", m.id)
        \/ Answer(c, m, "restored", None)
        \/ Answer(c, m, "failed", held[m.kind])
    BY <1>1 DEF ExtensionActs
  <2>4. /\ answers' \in [Conns -> Seq(Answers)]
        /\ held' \in [Kinds -> Ids \union {None}]
    <3> HIDE DEF m
    <3> QED
      BY <2>1, <2>2, <2>3, AnswerType
  <2>5. wire' \in [Conns -> Seq(Orders)]
    BY <1>1, <2>1 DEF ExtensionActs, TypeOK
  <2> QED
    BY <1>1, <2>4, <2>5 DEF ExtensionActs, TypeOK
<1>2. CASE ExtensionStops(c)
  <2>1. peer' \in [Conns -> {"none", "alive", "cut", "silent", "left"}]
    BY <1>2 DEF ExtensionStops, TypeOK
  <2>2. held' \in [Kinds -> Ids \union {None}]
    BY <1>2 DEF ExtensionStops, Nothing, TypeOK
  <2>3. wire' \in [Conns -> Seq(Orders)]
    BY <1>2, EmptySeq DEF ExtensionStops, TypeOK
  <2> QED
    BY <1>2, <2>1, <2>2, <2>3 DEF ExtensionStops, TypeOK
<1> QED
  BY <1>1, <1>2

\* Every step keeps the types.
LEMMA StepTypeOK == TypeOK /\ [Next]_vars => TypeOK'
<1> SUFFICES ASSUME TypeOK, [Next]_vars PROVE TypeOK'
  OBVIOUS
<1> USE DEF linkVars, controlVars
<1>1. ASSUME NEW p \in pending, Write(p) PROVE TypeOK'
  <2>1. p.on \in Conns /\ p.order \in Orders
    BY DEF TypeOK
  <2>2. /\ wire' \in [Conns -> Seq(Orders)]
        /\ peer' \in [Conns -> {"none", "alive", "cut", "silent", "left"}]
    BY <1>1, <2>1, WritesType DEF Write
  <2> QED
    BY <1>1, <2>2 DEF Write, TypeOK
<1>2. CASE TimePasses \/ Disconnect
  BY <1>2 DEF TimePasses, Disconnect, TypeOK
<1>3. CASE UNCHANGED vars
  BY <1>3 DEF vars, TypeOK
<1> QED
  BY <1>1, <1>2, <1>3, ServeTypeOK, CommandTypeOK, ExtensionTypeOK DEF Next

-----------------------------------------------------------------------------
(* One connection *)

\* Whatever replaces or ends the current connection closes it, and only its own end
\* takes it from the current place.
LEMMA StepOneConnection == TypeOK /\ OneConnection /\ [Next]_vars => OneConnection'
<1> SUFFICES ASSUME TypeOK, OneConnection, [Next]_vars PROVE OneConnection'
  OBVIOUS
<1> USE DEF linkVars, controlVars
<1>1. ASSUME NEW c \in Conns, Register(c) PROVE OneConnection'
  BY <1>1, LinkAssumption DEF Register, Goes, ClosesPrevious, Busy, OneConnection, TypeOK
<1>2. ASSUME NEW c \in Conns, CopyActive(c) PROVE OneConnection'
  BY <1>2 DEF CopyActive, Goes, Busy, OneConnection, TypeOK
<1>3. ASSUME NEW c \in Conns, EndsReading(c) PROVE OneConnection'
  BY <1>3, LinkAssumption DEF EndsReading, ConnWithout, Busy, OneConnection, TypeOK
<1>4. ASSUME NEW c \in Conns, FindStale(c) \/ CloseStale(c) PROVE OneConnection'
  BY <1>4 DEF FindStale, CloseStale, OneConnection
<1>5. CASE Disconnect
  BY <1>5, LinkAssumption DEF Disconnect, OneConnection
<1>6. CASE UNCHANGED <<conn, place, closed>>
  BY <1>6 DEF OneConnection
<1> QED
  BY <1>1, <1>2, <1>3, <1>4, <1>5, <1>6
     DEF Next, Serve, ReadFails, PongFails, Republish, ReadAnswer, MarkPing, ExtensionActs,
         ExtensionStops, Set, Restore, Begin, Write, TimePasses, vars

-----------------------------------------------------------------------------
(* Sequences *)

\* What a longer queue holds.
LEMMA Appended ==
    ASSUME NEW S, NEW q \in Seq(S), NEW m \in S
    PROVE  /\ Append(q, m) \in Seq(S)
           /\ Len(q) \in Nat
           /\ Len(Append(q, m)) = Len(q) + 1
           /\ \A i \in 1..Len(q) : Append(q, m)[i] = q[i]
           /\ Append(q, m)[Len(q) + 1] = m
OBVIOUS

\* What is left of a queue without its head.
LEMMA Shortened ==
    ASSUME NEW S, NEW q \in Seq(S), q # <<>>
    PROVE  /\ Len(q) \in Nat \ {0}
           /\ Head(q) = q[1] /\ q[1] \in S
           /\ Tail(q) \in Seq(S)
           /\ Len(Tail(q)) = Len(q) - 1
           /\ \A i \in 1..Len(Tail(q)) : Tail(q)[i] = q[i + 1]
BY HeadTailProperties, EmptySeq, ElementOfSeq

\* What is on its way is an order or an answer.
LEMMA Queued ==
    ASSUME TypeOK, NEW c \in Conns
    PROVE  /\ wire[c] \in Seq(Orders) /\ Len(wire[c]) \in Nat
           /\ answers[c] \in Seq(Answers) /\ Len(answers[c]) \in Nat
           /\ \A i \in 1..Len(wire[c]) : wire[c][i] \in Orders
           /\ \A i \in 1..Len(answers[c]) : answers[c][i] \in Answers
<1>1. wire[c] \in Seq(Orders) /\ answers[c] \in Seq(Answers)
  BY DEF TypeOK
<1> QED
  BY <1>1, ElementOfSeq, LenProperties

-----------------------------------------------------------------------------
(* The structure of connections *)

\* A write reaches only a connection whose extension's end is there to read it, and cuts no
\* other.
LEMMA WritesWhere ==
    ASSUME TypeOK, NEW c \in Conns, NEW m, Writes(c, m)
    PROVE  \A d \in Conns :
              /\ d # c \/ peer[d] # "alive" => wire'[d] = wire[d] /\ peer'[d] = peer[d]
              /\ peer'[d] # peer[d] => peer[d] = "alive" /\ peer'[d] = "cut"
BY DEF Writes, TypeOK

\* A connection that has not registered has nothing, one that is replaced loses its end.
LEMMA StepStructure ==
    TypeOK /\ OneConnection /\ Structure /\ [Next]_vars => Structure'
<1> SUFFICES ASSUME TypeOK, OneConnection, Structure, [Next]_vars PROVE Structure'
  OBVIOUS
<1> USE DEF linkVars, controlVars
<1>1. ASSUME NEW c \in Conns, Register(c) PROVE Structure'
  BY <1>1, LinkAssumption DEF Register, Goes, ClosesPrevious, Busy, OneConnection, Structure, TypeOK
<1>2. ASSUME NEW c \in Conns, CopyActive(c) PROVE Structure'
  BY <1>2, LinkAssumption DEF CopyActive, Goes, Structure, TypeOK
<1>3. ASSUME NEW c \in Conns, NEW k \in Kinds, Republish(c, k) PROVE Structure'
  <2>1. place[c] \notin {"idle", "granted"}
    BY <1>3, LinkAssumption DEF Republish, Nothing, Structure
  <2>2. \A d \in Conns : d # c => copy'[d] = copy[d] /\ wire'[d] = wire[d]
    BY <1>3, WritesWhere DEF Republish, TypeOK
  <2>3. \A d \in Conns : /\ peer[d] # "alive" => wire'[d] = wire[d] /\ peer'[d] = peer[d]
                         /\ peer'[d] # peer[d] => peer[d] = "alive" /\ peer'[d] = "cut"
    BY <1>3, WritesWhere DEF Republish
  <2> QED
    BY <1>3, <2>1, <2>2, <2>3 DEF Republish, Structure, TypeOK
<1>4. ASSUME NEW c \in Conns, EndsReading(c) PROVE Structure'
  BY <1>4, LinkAssumption DEF EndsReading, Reads, ConnWithout, Structure, TypeOK
<1>5. ASSUME NEW c \in Conns, ReadAnswer(c) PROVE Structure'
  BY <1>5, LinkAssumption DEF ReadAnswer, Reads, Structure, TypeOK
<1>6. ASSUME NEW c \in Conns, FindStale(c) \/ CloseStale(c) \/ MarkPing(c) PROVE Structure'
  BY <1>6, LinkAssumption DEF FindStale, CloseStale, MarkPing, Reads, Structure, TypeOK
<1>7. ASSUME NEW c \in Conns, ExtensionActs(c) PROVE Structure'
  <2>1. place[c] # "idle" /\ peer[c] \in {"alive", "cut"}
    BY <1>7 DEF ExtensionActs, Structure
  <2>2. /\ \A d \in Conns : d # c => wire'[d] = wire[d] /\ answers'[d] = answers[d]
        /\ UNCHANGED <<conn, place, closed, peer, expiring, copy, pending>>
    BY <1>7 DEF ExtensionActs, Answer, TypeOK
  <2> QED
    BY <2>1, <2>2 DEF Structure
<1>8. ASSUME NEW c \in Conns, ExtensionStops(c) PROVE Structure'
  BY <1>8 DEF ExtensionStops, Structure, TypeOK
<1>9. ASSUME NEW order \in Orders, Begin(order) PROVE Structure'
  <2>1. conn \in Conns /\ place[conn] # "idle"
    BY <1>9 DEF Begin, OneConnection, Busy, TypeOK
  <2> QED
    BY <1>9, <2>1, LinkAssumption DEF Begin, Structure, TypeOK
<1>10. ASSUME NEW p \in pending, Write(p) PROVE Structure'
  <2>1. p.on \in Conns /\ place[p.on] # "idle"
    BY DEF Structure, TypeOK
  <2>2. \A d \in Conns :
            /\ d # p.on \/ peer[d] # "alive" => wire'[d] = wire[d] /\ peer'[d] = peer[d]
            /\ peer'[d] # peer[d] => peer[d] = "alive" /\ peer'[d] = "cut"
    BY <1>10, <2>1, WritesWhere DEF Write
  <2> QED
    BY <1>10, <2>1, <2>2 DEF Write, Structure, TypeOK
<1>11. CASE Disconnect
  <2>1. conn \in Conns /\ place[conn] # "idle"
    BY <1>11 DEF Disconnect, OneConnection, Busy, TypeOK
  <2> QED
    BY <1>11, <2>1, LinkAssumption DEF Disconnect, Structure, TypeOK
<1>12. CASE TimePasses \/ UNCHANGED vars
  BY <1>12 DEF TimePasses, vars, Structure
<1>13. ASSUME NEW k \in Kinds, Set(k) \/ \E id \in Ids : Restore(k, id)
       PROVE  \E order \in Orders : Begin(order)
  <2>1. CASE Set(k)
    <3>1. sent + 1 \in Ids
      BY <2>1, LinkAssumption DEF Set, Begin, Ids, Commands, TypeOK
    <3> QED
      BY <2>1, <3>1, OrderType DEF Set
  <2> QED
    BY <1>13, <2>1, OrderType DEF Restore
<1> QED
  BY <1>1, <1>2, <1>3, <1>4, <1>5, <1>6, <1>7, <1>8, <1>9, <1>10, <1>11, <1>12, <1>13
     DEF Next, Serve, ReadFails, PongFails

-----------------------------------------------------------------------------
(* Snapshot ids *)

\* What is written was to be written.
LEMMA WritesNumbered ==
    ASSUME TypeOK, Numbered, NEW c \in Conns, NEW m \in Orders, Writes(c, m), m.id <= sent
    PROVE  \A d \in Conns : \A i \in 1..Len(wire'[d]) : wire'[d][i].id <= sent
<1>1. CASE wire' = wire
  BY <1>1 DEF Numbered
<1>2. CASE wire' = [wire EXCEPT ![c] = Append(wire[c], m)]
  <2>1. wire[c] \in Seq(Orders)
    BY DEF TypeOK
  <2>2. wire'[c] = Append(wire[c], m) /\ \A d \in Conns : d # c => wire'[d] = wire[d]
    BY <1>2 DEF TypeOK
  <2>3. \A i \in 1..Len(wire'[c]) : wire'[c][i].id <= sent
    <3>1. \A i \in 1..Len(wire[c]) : wire[c][i].id <= sent
      BY DEF Numbered
    <3> QED
      BY <2>1, <2>2, <3>1, Appended
  <2> QED
    BY <2>2, <2>3 DEF Numbered
<1> QED
  BY <1>1, <1>2 DEF Writes

\* The head of a queue and what is left of it are numbered as it was.
LEMMA Leaves ==
    ASSUME NEW S, NEW q \in Seq(S), q # <<>>, \A i \in 1..Len(q) : q[i].id <= sent
    PROVE  /\ Head(q).id <= sent
           /\ \A i \in 1..Len(Tail(q)) : Tail(q)[i].id <= sent
<1>1. 1 \in 1..Len(q) /\ \A i \in 1..Len(Tail(q)) : i + 1 \in 1..Len(q)
  BY Shortened
<1> QED
  BY <1>1, Shortened

\* No snapshot appears anywhere that was not set.
LEMMA StepNumbered == TypeOK /\ Numbered /\ [Next]_vars => Numbered'
<1> SUFFICES ASSUME TypeOK, Numbered, [Next]_vars PROVE Numbered'
  OBVIOUS
<1> USE DEF linkVars, controlVars
<1>1. ASSUME NEW c \in Conns, Register(c) PROVE Numbered'
  BY <1>1, EmptySeq DEF Register, Numbered
<1>2. ASSUME NEW c \in Conns, CopyActive(c) PROVE Numbered'
  <2>1. \A k \in Kinds, d \in Conns : copy'[d][k] # None => copy'[d][k] <= sent
    BY <1>2 DEF CopyActive, Republished, Numbered, TypeOK
  <2> QED
    BY <1>2, <2>1 DEF CopyActive, Numbered
<1>3. ASSUME NEW c \in Conns, NEW k \in Kinds, Republish(c, k) PROVE Numbered'
  <2>1. copy[c][k] \in Ids /\ copy[c][k] <= sent
    BY <1>3 DEF Republish, Numbered, TypeOK
  <2>2. /\ Message("set", k, copy[c][k]) \in Orders
        /\ Message("set", k, copy[c][k]).id <= sent
    BY <2>1, OrderType DEF Message
  <2>3. \A d \in Conns : \A i \in 1..Len(wire'[d]) : wire'[d][i].id <= sent
    BY <1>3, <2>2, WritesNumbered DEF Republish
  <2>4. \A j \in Kinds, d \in Conns : copy'[d][j] # None => copy'[d][j] <= sent
    BY <1>3 DEF Republish, Numbered, TypeOK
  <2> QED
    BY <1>3, <2>3, <2>4 DEF Republish, Numbered
<1>4. ASSUME NEW c \in Conns, EndsReading(c) PROVE Numbered'
  <2>1. \A d \in Conns : answers'[d] = <<>> \/ answers'[d] = answers[d]
    BY <1>4 DEF EndsReading, TypeOK
  <2>2. \A d \in Conns : \A i \in 1..Len(answers'[d]) : answers'[d][i].id <= sent
    BY <2>1, EmptySeq DEF Numbered
  <2> QED
    BY <1>4, <2>2 DEF EndsReading, Numbered
<1>5. ASSUME NEW c \in Conns, ReadAnswer(c) PROVE Numbered'
  <2> DEFINE m == Head(answers[c])
  <2>1. answers[c] \in Seq(Answers) /\ answers[c] # <<>>
    BY <1>5 DEF ReadAnswer, TypeOK
  <2>2. /\ m.id <= sent
        /\ \A i \in 1..Len(Tail(answers[c])) : Tail(answers[c])[i].id <= sent
    BY <2>1, Leaves DEF Numbered
  <2>3. m \in Answers
    BY <2>1, Shortened
  <2>4. \A d \in Conns : \A i \in 1..Len(answers'[d]) : answers'[d][i].id <= sent
    BY <1>5, <2>2 DEF ReadAnswer, Numbered, TypeOK
  <2>5. \A k \in Kinds : active'[k] # None => active'[k].id <= sent
    <3>1. m.kind \in Kinds /\ \A k \in Kinds : k # m.kind => active'[k] = active[k]
      BY <1>5, <2>3 DEF ReadAnswer, Answers, TypeOK
    <3>2. active'[m.kind] \in {Applied(m.kind, m.id), Restored(m.kind, m.id), Failed(m.kind, m.id)}
      BY <1>5, <3>1 DEF ReadAnswer, TypeOK
    <3>3. active'[m.kind] # None => active'[m.kind].id <= sent
      <4> HIDE DEF m
      <4> QED
        BY <2>2, <3>1, <3>2 DEF Applied, Restored, Failed, Marked, Numbered
    <3> QED
      BY <3>1, <3>3 DEF Numbered
  <2> QED
    BY <1>5, <2>4, <2>5 DEF ReadAnswer, Numbered
<1>6. ASSUME NEW c \in Conns, ExtensionActs(c) PROVE Numbered'
  <2> DEFINE m == Head(wire[c])
  <2>1. wire[c] \in Seq(Orders) /\ wire[c] # <<>>
    BY <1>6 DEF ExtensionActs, TypeOK
  <2>2. /\ m.id <= sent
        /\ \A i \in 1..Len(Tail(wire[c])) : Tail(wire[c])[i].id <= sent
    BY <2>1, Leaves DEF Numbered
  <2>3. \A d \in Conns : \A i \in 1..Len(wire'[d]) : wire'[d][i].id <= sent
    BY <1>6, <2>2 DEF ExtensionActs, Numbered, TypeOK
  <2>4. \A d \in Conns : \A i \in 1..Len(answers'[d]) : answers'[d][i].id <= sent
    <3>1. m \in Orders
      BY <2>1, Shortened
    <3>2. PICK result \in {"applied", "restored", "failed"} :
              answers' = IF c \in closed THEN answers
                         ELSE [answers EXCEPT ![c] = Append(@, Message(result, m.kind, m.id))]
      BY <1>6 DEF ExtensionActs, Answer
    <3> DEFINE a == Message(result, m.kind, m.id)
    <3>3. a \in Answers /\ a.id <= sent
      <4> HIDE DEF m
      <4> QED
        BY <2>2, <3>1 DEF Message, Orders, Answers
    <3>4. answers[c] \in Seq(Answers) /\ \A i \in 1..Len(answers[c]) : answers[c][i].id <= sent
      BY DEF Numbered, TypeOK
    <3>5. \A i \in 1..Len(Append(answers[c], a)) : Append(answers[c], a)[i].id <= sent
      <4> HIDE DEF a
      <4> QED
        BY <3>3, <3>4, Appended
    <3> QED
      BY <3>2, <3>5 DEF Numbered, TypeOK
  <2> QED
    BY <1>6, <2>3, <2>4 DEF ExtensionActs, Numbered
<1>7. ASSUME NEW c \in Conns, ExtensionStops(c) PROVE Numbered'
  BY <1>7, EmptySeq DEF ExtensionStops, Numbered, TypeOK
<1>8. ASSUME NEW k \in Kinds, Set(k) PROVE Numbered'
  <2>1. sent \in Nat /\ sent' = sent + 1
    BY <1>8, LinkAssumption DEF Set, Begin, TypeOK
  <2>2. \A x \in Ids : x \in Nat
    BY LinkAssumption DEF Ids, Commands, Blank
  <2>3. \A j \in Kinds : active'[j] # None => active'[j].id <= sent'
    BY <1>8, <2>1, <2>2 DEF Set, Active, Numbered, TypeOK
  <2>4. \A x \in Ids : x <= sent => x <= sent'
    BY <2>1, <2>2
  <2>5. \A d \in Conns, j \in Kinds : copy[d][j] # None => copy[d][j] <= sent'
    BY <2>4 DEF Numbered, TypeOK
  <2>6. \A p \in pending' : p.order.id <= sent'
    BY <1>8, <2>1, <2>2, <2>4 DEF Set, Begin, Message, Orders, Numbered, TypeOK
  <2>7. \A d \in Conns : \A i \in 1..Len(wire[d]) : wire[d][i].id <= sent'
    BY <2>4, Queued DEF Orders, Numbered
  <2>8. \A d \in Conns : \A i \in 1..Len(answers[d]) : answers[d][i].id <= sent'
    BY <2>4, Queued DEF Answers, Numbered
  <2> QED
    BY <1>8, <2>3, <2>5, <2>6, <2>7, <2>8 DEF Set, Begin, Numbered
<1>9. ASSUME NEW k \in Kinds, NEW id \in Ids, Restore(k, id) PROVE Numbered'
  <2>1. sent \in Nat /\ sent' = sent + 1
    BY <1>9, LinkAssumption DEF Restore, Begin, TypeOK
  <2>2. \A x \in Ids : x \in Nat
    BY LinkAssumption DEF Ids, Commands, Blank
  <2>3. \A j \in Kinds : active'[j] # None => active'[j].id <= sent'
    BY <1>9, <2>1, <2>2 DEF Restore, Active, Numbered, TypeOK
  <2>4. \A x \in Ids : x <= sent => x <= sent'
    BY <2>1, <2>2
  <2>5. \A d \in Conns, j \in Kinds : copy[d][j] # None => copy[d][j] <= sent'
    BY <2>4 DEF Numbered, TypeOK
  <2>6. \A p \in pending' : p.order.id <= sent'
    BY <1>9, <2>1, <2>2, <2>4 DEF Restore, Begin, Message, Orders, Numbered, TypeOK
  <2>7. \A d \in Conns : \A i \in 1..Len(wire[d]) : wire[d][i].id <= sent'
    BY <2>4, Queued DEF Orders, Numbered
  <2>8. \A d \in Conns : \A i \in 1..Len(answers[d]) : answers[d][i].id <= sent'
    BY <2>4, Queued DEF Answers, Numbered
  <2> QED
    BY <1>9, <2>3, <2>5, <2>6, <2>7, <2>8 DEF Restore, Begin, Numbered
<1>10. ASSUME NEW p \in pending, Write(p) PROVE Numbered'
  <2>1. p.on \in Conns /\ p.order \in Orders /\ p.order.id <= sent
    BY DEF Numbered, TypeOK
  <2>2. \A d \in Conns : \A i \in 1..Len(wire'[d]) : wire'[d][i].id <= sent
    BY <1>10, <2>1, WritesNumbered DEF Write
  <2> QED
    BY <1>10, <2>2 DEF Write, Numbered
<1>11. CASE UNCHANGED controlVars
  BY <1>11 DEF Numbered
<1> QED
  BY <1>1, <1>2, <1>3, <1>4, <1>5, <1>6, <1>7, <1>8, <1>9, <1>10, <1>11
     DEF Next, Serve, ReadFails, PongFails, FindStale, CloseStale, MarkPing, TimePasses,
         Disconnect, vars

-----------------------------------------------------------------------------
(* Agreement, one action at a time *)

\* What has still to be written is the same if the copy and the commands that wait are.
LEMMA SameUnwritten ==
    ASSUME NEW c \in Conns, NEW k \in Kinds, copy'[c][k] = copy[c][k],
           \A p : p.on = c /\ p.order.kind = k => (p \in pending <=> p \in pending')
    PROVE  Unwritten(c, k)' = Unwritten(c, k)
BY DEF Unwritten

\* What a step leaves alone stays consistent.
LEMMA SameConsistent ==
    ASSUME NEW c \in Conns, NEW k \in Kinds, Consistent(c, k),
           Unwritten(c, k)' = Unwritten(c, k), wire'[c] = wire[c], answers'[c] = answers[c],
           active'[k] = active[k], held'[k] = held[k], place'[c] = place[c],
           c \notin closed' => c \notin closed, peer'[c] = "alive" => peer[c] = "alive"
    PROVE  Consistent(c, k)'
<1>1. Todo(c, k)' = Todo(c, k)
  BY DEF Todo, OfKind
<1>2. OneUnwritten(c, k)'
  BY DEF OneUnwritten, Consistent
<1>3. SUFFICES ASSUME active[k] # None
               PROVE  (RestoredLast(c, k) /\ SetLast(c, k) /\ MarkedBefore(c, k) /\ Kept(c, k))'
  BY <1>2 DEF Consistent
<1>4. RestoredLast(c, k)'
  BY <1>1, <1>3 DEF RestoredLast, OfKind, Consistent
<1>5. SetLast(c, k)'
  BY <1>1, <1>3 DEF SetLast, Names, OfKind, Consistent
<1>6. MarkedBefore(c, k)'
  BY <1>1, <1>3 DEF MarkedBefore, OfKind, Consistent
<1>7. Kept(c, k)'
  BY <1>1, <1>3 DEF Kept, Says, Names, OfKind, Consistent
<1> QED
  BY <1>4, <1>5, <1>6, <1>7

\* A new connection has nothing on its way, whatever is active.
LEMMA RegisterOrdered ==
    ASSUME TypeOK, Structure, Ordered, NEW c \in Conns, Register(c)
    PROVE  Ordered'
<1>1. /\ conn' = c /\ place'[c] = "granted" /\ answers'[c] = <<>> /\ conn' # None
      /\ \A d \in Conns : wire'[d] = <<>>
  BY LinkAssumption DEF Register, Goes, Structure, TypeOK
<1>2. \A k \in Kinds : Unwritten(c, k)' = {}
  BY DEF Register, Goes, Structure, Nothing, Unwritten
<1>3. \A k \in Kinds : NoneHeld(k)'
  BY <1>1, <1>2, EmptySeq DEF Register, NoneHeld, OfKind, Ordered
<1>4. ASSUME NEW k \in Kinds PROVE Consistent(c, k)'
  <2>1. Todo(c, k)' = {}
    BY <1>1, <1>2, EmptySeq DEF Todo, OfKind
  <2>2. OneUnwritten(c, k)' /\ RestoredLast(c, k)' /\ SetLast(c, k)' /\ MarkedBefore(c, k)'
    BY <1>1, <1>2, <2>1, EmptySeq DEF OneUnwritten, RestoredLast, SetLast, MarkedBefore, OfKind
  <2>3. Kept(c, k)'
    BY <1>1, EmptySeq DEF Kept, Says
  <2> QED
    BY <2>2, <2>3 DEF Consistent
<1> QED
  BY <1>1, <1>3, <1>4 DEF Ordered

\* What is republished without disorder is what is active and not being restored.
LEMMA CopyOrdered ==
    ASSUME TypeOK, OneConnection, Structure, Ordered, NEW c \in Conns, CopyActive(c), ~disordered'
    PROVE  Ordered'
<1> USE DEF linkVars
<1>1. /\ place[c] = "granted" /\ place'[c] = "serving" /\ copy[c] = Nothing
      /\ \A d \in Conns : d # c => place'[d] = place[d] /\ copy'[d] = copy[d]
      /\ \A k \in Kinds : copy'[c][k] = IF Republished(k) THEN active[k].id ELSE None
      /\ \A k \in Kinds : ~Revived(k)
  <2>1. place[c] = "granted" /\ copy[c] = Nothing /\ \A k \in Kinds : ~Revived(k)
    BY DEF CopyActive, Goes, Structure
  <2>2. /\ place'[c] = "serving"
        /\ \A d \in Conns : d # c => place'[d] = place[d]
    BY DEF CopyActive, Goes, TypeOK
  <2>3. /\ copy'[c] = [k \in Kinds |-> IF Republished(k) THEN active[k].id ELSE None]
        /\ \A d \in Conns : d # c => copy'[d] = copy[d]
    BY DEF CopyActive, TypeOK
  <2> QED
    BY <2>1, <2>2, <2>3
<1>2. \A d \in Conns, k \in Kinds : d # c => Unwritten(d, k)' = Unwritten(d, k)
  BY <1>1 DEF CopyActive, Unwritten
<1>3. ASSUME NEW k \in Kinds, ~Republished(k) PROVE Unwritten(c, k)' = Unwritten(c, k)
  BY <1>1, <1>3 DEF CopyActive, Unwritten, Nothing
<1>4. ASSUME NEW k \in Kinds, Republished(k), conn = c
      PROVE  /\ Unwritten(c, k) \subseteq {Message("set", k, active[k].id)}
             /\ Unwritten(c, k)' = {Message("set", k, active[k].id)}
             /\ active[k] # None /\ active[k].status # "restoring"
  <2>1. active[k] # None /\ active[k].status # "restoring"
    BY <1>1, <1>4 DEF Revived, Republished, Kinds
  <2>2. active[k] \in Active /\ None \notin Ids
    BY <2>1, LinkAssumption DEF TypeOK
  <2>3. copy'[c][k] # None /\ copy'[c][k] = active[k].id
    BY <1>1, <1>4, <2>2 DEF Active
  <2>4. Unwritten(c, k) \subseteq {Message("set", k, active[k].id)}
    BY <1>1, <1>4, <2>1 DEF Ordered, Consistent, MarkedBefore
  <2>5. Unwritten(c, k)' = Unwritten(c, k) \union {Message("set", k, active[k].id)}
    BY <1>1, <2>3 DEF CopyActive, Unwritten, Nothing
  <2> QED
    BY <2>1, <2>4, <2>5
<1>5. ASSUME NEW k \in Kinds PROVE NoneHeld(k)'
  <2>1. NoneHeld(k)
    BY DEF Ordered
  <2>2. active[k] = None => \A d \in Conns : Unwritten(d, k)' = Unwritten(d, k)
    BY <1>2, <1>3 DEF Republished
  <2> QED
    BY <2>1, <2>2, LinkAssumption DEF CopyActive, NoneHeld, OfKind, TypeOK
<1>6. ASSUME NEW d \in Conns, conn = d, NEW k \in Kinds PROVE Consistent(d, k)'
  <2>1. Consistent(d, k)
    BY <1>6 DEF Ordered
  <2>2. CASE d # c
    BY <1>1, <1>2, <2>1, <2>2, SameConsistent DEF CopyActive
  <2>3. CASE d = c /\ Republished(k)
    <3>0. active[k] # None /\ active' = active
      BY <1>4, <1>6, <2>3 DEF CopyActive
    <3>1. Todo(c, k)' = Todo(c, k) \union {Message("set", k, active[k].id)}
      BY <1>4, <1>6, <2>3 DEF CopyActive, Todo, OfKind
    <3>2. /\ RestoredLast(c, k) /\ SetLast(c, k) /\ MarkedBefore(c, k)
          /\ \A i \in OfKind(answers[c], k) : answers[c][i] # Message("restored", k, active[k].id)
          /\ \A m \in Todo(c, k) : m # Message("restore", k, active[k].id)
      BY <1>1, <1>4, <1>6, <2>1, <2>3 DEF Consistent, MarkedBefore
    <3>3. \A i \in OfKind(wire[c], k) : wire[c][i] \in Todo(c, k)
      BY DEF Todo
    <3>4. OneUnwritten(c, k)'
      BY <1>4, <1>6, <2>3 DEF OneUnwritten
    <3>5. RestoredLast(c, k)'
      BY <3>2, <3>3 DEF CopyActive, RestoredLast, OfKind
    <3>6. SetLast(c, k)'
      BY <1>4, <1>6, <2>3, <3>2 DEF CopyActive, SetLast, Names, OfKind, Message
    <3>7. MarkedBefore(c, k)'
      BY <1>1 DEF MarkedBefore
    <3>8. Kept(c, k)'
      <4>1. Message("set", k, active[k].id).id = active'[k].id
        BY <3>0 DEF Message
      <4> QED
        BY <3>0, <3>1, <4>1 DEF Kept, Names
    <3> QED
      BY <2>3, <3>4, <3>5, <3>6, <3>7, <3>8 DEF Consistent
  <2>4. CASE d = c /\ ~Republished(k)
    <3>1. Unwritten(c, k)' = Unwritten(c, k) /\ Todo(c, k)' = Todo(c, k)
      BY <1>3, <2>4 DEF CopyActive, Todo, OfKind
    <3>2. OneUnwritten(c, k)'
      BY <2>1, <2>4, <3>1 DEF Consistent, OneUnwritten
    <3>3. SUFFICES ASSUME active[k] # None
                   PROVE  (RestoredLast(c, k) /\ SetLast(c, k) /\ MarkedBefore(c, k) /\ Kept(c, k))'
      BY <2>4, <3>2 DEF CopyActive, Consistent
    <3>4. RestoredLast(c, k)' /\ SetLast(c, k)'
      BY <2>1, <2>4, <3>1, <3>3 DEF CopyActive, RestoredLast, SetLast, Names, OfKind, Consistent
    <3>5. MarkedBefore(c, k)'
      BY <1>1 DEF MarkedBefore
    <3>6. ASSUME NEW i \in 0..Len(answers[c]), Says(c, k, i)' PROVE Says(c, k, i)
      BY <1>1, <2>4, <3>3, <3>6 DEF CopyActive, Says, Names, OfKind, Republished
    <3>7. Kept(c, k)'
      BY <2>1, <2>4, <3>1, <3>3, <3>6 DEF CopyActive, Kept, Names, Consistent
    <3> QED
      BY <3>4, <3>5, <3>7
  <2> QED
    BY <2>2, <2>3, <2>4
<1> QED
  BY <1>5, <1>6 DEF CopyActive, Ordered

\* What begins a command: it is the one write of its kind that is to come.
LEMMA BeginUnwritten ==
    ASSUME TypeOK, NEW order \in Orders, Begin(order), ~disordered'
    PROVE  /\ conn \in Conns
           /\ ~disordered /\ ~Misses(order)
           /\ Unwritten(conn, order.kind) = {}
           /\ Unwritten(conn, order.kind)' = {order}
           /\ Todo(conn, order.kind)'
                  = {wire[conn][i] : i \in OfKind(wire[conn], order.kind)} \union {order}
           /\ \A c \in Conns, k \in Kinds :
                  c # conn \/ k # order.kind => Unwritten(c, k)' = Unwritten(c, k)
<1> USE DEF linkVars
<1>1. conn \in Conns /\ ~disordered /\ ~Misses(order) /\ ~Crosses(conn, order.kind)
  BY DEF Begin, TypeOK
<1>2. order.kind \in Kinds
  BY DEF Orders
<1>3. Unwritten(conn, order.kind) = {}
  BY <1>1 DEF Crosses, Unwritten
<1>4. Unwritten(conn, order.kind)' = {order}
  <2>1. {x \in pending' : x.on = conn /\ x.order.kind = order.kind}
            = {[on |-> conn, order |-> order]}
    BY <1>1 DEF Begin, Crosses
  <2>2. copy'[conn][order.kind] = None /\ conn' = conn
    BY <1>1 DEF Begin, Crosses
  <2>3. {p.order : p \in {[on |-> conn, order |-> order]}} = {order}
    OBVIOUS
  <2>4. {p.order : p \in {x \in pending' : x.on = conn' /\ x.order.kind = order.kind}} = {order}
    BY <2>1, <2>2, <2>3
  <2> QED
    BY <2>2, <2>4 DEF Unwritten
<1>5. \A c \in Conns, k \in Kinds : c # conn \/ k # order.kind => Unwritten(c, k)' = Unwritten(c, k)
  BY <1>1 DEF Begin, Unwritten
<1>6. Todo(conn, order.kind)'
          = {wire[conn][i] : i \in OfKind(wire[conn], order.kind)} \union {order}
  BY <1>4 DEF Begin, Todo, OfKind
<1> QED
  BY <1>1, <1>3, <1>4, <1>5, <1>6

\* A new snapshot: nothing speaks of it yet, and its order is to come.
LEMMA SetOrdered ==
    ASSUME TypeOK, Numbered, Ordered, NEW k \in Kinds, Set(k), ~disordered'
    PROVE  Ordered'
<1> DEFINE order == Message("set", k, sent + 1)
<1> USE DEF linkVars
<1>1. sent \in Nat /\ sent + 1 \in Ids
  BY LinkAssumption DEF Set, Begin, Ids, Commands, TypeOK
<1>2. /\ order \in Orders /\ Begin(order)
      /\ order.do = "set" /\ order.kind = k /\ order.id = sent + 1
  BY <1>1, OrderType DEF Set, Message
<1>3. /\ active'[k] = [id |-> sent + 1, status |-> StartsAs[k]] /\ active'[k] # None
      /\ \A j \in Kinds \ {k} : active'[j] = active[j]
  <2>1. [id |-> sent + 1, status |-> StartsAs[k]] \in Active
    BY <1>1 DEF Active, StartsAs
  <2> QED
    BY <2>1, LinkAssumption DEF Set, TypeOK
<1> HIDE DEF order
<1>4. /\ conn \in Conns /\ conn' = conn /\ wire' = wire /\ answers' = answers
      /\ Unwritten(conn, k)' = {order} /\ order \in Todo(conn, k)'
      /\ Todo(conn, k)' = {wire[conn][i] : i \in OfKind(wire[conn], k)} \union {order}
      /\ \A c \in Conns, j \in Kinds : c # conn \/ j # k => Unwritten(c, j)' = Unwritten(c, j)
  BY <1>2, BeginUnwritten DEF Begin
<1>5. ASSUME NEW j \in Kinds PROVE NoneHeld(j)'
  BY <1>2, <1>3, <1>4 DEF Begin, NoneHeld, OfKind, Ordered
<1>6. ASSUME NEW j \in Kinds, j # k PROVE Consistent(conn, j)'
  <2>1. Consistent(conn, j)
    BY <1>4 DEF Ordered
  <2> QED
    BY <1>2, <1>3, <1>4, <1>6, <2>1, SameConsistent DEF Begin
<1>7. Consistent(conn, k)'
  <2>1. /\ \A i \in 1..Len(wire[conn]) : wire[conn][i].id # sent + 1
        /\ \A i \in 1..Len(answers[conn]) : answers[conn][i].id # sent + 1
    BY <1>1, <1>4, Queued DEF Numbered
  <2>2. OneUnwritten(conn, k)'
    BY <1>4 DEF OneUnwritten
  <2>3. RestoredLast(conn, k)' /\ SetLast(conn, k)'
    BY <1>3, <1>4, <2>1 DEF RestoredLast, SetLast, OfKind, Message
  <2>4. MarkedBefore(conn, k)'
    <3>1. order = Message("set", k, active'[k].id)
      BY <1>3 DEF order
    <3> QED
      BY <1>2, <1>3, <1>4, <2>1, <3>1 DEF MarkedBefore, OfKind, Message
  <2>5. Kept(conn, k)'
    BY <1>2, <1>3, <1>4 DEF Kept, Names
  <2> QED
    BY <2>2, <2>3, <2>4, <2>5 DEF Consistent
<1> QED
  BY <1>4, <1>5, <1>6, <1>7 DEF Ordered

\* A restore without disorder names what is active, or nothing; what is active is marked and has
\* the order to come.
LEMMA RestoreOrdered ==
    ASSUME TypeOK, Ordered, NEW k \in Kinds, NEW id \in Ids, Restore(k, id), ~disordered'
    PROVE  Ordered'
<1> DEFINE order == Message("restore", k, id)
<1> USE DEF linkVars
<1>1. /\ order \in Orders /\ Begin(order)
      /\ order.do = "restore" /\ order.kind = k /\ order.id = id
  BY OrderType DEF Restore, Message
<1>2. /\ \A j \in Kinds \ {k} : active'[j] = active[j]
      /\ active[k] = None => active'[k] = None
      /\ active[k] # None => /\ active[k] \in Active /\ active'[k] # None
                             /\ active'[k].id = active[k].id /\ active'[k].status = "restoring"
  <2>1. CASE active[k] = None
    BY <2>1 DEF Restore
  <2>2. CASE active[k] # None
    <3>1. active[k] \in Active
      BY <2>2 DEF TypeOK
    <3>2. /\ [active[k] EXCEPT !.status = "restoring"] \in Active
          /\ [active[k] EXCEPT !.status = "restoring"].id = active[k].id
          /\ [active[k] EXCEPT !.status = "restoring"].status = "restoring"
      BY <3>1 DEF Active
    <3>3. active' = [active EXCEPT ![k] = [active[k] EXCEPT !.status = "restoring"]]
      BY <2>2 DEF Restore
    <3>4. active'[k] # None
      BY <3>2, <3>3, LinkAssumption DEF TypeOK
    <3> QED
      BY <2>2, <3>1, <3>2, <3>3, <3>4 DEF TypeOK
  <2> QED
    BY <2>1, <2>2
<1>3. active[k] # None => id \in {Blank, active[k].id}
  BY <1>1, BeginUnwritten DEF Misses
<1> HIDE DEF order
<1>4. /\ conn \in Conns /\ conn' = conn /\ wire' = wire /\ answers' = answers
      /\ Unwritten(conn, k)' = {order} /\ order \in Todo(conn, k)'
      /\ Todo(conn, k)' = {wire[conn][i] : i \in OfKind(wire[conn], k)} \union {order}
      /\ \A c \in Conns, j \in Kinds : c # conn \/ j # k => Unwritten(c, j)' = Unwritten(c, j)
  BY <1>1, BeginUnwritten DEF Begin
<1>5. ASSUME NEW j \in Kinds PROVE NoneHeld(j)'
  BY <1>1, <1>2, <1>4 DEF Begin, NoneHeld, OfKind, Ordered
<1>6. ASSUME NEW j \in Kinds, j # k PROVE Consistent(conn, j)'
  <2>1. Consistent(conn, j)
    BY <1>4 DEF Ordered
  <2> QED
    BY <1>1, <1>2, <1>4, <1>6, <2>1, SameConsistent DEF Begin
<1>7. Consistent(conn, k)'
  <2>1. Consistent(conn, k)
    BY <1>4 DEF Ordered
  <2>2. OneUnwritten(conn, k)'
    BY <1>4 DEF OneUnwritten
  <2>3. SUFFICES ASSUME active[k] # None
                 PROVE  (RestoredLast(conn, k) /\ SetLast(conn, k) /\ MarkedBefore(conn, k)
                            /\ Kept(conn, k))'
    BY <1>2, <2>2 DEF Consistent
  <2>4. Todo(conn, k)' \subseteq Todo(conn, k) \union {order}
    BY <1>4 DEF Todo
  <2>5. RestoredLast(conn, k)'
    BY <1>1, <1>2, <1>4, <2>1, <2>3, <2>4 DEF Begin, Consistent, RestoredLast, OfKind
  <2>6. SetLast(conn, k)'
    BY <1>1, <1>2, <1>3, <1>4, <2>1, <2>3 DEF Consistent, SetLast, Names, OfKind
  <2>7. MarkedBefore(conn, k)'
    BY <1>2, <2>3 DEF MarkedBefore
  <2>8. Kept(conn, k)'
    BY <1>1, <1>2, <1>3, <1>4, <2>3 DEF Kept, Names
  <2> QED
    BY <2>5, <2>6, <2>7, <2>8
<1> QED
  BY <1>4, <1>5, <1>6, <1>7 DEF Ordered

\* A write that was to come and goes out, or is lost with its connection: the order stays the
\* same, and nothing is left to be written of that kind but the same again.
LEMMA WrittenOrdered ==
    ASSUME TypeOK, OneConnection, Structure, Ordered,
           NEW c \in Conns, place[c] # "idle", NEW m \in Orders, Writes(c, m),
           m \in Unwritten(c, m.kind), Unwritten(c, m.kind)' \subseteq Unwritten(c, m.kind),
           \A d \in Conns, k \in Kinds :
               d # c \/ k # m.kind => Unwritten(d, k)' = Unwritten(d, k),
           UNCHANGED <<conn, place, closed, active, answers, held>>
    PROVE  Ordered'
<1>1. CASE conn # c
  <2>1. c \in closed
    BY <1>1 DEF OneConnection, Structure, Busy, TypeOK
  <2>2. wire' = wire /\ peer' = peer
    BY <2>1 DEF Writes
  <2>3. ASSUME NEW k \in Kinds PROVE NoneHeld(k)'
    BY <1>1, <2>2 DEF NoneHeld, OfKind, Ordered, TypeOK
  <2>4. ASSUME NEW d \in Conns, conn = d, NEW k \in Kinds PROVE Consistent(d, k)'
    BY <1>1, <2>2, <2>4, SameConsistent DEF Ordered
  <2> QED
    BY <2>3, <2>4 DEF Ordered
<1>2. CASE conn = c
  <2>1. conn # None /\ m.kind \in Kinds
    BY <1>2, LinkAssumption DEF Orders
  <2>2. /\ \A n \in Unwritten(c, m.kind) : n = m
        /\ \A k \in Kinds : Consistent(c, k)
    BY <1>2, <2>1 DEF Ordered, Consistent, OneUnwritten
  <2>3. /\ wire[c] \in Seq(Orders) /\ Len(wire[c]) \in Nat
        /\ \A d \in Conns : d # c => wire'[d] = wire[d]
        /\ \/ wire'[c] = wire[c] /\ (c \in closed \/ peer'[c] # "alive")
           \/ wire'[c] = Append(wire[c], m)
        /\ peer'[c] = "alive" => peer[c] = "alive"
    BY Queued DEF Writes, TypeOK
  <2>4. /\ wire'[c] # wire[c] => Len(wire'[c]) = Len(wire[c]) + 1 /\ wire'[c][Len(wire[c]) + 1] = m
        /\ \A i \in 1..Len(wire[c]) : i \in 1..Len(wire'[c]) /\ wire'[c][i] = wire[c][i]
        /\ \A i \in 1..Len(wire'[c]) : i \notin 1..Len(wire[c]) => i = Len(wire[c]) + 1
    BY <2>3, Appended
  <2>5. ASSUME NEW k \in Kinds PROVE NoneHeld(k)'
    <3>1. NoneHeld(k)
      BY DEF Ordered
    <3> SUFFICES ASSUME active[k] = None PROVE NoneHeld(k)'
      BY DEF NoneHeld
    <3>2. Unwritten(c, k)' \subseteq Unwritten(c, k) /\ \A n \in Unwritten(c, k) : n.do # "set"
      BY <1>2, <2>1, <3>1 DEF NoneHeld
    <3>3. m.kind = k => m.do # "set"
      BY <3>2
    <3>4. \A d \in Conns : \A i \in OfKind(wire[d], k)' : wire'[d][i].do # "set"
      BY <2>3, <2>4, <3>1, <3>3 DEF NoneHeld, OfKind
    <3> QED
      BY <1>2, <3>1, <3>2, <3>4 DEF NoneHeld, OfKind
  <2>6. ASSUME NEW k \in Kinds, k # m.kind PROVE Consistent(c, k)'
    <3>1. Consistent(c, k) /\ Unwritten(c, k)' = Unwritten(c, k)
      BY <2>2, <2>6
    <3>2. OfKind(wire[c], k)' = OfKind(wire[c], k)
      BY <2>3, <2>4, <2>6 DEF OfKind
    <3>3. \A i \in OfKind(wire[c], k) : wire'[c][i] = wire[c][i]
      BY <2>4 DEF OfKind
    <3>4. Todo(c, k)' = Todo(c, k)
      BY <3>1, <3>2, <3>3 DEF Todo
    <3>5. OneUnwritten(c, k)'
      BY <3>1 DEF OneUnwritten, Consistent
    <3>6. SUFFICES ASSUME active[k] # None
                   PROVE  (RestoredLast(c, k) /\ SetLast(c, k) /\ MarkedBefore(c, k) /\ Kept(c, k))'
      BY <3>5 DEF Consistent
    <3>7. RestoredLast(c, k)'
      BY <3>1, <3>2, <3>3, <3>4, <3>6 DEF RestoredLast, OfKind, Consistent
    <3>8. SetLast(c, k)'
      BY <3>1, <3>2, <3>3, <3>6 DEF SetLast, Names, Consistent
    <3>9. MarkedBefore(c, k)' /\ Kept(c, k)'
      BY <2>3, <3>1, <3>4, <3>6 DEF MarkedBefore, Kept, Says, Names, OfKind, Consistent
    <3> QED
      BY <3>7, <3>8, <3>9
  <2>7. ASSUME NEW k \in Kinds, k = m.kind PROVE Consistent(c, k)'
    <3>1. Consistent(c, k) /\ Unwritten(c, k)' \subseteq {m}
      BY <2>2, <2>7
    <3>2. Todo(c, k)' \subseteq Todo(c, k)
      BY <2>3, <2>4, <2>7 DEF Todo, OfKind
    <3>3. c \notin closed /\ peer'[c] = "alive" => m \in Todo(c, k) /\ m \in Todo(c, k)'
      <4>1. m \in Todo(c, k)
        BY <2>7 DEF Todo
      <4>2. wire'[c] # wire[c] => Len(wire[c]) + 1 \in OfKind(wire[c], k)'
        BY <2>3, <2>4, <2>7 DEF OfKind
      <4>3. wire'[c] # wire[c] => m \in Todo(c, k)'
        BY <2>4, <4>2 DEF Todo
      <4>4. c \notin closed /\ peer'[c] = "alive" => wire'[c] # wire[c]
        BY <2>3, Appended
      <4> QED
        BY <4>1, <4>3, <4>4
    <3>4. c \notin closed /\ peer'[c] = "alive" => Todo(c, k) \subseteq Todo(c, k)'
      <4>1. \A n \in Unwritten(c, k) : n = m
        BY <2>2, <2>7
      <4>2. \A i \in OfKind(wire[c], k) : i \in OfKind(wire[c], k)' /\ wire'[c][i] = wire[c][i]
        BY <2>4 DEF OfKind
      <4> QED
        BY <3>3, <4>1, <4>2 DEF Todo
    <3>5. OneUnwritten(c, k)'
      BY <3>1 DEF OneUnwritten
    <3>6. SUFFICES ASSUME active[k] # None
                   PROVE  (RestoredLast(c, k) /\ SetLast(c, k) /\ MarkedBefore(c, k) /\ Kept(c, k))'
      BY <3>5 DEF Consistent
    <3>7. RestoredLast(c, k)'
      <4>1. RestoredLast(c, k) /\ m \in Unwritten(c, k)
        BY <2>7, <3>1, <3>6 DEF Consistent
      <4> QED
        <5>1. /\ \A i \in OfKind(answers[c], k) :
                     answers[c][i] = Message("restored", k, active[k].id) =>
                         /\ held[k] = None
                         /\ \A j \in OfKind(answers[c], k) : i < j => answers[c][j].do # "applied"
                         /\ \A n \in Todo(c, k)' : n.do # "set"
          BY <3>2, <4>1 DEF RestoredLast
        <5>2. ASSUME NEW i \in OfKind(wire[c], k)',
                     wire'[c][i] = Message("restore", k, active[k].id)
              PROVE  /\ \A j \in OfKind(wire[c], k)' : i < j => wire'[c][j].do # "set"
                     /\ \A n \in Unwritten(c, k)' : n.do # "set"
          <6>1. CASE i \in 1..Len(wire[c])
            BY <2>3, <2>4, <3>1, <4>1, <5>2, <6>1 DEF RestoredLast, OfKind
          <6>2. CASE i \notin 1..Len(wire[c])
            BY <2>3, <2>4, <3>1, <5>2, <6>2 DEF OfKind, Message
          <6> QED
            BY <6>1, <6>2
        <5> QED
          BY <5>1, <5>2 DEF RestoredLast
    <3>8. SetLast(c, k)'
      <4>1. SetLast(c, k) /\ m \in Unwritten(c, k)
        BY <2>7, <3>1, <3>6 DEF Consistent
      <4> QED
        <5>1. ASSUME NEW i \in OfKind(wire[c], k)',
                     wire'[c][i] = Message("set", k, active[k].id)
              PROVE  /\ \A j \in OfKind(wire[c], k)' : i < j => Names(wire'[c][j], k)
                     /\ \A n \in Unwritten(c, k)' : Names(n, k)
          <6>1. CASE i \in 1..Len(wire[c])
            <7>1. i \in OfKind(wire[c], k) /\ wire[c][i] = Message("set", k, active[k].id)
              BY <2>4, <5>1, <6>1 DEF OfKind
            <7>2. /\ \A j \in OfKind(wire[c], k) : i < j => Names(wire[c][j], k)
                  /\ \A n \in Unwritten(c, k) : Names(n, k)
              BY <4>1, <7>1 DEF SetLast
            <7>3. ASSUME NEW j \in OfKind(wire[c], k)', i < j
                  PROVE  Names(wire'[c][j], k)
              <8>1. CASE j \in 1..Len(wire[c])
                BY <2>4, <7>2, <7>3, <8>1 DEF OfKind
              <8>2. CASE j \notin 1..Len(wire[c])
                BY <2>3, <2>4, <4>1, <7>2, <7>3, <8>2 DEF OfKind
              <8> QED
                BY <8>1, <8>2
            <7> QED
              BY <3>1, <7>2, <7>3
          <6>2. CASE i \notin 1..Len(wire[c])
            BY <2>3, <2>4, <3>1, <5>1, <6>2 DEF Names, OfKind, Message
          <6> QED
            BY <6>1, <6>2
        <5> QED
          BY <5>1 DEF SetLast, Names
    <3>9. MarkedBefore(c, k)'
      BY <2>7, <3>1, <3>2, <3>6 DEF MarkedBefore, OfKind, Consistent
    <3>10. Kept(c, k)'
      BY <2>3, <3>1, <3>2, <3>4, <3>6 DEF Kept, Says, Names, OfKind, Consistent
    <3> QED
      BY <3>7, <3>8, <3>9, <3>10
  <2> QED
    BY <1>2, <2>5, <2>6, <2>7 DEF Ordered
<1> QED
  BY <1>1, <1>2

\* A command is written.
LEMMA WriteOrdered ==
    ASSUME TypeOK, OneConnection, Structure, Ordered, NEW p \in pending, Write(p)
    PROVE  Ordered'
<1>1. /\ p.on \in Conns /\ place[p.on] # "idle" /\ p.order \in Orders
      /\ p.order.kind \in Kinds
  BY DEF Structure, Orders, TypeOK
<1>2. p.order \in Unwritten(p.on, p.order.kind)
  BY DEF Unwritten
<1>3. /\ Unwritten(p.on, p.order.kind)' \subseteq Unwritten(p.on, p.order.kind)
      /\ \A d \in Conns, k \in Kinds :
             d # p.on \/ k # p.order.kind => Unwritten(d, k)' = Unwritten(d, k)
  BY DEF Write, Unwritten
<1> QED
  BY <1>1, <1>2, <1>3, WrittenOrdered DEF Write

\* A copy is republished.
LEMMA RepublishOrdered ==
    ASSUME TypeOK, OneConnection, Structure, Ordered,
           NEW c \in Conns, NEW k \in Kinds, Republish(c, k)
    PROVE  Ordered'
<1> DEFINE m == Message("set", k, copy[c][k])
<1>1. copy[c][k] \in Ids /\ place[c] # "idle"
  BY LinkAssumption DEF Republish, Structure, Nothing, TypeOK
<1>2. m \in Orders /\ m.kind = k /\ Writes(c, m)
  BY <1>1, OrderType DEF Republish, Message
<1>3. m \in Unwritten(c, k)
  BY DEF Republish, Unwritten
<1>4. /\ Unwritten(c, k)' \subseteq Unwritten(c, k)
      /\ \A d \in Conns, j \in Kinds : d # c \/ j # k => Unwritten(d, j)' = Unwritten(d, j)
  BY DEF Republish, Unwritten, TypeOK
<1> HIDE DEF m
<1> QED
  BY <1>1, <1>2, <1>3, <1>4, WrittenOrdered DEF Republish

\* The extension acts on the first order of the current connection: what it answers is what
\* becomes of the kind, and nothing else on its way changes.
LEMMA ActsOrdered ==
    ASSUME TypeOK, Structure, Ordered, NEW c \in Conns, ExtensionActs(c)
    PROVE  Ordered'
<1> DEFINE m == Head(wire[c])
           rest == Tail(wire[c])
<1> USE DEF linkVars
<1>1. /\ wire[c] # <<>> /\ peer[c] \in {"alive", "cut"}
      /\ wire[c] \in Seq(Orders) /\ answers[c] \in Seq(Answers) /\ Len(answers[c]) \in Nat
  BY Queued DEF ExtensionActs
<1>2. /\ m \in Orders /\ m = wire[c][1] /\ Len(wire[c]) \in Nat \ {0}
      /\ Len(rest) = Len(wire[c]) - 1
      /\ \A i \in 1..Len(rest) : i + 1 \in 1..Len(wire[c]) /\ rest[i] = wire[c][i + 1]
  BY <1>1, Shortened
<1>3. /\ wire'[c] = rest /\ \A d \in Conns : d # c => wire'[d] = wire[d]
      /\ \A d \in Conns, k \in Kinds : Unwritten(d, k)' = Unwritten(d, k)
  BY DEF ExtensionActs, Unwritten, TypeOK
<1>4. PICK result \in {"applied", "restored", "failed"} :
        /\ result = "applied" => m.do = "set" /\ held' = [held EXCEPT ![m.kind] = m.id]
        /\ result = "restored" => m.do = "restore" /\ held' = [held EXCEPT ![m.kind] = None]
        /\ result = "failed" => held' = [held EXCEPT ![m.kind] = held[m.kind]]
        /\ answers' = IF c \in closed THEN answers
                      ELSE [answers EXCEPT ![c] = Append(@, Message(result, m.kind, m.id))]
  BY DEF ExtensionActs, Answer
<1> DEFINE a == Message(result, m.kind, m.id)
<1>5. m.kind \in Kinds /\ m.id \in Ids /\ m.do \in {"set", "restore"} /\ a \in Answers
  <2> HIDE DEF m
  <2> QED
    BY <1>2 DEF Orders, Answers, Message
<1>6. a.do = result /\ a.kind = m.kind /\ a.id = m.id
  BY DEF Message
<1>7. /\ \A d \in Conns : d # c => answers'[d] = answers[d]
      /\ \A i \in 1..Len(answers[c]) : i \in 1..Len(answers'[c]) /\ answers'[c][i] = answers[c][i]
      /\ \A i \in 1..Len(answers'[c]) :
             i \notin 1..Len(answers[c]) => /\ i = Len(answers[c]) + 1
                                            /\ answers'[c][i] = a
                                            /\ c \notin closed
      /\ Len(answers'[c]) \in Nat
  <2>1. CASE c \in closed
    BY <1>1, <1>4, <2>1
  <2>2. CASE c \notin closed
    <3>1. /\ answers'[c] = Append(answers[c], a)
          /\ \A d \in Conns : d # c => answers'[d] = answers[d]
      BY <1>4, <2>2 DEF TypeOK
    <3> HIDE DEF a
    <3> QED
      BY <1>1, <1>5, <2>2, <3>1, Appended
  <2> QED
    BY <2>1, <2>2
<1>8. /\ \A k \in Kinds : k # m.kind => held'[k] = held[k]
      /\ result = "applied" => held'[m.kind] = m.id
      /\ result = "restored" => held'[m.kind] = None
      /\ result = "failed" => held'[m.kind] = held[m.kind]
  BY <1>4, <1>5 DEF TypeOK
<1>9. UNCHANGED <<linkVars, active>>
  BY DEF ExtensionActs
<1>10. /\ \A k \in Kinds : \A i \in OfKind(wire[c], k)' : i + 1 \in OfKind(wire[c], k)
       /\ \A i \in 1..Len(rest) : wire'[c][i] = wire[c][i + 1]
       /\ \A k \in Kinds : m.kind = k => 1 \in OfKind(wire[c], k)
       /\ \A k \in Kinds : Todo(c, k)' \subseteq Todo(c, k)
       /\ \A k \in Kinds : m.kind = k => m \in Todo(c, k)
       /\ \A k \in Kinds : m.kind # k => Todo(c, k)' = Todo(c, k)
  <2>1. \A k \in Kinds : \A i \in OfKind(wire[c], k)' : i + 1 \in OfKind(wire[c], k)
    BY <1>2, <1>3 DEF OfKind
  <2>2. \A k \in Kinds : m.kind = k => 1 \in OfKind(wire[c], k)
    BY <1>2 DEF OfKind
  <2>3. \A k \in Kinds : \A i \in OfKind(wire[c], k)' : wire'[c][i] = wire[c][i + 1]
    BY <1>2, <1>3 DEF OfKind
  <2>4. \A k \in Kinds : m.kind # k =>
            \A i \in OfKind(wire[c], k) : i - 1 \in OfKind(wire[c], k)' /\ wire'[c][i - 1] = wire[c][i]
    <3>1. \A i \in 1..Len(wire[c]) : i # 1 => i - 1 \in 1..Len(rest) /\ rest[i - 1] = wire[c][i]
      BY <1>2
    <3> QED
      BY <1>2, <1>3, <3>1 DEF OfKind
  <2> HIDE DEF m, rest
  <2>5. \A k \in Kinds : Todo(c, k)' \subseteq Todo(c, k)
    BY <1>3, <2>1, <2>3 DEF Todo
  <2>6. \A k \in Kinds : m.kind = k => m \in Todo(c, k)
    BY <1>2, <2>2 DEF Todo
  <2>7. \A k \in Kinds : m.kind # k => Todo(c, k) \subseteq Todo(c, k)'
    BY <1>3, <2>4 DEF Todo
  <2> QED
    BY <1>2, <1>3, <2>1, <2>2, <2>5, <2>6, <2>7
<1> HIDE DEF m, rest, a
<1>11. ASSUME NEW k \in Kinds PROVE NoneHeld(k)'
  <2>1. NoneHeld(k)
    BY DEF Ordered
  <2> SUFFICES ASSUME active[k] = None PROVE NoneHeld(k)'
    BY <1>9 DEF NoneHeld
  <2>2. m.kind = k => m.do # "set"
    BY <1>2, <1>10, <2>1 DEF NoneHeld
  <2>3. held'[k] = None
    BY <1>4, <1>8, <2>1, <2>2 DEF NoneHeld
  <2>4. ASSUME NEW d \in Conns, NEW i \in OfKind(wire[d], k)' PROVE wire'[d][i].do # "set"
    <3>1. CASE d = c
      <4>1. i + 1 \in OfKind(wire[c], k) /\ wire'[c][i] = wire[c][i + 1]
        BY <1>3, <1>10, <3>1 DEF OfKind
      <4> QED
        BY <2>1, <3>1, <4>1 DEF NoneHeld
    <3>2. CASE d # c
      BY <1>3, <2>1, <3>2 DEF NoneHeld, OfKind
    <3> QED
      BY <3>1, <3>2
  <2>5. conn # None => \A i \in OfKind(answers[conn], k)' : answers'[conn][i].do # "applied"
    BY <1>4, <1>6, <1>7, <1>9, <2>1, <2>2 DEF NoneHeld, OfKind, TypeOK
  <2>6. conn # None => \A n \in Unwritten(conn, k)' : n.do # "set"
    BY <1>3, <1>9, <2>1 DEF NoneHeld, TypeOK
  <2> QED
    BY <1>9, <2>3, <2>4, <2>5, <2>6 DEF NoneHeld
<1>12. ASSUME NEW d \in Conns, conn = d, NEW k \in Kinds PROVE Consistent(d, k)'
  <2>1. Consistent(d, k) /\ d = c
    BY <1>1, <1>12 DEF Structure, Ordered
  <2>2. OneUnwritten(c, k)'
    BY <1>3, <2>1 DEF Consistent, OneUnwritten
  <2>3. SUFFICES ASSUME active[k] # None
                 PROVE  (RestoredLast(c, k) /\ SetLast(c, k) /\ MarkedBefore(c, k) /\ Kept(c, k))'
    BY <1>9, <2>1, <2>2 DEF Consistent
  <2>4. RestoredLast(c, k) /\ SetLast(c, k) /\ MarkedBefore(c, k) /\ Kept(c, k)
    BY <2>1, <2>3 DEF Consistent
  <2>5. a = Message("restored", k, active[k].id) => m = Message("restore", k, active[k].id)
    BY <1>4, <1>5, <1>6, <1>2 DEF Message, Orders
  <2>6. a = Message("applied", k, active[k].id) => m = Message("set", k, active[k].id)
    BY <1>4, <1>5, <1>6, <1>2 DEF Message, Orders
  <2>7. RestoredLast(c, k)'
    <3>1. ASSUME NEW i \in OfKind(answers[c], k)', answers'[c][i] = Message("restored", k, active[k].id)
          PROVE  /\ held'[k] = None
                 /\ \A j \in OfKind(answers[c], k)' : i < j => answers'[c][j].do # "applied"
                 /\ \A n \in Todo(c, k)' : n.do # "set"
      <4>1. CASE i \in 1..Len(answers[c])
        <5>1. /\ held[k] = None
              /\ \A j \in OfKind(answers[c], k) : i < j => answers[c][j].do # "applied"
              /\ \A n \in Todo(c, k) : n.do # "set"
          BY <1>7, <2>4, <3>1, <4>1 DEF RestoredLast, OfKind
        <5>2. m.kind = k => m.do # "set"
          BY <1>10, <5>1
        <5> QED
          BY <1>4, <1>6, <1>7, <1>8, <1>10, <5>1, <5>2 DEF OfKind
      <4>2. CASE i \notin 1..Len(answers[c])
        <5>1. a = Message("restored", k, active[k].id) /\ i = Len(answers[c]) + 1
          BY <1>7, <3>1, <4>2 DEF OfKind
        <5>2. m = Message("restore", k, active[k].id) /\ m.kind = k /\ result = "restored"
          BY <1>6, <2>5, <5>1 DEF Message
        <5>3. /\ \A j \in OfKind(wire[c], k) : 1 < j => wire[c][j].do # "set"
              /\ \A n \in Unwritten(c, k) : n.do # "set"
          BY <1>2, <1>10, <2>4, <5>2 DEF RestoredLast
        <5>4. \A n \in Todo(c, k)' : n.do # "set"
          <6>1. ASSUME NEW j \in OfKind(wire[c], k)' PROVE wire'[c][j].do # "set"
            <7>1. j + 1 \in OfKind(wire[c], k) /\ wire[c][j + 1] = wire'[c][j] /\ 1 < j + 1
              BY <1>3, <1>10 DEF OfKind
            <7> QED
              BY <5>3, <7>1
          <6> QED
            BY <1>3, <5>3, <6>1 DEF Todo
        <5> QED
          BY <1>1, <1>7, <1>8, <5>1, <5>2, <5>4 DEF OfKind
      <4> QED
        BY <4>1, <4>2
    <3>2. ASSUME NEW i \in OfKind(wire[c], k)', wire'[c][i] = Message("restore", k, active[k].id)
          PROVE  /\ \A j \in OfKind(wire[c], k)' : i < j => wire'[c][j].do # "set"
                 /\ \A n \in Unwritten(c, k)' : n.do # "set"
      <4>1. i + 1 \in OfKind(wire[c], k) /\ wire[c][i + 1] = wire'[c][i] /\ i \in Int
        BY <1>3, <1>10 DEF OfKind
      <4>2. /\ \A j \in OfKind(wire[c], k) : i + 1 < j => wire[c][j].do # "set"
            /\ \A n \in Unwritten(c, k) : n.do # "set"
        BY <2>4, <3>2, <4>1 DEF RestoredLast
      <4>3. ASSUME NEW j \in OfKind(wire[c], k)', i < j PROVE wire'[c][j].do # "set"
        <5>1. j + 1 \in OfKind(wire[c], k) /\ wire[c][j + 1] = wire'[c][j] /\ j \in Int
          BY <1>3, <1>10 DEF OfKind
        <5> QED
          BY <4>1, <4>2, <4>3, <5>1
      <4> QED
        BY <1>3, <4>2, <4>3
    <3> QED
      BY <1>9, <3>1, <3>2 DEF RestoredLast
  <2>8. SetLast(c, k)'
    <3>1. ASSUME NEW i \in OfKind(wire[c], k)', wire'[c][i] = Message("set", k, active[k].id)
          PROVE  /\ \A j \in OfKind(wire[c], k)' : i < j => Names(wire'[c][j], k)
                 /\ \A n \in Unwritten(c, k)' : Names(n, k)
      <4>1. i + 1 \in OfKind(wire[c], k) /\ wire[c][i + 1] = wire'[c][i] /\ i \in Int
        BY <1>3, <1>10 DEF OfKind
      <4>2. /\ \A j \in OfKind(wire[c], k) : i + 1 < j => Names(wire[c][j], k)
            /\ \A n \in Unwritten(c, k) : Names(n, k)
        BY <2>4, <3>1, <4>1 DEF SetLast
      <4>3. ASSUME NEW j \in OfKind(wire[c], k)', i < j PROVE Names(wire'[c][j], k)
        <5>1. j + 1 \in OfKind(wire[c], k) /\ wire[c][j + 1] = wire'[c][j] /\ j \in Int
          BY <1>3, <1>10 DEF OfKind
        <5> QED
          BY <4>1, <4>2, <4>3, <5>1
      <4> QED
        BY <1>3, <4>2, <4>3
    <3> QED
      BY <1>9, <3>1 DEF SetLast, Names
  <2>9. MarkedBefore(c, k)'
    <3>1. ASSUME NEW i \in OfKind(answers[c], k)', place[c] = "granted",
                 answers'[c][i] = Message("restored", k, active[k].id)
          PROVE  active[k].status = "restoring"
      <4>1. CASE i \in 1..Len(answers[c])
        BY <1>7, <2>4, <3>1, <4>1 DEF MarkedBefore, OfKind
      <4>2. CASE i \notin 1..Len(answers[c])
        <5>1. m = Message("restore", k, active[k].id)
          BY <1>7, <2>5, <3>1, <4>2 DEF OfKind
        <5>2. m \in Todo(c, k)
          BY <1>10, <5>1 DEF Message
        <5> QED
          BY <2>4, <3>1, <5>1, <5>2 DEF MarkedBefore
      <4> QED
        BY <4>1, <4>2
    <3> QED
      BY <1>3, <1>9, <1>10, <2>4, <3>1 DEF MarkedBefore
  <2>10. Kept(c, k)'
    <3> SUFFICES ASSUME c \notin closed, peer[c] = "alive",
                        NEW i \in 0..Len(answers'[c]), Says(c, k, i)',
                        \A n \in Todo(c, k)' : ~Names(n, k)
                 PROVE  held'[k] = active[k].id /\ Todo(c, k)' = {}
      BY <1>9 DEF Kept, Names
    <3>1. CASE m.kind = k /\ Names(m, k)
      <4>1. Len(answers[c]) + 1 \in OfKind(answers[c], k)' /\ answers'[c][Len(answers[c]) + 1] = a
        <5>1. answers'[c] = Append(answers[c], a) /\ Len(answers'[c]) = Len(answers[c]) + 1
          BY <1>1, <1>4, <1>5, Appended DEF a, TypeOK
        <5> QED
          BY <1>1, <1>5, <1>6, <3>1, <5>1, Appended DEF OfKind
      <4>2. result = "applied"
        <5>1. CASE i = Len(answers[c]) + 1
          BY <1>1, <1>6, <1>9, <4>1, <5>1 DEF Says, Message
        <5>2. CASE i # Len(answers[c]) + 1
          <6>1. result # "applied" => Names(a, k)
            BY <1>4, <1>5, <1>6, <3>1 DEF Names
          <6> QED
            BY <1>1, <1>6, <1>7, <1>9, <3>1, <4>1, <5>2, <6>1 DEF Says, Names
        <5> QED
          BY <5>1, <5>2
      <4>3. m = Message("set", k, active[k].id) /\ held'[k] = active[k].id
        BY <1>2, <1>4, <1>5, <1>8, <3>1, <4>2 DEF Names, Message, Orders
      <4>4. /\ \A j \in OfKind(wire[c], k) : 1 < j => Names(wire[c][j], k)
            /\ \A n \in Unwritten(c, k) : Names(n, k)
        BY <1>2, <1>10, <2>4, <3>1, <4>3 DEF SetLast
      <4>5. \A n \in Todo(c, k)' : Names(n, k)
        <5>1. ASSUME NEW j \in OfKind(wire[c], k)' PROVE Names(wire'[c][j], k)
          <6>1. j + 1 \in OfKind(wire[c], k) /\ wire[c][j + 1] = wire'[c][j] /\ 1 < j + 1
            BY <1>3, <1>10 DEF OfKind
          <6> QED
            BY <4>4, <6>1
        <5> QED
          BY <1>3, <4>4, <5>1 DEF Todo
      <4> QED
        BY <4>3, <4>5
    <3>2. CASE ~(m.kind = k /\ Names(m, k))
      <4>1. i \in 0..Len(answers[c]) /\ Says(c, k, i)
        <5>1. i \notin 1..Len(answers[c]) => i = 0
          <6>1. a # Message("applied", k, active[k].id)
            BY <1>6, <3>2 DEF Names, Message
          <6> QED
            BY <1>1, <1>7, <1>9, <6>1 DEF Says
        <5>2. \A j \in OfKind(answers[c], k) : j \in OfKind(answers[c], k)' /\ answers'[c][j] = answers[c][j]
          BY <1>7 DEF OfKind
        <5> QED
          BY <1>1, <1>7, <1>9, <5>1, <5>2 DEF Says, Names
      <4>2. \A n \in Todo(c, k) : ~Names(n, k)
        <5>1. \A n \in Todo(c, k) : n = m \/ n \in Todo(c, k)'
          <6>1. \A j \in 1..Len(wire[c]) : j = 1 \/ (j - 1 \in 1..Len(rest) /\ wire'[c][j - 1] = wire[c][j])
            BY <1>2, <1>3
          <6>2. \A j \in OfKind(wire[c], k) : j = 1 \/ (j - 1 \in OfKind(wire[c], k)' /\ wire'[c][j - 1] = wire[c][j])
            BY <1>3, <6>1 DEF OfKind
          <6> QED
            BY <1>2, <1>3, <6>2 DEF Todo
        <5>2. m \in Todo(c, k) => m.kind = k
          BY DEF Todo, OfKind, Unwritten, Message
        <5> QED
          BY <3>2, <5>1, <5>2
      <4>3. held[k] = active[k].id /\ Todo(c, k) = {}
        BY <1>1, <2>4, <4>1, <4>2 DEF Kept
      <4> QED
        BY <1>8, <1>10, <4>3
    <3> QED
      BY <3>1, <3>2
  <2> QED
    BY <2>1, <2>7, <2>8, <2>9, <2>10
<1> QED
  BY <1>9, <1>11, <1>12 DEF Ordered

\* The current connection's next answer is read.
LEMMA AnswerOrdered ==
    ASSUME TypeOK, Structure, Ordered, NEW c \in Conns, ReadAnswer(c), ~disordered'
    PROVE  Ordered'
<1> DEFINE m == Head(answers[c])
           rest == Tail(answers[c])
<1> USE DEF linkVars
<1>1. /\ conn = c /\ c # None /\ place[c] = "serving"
      /\ answers[c] # <<>> /\ answers[c] \in Seq(Answers)
  BY Queued, LinkAssumption DEF ReadAnswer, Reads, TypeOK
<1>2. /\ m \in Answers /\ m = answers[c][1] /\ Len(answers[c]) \in Nat \ {0}
      /\ Len(rest) = Len(answers[c]) - 1
      /\ \A i \in 1..Len(rest) : i + 1 \in 1..Len(answers[c]) /\ rest[i] = answers[c][i + 1]
  BY <1>1, Shortened
<1>3. /\ answers'[c] = rest /\ \A d \in Conns : d # c => answers'[d] = answers[d]
      /\ UNCHANGED <<linkVars, copy, pending, wire, held>>
  BY DEF ReadAnswer, TypeOK
<1>4. m.kind \in Kinds /\ m.id \in Ids /\ m.do \in {"applied", "restored", "failed"}
  <2> HIDE DEF m
  <2> QED
    BY <1>2 DEF Answers
<1>5. /\ \A k \in Kinds : k # m.kind => active'[k] = active[k]
      /\ m.do = "applied" => active'[m.kind] = Applied(m.kind, m.id)
      /\ m.do = "restored" => active'[m.kind] = Restored(m.kind, m.id)
      /\ m.do = "failed" => active'[m.kind] = Failed(m.kind, m.id)
  BY <1>4 DEF ReadAnswer, TypeOK
<1>6. \A d \in Conns, k \in Kinds : Unwritten(d, k)' = Unwritten(d, k) /\ Todo(d, k)' = Todo(d, k)
                                    /\ OfKind(wire[d], k)' = OfKind(wire[d], k)
  BY <1>3 DEF Unwritten, Todo, OfKind
<1> HIDE DEF m, rest
<1>7. /\ \A k \in Kinds : \A i \in OfKind(answers[c], k)' :
             i \in Int /\ 1 < i + 1 /\ i + 1 \in OfKind(answers[c], k)
             /\ answers'[c][i] = answers[c][i + 1]
      /\ \A k \in Kinds : \A i \in OfKind(answers[c], k) :
             1 < i => i \in Int /\ i - 1 \in OfKind(answers[c], k)'
                      /\ answers'[c][i - 1] = answers[c][i]
      /\ \A k \in Kinds : m.kind = k <=> 1 \in OfKind(answers[c], k)
  <2>1. \A i \in 1..Len(answers[c]) : 1 < i => i - 1 \in 1..Len(rest) /\ rest[i - 1] = answers[c][i]
    BY <1>2
  <2> QED
    BY <1>2, <1>3, <2>1 DEF OfKind
<1>8. \A k \in Kinds : None \notin Active /\ active[k] \in Active \union {None}
  BY LinkAssumption DEF TypeOK
<1>9. ASSUME NEW k \in Kinds, active[k] = None
      PROVE  /\ held[k] = None
             /\ \A d \in Conns : \A i \in OfKind(wire[d], k) : wire[d][i].do # "set"
             /\ \A n \in Todo(c, k) : n.do # "set"
             /\ \A i \in OfKind(answers[c], k)' : answers'[c][i].do # "applied"
             /\ m.kind = k => m.do # "applied"
  <2>1. NoneHeld(k)
    BY DEF Ordered
  <2>2. \A i \in OfKind(answers[c], k) : answers[c][i].do # "applied"
    BY <1>1, <1>9, <2>1 DEF NoneHeld
  <2> QED
    BY <1>1, <1>2, <1>7, <1>9, <2>1, <2>2 DEF NoneHeld, Todo
<1>10. ASSUME NEW k \in Kinds, active[k] # None
       PROVE  /\ Consistent(c, k)
              /\ active'[k] = None => m = Message("restored", k, active[k].id)
              /\ active'[k] # None => active'[k].id = active[k].id
              /\ m.kind = k /\ m.id = Blank => active[k].id = Blank
              /\ active'[k] # None =>
                     \/ active'[k].status = active[k].status /\ ~(m.kind = k /\ m.id = active[k].id)
                     \/ m = Message(active'[k].status, k, active[k].id)
  <2>1. Consistent(c, k)
    BY <1>1 DEF Ordered
  <2>0. m.kind = k /\ m.id = Blank => active[k].id = Blank
    BY <1>10 DEF ReadAnswer, Mistaken, m
  <2>2. CASE m.kind = k /\ m.id = active[k].id
    <3>1. m.do = "applied" => active'[k] = [id |-> active[k].id, status |-> "applied"]
      BY <1>5, <1>10, <2>2 DEF Applied, Matches, Marked
    <3>2. m.do = "failed" => active'[k] = [id |-> active[k].id, status |-> "failed"]
      BY <1>5, <1>10, <2>2 DEF Failed, Matches, Marked
    <3>3. m.do = "restored" => active'[k] = None
      BY <1>5, <1>10, <2>2 DEF Restored, Matches
    <3>4. active[k].id \in Ids
      BY <1>4, <2>2
    <3>5. m = Message(m.do, m.kind, m.id)
      BY <1>2 DEF Answers, Message
    <3>6. \A s \in {"applied", "failed"} : [id |-> active[k].id, status |-> s] \in Active
      BY <3>4 DEF Active
    <3> QED
      BY <1>4, <1>8, <1>10, <2>0, <2>1, <2>2, <3>1, <3>2, <3>3, <3>5, <3>6
  <2>3. CASE ~(m.kind = k /\ m.id = active[k].id)
    <3>1. active'[k] = active[k]
      BY <1>4, <1>5, <1>10, <2>0, <2>3 DEF Applied, Restored, Failed, Matches
    <3> QED
      BY <1>10, <2>0, <2>1, <2>3, <3>1
  <2> QED
    BY <2>2, <2>3
<1>11. ASSUME NEW k \in Kinds PROVE NoneHeld(k)'
  <2> SUFFICES ASSUME active'[k] = None PROVE NoneHeld(k)'
    BY DEF NoneHeld
  <2>1. CASE active[k] = None
    BY <1>1, <1>3, <1>6, <1>9, <2>1 DEF NoneHeld, Todo
  <2>2. CASE active[k] # None
    <3>1. m = Message("restored", k, active[k].id) /\ RestoredLast(c, k)
      BY <1>10, <2>2 DEF Consistent
    <3>2. 1 \in OfKind(answers[c], k) /\ answers[c][1] = Message("restored", k, active[k].id)
      BY <1>2, <1>7, <3>1 DEF Message
    <3>3. /\ held[k] = None
          /\ \A j \in OfKind(answers[c], k) : 1 < j => answers[c][j].do # "applied"
          /\ \A n \in Todo(c, k) : n.do # "set"
      BY <3>1, <3>2 DEF RestoredLast
    <3>4. \A j \in OfKind(answers[c], k)' : answers'[c][j].do # "applied"
      BY <1>7, <3>3
    <3>5. \A d \in Conns : d # c => wire[d] = <<>>
      BY <1>1 DEF Structure, TypeOK
    <3>6. \A d \in Conns : \A i \in OfKind(wire[d], k) : wire[d][i].do # "set"
      BY <3>3, <3>5, EmptySeq DEF Todo, OfKind
    <3> QED
      BY <1>1, <1>3, <1>6, <3>3, <3>4, <3>6 DEF NoneHeld, Todo
  <2> QED
    BY <2>1, <2>2
<1>12. ASSUME NEW k \in Kinds PROVE Consistent(c, k)'
  <2>1. OneUnwritten(c, k)'
    BY <1>1, <1>6 DEF Ordered, Consistent, OneUnwritten
  <2>2. SUFFICES ASSUME active'[k] # None
                 PROVE  (RestoredLast(c, k) /\ SetLast(c, k) /\ MarkedBefore(c, k) /\ Kept(c, k))'
    BY <2>1 DEF Consistent
  <2>3. MarkedBefore(c, k)'
    BY <1>1, <1>3 DEF MarkedBefore
  <2>4. CASE active[k] = None
    <3>1. active'[k].status # "applied"
      BY <1>4, <1>5, <1>9, <2>2, <2>4 DEF Restored, Failed, Matches, Marked
    <3>2. RestoredLast(c, k)'
      BY <1>3, <1>6, <1>9, <2>4 DEF RestoredLast, OfKind, Message, Todo
    <3>3. SetLast(c, k)'
      BY <1>3, <1>6, <1>9, <2>4 DEF SetLast, Names, Message
    <3>4. Kept(c, k)'
      <4>1. ASSUME NEW i \in 0..Len(answers'[c]), Says(c, k, i)' PROVE FALSE
        <5>1. CASE i = 0
          BY <3>1, <4>1, <5>1 DEF Says
        <5>2. CASE i # 0
          <6>1. answers'[c][i] = Message("applied", k, active'[k].id) /\ i \in 1..Len(answers'[c])
            BY <4>1, <5>2 DEF Says
          <6>2. i \in OfKind(answers[c], k)' /\ answers'[c][i].do = "applied"
            BY <6>1 DEF OfKind, Message
          <6> QED
            BY <1>9, <2>4, <6>2
        <5> QED
          BY <5>1, <5>2
      <4> QED
        BY <4>1 DEF Kept
    <3> QED
      BY <2>3, <3>2, <3>3, <3>4
  <2>5. CASE active[k] # None
    <3>1. /\ RestoredLast(c, k) /\ SetLast(c, k) /\ Kept(c, k) /\ active'[k].id = active[k].id
      BY <1>10, <2>2, <2>5 DEF Consistent
    <3>2. RestoredLast(c, k)'
      <4>1. ASSUME NEW i \in OfKind(answers[c], k)',
                   answers'[c][i] = Message("restored", k, active[k].id)
            PROVE  /\ held[k] = None
                   /\ \A j \in OfKind(answers[c], k)' : i < j => answers'[c][j].do # "applied"
                   /\ \A n \in Todo(c, k) : n.do # "set"
        <5>1. i \in Int /\ i + 1 \in OfKind(answers[c], k) /\ answers[c][i + 1] = answers'[c][i]
          BY <1>7
        <5>2. /\ held[k] = None
              /\ \A j \in OfKind(answers[c], k) : i + 1 < j => answers[c][j].do # "applied"
              /\ \A n \in Todo(c, k) : n.do # "set"
          BY <3>1, <4>1, <5>1 DEF RestoredLast
        <5>3. ASSUME NEW j \in OfKind(answers[c], k)', i < j PROVE answers'[c][j].do # "applied"
          <6>1. j \in Int /\ j + 1 \in OfKind(answers[c], k) /\ answers[c][j + 1] = answers'[c][j]
            BY <1>7
          <6> QED
            BY <5>1, <5>2, <5>3, <6>1
        <5> QED
          BY <5>2, <5>3
      <4>2. \A i \in OfKind(wire[c], k) : wire[c][i] = Message("restore", k, active[k].id) =>
              /\ \A j \in OfKind(wire[c], k) : i < j => wire[c][j].do # "set"
              /\ \A n \in Unwritten(c, k) : n.do # "set"
        BY <3>1 DEF RestoredLast
      <4> QED
        BY <1>3, <1>6, <3>1, <4>1, <4>2 DEF RestoredLast
    <3>3. SetLast(c, k)'
      BY <1>3, <1>6, <3>1 DEF SetLast, Names
    <3>4. ASSUME NEW i \in 0..Len(answers'[c]), Says(c, k, i)'
          PROVE  \E j \in 0..Len(answers[c]) : Says(c, k, j)
      <4>1. \A j \in OfKind(answers[c], k) :
                i + 1 < j /\ Names(answers[c][j], k) => answers[c][j].do = "applied"
        <5> SUFFICES ASSUME NEW j \in OfKind(answers[c], k), i + 1 < j,
                            Names(answers[c][j], k)
                     PROVE  answers[c][j].do = "applied"
          OBVIOUS
        <5>0. 1 < j /\ i < j - 1
          BY <1>2, <1>3 DEF OfKind
        <5>1. j - 1 \in OfKind(answers[c], k)' /\ answers'[c][j - 1] = answers[c][j]
          BY <1>7, <5>0
        <5> QED
          BY <3>1, <3>4, <5>0, <5>1 DEF Says, Names
      <4>2. CASE i # 0
        <5>1. i + 1 \in 1..Len(answers[c]) /\ answers[c][i + 1] = Message("applied", k, active[k].id)
          BY <1>2, <1>3, <3>1, <3>4, <4>2 DEF Says
        <5>2. Says(c, k, i + 1)
          BY <4>1, <4>2, <5>1 DEF Says
        <5> QED
          BY <5>1, <5>2
      <4>3. CASE i = 0 /\ m.kind = k /\ m.id = active[k].id
        <5>1. m = Message("applied", k, active[k].id)
          BY <1>10, <2>2, <2>5, <3>4, <4>3 DEF Says
        <5>2. Says(c, k, 1) /\ 1 \in 0..Len(answers[c])
          BY <1>2, <4>1, <4>3, <5>1 DEF Says
        <5> QED
          BY <5>2
      <4>4. CASE i = 0 /\ ~(m.kind = k /\ m.id = active[k].id)
        <5>1. active[k].status = "applied" /\ place[c] = "serving"
          <6>1. m = Message(active'[k].status, k, active[k].id) => m.kind = k /\ m.id = active[k].id
            BY DEF Message
          <6> QED
            BY <1>1, <1>10, <2>2, <2>5, <3>4, <4>4, <6>1 DEF Says
        <5>2. \A j \in OfKind(answers[c], k) :
                  Names(answers[c][j], k) => answers[c][j].do = "applied"
          <6> TAKE j \in OfKind(answers[c], k)
          <6>1. CASE j = 1
            BY <1>2, <1>7, <1>10, <2>5, <4>4, <6>1 DEF Names
          <6>2. CASE j # 1
            BY <1>2, <4>1, <4>4, <6>2 DEF OfKind
          <6> QED
            BY <6>1, <6>2
        <5>3. Says(c, k, 0) /\ 0 \in 0..Len(answers[c])
          BY <1>2, <5>1, <5>2 DEF Says
        <5> QED
          BY <5>3
      <4> QED
        BY <4>2, <4>3, <4>4
    <3>5. Kept(c, k)'
      BY <1>3, <1>6, <3>1, <3>4 DEF Kept, Names
    <3> QED
      BY <2>3, <3>2, <3>3, <3>5
  <2> QED
    BY <2>4, <2>5
<1> QED
  BY <1>1, <1>3, <1>11, <1>12 DEF Ordered

\* A connection that ends, on either side, takes what was on its way with it.
LEMMA EndOrdered ==
    ASSUME TypeOK, Structure, Ordered,
           (\E c \in Conns : EndsReading(c) \/ CloseStale(c) \/ ExtensionStops(c)) \/ Disconnect
    PROVE  Ordered'
<1> USE DEF linkVars, controlVars
<1>1. CASE Disconnect
  <2>1. conn' = None /\ UNCHANGED <<active, held, wire>>
    BY <1>1 DEF Disconnect
  <2>2. \A k \in Kinds : NoneHeld(k)'
    BY <2>1 DEF NoneHeld, OfKind, Ordered
  <2> QED
    BY <2>1, <2>2, LinkAssumption DEF Ordered
<1>2. ASSUME NEW c \in Conns, EndsReading(c) PROVE Ordered'
  <2>1. /\ \A d \in Conns : conn' = d => conn = d /\ d # c
        /\ \A d \in Conns : d # c => answers'[d] = answers[d] /\ place'[d] = place[d]
        /\ closed \subseteq closed'
        /\ conn' # None => conn' = conn /\ conn \in Conns
        /\ UNCHANGED <<peer, active, copy, pending, wire, held>>
    BY <1>2, LinkAssumption DEF EndsReading, ConnWithout, TypeOK
  <2>2. \A d \in Conns, k \in Kinds : Unwritten(d, k)' = Unwritten(d, k)
    BY <2>1 DEF Unwritten
  <2>3. ASSUME NEW k \in Kinds PROVE NoneHeld(k)'
    BY <2>1, <2>2 DEF NoneHeld, OfKind, Ordered
  <2>4. ASSUME NEW d \in Conns, conn' = d, NEW k \in Kinds PROVE Consistent(d, k)'
    BY <2>1, <2>2, <2>4, SameConsistent DEF Ordered
  <2> QED
    BY <2>3, <2>4 DEF Ordered
<1>3. ASSUME NEW c \in Conns, CloseStale(c) PROVE Ordered'
  <2>1. /\ closed \subseteq closed'
        /\ UNCHANGED <<conn, place, peer, active, copy, pending, wire, answers, held>>
    BY <1>3 DEF CloseStale
  <2>2. \A d \in Conns, k \in Kinds : Unwritten(d, k)' = Unwritten(d, k)
    BY <2>1 DEF Unwritten
  <2>3. ASSUME NEW k \in Kinds PROVE NoneHeld(k)'
    BY <2>1, <2>2 DEF NoneHeld, OfKind, Ordered, TypeOK
  <2>4. ASSUME NEW d \in Conns, conn' = d, NEW k \in Kinds PROVE Consistent(d, k)'
    BY <2>1, <2>2, <2>4, SameConsistent DEF Ordered
  <2> QED
    BY <2>3, <2>4 DEF Ordered
<1>4. ASSUME NEW c \in Conns, ExtensionStops(c) PROVE Ordered'
  <2>1. /\ peer[c] \in {"alive", "cut"} /\ peer'[c] # "alive" /\ wire'[c] = <<>>
        /\ \A d \in Conns : d # c => wire'[d] = wire[d]
        /\ \A k \in Kinds : held'[k] = held[k] \/ held'[k] = None
        /\ UNCHANGED <<conn, place, closed, active, copy, pending, answers>>
    BY <1>4 DEF ExtensionStops, Nothing, TypeOK
  <2>2. \A d \in Conns, k \in Kinds : Unwritten(d, k)' = Unwritten(d, k)
    BY <2>1 DEF Unwritten
  <2>3. ASSUME NEW k \in Kinds PROVE NoneHeld(k)'
    <3>1. NoneHeld(k)
      BY DEF Ordered
    <3>2. \A d \in Conns : OfKind(wire[d], k)' \subseteq OfKind(wire[d], k)
                           /\ \A i \in OfKind(wire[d], k)' : wire'[d][i] = wire[d][i]
      BY <2>1, EmptySeq DEF OfKind
    <3>3. conn # None => Unwritten(conn, k)' = Unwritten(conn, k)
      BY <2>1, <2>2 DEF TypeOK
    <3> QED
      BY <2>1, <3>1, <3>2, <3>3 DEF NoneHeld, OfKind
  <2>4. ASSUME NEW d \in Conns, conn' = d, NEW k \in Kinds PROVE Consistent(d, k)'
    <3>1. d = c /\ Consistent(c, k)
      BY <2>1, <2>4 DEF Structure, Ordered
    <3>2. Todo(c, k)' \subseteq Todo(c, k) /\ OfKind(wire[c], k)' = {}
      BY <2>1, <2>2, EmptySeq DEF Todo, OfKind
    <3>3. OneUnwritten(c, k)' /\ SetLast(c, k)' /\ Kept(c, k)'
      BY <2>1, <2>2, <3>1, <3>2 DEF Consistent, OneUnwritten, SetLast, Kept
    <3>4. active[k] # None => RestoredLast(c, k)' /\ MarkedBefore(c, k)'
      BY <2>1, <2>2, <3>1, <3>2 DEF Consistent, RestoredLast, MarkedBefore, OfKind
    <3>5. Consistent(c, k)'
      BY <2>1, <3>3, <3>4 DEF Consistent
    <3> QED
      BY <3>1, <3>5
  <2> QED
    BY <2>3, <2>4 DEF Ordered
<1> QED
  BY <1>1, <1>2, <1>3, <1>4

\* Without disorder every step keeps the order.
LEMMA StepOrdered ==
    TypeOK /\ OneConnection /\ Structure /\ Numbered /\ (~disordered => Ordered) /\ [Next]_vars
        => (~disordered' => Ordered')
<1> SUFFICES ASSUME TypeOK, OneConnection, Structure, Numbered, ~disordered => Ordered,
                    [Next]_vars, ~disordered'
             PROVE  Ordered'
  OBVIOUS
<1> USE DEF linkVars, controlVars
<1>1. ~disordered
  BY DEF Next, Serve, Register, CopyActive, Republish, ReadAnswer, ReadFails, PongFails,
         EndsReading, FindStale, CloseStale, MarkPing, ExtensionActs, ExtensionStops, Set, Restore, Begin, Write,
         TimePasses, Disconnect, vars
<1>2. CASE UNCHANGED <<conn, place, closed, peer, active, copy, pending, wire, answers, held>>
  <2>1. \A c \in Conns, k \in Kinds : Unwritten(c, k)' = Unwritten(c, k)
    BY <1>2 DEF Unwritten
  <2>2. ASSUME NEW k \in Kinds PROVE NoneHeld(k)'
    BY <1>1, <1>2, <2>1 DEF NoneHeld, OfKind, Ordered, TypeOK
  <2>3. ASSUME NEW c \in Conns, conn' = c, NEW k \in Kinds PROVE Consistent(c, k)'
    BY <1>1, <1>2, <2>1, <2>3, SameConsistent DEF Ordered
  <2> QED
    BY <2>2, <2>3 DEF Ordered
<1>3. ASSUME NEW c \in Conns, FindStale(c) \/ MarkPing(c) PROVE Ordered'
  BY <1>2, <1>3 DEF FindStale, MarkPing
<1>4. CASE TimePasses \/ UNCHANGED vars
  BY <1>2, <1>4 DEF TimePasses, vars
<1> QED
  BY <1>1, <1>3, <1>4, RegisterOrdered, CopyOrdered, RepublishOrdered, AnswerOrdered,
     EndOrdered, ActsOrdered, SetOrdered, RestoreOrdered, WriteOrdered
     DEF Next, Serve, ReadFails, PongFails

-----------------------------------------------------------------------------
(* Theorems *)

\* The invariant holds at the start, and every step keeps it.
THEOREM SpecIInv == Spec => []IInv
<1>1. Init => IInv
  <2> SUFFICES ASSUME Init PROVE IInv
    OBVIOUS
  <2>1. wire \in [Conns -> Seq(Orders)] /\ answers \in [Conns -> Seq(Answers)]
    BY EmptySeq DEF Init
  <2>2. /\ active \in [Kinds -> Active \union {None}]
        /\ copy \in [Conns -> [Kinds -> Ids \union {None}]]
        /\ held \in [Kinds -> Ids \union {None}]
    BY DEF Init, Nothing
  <2>3. sent \in 0..MaxCommands
    BY LinkAssumption DEF Init
  <2>4. TypeOK
    BY <2>1, <2>2, <2>3 DEF Init, TypeOK
  <2>5. OneConnection
    BY LinkAssumption DEF Init, Busy, OneConnection
  <2>6. Structure
    BY LinkAssumption DEF Init, Structure
  <2>7. Numbered
    BY EmptySeq DEF Init, Nothing, Numbered
  <2>8. Ordered
    BY LinkAssumption, EmptySeq DEF Init, Nothing, NoneHeld, OfKind, Ordered
  <2> QED
    BY <2>4, <2>5, <2>6, <2>7, <2>8 DEF IInv
<1>2. IInv /\ [Next]_vars => IInv'
  BY StepTypeOK, StepOneConnection, StepStructure, StepNumbered, StepOrdered DEF IInv
<1> QED
  BY <1>1, <1>2, PTL DEF Spec

\* Every variable keeps its type: a snapshot id is always that of a command.
THEOREM TypeCorrect == Spec => []TypeOK
<1>1. IInv => TypeOK
  BY DEF IInv
<1> QED
  BY <1>1, SpecIInv, PTL

\* At most one connection is read and not closed, it is the current one, and the current
\* one has a goroutine that will clear it, for any number of connections.
THEOREM SoleConnection == Spec => []OneConnection
<1>1. IInv => OneConnection
  BY DEF IInv
<1> QED
  BY <1>1, SpecIInv, PTL

\* Once nothing is under way, on a connection no write has failed on, the daemon reports
\* applied only what the extension holds, and nothing only if it holds nothing, for any number
\* of connections and commands, except after one of the five disorders Agreement names.
THEOREM Agrees == Spec => []Agreement
<1>1. IInv => Agreement
  <2> SUFFICES ASSUME IInv, NEW c \in Conns, Settled(c), ~disordered, NEW k \in Kinds
               PROVE  /\ active[k] = None => held[k] = None
                      /\ active[k] # None /\ active[k].status = "applied" =>
                             held[k] = active[k].id
    BY DEF Agreement
  <2>1. NoneHeld(k) /\ (active[k] # None => Kept(c, k))
    BY DEF IInv, Ordered, Consistent, Settled
  <2>2. Todo(c, k) = {}
    BY EmptySeq DEF Settled, Reads, Nothing, Todo, OfKind, Unwritten
  <2>3. active[k] # None /\ active[k].status = "applied" => Says(c, k, 0)
    BY EmptySeq DEF Settled, Reads, Says, OfKind
  <2>4. 0 \in 0..Len(answers[c])
    BY EmptySeq DEF Settled
  <2> QED
    BY <2>1, <2>2, <2>3, <2>4 DEF NoneHeld, Kept, Settled
<1> QED
  BY <1>1, SpecIInv, PTL

\* What the daemon takes for not restricted is not: while the extension holds a scope or
\* gates the daemon has some active, whatever is on its way and whichever writes have failed
\* (handleScopeRestored), except after one of the disorders Agreement names.
NothingHeldUnknown == ~disordered => \A k \in Kinds : held[k] # None => active[k] # None

\* So it is at every moment, not only once all is settled.
THEOREM HeldIsKnown == Spec => []NothingHeldUnknown
<1>1. IInv => NothingHeldUnknown
  BY DEF IInv, Ordered, NoneHeld, NothingHeldUnknown
<1> QED
  BY <1>1, SpecIInv, PTL
=============================================================================
