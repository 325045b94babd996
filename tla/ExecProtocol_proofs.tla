------------------------ MODULE ExecProtocol_proofs ------------------------
(***************************************************************************)
(* The protocol of ExecProtocol yields well-formed transcripts, for every  *)
(* set of commands.  Transcript alone is not inductive: that an output may *)
(* be appended, or an ending, depends on what the phase says of the        *)
(* messages already queued (Fits).                                         *)
(***************************************************************************)
EXTENDS ExecProtocol, TLAPS

Messages == {"started", "output"} \union Endings

Types ==
    /\ phase \in [Commands -> {"pending", "running", "killed", "closed"}]
    /\ asked \subseteq Commands
    /\ sent \in [Commands -> Seq(Messages)]

\* An ending among the messages is a killed one, as the command asked for.
OnlyKilled(c) ==
    \A i \in 1 .. Len(sent[c]) :
        sent[c][i] \in Endings => sent[c][i] = "killed" /\ c \in asked

\* The messages are those of the phase.
Fits(c) ==
    /\ phase[c] = "pending" => Len(sent[c]) = 0
    /\ phase[c] = "running" => \A i \in 1 .. Len(sent[c]) : sent[c][i] \notin Endings
    /\ phase[c] = "killed" => OnlyKilled(c)

\* Until the shutdown, a command past "pending" has begun with "started".
Begun(c) ==
    ~over /\ phase[c] # "pending" => Len(sent[c]) > 0 /\ sent[c][1] = "started"

IInv == Types /\ \A c \in Commands : InOrder(c) /\ Fits(c) /\ Begun(c)

-----------------------------------------------------------------------------
\* Telling a command something extends its messages by that, or leaves them while
\* shutting down, and touches no other command's.
LEMMA TellsAppends ==
    ASSUME Types, NEW c \in Commands, NEW what \in Messages, Tells(c, what)
    PROVE  /\ sent' \in [Commands -> Seq(Messages)]
           /\ \A d \in Commands \ {c} : sent'[d] = sent[d]
           /\ \/ /\ Len(sent'[c]) = Len(sent[c]) + 1
                 /\ sent'[c][Len(sent[c]) + 1] = what
                 /\ \A i \in 1 .. Len(sent[c]) : sent'[c][i] = sent[c][i]
              \/ over /\ sent'[c] = sent[c]
<1>1. sent \in [Commands -> Seq(Messages)] /\ sent[c] \in Seq(Messages)
  BY DEF Types
<1>2. CASE sent' = [sent EXCEPT ![c] = Append(@, what)]
  <2>1. Append(sent[c], what) \in Seq(Messages)
    BY <1>1
  <2>2. sent'[c] = Append(sent[c], what) /\ \A d \in Commands \ {c} : sent'[d] = sent[d]
    BY <1>1, <1>2
  <2> QED
    BY <1>1, <1>2, <2>1, <2>2
<1>3. CASE over /\ UNCHANGED sent
  BY <1>1, <1>3
<1> QED
  BY <1>2, <1>3 DEF Tells

\* A command keeps what is known of it when it is told "started" before anything else,
\* or, begun and not ended but by a kill, output; or when it is ended in its run.
LEMMA TellsKeeps ==
    ASSUME IInv, NEW c \in Commands, NEW what \in Messages, Tells(c, what),
           UNCHANGED <<asked, over>>, Types',
           \A d \in Commands \ {c} : phase'[d] = phase[d],
           phase[c] = "pending" <=> what = "started", phase[c] # "closed",
           phase[c] = "killed" => what = "output",
           phase'[c] # "pending",
           phase'[c] = "running" => phase[c] # "killed" /\ what \notin Endings,
           phase'[c] = "killed" /\ what \in Endings => what = "killed" /\ c \in asked
    PROVE  IInv'
<1>1. /\ \A d \in Commands \ {c} : sent'[d] = sent[d]
      /\ \/ /\ Len(sent'[c]) = Len(sent[c]) + 1
            /\ sent'[c][Len(sent[c]) + 1] = what
            /\ \A i \in 1 .. Len(sent[c]) : sent'[c][i] = sent[c][i]
         \/ over /\ sent'[c] = sent[c]
  BY TellsAppends DEF IInv
<1>2. InOrder(c) /\ Fits(c) /\ Begun(c) /\ Len(sent[c]) \in Nat
  BY DEF IInv, Types
<1>3. \A i \in 1 .. Len(sent[c]) :
          sent[c][i] \in Endings => sent[c][i] = "killed" /\ c \in asked /\ what = "output"
  BY <1>2 DEF IInv, Types, Fits, OnlyKilled
<1>4. ASSUME NEW d \in Commands \ {c}
      PROVE  InOrder(d)' /\ Fits(d)' /\ Begun(d)'
  <2>1. InOrder(d) /\ Fits(d) /\ Begun(d) /\ sent'[d] = sent[d] /\ phase'[d] = phase[d]
    BY <1>1, <1>4 DEF IInv
  <2> QED
    BY <2>1 DEF InOrder, Fits, OnlyKilled, Begun
<1>5. CASE over /\ sent'[c] = sent[c]
  <2>1. InOrder(c)' /\ Begun(c)'
    BY <1>2, <1>5 DEF InOrder, Begun
  <2>2. Fits(c)'
    BY <1>2, <1>3, <1>5 DEF Fits, OnlyKilled, IInv, Types
  <2> QED
    BY <1>4, <2>1, <2>2 DEF IInv
<1>6. CASE /\ Len(sent'[c]) = Len(sent[c]) + 1
           /\ sent'[c][Len(sent[c]) + 1] = what
           /\ \A i \in 1 .. Len(sent[c]) : sent'[c][i] = sent[c][i]
  <2> DEFINE n == Len(sent[c])
  <2>1. ASSUME NEW i \in 1 .. n + 1, NEW j \in 1 .. n + 1, i < j
        PROVE  /\ sent'[c][j] # "started"
               /\ sent'[c][i] \in Endings =>
                      sent'[c][i] = "killed" /\ c \in asked /\ sent'[c][j] = "output"
    <3>1. i \in 1 .. n /\ sent'[c][i] = sent[c][i]
      BY <1>2, <1>6, <2>1
    <3>2. CASE j = n + 1
      BY <1>2, <1>3, <1>6, <2>1, <3>1, <3>2 DEF Fits
    <3>3. CASE j \in 1 .. n
      BY <1>2, <1>6, <2>1, <3>1, <3>3 DEF InOrder
    <3> QED
      BY <1>2, <2>1, <3>2, <3>3
  <2>2. InOrder(c)'
    BY <1>6, <2>1 DEF InOrder
  <2>3. ASSUME NEW i \in 1 .. n + 1
        PROVE  /\ phase'[c] = "running" => sent'[c][i] \notin Endings
               /\ phase'[c] = "killed" /\ sent'[c][i] \in Endings =>
                      sent'[c][i] = "killed" /\ c \in asked
    <3>1. CASE i = n + 1
      BY <1>6, <3>1
    <3>2. CASE i \in 1 .. n
      BY <1>2, <1>3, <1>6, <3>2 DEF Fits, Endings, IInv, Types
    <3> QED
      BY <1>2, <2>3, <3>1, <3>2
  <2>4. Fits(c)'
    BY <1>6, <2>3 DEF Fits, OnlyKilled
  <2>5. Begun(c)'
    BY <1>2, <1>6 DEF Begun, Fits
  <2> QED
    BY <1>4, <2>2, <2>4, <2>5 DEF IInv
<1> QED
  BY <1>1, <1>5, <1>6

\* Every step keeps the invariant.
THEOREM StepIInv == IInv /\ [Next]_vars => IInv'
<1> SUFFICES ASSUME IInv, [Next]_vars
             PROVE  IInv'
  OBVIOUS
<1>0. Types
  BY DEF IInv
<1>1. ASSUME NEW c \in Commands, Start(c)
      PROVE  IInv'
  <2>1. /\ Tells(c, "started") /\ Moves(c, "pending", "running")
        /\ UNCHANGED <<asked, over>> /\ "started" \in Messages
    BY <1>1 DEF Start, Messages
  <2>2. Types'
    BY <1>0, <2>1, TellsAppends DEF Types, Moves
  <2> QED
    BY <1>0, <2>1, <2>2, TellsKeeps DEF Moves, Types, Endings
<1>2. ASSUME NEW c \in Commands, Stream(c)
      PROVE  IInv'
  <2>1. /\ Tells(c, "output") /\ phase[c] \in {"running", "killed"}
        /\ UNCHANGED <<phase, asked, over>> /\ "output" \in Messages
    BY <1>2 DEF Stream, Messages
  <2>2. Types'
    BY <1>0, <2>1, TellsAppends DEF Types
  <2> QED
    BY <1>0, <2>1, <2>2, TellsKeeps DEF Endings
<1>3. ASSUME NEW c \in Commands, Finish(c)
      PROVE  IInv'
  <2>1. /\ Tells(c, "result") /\ Moves(c, "running", "closed")
        /\ UNCHANGED <<asked, over>> /\ "result" \in Messages
    BY <1>3 DEF Finish, Messages, Endings
  <2>2. Types'
    BY <1>0, <2>1, TellsAppends DEF Types, Moves
  <2> QED
    BY <1>0, <2>1, <2>2, TellsKeeps DEF Moves, Types
<1>4. ASSUME NEW c \in Commands, Abandon(c)
      PROVE  IInv'
  <2>1. PICK to \in {"killed", "closed"} : Moves(c, "running", to)
    BY <1>4 DEF Abandon
  <2>2. /\ Tells(c, "killed") /\ c \in asked
        /\ UNCHANGED <<asked, over>> /\ "killed" \in Messages
    BY <1>4 DEF Abandon, Messages, Endings
  <2>3. Types'
    BY <1>0, <2>1, <2>2, TellsAppends DEF Types, Moves
  <2> QED
    BY <1>0, <2>1, <2>2, <2>3, TellsKeeps DEF Moves, Types
<1>5. ASSUME NEW c \in Commands, FallSilent(c)
      PROVE  IInv'
  BY <1>5 DEF FallSilent, Moves, IInv, Types, InOrder, Fits, OnlyKilled, Begun
<1>6. ASSUME NEW C \in SUBSET Commands, AskToStop(C)
      PROVE  IInv'
  BY <1>6 DEF AskToStop, IInv, Types, InOrder, Fits, OnlyKilled, Begun
<1>7. ASSUME ShutDown
      PROVE  IInv'
  BY <1>7 DEF ShutDown, IInv, Types, InOrder, Fits, OnlyKilled, Begun
<1>8. ASSUME UNCHANGED vars
      PROVE  IInv'
  BY <1>8 DEF vars, IInv, Types, InOrder, Fits, OnlyKilled, Begun
<1> QED
  BY <1>1, <1>2, <1>3, <1>4, <1>5, <1>6, <1>7, <1>8 DEF Next

\* What is queued of a command is well formed (Transcript), whatever the brain asks to
\* stop and when; and any part of it that reaches the brain is in order.
THEOREM TranscriptHolds == Spec => []Transcript
<1>1. Init => IInv
  BY DEF Init, IInv, Types, InOrder, Fits, OnlyKilled, Begun, Messages
<1>2. IInv => Transcript
  <2> SUFFICES ASSUME IInv, NEW c \in Commands
               PROVE  InOrder(c) /\ (~over /\ sent[c] # <<>> => sent[c][1] = "started")
    BY DEF Transcript
  <2>1. InOrder(c) /\ Fits(c) /\ Begun(c) /\ sent[c] \in Seq(Messages)
    BY DEF IInv, Types
  <2>2. Len(sent[c]) = 0 => sent[c] = <<>>
    BY <2>1
  <2> QED
    BY <2>1, <2>2 DEF Fits, Begun
<1> QED
  BY <1>1, <1>2, StepIInv, PTL DEF Spec
=============================================================================
