--------------------------- MODULE MCExecCommands ---------------------------
(* ExecCommands on two deliveries, with the same command id or different    *)
(* ones.  Ids are interchangeable, so d1 may as well carry i1.  Deliveries  *)
(* are too, and meet only in the registry: it is enough that one streams.   *)
EXTENDS ExecCommands

CONSTANTS d1, i1

MCInit == Init /\ idOf[d1] = i1
MCSpec == MCInit /\ [][Next]_vars
MCFairSpec == MCSpec /\ Fairness

OnlyD1Streams == \A d \in Deliveries \ {d1} : ~Output(d)
=============================================================================
