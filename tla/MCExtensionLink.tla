--------------------------- MODULE MCExtensionLink ---------------------------
(* ExtensionLink on two connections and two commands, both about the scope   *)
(* or both about the gates: the two never meet but in republishing.  Once    *)
(* they are disordered nothing is claimed of them: no command begins then    *)
(* and the extension does nothing with what it is told.  No connection       *)
(* depends on either.                                                        *)
EXTENDS ExtensionLink

Untouched(k) == active[k] = None /\ held[k] = None /\ \A p \in pending : p.order.kind # k

OneKind == \E k \in Kinds : Untouched(k)

OnlyWhileOrdered == disordered => sent' = sent /\ \A c \in Conns : ~ExtensionActs(c)
=============================================================================
