---------------------------- MODULE MCBrainLink ----------------------------
(* BrainLink on a small instance: a handler, one place in sendCh, a drain   *)
(* loop of one, delays 1 and 2 (capped).  The safety properties are proved  *)
(* for every instance in BrainLink_proofs.                                  *)
EXTENDS BrainLink
=============================================================================
