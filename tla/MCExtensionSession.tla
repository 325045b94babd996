------------------------- MODULE MCExtensionSession -------------------------
(* ExtensionSession on a few upgrade requests and pairing commands.          *)
EXTENDS ExtensionSession, TLC

Symmetry == Permutations(Requests) \union Permutations(Commands)
=============================================================================
