----------------------------- MODULE MCSandbox -----------------------------
(* Sandbox on two scans, which may share a container name, three creates    *)
(* and one destroy; scans, names and operations are interchangeable.       *)
EXTENDS Sandbox, TLC

Symmetry == Permutations(Scans) \union Permutations(Names)
            \union Permutations(Creates) \union Permutations(Destroys)
=============================================================================
