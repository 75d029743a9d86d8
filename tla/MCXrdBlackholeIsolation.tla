---------------------- MODULE MCXrdBlackholeIsolation -----------------------
(* An instance of XrdBlackholeIsolation for TLC. *)
EXTENDS XrdBlackholeIsolation, TLC

\* Handles are interchangeable, and so are paths.
Symmetry == Permutations(Handles) \cup Permutations(Paths)

\* Before the file and at its start.
MCOffsets == {-1, 0}
=============================================================================
