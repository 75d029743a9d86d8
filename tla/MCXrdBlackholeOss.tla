------------------------- MODULE MCXrdBlackholeOss -------------------------
(* Instances of XrdBlackholeOss for TLC. *)
EXTENDS XrdBlackholeOss, TLC

\* Handles are interchangeable, and so are paths.
Symmetry == Permutations(Handles) \cup Permutations(Paths)
=============================================================================
