------------------------ MODULE MCXrdBlackholeOssDir ------------------------
(* Instances of XrdBlackholeOssDir for TLC. *)
EXTENDS XrdBlackholeOssDir

\* Files in the root, in /a and below it, in the order of std::map.
InOrder == << <<"", "a", "long">>, <<"", "a", "x">>, <<"", "a", "x", "y">>, <<"", "b">> >>

MCPaths == ToSet(InOrder)

\* The root, and /a with and without a trailing slash.
MCDirPaths == {Root, <<"", "a">>, <<"", "a", "">>}

MCMapOrder == {<<InOrder[i], InOrder[j]>> : <<i, j>> \in {ij \in (1..4) \X (1..4) : ij[1] < ij[2]}}

MCNameLen == [n \in {"", "a", "b", "x", "y", "long"} |->
                 CASE n = "" -> 0 [] n = "long" -> 4 [] OTHER -> 1]

\* The hypothesis of the listing theorems holds of this instance.
ASSUME NormalInstance == NormalPaths
=============================================================================
