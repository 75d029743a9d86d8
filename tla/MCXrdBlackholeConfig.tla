------------------------ MODULE MCXrdBlackholeConfig ------------------------
(* Instances of XrdBlackholeConfig for TLC: 1024 becomes 2, 2^64 becomes 2^8. *)
EXTENDS XrdBlackholeConfig

MCPaths == {"/p", "/f_%d", "/f_0", "/f_1", "/l_%d", "/l_0", "/d/1M", "/d/1G", "/d/10G"}

Plain    == [text |-> "/p", expand |-> <<>>]
Single   == [text |-> "/f_0", expand |-> <<>>]
Numbered == [text |-> "/f_%d", expand |-> <<"/f_0", "/f_1">>]
\* The expansion grows by a digit and no longer fits.
Growing  == [text |-> "/l_%d", expand |-> <<"/l_0", TooLong>>]

Arg(path, size, suffix, count, type) ==
    [path |-> path, size |-> size, suffix |-> suffix, count |-> count, type |-> type]

MCFileSizes    == 0..255
MCSpeedArgs    == {NoNumber, <<3>>, <<-1>>, <<300>>}
MCDefaultsArgs == {<<"/d/1M", "/d/1G", "/d/10G">>}

\* Files named twice, a numbered family, one that outgrows the buffer, a size
\* whose product is the word (16777216T is, of 64 bits), a negative one, which
\* wraps, and every way to be rejected.
MCSeedArgs ==
    {Arg(Plain, <<3>>, "t", <<1>>, "zeros"),
     Arg(Plain, <<5>>, "", <<1>>, "random"),
     Arg(Single, <<1>>, "k", <<1>>, "zeros"),
     Arg(Numbered, <<7>>, "m", <<2>>, "random"),
     Arg(Growing, <<1>>, "g", <<2>>, "zeros"),
     Arg(Single, <<16>>, "t", <<1>>, "zeros"),
     Arg(Single, <<-1>>, "", <<1>>, "random"),
     Arg(Plain, NoNumber, "", <<1>>, "zeros"),
     Arg(Plain, <<256>>, "", <<1>>, "zeros"),
     Arg(Plain, <<1>>, "x", <<1>>, "zeros"),
     Arg(Plain, <<1>>, "", <<0>>, "zeros"),
     Arg(Plain, <<1>>, "", <<2>>, "zeros"),
     Arg(Plain, <<1>>, "", <<1>>, "ones")}

\* The hypothesis of the seeding theorems holds of this instance.
ASSUME SinglesInstance == SinglesPlain
=============================================================================
