------------------------- MODULE XrdBlackholeOssDir -------------------------
(***************************************************************************)
(* Directory handles (XrdBlackholeOssDir.hh and .cc) over the namespace,   *)
(* which other requests go on changing while a listing is read.            *)
(*                                                                         *)
(* A path is the sequence of what stands between its slashes: "/a/b" is    *)
(* <<"", "a", "b">>, "/a/" is <<"", "a", "">>, "/" is <<"", "">> and "a" is *)
(* <<"a">>.  Of the order of std::map only the relation MapOrder is kept,  *)
(* of a name its length.                                                   *)
(***************************************************************************)
EXTENDS BlackholeFS, FiniteSets, SequencesExt

CONSTANTS
    DirHandles, \* XrdBlackholeOssDir objects
    DirPaths,   \* the paths clients list
    MapOrder,   \* the pairs <<p, q>> of Paths with p before q in m_files
    NameLen,    \* name -> its length
    BufLens     \* the buffer lengths of Readdir requests

ASSUME DirAssumption ==
    /\ Paths \cup DirPaths \subseteq Seq(DOMAIN NameLen) \ {<<>>}
    /\ \A p \in Paths : <<p, p>> \notin MapOrder
    /\ NameLen \in [DOMAIN NameLen -> Nat]
    /\ BufLens \subseteq Nat \ {0}

VARIABLES
    dir,    \* the members of each handle
    client  \* what each handle's client asked for and has been given

dirvars == <<dir, client>>

\* The empty string: what stands before the first slash, and after a last one.
NoName == ""

Root == <<NoName, NoName>>
NoEntries == [m_entries |-> <<>>, m_pos |-> 0]

\* Nothing listed: no names expected, none received, none refused.
NoListing == [want |-> {}, got |-> <<>>, refused |-> {}, atEnd |-> FALSE]

DirInit ==
    /\ FSInit
    /\ dir = [d \in DirHandles |-> NoEntries]
    /\ client = [d \in DirHandles |-> NoListing]

-----------------------------------------------------------------------------
\* readdir() drops one trailing slash, unless the path is "/".
prefix(path) == IF Len(path) > 1 /\ path # Root /\ Last(path) = NoName THEN Front(path) ELSE path

\* Mutant of parent: the root is no exception.
parent_noRoot(fpath) == Front(fpath)

\* What precedes the last slash, "/" if nothing does, and the whole path if it
\* has no slash.
parent(fpath) ==
    CASE Len(fpath) = 1 -> fpath
      [] Len(fpath) = 2 /\ Head(fpath) = NoName -> Root
      [] OTHER -> Front(fpath)

\* The names readdir() appends: one for each file whose parent is the path, in
\* the order of the map.
readdir(path) ==
    LET listed == {p \in Paths : exists(p) /\ parent(p) = prefix(path)}
    IN  {[i \in DOMAIN s |-> Last(s[i])] :
            s \in {t \in [1..Cardinality(listed) -> listed] :
                      /\ listed = {t[i] : i \in DOMAIN t}
                      /\ \A i, j \in DOMAIN t : i < j => <<t[i], t[j]>> \in MapOrder}}

\* The direct children of a directory, by name: the files that are that
\* directory's path and one component, not empty, more.
Children(path) ==
    LET comps == IF Len(path) > 1 /\ Last(path) = NoName THEN Front(path) ELSE path
    IN  {Last(p) : p \in {q \in Paths : exists(q) /\ Front(q) = comps}} \ {NoName}

\* Mutant of Opendir: the names of an earlier listing are kept.
Opendir_noClear(d, path) ==
    /\ \E entries \in readdir(path) :
          dir' = [dir EXCEPT ![d] = [m_entries |-> @.m_entries \o entries, m_pos |-> 0]]
    /\ client' = [client EXCEPT ![d] = [NoListing EXCEPT !.want = Children(path)]]

\* The names are copied in one go, under the lock.
Opendir(d, path) ==
    /\ \E entries \in readdir(path) :
          dir' = [dir EXCEPT ![d] = [m_entries |-> entries, m_pos |-> 0]]
    /\ client' = [client EXCEPT ![d] = [NoListing EXCEPT !.want = Children(path)]]

\* The client takes an empty name for the end of the directory.
Receive(d, name) ==
    client' = IF name = NoName THEN [client EXCEPT ![d].atEnd = TRUE]
              ELSE [client EXCEPT ![d].got = Append(@, name)]

Readdir_end(d) ==
    /\ dir[d].m_pos >= Len(dir[d].m_entries)
    /\ Receive(d, NoName)
    /\ UNCHANGED dir

\* Mutant of Readdir_entry: an entry that does not fit is kept for a retry.
Readdir_entry_retry(d, blen) ==
    LET name == dir[d].m_entries[dir[d].m_pos + 1]
    IN  /\ dir[d].m_pos < Len(dir[d].m_entries)
        /\ IF NameLen[name] >= blen THEN UNCHANGED <<dir, client>>
           ELSE /\ dir' = [dir EXCEPT ![d].m_pos = @ + 1]
                /\ Receive(d, name)

\* The cursor moves first; -ENAMETOOLONG gives the client nothing.
Readdir_entry(d, blen) ==
    LET name == dir[d].m_entries[dir[d].m_pos + 1]
    IN  /\ dir[d].m_pos < Len(dir[d].m_entries)
        /\ dir' = [dir EXCEPT ![d].m_pos = @ + 1]
        /\ IF NameLen[name] >= blen
           THEN client' = [client EXCEPT ![d].refused = @ \cup {name}]
           ELSE Receive(d, name)

\* A client that has seen the end asks for no more entries.
Readdir(d) ==
    /\ ~client[d].atEnd
    /\ \/ Readdir_end(d)
       \/ \E blen \in BufLens : Readdir_entry(d, blen)

\* Mutant of Closedir: the cursor is not reset.
Closedir_keepsPos(d) ==
    /\ dir' = [dir EXCEPT ![d].m_entries = <<>>]
    /\ client' = [client EXCEPT ![d] = NoListing]

Closedir(d) ==
    /\ dir' = [dir EXCEPT ![d] = NoEntries]
    /\ client' = [client EXCEPT ![d] = NoListing]

\* A client is part of the way through a listing: it goes on, or gives it up
\* with Closedir, before it starts another on the same handle.
Listing(d) == dir[d].m_entries # <<>> /\ ~client[d].atEnd

DirNext ==
    \/ FSNext /\ UNCHANGED dirvars
    \/ \E d \in DirHandles :
          /\ \/ \E path \in DirPaths : ~Listing(d) /\ Opendir(d, path)
             \/ Readdir(d)
             \/ Closedir(d)
          /\ UNCHANGED fsvars

DirSpec == DirInit /\ [][DirNext]_<<fsvars, dirvars>>

\* A client that lists a directory goes on to the end of it.
FairDirSpec ==
    DirSpec /\ \A d \in DirHandles : WF_<<fsvars, dirvars>>(Readdir(d) /\ UNCHANGED fsvars)

-----------------------------------------------------------------------------
DirTypeOK ==
    /\ dir \in [DirHandles -> [m_entries : Seq(DOMAIN NameLen), m_pos : Nat]]
    /\ client \in [DirHandles -> [want  : SUBSET DOMAIN NameLen,
                                  got   : Seq(DOMAIN NameLen),
                                  refused : SUBSET DOMAIN NameLen,
                                  atEnd : BOOLEAN]]
    /\ \A d \in DirHandles : dir[d].m_pos <= Len(dir[d].m_entries)

\* An absolute path without empty components: "/a/b".
Normal(p) == Len(p) >= 2 /\ p[1] = NoName /\ \A i \in 2..Len(p) : p[i] # NoName

\* Files have normal paths, and directories are listed as "/", by a normal path,
\* or by one with a slash added.
NormalPaths ==
    /\ \A p \in Paths : Normal(p)
    /\ \A path \in DirPaths : path = Root \/ Normal(path) \/ (Last(path) = NoName /\ Normal(Front(path)))

\* What a client has been given, at any moment: children the directory had
\* when Opendir() was called, each at most once, whatever has been created,
\* renamed or unlinked since, and whatever else the handle listed before.
NoPhantomEntries ==
    \A d \in DirHandles :
        /\ ToSet(client[d].got) \subseteq client[d].want
        /\ IsInjective(client[d].got)

\* A client that has read to the end has been given every child the directory
\* had when Opendir() was called, except those whose call was answered with
\* -ENAMETOOLONG: none is passed over in silence, whatever happens meanwhile.
NothingDropped ==
    \A d \in DirHandles :
        client[d].atEnd => client[d].want \ client[d].refused = ToSet(client[d].got)

\* A listing comes to an end however the directory grows meanwhile and however
\* small the client's buffers are.
ListingEnds == \A d \in DirHandles : Listing(d) ~> ~Listing(d)
=============================================================================
