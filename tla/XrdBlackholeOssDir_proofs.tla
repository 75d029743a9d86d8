---------------------- MODULE XrdBlackholeOssDir_proofs ----------------------
(***************************************************************************)
(* Directory listings for any namespace, any directories and any buffer    *)
(* lengths: the members of a handle keep their types, and, if paths are    *)
(* normal, a client is given exactly the children of one moment.           *)
(***************************************************************************)
EXTENDS XrdBlackholeOssDir, BlackholeFS_proofs, FiniteSetTheorems, SequenceTheorems

Names == DOMAIN NameLen

\* The files whose names readdir(path) appends.
Listed(path) == {p \in Paths : exists(p) /\ parent(p) = prefix(path)}

\* A handle and its client: the entries are the children of the moment of
\* Opendir(), each once; those before the cursor have been given or refused.
ListingSound(d) ==
    /\ IsInjective(dir[d].m_entries)
    /\ ToSet(dir[d].m_entries) = client[d].want
    /\ NoName \notin client[d].want
    /\ ToSet(client[d].got) \cup client[d].refused = {dir[d].m_entries[i] : i \in 1..dir[d].m_pos}
    /\ ToSet(client[d].got) \cap client[d].refused = {}
    /\ IsInjective(client[d].got)
    /\ client[d].atEnd => dir[d].m_pos = Len(dir[d].m_entries)

DirInv == FSInv /\ DirTypeOK /\ \A d \in DirHandles : ListingSound(d)

-----------------------------------------------------------------------------
(* Paths *)

\* The last component of a path is a name, and the path is that and its front.
LEMMA FrontLast ==
    ASSUME NEW S, NEW p \in Seq(S), p # <<>>
    PROVE  /\ Len(p) \in Nat \ {0}
           /\ Last(p) \in S
           /\ Front(p) \in Seq(S)
           /\ Len(Front(p)) = Len(p) - 1
           /\ \A i \in 1..(Len(p) - 1) : Front(p)[i] = p[i]
<1>1. Len(p) \in Nat \ {0}
  BY EmptySeq, LenProperties
<1>2. Last(p) \in S
  BY <1>1, ElementOfSeq DEF Last
<1>3. /\ Front(p) \in Seq(S)
      /\ Len(Front(p)) = Len(p) - 1
      /\ \A i \in 1..(Len(p) - 1) : Front(p)[i] = p[i]
  <2> DEFINE n == Len(p) - 1
  <2>1. n \in Nat /\ \A i \in 1..n : p[i] \in S
    BY <1>1, ElementOfSeq
  <2>2. /\ SubSeq(p, 1, n) \in Seq(S)
        /\ Len(SubSeq(p, 1, n)) = IF 1 <= n THEN n - 1 + 1 ELSE 0
        /\ \A i \in 1..(n - 1 + 1) : SubSeq(p, 1, n)[i] = p[1 + i - 1]
    <3> HIDE DEF n
    <3> QED
      BY <2>1, SubSeqProperties
  <2>3. Front(p) = SubSeq(p, 1, n)
    BY DEF Front
  <2>4. /\ Front(p) \in Seq(S)
        /\ Len(Front(p)) = IF 1 <= n THEN n - 1 + 1 ELSE 0
        /\ \A i \in 1..(n - 1 + 1) : Front(p)[i] = p[1 + i - 1]
    BY <2>2, <2>3
  <2>5. n = Len(p) - 1
    OBVIOUS
  <2> HIDE DEF n
  <2>6. Len(Front(p)) = n /\ \A i \in 1..n : Front(p)[i] = p[i]
    BY <2>1, <2>4
  <2> QED
    BY <2>4, <2>5, <2>6
<1> QED
  BY <1>1, <1>2, <1>3

\* Two paths with the same front and the same last component are one.
LEMMA FrontLastEqual ==
    ASSUME NEW S, NEW p \in Seq(S), NEW q \in Seq(S), p # <<>>, q # <<>>,
           Front(p) = Front(q), Last(p) = Last(q)
    PROVE  p = q
<1>1. Len(p) = Len(q) /\ Len(p) \in Nat
  BY FrontLast
<1>2. \A i \in 1..Len(p) : p[i] = q[i]
  <2> SUFFICES ASSUME NEW i \in 1..Len(p) PROVE p[i] = q[i]
    OBVIOUS
  <2>1. CASE i = Len(p)
    BY <1>1, <2>1 DEF Last
  <2>2. CASE i # Len(p)
    <3>1. i \in 1..(Len(p) - 1)
      BY <1>1, <2>2
    <3>2. Front(p)[i] = p[i] /\ Front(q)[i] = q[i]
      BY <1>1, <3>1, FrontLast
    <3> QED
      BY <3>2
  <2> QED
    BY <2>1, <2>2
<1> QED
  BY <1>1, <1>2, SeqEqual

\* The root as the sequence it is.
LEMMA RootIs == Root \in Seq({NoName}) /\ Len(Root) = 2 /\ Root[1] = NoName /\ Root[2] = NoName
BY DEF Root

\* The components a directory path stands for, as Children reads it.
Components(path) == IF Len(path) > 1 /\ Last(path) = NoName THEN Front(path) ELSE path

\* On normal paths readdir()'s comparison of strings is the relation of a file
\* to its directory, the root included.
LEMMA ParentIsFront ==
    ASSUME NormalPaths, NEW p \in Paths, NEW path \in DirPaths
    PROVE  parent(p) = prefix(path) <=> Front(p) = Components(path)
<1>1. /\ p \in Seq(Names) /\ p # <<>> /\ path \in Seq(Names) /\ path # <<>>
      /\ Normal(p)
      /\ path = Root \/ Normal(path) \/ (Last(path) = NoName /\ Normal(Front(path)))
  BY DirAssumption DEF NormalPaths, Names
<1>2. /\ Len(p) \in Nat /\ Len(p) >= 2 /\ p[1] = NoName
      /\ \A i \in 2..Len(p) : p[i] # NoName
  BY <1>1, LenProperties DEF Normal
<1>3. /\ Len(Front(p)) = Len(p) - 1
      /\ \A i \in 1..(Len(p) - 1) : Front(p)[i] = p[i]
      /\ Front(p) \in Seq(Names)
  BY <1>1, FrontLast
<1>4. parent(p) = IF Len(p) = 2 THEN Root ELSE Front(p)
  <2>1. Head(p) = NoName
    BY <1>1, <1>2
  <2> QED
    BY <1>2, <2>1 DEF parent
<1>5. Len(p) # 2 => Front(p) # Root
  <2>1. Len(p) # 2 => Front(p)[2] = p[2] /\ p[2] # NoName
    BY <1>2, <1>3
  <2> QED
    BY <2>1, RootIs
<1>6. CASE path = Root
  <2>1. prefix(path) = Root /\ Components(path) = Front(Root)
    BY <1>6, RootIs DEF prefix, Components, Last
  <2>2. /\ Front(Root) \in Seq({NoName}) /\ Len(Front(Root)) = 1
        /\ Front(Root)[1] = NoName
    <3>1. Root # <<>>
      BY RootIs
    <3>2. /\ Front(Root) \in Seq({NoName}) /\ Len(Front(Root)) = Len(Root) - 1
          /\ \A i \in 1..(Len(Root) - 1) : Front(Root)[i] = Root[i]
      BY <3>1, RootIs, FrontLast
    <3> QED
      BY <3>2, RootIs
  <2>3. ASSUME Len(p) = 2 PROVE Front(p) = Front(Root)
    <3>1. Front(p) \in Seq(Names \cup {NoName}) /\ Front(Root) \in Seq(Names \cup {NoName})
      BY <1>3, <2>2, SeqMonotonic
    <3>2. Len(Front(p)) = 1 /\ Front(p)[1] = NoName
      BY <1>2, <1>3, <2>3
    <3>3. \A i \in 1..Len(Front(p)) : Front(p)[i] = Front(Root)[i]
      BY <2>2, <3>2
    <3> QED
      BY <2>2, <3>1, <3>2, <3>3, SeqEqual
  <2>4. CASE Len(p) = 2
    BY <1>4, <2>1, <2>3, <2>4
  <2>5. CASE Len(p) # 2
    BY <1>2, <1>3, <1>4, <1>5, <2>1, <2>2, <2>5
  <2> QED
    BY <2>4, <2>5
<1>7. CASE path # Root
  <2> DEFINE c == Components(path)
  <2>1. prefix(path) = c
    BY <1>7 DEF prefix, Components
  <2>2. Normal(c)
    <3>1. CASE Normal(path)
      <4>1. Len(path) \in Nat
        BY <1>1, LenProperties
      <4>2. Last(path) # NoName
        BY <3>1, <4>1 DEF Normal, Last
      <4> QED
        BY <3>1, <4>2 DEF Components
    <3>2. CASE Last(path) = NoName /\ Normal(Front(path))
      <4>1. Len(path) > 1
        <5>1. Len(Front(path)) = Len(path) - 1 /\ Len(path) \in Nat
          BY <1>1, FrontLast
        <5> QED
          BY <3>2, <5>1 DEF Normal
      <4> QED
        BY <3>2, <4>1 DEF Components
    <3> QED
      BY <1>1, <1>7, <3>1, <3>2
  <2>3. c # Root
    <3>1. c = Root => c[2] # NoName
      BY <2>2, RootIs DEF Normal
    <3> QED
      BY <3>1, RootIs
  <2>4. c \in Seq(Names) /\ Len(c) \in Nat /\ Len(c) >= 2
    BY <1>1, <2>2, FrontLast, LenProperties DEF Components, Normal
  <2>5. Len(p) = 2 => Front(p) # c
    BY <1>3, <2>4
  <2> QED
    BY <1>4, <2>1, <2>3, <2>5
<1> QED
  BY <1>6, <1>7

-----------------------------------------------------------------------------
(* The names readdir() copies *)

\* The map holds finitely many files: each has an inode of its own.
LEMMA ListedFinite ==
    ASSUME FSInv, NEW path
    PROVE  Cardinality(Listed(path)) \in Nat
<1> DEFINE f == [p \in Listed(path) |-> m_files[p]]
<1>1. f \in [Listed(path) -> Inodes]
  BY DEF Listed, FSInv, FSTypeOK, exists, NoStub
<1>2. IsInjective(f)
  BY DEF IsInjective, Listed, FSInv, NoAlias
<1>3. f \in Injection(Listed(path), Inodes)
  BY <1>1, <1>2 DEF Injection
<1>4. IsFiniteSet(Inodes)
  BY FSAssumption, FS_Interval DEF Inodes
<1>5. IsFiniteSet(Listed(path))
  <2> HIDE DEF f
  <2> QED
    BY <1>3, <1>4, FS_Injection
<1> QED
  BY <1>5, FS_CardinalityType

\* What an enumeration of the files in the order of the map looks like.
Ordered(path, t) ==
    /\ t \in [1..Cardinality(Listed(path)) -> Listed(path)]
    /\ Listed(path) = {t[i] : i \in DOMAIN t}
    /\ \A i, j \in DOMAIN t : i < j => <<t[i], t[j]>> \in MapOrder

\* readdir() appends the last components of the files it enumerates.
LEMMA ReaddirIs ==
    ASSUME FSInv, NEW path, NEW e \in readdir(path)
    PROVE  \E t : /\ Ordered(path, t)
                  /\ Cardinality(Listed(path)) \in Nat
                  /\ DOMAIN t = 1..Cardinality(Listed(path))
                  /\ e = [i \in 1..Cardinality(Listed(path)) |-> Last(t[i])]
<1>1. PICK t : Ordered(path, t) /\ e = [i \in DOMAIN t |-> Last(t[i])]
  BY DEF readdir, Ordered, Listed
<1>2. DOMAIN t = 1..Cardinality(Listed(path))
  BY <1>1 DEF Ordered
<1> QED
  BY <1>1, <1>2, ListedFinite

\* The entries are names.
LEMMA ReaddirNames ==
    ASSUME FSInv, NEW path, NEW e \in readdir(path)
    PROVE  e \in Seq(Names) /\ DOMAIN e = 1..Len(e) /\ Len(e) \in Nat
<1>1. PICK t : /\ Ordered(path, t)
               /\ Cardinality(Listed(path)) \in Nat
               /\ DOMAIN t = 1..Cardinality(Listed(path))
               /\ e = [i \in 1..Cardinality(Listed(path)) |-> Last(t[i])]
  BY ReaddirIs
<1> DEFINE n == Cardinality(Listed(path))
<1>2. \A i \in 1..n : Last(t[i]) \in Names
  <2> SUFFICES ASSUME NEW i \in 1..n PROVE Last(t[i]) \in Names
    OBVIOUS
  <2>1. t[i] \in Paths
    BY <1>1 DEF Ordered, Listed
  <2>2. t[i] \in Seq(Names) /\ t[i] # <<>>
    BY <2>1, DirAssumption DEF Names
  <2> QED
    BY <2>2, FrontLast
<1>3. n \in Nat /\ e \in [1..n -> Names]
  BY <1>1, <1>2
<1>4. e \in Seq(Names)
  BY <1>3, SeqDef
<1> QED
  BY <1>4, LenProperties

\* On normal paths they are the children of the directory, each once.
LEMMA ReaddirIsChildren ==
    ASSUME FSInv, NormalPaths, NEW path \in DirPaths, NEW e \in readdir(path)
    PROVE  IsInjective(e) /\ ToSet(e) = Children(path)
<1>1. PICK t : /\ Ordered(path, t)
               /\ Cardinality(Listed(path)) \in Nat
               /\ DOMAIN t = 1..Cardinality(Listed(path))
               /\ e = [i \in 1..Cardinality(Listed(path)) |-> Last(t[i])]
  BY ReaddirIs
<1> DEFINE n == Cardinality(Listed(path))
<1>2. n \in Nat /\ DOMAIN e = 1..n /\ DOMAIN t = 1..n /\ \A i \in 1..n : e[i] = Last(t[i])
  BY <1>1
<1>3. Listed(path) = {p \in Paths : exists(p) /\ Front(p) = Components(path)}
  BY ParentIsFront DEF Listed
<1>4. \A p \in Paths : p \in Seq(Names) /\ p # <<>> /\ Last(p) # NoName
  <2> SUFFICES ASSUME NEW p \in Paths PROVE p \in Seq(Names) /\ p # <<>> /\ Last(p) # NoName
    OBVIOUS
  <2>1. p \in Seq(Names) /\ p # <<>> /\ Normal(p)
    BY DirAssumption DEF NormalPaths, Names
  <2>2. Len(p) \in Nat
    BY <2>1, LenProperties
  <2> QED
    BY <2>1, <2>2 DEF Normal, Last
<1>5. \A i, j \in 1..n : t[i] = t[j] => i = j
  <2> SUFFICES ASSUME NEW i \in 1..n, NEW j \in 1..n, t[i] = t[j] PROVE i = j
    OBVIOUS
  <2>1. t[i] \in Paths /\ t[j] \in Paths
    BY <1>1 DEF Ordered, Listed
  <2>2. <<t[i], t[i]>> \notin MapOrder
    BY <2>1, DirAssumption
  <2>3. ~(i < j) /\ ~(j < i)
    BY <1>1, <1>2, <2>2 DEF Ordered
  <2> QED
    BY <1>2, <2>3
<1>6. IsInjective(e)
  <2> SUFFICES ASSUME NEW i \in 1..n, NEW j \in 1..n, e[i] = e[j] PROVE i = j
    BY <1>2 DEF IsInjective
  <2>1. t[i] \in Listed(path) /\ t[j] \in Listed(path)
    BY <1>1 DEF Ordered
  <2>2. t[i] \in Paths /\ t[j] \in Paths /\ Front(t[i]) = Front(t[j])
    BY <1>3, <2>1
  <2>3. Last(t[i]) = Last(t[j])
    BY <1>2
  <2>4. t[i] = t[j]
    BY <1>4, <2>2, <2>3, FrontLastEqual
  <2> QED
    BY <1>5, <2>4
<1>7. ToSet(e) = {Last(p) : p \in Listed(path)}
  <2>1. Listed(path) = {t[i] : i \in 1..n}
    BY <1>1, <1>2 DEF Ordered
  <2> QED
    BY <1>2, <2>1 DEF ToSet
<1>8. Children(path) = {Last(p) : p \in Listed(path)} \ {NoName}
  BY <1>3 DEF Children, Components
<1>9. \A p \in Listed(path) : Last(p) # NoName
  BY <1>4 DEF Listed
<1> QED
  BY <1>6, <1>7, <1>8, <1>9

-----------------------------------------------------------------------------
(* Types *)

Handles == [m_entries : Seq(Names), m_pos : Nat]
Clients == [want : SUBSET Names, got : Seq(Names), refused : SUBSET Names, atEnd : BOOLEAN]

\* The type invariant, with its sets named.
LEMMA DirTypeIs ==
    DirTypeOK <=> /\ dir \in [DirHandles -> Handles]
                  /\ client \in [DirHandles -> Clients]
                  /\ \A d \in DirHandles : dir[d].m_pos <= Len(dir[d].m_entries)
BY DEF DirTypeOK, Handles, Clients, Names

\* A step on one handle keeps the types if the handle's new members have them.
LEMMA HandleStep ==
    ASSUME DirTypeOK, NEW d \in DirHandles, NEW h \in Handles, NEW c \in Clients,
           h.m_pos <= Len(h.m_entries),
           dir' = [dir EXCEPT ![d] = h], client' = [client EXCEPT ![d] = c]
    PROVE  DirTypeOK'
<1>1. dir \in [DirHandles -> Handles] /\ client \in [DirHandles -> Clients]
  BY DirTypeIs
<1>2. dir' \in [DirHandles -> Handles] /\ client' \in [DirHandles -> Clients]
  BY <1>1
<1>3. \A x \in DirHandles : dir'[x].m_pos <= Len(dir'[x].m_entries)
  BY <1>1, DirTypeIs
<1> QED
  BY <1>2, <1>3 DEF DirTypeOK, Handles, Clients, Names

\* The children of a directory have names.
LEMMA ChildrenNames == ASSUME NEW path PROVE Children(path) \in SUBSET Names
<1>1. \A p \in Paths : Last(p) \in Names
  <2> SUFFICES ASSUME NEW p \in Paths PROVE Last(p) \in Names
    OBVIOUS
  <2>1. p \in Seq(Names) /\ p # <<>>
    BY DirAssumption DEF Names
  <2> QED
    BY <2>1, FrontLast
<1> QED
  BY <1>1 DEF Children

\* What each request makes of its handle.
LEMMA OpendirStep ==
    ASSUME FSInv, DirTypeOK, NEW d \in DirHandles, NEW path, Opendir(d, path)
    PROVE  \E e \in readdir(path) : \E h \in Handles, c \in Clients :
              /\ h = [m_entries |-> e, m_pos |-> 0]
              /\ c = [want |-> Children(path), got |-> <<>>, refused |-> {}, atEnd |-> FALSE]
              /\ dir' = [dir EXCEPT ![d] = h]
              /\ client' = [client EXCEPT ![d] = c]
<1>1. PICK e \in readdir(path) : dir' = [dir EXCEPT ![d] = [m_entries |-> e, m_pos |-> 0]]
  BY DEF Opendir
<1>2. e \in Seq(Names)
  BY ReaddirNames
<1>3. [m_entries |-> e, m_pos |-> 0] \in Handles
  BY <1>2 DEF Handles
<1>4. [NoListing EXCEPT !.want = Children(path)]
        = [want |-> Children(path), got |-> <<>>, refused |-> {}, atEnd |-> FALSE]
  <2>1. ASSUME NEW S, NEW g, NEW r, NEW b
        PROVE  [[want |-> {}, got |-> g, refused |-> r, atEnd |-> b] EXCEPT !.want = S]
                 = [want |-> S, got |-> g, refused |-> r, atEnd |-> b]
    OBVIOUS
  <2> QED
    BY <2>1 DEF NoListing
<1>5. [want |-> Children(path), got |-> <<>>, refused |-> {}, atEnd |-> FALSE] \in Clients
  BY ChildrenNames, EmptySeq DEF Clients
<1> QED
  BY <1>1, <1>3, <1>4, <1>5 DEF Opendir

\* At the end of the entries only the client's atEnd changes.
LEMMA ReaddirEndStep ==
    ASSUME DirTypeOK, NEW d \in DirHandles, Readdir_end(d)
    PROVE  \E c \in Clients :
              /\ c = [client[d] EXCEPT !.atEnd = TRUE]
              /\ dir[d].m_pos = Len(dir[d].m_entries)
              /\ dir' = dir
              /\ client' = [client EXCEPT ![d] = c]
<1>1. dir[d] \in Handles /\ client[d] \in Clients /\ dir[d].m_pos <= Len(dir[d].m_entries)
  BY DirTypeIs
<1>2. Len(dir[d].m_entries) \in Nat /\ dir[d].m_pos \in Nat
  BY <1>1, LenProperties DEF Handles
<1>3. [client[d] EXCEPT !.atEnd = TRUE] \in Clients
  BY <1>1 DEF Clients
<1>4. dir[d].m_pos = Len(dir[d].m_entries)
  BY <1>1, <1>2 DEF Readdir_end
<1> QED
  BY <1>3, <1>4 DEF Readdir_end, Receive

\* An entry: the cursor moves past it and its name is refused, given, or, if it
\* is empty, taken for the end.
LEMMA ReaddirEntryStep ==
    ASSUME DirTypeOK, NEW d \in DirHandles, NEW blen, Readdir_entry(d, blen)
    PROVE  \E name \in Names, c \in Clients, h \in Handles :
              /\ dir[d].m_pos < Len(dir[d].m_entries)
              /\ name = dir[d].m_entries[dir[d].m_pos + 1]
              /\ h = [dir[d] EXCEPT !.m_pos = @ + 1]
              /\ \/ c = [client[d] EXCEPT !.refused = @ \cup {name}]
                 \/ name = NoName /\ c = [client[d] EXCEPT !.atEnd = TRUE]
                 \/ name # NoName /\ c = [client[d] EXCEPT !.got = Append(@, name)]
              /\ dir' = [dir EXCEPT ![d] = h]
              /\ client' = [client EXCEPT ![d] = c]
<1> DEFINE name == dir[d].m_entries[dir[d].m_pos + 1]
           h == [dir[d] EXCEPT !.m_pos = @ + 1]
           c1 == [client[d] EXCEPT !.refused = @ \cup {name}]
           c2 == [client[d] EXCEPT !.atEnd = TRUE]
           c3 == [client[d] EXCEPT !.got = Append(@, name)]
<1>1. /\ dir \in [DirHandles -> Handles] /\ client \in [DirHandles -> Clients]
      /\ dir[d] \in Handles /\ client[d] \in Clients /\ dir[d].m_pos < Len(dir[d].m_entries)
  BY DirTypeIs DEF Readdir_entry
<1>2. Len(dir[d].m_entries) \in Nat /\ dir[d].m_pos \in Nat /\ dir[d].m_entries \in Seq(Names)
  BY <1>1, LenProperties DEF Handles
<1>3. name \in Names
  <2>1. dir[d].m_pos + 1 \in 1..Len(dir[d].m_entries)
    BY <1>1, <1>2
  <2> QED
    BY <1>2, <2>1, ElementOfSeq
<1>4. h \in Handles
  BY <1>1, <1>2 DEF Handles
<1>5. c1 \in Clients /\ c2 \in Clients
  <2> HIDE DEF name
  <2> QED
    BY <1>1, <1>3 DEF Clients
<1>6. c3 \in Clients
  <2> HIDE DEF name
  <2>1. client[d].got \in Seq(Names)
    BY <1>1 DEF Clients
  <2>2. Append(client[d].got, name) \in Seq(Names)
    BY <1>3, <2>1, AppendProperties
  <2> QED
    BY <1>1, <2>2 DEF Clients
<1>7. dir' = [dir EXCEPT ![d] = h]
  BY DEF Readdir_entry
<1>8. \/ client' = [client EXCEPT ![d] = c1]
      \/ name = NoName /\ client' = [client EXCEPT ![d] = c2]
      \/ name # NoName /\ client' = [client EXCEPT ![d] = c3]
  <2>1. IF NameLen[name] >= blen THEN client' = [client EXCEPT ![d] = c1] ELSE Receive(d, name)
    BY DEF Readdir_entry
  <2>2. ASSUME Receive(d, name), name = NoName PROVE client' = [client EXCEPT ![d] = c2]
    BY <2>2 DEF Receive
  <2>3. ASSUME Receive(d, name), name # NoName PROVE client' = [client EXCEPT ![d] = c3]
    BY <2>3 DEF Receive
  <2> HIDE DEF name, c1, c2, c3
  <2> QED
    BY <2>1, <2>2, <2>3
<1> HIDE DEF name, h, c1, c2, c3
<1>9. /\ c1 = [client[d] EXCEPT !.refused = @ \cup {name}]
      /\ c2 = [client[d] EXCEPT !.atEnd = TRUE]
      /\ c3 = [client[d] EXCEPT !.got = Append(@, name)]
      /\ h = [dir[d] EXCEPT !.m_pos = @ + 1]
      /\ name = dir[d].m_entries[dir[d].m_pos + 1]
  BY DEF c1, c2, c3, h, name
<1> QED
  BY <1>1, <1>3, <1>4, <1>5, <1>6, <1>7, <1>8, <1>9

\* A step keeps the namespace well formed and the types of the handles.
LEMMA DirTypeNext ==
    ASSUME FSInv, DirTypeOK, [DirNext]_<<fsvars, dirvars>>
    PROVE  FSInv' /\ DirTypeOK'
<1>1. CASE UNCHANGED <<fsvars, dirvars>> \/ (FSNext /\ UNCHANGED dirvars)
  <2>1. [FSNext]_fsvars /\ dir' = dir /\ client' = client
    BY <1>1 DEF dirvars
  <2>2. FSInv'
    BY <2>1, FSInvNext
  <2>3. DirTypeOK'
    BY <2>1 DEF DirTypeOK
  <2> QED
    BY <2>2, <2>3
<1>2. ASSUME NEW d \in DirHandles, UNCHANGED fsvars,
             \/ \E path \in DirPaths : ~Listing(d) /\ Opendir(d, path)
             \/ Readdir(d)
             \/ Closedir(d)
      PROVE  FSInv' /\ DirTypeOK'
  <2>1. FSInv'
    BY <1>2, FSInvNext DEF fsvars
  <2>2. ASSUME NEW path \in DirPaths, Opendir(d, path) PROVE DirTypeOK'
    <3>1. PICK e \in readdir(path) : \E h \in Handles, c \in Clients :
              /\ h = [m_entries |-> e, m_pos |-> 0]
              /\ c = [want |-> Children(path), got |-> <<>>, refused |-> {}, atEnd |-> FALSE]
              /\ dir' = [dir EXCEPT ![d] = h]
              /\ client' = [client EXCEPT ![d] = c]
      BY <2>2, OpendirStep
    <3>2. Len(e) \in Nat
      BY ReaddirNames
    <3>3. PICK h \in Handles, c \in Clients :
              /\ h.m_pos = 0 /\ h.m_entries = e
              /\ dir' = [dir EXCEPT ![d] = h]
              /\ client' = [client EXCEPT ![d] = c]
      BY <3>1
    <3>4. h.m_pos <= Len(h.m_entries)
      BY <3>2, <3>3
    <3> QED
      BY <3>3, <3>4, HandleStep
  <2>3. ASSUME Readdir_end(d) PROVE DirTypeOK'
    <3>1. PICK c \in Clients : dir' = dir /\ client' = [client EXCEPT ![d] = c]
      BY <2>3, ReaddirEndStep
    <3>2. dir[d] \in Handles /\ dir[d].m_pos <= Len(dir[d].m_entries) /\ dir' = [dir EXCEPT ![d] = dir[d]]
      BY <3>1, DirTypeIs
    <3> QED
      BY <3>1, <3>2, HandleStep
  <2>4. ASSUME NEW blen \in BufLens, Readdir_entry(d, blen) PROVE DirTypeOK'
    <3>1. PICK c \in Clients, h \in Handles :
              /\ dir[d].m_pos < Len(dir[d].m_entries)
              /\ h = [dir[d] EXCEPT !.m_pos = @ + 1]
              /\ dir' = [dir EXCEPT ![d] = h]
              /\ client' = [client EXCEPT ![d] = c]
      BY <2>4, ReaddirEntryStep
    <3>2. dir[d] \in Handles
      BY DirTypeIs
    <3>3. dir[d].m_pos \in Nat /\ Len(dir[d].m_entries) \in Nat
      BY <3>2, LenProperties DEF Handles
    <3>4. h.m_pos = dir[d].m_pos + 1 /\ h.m_entries = dir[d].m_entries
      BY <3>1, <3>2 DEF Handles
    <3>5. h.m_pos <= Len(h.m_entries)
      BY <3>1, <3>3, <3>4
    <3> QED
      BY <3>1, <3>5, HandleStep
  <2>5. ASSUME Closedir(d) PROVE DirTypeOK'
    <3>1. NoEntries \in Handles /\ NoEntries.m_pos <= Len(NoEntries.m_entries)
      BY EmptySeq DEF NoEntries, Handles
    <3>2. NoListing \in Clients
      BY EmptySeq DEF NoListing, Clients
    <3> QED
      BY <2>5, <3>1, <3>2, HandleStep DEF Closedir
  <2> QED
    BY <1>2, <2>1, <2>2, <2>3, <2>4, <2>5 DEF Readdir
<1> QED
  BY <1>1, <1>2 DEF DirNext

\* No handle has entries at first.
LEMMA DirTypeInit == DirInit => FSInv /\ DirTypeOK
<1> SUFFICES ASSUME DirInit PROVE FSInv /\ DirTypeOK
  OBVIOUS
<1>1. FSInv
  BY FSInvInit DEF DirInit
<1>2. NoEntries \in Handles /\ NoEntries.m_pos <= Len(NoEntries.m_entries)
  BY EmptySeq DEF NoEntries, Handles
<1>3. NoListing \in Clients
  BY EmptySeq DEF NoListing, Clients
<1>4. DirTypeOK
  BY <1>2, <1>3, DirTypeIs DEF DirInit
<1> QED
  BY <1>1, <1>4

\* The members of a directory handle and the cursor's bounds, whatever the
\* namespace, the requests and the lengths of the buffers (Opendir(), Readdir()
\* and Closedir() with the namespace operations in between).
THEOREM DirTypeCorrect == DirSpec => []DirTypeOK
<1>1. FSInv /\ DirTypeOK /\ [DirNext]_<<fsvars, dirvars>> => (FSInv /\ DirTypeOK)'
  BY DirTypeNext
<1> QED
  BY <1>1, DirTypeInit, PTL DEF DirSpec

-----------------------------------------------------------------------------
(* Listings *)

\* A handle that is not touched keeps its listing.
LEMMA OtherListings ==
    ASSUME DirTypeOK, NEW d, NEW x \in DirHandles, x # d, ListingSound(x),
           NEW h, NEW c, dir' = [dir EXCEPT ![d] = h], client' = [client EXCEPT ![d] = c]
    PROVE  ListingSound(x)'
<1>1. dir'[x] = dir[x] /\ client'[x] = client[x]
  BY DEF DirTypeOK
<1> QED
  BY <1>1 DEF ListingSound

\* Nothing listed, nothing given.
LEMMA EmptyListing ==
    ASSUME NEW h, NEW c, h = NoEntries, c = NoListing
    PROVE  /\ IsInjective(h.m_entries) /\ ToSet(h.m_entries) = c.want /\ NoName \notin c.want
           /\ ToSet(c.got) \cup c.refused = {h.m_entries[i] : i \in 1..h.m_pos}
           /\ ToSet(c.got) \cap c.refused = {} /\ IsInjective(c.got)
           /\ c.atEnd => h.m_pos = Len(h.m_entries)
BY DEF NoEntries, NoListing, ToSet, IsInjective

\* Opendir() starts a listing of the children there are.
LEMMA OpendirSound ==
    ASSUME FSInv, DirTypeOK, NormalPaths, NEW d \in DirHandles, NEW path \in DirPaths, Opendir(d, path)
    PROVE  ListingSound(d)'
<1>1. PICK e \in readdir(path) : \E h \in Handles, c \in Clients :
          /\ h = [m_entries |-> e, m_pos |-> 0]
          /\ c = [want |-> Children(path), got |-> <<>>, refused |-> {}, atEnd |-> FALSE]
          /\ dir' = [dir EXCEPT ![d] = h]
          /\ client' = [client EXCEPT ![d] = c]
  BY OpendirStep
<1>2. /\ dir'[d].m_entries = e /\ dir'[d].m_pos = 0 /\ client'[d].want = Children(path)
      /\ client'[d].got = <<>> /\ client'[d].refused = {} /\ client'[d].atEnd = FALSE
  BY <1>1 DEF DirTypeOK
<1>3. IsInjective(e) /\ ToSet(e) = Children(path)
  BY ReaddirIsChildren
<1>4. NoName \notin Children(path)
  BY DEF Children
<1>5. ToSet(<<>>) = {} /\ IsInjective(<<>>)
  BY DEF ToSet, IsInjective
<1>6. {e[i] : i \in 1..0} = {}
  OBVIOUS
<1> QED
  BY <1>2, <1>3, <1>4, <1>5, <1>6 DEF ListingSound

\* The name given for an entry is one the client has neither been given nor
\* been refused.
LEMMA EntrySound ==
    ASSUME DirTypeOK, NEW d \in DirHandles, ListingSound(d), ~client[d].atEnd,
           NEW blen, Readdir_entry(d, blen)
    PROVE  ListingSound(d)'
<1>1. PICK name \in Names, c \in Clients, h \in Handles :
              /\ dir[d].m_pos < Len(dir[d].m_entries)
              /\ name = dir[d].m_entries[dir[d].m_pos + 1]
              /\ h = [dir[d] EXCEPT !.m_pos = @ + 1]
              /\ \/ c = [client[d] EXCEPT !.refused = @ \cup {name}]
                 \/ name = NoName /\ c = [client[d] EXCEPT !.atEnd = TRUE]
                 \/ name # NoName /\ c = [client[d] EXCEPT !.got = Append(@, name)]
              /\ dir' = [dir EXCEPT ![d] = h]
              /\ client' = [client EXCEPT ![d] = c]
  BY ReaddirEntryStep
<1> DEFINE e == dir[d].m_entries
           n == dir[d].m_pos
           got == client[d].got
           refused == client[d].refused
<1>2. dir[d] \in Handles /\ client[d] \in Clients /\ dir'[d] = h /\ client'[d] = c
  BY <1>1, DirTypeIs
<1>3. /\ e \in Seq(Names) /\ n \in Nat /\ Len(e) \in Nat /\ DOMAIN e = 1..Len(e)
      /\ got \in Seq(Names) /\ Len(got) \in Nat /\ DOMAIN got = 1..Len(got)
      /\ n < Len(e) /\ name = e[n + 1]
  <2>1. e \in Seq(Names) /\ got \in Seq(Names) /\ n \in Nat
    BY <1>2 DEF Handles, Clients
  <2> QED
    BY <1>1, <2>1, LenProperties
<1>4. dir'[d].m_entries = e /\ dir'[d].m_pos = n + 1
  BY <1>1, <1>2 DEF Handles
<1>5. name \notin {e[i] : i \in 1..n} /\ name \in ToSet(e)
  <2>1. IsInjective(e)
    BY DEF ListingSound
  <2> HIDE DEF e, n
  <2>2. n + 1 \in DOMAIN e /\ \A i \in 1..n : i \in DOMAIN e /\ i # n + 1
    BY <1>3
  <2>3. \A i \in 1..n : e[i] # name
    BY <1>3, <2>1, <2>2 DEF IsInjective
  <2> QED
    BY <1>3, <2>2, <2>3 DEF ToSet
<1>6. name # NoName
  BY <1>5 DEF ListingSound
<1>7. {e[i] : i \in 1..(n + 1)} = {e[i] : i \in 1..n} \cup {name}
  BY <1>3
<1>8. name \notin ToSet(got) /\ name \notin refused
  BY <1>5 DEF ListingSound
<1>9. CASE c = [client[d] EXCEPT !.refused = @ \cup {name}]
  <2>1. /\ client'[d].want = client[d].want /\ client'[d].got = got
        /\ client'[d].refused = refused \cup {name} /\ ~client'[d].atEnd
    BY <1>2, <1>9 DEF Clients
  <2> HIDE DEF e, n, got, refused
  <2>2. /\ IsInjective(e) /\ ToSet(e) = client[d].want /\ NoName \notin client[d].want
        /\ ToSet(got) \cup refused = {e[i] : i \in 1..n}
        /\ ToSet(got) \cap refused = {} /\ IsInjective(got)
    BY DEF ListingSound, e, n, got, refused
  <2>3. /\ ToSet(got) \cup (refused \cup {name}) = {e[i] : i \in 1..(n + 1)}
        /\ ToSet(got) \cap (refused \cup {name}) = {}
    BY <1>7, <1>8, <2>2
  <2> QED
    BY <1>4, <2>1, <2>2, <2>3 DEF ListingSound
<1>10. CASE c = [client[d] EXCEPT !.got = Append(@, name)]
  <2> DEFINE g == Append(got, name)
  <2>1. /\ client'[d].want = client[d].want /\ client'[d].got = g
        /\ client'[d].refused = refused /\ ~client'[d].atEnd
    BY <1>2, <1>10 DEF Clients
  <2>2. /\ Len(g) = Len(got) + 1 /\ g \in Seq(Names)
        /\ \A i \in 1..Len(got) : g[i] = got[i]
        /\ g[Len(got) + 1] = name
    BY <1>3, AppendProperties
  <2>3. DOMAIN g = 1..(Len(got) + 1)
    BY <2>2, LenProperties
  <2> HIDE DEF e, n, got, refused, g
  <2>4. ToSet(g) = ToSet(got) \cup {name}
    BY <1>3, <2>2, <2>3 DEF ToSet
  <2>5. \A i \in 1..Len(got) : got[i] # name
    BY <1>3, <1>8 DEF ToSet
  <2>6. IsInjective(got)
    BY DEF ListingSound, got
  <2>7. IsInjective(g)
    <3> SUFFICES ASSUME NEW i \in 1..(Len(got) + 1), NEW j \in 1..(Len(got) + 1), g[i] = g[j]
                 PROVE  i = j
      BY <2>3 DEF IsInjective
    <3>1. CASE i \in 1..Len(got) /\ j \in 1..Len(got)
      BY <1>3, <2>2, <2>6, <3>1 DEF IsInjective
    <3>2. CASE i = Len(got) + 1 /\ j \in 1..Len(got)
      BY <2>2, <2>5, <3>2
    <3>3. CASE j = Len(got) + 1 /\ i \in 1..Len(got)
      BY <2>2, <2>5, <3>3
    <3> QED
      BY <1>3, <3>1, <3>2, <3>3
  <2> QED
    BY <1>4, <1>7, <1>8, <2>1, <2>4, <2>7 DEF ListingSound, e, n, got, refused
<1> QED
  BY <1>1, <1>6, <1>9, <1>10

\* The listings stay sound.
LEMMA DirInvNext ==
    ASSUME NormalPaths, DirInv, [DirNext]_<<fsvars, dirvars>>
    PROVE  DirInv'
<1>1. FSInv' /\ DirTypeOK'
  BY DirTypeNext DEF DirInv
<1>2. CASE UNCHANGED <<fsvars, dirvars>> \/ (FSNext /\ UNCHANGED dirvars)
  <2>1. dir' = dir /\ client' = client
    BY <1>2 DEF dirvars
  <2> QED
    BY <1>1, <2>1 DEF DirInv, ListingSound
<1>3. ASSUME NEW d \in DirHandles,
             \/ \E path \in DirPaths : ~Listing(d) /\ Opendir(d, path)
             \/ Readdir(d)
             \/ Closedir(d)
      PROVE  \A x \in DirHandles : ListingSound(x)'
  <2>1. FSInv /\ DirTypeOK /\ ListingSound(d)
    BY DEF DirInv
  <2>2. ASSUME NEW path \in DirPaths, Opendir(d, path)
        PROVE  \A x \in DirHandles : ListingSound(x)'
    <3>1. \E h, c : dir' = [dir EXCEPT ![d] = h] /\ client' = [client EXCEPT ![d] = c]
      BY <2>2 DEF Opendir
    <3> QED
      BY <2>1, <2>2, <3>1, OpendirSound, OtherListings DEF DirInv
  <2>3. ASSUME Readdir_end(d) PROVE \A x \in DirHandles : ListingSound(x)'
    <3>1. PICK c \in Clients :
              /\ c = [client[d] EXCEPT !.atEnd = TRUE]
              /\ dir[d].m_pos = Len(dir[d].m_entries)
              /\ dir' = dir
              /\ client' = [client EXCEPT ![d] = c]
      BY <2>1, <2>3, ReaddirEndStep
    <3>2. dir' = [dir EXCEPT ![d] = dir[d]] /\ client[d] \in Clients /\ client'[d] = c
      BY <2>1, <3>1, DirTypeIs
    <3>3. /\ dir'[d] = dir[d] /\ client'[d].want = client[d].want
          /\ client'[d].got = client[d].got /\ client'[d].refused = client[d].refused
      BY <3>1, <3>2 DEF Clients
    <3>4. ListingSound(d)'
      BY <2>1, <3>1, <3>3 DEF ListingSound
    <3> QED
      BY <2>1, <3>1, <3>2, <3>4, OtherListings DEF DirInv
  <2>4. ASSUME ~client[d].atEnd, NEW blen \in BufLens, Readdir_entry(d, blen)
        PROVE  \A x \in DirHandles : ListingSound(x)'
    <3>1. \E h, c : dir' = [dir EXCEPT ![d] = h] /\ client' = [client EXCEPT ![d] = c]
      BY <2>1, <2>4, ReaddirEntryStep
    <3> QED
      BY <2>1, <2>4, <3>1, EntrySound, OtherListings DEF DirInv
  <2>5. ASSUME Closedir(d) PROVE \A x \in DirHandles : ListingSound(x)'
    <3>1. dir' = [dir EXCEPT ![d] = NoEntries] /\ client' = [client EXCEPT ![d] = NoListing]
      BY <2>5 DEF Closedir
    <3>2. dir'[d] = NoEntries /\ client'[d] = NoListing
      BY <2>1, <3>1 DEF DirTypeOK
    <3>3. ListingSound(d)'
      BY <3>2, EmptyListing DEF ListingSound
    <3> QED
      BY <2>1, <3>1, <3>3, OtherListings DEF DirInv
  <2> QED
    BY <1>3, <2>2, <2>3, <2>4, <2>5 DEF Readdir
<1> QED
  BY <1>1, <1>2, <1>3 DEF DirNext, DirInv

LEMMA DirInvInit == DirInit => DirInv
<1> SUFFICES ASSUME DirInit PROVE DirInv
  OBVIOUS
<1>1. FSInv /\ DirTypeOK
  BY DirTypeInit
<1>2. ASSUME NEW d \in DirHandles PROVE ListingSound(d)
  <2>1. dir[d] = NoEntries /\ client[d] = NoListing
    BY DEF DirInit
  <2> QED
    BY <2>1, EmptyListing DEF ListingSound
<1> QED
  BY <1>1, <1>2 DEF DirInv

\* What a sound listing means for its client.
LEMMA SoundListings == DirInv => NoPhantomEntries /\ NothingDropped
<1> SUFFICES ASSUME DirInv, NEW d \in DirHandles
             PROVE  /\ ToSet(client[d].got) \subseteq client[d].want
                    /\ IsInjective(client[d].got)
                    /\ client[d].atEnd => client[d].want \ client[d].refused = ToSet(client[d].got)
  BY DEF NoPhantomEntries, NothingDropped
<1> DEFINE e == dir[d].m_entries
           n == dir[d].m_pos
<1>1. /\ ToSet(e) = client[d].want
      /\ ToSet(client[d].got) \cup client[d].refused = {e[i] : i \in 1..n}
      /\ ToSet(client[d].got) \cap client[d].refused = {}
      /\ IsInjective(client[d].got)
      /\ client[d].atEnd => n = Len(e)
  BY DEF DirInv, ListingSound
<1>2. dir[d] \in Handles /\ n <= Len(e)
  BY DirTypeIs DEF DirInv
<1>3. Len(e) \in Nat /\ n \in Nat /\ DOMAIN e = 1..Len(e)
  BY <1>2, LenProperties DEF Handles
<1> HIDE DEF e, n
<1>4. {e[i] : i \in 1..n} \subseteq ToSet(e) /\ (n = Len(e) => {e[i] : i \in 1..n} = ToSet(e))
  BY <1>2, <1>3 DEF ToSet, e, n
<1> QED
  BY <1>1, <1>4

\* On normal paths a client of Readdir() is given only children the directory
\* had at its Opendir(), each at most once, for any namespace, any requests that
\* change it meanwhile and any number of handles.
THEOREM ListingsExact == NormalPaths => (DirSpec => []NoPhantomEntries)
<1> SUFFICES ASSUME NormalPaths PROVE DirSpec => []NoPhantomEntries
  OBVIOUS
<1>1. DirInv /\ [DirNext]_<<fsvars, dirvars>> => DirInv'
  BY DirInvNext
<1> QED
  BY <1>1, DirInvInit, SoundListings, PTL DEF DirSpec

\* On normal paths a client that has read to the end has been given every child
\* the directory had at its Opendir(), but for those answered -ENAMETOOLONG.
THEOREM ListingsComplete == NormalPaths => (DirSpec => []NothingDropped)
<1> SUFFICES ASSUME NormalPaths PROVE DirSpec => []NothingDropped
  OBVIOUS
<1>1. DirInv /\ [DirNext]_<<fsvars, dirvars>> => DirInv'
  BY DirInvNext
<1> QED
  BY <1>1, DirInvInit, SoundListings, PTL DEF DirSpec
=============================================================================
