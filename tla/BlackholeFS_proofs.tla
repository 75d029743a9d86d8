------------------------- MODULE BlackholeFS_proofs -------------------------
(***************************************************************************)
(* What BlackholeFS guarantees for any set of paths and any number of      *)
(* operations: the map stays well formed, no two paths share a stub, and a *)
(* removed inode never comes back.                                         *)
(***************************************************************************)
EXTENDS BlackholeFS, TLAPS

\* Every inode in the map has been handed out.
HandedOut == \A p \in Paths : m_files[p] \in 0..m_fd_last

FSInv == FSTypeOK /\ HandedOut /\ NoAlias

\* The namespace is well formed at first.
LEMMA FSInvInit == FSInit => FSInv
<1> SUFFICES ASSUME FSInit PROVE FSInv
  OBVIOUS
<1>1. FSTypeOK
  BY FSAssumption DEF FSInit, FSTypeOK, BlankStub, Stub, Off_t, NoStub, Inodes
<1>2. HandedOut
  <2> SUFFICES ASSUME NEW p \in Paths PROVE m_files[p] \in 0..m_fd_last
    BY DEF HandedOut
  <2>1. m_files[p] = 0 /\ m_fd_last = 0
    BY DEF FSInit, NoStub
  <2> QED
    BY <2>1
<1>3. NoAlias
  BY DEF FSInit, NoAlias, exists
<1> QED
  BY <1>1, <1>2, <1>3 DEF FSInv

\* The cast of a size to off_t keeps the range, and the value if it fits.
LEMMA ToOffType ==
    ASSUME NEW n \in FileSizes
    PROVE  toOff(n) \in Off_t /\ (n <= OffMax => toOff(n) = n)
BY FSAssumption DEF toOff, Off_t

\* ++m_fd_last yields an inode number larger than all in use.
LEMMA NextFdFresh ==
    ASSUME FSInv, NextFd
    PROVE  /\ m_fd_last' \in Inodes
           /\ m_fd_last' = m_fd_last + 1
           /\ \A p \in Paths : m_files[p] < m_fd_last'
BY FSAssumption DEF FSInv, FSTypeOK, HandedOut, NextFd, Inodes, NoStub

\* Giving one path a fresh inode, and that inode a stub, keeps FSInv.
LEMMA FreshStubInv ==
    ASSUME FSInv, NextFd,
           NEW p \in Paths, NEW s \in Stub,
           m_files' = [m_files EXCEPT ![p] = m_fd_last'],
           stub' = [stub EXCEPT ![m_fd_last'] = s]
    PROVE  FSInv'
<1>1. /\ m_fd_last' \in Inodes
      /\ m_fd_last' = m_fd_last + 1
      /\ \A q \in Paths : m_files[q] < m_fd_last'
  BY NextFdFresh
<1>2. FSTypeOK'
  BY <1>1, FSAssumption DEF FSInv, FSTypeOK, Inodes, NoStub
<1>3. HandedOut'
  BY <1>1, FSAssumption DEF FSInv, FSTypeOK, HandedOut, Inodes, NoStub
<1>4. NoAlias'
  BY <1>1, FSAssumption DEF FSInv, FSTypeOK, NoAlias, exists, Inodes, NoStub
<1> QED
  BY <1>2, <1>3, <1>4 DEF FSInv

\* Changing one stub, and handing out at most one fd, keeps FSInv.
LEMMA SameMapInv ==
    ASSUME FSInv, UNCHANGED m_files,
           stub' \in [Inodes -> Stub],
           NextFd \/ UNCHANGED m_fd_last
    PROVE  FSInv'
BY FSAssumption DEF FSInv, FSTypeOK, HandedOut, NoAlias, exists, NextFd, Inodes, NoStub

\* Every namespace operation keeps FSInv.
LEMMA FSInvNext == FSInv /\ [FSNext]_fsvars => FSInv'
<1> SUFFICES ASSUME FSInv, [FSNext]_fsvars PROVE FSInv'
  OBVIOUS
<1> USE FSAssumption
<1>0. stub \in [Inodes -> Stub] /\ m_files \in [Paths -> Inodes \cup {NoStub}]
  BY DEF FSInv, FSTypeOK
<1>1. ASSUME NEW p \in Paths, NEW fl \in OpenFlags, open(p, fl) PROVE FSInv'
  <2>1. CASE openError(p, fl)
    BY <2>1, <1>0, SameMapInv DEF openError, fsvars
  <2>2. CASE openRdonly(p, fl)
    BY <2>2, <1>0, SameMapInv DEF openRdonly
  <2>3. CASE openReuse(p, fl)
    <3>1. stub' \in [Inodes -> Stub]
      BY <2>3, <1>0 DEF openReuse, Stub
    <3> QED
      BY <2>3, <3>1, SameMapInv DEF openReuse
  <2>4. CASE openFresh(p, fl)
    <3>1. [BlankStub EXCEPT !.m_isOpenWrite = TRUE] \in Stub
      <4>1. 0 \in FileSizes /\ 0 \in Off_t
        BY DEF Off_t
      <4> QED
        BY <4>1 DEF BlankStub, Stub
    <3> QED
      BY <2>4, <3>1, FreshStubInv DEF openFresh
  <2> QED
    BY <1>1, <2>1, <2>2, <2>3, <2>4 DEF open
<1>2. ASSUME NEW p \in Paths, close(p) PROVE FSInv'
  <2>1. stub' \in [Inodes -> Stub]
    BY <1>2, <1>0 DEF close, Stub
  <2> QED
    BY <1>2, <2>1, SameMapInv DEF close
<1>3. ASSUME NEW p \in Paths, unlink(p) PROVE FSInv'
  BY <1>3 DEF FSInv, FSTypeOK, HandedOut, NoAlias, exists, unlink, Inodes, NoStub
<1>4. ASSUME NEW from \in Paths, NEW to \in Paths, rename(from, to) PROVE FSInv'
  BY <1>4 DEF FSInv, FSTypeOK, HandedOut, NoAlias, exists, rename, Inodes, NoStub
<1>5. ASSUME NEW p \in Paths, NEW n \in FileSizes, seed(p, n) PROVE FSInv'
  <2>1. CASE exists(p)
    BY <1>5, <2>1, <1>0, SameMapInv DEF seed
  <2>2. CASE ~exists(p)
    <3>1. [BlankStub EXCEPT !.m_size = n, !.st_size = toOff(n)] \in Stub
      BY ToOffType DEF BlankStub, Stub
    <3> QED
      BY <1>5, <2>2, <3>1, FreshStubInv DEF seed
  <2> QED
    BY <2>1, <2>2
<1>6. ASSUME NEW i \in Inodes, NEW n \in FileSizes, setSize(i, n) \/ setStat(i, toOff(n))
      PROVE  FSInv'
  <2>1. stub' \in [Inodes -> Stub]
    BY <1>6, <1>0, ToOffType DEF setSize, setStat, Stub
  <2> QED
    BY <1>6, <2>1, SameMapInv DEF setSize, setStat
<1>7. CASE UNCHANGED fsvars
  BY <1>7, <1>0, SameMapInv DEF fsvars
<1> QED
  BY <1>1, <1>2, <1>3, <1>4, <1>5, <1>6, <1>7 DEF FSNext

\* The map and the stubs keep their types whatever is opened, closed, renamed,
\* unlinked, seeded or resized.
THEOREM FSTypeCorrect == FSSpec => []FSTypeOK
<1>1. FSInv => FSTypeOK
  BY DEF FSInv
<1> QED
  BY <1>1, FSInvInit, FSInvNext, PTL DEF FSSpec

\* rename() moves entries and open() numbers its stubs so that no two paths
\* ever share one.
THEOREM FSNoAlias == FSSpec => []NoAlias
<1>1. FSInv => NoAlias
  BY DEF FSInv
<1> QED
  BY <1>1, FSInvInit, FSInvNext, PTL DEF FSSpec

\* One operation never gives a path an inode that was handed out earlier and
\* that no path has now.
LEMMA NoResurrectionStep ==
    ASSUME FSInv, [FSNext]_fsvars,
           NEW i \in 1..m_fd_last, \A p \in Paths : m_files[p] # i,
           NEW q \in Paths
    PROVE  m_files'[q] # i
<1> USE FSAssumption DEF FSInv, FSTypeOK, HandedOut
<1>0. i \in Inodes /\ i # NoStub
  BY DEF Inodes, NoStub
<1>1. ASSUME NextFd, NEW p \in Paths, m_files' = [m_files EXCEPT ![p] = m_fd_last']
      PROVE  m_files'[q] # i
  BY <1>1, NextFdFresh
<1>2. CASE UNCHANGED m_files
  BY <1>2
<1>3. ASSUME NEW p \in Paths, unlink(p) PROVE m_files'[q] # i
  BY <1>3, <1>0 DEF unlink
<1>4. ASSUME NEW from \in Paths, NEW to \in Paths, rename(from, to) PROVE m_files'[q] # i
  BY <1>4, <1>0 DEF rename
<1>5. ASSUME NEW p \in Paths, NEW fl \in OpenFlags, open(p, fl) PROVE m_files'[q] # i
  BY <1>5, <1>1, <1>2 DEF open, openError, openRdonly, openReuse, openFresh, fsvars
<1>6. ASSUME NEW p \in Paths, NEW n \in FileSizes, seed(p, n) PROVE m_files'[q] # i
  BY <1>6, <1>1, <1>2 DEF seed
<1>7. ASSUME NEW p \in Paths, close(p) PROVE m_files'[q] # i
  BY <1>7, <1>2 DEF close
<1>8. ASSUME NEW j \in Inodes, NEW n \in FileSizes, setSize(j, n) \/ setStat(j, toOff(n))
      PROVE  m_files'[q] # i
  BY <1>8, <1>2 DEF setSize, setStat
<1>9. CASE UNCHANGED fsvars
  BY <1>9, <1>2 DEF fsvars
<1> QED
  BY <1>3, <1>4, <1>5, <1>6, <1>7, <1>8, <1>9 DEF FSNext

\* What unlink(), O_TRUNC or a replacing rename() has removed stays removed,
\* and no new file gets an old file's inode number.
THEOREM FSNoResurrection == FSSpec => NoResurrection
<1>1. FSInv /\ [FSNext]_fsvars =>
        [\A i \in 1..m_fd_last :
            (\A p \in Paths : m_files[p] # i) => (\A p \in Paths : m_files'[p] # i)]_fsvars
  BY NoResurrectionStep
<1> QED
  BY <1>1, FSInvInit, FSInvNext, PTL DEF FSSpec, NoResurrection
=============================================================================
