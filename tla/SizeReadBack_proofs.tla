------------------------ MODULE SizeReadBack_proofs -------------------------
(***************************************************************************)
(* A file has the size its last writer was told, provided that a session   *)
(* that writes has its path to itself, that open files are not renamed or  *)
(* unlinked, that asynchronous writes have returned before Close(), that   *)
(* the fds still fit an int and the seeded sizes an off_t.                 *)
(***************************************************************************)
EXTENDS XrdBlackholeOss_proofs

Discipline == /\ Sharing = "exclusive"
              /\ Relocation = "never"
              /\ CountedBeforeClose
              /\ MaxFd <= IntMax
              /\ \A n \in SeedSizes : n <= OffMax

\* The stages of a writer's Close() at which m_size, and then st_size, is new.
SizeOut == {"setStat", "record", "fsClose"}
StatOut == {"record", "fsClose"}

\* What a handle knows of the stub it holds.
HandleSound(h) ==
    /\ file[h].pc \notin {"idle", "getStub"} => file[h].m_stub = m_files[file[h].m_path]
    /\ file[h].pc \in {"setSize", "setStat"} => file[h].was_write
    /\ file[h].was_write /\ file[h].pc \in SizeOut =>
          stub[file[h].m_stub].m_size = file[h].wb
    /\ file[h].was_write /\ file[h].pc \in StatOut =>
          stub[file[h].m_stub].st_size = file[h].wb
    /\ file[h].pc = "open" /\ ~file[h].was_write =>
          file[h].m_size = written[file[h].m_stub]

\* A session that writes is the only one on its path.
WriterAlone ==
    \A g, h \in Handles :
        InSession(g) /\ InSession(h) /\ file[g].m_path = file[h].m_path /\ file[h].was_write
            => g = h

Writing(p) == \E h \in Handles : InSession(h) /\ file[h].m_path = p /\ file[h].was_write

\* No writer of p has begun to publish its size.
Settled(p) ==
    \A h \in Handles :
        InSession(h) /\ file[h].m_path = p /\ file[h].was_write => file[h].pc \notin SizeOut

PathSound(p) ==
    exists(p) => /\ stub[m_files[p]].m_isOpenWrite <=> Writing(p)
                 /\ Settled(p) => /\ stub[m_files[p]].m_size = written[m_files[p]]
                                  /\ stub[m_files[p]].st_size = written[m_files[p]]

\* An inode not yet handed out has no history.
Unwritten == \A i \in Inodes : i > m_fd_last => written[i] = 0

Core == /\ \A h \in Handles : HandleSound(h)
        /\ \A p \in Paths : PathSound(p)
        /\ WriterAlone
        /\ Unwritten

SizeInv == AccountInv /\ Core

-----------------------------------------------------------------------------
\* A number that fits an int is returned unchanged.
LEMMA ToIntSmall == ASSUME NEW n \in 0..IntMax PROVE toInt(n) = n
<1>1. IntMax \in Nat
  BY FSAssumption
<1>2. n % (2 * (IntMax + 1)) = n
  BY <1>1
<1> QED
  BY <1>1, <1>2 DEF toInt

\* Open() is refused only when open() has done nothing.
LEMMA RefusedUnchanged ==
    ASSUME FSInv, MaxFd <= IntMax, NEW p \in Paths, NEW fl \in OpenFlags,
           open(p, fl), openRC(p, fl) < 0
    PROVE  UNCHANGED fsvars
<1>1. CASE openFails(p, fl)
  BY <1>1 DEF open, openFails, openError, openRdonly, openReuse, openFresh
<1>2. CASE ~openFails(p, fl)
  <2>0. NextFd
    BY <1>2 DEF open, openError, openRdonly, openReuse, openFresh
  <2>1. m_fd_last + 1 \in 0..IntMax
    BY <2>0, FSAssumption DEF NextFd, FSInv, FSTypeOK
  <2>2. openRC(p, fl) = m_fd_last + 1
    BY <1>2, <2>1, ToIntSmall DEF openRC
  <2> QED
    BY <2>1, <2>2
<1> QED
  BY <1>1, <1>2

\* A step of h that leaves the stubs alone, and h's session as it was, owes
\* only what h itself knows.
LEMMA QuietStep ==
    ASSUME SizeInv, NEW h \in Handles,
           UNCHANGED <<m_files, stub, written>>,
           m_fd_last \in Nat, m_fd_last' \in Nat, m_fd_last <= m_fd_last',
           \A g \in Handles \ {h} : file'[g] = file[g],
           InSession(h)' <=> InSession(h),
           InSession(h) => /\ file'[h].m_path = file[h].m_path
                           /\ file'[h].was_write = file[h].was_write,
           file[h].was_write => (file'[h].pc \in SizeOut <=> file[h].pc \in SizeOut),
           HandleSound(h)'
    PROVE  Core'
<1> USE DEF InSession
<1>1. ASSUME NEW g \in Handles PROVE HandleSound(g)'
  <2>1. CASE g = h
    BY <2>1
  <2>2. CASE g # h
    BY <2>2 DEF SizeInv, Core, HandleSound
  <2> QED
    BY <2>1, <2>2
<1>2. ASSUME NEW p \in Paths PROVE PathSound(p)'
  <2>1. Writing(p)' <=> Writing(p)
    BY DEF Writing
  <2>2. Settled(p)' => Settled(p)
    BY DEF Settled
  <2> QED
    BY <2>1, <2>2 DEF SizeInv, Core, PathSound, exists
<1>3. WriterAlone'
  BY DEF SizeInv, Core, WriterAlone
<1>4. Unwritten'
  BY FSAssumption DEF SizeInv, Core, Unwritten, Inodes
<1> QED
  BY <1>1, <1>2, <1>3, <1>4 DEF Core

\* What the earlier invariants give about one handle.
LEMMA HandleFacts ==
    ASSUME SizeInv, NEW h \in Handles
    PROVE  /\ file \in [Handles -> File]
           /\ FSInv
           /\ TypeOK
           /\ HandleSound(h)
           /\ StubPresent(h)
           /\ BytesAccounted(h)
           /\ InSession(h) => file[h].m_path \in Paths
BY DEF SizeInv, AccountInv, Core, OssInv, TypeOK, SessionsSound

\* Reads and writes.
LEMMA TransferCore ==
    ASSUME SizeInv, NEW h \in Handles, AckWrite(h) \/ DoRead(h)
    PROVE  Core'
<1>0. file \in [Handles -> File] /\ TypeOK /\ HandleSound(h)
  BY HandleFacts
<1>1. UNCHANGED <<m_files, stub, m_fd_last, written>> /\ m_fd_last \in Nat
  BY <1>0, FSAssumption DEF AckWrite, Write, WriteAio_done, DoRead, Read_error, Read, ReadV,
     fsvars, history, TypeOK, FSTypeOK
<1>2. \A g \in Handles \ {h} : file'[g] = file[g]
  BY <1>0, OthersUnchanged
<1>3. /\ file'[h].pc = file[h].pc
      /\ file'[h].m_path = file[h].m_path
      /\ file'[h].m_stub = file[h].m_stub
      /\ file'[h].m_size = file[h].m_size
      /\ file'[h].was_write = file[h].was_write
      /\ file'[h].wb = file[h].wb
  BY <1>0 DEF AckWrite, Write, WriteAio_done, DoRead, Read_error, Read, ReadV, File
<1>4. HandleSound(h)'
  BY <1>0, <1>1, <1>3 DEF HandleSound
<1> QED
  BY <1>1, <1>2, <1>3, <1>4, QuietStep DEF InSession

\* The beginning of Close(): the flag is set exactly in a writer.
LEMMA BeginCloseCore ==
    ASSUME SizeInv, NEW h \in Handles, BeginClose(h)
    PROVE  Core'
<1> DEFINE p == file[h].m_path
<1>0. /\ file \in [Handles -> File]
      /\ TypeOK
      /\ HandleSound(h)
      /\ StubPresent(h)
  BY HandleFacts
<1>1. Close_begin(h) /\ UNCHANGED written
  BY <1>0 DEF BeginClose, Close_noStub, StubPresent
<1>2. UNCHANGED <<m_files, stub, m_fd_last, written>> /\ m_fd_last \in Nat
  BY <1>0, <1>1, FSAssumption DEF Close_begin, fsvars, TypeOK, FSTypeOK
<1>3. \A g \in Handles \ {h} : file'[g] = file[g]
  BY <1>0, OthersUnchanged
<1>4. /\ file[h].pc = "open"
      /\ file'[h].pc = IF stub[file[h].m_stub].m_isOpenWrite THEN "setSize" ELSE "record"
      /\ file'[h].m_path = file[h].m_path
      /\ file'[h].m_stub = file[h].m_stub
      /\ file'[h].was_write = file[h].was_write
  BY <1>0, <1>1 DEF Close_begin, File
<1>5. p \in Paths /\ PathSound(p) /\ exists(p) /\ file[h].m_stub = m_files[p]
  BY <1>0, <1>4, HandleFacts DEF SizeInv, Core, InSession, StubPresent, HandleSound
<1>6. file[h].was_write <=> Writing(p)
  BY <1>4 DEF SizeInv, Core, WriterAlone, Writing, InSession
<1>7. stub[file[h].m_stub].m_isOpenWrite <=> file[h].was_write
  BY <1>5, <1>6 DEF PathSound
<1>8. \/ file'[h].pc = "setSize" /\ file[h].was_write
      \/ file'[h].pc = "record" /\ ~file[h].was_write
  <2>1. CASE stub[file[h].m_stub].m_isOpenWrite
    BY <1>4, <1>7, <2>1, Zenon
  <2>2. CASE ~stub[file[h].m_stub].m_isOpenWrite
    BY <1>4, <1>7, <2>2, Zenon
  <2> QED
    BY <2>1, <2>2
<1>9. HandleSound(h)'
  BY <1>2, <1>4, <1>5, <1>8 DEF HandleSound, SizeOut, StatOut
<1> QED
  BY <1>2, <1>3, <1>4, <1>8, <1>9, QuietStep DEF InSession, SizeOut

\* Open()'s look-up, its caching of the size, the late count of an
\* asynchronous write and the recording of the transfer.
LEMMA QuietContinueCore ==
    ASSUME SizeInv, NEW h \in Handles, Continue(h), UNCHANGED written,
           Open_getStub(h) \/ Open_init(h) \/ WriteAio_count(h) \/ Close_record(h)
    PROVE  Core'
<1> DEFINE p == file[h].m_path
<1>0. /\ file \in [Handles -> File]
      /\ TypeOK
      /\ HandleSound(h)
      /\ StubPresent(h)
      /\ InSession(h) => p \in Paths
  BY HandleFacts
<1>1. UNCHANGED <<m_files, stub, m_fd_last>> /\ m_fd_last \in Nat
  BY <1>0, FSAssumption DEF Open_getStub, Open_init, WriteAio_count, Close_record, fsvars,
     TypeOK, FSTypeOK
<1>2. UNCHANGED written
  OBVIOUS
<1>3. \A g \in Handles \ {h} : file'[g] = file[g]
  BY <1>0, OthersUnchanged
<1>4. file'[h].m_path = file[h].m_path /\ file'[h].was_write = file[h].was_write
  BY <1>0 DEF Open_getStub, Open_init, WriteAio_count, Close_record, File
<1>5. CASE Open_getStub(h)
  <2>1. file[h].pc = "getStub" /\ file'[h].pc = "init" /\ file'[h].m_stub = m_files[p]
    BY <1>0, <1>5 DEF Open_getStub, getStub, File
  <2>2. HandleSound(h)'
    BY <1>1, <1>4, <2>1 DEF HandleSound, SizeOut, StatOut
  <2> QED
    BY <1>1, <1>2, <1>3, <1>4, <2>1, <2>2, QuietStep DEF InSession, SizeOut
<1>6. CASE Open_init(h)
  <2>1. /\ file[h].pc = "init"
        /\ file'[h].pc = "open"
        /\ file'[h].m_stub = file[h].m_stub
    BY <1>0, <1>6 DEF Open_init, File
  <2>2. p \in Paths /\ exists(p) /\ PathSound(p) /\ file[h].m_stub = m_files[p]
    BY <1>0, <2>1 DEF StubPresent, InSession, SizeInv, Core, HandleSound
  <2>3. file'[h].m_size = stub[file[h].m_stub].m_size
    BY <1>0, <1>6, <2>2 DEF Open_init, File, exists
  <2>4. Settled(p)
    BY <2>1 DEF SizeInv, Core, WriterAlone, Settled, SizeOut, InSession
  <2>5. HandleSound(h)'
    BY <1>1, <1>2, <1>4, <2>1, <2>2, <2>3, <2>4 DEF HandleSound, PathSound, SizeOut, StatOut
  <2> QED
    BY <1>1, <1>2, <1>3, <1>4, <2>1, <2>5, QuietStep DEF InSession, SizeOut
<1>7. CASE WriteAio_count(h)
  <2>1. /\ file'[h].pc = file[h].pc
        /\ file'[h].m_stub = file[h].m_stub
        /\ file'[h].m_size = file[h].m_size
        /\ file'[h].wb = file[h].wb
    BY <1>0, <1>7 DEF WriteAio_count, File
  <2>2. HandleSound(h)'
    BY <1>0, <1>1, <1>2, <1>4, <2>1 DEF HandleSound
  <2> QED
    BY <1>1, <1>2, <1>3, <1>4, <2>1, <2>2, QuietStep DEF InSession
<1>8. CASE Close_record(h)
  <2>1. /\ file[h].pc = "record"
        /\ file'[h].pc = "fsClose"
        /\ file'[h].m_stub = file[h].m_stub
        /\ file'[h].wb = file[h].wb
    BY <1>0, <1>8 DEF Close_record, File
  <2>2. HandleSound(h)'
    BY <1>0, <1>1, <1>2, <1>4, <2>1 DEF HandleSound, SizeOut, StatOut
  <2> QED
    BY <1>1, <1>2, <1>3, <1>4, <2>1, <2>2, QuietStep DEF InSession, SizeOut
<1> QED
  BY <1>5, <1>6, <1>7, <1>8

\* A step in which h, which writes, changes its own stub and keeps the flag.
\* By WriterAlone and NoAlias no other session sees the change.
LEMMA PublishStep ==
    ASSUME SizeInv, NEW h \in Handles, InSession(h), file[h].was_write,
           file[h].pc # "getStub",
           UNCHANGED <<m_files, m_fd_last, written>>,
           stub'[file[h].m_stub].m_isOpenWrite = stub[file[h].m_stub].m_isOpenWrite,
           \A i \in Inodes \ {file[h].m_stub} : stub'[i] = stub[i],
           \A g \in Handles \ {h} : file'[g] = file[g],
           file'[h].m_path = file[h].m_path,
           file'[h].was_write = file[h].was_write,
           file'[h].pc \in SizeOut,
           HandleSound(h)'
    PROVE  Core'
<1> DEFINE p == file[h].m_path
<1>0. /\ FSInv
      /\ TypeOK
      /\ p \in Paths
      /\ exists(p)
      /\ file[h].m_stub = m_files[p]
  BY HandleFacts DEF HandleSound, StubPresent, InSession
<1>1. ASSUME NEW q \in Paths, exists(q), q # p
      PROVE  m_files[q] \in Inodes /\ stub'[m_files[q]] = stub[m_files[q]]
  BY <1>0, <1>1 DEF FSInv, FSTypeOK, NoAlias, exists
<1>2. ASSUME NEW g \in Handles, g # h PROVE HandleSound(g)'
  <2>1. HandleSound(g) /\ StubPresent(g) /\ (InSession(g) => file[g].m_path \in Paths)
    BY HandleFacts
  <2>2. file[g].pc \notin {"idle", "getStub"} =>
          stub'[file[g].m_stub] = stub[file[g].m_stub]
    <3> SUFFICES ASSUME file[g].pc \notin {"idle", "getStub"}
                 PROVE  stub'[file[g].m_stub] = stub[file[g].m_stub]
      OBVIOUS
    <3>1. file[g].m_path # p
      BY <1>2 DEF SizeInv, Core, WriterAlone, InSession
    <3> QED
      BY <1>1, <2>1, <3>1 DEF HandleSound, StubPresent, InSession
  <2> QED
    BY <1>2, <2>1, <2>2 DEF HandleSound, SizeOut, StatOut
<1>3. ASSUME NEW q \in Paths PROVE PathSound(q)'
  <2>1. Writing(q)' <=> Writing(q)
    BY DEF Writing, InSession, SizeOut
  <2>2. CASE q = p
    <3>1. ~Settled(p)'
      BY DEF Settled, InSession, SizeOut
    <3>2. PathSound(p)
      BY <1>0 DEF SizeInv, Core
    <3> QED
      BY <1>0, <2>1, <2>2, <3>1, <3>2 DEF PathSound, exists
  <2>3. CASE q # p
    <3>1. Settled(q)' => Settled(q)
      BY <2>3 DEF Settled, InSession
    <3>2. PathSound(q)
      BY DEF SizeInv, Core
    <3> QED
      BY <1>1, <2>1, <2>3, <3>1, <3>2 DEF PathSound, exists
  <2> QED
    BY <2>2, <2>3
<1>4. WriterAlone'
  BY DEF SizeInv, Core, WriterAlone, InSession
<1>5. Unwritten'
  BY DEF SizeInv, Core, Unwritten
<1> QED
  BY <1>2, <1>3, <1>4, <1>5 DEF Core

\* Close() writes the two copies of the size.
LEMMA PublishCore ==
    ASSUME SizeInv, NEW h \in Handles, Continue(h), Close_setSize(h) \/ Close_setStat(h)
    PROVE  Core'
<1>0. /\ file \in [Handles -> File]
      /\ TypeOK
      /\ HandleSound(h)
  BY HandleFacts
<1>1. UNCHANGED <<m_files, m_fd_last, written>>
  BY <1>0 DEF Continue, Open_getStub, Open_init, WriteAio_count, Close_record,
     Close_setSize, Close_setStat, Close_fsClose, setSize, setStat, File
<1>2. \A g \in Handles \ {h} : file'[g] = file[g]
  BY <1>0, OthersUnchanged
<1>3. file[h].m_stub \in Inodes /\ stub \in [Inodes -> Stub] /\ InSession(h)
  BY <1>0, FSAssumption DEF SizeInv, AccountInv, OssInv, StubsHeld, Close_setSize,
     Close_setStat, ClosePC, TypeOK, FSTypeOK, File, InSession
<1>4. /\ file'[h].m_path = file[h].m_path
      /\ file'[h].was_write = file[h].was_write
      /\ file'[h].m_stub = file[h].m_stub
      /\ file'[h].wb = file[h].wb
      /\ file[h].pc \in {"setSize", "setStat"}
  BY <1>0 DEF Close_setSize, Close_setStat, File
<1>5. \A i \in Inodes \ {file[h].m_stub} : stub'[i] = stub[i]
  BY <1>3 DEF Close_setSize, Close_setStat, setSize, setStat
<1>6. stub'[file[h].m_stub].m_isOpenWrite = stub[file[h].m_stub].m_isOpenWrite
  BY <1>3 DEF Close_setSize, Close_setStat, setSize, setStat, Stub
<1>7. file[h].was_write
  BY <1>0, <1>4 DEF HandleSound
<1>8. CASE Close_setSize(h)
  <2>1. file'[h].pc = "setStat" /\ stub'[file[h].m_stub].m_size = file[h].wb
    BY <1>0, <1>3, <1>8 DEF Close_setSize, setSize, File, Stub
  <2>2. HandleSound(h)'
    BY <1>0, <1>1, <1>4, <1>7, <2>1 DEF HandleSound, SizeOut, StatOut
  <2> QED
    BY <1>1, <1>2, <1>3, <1>4, <1>5, <1>6, <1>7, <2>1, <2>2, PublishStep DEF SizeOut
<1>9. CASE Close_setStat(h)
  <2>1. /\ file[h].pc = "setStat"
        /\ file'[h].pc = "record"
        /\ stub'[file[h].m_stub].m_size = stub[file[h].m_stub].m_size
        /\ stub'[file[h].m_stub].st_size = file[h].wb
    BY <1>0, <1>3, <1>9 DEF Close_setStat, setStat, File, Stub
  <2>2. HandleSound(h)'
    BY <1>0, <1>1, <1>4, <1>7, <2>1 DEF HandleSound, SizeOut, StatOut
  <2> QED
    BY <1>1, <1>2, <1>3, <1>4, <1>5, <1>6, <1>7, <2>1, <2>2, PublishStep DEF SizeOut
<1> QED
  BY <1>8, <1>9

\* The last step of Close(): what the writer published becomes the file's history.
LEMMA ReleaseCore ==
    ASSUME SizeInv, NEW h \in Handles, Continue(h), Close_fsClose(h),
           written' = IF file[h].was_write
                      THEN [written EXCEPT ![file[h].m_stub] = acked[h]] ELSE written
    PROVE  Core'
<1> DEFINE p == file[h].m_path
           i == m_files[p]
<1>0. /\ file \in [Handles -> File]
      /\ FSInv
      /\ TypeOK
      /\ HandleSound(h)
      /\ StubPresent(h)
      /\ BytesAccounted(h)
      /\ InSession(h) => p \in Paths
  BY HandleFacts
<1>1. /\ file[h].pc = "fsClose"
      /\ file'[h].pc = "idle"
      /\ UNCHANGED <<m_files, m_fd_last>>
  BY <1>0 DEF Close_fsClose, close, File
<1>2. /\ p \in Paths
      /\ exists(p)
      /\ file[h].m_stub = i
      /\ i \in Inodes
      /\ i <= m_fd_last
      /\ stub \in [Inodes -> Stub]
      /\ written \in [Inodes -> Nat]
  BY <1>0, <1>1, FSAssumption DEF HandleSound, StubPresent, InSession, FSInv, FSTypeOK, exists,
     HandedOut, TypeOK, NoStub, Inodes
<1>3. \A g \in Handles \ {h} : file'[g] = file[g]
  BY <1>0, OthersUnchanged
<1>4. stub' = [stub EXCEPT ![i].m_isOpenWrite = FALSE]
  BY <1>2 DEF Close_fsClose, close
<1>5. \A j \in Inodes : stub'[j].m_size = stub[j].m_size /\ stub'[j].st_size = stub[j].st_size
  BY <1>2, <1>4 DEF Stub
<1>6. \A j \in Inodes \ {i} : stub'[j] = stub[j] /\ written'[j] = written[j]
  BY <1>2, <1>4
<1>7. ~stub'[i].m_isOpenWrite
  BY <1>2, <1>4 DEF Stub
<1>8. PathSound(p) /\ WriterAlone /\ InSession(h)
  BY <1>1, <1>2 DEF SizeInv, Core, InSession
<1>9. ASSUME NEW q \in Paths, exists(q), q # p PROVE m_files[q] \in Inodes \ {i}
  BY <1>0, <1>2, <1>9 DEF FSInv, FSTypeOK, NoAlias, exists
<1>10. ASSUME NEW g \in Handles PROVE HandleSound(g)'
  <2>1. CASE g = h
    BY <1>1, <2>1 DEF HandleSound, SizeOut, StatOut
  <2>2. CASE g # h /\ file[g].pc \in {"idle", "getStub"}
    BY <1>3, <2>2 DEF HandleSound, SizeOut, StatOut
  <2>3. CASE g # h /\ file[g].pc \notin {"idle", "getStub"}
    <3>1. /\ HandleSound(g)
          /\ StubPresent(g)
          /\ file[g].m_path \in Paths
          /\ InSession(g)
      BY <2>3, HandleFacts DEF InSession
    <3>2. file[g].m_stub = m_files[file[g].m_path] /\ file[g].m_stub \in Inodes
      BY <1>0, <2>3, <3>1, FSAssumption DEF HandleSound, StubPresent, FSInv, FSTypeOK, exists
    <3>3. written'[file[g].m_stub] = written[file[g].m_stub]
      <4>1. CASE file[h].was_write
        <5>1. file[g].m_path # p
          BY <1>8, <2>3, <3>1, <4>1 DEF WriterAlone
        <5> QED
          BY <1>6, <1>9, <3>1, <3>2, <5>1 DEF StubPresent
      <4>2. CASE ~file[h].was_write
        BY <4>2
      <4> QED
        BY <4>1, <4>2
    <3>4. file'[g] = file[g]
      BY <1>3, <2>3
    <3> QED
      BY <1>1, <1>5, <3>1, <3>2, <3>3, <3>4 DEF HandleSound
  <2> QED
    BY <2>1, <2>2, <2>3
<1>11. ASSUME NEW q \in Paths PROVE PathSound(q)'
  <2>1. CASE q = p
    <3>1. ~Writing(q)'
      BY <1>1, <1>3, <1>8, <2>1 DEF Writing, WriterAlone, InSession
    <3>2. stub'[i].m_size = written'[i] /\ stub'[i].st_size = written'[i]
      <4>1. CASE file[h].was_write
        <5>1. written'[i] = acked[h]
          BY <1>2, <4>1
        <5>2. file[h].wb = acked[h]
          BY <1>0, <1>1 DEF BytesAccounted, ClosePC
        <5>3. stub[i].m_size = file[h].wb /\ stub[i].st_size = file[h].wb
          BY <1>0, <1>1, <1>2, <4>1 DEF HandleSound, SizeOut, StatOut
        <5> QED
          BY <1>2, <1>5, <5>1, <5>2, <5>3
      <4>2. CASE ~file[h].was_write
        <5>1. Settled(p)
          BY <1>8, <4>2 DEF Settled, WriterAlone
        <5> QED
          BY <1>2, <1>5, <1>8, <4>2, <5>1 DEF PathSound
      <4> QED
        BY <4>1, <4>2
    <3> QED
      BY <1>1, <1>7, <2>1, <3>1, <3>2 DEF PathSound
  <2>2. CASE q # p
    <3>1. Writing(q)' <=> Writing(q)
      BY <1>1, <1>3, <2>2 DEF Writing, InSession, Close_fsClose, File
    <3>2. Settled(q)' => Settled(q)
      BY <1>1, <1>3, <2>2 DEF Settled, InSession
    <3>3. PathSound(q)
      BY DEF SizeInv, Core
    <3> QED
      BY <1>1, <1>6, <1>9, <2>2, <3>1, <3>2, <3>3 DEF PathSound, exists
  <2> QED
    BY <2>1, <2>2
<1>12. WriterAlone'
  BY <1>1, <1>3, <1>8 DEF WriterAlone, InSession
<1>13. Unwritten'
  <2> SUFFICES ASSUME NEW j \in Inodes, j > m_fd_last PROVE written'[j] = 0
    BY <1>1 DEF Unwritten
  <2>1. written[j] = 0
    BY DEF SizeInv, Core, Unwritten
  <2>2. j # i
    BY <1>0, <1>2 DEF FSInv, FSTypeOK, Inodes
  <2> QED
    BY <1>6, <2>1, <2>2
<1> QED
  BY <1>10, <1>11, <1>12, <1>13 DEF Core

\* A call under way.
LEMMA ContinueCore ==
    ASSUME SizeInv, NEW h \in Handles, Continue(h)
    PROVE  Core'
BY QuietContinueCore, PublishCore, ReleaseCore DEF Continue

-----------------------------------------------------------------------------
\* A session begins on p: a writer finds no other session there and a stub with
\* the history's size, a reader finds no writer and changes nothing.
LEMMA OpenStep ==
    ASSUME SizeInv, NEW h \in Handles, NEW p \in Paths, NEW w \in BOOLEAN,
           file[h].pc = "idle",
           file'[h].pc = "getStub",
           file'[h].m_path = p,
           file'[h].was_write = w,
           \A g \in Handles \ {h} : file'[g] = file[g],
           \A g \in Handles : InSession(g) /\ file[g].m_path = p => ~w /\ ~file[g].was_write,
           UNCHANGED written,
           m_fd_last \in Nat, m_fd_last' \in Nat, m_fd_last <= m_fd_last',
           \A q \in Paths \ {p} : /\ m_files'[q] = m_files[q]
                                  /\ exists(q) => stub'[m_files[q]] = stub[m_files[q]],
           ~w => /\ exists(p)
                 /\ m_files'[p] = m_files[p]
                 /\ stub'[m_files[p]] = stub[m_files[p]],
           w => /\ stub'[m_files'[p]].m_isOpenWrite
                /\ stub'[m_files'[p]].m_size = written[m_files'[p]]
                /\ stub'[m_files'[p]].st_size = written[m_files'[p]]
    PROVE  Core'
<1>1. ASSUME NEW g \in Handles PROVE HandleSound(g)'
  <2>1. CASE g = h
    BY <2>1 DEF HandleSound, SizeOut, StatOut
  <2>2. CASE g # h /\ file[g].pc \in {"idle", "getStub"}
    BY <2>2 DEF HandleSound, SizeOut, StatOut
  <2>3. CASE g # h /\ file[g].pc \notin {"idle", "getStub"}
    <3>1. /\ HandleSound(g)
          /\ StubPresent(g)
          /\ file[g].m_path \in Paths
          /\ InSession(g)
      BY <2>3, HandleFacts DEF InSession
    <3>2. exists(file[g].m_path) /\ file[g].m_stub = m_files[file[g].m_path]
      BY <2>3, <3>1 DEF HandleSound, StubPresent
    <3>3. /\ m_files'[file[g].m_path] = m_files[file[g].m_path]
          /\ stub'[file[g].m_stub] = stub[file[g].m_stub]
      <4>1. CASE file[g].m_path = p
        BY <3>1, <3>2, <4>1
      <4>2. CASE file[g].m_path # p
        BY <3>1, <3>2, <4>2
      <4> QED
        BY <4>1, <4>2
    <3>4. file'[g] = file[g]
      BY <2>3
    <3> QED
      BY <3>1, <3>3, <3>4 DEF HandleSound
  <2> QED
    BY <2>1, <2>2, <2>3
<1>2. ASSUME NEW q \in Paths, q # p PROVE PathSound(q)'
  <2>1. Writing(q)' <=> Writing(q)
    BY <1>2 DEF Writing, InSession
  <2>2. Settled(q)' => Settled(q)
    BY <1>2 DEF Settled, InSession
  <2>3. PathSound(q)
    BY DEF SizeInv, Core
  <2> QED
    BY <1>2, <2>1, <2>2, <2>3 DEF PathSound, exists
<1>3. CASE w
  <2>1. Writing(p)'
    BY <1>3 DEF Writing, InSession
  <2> QED
    <3>1. PathSound(p)'
      BY <1>3, <2>1 DEF PathSound
    <3>2. WriterAlone'
      BY <1>3 DEF SizeInv, Core, WriterAlone, InSession
    <3>3. Unwritten'
      BY FSAssumption DEF SizeInv, Core, Unwritten, Inodes
    <3> QED
      BY <1>1, <1>2, <3>1, <3>2, <3>3 DEF Core
<1>4. CASE ~w
  <2>1. ~Writing(p) /\ ~Writing(p)' /\ Settled(p)
    BY <1>4 DEF Writing, Settled, InSession
  <2>2. PathSound(p)'
    <3>1. exists(p) /\ PathSound(p)
      BY <1>4 DEF SizeInv, Core
    <3>2. /\ ~stub[m_files[p]].m_isOpenWrite
          /\ stub[m_files[p]].m_size = written[m_files[p]]
          /\ stub[m_files[p]].st_size = written[m_files[p]]
      BY <2>1, <3>1 DEF PathSound
    <3>3. m_files'[p] = m_files[p] /\ stub'[m_files'[p]] = stub[m_files[p]]
      BY <1>4
    <3>4. /\ ~stub'[m_files'[p]].m_isOpenWrite
          /\ stub'[m_files'[p]].m_size = written'[m_files'[p]]
          /\ stub'[m_files'[p]].st_size = written'[m_files'[p]]
      BY <3>2, <3>3
    <3> QED
      BY <2>1, <3>4 DEF PathSound
  <2>3. WriterAlone'
    BY <1>4 DEF SizeInv, Core, WriterAlone, InSession
  <2>4. Unwritten'
    BY FSAssumption DEF SizeInv, Core, Unwritten, Inodes
  <2> QED
    BY <1>1, <1>2, <2>2, <2>3, <2>4 DEF Core
<1> QED
  BY <1>3, <1>4

\* What each of open()'s outcomes does to the stub of p and to the others.
LEMMA OpenStub ==
    ASSUME SizeInv, NEW p \in Paths, NEW fl \in OpenFlags, open(p, fl), ~openFails(p, fl),
           fl.write => Settled(p)
    PROVE  /\ m_fd_last \in Nat
           /\ m_fd_last' = m_fd_last + 1
           /\ \A q \in Paths \ {p} : /\ m_files'[q] = m_files[q]
                                     /\ exists(q) => stub'[m_files[q]] = stub[m_files[q]]
           /\ ~fl.write => /\ exists(p)
                           /\ m_files'[p] = m_files[p]
                           /\ stub'[m_files[p]] = stub[m_files[p]]
           /\ fl.write => /\ stub'[m_files'[p]].m_isOpenWrite
                          /\ stub'[m_files'[p]].m_size = written[m_files'[p]]
                          /\ stub'[m_files'[p]].st_size = written[m_files'[p]]
<1>0. /\ FSInv
      /\ m_files \in [Paths -> Inodes \cup {NoStub}]
      /\ stub \in [Inodes -> Stub]
      /\ m_fd_last \in Nat
      /\ PathSound(p)
      /\ Unwritten
  BY FSAssumption DEF SizeInv, AccountInv, OssInv, Core, FSInv, FSTypeOK
<1>1. CASE openRdonly(p, fl)
  BY <1>0, <1>1 DEF openRdonly, NextFd
<1>2. CASE openReuse(p, fl)
  <2>1. /\ fl.write
        /\ exists(p)
        /\ m_files[p] \in Inodes
        /\ m_files' = m_files
        /\ stub' = [stub EXCEPT ![m_files[p]].m_isOpenWrite = TRUE]
    BY <1>0, <1>2 DEF openReuse, exists
  <2>2. \A q \in Paths \ {p} : exists(q) => stub'[m_files[q]] = stub[m_files[q]]
    BY <1>0, <2>1 DEF FSInv, NoAlias, exists
  <2>3. /\ stub'[m_files[p]].m_isOpenWrite
        /\ stub'[m_files[p]].m_size = stub[m_files[p]].m_size
        /\ stub'[m_files[p]].st_size = stub[m_files[p]].st_size
    BY <1>0, <2>1 DEF Stub
  <2>4. /\ stub[m_files[p]].m_size = written[m_files[p]]
        /\ stub[m_files[p]].st_size = written[m_files[p]]
    BY <1>0, <2>1 DEF PathSound
  <2>5. m_fd_last' = m_fd_last + 1
    BY <1>2 DEF openReuse, NextFd
  <2> QED
    BY <1>0, <2>1, <2>2, <2>3, <2>4, <2>5
<1>3. CASE openFresh(p, fl)
  <2>1. /\ fl.write
        /\ m_files' = [m_files EXCEPT ![p] = m_fd_last']
        /\ stub' = [stub EXCEPT ![m_fd_last'] = [BlankStub EXCEPT !.m_isOpenWrite = TRUE]]
    BY <1>3 DEF openFresh
  <2>2. /\ m_fd_last' \in Inodes
        /\ m_fd_last' = m_fd_last + 1
        /\ \A q \in Paths : m_files[q] < m_fd_last'
    BY <1>0, <1>3, NextFdFresh DEF openFresh
  <2>3. \A q \in Paths \ {p} : m_files'[q] = m_files[q]
    BY <1>0, <2>1
  <2>4. ASSUME NEW q \in Paths, exists(q) PROVE stub'[m_files[q]] = stub[m_files[q]]
    <3>1. m_files[q] \in Inodes /\ m_files[q] # m_fd_last'
      BY <1>0, <2>2, <2>4, FSAssumption DEF exists, Inodes, NoStub
    <3> QED
      BY <1>0, <2>1, <3>1
  <2>5. m_files'[p] = m_fd_last'
    BY <1>0, <2>1
  <2>6. stub'[m_fd_last'] = [BlankStub EXCEPT !.m_isOpenWrite = TRUE]
    BY <1>0, <2>1, <2>2
  <2>7. written[m_fd_last'] = 0
    BY <1>0, <2>2, FSAssumption DEF Unwritten, Inodes
  <2> QED
    BY <1>0, <2>1, <2>2, <2>3, <2>4, <2>5, <2>6, <2>7 DEF BlankStub
<1> QED
  BY <1>1, <1>2, <1>3 DEF open, openError

\* Open(), refused or not.
LEMMA OpenCore ==
    ASSUME SizeInv, Discipline, NEW h \in Handles, Open(h)
    PROVE  Core'
<1>0. /\ file \in [Handles -> File]
      /\ FSInv
      /\ TypeOK
      /\ m_fd_last \in Nat
  BY HandleFacts, FSAssumption DEF TypeOK, FSTypeOK
<1>1. UNCHANGED written
  BY DEF Open
<1>2. \A g \in Handles \ {h} : file'[g] = file[g]
  BY <1>0, OthersUnchanged
<1>3. PICK p \in Paths, fl \in OpenFlags :
        /\ MayOpen(p, fl)
        /\ Open_refused(h, p, fl) \/ Open_open(h, p, fl)
  BY DEF Open
<1>4. file[h].pc = "idle"
  BY <1>3 DEF Open_refused, Open_open
<1>5. CASE Open_refused(h, p, fl)
  <2>1. UNCHANGED <<m_files, stub, m_fd_last>>
    BY <1>0, <1>5, RefusedUnchanged DEF Open_refused, Discipline, fsvars
  <2>2. file'[h].pc = "idle"
    BY <1>0, <1>5 DEF Open_refused, File
  <2>3. HandleSound(h)'
    BY <2>2 DEF HandleSound, SizeOut, StatOut
  <2> QED
    BY <1>0, <1>1, <1>2, <1>4, <2>1, <2>2, <2>3, QuietStep DEF InSession, SizeOut
<1>6. CASE Open_open(h, p, fl)
  <2>1. /\ file'[h].pc = "getStub"
        /\ file'[h].m_path = p
        /\ file'[h].was_write = fl.write
        /\ fl.write \in BOOLEAN
    BY <1>0, <1>6 DEF Open_open, File, OpenFlags
  <2>2. open(p, fl) /\ ~openFails(p, fl)
    BY <1>6 DEF Open_open, openRC, ENOENT, EEXIST
  <2>3. \A g \in Handles :
           InSession(g) /\ file[g].m_path = p => ~fl.write /\ ~file[g].was_write
    BY <1>3 DEF MayOpen, Discipline, Sessions
  <2>4. Settled(p)
    BY <2>3 DEF Settled
  <2>5. /\ m_fd_last' = m_fd_last + 1
        /\ \A q \in Paths \ {p} : /\ m_files'[q] = m_files[q]
                                  /\ exists(q) => stub'[m_files[q]] = stub[m_files[q]]
        /\ ~fl.write => /\ exists(p)
                        /\ m_files'[p] = m_files[p]
                        /\ stub'[m_files[p]] = stub[m_files[p]]
        /\ fl.write => /\ stub'[m_files'[p]].m_isOpenWrite
                       /\ stub'[m_files'[p]].m_size = written[m_files'[p]]
                       /\ stub'[m_files'[p]].st_size = written[m_files'[p]]
    BY <2>2, <2>4, OpenStub
  <2>6. m_fd_last' \in Nat /\ m_fd_last <= m_fd_last'
    BY <1>0, <2>5
  <2> QED
    BY <1>0, <1>1, <1>2, <1>4, <2>1, <2>3, <2>5, <2>6, OpenStep
<1> QED
  BY <1>3, <1>5, <1>6

-----------------------------------------------------------------------------
\* A step of the namespace that no handle takes part in: a path in use keeps
\* its entry, its stub and its history, and any other path is at rest.
LEMMA NamespaceStep ==
    ASSUME SizeInv, UNCHANGED file, Unwritten',
           \A g \in Handles : InSession(g) =>
              LET q == file[g].m_path
              IN  /\ m_files'[q] = m_files[q]
                  /\ stub'[m_files[q]] = stub[m_files[q]]
                  /\ written'[m_files[q]] = written[m_files[q]],
           \A q \in Paths : m_files'[q] # NoStub =>
              \/ /\ m_files'[q] = m_files[q]
                 /\ stub'[m_files[q]] = stub[m_files[q]]
                 /\ written'[m_files[q]] = written[m_files[q]]
              \/ /\ ~Writing(q)
                 /\ ~stub'[m_files'[q]].m_isOpenWrite
                 /\ stub'[m_files'[q]].m_size = written'[m_files'[q]]
                 /\ stub'[m_files'[q]].st_size = written'[m_files'[q]]
    PROVE  Core'
<1>1. ASSUME NEW g \in Handles PROVE HandleSound(g)'
  <2>1. CASE file[g].pc \in {"idle", "getStub"}
    BY <2>1 DEF HandleSound, SizeOut, StatOut
  <2>2. CASE file[g].pc \notin {"idle", "getStub"}
    <3>1. HandleSound(g) /\ InSession(g)
      BY <2>2, HandleFacts DEF InSession
    <3> QED
      BY <2>2, <3>1 DEF HandleSound
  <2> QED
    BY <2>1, <2>2
<1>2. ASSUME NEW q \in Paths PROVE PathSound(q)'
  <2> SUFFICES ASSUME exists(q)' PROVE PathSound(q)'
    BY DEF PathSound
  <2>1. PathSound(q) /\ m_files'[q] # NoStub
    BY DEF SizeInv, Core, exists
  <2>2. (Writing(q)' <=> Writing(q)) /\ (Settled(q)' <=> Settled(q))
    BY DEF Writing, Settled, InSession
  <2>3. CASE /\ m_files'[q] = m_files[q]
             /\ stub'[m_files[q]] = stub[m_files[q]]
             /\ written'[m_files[q]] = written[m_files[q]]
    BY <2>1, <2>2, <2>3 DEF PathSound, exists
  <2>4. CASE /\ ~Writing(q)
             /\ ~stub'[m_files'[q]].m_isOpenWrite
             /\ stub'[m_files'[q]].m_size = written'[m_files'[q]]
             /\ stub'[m_files'[q]].st_size = written'[m_files'[q]]
    BY <2>2, <2>4 DEF PathSound
  <2> QED
    BY <2>1, <2>3, <2>4
<1>3. WriterAlone'
  BY DEF SizeInv, Core, WriterAlone, InSession
<1> QED
  BY <1>1, <1>2, <1>3 DEF Core

\* A file no session is on has its history's size and a clear flag.
LEMMA RestingPath ==
    ASSUME SizeInv, NEW p \in Paths, exists(p),
           \A g \in Handles : InSession(g) => file[g].m_path # p
    PROVE  /\ ~Writing(p)
           /\ ~stub[m_files[p]].m_isOpenWrite
           /\ stub[m_files[p]].m_size = written[m_files[p]]
           /\ stub[m_files[p]].st_size = written[m_files[p]]
<1>1. ~Writing(p) /\ Settled(p)
  BY DEF Writing, Settled
<1>2. PathSound(p)
  BY DEF SizeInv, Core
<1> QED
  BY <1>1, <1>2 DEF PathSound

\* Rename() and Unlink(), which find no session on their paths.
LEMMA RelocateCore ==
    ASSUME SizeInv, Discipline,
           \/ \E from, to \in Paths : Rename(from, to)
           \/ \E p \in Paths : Unlink(p)
    PROVE  Core'
<1>0. m_files \in [Paths -> Inodes \cup {NoStub}] /\ Unwritten
  BY DEF SizeInv, AccountInv, OssInv, FSInv, FSTypeOK, Core
<1>1. ASSUME NEW p \in Paths, MayRelocate(p), NEW g \in Handles, InSession(g)
      PROVE  file[g].m_path # p
  BY <1>1 DEF MayRelocate, Discipline, Sessions
<1>2. ASSUME NEW p \in Paths, Unlink(p) PROVE Core'
  <2>1. /\ m_files' = [m_files EXCEPT ![p] = NoStub]
        /\ UNCHANGED <<stub, m_fd_last, file, written>>
        /\ MayRelocate(p)
    BY <1>2 DEF Unlink, unlink, history
  <2>2. Unwritten'
    BY <1>0, <2>1 DEF Unwritten
  <2>3. ASSUME NEW q \in Paths, q # p PROVE m_files'[q] = m_files[q]
    BY <1>0, <2>1, <2>3
  <2>4. ASSUME NEW g \in Handles, InSession(g)
        PROVE  m_files'[file[g].m_path] = m_files[file[g].m_path]
    BY <1>1, <2>1, <2>3, <2>4, HandleFacts
  <2>5. m_files'[p] = NoStub
    BY <1>0, <2>1
  <2> QED
    BY <2>1, <2>2, <2>3, <2>4, <2>5, NamespaceStep
<1>3. ASSUME NEW from \in Paths, NEW to \in Paths, Rename(from, to) PROVE Core'
  <2>1. /\ rename(from, to)
        /\ UNCHANGED <<stub, m_fd_last, file, written>>
        /\ MayRelocate(from)
        /\ MayRelocate(to)
    BY <1>3 DEF Rename, rename, history
  <2>2. Unwritten'
    BY <1>0, <2>1 DEF Unwritten
  <2>3. ASSUME NEW q \in Paths, q # from, q # to PROVE m_files'[q] = m_files[q]
    BY <1>0, <2>1, <2>3 DEF rename
  <2>4. ASSUME NEW g \in Handles, InSession(g)
        PROVE  m_files'[file[g].m_path] = m_files[file[g].m_path]
    BY <1>1, <2>1, <2>3, <2>4, HandleFacts
  <2>5. CASE ~exists(from)
    BY <2>1, <2>2, <2>5, NamespaceStep DEF rename
  <2>6. CASE exists(from)
    <3>1. m_files'[to] = m_files[from]
      BY <1>0, <2>1, <2>6 DEF rename
    <3>2. from # to => m_files'[from] = NoStub
      BY <1>0, <2>1, <2>6 DEF rename
    <3>3. /\ ~Writing(to)
          /\ ~stub'[m_files'[to]].m_isOpenWrite
          /\ stub'[m_files'[to]].m_size = written'[m_files'[to]]
          /\ stub'[m_files'[to]].st_size = written'[m_files'[to]]
      <4>1. ~Writing(to)
        BY <1>1, <2>1 DEF Writing
      <4> QED
        BY <1>1, <2>1, <2>6, <3>1, <4>1, RestingPath
    <3> QED
      BY <2>1, <2>2, <2>3, <2>4, <3>2, <3>3, NamespaceStep
  <2> QED
    BY <2>5, <2>6
<1> QED
  BY <1>2, <1>3

\* The cast in seed() does not change a size that fits.
LEMMA SeededSize ==
    ASSUME Discipline, NEW size \in SeedSizes PROVE toOff(size) = size
BY OssAssumption, ToOffType DEF Discipline

\* A seeded file starts with its size as its history.
LEMMA SeedCore ==
    ASSUME SizeInv, Discipline, NEW p \in Paths, NEW size \in SeedSizes, Seed(p, size)
    PROVE  Core'
<1>0. /\ FSInv
      /\ m_files \in [Paths -> Inodes \cup {NoStub}]
      /\ stub \in [Inodes -> Stub]
      /\ written \in [Inodes -> Nat]
      /\ m_fd_last \in Nat
      /\ Unwritten
  BY FSAssumption DEF SizeInv, AccountInv, OssInv, Core, FSInv, FSTypeOK, TypeOK
<1>1. UNCHANGED file /\ NextFd
  BY DEF Seed, seed
<1>2. /\ m_fd_last' \in Inodes
      /\ m_fd_last' = m_fd_last + 1
      /\ \A q \in Paths : m_files[q] < m_fd_last'
  BY <1>0, <1>1, NextFdFresh
<1>3. ASSUME NEW g \in Handles, InSession(g)
      PROVE  file[g].m_path \in Paths /\ exists(file[g].m_path)
  BY <1>3, HandleFacts DEF StubPresent
<1>4. CASE exists(p)
  <2>1. UNCHANGED <<m_files, stub, written>>
    BY <1>4 DEF Seed, seed
  <2>2. Unwritten'
    BY <1>0, <1>2, <2>1, FSAssumption DEF Unwritten, Inodes
  <2> QED
    BY <1>1, <2>1, <2>2, NamespaceStep
<1>5. CASE ~exists(p)
  <2>1. /\ m_files' = [m_files EXCEPT ![p] = m_fd_last']
        /\ stub' = [stub EXCEPT ![m_fd_last'] =
                        [BlankStub EXCEPT !.m_size = size, !.st_size = size]]
        /\ written' = [written EXCEPT ![m_fd_last'] = size]
    BY <1>5, SeededSize DEF Seed, seed
  <2>2. ASSUME NEW q \in Paths, exists(q)
        PROVE  /\ m_files'[q] = m_files[q]
               /\ stub'[m_files[q]] = stub[m_files[q]]
               /\ written'[m_files[q]] = written[m_files[q]]
    <3>1. m_files[q] \in Inodes /\ m_files[q] # m_fd_last'
      BY <1>0, <1>2, <2>2, FSAssumption DEF exists, Inodes, NoStub
    <3> QED
      BY <1>0, <1>5, <2>1, <2>2, <3>1
  <2>3. ~Writing(p)
    BY <1>3, <1>5 DEF Writing
  <2>4. /\ m_files'[p] = m_fd_last'
        /\ stub'[m_fd_last'] = [BlankStub EXCEPT !.m_size = size, !.st_size = size]
        /\ written'[m_fd_last'] = size
    BY <1>0, <1>2, <2>1
  <2>5. /\ ~stub'[m_files'[p]].m_isOpenWrite
        /\ stub'[m_files'[p]].m_size = written'[m_files'[p]]
        /\ stub'[m_files'[p]].st_size = written'[m_files'[p]]
    BY <2>4 DEF BlankStub
  <2>6. ASSUME NEW q \in Paths, q # p, m_files'[q] # NoStub PROVE exists(q)
    BY <1>0, <2>1, <2>6 DEF exists
  <2>7. Unwritten'
    <3> SUFFICES ASSUME NEW j \in Inodes, j > m_fd_last' PROVE written'[j] = 0
      BY DEF Unwritten
    <3>1. j > m_fd_last /\ j # m_fd_last'
      BY <1>0, <1>2, FSAssumption DEF Inodes
    <3> QED
      BY <1>0, <2>1, <3>1 DEF Unwritten
  <2> QED
    BY <1>1, <1>3, <2>2, <2>3, <2>5, <2>6, <2>7, NamespaceStep
<1> QED
  BY <1>4, <1>5

-----------------------------------------------------------------------------
\* The invariant holds at first.
LEMMA SizeInvInit == Init => SizeInv
<1> SUFFICES ASSUME Init PROVE SizeInv
  OBVIOUS
<1>1. \A h \in Handles : file[h].pc = "idle"
  BY DEF Init, FileInit
<1>2. \A h \in Handles : HandleSound(h)
  BY <1>1 DEF HandleSound, SizeOut, StatOut
<1>3. \A p \in Paths : PathSound(p)
  BY DEF Init, FSInit, PathSound, exists
<1>4. WriterAlone
  BY <1>1 DEF WriterAlone, InSession
<1>5. Unwritten
  BY DEF Init, Unwritten
<1> QED
  BY <1>2, <1>3, <1>4, <1>5, AccountInvInit DEF SizeInv, Core

\* Every step keeps the invariant in this environment.
LEMMA SizeInvNext ==
    ASSUME Discipline
    PROVE  SizeInv /\ [Next]_vars => SizeInv'
<1> SUFFICES ASSUME SizeInv, [Next]_vars PROVE SizeInv'
  OBVIOUS
<1>1. AccountInv'
  BY AccountInvNext DEF Discipline, SizeInv
<1>2. CASE Configured \/ UNCHANGED vars
  <2>1. UNCHANGED <<m_files, stub, m_fd_last, file, written>>
    BY <1>2 DEF Configured, vars, fsvars, history
  <2>2. Unwritten'
    BY <2>1 DEF SizeInv, Core, Unwritten
  <2>3. Core'
    BY <2>1, <2>2, NamespaceStep
  <2> QED
    BY <1>1, <2>3 DEF SizeInv
<1>3. CASE \E p \in Paths, size \in SeedSizes : Seed(p, size)
  BY <1>1, <1>3, SeedCore DEF SizeInv
<1>4. CASE \/ \E from, to \in Paths : Rename(from, to)
           \/ \E p \in Paths : Unlink(p)
  BY <1>1, <1>4, RelocateCore DEF SizeInv
<1>5. CASE \E h \in Handles : Open(h)
  BY <1>1, <1>5, OpenCore DEF SizeInv
<1>6. CASE \E h \in Handles : AckWrite(h) \/ DoRead(h)
  BY <1>1, <1>6, TransferCore DEF SizeInv
<1>7. CASE \E h \in Handles : BeginClose(h)
  BY <1>1, <1>7, BeginCloseCore DEF SizeInv
<1>8. CASE \E h \in Handles : Continue(h)
  BY <1>1, <1>8, ContinueCore DEF SizeInv
<1> QED
  BY <1>2, <1>3, <1>4, <1>5, <1>6, <1>7, <1>8 DEF Next

\* Under the discipline a file at rest reads back with the size its last writer
\* saw acknowledged, both through Stat and through the size Open() caches.
THEOREM SizesReadBack ==
    ASSUME Discipline
    PROVE  Spec => []SizeReadBack
<1>1. SizeInv => SizeReadBack
  <2> SUFFICES ASSUME SizeInv, NEW p \in Paths, AtRest(p)
               PROVE  /\ stub[m_files[p]].m_size = written[m_files[p]]
                      /\ Stat(p) = written[m_files[p]]
    BY DEF SizeReadBack
  <2> QED
    BY RestingPath DEF AtRest, Stat, getStub
<1> QED
  BY <1>1, SizeInvInit, SizeInvNext, PTL DEF Spec

\* Under the discipline m_isOpenWrite marks exactly the files being written, so
\* Close() publishes a size in every writer and in no reader.
THEOREM WriteFlagsExact ==
    ASSUME Discipline
    PROVE  Spec => []WriteFlagExact
<1>1. SizeInv => WriteFlagExact
  BY DEF SizeInv, Core, PathSound, Writing, WriteFlagExact, Sessions
<1> QED
  BY <1>1, SizeInvInit, SizeInvNext, PTL DEF Spec

\* Under the discipline the size a reader has cached in Open() stays the size
\* of the file its path names.
THEOREM ReadersCurrent ==
    ASSUME Discipline
    PROVE  Spec => []ReaderSizeCurrent
<1>1. SizeInv => ReaderSizeCurrent
  BY DEF SizeInv, Core, HandleSound, ReaderSizeCurrent
<1> QED
  BY <1>1, SizeInvInit, SizeInvNext, PTL DEF Spec

\* Under the discipline a reader's Fstat, which reads the shared stub without a
\* lock, agrees with the length its reads are clipped to.
THEOREM FstatsMatch ==
    ASSUME Discipline
    PROVE  Spec => []FstatMatchesReads
<1>1. SizeInv => FstatMatchesReads
  <2> SUFFICES ASSUME SizeInv, NEW h \in Handles, file[h].pc = "open", ~file[h].was_write
               PROVE  Fstat(h) = file[h].m_size
    BY DEF FstatMatchesReads
  <2>1. /\ InSession(h)
        /\ file[h].m_path \in Paths
    BY DEF SizeInv, AccountInv, OssInv, TypeOK, InSession
  <2>2. /\ exists(file[h].m_path)
        /\ file[h].m_stub = m_files[file[h].m_path]
        /\ file[h].m_size = written[file[h].m_stub]
    BY <2>1 DEF SizeInv, Core, HandleSound, AccountInv, SessionsSound, StubPresent
  <2>3. Settled(file[h].m_path)
    BY <2>1 DEF SizeInv, Core, WriterAlone, Settled
  <2> QED
    BY <2>1, <2>2, <2>3 DEF SizeInv, Core, PathSound, Fstat, exists
<1> QED
  BY <1>1, SizeInvInit, SizeInvNext, PTL DEF Spec

-----------------------------------------------------------------------------
(***************************************************************************)
(* The refinement: under the same discipline the plug-in, with its stubs,  *)
(* its flags and the stages of its Open() and Close(), implements the      *)
(* plain store of FileStore.                                               *)
(***************************************************************************)

-----------------------------------------------------------------------------
(* What a step leaves as clients see it. *)

LEMMA ShownSizeDef ==
    ASSUME NEW p \in Paths
    PROVE  ShownSize(p) = IF ~exists(p) THEN -1
                          ELSE IF Writing(p) THEN -2 ELSE stub[m_files[p]].st_size
BY DEF ShownSize, Writing, Sessions, Stat, getStub

\* A path whose entry stays, and whose size stays unless it is being written.
LEMMA SizeKept ==
    ASSUME NEW p \in Paths, m_files'[p] = m_files[p], Writing(p)' <=> Writing(p),
           exists(p) /\ ~Writing(p) =>
              stub'[m_files[p]].st_size = stub[m_files[p]].st_size
    PROVE  ShownSize(p)' = ShownSize(p)
<1>1. ShownSize(p)' = IF ~exists(p)' THEN -1
                      ELSE IF Writing(p)' THEN -2 ELSE stub'[m_files'[p]].st_size
  BY DEF ShownSize, Writing, Sessions, Stat, getStub
<1> QED
  BY <1>1, ShownSizeDef DEF exists

\* A handle that a step does not touch, and whose file, if it is being opened,
\* keeps its entry and its size.
LEMMA SessionKept ==
    ASSUME NEW h \in Handles, file'[h] = file[h],
           file[h].pc \in OpenPC =>
              /\ m_files'[file[h].m_path] = m_files[file[h].m_path]
              /\ stub'[m_files[file[h].m_path]].m_size = stub[m_files[file[h].m_path]].m_size
    PROVE  ShownSession(h)' = ShownSession(h)
BY DEF ShownSession, InSession, getStub, Acknowledged

\* The abstract state is unchanged when no client sees a difference.
LEMMA Unseen ==
    ASSUME \A p \in Paths : ShownSize(p)' = ShownSize(p),
           \A h \in Handles : ShownSession(h)' = ShownSession(h)
    PROVE  UNCHANGED Store!storevars
BY DEF Store!storevars

\* Who writes a path is decided by the sessions' paths and modes.
LEMMA WritingKept ==
    ASSUME NEW h \in Handles, \A g \in Handles \ {h} : file'[g] = file[g],
           InSession(h)' <=> InSession(h),
           InSession(h) => /\ file'[h].m_path = file[h].m_path
                           /\ file'[h].was_write = file[h].was_write,
           NEW p \in Paths
    PROVE  Writing(p)' <=> Writing(p)
BY DEF Writing, InSession

\* A step of h inside its session that leaves the namespace alone shows, at
\* most, in h's own session.
LEMMA OwnStep ==
    ASSUME NEW h \in Handles, UNCHANGED <<m_files, stub>>,
           \A g \in Handles \ {h} : file'[g] = file[g],
           InSession(h)' <=> InSession(h),
           InSession(h) => /\ file'[h].m_path = file[h].m_path
                           /\ file'[h].was_write = file[h].was_write
    PROVE  /\ \A p \in Paths : ShownSize(p)' = ShownSize(p)
           /\ \A g \in Handles \ {h} : ShownSession(g)' = ShownSession(g)
<1>1. \A p \in Paths : Writing(p)' <=> Writing(p)
  BY WritingKept
<1>2. \A p \in Paths : ShownSize(p)' = ShownSize(p)
  BY <1>1, SizeKept
<1>3. \A g \in Handles \ {h} : ShownSession(g)' = ShownSession(g)
  BY SessionKept
<1> QED
  BY <1>2, <1>3

-----------------------------------------------------------------------------
(* The steps no client sees. *)

LEMMA QuietContinueUnseen ==
    ASSUME SizeInv, NEW h \in Handles, Continue(h),
           Open_getStub(h) \/ Open_init(h) \/ WriteAio_count(h) \/ Close_record(h)
    PROVE  UNCHANGED Store!storevars
<1>0. /\ file \in [Handles -> File]
      /\ HandleSound(h)
      /\ StubPresent(h)
      /\ UNCHANGED <<m_files, stub>>
  BY HandleFacts DEF Open_getStub, Open_init, WriteAio_count, Close_record, fsvars
<1>1. \A g \in Handles \ {h} : file'[g] = file[g]
  BY <1>0 DEF Open_getStub, Open_init, WriteAio_count, Close_record
<1>2. /\ InSession(h)' <=> InSession(h)
      /\ file'[h].m_path = file[h].m_path
      /\ file'[h].was_write = file[h].was_write
      /\ ShownSession(h)' = ShownSession(h)
  <2>1. CASE Open_getStub(h)
    BY <1>0, <2>1 DEF Open_getStub, File, InSession, ShownSession, OpenPC, getStub
  <2>2. CASE Open_init(h)
    <3>1. file[h].m_stub = m_files[file[h].m_path] /\ file[h].m_stub # NoStub
      BY <1>0, <2>2 DEF Open_init, HandleSound, StubPresent
    <3>2. /\ file'[h].pc = "open" /\ file[h].pc = "init"
          /\ file'[h].m_size = stub[file[h].m_stub].m_size
          /\ file'[h].m_writeBytes = 0 /\ file'[h].m_writeBytesAIO = 0
          /\ file'[h].m_readBytes = 0
          /\ file'[h].aio = file[h].aio
          /\ file'[h].m_path = file[h].m_path
          /\ file'[h].was_write = file[h].was_write
      <4>1. /\ file[h].pc = "init"
            /\ file'[h] = [file[h] EXCEPT
                  !.pc = "open", !.m_size = stub[file[h].m_stub].m_size,
                  !.m_writeBytes = 0, !.m_writeBytesAIO = 0,
                  !.m_readBytes = 0, !.m_errors = 0]
        BY <1>0, <2>2, <3>1 DEF Open_init
      <4>2. file[h] \in File
        BY <1>0
      <4> QED
        BY <4>1, <4>2 DEF File
    <3>3. file[h].aio = 0
      BY <3>2, HandleFacts DEF BytesAccounted
    <3> QED
      BY <1>0, <3>1, <3>2, <3>3 DEF InSession, ShownSession, OpenPC, getStub, Acknowledged
  <2>3. CASE WriteAio_count(h)
    <3>1. file[h].pc = "open"
      BY <2>3, HandleFacts, FSAssumption DEF WriteAio_count, BytesAccounted
    <3>2. /\ file'[h].pc = "open"
          /\ file'[h].m_size = file[h].m_size
          /\ file'[h].m_writeBytes = file[h].m_writeBytes
          /\ file'[h].m_writeBytesAIO = file[h].m_writeBytesAIO + file[h].aio
          /\ file'[h].m_readBytes = file[h].m_readBytes
          /\ file'[h].aio = 0
          /\ file'[h].m_path = file[h].m_path
          /\ file'[h].was_write = file[h].was_write
      BY <1>0, <2>3, <3>1 DEF WriteAio_count, File
    <3>3. /\ file[h].m_writeBytes \in Nat /\ file[h].m_writeBytesAIO \in Nat
          /\ file[h].aio \in Nat
      BY <1>0, FileAssumption DEF File
    <3>4. Acknowledged(h)' = Acknowledged(h)
      BY <3>2, <3>3 DEF Acknowledged
    <3> QED
      BY <3>1, <3>2, <3>4 DEF InSession, ShownSession, OpenPC
  <2>4. CASE Close_record(h)
    BY <1>0, <2>4 DEF Close_record, File, InSession, ShownSession, OpenPC, Acknowledged
  <2> QED
    BY <2>1, <2>2, <2>3, <2>4
<1> QED
  BY <1>0, <1>1, <1>2, OwnStep, Unseen

\* Close() reads the flag and the counters, or publishes one of the two sizes of
\* a file that nobody else has open.
LEMMA CloseStageUnseen ==
    ASSUME SizeInv, NEW h \in Handles,
           Close_begin(h) \/ Close_setSize(h) \/ Close_setStat(h)
    PROVE  UNCHANGED Store!storevars
<1>0. /\ file \in [Handles -> File] /\ file[h] \in File
      /\ HandleSound(h)
      /\ FSInv
      /\ m_files \in [Paths -> Inodes \cup {NoStub}]
      /\ stub \in [Inodes -> Stub]
      /\ InSession(h) => file[h].m_path \in Paths
      /\ InSession(h) => exists(file[h].m_path)
  BY HandleFacts DEF FSInv, FSTypeOK, StubPresent
<1>1. \A g \in Handles \ {h} : file'[g] = file[g]
  BY <1>0 DEF Close_begin, Close_setSize, Close_setStat
<1>2. /\ InSession(h) /\ InSession(h)'
      /\ file'[h].m_path = file[h].m_path
      /\ file'[h].was_write = file[h].was_write
      /\ ShownSession(h)' = ShownSession(h)
  <2>1. /\ file[h].pc \in {"open", "setSize", "setStat"}
        /\ file'[h].pc \in {"setSize", "setStat", "record"}
        /\ file'[h].m_path = file[h].m_path
        /\ file'[h].was_write = file[h].was_write
        /\ file'[h].m_size = file[h].m_size
        /\ file'[h].m_writeBytes = file[h].m_writeBytes
        /\ file'[h].m_writeBytesAIO = file[h].m_writeBytesAIO
        /\ file'[h].m_readBytes = file[h].m_readBytes
        /\ file'[h].aio = file[h].aio
    BY <1>0 DEF Close_begin, Close_setSize, Close_setStat, File
  <2> QED
    BY <2>1 DEF InSession, ShownSession, OpenPC, Acknowledged
<1>3. CASE Close_begin(h)
  <2>1. UNCHANGED <<m_files, stub>>
    BY <1>3 DEF Close_begin, fsvars
  <2> QED
    BY <1>1, <1>2, <2>1, OwnStep, Unseen
<1>4. CASE Close_setSize(h) \/ Close_setStat(h)
  <2> DEFINE q == file[h].m_path
             i == m_files[q]
  <2>1. /\ m_files' = m_files
        /\ file[h].was_write
        /\ file[h].m_stub = i
        /\ q \in Paths
        /\ i \in Inodes
        /\ \A j \in Inodes \ {i} : stub'[j] = stub[j]
    BY <1>0, <1>2, <1>4 DEF Close_setSize, Close_setStat, setSize, setStat, HandleSound, exists
  <2>2. ASSUME NEW p \in Paths PROVE ShownSize(p)' = ShownSize(p)
    <3>1. Writing(p)' <=> Writing(p)
      BY <1>1, <1>2, WritingKept
    <3>2. CASE p = q
      <4>1. Writing(p)
        BY <1>2, <2>1, <3>2 DEF Writing
      <4> QED
        BY <2>1, <3>1, <4>1, SizeKept
    <3>3. CASE p # q
      <4>1. exists(p) => m_files[p] \in Inodes \ {i}
        BY <1>0, <2>1, <3>3 DEF exists, FSInv, NoAlias
      <4> QED
        BY <2>1, <3>1, <4>1, SizeKept
    <3> QED
      BY <3>2, <3>3
  <2>3. ASSUME NEW g \in Handles PROVE ShownSession(g)' = ShownSession(g)
    <3>1. CASE g = h
      BY <1>2, <3>1
    <3>2. CASE g # h
      <4>1. file'[g] = file[g]
        BY <1>1, <3>2
      <4>2. ASSUME file[g].pc \in OpenPC
            PROVE  stub'[m_files[file[g].m_path]] = stub[m_files[file[g].m_path]]
        <5>1. /\ InSession(g)
              /\ file[g].m_path \in Paths
              /\ exists(file[g].m_path)
          BY <4>2, HandleFacts DEF InSession, OpenPC, StubPresent
        <5>2. file[g].m_path # q
          BY <1>2, <2>1, <3>2, <5>1 DEF SizeInv, Core, WriterAlone
        <5>3. m_files[file[g].m_path] \in Inodes \ {i}
          BY <1>0, <2>1, <5>1, <5>2 DEF exists, FSInv, NoAlias
        <5> QED
          BY <2>1, <5>3
      <4> QED
        BY <2>1, <4>1, <4>2, SessionKept
    <3> QED
      BY <3>1, <3>2
  <2> QED
    BY <2>2, <2>3, Unseen
<1> QED
  BY <1>3, <1>4

-----------------------------------------------------------------------------
(* The steps clients see. *)

\* The sizes and the sessions of the abstract store, as functions.
Sizes    == [p \in Paths |-> ShownSize(p)]
SessionsOf == [h \in Handles |-> ShownSession(h)]

LEMMA SizesKept ==
    ASSUME \A p \in Paths : ShownSize(p)' = ShownSize(p) PROVE Sizes' = Sizes
BY DEF Sizes

LEMMA SessionReplaced ==
    ASSUME NEW h \in Handles, \A g \in Handles \ {h} : ShownSession(g)' = ShownSession(g)
    PROVE  SessionsOf' = [SessionsOf EXCEPT ![h] = ShownSession(h)']
BY DEF SessionsOf

\* A session as a record; TRUE has a name, as the provers reason better about one.
Yes == TRUE

SessionRec(o, p, w, s, b, g) ==
    [open |-> o, path |-> p, write |-> w, size |-> s, bytes |-> b, got |-> g]

LEMMA BytesReplaced ==
    ASSUME NEW o, NEW p, NEW w, NEW s, NEW b, NEW g, NEW c
    PROVE  SessionRec(o, p, w, s, c, g) = [SessionRec(o, p, w, s, b, g) EXCEPT !.bytes = c]
BY DEF SessionRec

LEMMA GotReplaced ==
    ASSUME NEW o, NEW p, NEW w, NEW s, NEW b, NEW g, NEW c
    PROVE  SessionRec(o, p, w, s, b, c) = [SessionRec(o, p, w, s, b, g) EXCEPT !.got = c]
BY DEF SessionRec

LEMMA SessionFields ==
    ASSUME NEW o, NEW p, NEW w, NEW s, NEW b, NEW g
    PROVE  /\ SessionRec(o, p, w, s, b, g).open = o
           /\ SessionRec(o, p, w, s, b, g).path = p
           /\ SessionRec(o, p, w, s, b, g).write = w
           /\ SessionRec(o, p, w, s, b, g).size = s
           /\ SessionRec(o, p, w, s, b, g).bytes = b
           /\ SessionRec(o, p, w, s, b, g).got = g
BY DEF SessionRec

\* Between Open() and the end of Close() a session shows the handle's members.
LEMMA SessionOpen ==
    ASSUME NEW h \in Handles, file[h].pc = "open", file'[h].pc = "open"
    PROVE  /\ ShownSession(h) =
                SessionRec(Yes, file[h].m_path, file[h].was_write, file[h].m_size,
                           Acknowledged(h), file[h].m_readBytes)
           /\ ShownSession(h)' =
                SessionRec(Yes, file'[h].m_path, file'[h].was_write, file'[h].m_size,
                           Acknowledged(h)', file'[h].m_readBytes)
<1>1. /\ file[h].pc # "idle" /\ file[h].pc \notin OpenPC
      /\ file'[h].pc # "idle" /\ file'[h].pc \notin OpenPC
  BY DEF OpenPC
<1> QED
  BY <1>1 DEF ShownSession, InSession, SessionRec, Yes

LEMMA AckWriteSeen ==
    ASSUME SizeInv, NEW h \in Handles, AckWrite(h)
    PROVE  \E n \in WriteSizes : Store!Write(h, n)
<1>1. PICK n \in WriteSizes : file[h].was_write /\ (Write(h, n) \/ WriteAio_done(h, n))
  BY DEF AckWrite, MayWrite
<1>2. /\ file \in [Handles -> File] /\ file[h] \in File
      /\ UNCHANGED <<m_files, stub>>
      /\ n \in Nat
  BY <1>1, HandleFacts, FileAssumption DEF Write, WriteAio_done, fsvars
<1>3. \A g \in Handles \ {h} : file'[g] = file[g]
  BY <1>1, <1>2 DEF Write, WriteAio_done
<1>4. /\ file[h].pc = "open" /\ file'[h].pc = "open"
      /\ file'[h].m_path = file[h].m_path
      /\ file'[h].was_write = file[h].was_write
      /\ file'[h].m_size = file[h].m_size
      /\ file'[h].m_readBytes = file[h].m_readBytes
      /\ \/ /\ file'[h].m_writeBytes = file[h].m_writeBytes + n
            /\ file'[h].m_writeBytesAIO = file[h].m_writeBytesAIO
            /\ file'[h].aio = file[h].aio
         \/ /\ file'[h].m_writeBytes = file[h].m_writeBytes
            /\ file'[h].m_writeBytesAIO = file[h].m_writeBytesAIO
            /\ file[h].aio = 0
            /\ file'[h].aio = n
  <2>1. CASE Write(h, n)
    <3>1. /\ file[h].pc = "open"
          /\ file'[h] = [file[h] EXCEPT !.m_writeBytes = file[h].m_writeBytes + n]
      BY <1>2, <2>1 DEF Write
    <3> QED
      BY <1>2, <3>1 DEF File
  <2>2. CASE WriteAio_done(h, n)
    <3>1. /\ file[h].pc = "open" /\ file[h].aio = 0
          /\ file'[h] = [file[h] EXCEPT !.aio = n]
      BY <1>2, <2>2 DEF WriteAio_done
    <3> QED
      BY <1>2, <3>1 DEF File
  <2> QED
    BY <1>1, <2>1, <2>2
<1>5. Acknowledged(h)' = Acknowledged(h) + n
  <2>1. /\ file[h].m_writeBytes \in Nat /\ file[h].m_writeBytesAIO \in Nat
        /\ file[h].aio \in Nat
    BY <1>2, FileAssumption DEF File
  <2> QED
    BY <1>2, <1>4, <2>1 DEF Acknowledged
<1>6. /\ ShownSession(h).write
      /\ ShownSession(h)' = [ShownSession(h) EXCEPT !.bytes = ShownSession(h).bytes + n]
  <2> DEFINE R(b) == SessionRec(Yes, file[h].m_path, file[h].was_write, file[h].m_size, b,
                                file[h].m_readBytes)
  <2>1. ShownSession(h) = R(Acknowledged(h))
    BY <1>4, SessionOpen
  <2>2. ShownSession(h)' = R(Acknowledged(h) + n)
    BY <1>4, <1>5, SessionOpen
  <2>3. /\ R(Acknowledged(h)).bytes = Acknowledged(h)
        /\ R(Acknowledged(h)).write = file[h].was_write
    BY SessionFields
  <2>4. R(Acknowledged(h) + n) = [R(Acknowledged(h)) EXCEPT !.bytes = Acknowledged(h) + n]
    BY BytesReplaced
  <2> HIDE DEF R
  <2> QED
    BY <1>1, <2>1, <2>2, <2>3, <2>4, Zenon
<1>7. /\ Sizes' = Sizes
      /\ SessionsOf' = [SessionsOf EXCEPT ![h] = ShownSession(h)']
  BY <1>2, <1>3, <1>4, OwnStep, SizesKept, SessionReplaced DEF InSession
<1>8. SessionsOf[h] = ShownSession(h)
  BY DEF SessionsOf
<1>9. Store!Write(h, n)
  <2>1. SessionsOf[h].write
    BY <1>6, <1>8
  <2>2. SessionsOf' = [SessionsOf EXCEPT ![h].bytes = SessionsOf[h].bytes + n]
    BY <1>6, <1>7, <1>8
  <2> QED
    BY <1>7, <2>1, <2>2 DEF Store!Write, Sizes, SessionsOf
<1> QED
  BY <1>9

\* ReadInner() returns the overlap of the request with the size the session shows.
LEMMA ReadInnerOverlap ==
    ASSUME SizeInv, NEW h \in Handles, file[h].pc = "open",
           NEW offset \in Offsets, NEW blen \in Lengths
    PROVE  ReadInner(h, offset, blen) = Store!Overlap(ShownSession(h).size, offset, blen)
<1>1. file[h].m_size \in Nat /\ offset \in Int /\ blen \in Nat
  BY HandleFacts, FSAssumption, FileAssumption DEF File
<1>2. ShownSession(h).size = file[h].m_size
  BY DEF ShownSession, InSession, OpenPC
<1> QED
  BY <1>1, <1>2 DEF ReadInner, Store!Overlap

LEMMA ReadCountSeen ==
    ASSUME SizeInv, NEW h \in Handles, NEW n \in Nat,
           file[h].pc = "open", UNCHANGED <<m_files, stub>>,
           file' = [file EXCEPT ![h].m_readBytes = @ + n]
    PROVE  Store!Read(h, n)
<1>1. /\ file \in [Handles -> File] /\ file[h] \in File
  BY HandleFacts
<1>2. \A g \in Handles \ {h} : file'[g] = file[g]
  BY <1>1
<1>3. /\ file'[h].pc = "open"
      /\ file'[h].m_path = file[h].m_path
      /\ file'[h].was_write = file[h].was_write
      /\ file'[h].m_size = file[h].m_size
      /\ file'[h].m_readBytes = file[h].m_readBytes + n
      /\ Acknowledged(h)' = Acknowledged(h)
  BY <1>1 DEF File, Acknowledged
<1>4. /\ ShownSession(h).open
      /\ ShownSession(h)' = [ShownSession(h) EXCEPT !.got = ShownSession(h).got + n]
  <2> DEFINE R(b) == SessionRec(Yes, file[h].m_path, file[h].was_write, file[h].m_size,
                                Acknowledged(h), b)
  <2>1. ShownSession(h) = R(file[h].m_readBytes)
    BY SessionOpen, <1>3
  <2>2. ShownSession(h)' = R(file[h].m_readBytes + n)
    BY <1>3, SessionOpen
  <2>3. /\ R(file[h].m_readBytes).got = file[h].m_readBytes
        /\ R(file[h].m_readBytes).open = Yes
    BY SessionFields
  <2>4. R(file[h].m_readBytes + n) =
          [R(file[h].m_readBytes) EXCEPT !.got = file[h].m_readBytes + n]
    BY GotReplaced
  <2> HIDE DEF R
  <2> QED
    BY <2>1, <2>2, <2>3, <2>4, Zenon DEF Yes
<1>5. /\ Sizes' = Sizes
      /\ SessionsOf' = [SessionsOf EXCEPT ![h] = ShownSession(h)']
  BY <1>2, <1>3, OwnStep, SizesKept, SessionReplaced DEF InSession
<1>6. SessionsOf[h] = ShownSession(h)
  BY DEF SessionsOf
<1>7. SessionsOf' = [SessionsOf EXCEPT ![h].got = SessionsOf[h].got + n]
  BY <1>4, <1>5, <1>6
<1> QED
  BY <1>4, <1>5, <1>6, <1>7 DEF Store!Read, Sizes, SessionsOf

LEMMA DoReadSeen ==
    ASSUME SizeInv, NEW h \in Handles, DoRead(h)
    PROVE  Store!StoreNext \/ UNCHANGED Store!storevars
<1>0. SessionsOf[h] = ShownSession(h)
  BY DEF SessionsOf
<1>1. CASE Read_error(h)
  <2>1. /\ file \in [Handles -> File] /\ file[h] \in File
        /\ file[h].pc = "idle"
        /\ UNCHANGED <<m_files, stub>>
    BY <1>1, HandleFacts DEF Read_error, StubPresent, fsvars
  <2>2. /\ \A g \in Handles \ {h} : file'[g] = file[g]
        /\ file'[h].pc = "idle"
    BY <1>1, <2>1 DEF Read_error, File
  <2>3. ShownSession(h)' = ShownSession(h)
    BY <2>1, <2>2 DEF ShownSession, InSession
  <2> QED
    BY <2>1, <2>2, <2>3, OwnStep, Unseen DEF InSession
<1>2. ASSUME NEW offset \in Offsets, NEW blen \in Lengths, Read(h, offset, blen)
      PROVE  Store!StoreNext
  <2>1. Store!Read(h, ReadInner(h, offset, blen))
    BY <1>2, ReadCountSeen, ReadInnerType, HandleFacts DEF Read, fsvars, FileOK, SizeInv,
       AccountInv, OssInv, TypeOK, Sound, Acknowledged, InSession
  <2>2. Store!ReadOne(h, offset, blen)
    BY <1>0, <1>2, <2>1, ReadInnerOverlap DEF Store!ReadOne, Read, SessionsOf
  <2> QED
    BY <2>2 DEF Store!StoreNext
<1>3. ASSUME NEW off1 \in Offsets, NEW off2 \in Offsets,
             NEW len1 \in Lengths, NEW len2 \in Lengths, ReadV(h, off1, len1, off2, len2)
      PROVE  Store!StoreNext
  <2>1. ReadInner(h, off1, len1) \in Nat /\ ReadInner(h, off2, len2) \in Nat
    BY ReadInnerType, HandleFacts DEF FileOK, SizeInv, AccountInv, OssInv, TypeOK, Sound,
       Acknowledged, InSession
  <2>2. Store!Read(h, ReadInner(h, off1, len1) + ReadInner(h, off2, len2))
    <3> DEFINE n == ReadInner(h, off1, len1) + ReadInner(h, off2, len2)
    <3>1. /\ file[h].pc = "open"
          /\ UNCHANGED <<m_files, stub>>
          /\ file' = [file EXCEPT ![h].m_readBytes = @ + n]
      BY <1>3 DEF ReadV, fsvars
    <3>2. n \in Nat
      BY <2>1
    <3> HIDE DEF n
    <3>3. Store!Read(h, n)
      BY <3>1, <3>2, ReadCountSeen
    <3> QED
      BY <3>3 DEF n
  <2>3. Store!ReadTwo(h, off1, len1, off2, len2)
    BY <1>0, <1>3, <2>2, ReadInnerOverlap DEF Store!ReadTwo, ReadV, SessionsOf
  <2> QED
    BY <2>3 DEF Store!StoreNext
<1> QED
  BY <1>1, <1>2, <1>3 DEF DoRead

\* The session that has just begun: the handle's counters are not reset yet.
LEMMA SessionBegun ==
    ASSUME NEW h \in Handles, file[h].pc = "idle", file'[h].pc = "getStub"
    PROVE  /\ ShownSession(h).open = FALSE
           /\ ShownSession(h)' =
                SessionRec(Yes, file'[h].m_path, file'[h].was_write,
                           stub'[m_files'[file'[h].m_path]].m_size, 0, 0)
<1>1. file'[h].pc # "idle" /\ file'[h].pc \in OpenPC
  BY DEF OpenPC
<1> QED
  BY <1>1 DEF ShownSession, InSession, SessionRec, Yes, getStub

\* A write open finds the size of the file it keeps, or none.
LEMMA OpenSize ==
    ASSUME SizeInv, NEW p \in Paths, NEW fl \in OpenFlags, open(p, fl), ~openFails(p, fl),
           fl.write
    PROVE  \/ stub'[m_files'[p]].m_size = 0
           \/ exists(p) /\ stub'[m_files'[p]].m_size = stub[m_files[p]].m_size
<1>0. /\ FSInv
      /\ m_files \in [Paths -> Inodes \cup {NoStub}]
      /\ stub \in [Inodes -> Stub]
  BY DEF SizeInv, AccountInv, OssInv, FSInv, FSTypeOK
<1>1. CASE openReuse(p, fl)
  <2>1. /\ exists(p)
        /\ m_files[p] \in Inodes
        /\ m_files' = m_files
        /\ stub' = [stub EXCEPT ![m_files[p]].m_isOpenWrite = TRUE]
    BY <1>0, <1>1 DEF openReuse, exists
  <2> QED
    BY <1>0, <2>1 DEF Stub
<1>2. CASE openFresh(p, fl)
  <2>1. /\ m_files' = [m_files EXCEPT ![p] = m_fd_last']
        /\ stub' = [stub EXCEPT ![m_fd_last'] = [BlankStub EXCEPT !.m_isOpenWrite = TRUE]]
        /\ m_fd_last' \in Inodes
    BY <1>0, <1>2, NextFdFresh DEF openFresh
  <2> QED
    BY <1>0, <2>1 DEF BlankStub
<1> QED
  BY <1>1, <1>2 DEF open, openError, openRdonly

\* A file that is not being written shows the size both of its copies have.
LEMMA IdleSize ==
    ASSUME SizeInv, NEW p \in Paths, exists(p), ~Writing(p)
    PROVE  /\ ShownSize(p) = stub[m_files[p]].st_size
           /\ ShownSize(p) = stub[m_files[p]].m_size
           /\ ShownSize(p) \in Nat
<1>1. PathSound(p) /\ Settled(p)
  BY DEF SizeInv, Core, Settled, Writing
<1>2. stub[m_files[p]] \in Stub
  BY DEF SizeInv, AccountInv, OssInv, FSInv, FSTypeOK, exists
<1> QED
  BY <1>1, <1>2, ShownSizeDef, FSAssumption DEF PathSound, Stub

LEMMA OpenSeen ==
    ASSUME SizeInv, Discipline, NEW h \in Handles, Open(h)
    PROVE  Store!StoreNext \/ UNCHANGED Store!storevars
<1>0. /\ file \in [Handles -> File] /\ file[h] \in File
      /\ FSInv
      /\ TypeOK
  BY HandleFacts
<1>1. \A g \in Handles \ {h} : file'[g] = file[g]
  BY <1>0, OthersUnchanged
<1>2. PICK p \in Paths, fl \in OpenFlags :
        /\ MayOpen(p, fl)
        /\ Open_refused(h, p, fl) \/ Open_open(h, p, fl)
  BY DEF Open
<1>3. file[h].pc = "idle"
  BY <1>2 DEF Open_refused, Open_open
<1>4. CASE Open_refused(h, p, fl)
  <2>1. UNCHANGED <<m_files, stub>>
    BY <1>0, <1>4, RefusedUnchanged DEF Open_refused, Discipline, fsvars
  <2>2. file'[h].pc = "idle"
    BY <1>0, <1>4 DEF Open_refused, File
  <2>3. ShownSession(h)' = ShownSession(h)
    BY <1>3, <2>2 DEF ShownSession, InSession
  <2> QED
    BY <1>1, <1>3, <2>1, <2>2, <2>3, OwnStep, Unseen DEF InSession
<1>5. CASE Open_open(h, p, fl)
  <2>1. /\ file'[h].pc = "getStub"
        /\ file'[h].m_path = p
        /\ file'[h].was_write = fl.write
    BY <1>0, <1>5 DEF Open_open, File, OpenFlags
  <2>2. open(p, fl) /\ ~openFails(p, fl) /\ exists(p)'
    BY <1>0, <1>5, OpenLeavesFile DEF Open_open, openRC, ENOENT, EEXIST
  <2>3. \A g \in Handles :
           InSession(g) /\ file[g].m_path = p => ~fl.write /\ ~file[g].was_write
    BY <1>2 DEF MayOpen, Discipline, Sessions
  <2>4. ~Writing(p) /\ Settled(p)
    BY <2>3 DEF Settled, Writing
  <2>5. /\ \A q \in Paths \ {p} : /\ m_files'[q] = m_files[q]
                                  /\ exists(q) => stub'[m_files[q]] = stub[m_files[q]]
        /\ ~fl.write => /\ exists(p)
                        /\ m_files'[p] = m_files[p]
                        /\ stub'[m_files[p]] = stub[m_files[p]]
    BY <2>2, <2>4, OpenStub
  <2>6. ASSUME NEW g \in Handles \ {h} PROVE ShownSession(g)' = ShownSession(g)
    <3>1. ASSUME file[g].pc \in OpenPC
          PROVE  /\ m_files'[file[g].m_path] = m_files[file[g].m_path]
                 /\ stub'[m_files[file[g].m_path]] = stub[m_files[file[g].m_path]]
      <4>1. /\ InSession(g)
            /\ file[g].m_path \in Paths
            /\ exists(file[g].m_path)
        BY <3>1, HandleFacts DEF InSession, OpenPC, StubPresent
      <4> QED
        BY <2>3, <2>5, <4>1
    <3> QED
      BY <1>1, <3>1, SessionKept
  <2>7. ASSUME NEW q \in Paths, q # p PROVE ShownSize(q)' = ShownSize(q)
    <3>1. Writing(q)' <=> Writing(q)
      BY <1>1, <1>3, <2>1, <2>7 DEF Writing, InSession
    <3> QED
      BY <2>5, <2>7, <3>1, SizeKept
  <2>8. /\ ~SessionsOf[h].open
        /\ SessionsOf' = [SessionsOf EXCEPT ![h] =
              SessionRec(Yes, p, fl.write, stub'[m_files'[p]].m_size, 0, 0)]
    BY <1>3, <2>1, <2>6, SessionBegun, SessionReplaced DEF SessionsOf
  <2>9. CASE ~fl.write
    <3>1. exists(p) /\ m_files'[p] = m_files[p] /\ stub'[m_files[p]] = stub[m_files[p]]
      BY <2>5, <2>9
    <3>2. Writing(p)' <=> Writing(p)
      BY <1>1, <1>3, <2>1, <2>4, <2>9 DEF Writing, InSession
    <3>3. Sizes' = Sizes
      BY <2>7, <3>1, <3>2, SizeKept, SizesKept
    <3>4. Sizes[p] = stub'[m_files'[p]].m_size /\ Sizes[p] >= 0
      <4>1. Sizes[p] = ShownSize(p)
        BY DEF Sizes
      <4>2. ShownSize(p) = stub[m_files[p]].m_size /\ ShownSize(p) \in Nat
        BY <2>4, <3>1, IdleSize
      <4> QED
        BY <3>1, <4>1, <4>2
    <3>5. fl.write = FALSE
      BY <2>9 DEF OpenFlags
    <3>6. SessionsOf' = [SessionsOf EXCEPT ![h] = Store!Session(p, FALSE, Sizes[p])]
      BY <2>8, <3>4, <3>5 DEF Store!Session, SessionRec, Yes
    <3>7. Store!OpenRead(h, p)
      BY <2>8, <3>3, <3>4, <3>6 DEF Store!OpenRead, Sizes, SessionsOf
    <3> QED
      BY <3>7 DEF Store!StoreNext
  <2>10. CASE fl.write
    <3>1. Writing(p)' /\ ShownSize(p)' = -2
      <4>1. Writing(p)'
        BY <2>1, <2>10 DEF Writing, InSession
      <4> QED
        BY <2>2, <4>1 DEF ShownSize, Writing, Sessions
    <3>2. Sizes' = [Sizes EXCEPT ![p] = -2]
      BY <2>7, <3>1 DEF Sizes
    <3>3. stub'[m_files'[p]].m_size \in {0, Sizes[p]} /\ stub'[m_files'[p]].m_size >= 0
      <4>1. Sizes[p] = ShownSize(p)
        BY DEF Sizes
      <4>2. exists(p) => ShownSize(p) = stub[m_files[p]].m_size /\ ShownSize(p) \in Nat
        BY <2>4, IdleSize
      <4>3. \/ stub'[m_files'[p]].m_size = 0
            \/ exists(p) /\ stub'[m_files'[p]].m_size = stub[m_files[p]].m_size
        BY <2>2, <2>10, OpenSize
      <4>4. CASE stub'[m_files'[p]].m_size = 0
        BY <4>4
      <4>5. CASE exists(p) /\ stub'[m_files'[p]].m_size = stub[m_files[p]].m_size
        <5>1. stub'[m_files'[p]].m_size = Sizes[p] /\ Sizes[p] \in Nat
          BY <4>1, <4>2, <4>5
        <5> QED
          BY <5>1
      <4> QED
        BY <4>3, <4>4, <4>5
    <3>4. ~Store!InUse(p)
      BY <2>3, <2>10 DEF Store!InUse, ShownSession
    <3>5. fl.write = TRUE
      BY <2>10 DEF OpenFlags
    <3>6. SessionsOf' = [SessionsOf EXCEPT ![h] =
             Store!Session(p, TRUE, stub'[m_files'[p]].m_size)]
      BY <2>8, <3>5 DEF Store!Session, SessionRec, Yes
    <3>7. Store!OpenWrite(h, p)
      BY <2>8, <3>2, <3>3, <3>4, <3>6 DEF Store!OpenWrite, Store!Busy, Sizes, SessionsOf
    <3> QED
      BY <3>7 DEF Store!StoreNext
  <2> QED
    BY <2>9, <2>10
<1> QED
  BY <1>2, <1>4, <1>5

-----------------------------------------------------------------------------
(* Close() publishes what was acknowledged. *)

\* What Close() has added up is what the session acknowledged.
Summed(h) == file[h].pc \in ClosePC => file[h].wb = Acknowledged(h)

StoreInv == SizeInv /\ \A h \in Handles : Summed(h)

LEMMA SummedNext ==
    ASSUME StoreInv, Discipline, [Next]_vars, NEW h \in Handles
    PROVE  Summed(h)'
<1>0. /\ file \in [Handles -> File] /\ file[h] \in File
      /\ TypeOK
      /\ BytesAccounted(h)
      /\ Summed(h)
  BY HandleFacts DEF StoreInv
<1>1. CASE file'[h] = file[h]
  BY <1>0, <1>1 DEF Summed, Acknowledged
<1>2. CASE Open(h)
  <2>1. file'[h].pc \in {"idle", "getStub"}
    BY <1>0, <1>2 DEF Open, Open_refused, Open_open, File
  <2> QED
    BY <2>1 DEF Summed, ClosePC
<1>3. CASE AckWrite(h) \/ DoRead(h)
  <2>1. file'[h].pc \in {"idle", "open"}
    BY <1>0, <1>3 DEF AckWrite, Write, WriteAio_done, DoRead, Read_error, Read, ReadV, File
  <2> QED
    BY <2>1 DEF Summed, ClosePC
<1>4. CASE BeginClose(h)
  <2>1. CASE Close_noStub(h)
    <3>1. file'[h].pc = "idle"
      BY <1>0, <2>1 DEF Close_noStub, File
    <3> QED
      BY <3>1 DEF Summed, ClosePC
  <2>2. CASE Close_begin(h)
    <3>1. /\ file'[h].wb = file[h].m_writeBytes + file[h].m_writeBytesAIO
          /\ file'[h].m_writeBytes = file[h].m_writeBytes
          /\ file'[h].m_writeBytesAIO = file[h].m_writeBytesAIO
          /\ file'[h].aio = file[h].aio
      BY <1>0, <2>2 DEF Close_begin, File
    <3>2. file[h].aio = 0
      BY <1>4 DEF BeginClose, MayClose, Discipline
    <3>3. file[h].m_writeBytes \in Nat /\ file[h].m_writeBytesAIO \in Nat
      BY <1>0, FileAssumption DEF File
    <3> QED
      BY <3>1, <3>2, <3>3 DEF Summed, Acknowledged
  <2> QED
    BY <1>4, <2>1, <2>2 DEF BeginClose
<1>5. CASE Continue(h)
  <2>1. CASE Open_getStub(h) \/ Open_init(h) \/ Close_fsClose(h)
    <3>1. file'[h].pc \in {"init", "open", "idle"}
      BY <1>0, <2>1 DEF Open_getStub, Open_init, Close_fsClose, File
    <3> QED
      BY <3>1 DEF Summed, ClosePC
  <2>2. CASE WriteAio_count(h)
    <3>1. file'[h].pc = "open"
      BY <1>0, <2>2, FSAssumption DEF WriteAio_count, File, BytesAccounted
    <3> QED
      BY <3>1 DEF Summed, ClosePC
  <2>3. CASE Close_setSize(h) \/ Close_setStat(h) \/ Close_record(h)
    <3>1. /\ file[h].pc \in ClosePC
          /\ file'[h].wb = file[h].wb
          /\ file'[h].m_writeBytes = file[h].m_writeBytes
          /\ file'[h].m_writeBytesAIO = file[h].m_writeBytesAIO
          /\ file'[h].aio = file[h].aio
      BY <1>0, <2>3 DEF Close_setSize, Close_setStat, Close_record, File, ClosePC
    <3> QED
      BY <1>0, <3>1 DEF Summed, Acknowledged
  <2> QED
    BY <1>5, <2>1, <2>2, <2>3 DEF Continue
<1>6. file'[h] = file[h] \/ Open(h) \/ AckWrite(h) \/ DoRead(h) \/ BeginClose(h) \/ Continue(h)
  <2>1. CASE \E g \in Handles :
           Open(g) \/ AckWrite(g) \/ DoRead(g) \/ BeginClose(g) \/ Continue(g)
    BY <1>0, <2>1, OthersUnchanged
  <2>2. CASE UNCHANGED file
    BY <2>2
  <2> QED
    BY <2>1, <2>2 DEF Next, vars, Seed, Configured, Rename, Unlink
<1> QED
  BY <1>1, <1>2, <1>3, <1>4, <1>5, <1>6

LEMMA CloseSeen ==
    ASSUME StoreInv, NEW h \in Handles, Close_fsClose(h)
    PROVE  Store!Close(h)
<1>0. /\ file \in [Handles -> File] /\ file[h] \in File
      /\ FSInv
      /\ TypeOK
      /\ HandleSound(h)
      /\ StubPresent(h)
      /\ Summed(h)
      /\ InSession(h) => file[h].m_path \in Paths
  BY HandleFacts DEF StoreInv
<1>p. PICK p \in Paths : p = file[h].m_path
  BY <1>0 DEF Close_fsClose, InSession
<1> DEFINE i == m_files[p]
<1>1. /\ file[h].pc = "fsClose"
      /\ file'[h].pc = "idle"
      /\ m_files' = m_files
      /\ \A g \in Handles \ {h} : file'[g] = file[g]
  BY <1>0 DEF Close_fsClose, close, File
<1>2. /\ exists(p)
      /\ file[h].m_stub = i
      /\ i \in Inodes
      /\ stub \in [Inodes -> Stub]
      /\ InSession(h)
      /\ WriterAlone
  BY <1>0, <1>1, <1>p, FSAssumption DEF HandleSound, StubPresent, InSession, FSInv, FSTypeOK, exists,
     StoreInv, SizeInv, Core
<1>3. stub' = [stub EXCEPT ![i].m_isOpenWrite = FALSE]
  BY <1>2, <1>p DEF Close_fsClose, close
<1>4. \A j \in Inodes : stub'[j].m_size = stub[j].m_size /\ stub'[j].st_size = stub[j].st_size
  BY <1>2, <1>3 DEF Stub
<1>5. \A q \in Paths : exists(q) => m_files[q] \in Inodes
  BY <1>0 DEF FSInv, FSTypeOK, exists
<1>6. ASSUME NEW g \in Handles \ {h} PROVE ShownSession(g)' = ShownSession(g)
  <2>1. file[g].pc \in OpenPC => m_files[file[g].m_path] \in Inodes
    BY <1>5, HandleFacts DEF StoreInv, InSession, OpenPC, StubPresent
  <2> QED
    BY <1>1, <1>4, <2>1, SessionKept
<1>7. ASSUME NEW q \in Paths, q = p => ~file[h].was_write PROVE ShownSize(q)' = ShownSize(q)
  <2>1. Writing(q)' <=> Writing(q)
    BY <1>1, <1>7, <1>p DEF Writing, InSession
  <2> QED
    BY <1>1, <1>4, <1>5, <2>1, SizeKept
<1>8. /\ ShownSession(h) =
           SessionRec(Yes, p, file[h].was_write, file[h].m_size, Acknowledged(h),
                      file[h].m_readBytes)
      /\ ShownSession(h)' = Store!NoSession
  <2>1. file[h].pc # "idle" /\ file[h].pc \notin OpenPC
    BY <1>1 DEF OpenPC
  <2> QED
    BY <1>1, <1>p, <2>1 DEF ShownSession, InSession, SessionRec, Yes, Store!NoSession, NoPath
<1>9. /\ SessionsOf[h].open
      /\ SessionsOf[h].write = file[h].was_write
      /\ SessionsOf[h].path = p
      /\ SessionsOf[h].bytes = Acknowledged(h)
  <2>1. SessionsOf[h] = ShownSession(h)
    BY DEF SessionsOf
  <2>2. /\ ShownSession(h).open = Yes
        /\ ShownSession(h).write = file[h].was_write
        /\ ShownSession(h).path = p
        /\ ShownSession(h).bytes = Acknowledged(h)
    BY <1>8, SessionFields
  <2> QED
    BY <2>1, <2>2, Zenon DEF Yes
<1>10. SessionsOf' = [SessionsOf EXCEPT ![h] = Store!NoSession]
  BY <1>6, <1>8, SessionReplaced
<1>11. CASE file[h].was_write
  <2>1. ~Writing(p)'
    BY <1>1, <1>2, <1>11, <1>p DEF Writing, WriterAlone, InSession
  <2>2. stub[i].st_size = Acknowledged(h)
    BY <1>0, <1>1, <1>2, <1>11 DEF HandleSound, StatOut, Summed, ClosePC
  <2>3. ShownSize(p)' = Acknowledged(h)
    <3>1. ShownSize(p)' = stub'[m_files'[p]].st_size
      BY <1>1, <1>2, <2>1 DEF ShownSize, Writing, Sessions, Stat, getStub, exists
    <3> QED
      BY <1>1, <1>2, <1>4, <2>2, <3>1
  <2>4. Sizes' = [Sizes EXCEPT ![p] = Acknowledged(h)]
    BY <1>7, <2>3 DEF Sizes
  <2>5. Sizes' = IF SessionsOf[h].write
                 THEN [Sizes EXCEPT ![SessionsOf[h].path] = SessionsOf[h].bytes] ELSE Sizes
    BY <1>9, <1>11, <2>4
  <2> QED
    BY <1>9, <1>10, <2>5 DEF Store!Close, Sizes, SessionsOf
<1>12. CASE ~file[h].was_write
  <2>1. Sizes' = Sizes
    BY <1>7, <1>12, SizesKept
  <2>2. Sizes' = IF SessionsOf[h].write
                 THEN [Sizes EXCEPT ![SessionsOf[h].path] = SessionsOf[h].bytes] ELSE Sizes
    BY <1>9, <1>12, <2>1
  <2> QED
    BY <1>9, <1>10, <2>2 DEF Store!Close, Sizes, SessionsOf
<1> QED
  BY <1>11, <1>12

-----------------------------------------------------------------------------
(* The namespace requests and the seeding. *)

\* Sessions show no difference when the paths in use keep entry and stub.
LEMMA SessionsKept ==
    ASSUME SizeInv, UNCHANGED file,
           \A g \in Handles : InSession(g) =>
              /\ m_files'[file[g].m_path] = m_files[file[g].m_path]
              /\ stub'[m_files[file[g].m_path]] = stub[m_files[file[g].m_path]]
    PROVE  SessionsOf' = SessionsOf
<1>1. ASSUME NEW g \in Handles PROVE ShownSession(g)' = ShownSession(g)
  <2>1. file[g].pc \in OpenPC => InSession(g)
    BY DEF InSession, OpenPC
  <2> QED
    BY <2>1, SessionKept
<1> QED
  BY <1>1 DEF SessionsOf

\* A path without sessions, as the abstract store sees it.
LEMMA PathFree ==
    ASSUME NEW p \in Paths, \A g \in Handles : InSession(g) => file[g].m_path # p
    PROVE  ~Writing(p) /\ ~Store!InUse(p)
<1>1. ASSUME NEW g \in Handles PROVE ~(ShownSession(g).open /\ ShownSession(g).path = p)
  BY DEF ShownSession
<1> QED
  BY <1>1 DEF Writing, Store!InUse

LEMMA UnlinkSeen ==
    ASSUME SizeInv, Discipline, NEW p \in Paths, Unlink(p)
    PROVE  Store!Unlink(p)
<1>0. m_files \in [Paths -> Inodes \cup {NoStub}]
  BY DEF SizeInv, AccountInv, OssInv, FSInv, FSTypeOK
<1>1. /\ m_files' = [m_files EXCEPT ![p] = NoStub]
      /\ UNCHANGED <<stub, file>>
      /\ \A g \in Handles : InSession(g) => file[g].m_path # p
  BY DEF Unlink, unlink, MayRelocate, Discipline, Sessions
<1>2. \A q \in Paths \ {p} : m_files'[q] = m_files[q]
  BY <1>0, <1>1
<1>3. SessionsOf' = SessionsOf
  BY <1>1, <1>2, HandleFacts, SessionsKept
<1>4. ASSUME NEW q \in Paths, q # p PROVE ShownSize(q)' = ShownSize(q)
  <2>1. Writing(q)' <=> Writing(q)
    BY <1>1 DEF Writing, InSession
  <2> QED
    BY <1>1, <1>2, <1>4, <2>1, SizeKept
<1>5. ShownSize(p)' = -1
  BY <1>0, <1>1 DEF ShownSize, exists
<1>6. Sizes' = [Sizes EXCEPT ![p] = -1]
  BY <1>4, <1>5 DEF Sizes
<1>7. ~Store!InUse(p)
  BY <1>1, PathFree
<1> QED
  BY <1>3, <1>6, <1>7 DEF Store!Unlink, Store!Absent, Sizes, SessionsOf

LEMMA RenameSeen ==
    ASSUME SizeInv, Discipline, NEW from \in Paths, NEW to \in Paths, Rename(from, to)
    PROVE  Store!Rename(from, to) \/ UNCHANGED Store!storevars
<1>0. m_files \in [Paths -> Inodes \cup {NoStub}]
  BY DEF SizeInv, AccountInv, OssInv, FSInv, FSTypeOK
<1>1. /\ rename(from, to)
      /\ UNCHANGED <<stub, file>>
      /\ \A g \in Handles : InSession(g) => file[g].m_path # from /\ file[g].m_path # to
  BY DEF Rename, rename, MayRelocate, Discipline, Sessions
<1>2. \A q \in Paths \ {from, to} : m_files'[q] = m_files[q]
  BY <1>0, <1>1 DEF rename
<1>3. SessionsOf' = SessionsOf
  BY <1>1, <1>2, HandleFacts, SessionsKept
<1>4. ASSUME NEW q \in Paths PROVE Writing(q)' <=> Writing(q)
  BY <1>1 DEF Writing, InSession
<1>5. /\ ~Writing(from) /\ ~Store!InUse(from)
      /\ ~Writing(to) /\ ~Store!InUse(to)
  BY <1>1, PathFree
<1>6. CASE ~exists(from)
  <2>1. m_files' = m_files
    BY <1>1, <1>6 DEF rename
  <2>2. Sizes' = Sizes
    BY <1>1, <1>4, <2>1, SizeKept, SizesKept
  <2> QED
    BY <1>3, <2>2 DEF Store!storevars, Sizes, SessionsOf
<1>7. CASE exists(from)
  <2>1. /\ m_files'[to] = m_files[from]
        /\ from # to => m_files'[from] = NoStub
    BY <1>0, <1>1, <1>7 DEF rename
  <2>2. ShownSize(to)' = ShownSize(from)
    <3>1. ShownSize(from) = stub[m_files[from]].st_size
      BY <1>5, <1>7, IdleSize
    <3>2. ShownSize(to)' = stub'[m_files'[to]].st_size
      BY <1>4, <1>5, <1>7, <2>1 DEF ShownSize, Writing, Sessions, Stat, getStub, exists
    <3> QED
      BY <1>1, <2>1, <3>1, <3>2
  <2>3. from # to => ShownSize(from)' = -1
    BY <2>1 DEF ShownSize, exists
  <2>4. ASSUME NEW q \in Paths, q # from, q # to PROVE ShownSize(q)' = ShownSize(q)
    BY <1>1, <1>2, <1>4, <2>4, SizeKept
  <2>5. Sizes' = [[Sizes EXCEPT ![from] = -1] EXCEPT ![to] = Sizes[from]]
    BY <2>2, <2>3, <2>4 DEF Sizes
  <2>6. Sizes[from] >= 0
    <3>1. Sizes[from] = ShownSize(from) /\ ShownSize(from) \in Nat
      BY <1>5, <1>7, IdleSize DEF Sizes
    <3> QED
      BY <3>1
  <2> QED
    BY <1>3, <1>5, <2>5, <2>6 DEF Store!Rename, Store!Absent, Sizes, SessionsOf
<1> QED
  BY <1>6, <1>7

LEMMA SeedSeen ==
    ASSUME SizeInv, Discipline, NEW p \in Paths, NEW size \in SeedSizes, Seed(p, size)
    PROVE  Store!Seed(p, size) \/ UNCHANGED Store!storevars
<1>0. /\ FSInv
      /\ m_files \in [Paths -> Inodes \cup {NoStub}]
      /\ stub \in [Inodes -> Stub]
  BY DEF SizeInv, AccountInv, OssInv, FSInv, FSTypeOK
<1>1. UNCHANGED file /\ NextFd
  BY DEF Seed, seed
<1>2. /\ m_fd_last' \in Inodes
      /\ \A q \in Paths : m_files[q] # m_fd_last'
  BY <1>0, <1>1, NextFdFresh, FSAssumption DEF Inodes, NoStub
<1>3. ASSUME NEW g \in Handles, InSession(g)
      PROVE  file[g].m_path \in Paths /\ exists(file[g].m_path)
  BY <1>3, HandleFacts DEF StubPresent
<1>4. ASSUME NEW q \in Paths PROVE Writing(q)' <=> Writing(q)
  BY <1>1 DEF Writing, InSession
<1>5. CASE exists(p)
  <2>1. UNCHANGED <<m_files, stub>>
    BY <1>5 DEF Seed, seed
  <2>2. Sizes' = Sizes /\ SessionsOf' = SessionsOf
    BY <1>1, <1>4, <2>1, SizeKept, SizesKept, SessionsKept
  <2> QED
    BY <2>2 DEF Store!storevars, Sizes, SessionsOf
<1>6. CASE ~exists(p)
  <2>1. /\ m_files' = [m_files EXCEPT ![p] = m_fd_last']
        /\ stub' = [stub EXCEPT ![m_fd_last'] =
                        [BlankStub EXCEPT !.m_size = size, !.st_size = size]]
    BY <1>6, SeededSize DEF Seed, seed
  <2>2. ASSUME NEW q \in Paths, exists(q)
        PROVE  m_files'[q] = m_files[q] /\ stub'[m_files[q]] = stub[m_files[q]]
    <3>1. m_files[q] \in Inodes /\ m_files[q] # m_fd_last' /\ q # p
      BY <1>0, <1>2, <1>6, <2>2 DEF exists
    <3> QED
      BY <1>0, <2>1, <3>1
  <2>3. SessionsOf' = SessionsOf
    BY <1>1, <1>3, <2>2, SessionsKept
  <2>4. ASSUME NEW q \in Paths, q # p PROVE ShownSize(q)' = ShownSize(q)
    <3>1. m_files'[q] = m_files[q]
      BY <1>0, <2>1, <2>4
    <3> QED
      BY <1>4, <2>2, <3>1, SizeKept
  <2>5. ~Writing(p) /\ ~Writing(p)'
    BY <1>3, <1>4, <1>6 DEF Writing
  <2>6. m_files'[p] = m_fd_last' /\ stub'[m_fd_last'].st_size = size /\ m_fd_last' # NoStub
    BY <1>0, <1>2, <2>1, FSAssumption DEF BlankStub, Inodes, NoStub
  <2>7. ShownSize(p)' = size
    BY <2>5, <2>6 DEF ShownSize, Writing, Sessions, Stat, getStub, exists
  <2>8. Sizes' = [Sizes EXCEPT ![p] = size] /\ Sizes[p] = -1
    BY <1>6, <2>4, <2>7, ShownSizeDef DEF Sizes
  <2> QED
    BY <2>3, <2>8 DEF Store!Seed, Store!Absent, Sizes, SessionsOf
<1> QED
  BY <1>5, <1>6

-----------------------------------------------------------------------------
(* The refinement. *)

LEMMA StoreInitSeen == Init => Store!StoreInit
<1> SUFFICES ASSUME Init PROVE Store!StoreInit
  OBVIOUS
<1>1. \A p \in Paths : ShownSize(p) = -1
  BY DEF Init, FSInit, ShownSize, exists
<1>2. \A h \in Handles : ShownSession(h) = Store!NoSession
  <2>1. \A h \in Handles : file[h].pc = "idle"
    BY DEF Init, FileInit
  <2> QED
    BY <2>1 DEF ShownSession, InSession, Store!NoSession, NoPath
<1> QED
  BY <1>1, <1>2 DEF Store!StoreInit, Store!Absent

LEMMA StoreInvInit == Init => StoreInv
BY SizeInvInit DEF Init, FileInit, StoreInv, Summed, ClosePC

LEMMA StoreInvNext ==
    ASSUME Discipline
    PROVE  StoreInv /\ [Next]_vars => StoreInv'
BY SizeInvNext, SummedNext DEF StoreInv

LEMMA StepSeen ==
    ASSUME Discipline
    PROVE  StoreInv /\ [Next]_vars => [Store!StoreNext]_(Store!storevars)
<1> SUFFICES ASSUME StoreInv, [Next]_vars
             PROVE  Store!StoreNext \/ UNCHANGED Store!storevars
  OBVIOUS
<1>0. SizeInv
  BY DEF StoreInv
<1>1. CASE Configured \/ UNCHANGED vars
  <2>1. UNCHANGED <<m_files, stub, file>>
    BY <1>1 DEF Configured, vars, fsvars
  <2>2. \A q \in Paths : Writing(q)' <=> Writing(q)
    BY <2>1 DEF Writing, InSession
  <2>3. Sizes' = Sizes /\ SessionsOf' = SessionsOf
    BY <1>0, <2>1, <2>2, SizeKept, SizesKept, SessionsKept
  <2> QED
    BY <2>3 DEF Store!storevars, Sizes, SessionsOf
<1>2. ASSUME NEW p \in Paths, NEW size \in SeedSizes, Seed(p, size)
      PROVE  Store!StoreNext \/ UNCHANGED Store!storevars
  BY <1>0, <1>2, SeedSeen DEF Store!StoreNext
<1>3. ASSUME NEW from \in Paths, NEW to \in Paths, Rename(from, to)
      PROVE  Store!StoreNext \/ UNCHANGED Store!storevars
  BY <1>0, <1>3, RenameSeen DEF Store!StoreNext
<1>4. ASSUME NEW p \in Paths, Unlink(p) PROVE Store!StoreNext
  BY <1>0, <1>4, UnlinkSeen DEF Store!StoreNext
<1>5. ASSUME NEW h \in Handles,
             Open(h) \/ AckWrite(h) \/ DoRead(h) \/ BeginClose(h) \/ Continue(h)
      PROVE  Store!StoreNext \/ UNCHANGED Store!storevars
  <2>1. CASE Open(h)
    BY <1>0, <2>1, OpenSeen
  <2>2. CASE AckWrite(h)
    BY <1>0, <2>2, AckWriteSeen DEF Store!StoreNext
  <2>3. CASE DoRead(h)
    BY <1>0, <2>3, DoReadSeen
  <2>4. CASE BeginClose(h)
    <3>1. Close_begin(h)
      BY <1>0, <2>4, HandleFacts DEF BeginClose, Close_noStub, StubPresent
    <3> QED
      BY <1>0, <3>1, CloseStageUnseen
  <2>5. CASE Continue(h)
    <3>1. CASE Close_fsClose(h)
      BY <3>1, CloseSeen DEF Store!StoreNext
    <3>2. CASE Close_setSize(h) \/ Close_setStat(h)
      BY <1>0, <3>2, CloseStageUnseen
    <3>3. CASE Open_getStub(h) \/ Open_init(h) \/ WriteAio_count(h) \/ Close_record(h)
      BY <1>0, <2>5, <3>3, QuietContinueUnseen
    <3> QED
      BY <2>5, <3>1, <3>2, <3>3 DEF Continue
  <2> QED
    BY <1>5, <2>1, <2>2, <2>3, <2>4, <2>5
<1> QED
  BY <1>1, <1>2, <1>3, <1>4, <1>5 DEF Next

\* Under the discipline the plug-in is a plain store of files to its clients:
\* no interleaving of the stages of Open() and Close(), of late counts of
\* asynchronous writes and of renames shows in any size or session.
THEOREM ImplementsStore ==
    ASSUME Discipline
    PROVE  Spec => ImplementsFileStore
<1>1. Init => StoreInv /\ Store!StoreInit
  BY StoreInvInit, StoreInitSeen
<1>2. StoreInv /\ [Next]_vars => StoreInv'
  BY StoreInvNext
<1>3. StoreInv /\ [Next]_vars => [Store!StoreNext]_(Store!storevars)
  BY StepSeen
<1> QED
  BY <1>1, <1>2, <1>3, PTL DEF Spec, ImplementsFileStore, Store!StoreSpec
=============================================================================
