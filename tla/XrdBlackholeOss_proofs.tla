----------------------- MODULE XrdBlackholeOss_proofs -----------------------
(***************************************************************************)
(* Theorems about the whole plug-in, for any handles, paths and sizes.     *)
(***************************************************************************)
EXTENDS XrdBlackholeOss, BlackholeFS_proofs

-----------------------------------------------------------------------------
(* Types *)

\* What TypeOK says of one handle's record beyond the types of its members.
Sound(f) == /\ f.m_writeBytes + f.m_writeBytesAIO + f.aio <= MaxBytes
            /\ f.pc # "idle" => f.m_path \in Paths

FileOK == file \in [Handles -> File] /\ \A h \in Handles : Sound(file[h])

\* Replacing one handle's record keeps the types of all.
LEMMA FileUpdate ==
    ASSUME FileOK, NEW h \in Handles, NEW f \in File,
           file' = [file EXCEPT ![h] = f],
           Sound(f)
    PROVE  FileOK'
BY DEF FileOK

\* The bytes ReadInner() fills are counted in whole, non-negative numbers.
LEMMA ReadInnerType ==
    ASSUME FileOK, NEW h \in Handles, NEW offset \in Offsets, NEW blen \in Lengths
    PROVE  ReadInner(h, offset, blen) \in Nat
<1>1. file[h].m_size \in Nat /\ offset \in Int /\ blen \in Nat
  BY FSAssumption, FileAssumption DEF FileOK, File
<1> QED
  BY <1>1 DEF ReadInner

\* Open() up to its first access of the namespace keeps the types.
LEMMA OpenFileType ==
    ASSUME FileOK, NEW h \in Handles, NEW p \in Paths, NEW fl \in OpenFlags,
           Open_refused(h, p, fl) \/ Open_open(h, p, fl)
    PROVE  FileOK'
<1> USE FileAssumption
<1>0. file[h] \in File /\ Sound(file[h])
  BY DEF FileOK
<1>1. CASE Open_refused(h, p, fl)
  <2> DEFINE f == [file[h] EXCEPT !.m_path = p]
  <2>1. f \in File
    BY <1>0 DEF File
  <2>2. Sound(f)
    BY <1>0 DEF File, Sound
  <2>3. file' = [file EXCEPT ![h] = f]
    BY <1>1 DEF Open_refused
  <2> QED
    BY <2>1, <2>2, <2>3, FileUpdate
<1>2. CASE Open_open(h, p, fl)
  <2> DEFINE f == [file[h] EXCEPT !.pc = "getStub", !.m_path = p, !.was_write = fl.write]
  <2>0. fl.write \in BOOLEAN /\ "getStub" \in PC
    BY DEF OpenFlags, PC, OpenPC
  <2>1. f \in File
    BY <1>0, <2>0 DEF File
  <2>2. Sound(f)
    BY <1>0 DEF File, Sound
  <2>3. file' = [file EXCEPT ![h] = f]
    BY <1>2 DEF Open_open
  <2> QED
    BY <2>1, <2>2, <2>3, FileUpdate
<1> QED
  BY <1>1, <1>2

\* A write request keeps the types: the bound on a session's bytes is kept.
LEMMA WriteFileType ==
    ASSUME FileOK, NEW h \in Handles, NEW n \in WriteSizes,
           Write(h, n) \/ WriteAio_done(h, n)
    PROVE  FileOK'
<1> USE FSAssumption, FileAssumption
<1>0. file[h] \in File /\ Sound(file[h])
  BY DEF FileOK
<1>1. CASE Write(h, n)
  <2> DEFINE f == [file[h] EXCEPT !.m_writeBytes = @ + n]
  <2>0. Acknowledged(h) + n <= MaxBytes /\ n \in Nat
    BY <1>1 DEF Write
  <2>1. f \in File
    BY <1>0, <2>0 DEF File, Sound, Acknowledged
  <2>2. Sound(f)
    BY <1>0, <1>1, <2>0 DEF File, Sound, Write, Acknowledged
  <2>3. file' = [file EXCEPT ![h] = f]
    BY <1>1 DEF Write
  <2> QED
    BY <2>1, <2>2, <2>3, FileUpdate
<1>2. CASE WriteAio_done(h, n)
  <2> DEFINE f == [file[h] EXCEPT !.aio = n]
  <2>0. Acknowledged(h) + n <= MaxBytes /\ n \in Nat /\ file[h].aio = 0
    BY <1>2 DEF WriteAio_done
  <2>1. f \in File
    BY <1>0, <2>0 DEF File, Sound, Acknowledged
  <2>2. Sound(f)
    BY <1>0, <1>2, <2>0 DEF File, Sound, WriteAio_done, Acknowledged
  <2>3. file' = [file EXCEPT ![h] = f]
    BY <1>2 DEF WriteAio_done
  <2> QED
    BY <2>1, <2>2, <2>3, FileUpdate
<1> QED
  BY <1>1, <1>2

\* A read request keeps the types.
LEMMA ReadFileType ==
    ASSUME FileOK, NEW h \in Handles,
           \/ Read_error(h)
           \/ \E offset \in Offsets, blen \in Lengths : Read(h, offset, blen)
           \/ \E off1, off2 \in Offsets, len1, len2 \in Lengths :
                 ReadV(h, off1, len1, off2, len2)
    PROVE  FileOK'
<1> USE FSAssumption, FileAssumption
<1>0. file[h] \in File /\ Sound(file[h])
  BY DEF FileOK
<1>1. ASSUME NEW n \in Nat, file[h].m_readBytes + n <= MaxBytes,
             file' = [file EXCEPT ![h].m_readBytes = @ + n]
      PROVE  FileOK'
  <2> DEFINE f == [file[h] EXCEPT !.m_readBytes = @ + n]
  <2>1. f \in File
    BY <1>0, <1>1 DEF File
  <2>2. Sound(f)
    BY <1>0 DEF File, Sound
  <2>3. file' = [file EXCEPT ![h] = f]
    BY <1>1
  <2> QED
    BY <2>1, <2>2, <2>3, FileUpdate
<1>2. ASSUME NEW offset \in Offsets, NEW blen \in Lengths, Read(h, offset, blen)
      PROVE  FileOK'
  BY <1>1, <1>2, ReadInnerType DEF Read
<1>3. ASSUME NEW off1 \in Offsets, NEW off2 \in Offsets,
             NEW len1 \in Lengths, NEW len2 \in Lengths,
             ReadV(h, off1, len1, off2, len2)
      PROVE  FileOK'
  <2>1. ReadInner(h, off1, len1) + ReadInner(h, off2, len2) \in Nat
    BY ReadInnerType
  <2> QED
    BY <1>1, <1>3, <2>1 DEF ReadV
<1>4. CASE Read_error(h)
  <2> DEFINE f == [file[h] EXCEPT !.m_errors = @ + 1]
  <2>0. file[h].m_errors < MaxErrors
    BY <1>4 DEF Read_error
  <2>1. f \in File
    BY <1>0, <2>0 DEF File
  <2>2. Sound(f)
    BY <1>0, <2>0 DEF File, Sound
  <2>3. file' = [file EXCEPT ![h] = f]
    BY <1>4 DEF Read_error
  <2> QED
    BY <2>1, <2>2, <2>3, FileUpdate
<1> QED
  BY <1>2, <1>3, <1>4

\* The beginning of Close() keeps the types.
LEMMA CloseFileType ==
    ASSUME FileOK, NEW h \in Handles, Close_noStub(h) \/ Close_begin(h)
    PROVE  FileOK'
<1> USE FSAssumption, FileAssumption
<1>0. file[h] \in File /\ Sound(file[h])
  BY DEF FileOK
<1>1. CASE Close_noStub(h)
  <2> DEFINE f == [file[h] EXCEPT !.pc = "idle"]
  <2>0. "idle" \in PC
    BY DEF PC
  <2>1. f \in File
    BY <1>0, <2>0 DEF File
  <2>2. Sound(f)
    BY <1>0, <2>0 DEF File, Sound
  <2>3. file' = [file EXCEPT ![h] = f]
    BY <1>1 DEF Close_noStub
  <2> QED
    BY <2>1, <2>2, <2>3, FileUpdate
<1>2. CASE Close_begin(h)
  <2> DEFINE pc == IF stub[file[h].m_stub].m_isOpenWrite THEN "setSize" ELSE "record"
             f == [file[h] EXCEPT !.pc = pc,
                                  !.wb = file[h].m_writeBytes + file[h].m_writeBytesAIO]
  <2>0. /\ pc \in PC
        /\ file[h].m_writeBytes + file[h].m_writeBytesAIO \in 0..MaxBytes
    BY <1>0 DEF PC, ClosePC, File, Sound
  <2>1. f \in File
    <3> HIDE DEF pc
    <3> QED
      BY <1>0, <2>0 DEF File, Sound, Acknowledged
  <2>2. Sound(f)
    BY <1>0, <1>2 DEF File, Sound, Close_begin
  <2>3. file' = [file EXCEPT ![h] = f]
    BY <1>2 DEF Close_begin
  <2> QED
    BY <2>1, <2>2, <2>3, FileUpdate
<1> QED
  BY <1>1, <1>2

\* The steps inside a call keep the types.
LEMMA ContinueFileType ==
    ASSUME TypeOK, NEW h \in Handles, Continue(h)
    PROVE  FileOK'
<1> USE FSAssumption, FileAssumption
<1>0. file[h] \in File /\ Sound(file[h]) /\ FileOK
  BY DEF TypeOK, FileOK, Sound, Acknowledged, InSession
<1>1. CASE Open_getStub(h)
  <2> DEFINE f == [file[h] EXCEPT !.pc = "init", !.m_stub = getStub(file[h].m_path)]
  <2>0. getStub(file[h].m_path) \in Inodes \cup {NoStub} /\ "init" \in PC
    BY <1>0, <1>1 DEF Open_getStub, TypeOK, FSTypeOK, getStub, PC, OpenPC, Sound
  <2>1. f \in File
    BY <1>0, <2>0 DEF File
  <2>2. Sound(f)
    BY <1>0, <1>1 DEF File, Sound, Open_getStub
  <2>3. file' = [file EXCEPT ![h] = f]
    BY <1>1 DEF Open_getStub
  <2> QED
    BY <1>0, <2>1, <2>2, <2>3, FileUpdate
<1>2. CASE WriteAio_count(h)
  <2> DEFINE f == [file[h] EXCEPT !.m_writeBytesAIO = @ + file[h].aio, !.aio = 0]
  <2>0. file[h].m_writeBytesAIO + file[h].aio \in 0..MaxBytes /\ 0 \in 0..MaxBytes
    BY <1>0 DEF File, Sound, Acknowledged
  <2>1. f \in File
    BY <1>0, <2>0 DEF File
  <2>2. Sound(f)
    BY <1>0 DEF File, Sound
  <2>3. file' = [file EXCEPT ![h] = f]
    BY <1>2 DEF WriteAio_count
  <2> QED
    BY <1>0, <2>1, <2>2, <2>3, FileUpdate
<1>3. CASE Open_init(h)
  <2> DEFINE size == IF file[h].m_stub = NoStub THEN 0 ELSE stub[file[h].m_stub].m_size
             f == [file[h] EXCEPT !.pc = "open", !.m_size = size,
                                  !.m_writeBytes = 0, !.m_writeBytesAIO = 0,
                                  !.m_readBytes = 0, !.m_errors = 0]
  <2>0. /\ size \in FileSizes
        /\ "open" \in PC
        /\ 0 \in 0..MaxBytes
        /\ 0 \in 0..MaxErrors
    BY <1>0 DEF File, Stub, PC, TypeOK, FSTypeOK
  <2>1. f \in File
    <3> HIDE DEF size
    <3> QED
      BY <1>0, <2>0 DEF File
  <2>2. Sound(f)
    BY <1>0, <1>3 DEF File, Sound, Open_init
  <2>3. file' = [file EXCEPT ![h] = f]
    BY <1>3 DEF Open_init
  <2> QED
    BY <1>0, <2>1, <2>2, <2>3, FileUpdate
<1>4. CASE Close_setSize(h)
  <2> DEFINE f == [file[h] EXCEPT !.pc = "setStat"]
  <2>0. "setStat" \in PC
    BY DEF PC, ClosePC
  <2>1. f \in File
    BY <1>0, <2>0 DEF File
  <2>2. Sound(f)
    BY <1>0, <1>4, <2>0 DEF File, Sound, Close_setSize
  <2>3. file' = [file EXCEPT ![h] = f]
    BY <1>4 DEF Close_setSize
  <2> QED
    BY <1>0, <2>1, <2>2, <2>3, FileUpdate
<1>5. CASE Close_setStat(h)
  <2> DEFINE f == [file[h] EXCEPT !.pc = "record"]
  <2>0. "record" \in PC
    BY DEF PC, ClosePC
  <2>1. f \in File
    BY <1>0, <2>0 DEF File
  <2>2. Sound(f)
    BY <1>0, <1>5, <2>0 DEF File, Sound, Close_setStat
  <2>3. file' = [file EXCEPT ![h] = f]
    BY <1>5 DEF Close_setStat
  <2> QED
    BY <1>0, <2>1, <2>2, <2>3, FileUpdate
<1>6. CASE Close_record(h)
  <2> DEFINE f == [file[h] EXCEPT !.pc = "fsClose"]
  <2>0. "fsClose" \in PC
    BY DEF PC, ClosePC
  <2>1. f \in File
    BY <1>0, <2>0 DEF File
  <2>2. Sound(f)
    BY <1>0, <1>6, <2>0 DEF File, Sound, Close_record
  <2>3. file' = [file EXCEPT ![h] = f]
    BY <1>6 DEF Close_record
  <2> QED
    BY <1>0, <2>1, <2>2, <2>3, FileUpdate
<1>7. CASE Close_fsClose(h)
  <2> DEFINE f == [file[h] EXCEPT !.pc = "idle", !.m_stub = NoStub]
  <2>0. "idle" \in PC
    BY DEF PC
  <2>1. f \in File
    BY <1>0, <2>0 DEF File
  <2>2. Sound(f)
    BY <1>0, <2>0 DEF File, Sound
  <2>3. file' = [file EXCEPT ![h] = f]
    BY <1>7 DEF Close_fsClose
  <2> QED
    BY <1>0, <2>1, <2>2, <2>3, FileUpdate
<1> QED
  BY <1>1, <1>2, <1>3, <1>4, <1>5, <1>6, <1>7 DEF Continue

-----------------------------------------------------------------------------
(* The plug-in drives the namespace only through its operations. *)

\* The stub a handle holds is one the namespace has handed out, and a handle in
\* Close() past its first test holds one.
StubsHeld ==
    \A h \in Handles : /\ file[h].m_stub \in 0..m_fd_last
                       /\ file[h].pc \in ClosePC => file[h].m_stub # NoStub

OssInv == TypeOK /\ FSInv /\ StubsHeld

\* Every step of the plug-in is a step of BlackholeFS, or none.
LEMMA StepRefines ==
    ASSUME OssInv, [Next]_vars
    PROVE  [FSNext]_fsvars
<1> USE FSAssumption, FileAssumption, OssAssumption
<1>1. ASSUME NEW p \in Paths, NEW size \in SeedSizes, Seed(p, size)
      PROVE  FSNext
  BY <1>1 DEF Seed, FSNext
<1>2. ASSUME NEW from \in Paths, NEW to \in Paths, Rename(from, to)
      PROVE  FSNext
  BY <1>2 DEF Rename, FSNext
<1>3. ASSUME NEW p \in Paths, Unlink(p)
      PROVE  FSNext
  BY <1>3 DEF Unlink, FSNext
<1>4. ASSUME NEW h \in Handles, Open(h)
      PROVE  FSNext
  BY <1>4 DEF Open, Open_refused, Open_open, FSNext
<1>5. ASSUME NEW h \in Handles, AckWrite(h) \/ DoRead(h) \/ BeginClose(h)
      PROVE  UNCHANGED fsvars
  BY <1>5 DEF AckWrite, Write, WriteAio_done, DoRead, Read_error, Read, ReadV,
              BeginClose, Close_noStub, Close_begin
<1>6. ASSUME NEW h \in Handles, Continue(h)
      PROVE  [FSNext]_fsvars
  <2>1. CASE Close_setSize(h) \/ Close_setStat(h)
    <3>0. /\ file[h].m_stub \in 0..m_fd_last
          /\ file[h].m_stub # 0
          /\ m_fd_last \in 0..MaxFd
      BY <2>1 DEF OssInv, TypeOK, FSTypeOK, StubsHeld, Close_setSize, Close_setStat, ClosePC,
                  NoStub
    <3>1. /\ file[h].m_stub \in Inodes
          /\ file[h].m_stub <= m_fd_last
      BY <3>0 DEF Inodes
    <3>2. file[h].wb \in 0..MaxBytes
      BY DEF OssInv, TypeOK, File
    <3>3. file[h].wb \in FileSizes /\ file[h].wb <= OffMax
      BY <3>2
    <3>4. toOff(file[h].wb) = file[h].wb
      BY <3>3, ToOffType
    <3> QED
      BY <2>1, <3>1, <3>3, <3>4 DEF Close_setSize, Close_setStat, FSNext
  <2>2. CASE Close_fsClose(h)
    <3>1. file[h].m_path \in Paths
      BY <2>2 DEF OssInv, TypeOK, InSession, Close_fsClose
    <3> QED
      BY <2>2, <3>1 DEF Close_fsClose, FSNext
  <2>3. CASE Open_getStub(h) \/ Open_init(h) \/ WriteAio_count(h) \/ Close_record(h)
    BY <2>3 DEF Open_getStub, Open_init, WriteAio_count, Close_record
  <2> QED
    BY <1>6, <2>1, <2>2, <2>3 DEF Continue
<1>7. CASE Configured \/ UNCHANGED vars
  BY <1>7 DEF Configured, vars
<1> QED
  BY <1>1, <1>2, <1>3, <1>4, <1>5, <1>6, <1>7 DEF Next

\* The handles keep their types.
LEMMA FileOKNext ==
    ASSUME OssInv, [Next]_vars
    PROVE  FileOK'
<1>0. FileOK /\ TypeOK
  BY DEF OssInv, TypeOK, FileOK, Sound, Acknowledged, InSession
<1>1. ASSUME NEW h \in Handles, Open(h) PROVE FileOK'
  BY <1>0, <1>1, OpenFileType DEF Open
<1>2. ASSUME NEW h \in Handles, AckWrite(h) PROVE FileOK'
  BY <1>0, <1>2, WriteFileType DEF AckWrite
<1>3. ASSUME NEW h \in Handles, DoRead(h) PROVE FileOK'
  BY <1>0, <1>3, ReadFileType DEF DoRead
<1>4. ASSUME NEW h \in Handles, BeginClose(h) PROVE FileOK'
  BY <1>0, <1>4, CloseFileType DEF BeginClose
<1>5. ASSUME NEW h \in Handles, Continue(h) PROVE FileOK'
  BY <1>0, <1>5, ContinueFileType
<1>6. CASE UNCHANGED file
  BY <1>0, <1>6 DEF FileOK
<1> QED
  BY <1>1, <1>2, <1>3, <1>4, <1>5, <1>6 DEF Next, Seed, Configured, Rename, Unlink, vars

\* The statistics and the history keep their types.
LEMMA TotalsTypeNext ==
    ASSUME OssInv, [Next]_vars
    PROVE  /\ StatsTypeOK'
           /\ serving' \in BOOLEAN
           /\ acked' \in [Handles -> Nat]
           /\ written' \in [Inodes -> Nat]
           /\ ended' \in [bytes : Nat, errors : Nat]
<1> USE FSAssumption, FileAssumption, OssAssumption
<1>0. /\ stats \in Snapshot
      /\ serving \in BOOLEAN
      /\ acked \in [Handles -> Nat]
      /\ written \in [Inodes -> Nat]
      /\ ended \in [bytes : Nat, errors : Nat]
      /\ \A h \in Handles : file[h] \in File
  BY DEF OssInv, TypeOK, StatsTypeOK
<1>1. ASSUME NEW h \in Handles, NEW bytes \in Nat, EndSession(h, bytes)
      PROVE  ended' \in [bytes : Nat, errors : Nat]
  <2>1. file[h].m_errors \in Nat
    BY <1>0 DEF File
  <2>2. /\ ended.bytes + bytes \in Nat
        /\ ended.errors + file[h].m_errors \in Nat
    BY <1>0, <2>1
  <2>3. ended' = [bytes  |-> ended.bytes + bytes,
                  errors |-> ended.errors + file[h].m_errors]
    BY <1>0, <1>1 DEF EndSession
  <2> QED
    BY <2>2, <2>3
<1>2. ASSUME NEW h \in Handles, Close_record(h)
      PROVE  stats' \in Snapshot
  <2> DEFINE s == Transfer(h)
  <2>1. s.bytes_written \in Nat /\ s.bytes_read \in Nat /\ s.errors \in Nat
    BY <1>0 DEF File, Transfer
  <2>2. recordTransfer(s)
    BY <1>2 DEF Close_record
  <2> HIDE DEF s
  <2> DEFINE w == IF s.bytes_written > 0 THEN stats.write_transfers + 1
                  ELSE stats.write_transfers
             r == IF s.bytes_read > 0 THEN stats.read_transfers + 1
                  ELSE stats.read_transfers
  <2>3. /\ w \in Nat
        /\ r \in Nat
        /\ stats.total_transfers + 1 \in Nat
        /\ stats.total_bytes_written + s.bytes_written \in Nat
        /\ stats.total_bytes_read + s.bytes_read \in Nat
        /\ stats.total_errors + s.errors \in Nat
    BY <1>0, <2>1 DEF Snapshot
  <2>4. stats' = [total_transfers     |-> stats.total_transfers + 1,
                  write_transfers     |-> w,
                  read_transfers      |-> r,
                  total_bytes_written |-> stats.total_bytes_written + s.bytes_written,
                  total_bytes_read    |-> stats.total_bytes_read + s.bytes_read,
                  total_errors        |-> stats.total_errors + s.errors]
    BY <1>0, <2>2 DEF recordTransfer, Snapshot
  <2> HIDE DEF w, r
  <2> QED
    BY <2>3, <2>4 DEF Snapshot
<1>3. ASSUME NEW p \in Paths, NEW size \in SeedSizes, Seed(p, size)
      PROVE  written' \in [Inodes -> Nat]
  BY <1>0, <1>3 DEF Seed
<1>4. CASE \E p \in Paths, size \in SeedSizes : Seed(p, size)
  BY <1>0, <1>3, <1>4 DEF Seed, StatsTypeOK
<1>5. CASE Configured \/ (\E from, to \in Paths : Rename(from, to)) \/ (\E p \in Paths : Unlink(p))
  BY <1>0, <1>5 DEF Configured, Rename, Unlink, history, StatsTypeOK
<1>6. ASSUME NEW h \in Handles, Open(h) \/ AckWrite(h)
      PROVE  /\ acked' \in [Handles -> Nat]
             /\ UNCHANGED <<stats, serving, written, ended>>
  <2>1. CASE Open(h)
    BY <1>0, <2>1 DEF Open, Open_refused, Open_open
  <2>2. CASE AckWrite(h)
    BY <1>0, <2>2 DEF AckWrite, Write, WriteAio_done
  <2> QED
    BY <1>6, <2>1, <2>2
<1>7. ASSUME NEW h \in Handles, DoRead(h)
      PROVE  UNCHANGED <<stats, serving, acked, written, ended>>
  BY <1>7 DEF DoRead, Read_error, Read, ReadV, history
<1>8. ASSUME NEW h \in Handles, BeginClose(h)
      PROVE  /\ ended' \in [bytes : Nat, errors : Nat]
             /\ UNCHANGED <<stats, serving, acked, written>>
  BY <1>0, <1>1, <1>8 DEF BeginClose, Close_noStub, Close_begin
<1>9. ASSUME NEW h \in Handles, Continue(h)
      PROVE  /\ stats' \in Snapshot
             /\ written' \in [Inodes -> Nat]
             /\ ended' \in [bytes : Nat, errors : Nat]
             /\ UNCHANGED <<serving, acked>>
  <2>1. CASE Close_record(h)
    BY <1>0, <1>1, <1>2, <1>9, <2>1 DEF Continue, Close_record, Close_fsClose, Open_getStub,
       Open_init, WriteAio_count, Close_setSize, Close_setStat
  <2>2. CASE Close_fsClose(h)
    BY <1>0, <1>9, <2>2 DEF Continue, Close_record, Close_fsClose, Open_getStub,
       Open_init, WriteAio_count, Close_setSize, Close_setStat
  <2>3. CASE ~Close_record(h) /\ ~Close_fsClose(h)
    BY <1>0, <1>9, <2>3 DEF Continue, Open_getStub,
       Open_init, WriteAio_count, Close_setSize, Close_setStat
  <2> QED
    BY <2>1, <2>2, <2>3
<1>10. CASE UNCHANGED vars
  BY <1>0, <1>10 DEF vars, history, StatsTypeOK
<1> QED
  BY <1>0, <1>4, <1>5, <1>6, <1>7, <1>8, <1>9, <1>10 DEF Next, StatsTypeOK

\* The counter of fds never goes back.
LEMMA FdMonotone ==
    ASSUME FSInv, [FSNext]_fsvars
    PROVE  m_fd_last \in Nat /\ m_fd_last' \in Nat /\ m_fd_last <= m_fd_last'
<1>1. m_fd_last \in Nat
  BY FSAssumption DEF FSInv, FSTypeOK
<1>2. NextFd \/ UNCHANGED m_fd_last
  BY DEF FSNext, fsvars, open, openError, openRdonly, openReuse, openFresh, close, unlink,
         rename, seed, setSize, setStat
<1> QED
  BY <1>1, <1>2 DEF NextFd

\* A request or a step of one handle leaves the other handles alone.
LEMMA OthersUnchanged ==
    ASSUME TypeOK, NEW h \in Handles,
           Open(h) \/ AckWrite(h) \/ DoRead(h) \/ BeginClose(h) \/ Continue(h)
    PROVE  \A g \in Handles \ {h} : file'[g] = file[g]
<1>0. file \in [Handles -> File]
  BY DEF TypeOK
<1>1. CASE Open(h)
  BY <1>0, <1>1 DEF Open, Open_refused, Open_open
<1>2. CASE AckWrite(h) \/ DoRead(h)
  BY <1>0, <1>2 DEF AckWrite, Write, WriteAio_done, DoRead, Read_error, Read, ReadV
<1>3. CASE BeginClose(h)
  BY <1>0, <1>3 DEF BeginClose, Close_noStub, Close_begin
<1>4. CASE Continue(h)
  BY <1>0, <1>4 DEF Continue, Open_getStub, Open_init, WriteAio_count, Close_setSize,
                    Close_setStat, Close_record, Close_fsClose
<1> QED
  BY <1>1, <1>2, <1>3, <1>4

\* No step makes a handle hold a stub that was never handed out.
LEMMA StubsHeldNext ==
    ASSUME OssInv, [Next]_vars
    PROVE  StubsHeld'
<1>0. /\ file \in [Handles -> File]
      /\ \A g \in Handles : /\ file[g].m_stub \in 0..m_fd_last
                            /\ file[g].pc \in ClosePC => file[g].m_stub # NoStub
  BY DEF OssInv, TypeOK, StubsHeld
<1>1. m_fd_last \in Nat /\ m_fd_last' \in Nat /\ m_fd_last <= m_fd_last'
  BY StepRefines, FdMonotone DEF OssInv
<1>2. ASSUME NEW h \in Handles,
             \A g \in Handles \ {h} : file'[g] = file[g],
             file'[h].m_stub \in 0..m_fd_last,
             file'[h].pc \in ClosePC => file'[h].m_stub # NoStub
      PROVE  StubsHeld'
  <2> SUFFICES ASSUME NEW g \in Handles
               PROVE  /\ file'[g].m_stub \in 0..m_fd_last'
                      /\ file'[g].pc \in ClosePC => file'[g].m_stub # NoStub
    BY DEF StubsHeld
  <2>1. CASE g = h
    BY <1>1, <1>2, <2>1
  <2>2. CASE g # h
    BY <1>0, <1>1, <1>2, <2>2
  <2> QED
    BY <2>1, <2>2
<1>3. ASSUME NEW h \in Handles, Open(h) PROVE StubsHeld'
  <2>1. \A g \in Handles \ {h} : file'[g] = file[g]
    BY <1>3, OthersUnchanged DEF OssInv
  <2>2. file'[h].m_stub = file[h].m_stub
    BY <1>0, <1>3 DEF Open, Open_refused, Open_open, File
  <2>3. file'[h].pc \notin ClosePC
    BY <1>0, <1>3 DEF Open, Open_refused, Open_open, File, ClosePC
  <2> QED
    BY <1>0, <1>2, <2>1, <2>2, <2>3
<1>4. ASSUME NEW h \in Handles, AckWrite(h) \/ DoRead(h) PROVE StubsHeld'
  <2>1. \A g \in Handles \ {h} : file'[g] = file[g]
    BY <1>4, OthersUnchanged DEF OssInv
  <2>2. file'[h].m_stub = file[h].m_stub /\ file'[h].pc = file[h].pc
    BY <1>0, <1>4 DEF AckWrite, Write, WriteAio_done, DoRead, Read_error, Read, ReadV, File
  <2> QED
    BY <1>0, <1>2, <2>1, <2>2
<1>5. ASSUME NEW h \in Handles, BeginClose(h) PROVE StubsHeld'
  <2>1. \A g \in Handles \ {h} : file'[g] = file[g]
    BY <1>5, OthersUnchanged DEF OssInv
  <2>2. file'[h].m_stub = file[h].m_stub
    BY <1>0, <1>5 DEF BeginClose, Close_noStub, Close_begin, File
  <2>3. file'[h].pc \in ClosePC => file'[h].m_stub # NoStub
    BY <1>0, <1>5, <2>2 DEF BeginClose, Close_noStub, Close_begin, File, ClosePC
  <2> QED
    BY <1>0, <1>2, <2>1, <2>2, <2>3
<1>6. ASSUME NEW h \in Handles, Continue(h) PROVE StubsHeld'
  <2>1. \A g \in Handles \ {h} : file'[g] = file[g]
    BY <1>6, OthersUnchanged DEF OssInv
  <2>2. CASE Open_getStub(h)
    <3>1. m_files[file[h].m_path] \in 0..m_fd_last
      BY <2>2 DEF Open_getStub, OssInv, TypeOK, InSession, FSInv, HandedOut
    <3>2. file'[h].m_stub = m_files[file[h].m_path] /\ file'[h].pc = "init"
      BY <1>0, <2>2 DEF Open_getStub, getStub, File
    <3> QED
      BY <1>2, <2>1, <3>1, <3>2 DEF ClosePC
  <2>3. CASE Open_init(h) \/ WriteAio_count(h)
    <3>1. /\ file'[h].m_stub = file[h].m_stub
          /\ file'[h].pc \in {file[h].pc, "open"}
      BY <1>0, <2>3 DEF Open_init, WriteAio_count, File
    <3> QED
      BY <1>0, <1>2, <2>1, <3>1 DEF ClosePC
  <2>4. CASE Close_setSize(h) \/ Close_setStat(h) \/ Close_record(h)
    <3>1. file'[h].m_stub = file[h].m_stub /\ file[h].pc \in ClosePC
      BY <1>0, <2>4 DEF Close_setSize, Close_setStat, Close_record, File, ClosePC
    <3> QED
      BY <1>0, <1>2, <2>1, <3>1
  <2>5. CASE Close_fsClose(h)
    <3>1. file'[h].m_stub = 0 /\ file'[h].pc = "idle"
      BY <1>0, <2>5 DEF Close_fsClose, File, NoStub
    <3> QED
      BY <1>1, <1>2, <2>1, <3>1 DEF ClosePC
  <2> QED
    BY <1>6, <2>2, <2>3, <2>4, <2>5 DEF Continue
<1>7. CASE UNCHANGED file
  <2> SUFFICES ASSUME NEW g \in Handles
               PROVE  /\ file'[g].m_stub \in 0..m_fd_last'
                      /\ file'[g].pc \in ClosePC => file'[g].m_stub # NoStub
    BY DEF StubsHeld
  <2> QED
    BY <1>0, <1>1, <1>7
<1> QED
  BY <1>3, <1>4, <1>5, <1>6, <1>7 DEF Next, Seed, Configured, Rename, Unlink, vars

\* The invariant holds at first.
LEMMA OssInvInit == Init => OssInv
<1> SUFFICES ASSUME Init PROVE OssInv
  OBVIOUS
<1> USE FSAssumption, FileAssumption
<1>1. FSInv
  BY FSInvInit DEF Init
<1>2. file \in [Handles -> File]
  <2>1. /\ "idle" \in PC
        /\ 0 \in 0..MaxBytes
        /\ 0 \in 0..MaxErrors
    BY DEF PC
  <2> QED
    BY <2>1 DEF Init, FileInit, File
<1>3. ASSUME NEW h \in Handles
      PROVE  /\ Acknowledged(h) <= MaxBytes
             /\ ~InSession(h)
             /\ file[h].m_stub = 0
             /\ file[h].pc = "idle"
  BY DEF Init, FileInit, Acknowledged, InSession, NoStub
<1>4. StatsTypeOK
  BY DEF Init, StatsInit, StatsTypeOK, Snapshot
<1>5. TypeOK
  BY <1>1, <1>2, <1>3, <1>4 DEF Init, TypeOK, FSInv
<1>6. StubsHeld
  <2>1. m_fd_last = 0
    BY DEF Init, FSInit
  <2> SUFFICES ASSUME NEW h \in Handles
               PROVE  file[h].m_stub \in 0..m_fd_last /\ file[h].pc \notin ClosePC
    BY DEF StubsHeld
  <2> QED
    BY <1>3, <2>1 DEF ClosePC
<1> QED
  BY <1>1, <1>5, <1>6 DEF OssInv

\* Every step keeps the invariant.
LEMMA OssInvNext == OssInv /\ [Next]_vars => OssInv'
<1> SUFFICES ASSUME OssInv, [Next]_vars PROVE OssInv'
  OBVIOUS
<1>1. FSInv'
  BY StepRefines, FSInvNext DEF OssInv
<1>2. FileOK'
  BY FileOKNext
<1>3. TypeOK'
  BY <1>1, <1>2, TotalsTypeNext
     DEF TypeOK, FSInv, FileOK, Sound, Acknowledged, InSession
<1> QED
  BY <1>1, <1>3, StubsHeldNext DEF OssInv

\* The whole plug-in keeps its types, and no session acknowledges more bytes
\* than the bound, however its threads interleave.
THEOREM TypeCorrect == Spec => []TypeOK
<1>1. OssInv => TypeOK
  BY DEF OssInv
<1> QED
  BY <1>1, OssInvInit, OssInvNext, PTL DEF Spec

\* File handles and requests, unlocked stub updates included, change the
\* namespace only by BlackholeFS's own steps, which is all NoAliasInOss needs.
LEMMA RefinesFS == Spec => FSSpec
<1>1. Init => FSInit
  BY DEF Init
<1>2. OssInv /\ [Next]_vars => [FSNext]_fsvars
  BY StepRefines
<1> QED
  BY <1>1, <1>2, OssInvInit, OssInvNext, PTL DEF Spec, FSSpec

\* So no interleaving of opens, closes, renames and unlinks makes two paths
\* share a stub.
THEOREM NoAliasInOss == Spec => []NoAlias
BY RefinesFS, FSNoAlias, PTL

-----------------------------------------------------------------------------
(* The error total is dead. *)

\* The only calls that count an error are those on a handle without a stub,
\* whose Close() records nothing and whose next Open() resets the count.
ErrorsNeverReported == stats.total_errors = 0

\* A handle whose Close() will record has counted no error.
NoErrorsHeld ==
    \A h \in Handles :
        (file[h].pc = "open" /\ file[h].m_stub # NoStub) \/ file[h].pc \in ClosePC
            => file[h].m_errors = 0

ErrorsInv == OssInv /\ NoErrorsHeld /\ ErrorsNeverReported

\* No step breaks it: Open() resets the count when it gives a handle its stub.
LEMMA NoErrorsHeldNext ==
    ASSUME ErrorsInv, [Next]_vars
    PROVE  NoErrorsHeld'
<1>0. file \in [Handles -> File] /\ NoErrorsHeld
  BY DEF ErrorsInv, OssInv, TypeOK
<1>1. ASSUME NEW h \in Handles,
             \A g \in Handles \ {h} : file'[g] = file[g],
             (file'[h].pc = "open" /\ file'[h].m_stub # NoStub) \/ file'[h].pc \in ClosePC
                 => file'[h].m_errors = 0
      PROVE  NoErrorsHeld'
  BY <1>0, <1>1 DEF NoErrorsHeld
<1>2. ASSUME NEW h \in Handles, Open(h) PROVE NoErrorsHeld'
  <2>1. \A g \in Handles \ {h} : file'[g] = file[g]
    BY <1>2, OthersUnchanged DEF ErrorsInv, OssInv
  <2>2. file'[h].pc \in {"idle", "getStub"}
    BY <1>0, <1>2 DEF Open, Open_refused, Open_open, File
  <2> QED
    BY <1>1, <2>1, <2>2 DEF ClosePC
<1>3. ASSUME NEW h \in Handles, AckWrite(h) \/ DoRead(h) PROVE NoErrorsHeld'
  <2>1. \A g \in Handles \ {h} : file'[g] = file[g]
    BY <1>3, OthersUnchanged DEF ErrorsInv, OssInv
  <2>2. CASE Read_error(h)
    <3>1. /\ file'[h].m_stub = NoStub
          /\ file'[h].pc \in {"idle", "open"}
      BY <1>0, <2>2 DEF Read_error, File
    <3> QED
      BY <1>1, <2>1, <3>1 DEF ClosePC
  <2>3. CASE ~Read_error(h)
    <3>1. /\ file'[h].m_stub = file[h].m_stub
          /\ file'[h].pc = file[h].pc
          /\ file'[h].m_errors = file[h].m_errors
      BY <1>0, <1>3, <2>3 DEF AckWrite, Write, WriteAio_done, DoRead, Read, ReadV, File
    <3> QED
      BY <1>0, <1>1, <2>1, <3>1 DEF NoErrorsHeld
  <2> QED
    BY <2>2, <2>3
<1>4. ASSUME NEW h \in Handles, BeginClose(h) PROVE NoErrorsHeld'
  <2>1. \A g \in Handles \ {h} : file'[g] = file[g]
    BY <1>4, OthersUnchanged DEF ErrorsInv, OssInv
  <2>2. CASE Close_noStub(h)
    <3>1. file'[h].pc = "idle"
      BY <1>0, <2>2 DEF Close_noStub, File
    <3> QED
      BY <1>1, <2>1, <3>1 DEF ClosePC
  <2>3. CASE Close_begin(h)
    <3>1. file'[h].m_errors = file[h].m_errors
      BY <1>0, <2>3 DEF Close_begin, File
    <3>2. file[h].m_errors = 0
      BY <1>0, <2>3 DEF Close_begin, NoErrorsHeld
    <3> QED
      BY <1>1, <2>1, <3>1, <3>2
  <2> QED
    BY <1>4, <2>2, <2>3 DEF BeginClose
<1>5. ASSUME NEW h \in Handles, Continue(h) PROVE NoErrorsHeld'
  <2>1. \A g \in Handles \ {h} : file'[g] = file[g]
    BY <1>5, OthersUnchanged DEF ErrorsInv, OssInv
  <2>2. CASE Open_getStub(h) \/ Close_fsClose(h)
    <3>1. file'[h].pc \in {"init", "idle"}
      BY <1>0, <2>2 DEF Open_getStub, Close_fsClose, File
    <3> QED
      BY <1>1, <2>1, <3>1 DEF ClosePC
  <2>3. CASE Open_init(h)
    <3>1. file'[h].m_errors = 0
      BY <1>0, <2>3 DEF Open_init, File
    <3> QED
      BY <1>1, <2>1, <3>1
  <2>4. CASE WriteAio_count(h)
    <3>1. /\ file'[h].m_stub = file[h].m_stub
          /\ file'[h].pc = file[h].pc
          /\ file'[h].m_errors = file[h].m_errors
      BY <1>0, <2>4 DEF WriteAio_count, File
    <3> QED
      BY <1>0, <1>1, <2>1, <3>1 DEF NoErrorsHeld
  <2>5. CASE Close_setSize(h) \/ Close_setStat(h) \/ Close_record(h)
    <3>1. file'[h].m_errors = file[h].m_errors /\ file[h].pc \in ClosePC
      BY <1>0, <2>5 DEF Close_setSize, Close_setStat, Close_record, File, ClosePC
    <3> QED
      BY <1>0, <1>1, <2>1, <3>1 DEF NoErrorsHeld
  <2> QED
    BY <1>5, <2>2, <2>3, <2>4, <2>5 DEF Continue
<1>6. CASE UNCHANGED file
  BY <1>0, <1>6 DEF NoErrorsHeld
<1> QED
  BY <1>2, <1>3, <1>4, <1>5, <1>6 DEF Next, Seed, Configured, Rename, Unlink, vars

\* The total changes only in Close_record, which adds 0 to it.
LEMMA TotalErrorsNext ==
    ASSUME ErrorsInv, [Next]_vars
    PROVE  ErrorsNeverReported'
<1>1. ASSUME NEW h \in Handles, Close_record(h) PROVE ErrorsNeverReported'
  <2>1. file[h].m_errors = 0
    BY <1>1 DEF ErrorsInv, NoErrorsHeld, Close_record, ClosePC
  <2>2. stats \in Snapshot /\ stats.total_errors = 0
    BY DEF ErrorsInv, OssInv, TypeOK, StatsTypeOK, ErrorsNeverReported
  <2>3. stats'.total_errors = stats.total_errors + Transfer(h).errors
    BY <1>1, <2>2 DEF Close_record, recordTransfer, Snapshot
  <2>4. Transfer(h).errors = 0
    BY <2>1 DEF Transfer
  <2> QED
    BY <2>2, <2>3, <2>4 DEF ErrorsNeverReported
<1>2. CASE UNCHANGED stats
  BY <1>2 DEF ErrorsInv, ErrorsNeverReported
<1>3. ASSUME NEW h \in Handles, Open(h) \/ AckWrite(h) \/ DoRead(h) \/ BeginClose(h)
      PROVE  UNCHANGED stats
  BY <1>3 DEF Open, Open_refused, Open_open, AckWrite, Write, WriteAio_done, DoRead,
     Read_error, Read, ReadV, BeginClose, Close_noStub, Close_begin
<1>4. ASSUME NEW h \in Handles, Continue(h)
      PROVE  Close_record(h) \/ UNCHANGED stats
  BY <1>4 DEF Continue, Open_getStub, Open_init, WriteAio_count, Close_setSize,
     Close_setStat, Close_fsClose
<1> QED
  BY <1>1, <1>2, <1>3, <1>4 DEF Next, Seed, Configured, Rename, Unlink, vars

\* The reported number of errors is 0 in every execution, whatever is shared,
\* renamed or unlinked while open: a counted error never reaches Close().
THEOREM ErrorTotalStaysZero == Spec => []ErrorsNeverReported
<1>1. Init => ErrorsInv
  <2>1. Init => NoErrorsHeld
    BY DEF Init, FileInit, NoErrorsHeld, ClosePC
  <2>2. Init => ErrorsNeverReported
    BY DEF Init, StatsInit, ErrorsNeverReported
  <2> QED
    BY <2>1, <2>2, OssInvInit DEF ErrorsInv
<1>2. ErrorsInv /\ [Next]_vars => ErrorsInv'
  BY OssInvNext, NoErrorsHeldNext, TotalErrorsNext DEF ErrorsInv
<1>3. ErrorsInv => ErrorsNeverReported
  BY DEF ErrorsInv
<1> QED
  BY <1>1, <1>2, <1>3, PTL DEF Spec

-----------------------------------------------------------------------------
(***************************************************************************)
(* Accounting: every acknowledged byte reaches the statistics, if the      *)
(* asynchronous writes have returned before Close() is called.  Sessions   *)
(* may share files in any way, and files may be renamed and unlinked while *)
(* they are open.                                                          *)
(***************************************************************************)

\* An open file is in the map, and a session that has looked its stub up has one.
StubPresent(h) == /\ InSession(h) => exists(file[h].m_path)
                  /\ file[h].pc \in {"init", "open"} => file[h].m_stub # NoStub

\* Where the bytes acknowledged in a session are, at every point of it.
BytesAccounted(h) == /\ file[h].pc # "open" => file[h].aio = 0
                     /\ file[h].pc \in OpenPC => acked[h] = 0
                     /\ file[h].pc = "open" => acked[h] = Acknowledged(h)
                     /\ file[h].pc \in ClosePC => file[h].wb = acked[h]

AllAccounted == \A h \in Handles : BytesAccounted(h)

BytesInv == OssInv /\ AllAccounted /\ AckedBytesRecorded

\* What the size theorems need, where no open file is renamed or unlinked.
SessionsSound == \A h \in Handles : StubPresent(h) /\ BytesAccounted(h)

AccountInv == OssInv /\ SessionsSound

-----------------------------------------------------------------------------
\* A successful open() leaves the path in the map.
LEMMA OpenLeavesFile ==
    ASSUME FSInv, NEW p \in Paths, NEW fl \in OpenFlags, open(p, fl), openRC(p, fl) >= 0
    PROVE  exists(p)'
<1>1. ~openFails(p, fl)
  BY DEF openRC, ENOENT, EEXIST
<1>2. CASE openRdonly(p, fl)
  BY <1>2 DEF openRdonly, exists
<1>3. CASE openReuse(p, fl)
  BY <1>3 DEF openReuse, exists
<1>4. CASE openFresh(p, fl)
  <2>1. m_fd_last' \in Inodes
    BY <1>4, NextFdFresh DEF openFresh
  <2>2. m_files'[p] = m_fd_last'
    BY <1>4 DEF openFresh, FSInv, FSTypeOK
  <2> QED
    BY <2>1, <2>2, FSAssumption DEF exists, Inodes, NoStub
<1> QED
  BY <1>1, <1>2, <1>3, <1>4 DEF open, openError

\* open() removes no file.
LEMMA OpenKeepsFiles ==
    ASSUME FSInv, NEW p \in Paths, NEW fl \in OpenFlags, open(p, fl),
           NEW q \in Paths, exists(q)
    PROVE  exists(q)'
<1>1. CASE openError(p, fl) \/ openRdonly(p, fl) \/ openReuse(p, fl)
  BY <1>1 DEF openError, openRdonly, openReuse, fsvars, exists
<1>2. CASE openFresh(p, fl)
  <2>1. m_fd_last' \in Inodes
    BY <1>2, NextFdFresh DEF openFresh
  <2>2. m_files'[q] \in {m_files[q], m_fd_last'}
    BY <1>2 DEF openFresh, FSInv, FSTypeOK
  <2> QED
    BY <2>1, <2>2, FSAssumption DEF exists, Inodes, NoStub
<1> QED
  BY <1>1, <1>2 DEF open

\* Under "never", no step removes a file that is in use.
LEMMA InUseKept ==
    ASSUME OssInv, [Next]_vars, Relocation = "never",
           NEW g \in Handles, InSession(g), exists(file[g].m_path), file'[g] = file[g]
    PROVE  exists(file[g].m_path)'
<1> DEFINE q == file[g].m_path
<1>0. q \in Paths /\ g \in Sessions(q) /\ m_files \in [Paths -> Inodes \cup {NoStub}]
  BY DEF OssInv, TypeOK, FSTypeOK, Sessions
<1> SUFFICES m_files'[q] # NoStub
  BY DEF exists
<1>1. m_files[q] # NoStub
  BY DEF exists
<1> HIDE DEF q
<1>2. ASSUME NEW p \in Paths, MayRelocate(p) PROVE p # q
  BY <1>0, <1>2 DEF MayRelocate
<1>3. ASSUME NEW from \in Paths, NEW to \in Paths, Rename(from, to)
      PROVE  m_files'[q] # NoStub
  BY <1>0, <1>1, <1>2, <1>3 DEF Rename, rename
<1>4. ASSUME NEW p \in Paths, Unlink(p) PROVE m_files'[q] # NoStub
  BY <1>0, <1>1, <1>2, <1>4 DEF Unlink, unlink
<1>5. ASSUME NEW p \in Paths, NEW size \in SeedSizes, Seed(p, size)
      PROVE  m_files'[q] # NoStub
  <2>1. CASE exists(p)
    BY <1>1, <1>5, <2>1 DEF Seed, seed
  <2>2. CASE ~exists(p)
    BY <1>0, <1>1, <1>5, <2>2 DEF Seed, seed, exists
  <2> QED
    BY <2>1, <2>2
<1>6. ASSUME NEW h \in Handles, Open(h) PROVE m_files'[q] # NoStub
  <2>1. PICK p \in Paths, fl \in OpenFlags : open(p, fl)
    BY <1>6 DEF Open, Open_refused, Open_open
  <2> QED
    BY <1>0, <1>1, <2>1, OpenKeepsFiles DEF OssInv, exists
<1>7. ASSUME NEW h \in Handles, AckWrite(h) \/ DoRead(h) \/ BeginClose(h) \/ Continue(h)
      PROVE  UNCHANGED m_files
  BY <1>7 DEF AckWrite, Write, WriteAio_done, DoRead, Read_error, Read, ReadV, BeginClose,
     Close_noStub, Close_begin, Continue, Open_getStub, Open_init, WriteAio_count,
     Close_setSize, Close_setStat, Close_record, Close_fsClose, setSize, setStat, close, fsvars
<1> QED
  BY <1>1, <1>3, <1>4, <1>5, <1>6, <1>7 DEF Next, Configured, vars, fsvars

\* Open files stay in the map, and Open() finds the stub it has opened.
LEMMA StubPresentNext ==
    ASSUME OssInv, SessionsSound, [Next]_vars, Relocation = "never", NEW g \in Handles
    PROVE  StubPresent(g)'
<1>0. /\ file \in [Handles -> File]
      /\ FSInv
      /\ TypeOK
      /\ StubPresent(g)
  BY DEF OssInv, TypeOK, SessionsSound
<1>1. CASE file'[g] = file[g]
  <2>1. InSession(g)' => exists(file[g].m_path)'
    BY <1>0, <1>1, InUseKept DEF StubPresent, InSession
  <2> QED
    BY <1>0, <1>1, <2>1 DEF StubPresent
<1>2. ASSUME NEW h \in Handles, h # g,
             Open(h) \/ AckWrite(h) \/ DoRead(h) \/ BeginClose(h) \/ Continue(h)
      PROVE  StubPresent(g)'
  BY <1>0, <1>1, <1>2, OthersUnchanged
<1>3. CASE Open(g)
  <2>1. PICK p \in Paths, fl \in OpenFlags : Open_refused(g, p, fl) \/ Open_open(g, p, fl)
    BY <1>3 DEF Open
  <2>2. CASE Open_refused(g, p, fl)
    <3>1. file'[g].pc = "idle"
      BY <1>0, <2>2 DEF Open_refused, File
    <3> QED
      BY <3>1 DEF StubPresent, InSession
  <2>3. CASE Open_open(g, p, fl)
    <3>1. file'[g].pc = "getStub" /\ file'[g].m_path = p
      BY <1>0, <2>3 DEF Open_open, File
    <3>2. exists(p)'
      BY <1>0, <2>3, OpenLeavesFile DEF Open_open
    <3> QED
      BY <3>1, <3>2 DEF StubPresent, exists
  <2> QED
    BY <2>1, <2>2, <2>3
<1>4. CASE AckWrite(g) \/ DoRead(g) \/ BeginClose(g) \/ Continue(g)
  <2>1. UNCHANGED m_files
    BY <1>4 DEF AckWrite, Write, WriteAio_done, DoRead, Read_error, Read, ReadV, BeginClose,
       Close_noStub, Close_begin, Continue, Open_getStub, Open_init, WriteAio_count,
       Close_setSize, Close_setStat, Close_record, Close_fsClose, setSize, setStat, close, fsvars
  <2>2. file'[g].m_path = file[g].m_path
    BY <1>0, <1>4 DEF AckWrite, Write, WriteAio_done, DoRead, Read_error, Read, ReadV,
       BeginClose, Close_noStub, Close_begin, Continue, Open_getStub, Open_init,
       WriteAio_count, Close_setSize, Close_setStat, Close_record, Close_fsClose, File
  <2>3. InSession(g)' => InSession(g)
    BY <1>0, <1>4 DEF AckWrite, Write, WriteAio_done, DoRead, Read_error, Read, ReadV,
       BeginClose, Close_noStub, Close_begin, Continue, Open_getStub, Open_init,
       WriteAio_count, Close_setSize, Close_setStat, Close_record, Close_fsClose, File,
       InSession
  <2>4. file'[g].pc \in {"init", "open"} => file'[g].m_stub # NoStub
    <3>1. CASE Open_getStub(g)
      <4>1. file'[g].m_stub = m_files[file[g].m_path]
        BY <1>0, <3>1 DEF Open_getStub, getStub, File
      <4> QED
        BY <1>0, <3>1, <4>1 DEF StubPresent, InSession, exists, Open_getStub
    <3>2. CASE ~Open_getStub(g)
      <4>1. file'[g].pc \in {"init", "open"} =>
              file[g].pc \in {"init", "open"} /\ file'[g].m_stub = file[g].m_stub
        BY <1>0, <1>4, <3>2 DEF AckWrite, Write, WriteAio_done, DoRead, Read_error, Read,
           ReadV, BeginClose, Close_noStub, Close_begin, Continue, Open_init,
           WriteAio_count, Close_setSize, Close_setStat, Close_record, Close_fsClose, File
      <4> QED
        BY <1>0, <4>1 DEF StubPresent
    <3> QED
      BY <3>1, <3>2
  <2> QED
    BY <1>0, <2>1, <2>2, <2>3, <2>4 DEF StubPresent, exists
<1>5. CASE UNCHANGED file
  BY <1>1, <1>5
<1> QED
  BY <1>2, <1>3, <1>4, <1>5 DEF Next, Seed, Configured, Rename, Unlink, vars

\* Open() clears the counters, each write is counted where it is acknowledged,
\* and Close() adds up the counters after the last of them.
LEMMA BytesAccountedNext ==
    ASSUME OssInv, AllAccounted, [Next]_vars, CountedBeforeClose, NEW g \in Handles
    PROVE  BytesAccounted(g)'
<1> USE FileAssumption
<1>0. /\ file \in [Handles -> File]
      /\ TypeOK
      /\ acked \in [Handles -> Nat]
      /\ BytesAccounted(g)
  BY DEF OssInv, TypeOK, AllAccounted
<1>1. CASE file'[g] = file[g] /\ acked'[g] = acked[g]
  BY <1>0, <1>1 DEF BytesAccounted, Acknowledged
<1>2. ASSUME NEW h \in Handles, h # g,
             Open(h) \/ AckWrite(h) \/ DoRead(h) \/ BeginClose(h) \/ Continue(h)
      PROVE  BytesAccounted(g)'
  <2>1. acked'[g] = acked[g]
    BY <1>0, <1>2 DEF Open, AckWrite, DoRead, BeginClose, Continue, history
  <2> QED
    BY <1>0, <1>1, <1>2, <2>1, OthersUnchanged
<1>3. CASE Open(g)
  <2>1. PICK p \in Paths, fl \in OpenFlags :
          \/ Open_refused(g, p, fl) /\ UNCHANGED acked
          \/ Open_open(g, p, fl) /\ acked' = [acked EXCEPT ![g] = 0]
    BY <1>3 DEF Open
  <2>2. CASE Open_refused(g, p, fl) /\ UNCHANGED acked
    <3>1. file'[g].pc = "idle" /\ file[g].pc = "idle" /\ file'[g].aio = file[g].aio
      BY <1>0, <2>2 DEF Open_refused, File
    <3> QED
      BY <1>0, <2>2, <3>1 DEF BytesAccounted, OpenPC, ClosePC
  <2>3. CASE Open_open(g, p, fl) /\ acked' = [acked EXCEPT ![g] = 0]
    <3>1. file'[g].pc = "getStub" /\ file[g].pc = "idle" /\ file'[g].aio = file[g].aio
      BY <1>0, <2>3 DEF Open_open, File
    <3>2. acked'[g] = 0
      BY <1>0, <2>3
    <3> QED
      BY <1>0, <3>1, <3>2 DEF BytesAccounted, OpenPC, ClosePC
  <2> QED
    BY <2>1, <2>2, <2>3
<1>4. CASE AckWrite(g)
  <2>1. PICK n \in WriteSizes : /\ Write(g, n) \/ WriteAio_done(g, n)
                                /\ acked' = [acked EXCEPT ![g] = @ + n]
    BY <1>4 DEF AckWrite
  <2>2. file[g].pc = "open" /\ file'[g].pc = "open"
    BY <1>0, <2>1 DEF Write, WriteAio_done, File
  <2>3. Acknowledged(g)' = Acknowledged(g) + n
    BY <1>0, <2>1 DEF Write, WriteAio_done, File, Acknowledged
  <2>4. acked'[g] = acked[g] + n
    BY <1>0, <2>1
  <2> QED
    BY <1>0, <2>2, <2>3, <2>4 DEF BytesAccounted, OpenPC, ClosePC
<1>5. CASE DoRead(g)
  <2>1. /\ file'[g].pc = file[g].pc
        /\ file'[g].aio = file[g].aio
        /\ file'[g].wb = file[g].wb
        /\ file'[g].m_writeBytes = file[g].m_writeBytes
        /\ file'[g].m_writeBytesAIO = file[g].m_writeBytesAIO
    BY <1>0, <1>5 DEF DoRead, Read_error, Read, ReadV, File
  <2>2. acked'[g] = acked[g]
    BY <1>5 DEF DoRead, history
  <2> QED
    BY <1>0, <2>1, <2>2 DEF BytesAccounted, Acknowledged
<1>6. CASE BeginClose(g)
  <2>1. acked'[g] = acked[g] /\ file[g].aio = 0 /\ file[g].pc = "open"
    BY <1>6 DEF BeginClose, MayClose, Close_noStub, Close_begin
  <2>2. CASE Close_noStub(g)
    <3>1. file'[g].pc = "idle" /\ file'[g].aio = file[g].aio
      BY <1>0, <2>2 DEF Close_noStub, File
    <3> QED
      BY <2>1, <3>1 DEF BytesAccounted, OpenPC, ClosePC
  <2>3. CASE Close_begin(g)
    <3>1. /\ file'[g].pc \in ClosePC
          /\ file'[g].aio = file[g].aio
          /\ file'[g].wb = file[g].m_writeBytes + file[g].m_writeBytesAIO
      BY <1>0, <2>3 DEF Close_begin, File, ClosePC
    <3>2. acked[g] = file[g].m_writeBytes + file[g].m_writeBytesAIO
      BY <1>0, <2>1 DEF BytesAccounted, Acknowledged, File
    <3> QED
      BY <2>1, <3>1, <3>2 DEF BytesAccounted, OpenPC, ClosePC
  <2> QED
    BY <1>6, <2>2, <2>3 DEF BeginClose
<1>7. CASE Continue(g)
  <2>0. acked'[g] = acked[g]
    BY <1>7 DEF Continue
  <2>1. CASE Open_getStub(g)
    <3>1. file[g].pc = "getStub" /\ file'[g].pc = "init" /\ file'[g].aio = file[g].aio
      BY <1>0, <2>1 DEF Open_getStub, File
    <3> QED
      BY <1>0, <2>0, <3>1 DEF BytesAccounted, OpenPC, ClosePC
  <2>2. CASE Open_init(g)
    <3>1. /\ file[g].pc = "init"
          /\ file'[g].pc = "open"
          /\ file'[g].aio = file[g].aio
          /\ file'[g].m_writeBytes = 0
          /\ file'[g].m_writeBytesAIO = 0
      BY <1>0, <2>2 DEF Open_init, File
    <3> QED
      BY <1>0, <2>0, <3>1 DEF BytesAccounted, Acknowledged, OpenPC, ClosePC
  <2>3. CASE WriteAio_count(g)
    <3>1. /\ file'[g].pc = file[g].pc
          /\ file'[g].aio = 0
          /\ file'[g].wb = file[g].wb
          /\ file'[g].m_writeBytes = file[g].m_writeBytes
          /\ file'[g].m_writeBytesAIO = file[g].m_writeBytesAIO + file[g].aio
      BY <1>0, <2>3 DEF WriteAio_count, File
    <3>2. Acknowledged(g)' = Acknowledged(g)
      BY <1>0, <3>1 DEF Acknowledged, File
    <3> QED
      BY <1>0, <2>0, <3>1, <3>2 DEF BytesAccounted
  <2>4. CASE Close_setSize(g) \/ Close_setStat(g) \/ Close_record(g) \/ Close_fsClose(g)
    <3>1. /\ file[g].pc \in ClosePC
          /\ file'[g].pc \in ClosePC \cup {"idle"}
          /\ file'[g].aio = file[g].aio
          /\ file'[g].wb = file[g].wb
      BY <1>0, <2>4 DEF Close_setSize, Close_setStat, Close_record, Close_fsClose, File, ClosePC
    <3> QED
      BY <1>0, <2>0, <3>1 DEF BytesAccounted, OpenPC, ClosePC
  <2> QED
    BY <1>7, <2>1, <2>2, <2>3, <2>4 DEF Continue
<1>8. CASE UNCHANGED <<file, acked>>
  BY <1>1, <1>8
<1> QED
  BY <1>2, <1>3, <1>4, <1>5, <1>6, <1>7, <1>8
     DEF Next, Seed, Configured, Rename, Unlink, vars, history

\* The total changes in Close_record alone, by what its client saw acknowledged.
LEMMA TotalBytesNext ==
    ASSUME BytesInv, [Next]_vars
    PROVE  AckedBytesRecorded'
<1>0. /\ stats \in Snapshot
      /\ ended \in [bytes : Nat, errors : Nat]
      /\ stats.total_bytes_written = ended.bytes
      /\ AllAccounted
  BY DEF BytesInv, OssInv, TypeOK, StatsTypeOK, AckedBytesRecorded
<1>1. ASSUME NEW h \in Handles, Close_record(h), EndSession(h, acked[h])
      PROVE  AckedBytesRecorded'
  <2>1. file[h].wb = acked[h]
    BY <1>0, <1>1 DEF AllAccounted, BytesAccounted, Close_record, ClosePC
  <2>2. stats'.total_bytes_written = stats.total_bytes_written + Transfer(h).bytes_written
    BY <1>0, <1>1 DEF Close_record, recordTransfer, Snapshot
  <2>3. ended'.bytes = ended.bytes + acked[h]
    BY <1>0, <1>1 DEF EndSession
  <2>4. Transfer(h).bytes_written = file[h].wb
    BY DEF Transfer
  <2> QED
    BY <1>0, <2>1, <2>2, <2>3, <2>4 DEF AckedBytesRecorded
<1>2. ASSUME NEW h \in Handles, Close_noStub(h), EndSession(h, 0)
      PROVE  AckedBytesRecorded'
  <2>1. stats' = stats /\ ended'.bytes = ended.bytes + 0
    BY <1>0, <1>2 DEF Close_noStub, EndSession
  <2>2. ended.bytes \in Nat
    BY <1>0
  <2> QED
    BY <1>0, <2>1, <2>2 DEF AckedBytesRecorded
<1>3. CASE UNCHANGED <<stats, ended>>
  BY <1>0, <1>3 DEF AckedBytesRecorded
<1>4. ASSUME NEW h \in Handles, Open(h) \/ AckWrite(h) \/ DoRead(h)
      PROVE  UNCHANGED <<stats, ended>>
  BY <1>4 DEF Open, Open_refused, Open_open, AckWrite, Write, WriteAio_done, DoRead,
     Read_error, Read, ReadV, history
<1>5. ASSUME NEW h \in Handles, BeginClose(h)
      PROVE  (Close_noStub(h) /\ EndSession(h, 0)) \/ UNCHANGED <<stats, ended>>
  BY <1>5 DEF BeginClose, Close_begin
<1>6. ASSUME NEW h \in Handles, Continue(h)
      PROVE  (Close_record(h) /\ EndSession(h, acked[h])) \/ UNCHANGED <<stats, ended>>
  BY <1>6 DEF Continue, Open_getStub, Open_init, WriteAio_count, Close_setSize,
     Close_setStat, Close_fsClose
<1> QED
  BY <1>1, <1>2, <1>3, <1>4, <1>5, <1>6
     DEF Next, Seed, Configured, Rename, Unlink, vars, history

\* The invariants hold at first.
LEMMA AccountInvInit == Init => AccountInv /\ BytesInv
<1> SUFFICES ASSUME Init PROVE AccountInv /\ BytesInv
  OBVIOUS
<1>1. SessionsSound
  BY DEF Init, FileInit, SessionsSound, StubPresent, BytesAccounted, InSession, OpenPC, ClosePC
<1>2. AckedBytesRecorded
  BY DEF Init, StatsInit, AckedBytesRecorded
<1>3. AllAccounted
  BY <1>1 DEF SessionsSound, AllAccounted
<1> QED
  BY <1>1, <1>2, <1>3, OssInvInit DEF AccountInv, BytesInv

\* Every step keeps the invariant where no open file is renamed or unlinked.
LEMMA AccountInvNext ==
    ASSUME Relocation = "never", CountedBeforeClose
    PROVE  AccountInv /\ [Next]_vars => AccountInv'
<1> SUFFICES ASSUME AccountInv, [Next]_vars PROVE AccountInv'
  OBVIOUS
<1>1. AllAccounted
  BY DEF AccountInv, SessionsSound, AllAccounted
<1>2. SessionsSound'
  BY <1>1, StubPresentNext, BytesAccountedNext DEF AccountInv, SessionsSound
<1> QED
  BY <1>2, OssInvNext DEF AccountInv

\* Every step keeps the accounts.
LEMMA BytesInvNext ==
    ASSUME CountedBeforeClose
    PROVE  BytesInv /\ [Next]_vars => BytesInv'
<1> SUFFICES ASSUME BytesInv, [Next]_vars PROVE BytesInv'
  OBVIOUS
<1>1. AllAccounted'
  BY BytesAccountedNext DEF BytesInv, AllAccounted
<1> QED
  BY <1>1, OssInvNext, TotalBytesNext DEF BytesInv

\* The total of bytes written is the sum of what the clients of all sessions
\* whose Close() did not fail had seen acknowledged (recordTransfer() in
\* Close()), whatever sessions overlap on a file and whatever is renamed or
\* unlinked while open, if every asynchronous write has returned before Close().
THEOREM BytesRecorded ==
    ASSUME CountedBeforeClose
    PROVE  Spec => []AckedBytesRecorded
<1>1. BytesInv => AckedBytesRecorded
  BY DEF BytesInv
<1>2. Init => BytesInv
  BY AccountInvInit
<1> QED
  BY <1>1, <1>2, BytesInvNext, PTL DEF Spec
=============================================================================
