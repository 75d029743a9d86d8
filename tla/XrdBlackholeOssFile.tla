------------------------ MODULE XrdBlackholeOssFile ------------------------
(***************************************************************************)
(* The file handles of XrdBlackhole (XrdBlackholeOssFile.hh and .cc) over  *)
(* the shared namespace g_blackholeFS and the shared g_statsManager.       *)
(*                                                                         *)
(* Open() and Close() each take and release a lock several times and touch *)
(* the stub in between without one: each is split into one action per      *)
(* access of shared state, and pc says where in the call the handle is.    *)
(* A handle is "idle" outside a session and "open" between Open and Close. *)
(***************************************************************************)
EXTENDS BlackholeFS, XrdBlackholeStats

CONSTANTS
    Handles,    \* XrdBlackholeOssFile objects
    WriteSizes, \* the lengths of write requests
    Offsets,    \* the offsets of read requests
    Lengths,    \* the lengths of read requests
    MaxBytes,   \* bound on what one session writes, and on what it reads
    MaxErrors   \* bound on a handle's error count

ASSUME FileAssumption ==
    /\ WriteSizes \subseteq Nat \ {0}
    /\ Offsets \subseteq Int
    /\ Lengths \subseteq Nat
    /\ MaxBytes \in Nat
    /\ MaxErrors \in Nat
    /\ 0..MaxBytes \subseteq FileSizes
    /\ MaxBytes <= OffMax

VARIABLE file   \* the members of each handle

NoPath == ""

OpenPC  == {"getStub", "init"}
ClosePC == {"setSize", "setStat", "record", "fsClose"}
PC      == {"idle", "open"} \cup OpenPC \cup ClosePC

\* The members of a handle that matter here.  was_write stands for the flags
\* argument of Open() and the m_stats.was_write made of it, wb for Close()'s
\* local of that name, and aio for the bytes of an asynchronous write that has
\* been acknowledged but not yet counted.
File == [pc              : PC,
         m_path          : Paths \cup {NoPath},
         m_stub          : Inodes \cup {NoStub},
         m_size          : FileSizes,
         m_writeBytes    : 0..MaxBytes,
         m_writeBytesAIO : 0..MaxBytes,
         m_readBytes     : 0..MaxBytes,
         m_errors        : 0..MaxErrors,
         was_write       : BOOLEAN,
         wb              : 0..MaxBytes,
         aio             : 0..MaxBytes]

FileInit ==
    file = [h \in Handles |->
               [pc |-> "idle", m_path |-> NoPath, m_stub |-> NoStub, m_size |-> 0,
                m_writeBytes |-> 0, m_writeBytesAIO |-> 0, m_readBytes |-> 0,
                m_errors |-> 0, was_write |-> FALSE, wb |-> 0, aio |-> 0]]

-----------------------------------------------------------------------------
(* Open() *)

\* g_blackholeFS.open() refuses, or returns a number that, as an int, is
\* negative: Open() returns it and the handle keeps only the path.
Open_refused(h, p, fl) ==
    /\ file[h].pc = "idle"
    /\ open(p, fl)
    /\ openRC(p, fl) < 0
    /\ file' = [file EXCEPT ![h].m_path = p]
    /\ UNCHANGED stats

Open_open(h, p, fl) ==
    /\ file[h].pc = "idle"
    /\ open(p, fl)
    /\ openRC(p, fl) >= 0
    /\ file' = [file EXCEPT ![h].pc = "getStub", ![h].m_path = p,
                            ![h].was_write = fl.write]
    /\ UNCHANGED stats

\* A second, separate look-up: what the path names by now, if anything.
Open_getStub(h) ==
    /\ file[h].pc = "getStub"
    /\ file' = [file EXCEPT ![h].pc = "init", ![h].m_stub = getStub(file[h].m_path)]
    /\ UNCHANGED <<fsvars, stats>>

\* Mutant of Open_init: the size cached by an earlier session is kept.
Open_init_staleSize(h) ==
    /\ file[h].pc = "init"
    /\ file' = [file EXCEPT
                  ![h].pc = "open",
                  ![h].m_writeBytes = 0, ![h].m_writeBytesAIO = 0,
                  ![h].m_readBytes = 0, ![h].m_errors = 0]
    /\ UNCHANGED <<fsvars, stats>>

Open_init(h) ==
    /\ file[h].pc = "init"
    /\ file' = [file EXCEPT
                  ![h].pc = "open",
                  ![h].m_size = IF file[h].m_stub = NoStub THEN 0
                                ELSE stub[file[h].m_stub].m_size,
                  ![h].m_writeBytes = 0, ![h].m_writeBytesAIO = 0,
                  ![h].m_readBytes = 0, ![h].m_errors = 0]
    /\ UNCHANGED <<fsvars, stats>>

-----------------------------------------------------------------------------
(* I/O on an open handle *)

\* The bytes this session has been told are written.
Acknowledged(h) == file[h].m_writeBytes + file[h].m_writeBytesAIO + file[h].aio

Write(h, n) ==
    /\ file[h].pc = "open"
    /\ Acknowledged(h) + n <= MaxBytes
    /\ file' = [file EXCEPT ![h].m_writeBytes = @ + n]
    /\ UNCHANGED <<fsvars, stats>>

\* Write(XrdSfsAio*) calls doneWrite() first ...
WriteAio_done(h, n) ==
    /\ file[h].pc = "open"
    /\ file[h].aio = 0
    /\ Acknowledged(h) + n <= MaxBytes
    /\ file' = [file EXCEPT ![h].aio = n]
    /\ UNCHANGED <<fsvars, stats>>

\* Mutant of WriteAio_count: the same request is counted again and again.
WriteAio_count_repeats(h) ==
    /\ file[h].aio > 0
    /\ file' = [file EXCEPT ![h].m_writeBytesAIO = @ + file[h].aio]
    /\ UNCHANGED <<fsvars, stats>>

\* ... and counts the bytes afterwards, wherever the handle has got to.
WriteAio_count(h) ==
    /\ file[h].aio > 0
    /\ file' = [file EXCEPT ![h].m_writeBytesAIO = @ + file[h].aio, ![h].aio = 0]
    /\ UNCHANGED <<fsvars, stats>>

\* The number of bytes ReadInner() fills.
ReadInner(h, offset, blen) ==
    LET left == file[h].m_size - offset
    IN  IF offset < 0 \/ left <= 0 THEN 0 ELSE IF blen < left THEN blen ELSE left

\* Any of the read calls on a handle without a stub: -EINVAL.
Read_error(h) ==
    /\ file[h].pc \in {"idle", "open"}
    /\ file[h].m_stub = NoStub
    /\ file[h].m_errors < MaxErrors
    /\ file' = [file EXCEPT ![h].m_errors = @ + 1]
    /\ UNCHANGED <<fsvars, stats>>

\* Read(), ReadRaw() and the asynchronous Read(), which is served in the call.
Read(h, offset, blen) ==
    LET n == ReadInner(h, offset, blen)
    IN  /\ file[h].pc = "open"
        /\ file[h].m_stub # NoStub
        /\ file[h].m_readBytes + n <= MaxBytes
        /\ file' = [file EXCEPT ![h].m_readBytes = @ + n]
        /\ UNCHANGED <<fsvars, stats>>

\* ReadV() of two segments, totalled before they are counted.
ReadV(h, off1, len1, off2, len2) ==
    LET total == ReadInner(h, off1, len1) + ReadInner(h, off2, len2)
    IN  /\ file[h].pc = "open"
        /\ file[h].m_stub # NoStub
        /\ file[h].m_readBytes + total <= MaxBytes
        /\ file' = [file EXCEPT ![h].m_readBytes = @ + total]
        /\ UNCHANGED <<fsvars, stats>>

-----------------------------------------------------------------------------
(* Close() *)

\* Without a stub: -ENOENT, and nothing is recorded.
Close_noStub(h) ==
    /\ file[h].pc = "open"
    /\ file[h].m_stub = NoStub
    /\ file' = [file EXCEPT ![h].pc = "idle"]
    /\ UNCHANGED <<fsvars, stats>>

\* Mutant of Close_begin: only the synchronous writes make up the size.
Close_begin_syncOnly(h) ==
    /\ file[h].pc = "open"
    /\ file[h].m_stub # NoStub
    /\ file' = [file EXCEPT
                  ![h].pc = IF stub[file[h].m_stub].m_isOpenWrite
                            THEN "setSize" ELSE "record",
                  ![h].wb = file[h].m_writeBytes]
    /\ UNCHANGED <<fsvars, stats>>

\* The counters are added up and m_isOpenWrite is read, without the lock.
Close_begin(h) ==
    LET n == file[h].m_writeBytes + file[h].m_writeBytesAIO
    IN  /\ file[h].pc = "open"
        /\ file[h].m_stub # NoStub
        /\ file' = [file EXCEPT
                      ![h].pc = IF stub[file[h].m_stub].m_isOpenWrite
                                THEN "setSize" ELSE "record",
                      ![h].wb = n]
        /\ UNCHANGED <<fsvars, stats>>

Close_setSize(h) ==
    /\ file[h].pc = "setSize"
    /\ setSize(file[h].m_stub, file[h].wb)
    /\ file' = [file EXCEPT ![h].pc = "setStat"]
    /\ UNCHANGED stats

\* Mutant of Close_setStat: only one of the two sizes is updated.
Close_setStat_skipped(h) ==
    /\ file[h].pc = "setStat"
    /\ file' = [file EXCEPT ![h].pc = "record"]
    /\ UNCHANGED <<fsvars, stats>>

Close_setStat(h) ==
    /\ file[h].pc = "setStat"
    /\ setStat(file[h].m_stub, file[h].wb)
    /\ file' = [file EXCEPT ![h].pc = "record"]
    /\ UNCHANGED stats

\* Mutant of Transfer: the asynchronous writes are left out of the statistics.
Transfer_syncOnly(h) == [bytes_written |-> file[h].m_writeBytes,
                         bytes_read    |-> file[h].m_readBytes,
                         errors        |-> file[h].m_errors]

\* The m_stats submitted to g_statsManager.
Transfer(h) == [bytes_written |-> file[h].wb,
                bytes_read    |-> file[h].m_readBytes,
                errors        |-> file[h].m_errors]

Close_record(h) ==
    /\ file[h].pc = "record"
    /\ recordTransfer(Transfer(h))
    /\ file' = [file EXCEPT ![h].pc = "fsClose"]
    /\ UNCHANGED fsvars

\* g_blackholeFS.close() goes by the path Open() was given.
Close_fsClose(h) ==
    /\ file[h].pc = "fsClose"
    /\ close(file[h].m_path)
    /\ file' = [file EXCEPT ![h].pc = "idle", ![h].m_stub = NoStub]
    /\ UNCHANGED stats
=============================================================================
