-------------------------- MODULE XrdBlackholeOss --------------------------
(***************************************************************************)
(* The whole plug-in: XrdBlackholeOss hands out file handles and serves    *)
(* Rename and Unlink, all over one BlackholeFS and one stats manager, with *)
(* XRootD's threads interleaving freely.  The files a configuration seeds  *)
(* are made before the first request is served.                            *)
(*                                                                         *)
(* What clients and XRootD may do is a parameter: Sharing, Relocation and  *)
(* CountedBeforeClose.  The history variables at the end are observers:    *)
(* no action of the program reads them.                                    *)
(***************************************************************************)
EXTENDS XrdBlackholeOssFile

CONSTANTS
    SeedSizes,          \* the sizes of preseeded files
    Sharing,            \* which sessions may overlap on one path, see MayOpen
    Relocation,         \* when Rename and Unlink may hit a path in use, see MayRelocate
    CountedBeforeClose  \* has every asynchronous write returned when Close is called?

ASSUME OssAssumption ==
    /\ SeedSizes \subseteq FileSizes
    /\ Sharing \in {"exclusive", "readers", "any"}
    /\ Relocation \in {"never", "established", "always"}
    /\ CountedBeforeClose \in BOOLEAN

VARIABLES
    serving,    \* Configure() is over
    acked,      \* handle -> bytes acknowledged to its client in this session
    written,    \* stub -> bytes of the last write session on it that has ended
    ended       \* totals over the sessions that have ended, see EndSession

history == <<acked, written, ended>>
vars == <<fsvars, stats, file, serving, history>>

Init ==
    /\ FSInit
    /\ StatsInit
    /\ FileInit
    /\ serving = FALSE
    /\ acked = [h \in Handles |-> 0]
    /\ written = [i \in Inodes |-> 0]
    /\ ended = [bytes |-> 0, errors |-> 0]

-----------------------------------------------------------------------------
(* What the environment may ask for. *)

InSession(h) == file[h].pc # "idle"

\* The sessions on p: the handles that were opened under that name.
Sessions(p) == {h \in Handles : InSession(h) /\ file[h].m_path = p}

\* exclusive: a session that writes has the path to itself.
\* readers:   at most one session on the path writes, any number read.
\* any:       no restriction.
MayOpen(p, fl) ==
    \A h \in Sessions(p) :
        CASE Sharing = "exclusive" -> ~fl.write /\ ~file[h].was_write
          [] Sharing = "readers"   -> ~(fl.write /\ file[h].was_write)
          [] Sharing = "any"       -> TRUE

\* never:       only a path without sessions is renamed, replaced or unlinked.
\* established: also one with sessions, once their Open() has found the stub.
\* always:      no restriction.
MayRelocate(p) ==
    \A h \in Sessions(p) :
        CASE Relocation = "never"       -> FALSE
          [] Relocation = "established" -> file[h].pc # "getStub"
          [] Relocation = "always"      -> TRUE

\* XRootD passes a write only to a handle that was opened for writing.
MayWrite(h) == file[h].was_write

MayClose(h) == CountedBeforeClose => file[h].aio = 0

-----------------------------------------------------------------------------
(* Configure(): oss.blackhole defaultspath and seedfile, then service. *)

Seed(p, size) ==
    /\ ~serving
    /\ seed(p, size)
    /\ written' = IF exists(p) THEN written ELSE [written EXCEPT ![m_fd_last'] = size]
    /\ UNCHANGED <<stats, file, serving, acked, ended>>

Configured ==
    /\ ~serving
    /\ serving' = TRUE
    /\ UNCHANGED <<fsvars, stats, file, history>>

-----------------------------------------------------------------------------
(* The namespace requests. *)

Rename(from, to) ==
    /\ serving
    /\ MayRelocate(from)
    /\ MayRelocate(to)
    /\ rename(from, to)
    /\ UNCHANGED <<stats, file, serving, history>>

Unlink(p) ==
    /\ serving
    /\ MayRelocate(p)
    /\ unlink(p)
    /\ UNCHANGED <<stats, file, serving, history>>

\* What Stat reports: the size, or -ENOENT.
Stat(p) == IF exists(p) THEN stub[getStub(p)].st_size ELSE -ENOENT

-----------------------------------------------------------------------------
(* The file requests, with the history of what their callers were told. *)

\* What Fstat reports: the size in the stub as it is by now, or -ENOENT.
Fstat(h) == IF file[h].m_stub = NoStub THEN -ENOENT ELSE stub[file[h].m_stub].st_size

Open(h) ==
    \E p \in Paths, fl \in OpenFlags :
        /\ serving
        /\ MayOpen(p, fl)
        /\ \/ Open_refused(h, p, fl) /\ UNCHANGED acked
           \/ Open_open(h, p, fl) /\ acked' = [acked EXCEPT ![h] = 0]
        /\ UNCHANGED <<serving, written, ended>>

AckWrite(h) ==
    \E n \in WriteSizes :
        /\ MayWrite(h)
        /\ Write(h, n) \/ WriteAio_done(h, n)
        /\ acked' = [acked EXCEPT ![h] = @ + n]
        /\ UNCHANGED <<serving, written, ended>>

DoRead(h) ==
    /\ \/ Read_error(h)
       \/ \E offset \in Offsets, blen \in Lengths : Read(h, offset, blen)
       \/ \E off1, off2 \in Offsets, len1, len2 \in Lengths :
             ReadV(h, off1, len1, off2, len2)
    /\ UNCHANGED <<serving, history>>

\* The session of h is over: bytes is what its client saw acknowledged and whose
\* Close() did not fail, errors the calls that failed in it.
EndSession(h, bytes) ==
    ended' = [ended EXCEPT !.bytes = @ + bytes,
                           !.errors = @ + file[h].m_errors]

BeginClose(h) ==
    /\ MayClose(h)
    /\ \/ Close_noStub(h) /\ EndSession(h, 0)
       \/ Close_begin(h) /\ UNCHANGED ended
    /\ UNCHANGED <<serving, acked, written>>

\* A call under way goes on.
Continue(h) ==
    /\ \/ /\ \/ Open_getStub(h) \/ Open_init(h) \/ WriteAio_count(h)
             \/ Close_setSize(h) \/ Close_setStat(h)
          /\ UNCHANGED <<written, ended>>
       \/ /\ Close_record(h)
          /\ EndSession(h, acked[h])
          /\ UNCHANGED written
       \/ /\ Close_fsClose(h)
          /\ written' = IF file[h].was_write
                        THEN [written EXCEPT ![file[h].m_stub] = acked[h]]
                        ELSE written
          /\ UNCHANGED ended
    /\ UNCHANGED <<serving, acked>>

Next ==
    \/ \E p \in Paths, size \in SeedSizes : Seed(p, size)
    \/ Configured
    \/ \E from, to \in Paths : Rename(from, to)
    \/ \E p \in Paths : Unlink(p)
    \/ \E h \in Handles :
          Open(h) \/ AckWrite(h) \/ DoRead(h) \/ BeginClose(h) \/ Continue(h)

Spec == Init /\ [][Next]_vars

-----------------------------------------------------------------------------
TypeOK ==
    /\ FSTypeOK
    /\ StatsTypeOK
    /\ file \in [Handles -> File]
    /\ serving \in BOOLEAN
    /\ acked \in [Handles -> Nat]
    /\ written \in [Inodes -> Nat]
    /\ ended \in [bytes : Nat, errors : Nat]
    /\ \A h \in Handles : /\ Acknowledged(h) <= MaxBytes
                          /\ InSession(h) => file[h].m_path \in Paths

\* No session runs on the file p names, under this name or through the stub.
AtRest(p) ==
    /\ exists(p)
    /\ \A h \in Handles :
          InSession(h) => file[h].m_path # p /\ file[h].m_stub # m_files[p]

\* A file at rest has, for Stat and for the next reader alike, the size of the
\* last write session on it (its seeded size if there was none): Close() has
\* published exactly the bytes its client saw acknowledged, and no later
\* reader, failed open or rename has changed that.
SizeReadBack ==
    \A p \in Paths : AtRest(p) =>
        /\ stub[m_files[p]].m_size = written[m_files[p]]
        /\ Stat(p) = written[m_files[p]]

\* A reader's cached size, fixed in Open(), is the file's size for as long as
\* the session lasts: no concurrent Close() can make it stale.
ReaderSizeCurrent ==
    \A h \in Handles :
        file[h].pc = "open" /\ ~file[h].was_write =>
            /\ file[h].m_stub = m_files[file[h].m_path]
            /\ file[h].m_size = written[file[h].m_stub]

\* Fstat, which goes to the shared stub, and reads, which go by the size cached
\* in Open(), tell a reader the same length at every moment of its session.
FstatMatchesReads ==
    \A h \in Handles :
        file[h].pc = "open" /\ ~file[h].was_write => Fstat(h) = file[h].m_size

\* m_isOpenWrite is set on a file exactly while a session writes it, so that
\* Close() takes the writer's branch in a writer and only there.
WriteFlagExact ==
    \A p \in Paths : exists(p) =>
        (stub[m_files[p]].m_isOpenWrite <=> \E h \in Sessions(p) : file[h].was_write)

\* Every byte acknowledged in a session whose Close() did not fail is in the
\* total of bytes written: none is lost between the acknowledgement, the two
\* counters and Close(), and none is counted twice.
AckedBytesRecorded == stats.total_bytes_written = ended.bytes

\* What blackhole_errors_total is said to be, the errors of all transfers: the
\* total has every failed call of every session that has ended.
ErrorsReported == stats.total_errors = ended.errors

-----------------------------------------------------------------------------
(* What a client sees of all this. *)

\* A file that some session writes is busy; any other has the size Stat reports.
ShownSize(p) ==
    IF ~exists(p) THEN -1
    ELSE IF \E h \in Sessions(p) : file[h].was_write THEN -2
    ELSE Stat(p)

\* Until Open() has reset them the counters are those of the last session, and
\* the size to come is the one in the stub the path names.
ShownSession(h) ==
    LET opening == file[h].pc \in OpenPC
    IN  IF ~InSession(h)
        THEN [open |-> FALSE, path |-> NoPath, write |-> FALSE,
              size |-> 0, bytes |-> 0, got |-> 0]
        ELSE [open  |-> TRUE,
              path  |-> file[h].m_path,
              write |-> file[h].was_write,
              size  |-> IF opening THEN stub[getStub(file[h].m_path)].m_size
                        ELSE file[h].m_size,
              bytes |-> IF opening THEN 0 ELSE Acknowledged(h),
              got   |-> IF opening THEN 0 ELSE file[h].m_readBytes]

Store == INSTANCE FileStore WITH
    store   <- [p \in Paths |-> ShownSize(p)],
    session <- [h \in Handles |-> ShownSession(h)]

\* To clients whose writing sessions have their path to themselves the plug-in
\* is a plain store of files: a Close() gives the file the size its client was
\* told in one step, whatever stages it goes through, a reader is clipped to
\* the size the file had at its Open(), and nothing else changes a size.
ImplementsFileStore == Store!StoreSpec
=============================================================================
