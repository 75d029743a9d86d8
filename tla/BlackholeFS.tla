---------------------------- MODULE BlackholeFS ----------------------------
(***************************************************************************)
(* The in-memory namespace of XrdBlackhole (BlackholeFS.hh, BlackholeFS.cc).*)
(* Every method holds m_mutexFD from its first to its last access of the   *)
(* map, so each one is a single action here.                               *)
(*                                                                         *)
(* A Stub is identified by its st_ino, the value ++m_fd_last had when it   *)
(* was created; 0 stands for the null shared_ptr.  Stubs that have left    *)
(* the map stay in the heap: a file handle may still hold them.            *)
(* Stub members that no code under src/ reads back (m_flags, m_mode,       *)
(* m_special, m_checksums) and the fill pattern m_readtype are left out.   *)
(***************************************************************************)
EXTENDS Integers

CONSTANTS
    Paths,      \* the file names clients use
    FileSizes,  \* the sizes a stub can be given
    MaxFd,      \* bound on m_fd_last: how many opens and seeds a run makes
    IntMax,     \* INT_MAX, the largest value open() can return
    OffMax      \* the largest off_t; an unsigned long long goes up to 2 * OffMax + 1

ASSUME FSAssumption ==
    /\ OffMax \in Nat
    /\ FileSizes \subseteq Nat
    /\ \A n \in FileSizes : n <= 2 * OffMax + 1
    /\ 0 \in FileSizes
    /\ MaxFd \in Nat
    /\ IntMax \in Nat

VARIABLES
    m_files,    \* path -> stub, NoStub where the map has no entry
    stub,       \* the heap of Stub objects
    m_fd_last   \* the last fd (and inode number) handed out

fsvars == <<m_files, stub, m_fd_last>>

NoStub == 0
Inodes == 1..MaxFd

\* errno values
ENOENT == 2
EEXIST == 17

\* The part of open()'s flags argument the code looks at.
OpenFlags == [write : BOOLEAN, excl : BOOLEAN, trunc : BOOLEAN]

\* m_size is unsigned, st_size an off_t.
Off_t == -(OffMax + 1) .. OffMax

Stub == [m_isOpenWrite : BOOLEAN, m_size : FileSizes, st_size : Off_t]

\* What make_shared<Stub>() value-initialises.
BlankStub == [m_isOpenWrite |-> FALSE, m_size |-> 0, st_size |-> 0]

FSInit ==
    /\ m_files = [p \in Paths |-> NoStub]
    /\ stub = [i \in Inodes |-> BlankStub]
    /\ m_fd_last = 0

-----------------------------------------------------------------------------
exists(p) == m_files[p] # NoStub

getStub(p) == m_files[p]

\* ++m_fd_last, up to the bound of the run.
NextFd ==
    /\ m_fd_last < MaxFd
    /\ m_fd_last' = m_fd_last + 1

\* open() returns the unsigned 64-bit counter as an int: two's complement
\* with IntMax + 1 negative values.
toInt(n) ==
    LET r == n % (2 * (IntMax + 1))
    IN  IF r > IntMax THEN r - 2 * (IntMax + 1) ELSE r

\* open() has nothing to open, or O_EXCL finds the file.
openFails(p, fl) ==
    \/ ~fl.write /\ ~exists(p)
    \/ fl.write /\ exists(p) /\ fl.excl

\* The value open() returns.
openRC(p, fl) ==
    IF openFails(p, fl)
    THEN IF fl.write THEN -EEXIST ELSE -ENOENT
    ELSE toInt(m_fd_last + 1)

openError(p, fl) ==
    /\ openFails(p, fl)
    /\ UNCHANGED fsvars

\* Mutant of openRdonly: a read-only open marks the stub as well.
openRdonly_marks(p, fl) ==
    /\ ~fl.write
    /\ exists(p)
    /\ NextFd
    /\ stub' = [stub EXCEPT ![m_files[p]].m_isOpenWrite = TRUE]
    /\ UNCHANGED m_files

openRdonly(p, fl) ==
    /\ ~fl.write
    /\ exists(p)
    /\ NextFd
    /\ UNCHANGED <<m_files, stub>>

\* Mutant of openReuse: the reused stub is not marked open for writing.
openReuse_unmarked(p, fl) ==
    /\ fl.write
    /\ exists(p)
    /\ ~fl.excl
    /\ ~fl.trunc
    /\ NextFd
    /\ UNCHANGED <<m_files, stub>>

\* Write open of an existing file without O_TRUNC: the stub is reused.
openReuse(p, fl) ==
    /\ fl.write
    /\ exists(p)
    /\ ~fl.excl
    /\ ~fl.trunc
    /\ NextFd
    /\ stub' = [stub EXCEPT ![m_files[p]].m_isOpenWrite = TRUE]
    /\ UNCHANGED m_files

\* Mutant of openFresh: the stub gets the counter's value before the increment.
openFresh_postIncrement(p, fl) ==
    /\ fl.write
    /\ exists(p) => ~fl.excl /\ fl.trunc
    /\ NextFd
    /\ m_files' = [m_files EXCEPT ![p] = m_fd_last]
    /\ stub' = [stub EXCEPT ![m_fd_last] = [BlankStub EXCEPT !.m_isOpenWrite = TRUE]]

\* A new stub: the file did not exist, or O_TRUNC discards the one it had.
openFresh(p, fl) ==
    /\ fl.write
    /\ exists(p) => ~fl.excl /\ fl.trunc
    /\ NextFd
    /\ m_files' = [m_files EXCEPT ![p] = m_fd_last']
    /\ stub' = [stub EXCEPT ![m_fd_last'] =
                    [BlankStub EXCEPT !.m_isOpenWrite = TRUE]]

open(p, fl) ==
    \/ openError(p, fl)
    \/ openRdonly(p, fl)
    \/ openReuse(p, fl)
    \/ openFresh(p, fl)

\* close() goes by name: it clears the flag of whatever stub p names now.
close(p) ==
    /\ stub' = IF exists(p)
               THEN [stub EXCEPT ![m_files[p]].m_isOpenWrite = FALSE]
               ELSE stub
    /\ UNCHANGED <<m_files, m_fd_last>>

\* A missing file makes no difference to the map (the caller gets -ENOENT).
unlink(p) ==
    /\ m_files' = [m_files EXCEPT ![p] = NoStub]
    /\ UNCHANGED <<stub, m_fd_last>>

\* Mutant of rename: the source entry is not erased.
rename_keepsSource(from, to) ==
    /\ m_files' = IF exists(from) THEN [m_files EXCEPT ![to] = m_files[from]] ELSE m_files
    /\ UNCHANGED <<stub, m_fd_last>>

\* Without a source nothing happens (-ENOENT).  Otherwise the destination is
\* replaced, and a self-rename keeps its entry.
rename(from, to) ==
    /\ m_files' = IF exists(from)
                  THEN [[m_files EXCEPT ![from] = NoStub] EXCEPT ![to] = m_files[from]]
                  ELSE m_files
    /\ UNCHANGED <<stub, m_fd_last>>

\* static_cast<off_t> of an unsigned long long: two's complement.
toOff(n) == IF n > OffMax THEN n - 2 * (OffMax + 1) ELSE n

\* map::insert keeps an entry that is already there; the inode is spent.
seed(p, size) ==
    /\ NextFd
    /\ IF exists(p)
       THEN UNCHANGED <<m_files, stub>>
       ELSE /\ m_files' = [m_files EXCEPT ![p] = m_fd_last']
            /\ stub' = [stub EXCEPT ![m_fd_last'] =
                            [BlankStub EXCEPT !.m_size = size, !.st_size = toOff(size)]]

\* Mutant of setSize: the last byte is not counted.
setSize_offByOne(i, n) ==
    /\ stub' = [stub EXCEPT ![i].m_size = n - 1]
    /\ UNCHANGED <<m_files, m_fd_last>>

\* The two writes a closing handle makes through its shared_ptr, outside the lock.
setSize(i, n) ==
    /\ stub' = [stub EXCEPT ![i].m_size = n]
    /\ UNCHANGED <<m_files, m_fd_last>>

setStat(i, n) ==
    /\ stub' = [stub EXCEPT ![i].st_size = n]
    /\ UNCHANGED <<m_files, m_fd_last>>

FSNext ==
    \/ \E p \in Paths, fl \in OpenFlags : open(p, fl)
    \/ \E p \in Paths : close(p) \/ unlink(p)
    \/ \E from, to \in Paths : rename(from, to)
    \/ \E p \in Paths, n \in FileSizes : seed(p, n)
    \/ \E i \in Inodes, n \in FileSizes :
          i <= m_fd_last /\ (setSize(i, n) \/ setStat(i, toOff(n)))

FSSpec == FSInit /\ [][FSNext]_fsvars

-----------------------------------------------------------------------------
FSTypeOK ==
    /\ m_files \in [Paths -> Inodes \cup {NoStub}]
    /\ stub \in [Inodes -> Stub]
    /\ m_fd_last \in 0..MaxFd

\* No two paths share a stub: rename() moves an entry, it never links one, and
\* no operation reuses the inode number of a stub that is in the map.
NoAlias ==
    \A p, q \in Paths : exists(p) /\ m_files[p] = m_files[q] => p = q

\* An inode number that has been handed out and names no file never names one
\* again: what unlink(), O_TRUNC or a replacing rename() removed stays removed,
\* and a new file never gets an old file's identity.
NoResurrection ==
    [][\A i \in 1..m_fd_last :
          (\A p \in Paths : m_files[p] # i) => (\A p \in Paths : m_files'[p] # i)]_fsvars

=============================================================================
