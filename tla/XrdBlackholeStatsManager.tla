---------------------- MODULE XrdBlackholeStatsManager ----------------------
(***************************************************************************)
(* XrdBlackholeStatsManager under its lock: the threads that close files   *)
(* and the ones that ask for the totals, one step per access of a member.  *)
(* AtomicStats, where a transfer is recorded in one step, is what this     *)
(* module implements.                                                      *)
(*                                                                         *)
(* A throughput is a whole number of bytes per unit of time.  The log      *)
(* lines are left out.                                                     *)
(***************************************************************************)
EXTENDS Integers, Sequences, FiniteSets

CONSTANTS
    Threads,
    NoThread,       \* nobody holds m_mutex
    TransferStats,  \* the transfers that are recorded
    MaxTransfers    \* bound on how many are

ASSUME ManagerAssumption ==
    /\ NoThread \notin Threads
    /\ TransferStats \subseteq [bytes_written : Nat, bytes_read : Nat,
                                errors : Nat, duration_us : Int]
    /\ MaxTransfers \in Nat

VARIABLES
    members,    \* the manager's counters and sums
    m_mutex,    \* the thread that holds the lock
    thread,     \* where each thread is
    past,       \* history: the totals after each transfer, the last one under way
    since       \* history: thread -> how many totals were complete when it last asked

Fields == {"total_transfers", "total_bytes_written", "total_bytes_read", "total_errors",
           "sum_write_MiBs", "write_transfers", "sum_read_MiBs", "read_transfers"}

\* The order in which recordTransfer() updates the members ...
UpdatedAt == [total_transfers |-> 1, total_bytes_written |-> 2, total_bytes_read |-> 3,
              total_errors |-> 4, sum_write_MiBs |-> 5, write_transfers |-> 6,
              sum_read_MiBs |-> 7, read_transfers |-> 8]

\* ... and those in which getSnapshot() copies and logSummary() reads them.
CopiedAt == [total_transfers |-> 1, write_transfers |-> 2, read_transfers |-> 3,
             total_bytes_written |-> 4, total_bytes_read |-> 5, total_errors |-> 6,
             sum_write_MiBs |-> 7, sum_read_MiBs |-> 8]

LoggedAt == [write_transfers |-> 1, sum_write_MiBs |-> 2, read_transfers |-> 3,
             sum_read_MiBs |-> 4, total_transfers |-> 5, total_bytes_written |-> 6,
             total_bytes_read |-> 7, total_errors |-> 8]

Last == 8

Zero == [f \in Fields |-> 0]

throughput(bytes, duration_us) ==
    IF duration_us <= 0 \/ bytes <= 0 THEN 0 ELSE bytes \div duration_us

\* Mutant of Increment: the two transfer counts look at the same length.
Increment_crossed(s) ==
    [total_transfers     |-> 1,
     total_bytes_written |-> s.bytes_written,
     total_bytes_read    |-> s.bytes_read,
     total_errors        |-> s.errors,
     sum_write_MiBs      |-> throughput(s.bytes_written, s.duration_us),
     write_transfers     |-> IF s.bytes_written > 0 THEN 1 ELSE 0,
     sum_read_MiBs       |-> throughput(s.bytes_read, s.duration_us),
     read_transfers      |-> IF s.bytes_written > 0 THEN 1 ELSE 0]

\* What a transfer adds to each member.
Increment(s) ==
    [total_transfers     |-> 1,
     total_bytes_written |-> s.bytes_written,
     total_bytes_read    |-> s.bytes_read,
     total_errors        |-> s.errors,
     sum_write_MiBs      |-> throughput(s.bytes_written, s.duration_us),
     write_transfers     |-> IF s.bytes_written > 0 THEN 1 ELSE 0,
     sum_read_MiBs       |-> throughput(s.bytes_read, s.duration_us),
     read_transfers      |-> IF s.bytes_read > 0 THEN 1 ELSE 0]

\* A thread is idle, in recordTransfer() (op "record") or in a reader of the
\* totals (op "snapshot" or "summary"): waiting for the lock, at its k-th
\* access, about to unlock, or, with its copy of the totals, back from it.
Idle == [op |-> "none", pc |-> "idle", k |-> 1, inc |-> Zero, snap |-> Zero]

managervars == <<members, m_mutex, thread, past, since>>

ManagerInit ==
    /\ members = Zero
    /\ m_mutex = NoThread
    /\ thread = [t \in Threads |-> Idle]
    /\ past = <<Zero>>
    /\ since = [t \in Threads |-> 1]

\* How many of the totals are those of transfers completely recorded.
Complete ==
    IF m_mutex # NoThread /\ thread[m_mutex].op = "record"
    THEN Len(past) - 1 ELSE Len(past)

-----------------------------------------------------------------------------
\* The transfers not recorded yet.
Waiting == {t \in Threads : thread[t].op = "record" /\ thread[t].pc = "lock"}

\* The throughputs are computed before the lock is taken.
recordTransfer(t, s) ==
    /\ thread[t].pc = "idle"
    /\ Len(past) + Cardinality(Waiting) <= MaxTransfers
    /\ thread' = [thread EXCEPT ![t] = [Idle EXCEPT !.op = "record", !.pc = "lock",
                                                    !.inc = Increment(s)]]
    /\ UNCHANGED <<members, m_mutex, past, since>>

getSnapshot(t) ==
    /\ thread[t].pc = "idle"
    /\ thread' = [thread EXCEPT ![t] = [Idle EXCEPT !.op = "snapshot", !.pc = "lock"]]
    /\ since' = [since EXCEPT ![t] = Complete]
    /\ UNCHANGED <<members, m_mutex, past>>

logSummary(t) ==
    /\ thread[t].pc = "idle"
    /\ thread' = [thread EXCEPT ![t] = [Idle EXCEPT !.op = "summary", !.pc = "lock"]]
    /\ UNCHANGED <<members, m_mutex, past, since>>

Lock(t) ==
    /\ thread[t].pc = "lock"
    /\ m_mutex = NoThread
    /\ m_mutex' = t
    /\ thread' = [thread EXCEPT ![t].pc = "access"]
    /\ past' = IF thread[t].op = "record"
               THEN Append(past, [f \in Fields |-> past[Len(past)][f] + thread[t].inc[f]])
               ELSE past
    /\ UNCHANGED <<members, since>>

Advance(r) == [r EXCEPT !.k = @ + 1, !.pc = IF r.k = Last THEN "unlock" ELSE "access"]

Update(t) ==
    /\ thread[t].pc = "access"
    /\ thread[t].op = "record"
    /\ members' = [f \in Fields |-> IF UpdatedAt[f] = thread[t].k
                                    THEN members[f] + thread[t].inc[f] ELSE members[f]]
    /\ thread' = [thread EXCEPT ![t] = Advance(@)]
    /\ UNCHANGED <<m_mutex, past, since>>

ReadAt(op) == IF op = "summary" THEN LoggedAt ELSE CopiedAt

Copy(t) ==
    LET snap == [f \in Fields |-> IF ReadAt(thread[t].op)[f] = thread[t].k
                                  THEN members[f] ELSE thread[t].snap[f]]
    IN  /\ thread[t].pc = "access"
        /\ thread[t].op # "record"
        /\ thread' = [thread EXCEPT ![t] = [Advance(@) EXCEPT !.snap = snap]]
        /\ UNCHANGED <<members, m_mutex, past, since>>

Unlock(t) ==
    /\ thread[t].pc = "unlock"
    /\ m_mutex' = NoThread
    /\ thread' = [thread EXCEPT ![t] = IF thread[t].op = "record"
                                       THEN Idle ELSE [@ EXCEPT !.pc = "back"]]
    /\ UNCHANGED <<members, past, since>>

-----------------------------------------------------------------------------
\* The totals with the transfer under way, if there is one, completely recorded.
Settled ==
    [f \in Fields |->
        IF /\ m_mutex # NoThread
           /\ thread[m_mutex].op = "record"
           /\ thread[m_mutex].k <= UpdatedAt[f]
        THEN members[f] + thread[m_mutex].inc[f]
        ELSE members[f]]

Atomic == INSTANCE AtomicStats WITH
    stats <- [total_transfers     |-> Settled["total_transfers"],
              write_transfers     |-> Settled["write_transfers"],
              read_transfers      |-> Settled["read_transfers"],
              total_bytes_written |-> Settled["total_bytes_written"],
              total_bytes_read    |-> Settled["total_bytes_read"],
              total_errors        |-> Settled["total_errors"]]

\* recordTransfer(), one member at a time, implements the one-step update: from
\* the moment it has the lock its transfer counts as recorded, and no other
\* thread's updates are lost, repeated or mixed with its own.
RecordsAtomically == Atomic!StatsSpec
=============================================================================
