------------------------ MODULE XrdBlackholeThrottle ------------------------
(***************************************************************************)
(* The write throttle of an XrdBlackholeOssFile: every write call of the   *)
(* handle sleeps in its own thread for as long as its bytes would take at  *)
(* the configured speed, and Close() reports bytes and duration.           *)
(*                                                                         *)
(* Time is a count of microseconds.  The speed in bytes per microsecond,   *)
(* m_writespeedMiBs * 2^20 / 10^6, is kept as a fraction.                  *)
(***************************************************************************)
EXTENDS Integers, FiniteSets

CONSTANTS
    Threads,    \* the threads of XRootD that write through this handle
    Speeds,     \* the values of m_writespeedMiBs, 0 is unlimited
    Mega,       \* 2^20, the bytes of a MiB
    Micro,      \* 10^6, the microseconds of a second
    Lengths,    \* the lengths of write requests
    MaxTime,    \* bound on the clock
    MaxWrites   \* bound on the calls of one session

ASSUME ThrottleAssumption ==
    /\ Speeds \subseteq Nat
    /\ Mega \in Nat \ {0}
    /\ Micro \in Nat \ {0}
    /\ Lengths \subseteq Nat
    /\ MaxTime \in Nat
    /\ MaxWrites \in Nat

VARIABLES
    now,                \* the clock
    m_writespeedMiBs,   \* of the storage system
    isOpen,             \* is the handle between Open() and Close()?
    m_start,            \* when it was opened
    bytes,              \* m_writeBytes + m_writeBytesAIO
    ops,                \* m_writeOps + m_writeAioOps
    call,               \* thread -> its write call
    report              \* the transfer Close() recorded last

vars == <<now, m_writespeedMiBs, isOpen, m_start, bytes, ops, call, report>>

NoCall   == [busy |-> FALSE, blen |-> 0, wake |-> 0]
NoReport == [bytes_written |-> 0, write_ops |-> 0, duration_us |-> 0]

Init ==
    /\ now = 0
    /\ m_writespeedMiBs \in Speeds
    /\ isOpen = FALSE
    /\ m_start = 0
    /\ bytes = 0
    /\ ops = 0
    /\ call = [t \in Threads |-> NoCall]
    /\ report = NoReport

Open ==
    /\ ~isOpen
    /\ isOpen' = TRUE
    /\ m_start' = now
    /\ bytes' = 0
    /\ ops' = 0
    /\ UNCHANGED <<now, m_writespeedMiBs, call, report>>

\* Mutant of delay_us: the division comes first.
delay_us_truncated(blen) ==
    IF m_writespeedMiBs = 0 THEN 0 ELSE (blen \div (m_writespeedMiBs * Mega)) * Micro

\* How long a write sleeps, in whole microseconds.
delay_us(blen) ==
    IF m_writespeedMiBs = 0 THEN 0 ELSE (blen * Micro) \div (m_writespeedMiBs * Mega)

\* The calls of this session, the ones under way included.
Begun == ops + Cardinality({t \in Threads : call[t].busy})

\* Write(), synchronous or not, goes to sleep ...
Write(t, blen) ==
    /\ isOpen
    /\ ~call[t].busy
    /\ Begun < MaxWrites
    /\ now + delay_us(blen) <= MaxTime
    /\ call' = [call EXCEPT ![t] = [busy |-> TRUE, blen |-> blen, wake |-> now + delay_us(blen)]]
    /\ UNCHANGED <<now, m_writespeedMiBs, isOpen, m_start, bytes, ops, report>>

\* ... and counts its bytes when it wakes, not before the time is over.
Write_done(t) ==
    /\ call[t].busy
    /\ now >= call[t].wake
    /\ call' = [call EXCEPT ![t] = NoCall]
    /\ bytes' = bytes + call[t].blen
    /\ ops' = ops + 1
    /\ UNCHANGED <<now, m_writespeedMiBs, isOpen, m_start, report>>

Close ==
    /\ isOpen
    /\ \A t \in Threads : ~call[t].busy
    /\ isOpen' = FALSE
    /\ report' = [bytes_written |-> bytes, write_ops |-> ops, duration_us |-> now - m_start]
    /\ UNCHANGED <<now, m_writespeedMiBs, m_start, bytes, ops, call>>

Tick ==
    /\ now < MaxTime
    /\ now' = now + 1
    /\ UNCHANGED <<m_writespeedMiBs, isOpen, m_start, bytes, ops, call, report>>

Next ==
    \/ Open \/ Close \/ Tick
    \/ \E t \in Threads : (\E blen \in Lengths : Write(t, blen)) \/ Write_done(t)

Spec == Init /\ [][Next]_vars

-----------------------------------------------------------------------------
\* What a session may have written after that many microseconds and calls: the
\* configured speed, and less than one microsecond more for each call, which is
\* what rounding the delay down can lose.
WithinSpeed(b, us, calls) ==
    m_writespeedMiBs > 0 /\ b > 0 => b * Micro < m_writespeedMiBs * Mega * (us + calls)

\* No transfer is reported to have been faster than the configured speed allows,
\* however many small writes it was made of and however late they woke.
ReportedWithinSpeed ==
    WithinSpeed(report.bytes_written, report.duration_us, report.write_ops)
=============================================================================
