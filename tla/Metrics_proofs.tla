--------------------------- MODULE Metrics_proofs ---------------------------
(***************************************************************************)
(* The stats manager, one member at a time under its lock, implements the  *)
(* one-step update of AtomicStats, and every scrape shows the totals of    *)
(* one moment.  For any number of threads, transfers and requests.         *)
(***************************************************************************)
EXTENDS XrdBlackholeMetrics, TLAPS

Totals == [Fields -> Nat]

Thread == [op   : {"none", "record", "snapshot", "summary"},
           pc   : {"idle", "lock", "access", "unlock", "back"},
           k    : 1..9,
           inc  : Totals,
           snap : Totals]

ManagerTypeOK ==
    /\ members \in Totals
    /\ m_mutex \in Threads \cup {NoThread}
    /\ thread \in [Threads -> Thread]
    /\ past \in Seq(Totals)
    /\ Len(past) > 0
    /\ since \in [Threads -> Nat]
    /\ \A t \in Threads : since[t] \in 1 .. Len(past)

\* The lock is held by the thread between its Lock and its Unlock, and by no
\* other; how far a thread has come agrees with what it is doing.
ThreadSound(t) ==
    /\ thread[t].pc \in {"access", "unlock"} <=> m_mutex = t
    /\ thread[t].op = "none" <=> thread[t].pc = "idle"
    /\ thread[t].pc = "lock" => thread[t].k = 1
    /\ thread[t].pc = "access" => thread[t].k \in 1 .. Last
    /\ thread[t].pc = "unlock" => thread[t].k = Last + 1
    /\ thread[t].op = "record" =>
          /\ thread[t].pc # "back"
          /\ thread[t].pc \in {"access", "unlock"} => Len(past) > 1
          /\ \E s \in TransferStats : thread[t].inc = Increment(s)

\* A reader under the lock has copied the members it has passed; one that is
\* back has the totals of some moment since it asked.
ReaderSound(t) ==
    /\ thread[t].op \in {"snapshot", "summary"} /\ thread[t].pc \in {"access", "unlock"} =>
          \A f \in Fields :
             ReadAt(thread[t].op)[f] < thread[t].k => thread[t].snap[f] = members[f]
    /\ thread[t].op = "snapshot" /\ thread[t].pc = "back" =>
          \E j \in since[t] .. Len(past) : thread[t].snap = past[j]

ManagerInv ==
    /\ ManagerTypeOK
    /\ \A t \in Threads : ThreadSound(t)
    /\ \A t \in Threads : ReaderSound(t)
    /\ past[Len(past)] = Settled

MetricsInv == ManagerInv /\ DOMAIN response = Threads /\ ScrapeConsistent

-----------------------------------------------------------------------------
LEMMA Orders ==
    \A f \in Fields : /\ UpdatedAt[f] \in 1 .. 8
                      /\ CopiedAt[f] \in 1 .. 8
                      /\ LoggedAt[f] \in 1 .. 8
BY DEF Fields, UpdatedAt, CopiedAt, LoggedAt

LEMMA ZeroTotals == Zero \in Totals
BY DEF Zero, Totals

LEMMA ThroughputNat ==
    ASSUME NEW b \in Nat, NEW d \in Int PROVE throughput(b, d) \in Nat
<1>1. CASE d <= 0 \/ b <= 0
  BY <1>1 DEF throughput
<1>2. CASE d > 0 /\ b > 0
  BY <1>2 DEF throughput
<1> QED
  BY <1>1, <1>2

LEMMA IncrementTotals ==
    ASSUME NEW s \in TransferStats PROVE Increment(s) \in Totals
<1>1. /\ s.bytes_written \in Nat /\ s.bytes_read \in Nat
      /\ s.errors \in Nat /\ s.duration_us \in Int
  BY ManagerAssumption
<1>2. /\ throughput(s.bytes_written, s.duration_us) \in Nat
      /\ throughput(s.bytes_read, s.duration_us) \in Nat
  BY <1>1, ThroughputNat
<1> DEFINE inc == Increment(s)
<1>3. inc = [f \in Fields |-> inc[f]]
  BY DEF Increment, Fields
<1>4. \A f \in Fields : inc[f] \in Nat
  BY <1>1, <1>2 DEF Increment, Fields
<1> HIDE DEF inc
<1>5. inc \in Totals
  BY <1>3, <1>4 DEF Totals
<1> QED
  BY <1>5 DEF inc

LEMMA SettledTotals == ASSUME ManagerTypeOK PROVE Settled \in Totals
<1>1. ASSUME NEW f \in Fields PROVE Settled[f] \in Nat
  <2>1. CASE m_mutex = NoThread
    BY <2>1 DEF Settled, ManagerTypeOK, Totals
  <2>2. CASE m_mutex \in Threads
    BY <2>2 DEF Settled, ManagerTypeOK, Totals, Thread
  <2> QED
    BY <2>1, <2>2 DEF ManagerTypeOK
<1> QED
  BY <1>1 DEF Settled, Totals

-----------------------------------------------------------------------------
(* What each step does to the settled totals. *)

\* A step that leaves the members, the lock and its holder alone.
LEMMA SettledQuiet ==
    ASSUME UNCHANGED <<members, m_mutex>>,
           m_mutex # NoThread =>
              /\ thread'[m_mutex].op = thread[m_mutex].op
              /\ thread'[m_mutex].k = thread[m_mutex].k
              /\ thread'[m_mutex].inc = thread[m_mutex].inc
    PROVE  Settled' = Settled
BY DEF Settled

LEMMA LockRecords ==
    ASSUME ManagerInv, NEW t \in Threads, Lock(t), thread[t].op = "record"
    PROVE  Settled' = [f \in Fields |-> Settled[f] + thread[t].inc[f]]
<1>1. /\ m_mutex = NoThread
      /\ m_mutex' = t
      /\ thread' = [thread EXCEPT ![t].pc = "access"]
      /\ members' = members
      /\ thread \in [Threads -> Thread]
      /\ thread[t].k = 1
      /\ t # NoThread
  BY ManagerAssumption DEF Lock, ManagerInv, ManagerTypeOK, ThreadSound
<1>2. /\ thread'[t].op = "record"
      /\ thread'[t].k = 1
      /\ thread'[t].inc = thread[t].inc
  BY <1>1 DEF Thread
<1>3. Settled = [f \in Fields |-> members[f]]
  BY <1>1 DEF Settled
<1>4. Settled' = [f \in Fields |-> members[f] + thread[t].inc[f]]
  BY <1>1, <1>2, Orders DEF Settled
<1> QED
  BY <1>3, <1>4

LEMMA LockReads ==
    ASSUME ManagerInv, NEW t \in Threads, Lock(t), thread[t].op # "record"
    PROVE  Settled' = Settled
<1>1. /\ m_mutex = NoThread
      /\ m_mutex' = t
      /\ thread'[t].op = thread[t].op
      /\ members' = members
  BY DEF Lock, ManagerInv, ManagerTypeOK, Thread
<1> QED
  BY <1>1 DEF Settled

LEMMA UpdateSettles ==
    ASSUME ManagerInv, NEW t \in Threads, Update(t) PROVE Settled' = Settled
<1>1. /\ m_mutex = t /\ m_mutex' = t
      /\ t # NoThread
      /\ thread[t] \in Thread
      /\ thread[t].k \in 1 .. 8
      /\ thread[t].op = "record"
      /\ thread'[t] = Advance(thread[t])
  BY ManagerAssumption DEF Update, ManagerInv, ManagerTypeOK, ThreadSound, Last
<1>2. /\ thread'[t].op = "record"
      /\ thread'[t].k = thread[t].k + 1
      /\ thread'[t].inc = thread[t].inc
  BY <1>1 DEF Advance, Thread
<1>3. ASSUME NEW f \in Fields PROVE Settled'[f] = Settled[f]
  <2>1. members'[f] = IF UpdatedAt[f] = thread[t].k
                      THEN members[f] + thread[t].inc[f] ELSE members[f]
    BY DEF Update
  <2>2. Settled[f] = IF thread[t].k <= UpdatedAt[f]
                     THEN members[f] + thread[t].inc[f] ELSE members[f]
    BY <1>1 DEF Settled
  <2>3. Settled'[f] = IF thread[t].k + 1 <= UpdatedAt[f]
                      THEN members'[f] + thread[t].inc[f] ELSE members'[f]
    BY <1>1, <1>2 DEF Settled
  <2> QED
    BY <1>1, <2>1, <2>2, <2>3, Orders
<1> QED
  BY <1>3 DEF Settled

LEMMA UnlockSettles ==
    ASSUME ManagerInv, NEW t \in Threads, Unlock(t)
    PROVE  Settled' = Settled /\ Settled = [f \in Fields |-> members[f]]
<1>1. /\ m_mutex = t /\ m_mutex' = NoThread
      /\ thread[t].k = 9
      /\ members' = members
  BY DEF Unlock, ManagerInv, ThreadSound, Last
<1>2. Settled = [f \in Fields |-> members[f]]
  BY <1>1, Orders DEF Settled
<1>3. Settled' = [f \in Fields |-> members[f]]
  BY <1>1 DEF Settled
<1> QED
  BY <1>2, <1>3

-----------------------------------------------------------------------------
(* The invariant. *)

\* A step of t that leaves the lock and the history alone: what it owes.
LEMMA LocalStep ==
    ASSUME ManagerInv, NEW t \in Threads, NEW r \in Thread,
           thread' = [thread EXCEPT ![t] = r],
           UNCHANGED <<m_mutex, past>>,
           members' \in Totals,
           m_mutex # t => members' = members,
           since' \in [Threads -> Nat],
           \A u \in Threads : since'[u] \in 1 .. Len(past),
           \A u \in Threads \ {t} : since'[u] = since[u],
           Settled' = Settled,
           ThreadSound(t)', ReaderSound(t)'
    PROVE  ManagerInv'
<1>1. thread \in [Threads -> Thread]
  BY DEF ManagerInv, ManagerTypeOK
<1>2. ManagerTypeOK'
  BY <1>1 DEF ManagerInv, ManagerTypeOK
<1>3. ASSUME NEW u \in Threads, u # t PROVE thread'[u] = thread[u]
  BY <1>1, <1>3
<1>4. ASSUME NEW u \in Threads PROVE ThreadSound(u)'
  <2>1. CASE u = t
    BY <2>1
  <2>2. CASE u # t
    BY <1>3, <2>2 DEF ManagerInv, ThreadSound
  <2> QED
    BY <2>1, <2>2
<1>5. ASSUME NEW u \in Threads PROVE ReaderSound(u)'
  <2>1. CASE u = t
    BY <2>1
  <2>2. CASE u # t
    <3>1. thread[u].pc \in {"access", "unlock"} => members' = members
      BY <2>2 DEF ManagerInv, ThreadSound
    <3> QED
      BY <1>3, <2>2, <3>1 DEF ManagerInv, ReaderSound, ReadAt, CopiedAt, LoggedAt
  <2> QED
    BY <2>1, <2>2
<1> QED
  BY <1>2, <1>4, <1>5 DEF ManagerInv

LEMMA CallBegins ==
    ASSUME ManagerInv, NEW t \in Threads,
           (\E s \in TransferStats : recordTransfer(t, s)) \/ getSnapshot(t) \/ logSummary(t)
    PROVE  ManagerInv' /\ Settled' = Settled
<1>0. /\ thread \in [Threads -> Thread]
      /\ thread[t].pc = "idle"
      /\ m_mutex # t
      /\ since \in [Threads -> Nat]
      /\ \A u \in Threads : since[u] \in 1 .. Len(past)
      /\ Zero \in Totals
      /\ members \in Totals
  BY ZeroTotals DEF ManagerInv, ManagerTypeOK, ThreadSound, recordTransfer, getSnapshot, logSummary
<1>1. Complete \in 1 .. Len(past)
  <2>1. Len(past) \in Nat /\ Len(past) > 0
    BY DEF ManagerInv, ManagerTypeOK
  <2>2. CASE m_mutex = NoThread
    BY <2>1, <2>2 DEF Complete
  <2>3. CASE m_mutex \in Threads
    BY <2>1, <2>3 DEF Complete, ManagerInv, ThreadSound
  <2> QED
    BY <2>2, <2>3 DEF ManagerInv, ManagerTypeOK
<1>2. Idle \in Thread /\ Idle.pc = "idle" /\ Idle.op = "none" /\ Idle.k = 1
  BY <1>0 DEF Idle, Thread
<1>3. CASE \E s \in TransferStats : recordTransfer(t, s)
  <2>1. PICK s \in TransferStats : recordTransfer(t, s)
    BY <1>3
  <2> DEFINE r == [Idle EXCEPT !.op = "record", !.pc = "lock", !.inc = Increment(s)]
  <2>2. /\ r \in Thread
        /\ r.op = "record" /\ r.pc = "lock" /\ r.k = 1 /\ r.inc = Increment(s)
    BY <1>2, IncrementTotals DEF Thread
  <2>3. /\ thread' = [thread EXCEPT ![t] = r]
        /\ UNCHANGED <<members, m_mutex, past, since>>
    BY <2>1 DEF recordTransfer
  <2> HIDE DEF r
  <2>4. thread'[t] = r
    BY <1>0, <2>3
  <2>5. Settled' = Settled
    BY <1>0, <2>3, SettledQuiet
  <2>6. ThreadSound(t)' /\ ReaderSound(t)'
    BY <1>0, <2>2, <2>3, <2>4 DEF ThreadSound, ReaderSound
  <2> QED
    BY <1>0, <2>2, <2>3, <2>5, <2>6, LocalStep
<1>4. CASE getSnapshot(t) \/ logSummary(t)
  <2>1. PICK o \in {"snapshot", "summary"} :
           thread' = [thread EXCEPT ![t] = [Idle EXCEPT !.op = o, !.pc = "lock"]]
    BY <1>4 DEF getSnapshot, logSummary
  <2> DEFINE r == [Idle EXCEPT !.op = o, !.pc = "lock"]
  <2>2. r \in Thread /\ r.op = o /\ r.pc = "lock" /\ r.k = 1
    BY <1>2 DEF Thread
  <2>3. /\ thread' = [thread EXCEPT ![t] = r]
        /\ UNCHANGED <<members, m_mutex, past>>
    BY <1>4, <2>1 DEF getSnapshot, logSummary
  <2>3a. /\ since' \in [Threads -> Nat]
         /\ \A u \in Threads : since'[u] \in 1 .. Len(past)
         /\ \A u \in Threads \ {t} : since'[u] = since[u]
    <3>1. CASE since' = [since EXCEPT ![t] = Complete]
      BY <1>0, <1>1, <3>1
    <3>2. CASE since' = since
      BY <1>0, <3>2
    <3> QED
      BY <1>4, <3>1, <3>2 DEF getSnapshot, logSummary
  <2> HIDE DEF r
  <2>4. thread'[t] = r
    BY <1>0, <2>3
  <2>5. Settled' = Settled
    BY <1>0, <2>3, SettledQuiet
  <2>6. ThreadSound(t)' /\ ReaderSound(t)'
    BY <1>0, <2>2, <2>3, <2>4 DEF ThreadSound, ReaderSound
  <2> QED
    BY <1>0, <2>2, <2>3, <2>3a, <2>5, <2>6, LocalStep
<1> QED
  BY <1>3, <1>4

LEMMA AccessKeeps ==
    ASSUME ManagerInv, NEW t \in Threads, Update(t) \/ Copy(t)
    PROVE  ManagerInv' /\ Settled' = Settled
<1>0. /\ thread \in [Threads -> Thread]
      /\ thread[t] \in Thread
      /\ thread[t].pc = "access"
      /\ m_mutex = t
      /\ thread[t].k \in 1 .. 8
      /\ members \in Totals
      /\ since \in [Threads -> Nat]
      /\ \A u \in Threads : since[u] \in 1 .. Len(past)
      /\ ThreadSound(t)
      /\ ReaderSound(t)
      /\ UNCHANGED <<m_mutex, past, since>>
  BY DEF ManagerInv, ManagerTypeOK, ThreadSound, Update, Copy, Last
<1> DEFINE a == Advance(thread[t])
<1>1. /\ a \in Thread
      /\ a.op = thread[t].op /\ a.inc = thread[t].inc /\ a.snap = thread[t].snap
      /\ a.k = thread[t].k + 1
      /\ a.pc = IF thread[t].k = 8 THEN "unlock" ELSE "access"
  <2>1. CASE thread[t].k = 8
    <3>1. a = [thread[t] EXCEPT !.k = thread[t].k + 1, !.pc = "unlock"]
      BY <2>1 DEF Advance, Last
    <3>2. thread[t].k + 1 \in 1 .. 9
      BY <1>0
    <3> HIDE DEF a
    <3> QED
      BY <1>0, <2>1, <3>1, <3>2 DEF Thread
  <2>2. CASE thread[t].k # 8
    <3>1. a = [thread[t] EXCEPT !.k = thread[t].k + 1, !.pc = "access"]
      BY <2>2 DEF Advance, Last
    <3>2. thread[t].k + 1 \in 1 .. 9
      BY <1>0
    <3> HIDE DEF a
    <3> QED
      BY <1>0, <2>2, <3>1, <3>2 DEF Thread
  <2> QED
    BY <2>1, <2>2
<1> HIDE DEF a
<1>2. CASE Update(t)
  <2>1. /\ thread' = [thread EXCEPT ![t] = a]
        /\ thread[t].op = "record"
    BY <1>2 DEF Update, a
  <2>2. thread'[t] = a
    BY <1>0, <2>1
  <2>3. members' \in Totals
    BY <1>0, <1>2 DEF Update, Totals, Thread
  <2>4. Settled' = Settled
    BY <1>2, UpdateSettles
  <2>5. ThreadSound(t)' /\ ReaderSound(t)'
    BY <1>0, <1>1, <2>1, <2>2 DEF ThreadSound, ReaderSound, Last
  <2> QED
    BY <1>0, <1>1, <2>1, <2>3, <2>4, <2>5, LocalStep
<1>3. CASE Copy(t)
  <2> DEFINE snap == [f \in Fields |-> IF ReadAt(thread[t].op)[f] = thread[t].k
                                       THEN members[f] ELSE thread[t].snap[f]]
             r == [a EXCEPT !.snap = snap]
  <2>1. snap \in Totals
    BY <1>0 DEF Totals, Thread
  <2>2. /\ r \in Thread
        /\ r.op = thread[t].op /\ r.inc = thread[t].inc /\ r.snap = snap
        /\ r.k = thread[t].k + 1
        /\ r.pc = IF thread[t].k = 8 THEN "unlock" ELSE "access"
    BY <1>1, <2>1 DEF Thread
  <2>3. /\ thread' = [thread EXCEPT ![t] = r]
        /\ thread[t].op # "record"
        /\ members' = members
    BY <1>3 DEF Copy, a
  <2>4. ASSUME NEW f \in Fields, ReadAt(thread[t].op)[f] < thread[t].k + 1,
               thread[t].op \in {"snapshot", "summary"}
        PROVE  snap[f] = members[f]
    <3>1. ReadAt(thread[t].op)[f] \in 1 .. 8
      BY Orders DEF ReadAt
    <3> QED
      BY <1>0, <2>4, <3>1 DEF ReaderSound
  <2> HIDE DEF r, snap
  <2>5. thread'[t] = r
    BY <1>0, <2>3
  <2>6. Settled' = Settled
    BY <1>0, <2>2, <2>3, <2>5 DEF Settled
  <2>7. ThreadSound(t)'
    BY <1>0, <2>2, <2>3, <2>5 DEF ThreadSound, Last
  <2>8. ReaderSound(t)'
    BY <1>0, <2>2, <2>3, <2>4, <2>5 DEF ReaderSound, ReadAt, CopiedAt, LoggedAt
  <2> QED
    BY <1>0, <2>2, <2>3, <2>6, <2>7, <2>8, LocalStep
<1> QED
  BY <1>2, <1>3

LEMMA LockKeeps == ASSUME ManagerInv, NEW t \in Threads, Lock(t) PROVE ManagerInv'
<1> DEFINE r == [thread[t] EXCEPT !.pc = "access"]
<1>0. /\ thread \in [Threads -> Thread]
      /\ thread[t].pc = "lock" /\ thread[t].k = 1
      /\ m_mutex = NoThread /\ m_mutex' = t
      /\ t # NoThread
      /\ past \in Seq(Totals) /\ Len(past) > 0
      /\ thread' = [thread EXCEPT ![t] = r]
      /\ since' = since /\ members' = members
  BY ManagerAssumption DEF ManagerInv, ManagerTypeOK, ThreadSound, Lock
<1>1. /\ r \in Thread
      /\ r.op = thread[t].op /\ r.pc = "access" /\ r.k = 1 /\ r.inc = thread[t].inc
  BY <1>0 DEF Thread
<1> HIDE DEF r
<1>2. /\ thread'[t] = r
      /\ \A u \in Threads \ {t} : thread'[u] = thread[u]
  BY <1>0
<1> DEFINE top == [f \in Fields |-> past[Len(past)][f] + thread[t].inc[f]]
<1>3. top \in Totals
  BY <1>0 DEF Totals, Thread
<1>4. /\ past' \in Seq(Totals)
      /\ Len(past') >= Len(past)
      /\ thread[t].op = "record" => Len(past') > 1
      /\ \A j \in 1 .. Len(past) : past'[j] = past[j]
      /\ past'[Len(past')] = Settled'
  <2>1. CASE thread[t].op = "record"
    <3>1. past' = Append(past, top)
      BY <2>1 DEF Lock
    <3>2. past'[Len(past')] = top
      BY <1>0, <1>3, <3>1
    <3>3. Settled' = [f \in Fields |-> past[Len(past)][f] + thread[t].inc[f]]
      BY <2>1, LockRecords DEF ManagerInv
    <3> HIDE DEF top
    <3>4. /\ past' \in Seq(Totals)
          /\ Len(past') = Len(past) + 1
          /\ \A j \in 1 .. Len(past) : past'[j] = past[j]
      BY <1>0, <1>3, <3>1
    <3>5. past'[Len(past')] = Settled'
      BY <3>2, <3>3 DEF top
    <3> QED
      BY <1>0, <3>4, <3>5
  <2>2. CASE thread[t].op # "record"
    <3>1. past' = past
      BY <2>2 DEF Lock
    <3>2. Settled' = Settled
      BY <2>2, LockReads
    <3> QED
      BY <1>0, <2>2, <3>1, <3>2 DEF ManagerInv
  <2> QED
    BY <2>1, <2>2
<1> HIDE DEF top
<1>5. ManagerTypeOK'
  BY <1>0, <1>1, <1>4 DEF ManagerInv, ManagerTypeOK
<1>6. ASSUME NEW u \in Threads PROVE ThreadSound(u)'
  <2>1. CASE u = t
    BY <1>0, <1>1, <1>2, <1>4, <2>1 DEF ManagerInv, ThreadSound, Last
  <2>2. CASE u # t
    <3>1. /\ thread'[u] = thread[u]
          /\ m_mutex # u /\ m_mutex' # u
      BY <1>0, <1>2, <2>2, ManagerAssumption
    <3>2. thread[u].pc \notin {"access", "unlock"}
      BY <3>1 DEF ManagerInv, ThreadSound
    <3> QED
      BY <3>1, <3>2 DEF ManagerInv, ThreadSound
  <2> QED
    BY <2>1, <2>2
<1>7. ASSUME NEW u \in Threads PROVE ReaderSound(u)'
  <2>1. CASE u = t
    <3>1. \A o : \A f \in Fields : ~(ReadAt(o)[f] < 1)
      BY Orders DEF ReadAt
    <3> QED
      BY <1>1, <1>2, <2>1, <3>1 DEF ReaderSound, ReadAt, CopiedAt, LoggedAt
  <2>2. CASE u # t
    <3>1. thread'[u] = thread[u]
      BY <1>2, <2>2
    <3>2. thread[u].pc \notin {"access", "unlock"}
      BY <1>0, ManagerAssumption DEF ManagerInv, ThreadSound
    <3>3. /\ since[u] \in Nat /\ since[u] \in 1 .. Len(past)
          /\ Len(past) \in Nat /\ Len(past') \in Nat
      BY <1>0, <1>4 DEF ManagerInv, ManagerTypeOK
    <3>4. \A j \in since[u] .. Len(past) : j \in since[u] .. Len(past') /\ past'[j] = past[j]
      BY <1>4, <3>3
    <3> QED
      BY <1>0, <3>1, <3>2, <3>4 DEF ManagerInv, ReaderSound
  <2> QED
    BY <2>1, <2>2
<1> QED
  BY <1>4, <1>5, <1>6, <1>7 DEF ManagerInv

LEMMA UnlockKeeps ==
    ASSUME ManagerInv, NEW t \in Threads, Unlock(t)
    PROVE  ManagerInv' /\ Settled' = Settled
<1>0. /\ thread \in [Threads -> Thread]
      /\ thread[t].pc = "unlock" /\ thread[t].k = 9
      /\ m_mutex = t /\ m_mutex' = NoThread
      /\ t # NoThread
      /\ past \in Seq(Totals) /\ Len(past) > 0
      /\ UNCHANGED <<members, past, since>>
      /\ members \in Totals
      /\ since[t] \in 1 .. Len(past)
  BY ManagerAssumption DEF ManagerInv, ManagerTypeOK, ThreadSound, Unlock, Last
<1>1. /\ Settled' = Settled
      /\ Settled = members
  BY <1>0, UnlockSettles DEF Totals
<1>2. Idle \in Thread /\ Idle.pc = "idle" /\ Idle.op = "none" /\ Idle.k = 1
  BY ZeroTotals DEF Idle, Thread
<1>3. PICK r \in Thread :
         /\ thread' = [thread EXCEPT ![t] = r]
         /\ \/ r.pc = "idle" /\ r.op = "none"
            \/ /\ r.pc = "back" /\ r.op = thread[t].op /\ r.snap = thread[t].snap
               /\ thread[t].op # "record"
  <2>1. CASE thread[t].op = "record"
    BY <1>2, <2>1 DEF Unlock
  <2>2. CASE thread[t].op # "record"
    <3> DEFINE r == [thread[t] EXCEPT !.pc = "back"]
    <3>1. thread' = [thread EXCEPT ![t] = r]
      BY <2>2 DEF Unlock
    <3>2. r \in Thread /\ r.pc = "back" /\ r.op = thread[t].op /\ r.snap = thread[t].snap
      BY <1>0 DEF Thread
    <3> HIDE DEF r
    <3> QED
      BY <2>2, <3>1, <3>2
  <2> QED
    BY <2>1, <2>2
<1>4. /\ thread'[t] = r
      /\ \A u \in Threads \ {t} : thread'[u] = thread[u]
  BY <1>0, <1>3
<1>5. ManagerTypeOK'
  BY <1>0, <1>3 DEF ManagerInv, ManagerTypeOK
<1>6. ASSUME NEW u \in Threads PROVE ThreadSound(u)'
  <2>1. CASE u = t
    BY <1>0, <1>3, <1>4, <2>1 DEF ManagerInv, ThreadSound
  <2>2. CASE u # t
    BY <1>0, <1>4, <2>2, ManagerAssumption DEF ManagerInv, ThreadSound
  <2> QED
    BY <2>1, <2>2
<1>7. ASSUME NEW u \in Threads PROVE ReaderSound(u)'
  <2>1. CASE u = t
    <3>1. CASE r.pc = "idle"
      BY <1>4, <2>1, <3>1 DEF ReaderSound
    <3>2. CASE r.pc = "back" /\ r.op = "snapshot"
      <4>1. thread[t].op = "snapshot" /\ r.snap = thread[t].snap
        BY <1>3, <3>2
      <4>2. \A f \in Fields : thread[t].snap[f] = members[f]
        BY <1>0, <4>1, Orders DEF ManagerInv, ReaderSound, ReadAt
      <4>3. thread[t].snap \in Totals
        BY <1>0 DEF Thread
      <4>4. thread[t].snap = members
        BY <1>0, <4>2, <4>3 DEF Totals
      <4>5. members = past[Len(past)]
        BY <1>1 DEF ManagerInv
      <4>6. Len(past) \in since[t] .. Len(past)
        BY <1>0
      <4> QED
        BY <1>0, <1>4, <2>1, <3>2, <4>1, <4>4, <4>5, <4>6 DEF ReaderSound
    <3>3. CASE r.pc = "back" /\ r.op # "snapshot"
      BY <1>4, <2>1, <3>3 DEF ReaderSound
    <3> QED
      BY <1>3, <3>1, <3>2, <3>3
  <2>2. CASE u # t
    <3>1. thread[u].pc \notin {"access", "unlock"}
      BY <1>0, <2>2 DEF ManagerInv, ThreadSound
    <3> QED
      BY <1>0, <1>4, <2>2, <3>1 DEF ManagerInv, ReaderSound
  <2> QED
    BY <2>1, <2>2
<1>8. past'[Len(past')] = Settled'
  BY <1>0, <1>1 DEF ManagerInv
<1> QED
  BY <1>1, <1>5, <1>6, <1>7, <1>8 DEF ManagerInv

\* An answered request, or a written summary, leaves the thread idle.
LEMMA AnswerKeeps ==
    ASSUME ManagerInv, NEW t \in Threads, SendSimpleResp(t) \/ Logged(t)
    PROVE  ManagerInv' /\ Settled' = Settled
<1>0. /\ thread \in [Threads -> Thread]
      /\ thread[t].pc = "back"
      /\ m_mutex # t
      /\ thread' = [thread EXCEPT ![t] = Idle]
      /\ UNCHANGED <<members, m_mutex, past, since>>
      /\ members \in Totals
      /\ since \in [Threads -> Nat]
      /\ \A u \in Threads : since[u] \in 1 .. Len(past)
  BY DEF ManagerInv, ManagerTypeOK, ThreadSound, SendSimpleResp, Logged
<1>1. Idle \in Thread /\ Idle.pc = "idle" /\ Idle.op = "none" /\ Idle.k = 1
  BY ZeroTotals DEF Idle, Thread
<1>2. thread'[t] = Idle
  BY <1>0
<1>3. Settled' = Settled
  BY <1>0, SettledQuiet
<1>4. ThreadSound(t)' /\ ReaderSound(t)'
  BY <1>0, <1>1, <1>2 DEF ThreadSound, ReaderSound
<1> QED
  BY <1>0, <1>1, <1>3, <1>4, LocalStep

\* Every step keeps the invariant of the manager, and adds one transfer to the
\* settled totals or none.
LEMMA ManagerStep ==
    ASSUME ManagerInv, [MetricsNext]_metricsvars
    PROVE  /\ ManagerInv'
           /\ \/ Settled' = Settled
              \/ \E t \in Threads : Lock(t) /\ thread[t].op = "record"
<1>1. CASE UNCHANGED metricsvars
  <2>1. UNCHANGED <<members, m_mutex, thread, past, since>>
    BY <1>1 DEF metricsvars, managervars
  <2>2. Settled' = Settled
    BY <2>1 DEF Settled
  <2>3. /\ ManagerTypeOK'
        /\ \A t \in Threads : ThreadSound(t)'
        /\ \A t \in Threads : ReaderSound(t)'
    BY <2>1 DEF ManagerInv, ManagerTypeOK, ThreadSound, ReaderSound
  <2> QED
    BY <2>1, <2>2, <2>3 DEF ManagerInv
<1>2. ASSUME NEW t \in Threads,
             \/ \E s \in TransferStats : recordTransfer(t, s)
             \/ \E req \in Requests : ProcessReq(t, req)
             \/ logSummary(t)
      PROVE  ManagerInv' /\ Settled' = Settled
  BY <1>2, CallBegins DEF ProcessReq
<1>3. ASSUME NEW t \in Threads, Lock(t)
      PROVE  ManagerInv' /\ (Settled' = Settled \/ thread[t].op = "record")
  BY <1>3, LockKeeps, LockReads
<1>4. ASSUME NEW t \in Threads,
             Update(t) \/ Copy(t) \/ Unlock(t) \/ SendSimpleResp(t) \/ Logged(t)
      PROVE  ManagerInv' /\ Settled' = Settled
  BY <1>4, AccessKeeps, UnlockKeeps, AnswerKeeps
<1> QED
  BY <1>1, <1>2, <1>3, <1>4 DEF MetricsNext, Proceed

LEMMA ManagerInitInv == ManagerInit => ManagerInv
<1> SUFFICES ASSUME ManagerInit PROVE ManagerInv
  OBVIOUS
<1>1. Idle \in Thread /\ Idle.pc = "idle" /\ Idle.op = "none"
  BY ZeroTotals DEF Idle, Thread
<1>2. ManagerTypeOK
  BY <1>1, ZeroTotals DEF ManagerInit, ManagerTypeOK
<1>3. Settled = Zero
  BY DEF ManagerInit, Settled, Zero
<1>4. ASSUME NEW t \in Threads PROVE ThreadSound(t) /\ ReaderSound(t)
  BY <1>1, ManagerAssumption DEF ManagerInit, ThreadSound, ReaderSound
<1>5. past[Len(past)] = Zero
  BY DEF ManagerInit
<1> QED
  BY <1>2, <1>3, <1>4, <1>5 DEF ManagerInv

-----------------------------------------------------------------------------
\* The step of the abstract specification that taking the lock is.
LEMMA LockIsRecord ==
    ASSUME ManagerInv, NEW t \in Threads, Lock(t), thread[t].op = "record"
    PROVE  \E s \in TransferStats : Atomic!recordTransfer(s)
<1>1. PICK s \in TransferStats : thread[t].inc = Increment(s)
  BY DEF ManagerInv, ThreadSound
<1>2. \A f \in Fields : Settled'[f] = Settled[f] + Increment(s)[f]
  BY <1>1, LockRecords
<1>3. /\ s.bytes_written \in Nat /\ s.bytes_read \in Nat /\ s.errors \in Nat
      /\ Settled \in Totals
  BY ManagerAssumption, SettledTotals DEF ManagerInv
<1>4. /\ Settled'["total_transfers"] = Settled["total_transfers"] + 1
      /\ Settled'["total_bytes_written"] = Settled["total_bytes_written"] + s.bytes_written
      /\ Settled'["total_bytes_read"] = Settled["total_bytes_read"] + s.bytes_read
      /\ Settled'["total_errors"] = Settled["total_errors"] + s.errors
      /\ Settled'["write_transfers"] =
            IF s.bytes_written > 0 THEN Settled["write_transfers"] + 1
            ELSE Settled["write_transfers"]
      /\ Settled'["read_transfers"] =
            IF s.bytes_read > 0 THEN Settled["read_transfers"] + 1
            ELSE Settled["read_transfers"]
  BY <1>2, <1>3 DEF Increment, Fields, Totals
<1>5. Atomic!recordTransfer(s)
  <2> DEFINE Shown(x) == [total_transfers     |-> x["total_transfers"],
                          write_transfers     |-> x["write_transfers"],
                          read_transfers      |-> x["read_transfers"],
                          total_bytes_written |-> x["total_bytes_written"],
                          total_bytes_read    |-> x["total_bytes_read"],
                          total_errors        |-> x["total_errors"]]
             old == Shown(Settled)
             new == [old EXCEPT
                       !.total_transfers     = @ + 1,
                       !.write_transfers     = IF s.bytes_written > 0 THEN @ + 1 ELSE @,
                       !.read_transfers      = IF s.bytes_read > 0 THEN @ + 1 ELSE @,
                       !.total_bytes_written = @ + s.bytes_written,
                       !.total_bytes_read    = @ + s.bytes_read,
                       !.total_errors        = @ + s.errors]
  <2>1. /\ new.total_transfers = Settled'["total_transfers"]
        /\ new.write_transfers = Settled'["write_transfers"]
        /\ new.read_transfers = Settled'["read_transfers"]
        /\ new.total_bytes_written = Settled'["total_bytes_written"]
        /\ new.total_bytes_read = Settled'["total_bytes_read"]
        /\ new.total_errors = Settled'["total_errors"]
    BY <1>4
  <2>2. new = [f \in {"total_transfers", "write_transfers", "read_transfers",
                      "total_bytes_written", "total_bytes_read", "total_errors"} |-> new[f]]
    OBVIOUS
  <2>3. new = Shown(Settled')
    <3> HIDE DEF new
    <3> QED
      BY <2>1, <2>2
  <2> QED
    BY <2>3 DEF Atomic!recordTransfer
<1> QED
  BY <1>5

\* The stats manager implements AtomicStats: taking the lock in recordTransfer()
\* is the step that records the transfer, and every other step of every thread
\* leaves the totals, with the transfer under way added up, as they are.
THEOREM StatsAtomic == MetricsSpec => RecordsAtomically
<1>1. MetricsInit => Atomic!StatsInit
  <2>1. MetricsInit => Settled = Zero
    BY DEF MetricsInit, ManagerInit, Settled, Zero
  <2> QED
    BY <2>1 DEF Atomic!StatsInit, Zero, Fields
<1>2. MetricsInit => ManagerInv
  BY ManagerInitInv DEF MetricsInit
<1>3. ManagerInv /\ [MetricsNext]_metricsvars => ManagerInv'
  BY ManagerStep
<1>4. ManagerInv /\ [MetricsNext]_metricsvars =>
         \/ \E s \in TransferStats : Atomic!recordTransfer(s)
         \/ Settled' = Settled
  BY ManagerStep, LockIsRecord
<1>5. ManagerInv /\ [MetricsNext]_metricsvars =>
         [\E s \in TransferStats : Atomic!recordTransfer(s)]_
             [total_transfers     |-> Settled["total_transfers"],
              write_transfers     |-> Settled["write_transfers"],
              read_transfers      |-> Settled["read_transfers"],
              total_bytes_written |-> Settled["total_bytes_written"],
              total_bytes_read    |-> Settled["total_bytes_read"],
              total_errors        |-> Settled["total_errors"]]
  BY <1>4
<1> QED
  BY <1>1, <1>2, <1>3, <1>5, PTL DEF MetricsSpec, RecordsAtomically, Atomic!StatsSpec

-----------------------------------------------------------------------------
\* The totals of the past are never rewritten.
LEMMA PastGrows ==
    ASSUME ManagerInv, [MetricsNext]_metricsvars
    PROVE  /\ Len(past') \in Nat /\ Len(past) \in Nat
           /\ Len(past) <= Len(past')
           /\ \A j \in 1 .. Len(past) : past'[j] = past[j]
<1>1. past \in Seq(Totals) /\ ManagerTypeOK
  BY DEF ManagerInv, ManagerTypeOK
<1>2. CASE past' = past
  BY <1>1, <1>2
<1>3. ASSUME NEW t \in Threads, Lock(t), thread[t].op = "record"
      PROVE  \E x \in Totals : past' = Append(past, x)
  <2> DEFINE x == [f \in Fields |-> past[Len(past)][f] + thread[t].inc[f]]
  <2>1. past' = Append(past, x)
    BY <1>3 DEF Lock
  <2>2. past[Len(past)] \in Totals /\ thread[t].inc \in Totals
    BY <1>1 DEF ManagerTypeOK, Thread
  <2>3. x \in Totals
    BY <2>2 DEF Totals
  <2> QED
    BY <2>1, <2>3
<1>4. past' = past \/ \E x \in Totals : past' = Append(past, x)
  BY <1>3 DEF MetricsNext, metricsvars, managervars, Proceed, Lock, Update, Copy, Unlock,
              SendSimpleResp, Logged, ProcessReq, recordTransfer, getSnapshot, logSummary
<1>5. CASE \E x \in Totals : past' = Append(past, x)
  BY <1>1, <1>5
<1> QED
  BY <1>2, <1>4, <1>5

\* An answer a thread has given, and keeps, stays within the moments since it asked.
LEMMA AnswerStands ==
    ASSUME ManagerInv, [MetricsNext]_metricsvars, NEW t \in Threads,
           response[t] # NoBody =>
              \E k \in since[t] .. Len(past) : response[t] = buildMetrics(past[k]),
           response'[t] = response[t], since'[t] = since[t]
    PROVE  response'[t] # NoBody =>
              \E k \in since'[t] .. Len(past') : response'[t] = buildMetrics(past'[k])
<1>1. since[t] \in 1 .. Len(past)
  BY DEF ManagerInv, ManagerTypeOK
<1>2. \A k \in since[t] .. Len(past) : k \in since[t] .. Len(past') /\ past'[k] = past[k]
  BY <1>1, PastGrows
<1> QED
  BY <1>2

LEMMA ScrapeStep ==
    ASSUME MetricsInv, [MetricsNext]_metricsvars
    PROVE  DOMAIN response' = Threads /\ ScrapeConsistent'
<1>a. DOMAIN response' = Threads
  BY DEF MetricsInv, MetricsNext, metricsvars, Proceed, ProcessReq, SendSimpleResp, Logged
<1> SUFFICES ASSUME NEW u \in Threads
             PROVE  response'[u] # NoBody =>
                       \E k \in since'[u] .. Len(past') : response'[u] = buildMetrics(past'[k])
  BY <1>a DEF ScrapeConsistent, buildMetrics, average
<1>0. /\ ManagerInv
      /\ DOMAIN response = Threads
      /\ response[u] # NoBody =>
            \E k \in since[u] .. Len(past) : response[u] = buildMetrics(past[k])
  BY DEF MetricsInv, ScrapeConsistent
<1>1. CASE response' = response /\ since' = since
  BY <1>0, <1>1, AnswerStands
<1>2. ASSUME NEW t \in Threads, NEW req \in Requests, ProcessReq(t, req)
      PROVE  response'[u] # NoBody =>
                \E k \in since'[u] .. Len(past') : response'[u] = buildMetrics(past'[k])
  <2>1. /\ response' = [response EXCEPT ![t] = NoBody]
        /\ since' = [since EXCEPT ![t] = Complete]
        /\ since \in [Threads -> Nat]
    BY <1>0, <1>2 DEF ProcessReq, getSnapshot, ManagerInv, ManagerTypeOK
  <2>2. CASE u = t
    <3>1. response'[u] = NoBody
      BY <1>0, <2>1, <2>2
    <3> QED
      BY <3>1
  <2>3. CASE u # t
    <3>1. response'[u] = response[u] /\ since'[u] = since[u]
      BY <2>1, <2>3
    <3> QED
      BY <1>0, <3>1, AnswerStands
  <2> QED
    BY <2>2, <2>3
<1>3. ASSUME NEW t \in Threads, SendSimpleResp(t)
      PROVE  response'[u] # NoBody =>
                \E k \in since'[u] .. Len(past') : response'[u] = buildMetrics(past'[k])
  <2>1. /\ response' = [response EXCEPT ![t] = buildMetrics(thread[t].snap)]
        /\ since' = since /\ past' = past
        /\ thread[t].pc = "back" /\ thread[t].op = "snapshot"
    BY <1>3 DEF SendSimpleResp
  <2>2. CASE u = t
    <3>1. response'[u] = buildMetrics(thread[t].snap)
      BY <1>0, <2>1, <2>2
    <3>2. \E j \in since[t] .. Len(past) : thread[t].snap = past[j]
      BY <1>0, <2>1 DEF ManagerInv, ReaderSound
    <3> QED
      BY <2>1, <2>2, <3>1, <3>2
  <2>3. CASE u # t
    <3>1. response'[u] = response[u] /\ since'[u] = since[u]
      BY <2>1, <2>3
    <3> QED
      BY <1>0, <3>1, AnswerStands
  <2> QED
    BY <2>2, <2>3
<1>4. CASE UNCHANGED metricsvars
  BY <1>1, <1>4 DEF metricsvars, managervars
<1>5. ASSUME NEW t \in Threads,
             \/ (\E s \in TransferStats : recordTransfer(t, s)) /\ UNCHANGED response
             \/ logSummary(t) /\ UNCHANGED response
             \/ (Lock(t) \/ Update(t) \/ Copy(t) \/ Unlock(t)) /\ UNCHANGED response
             \/ Logged(t)
      PROVE  response' = response /\ since' = since
  BY <1>5 DEF recordTransfer, logSummary, Lock, Update, Copy, Unlock, Logged
<1> QED
  BY <1>1, <1>2, <1>3, <1>4, <1>5 DEF MetricsNext, Proceed

\* Every response to a scrape shows the totals of one moment between request and
\* answer, however the threads that record and the ones that ask interleave.
THEOREM ScrapesConsistent == MetricsSpec => []ScrapeConsistent
<1>1. MetricsInit => MetricsInv
  BY ManagerInitInv DEF MetricsInit, MetricsInv, ScrapeConsistent
<1>2. MetricsInv /\ [MetricsNext]_metricsvars => MetricsInv'
  BY ManagerStep, ScrapeStep DEF MetricsInv
<1>3. MetricsInv => ScrapeConsistent
  BY DEF MetricsInv
<1> QED
  BY <1>1, <1>2, <1>3, PTL DEF MetricsSpec
=============================================================================
