--------------------- MODULE XrdBlackholeThrottle_proofs ---------------------
(***************************************************************************)
(* The throttle for any speed, any lengths and any length of session: what *)
(* rounding the delays down can gain a single writer.                      *)
(***************************************************************************)
EXTENDS XrdBlackholeThrottle, TLAPS

\* One thread at a time writes through the handle, as a client does that waits
\* for each answer.  Threads that write at once sleep at once, and share the
\* speed no more than they share the sleep.
OneWriter == \A t, u \in Threads : t = u

Calls == [busy : BOOLEAN, blen : Nat, wake : Nat]

ThrottleTypeOK ==
    /\ now \in Nat
    /\ m_writespeedMiBs \in Nat
    /\ isOpen \in BOOLEAN
    /\ m_start \in Nat
    /\ bytes \in Nat
    /\ ops \in Nat
    /\ call \in [Threads -> Calls]
    /\ report \in [bytes_written : Nat, write_ops : Nat, duration_us : Nat]

\* When the write call of t went to sleep.
Began(t) == call[t].wake - delay_us(call[t].blen)

\* A call sleeps within the session, and what it found counted kept to the speed.
Sleeper(t) ==
    call[t].busy => /\ isOpen
                    /\ m_start <= Began(t)
                    /\ WithinSpeed(bytes, Began(t) - m_start, ops)

\* Between calls what is counted keeps to the speed.
Idle ==
    isOpen /\ (\A t \in Threads : ~call[t].busy) => WithinSpeed(bytes, now - m_start, ops)

ThrottleInv ==
    /\ ThrottleTypeOK
    /\ m_start <= now
    /\ \A t \in Threads : Sleeper(t)
    /\ Idle
    /\ ReportedWithinSpeed

-----------------------------------------------------------------------------
(* Arithmetic *)

\* A quotient rounded down is less than one short.
LEMMA RoundedDown ==
    ASSUME NEW a \in Nat, NEW r \in Nat \ {0}
    PROVE  a \div r \in Nat /\ a < r * ((a \div r) + 1)
OBVIOUS

\* Products of naturals.
LEMMA Product == ASSUME NEW a \in Nat, NEW b \in Nat PROVE a * b \in Nat
OBVIOUS

LEMMA PositiveProduct == ASSUME NEW a \in Nat \ {0}, NEW b \in Nat \ {0} PROVE a * b \in Nat \ {0}
OBVIOUS

\* More time allows no less.
LEMMA MoreTime ==
    ASSUME NEW r \in Nat, NEW x \in Nat, NEW y \in Nat, x <= y
    PROVE  r * x <= r * y
OBVIOUS

\* The bytes before a call, and its own, against the time they have taken.
LEMMA Together ==
    ASSUME NEW r \in Nat \ {0}, NEW m \in Nat, NEW b \in Nat, NEW l \in Nat,
           NEW x \in Nat, NEW d \in Nat,
           b * m <= r * x, l * m < r * (d + 1)
    PROVE  (b + l) * m < r * (x + d + 1)
<1>1. (b + l) * m = b * m + l * m
  OBVIOUS
<1>2. r * (x + d + 1) = r * x + r * (d + 1)
  OBVIOUS
<1>3. b * m \in Nat /\ l * m \in Nat /\ r * x \in Nat /\ r * (d + 1) \in Nat
  OBVIOUS
<1> QED
  BY <1>1, <1>2, <1>3

-----------------------------------------------------------------------------
(* The delay *)

LEMMA DelayNat ==
    ASSUME ThrottleTypeOK, NEW blen \in Nat
    PROVE  delay_us(blen) \in Nat
<1>1. CASE m_writespeedMiBs = 0
  BY <1>1 DEF delay_us
<1>2. CASE m_writespeedMiBs # 0
  <2>1. blen * Micro \in Nat /\ m_writespeedMiBs * Mega \in Nat \ {0}
    BY <1>2, Product, PositiveProduct, ThrottleAssumption DEF ThrottleTypeOK
  <2>2. (blen * Micro) \div (m_writespeedMiBs * Mega) \in Nat
    BY <2>1, RoundedDown
  <2> QED
    BY <1>2, <2>2 DEF delay_us
<1> QED
  BY <1>1, <1>2

\* The bytes of one call keep to the speed, to a microsecond.
LEMMA DelayEnough ==
    ASSUME ThrottleTypeOK, m_writespeedMiBs > 0, NEW blen \in Nat
    PROVE  blen * Micro < (m_writespeedMiBs * Mega) * (delay_us(blen) + 1)
<1>1. blen * Micro \in Nat /\ m_writespeedMiBs * Mega \in Nat \ {0}
  BY Product, PositiveProduct, ThrottleAssumption DEF ThrottleTypeOK
<1>2. delay_us(blen) = (blen * Micro) \div (m_writespeedMiBs * Mega)
  BY DEF delay_us, ThrottleTypeOK
<1> QED
  BY <1>1, <1>2, RoundedDown

\* A session within the speed is within it later, too.
LEMMA LaterWithin ==
    ASSUME ThrottleTypeOK, NEW b \in Nat, NEW x \in Nat, NEW y \in Nat, NEW n \in Nat,
           x <= y, WithinSpeed(b, x, n)
    PROVE  WithinSpeed(b, y, n)
<1> SUFFICES ASSUME m_writespeedMiBs > 0, b > 0
             PROVE  b * Micro < m_writespeedMiBs * Mega * (y + n)
  BY DEF WithinSpeed
<1>1. b * Micro < m_writespeedMiBs * Mega * (x + n)
  BY DEF WithinSpeed
<1> DEFINE r == m_writespeedMiBs * Mega
<1>2. r \in Nat /\ b * Micro \in Nat
  BY Product, ThrottleAssumption DEF ThrottleTypeOK
<1> HIDE DEF r
<1>3. r * (x + n) <= r * (y + n) /\ r * (x + n) \in Nat /\ r * (y + n) \in Nat
  BY <1>2, MoreTime, Product
<1>4. b * Micro < r * (x + n)
  BY <1>1 DEF r
<1>5. b * Micro < r * (y + n)
  BY <1>2, <1>3, <1>4
<1> QED
  BY <1>5 DEF r

\* A call that has slept its delay keeps the session within the speed.
LEMMA CallWithin ==
    ASSUME ThrottleTypeOK, NEW b \in Nat, NEW blen \in Nat, NEW x \in Nat, NEW n \in Nat,
           WithinSpeed(b, x, n)
    PROVE  WithinSpeed(b + blen, x + delay_us(blen), n + 1)
<1> SUFFICES ASSUME m_writespeedMiBs > 0
             PROVE  (b + blen) * Micro < m_writespeedMiBs * Mega * (x + delay_us(blen) + (n + 1))
  BY DEF WithinSpeed
<1> DEFINE r == m_writespeedMiBs * Mega
           d == delay_us(blen)
<1>1. d \in Nat /\ r \in Nat \ {0} /\ Micro \in Nat
  BY DelayNat, PositiveProduct, ThrottleAssumption DEF ThrottleTypeOK
<1>2. blen * Micro < r * (d + 1)
  BY DelayEnough
<1>3. b > 0 => b * Micro < r * (x + n)
  BY DEF WithinSpeed
<1> HIDE DEF r, d
<1>4. b * Micro <= r * (x + n)
  <2>1. x + n \in Nat /\ r * (x + n) \in Nat /\ b * Micro \in Nat
    BY <1>1, Product
  <2>2. CASE b = 0
    BY <1>1, <2>1, <2>2
  <2>3. CASE b > 0
    BY <1>3, <2>1, <2>3
  <2> QED
    BY <2>2, <2>3
<1>5. (b + blen) * Micro < r * (x + n + d + 1)
  BY <1>1, <1>2, <1>4, Together
<1>6. x + n + d + 1 = x + d + (n + 1)
  BY <1>1
<1> QED
  BY <1>5, <1>6 DEF r, d

-----------------------------------------------------------------------------
(* The invariant *)

\* At first nothing has been written or reported.
LEMMA ThrottleInvInit == Init => ThrottleInv
<1> SUFFICES ASSUME Init PROVE ThrottleInv
  OBVIOUS
<1>1. ThrottleTypeOK
  BY ThrottleAssumption DEF Init, ThrottleTypeOK, Calls, NoCall, NoReport
<1>2. \A t \in Threads : Sleeper(t)
  BY DEF Init, Sleeper, NoCall
<1>3. Idle /\ ReportedWithinSpeed /\ m_start <= now
  BY DEF Init, Idle, ReportedWithinSpeed, WithinSpeed, NoReport
<1> QED
  BY <1>1, <1>2, <1>3 DEF ThrottleInv

\* A thread that goes to sleep starts from what the session has counted.
LEMMA WriteKeeps ==
    ASSUME OneWriter, ThrottleInv, NEW t \in Threads, NEW blen \in Lengths, Write(t, blen)
    PROVE  ThrottleInv'
<1>1. blen \in Nat
  BY ThrottleAssumption
<1>2. delay_us(blen) \in Nat
  BY <1>1, DelayNat DEF ThrottleInv
<1>3. ThrottleTypeOK'
  <2>1. [busy |-> TRUE, blen |-> blen, wake |-> now + delay_us(blen)] \in Calls
    BY <1>1, <1>2 DEF Calls, ThrottleInv, ThrottleTypeOK
  <2> QED
    BY <2>1 DEF Write, ThrottleInv, ThrottleTypeOK
<1>4. /\ call'[t] = [busy |-> TRUE, blen |-> blen, wake |-> now + delay_us(blen)]
      /\ \A u \in Threads : u = t
  BY DEF Write, ThrottleInv, ThrottleTypeOK, OneWriter
<1>5. \A u \in Threads : ~call[u].busy
  BY <1>4 DEF Write
<1>6. WithinSpeed(bytes, now - m_start, ops)
  BY <1>5 DEF Write, ThrottleInv, Idle
<1>7. /\ m_writespeedMiBs' = m_writespeedMiBs /\ isOpen' /\ isOpen
      /\ UNCHANGED <<now, m_start, bytes, ops, report>>
  BY DEF Write
<1>8. Sleeper(t)'
  <2>1. delay_us(blen)' = delay_us(blen)
    BY <1>7 DEF delay_us
  <2>2. Began(t)' = now
    <3>1. call'[t].wake = now + delay_us(blen) /\ call'[t].blen = blen
      BY <1>4
    <3>2. (delay_us(call[t].blen))' = delay_us(blen)
      BY <1>7, <3>1 DEF delay_us
    <3>3. Began(t)' = call'[t].wake - (delay_us(call[t].blen))'
      BY DEF Began
    <3> QED
      BY <1>2, <3>1, <3>2, <3>3 DEF ThrottleInv, ThrottleTypeOK
  <2>3. WithinSpeed(bytes, now - m_start, ops)'
    BY <1>6, <1>7 DEF WithinSpeed
  <2> QED
    BY <1>7, <2>2, <2>3 DEF Sleeper, ThrottleInv, WithinSpeed
<1>9. Idle'
  BY <1>4 DEF Idle
<1>10. ReportedWithinSpeed' /\ m_start' <= now'
  BY <1>7 DEF ThrottleInv, ReportedWithinSpeed, WithinSpeed
<1> QED
  BY <1>3, <1>4, <1>8, <1>9, <1>10 DEF ThrottleInv

\* A call that wakes has slept its delay.
LEMMA WriteDoneKeeps ==
    ASSUME OneWriter, ThrottleInv, NEW t \in Threads, Write_done(t)
    PROVE  ThrottleInv'
<1>1. /\ ThrottleTypeOK /\ call[t] \in Calls /\ call[t].busy /\ now >= call[t].wake
      /\ now \in Nat /\ m_start \in Nat /\ bytes \in Nat /\ ops \in Nat
      /\ call[t].blen \in Nat /\ call[t].wake \in Nat
  BY DEF Write_done, ThrottleInv, ThrottleTypeOK, Calls
<1>2. /\ bytes' = bytes + call[t].blen /\ ops' = ops + 1
      /\ UNCHANGED <<now, m_writespeedMiBs, isOpen, m_start, report>>
      /\ call' = [call EXCEPT ![t] = NoCall]
  BY DEF Write_done
<1>3. ThrottleTypeOK'
  <2>1. NoCall \in Calls
    BY DEF NoCall, Calls
  <2> QED
    BY <1>1, <1>2, <2>1 DEF ThrottleTypeOK
<1>4. \A u \in Threads : u = t
  BY DEF OneWriter
<1>5. \A u \in Threads : ~call'[u].busy
  BY <1>1, <1>2, <1>4 DEF ThrottleTypeOK, NoCall
<1> DEFINE d == delay_us(call[t].blen)
           x == call[t].wake - d - m_start
<1>6. d \in Nat
  BY <1>1, DelayNat
<1>7. isOpen /\ m_start <= call[t].wake - d /\ WithinSpeed(bytes, x, ops)
  BY <1>1 DEF ThrottleInv, Sleeper, Began
<1>8. x \in Nat /\ x + d = call[t].wake - m_start /\ x + d <= now - m_start
  BY <1>1, <1>6, <1>7
<1>9. WithinSpeed(bytes + call[t].blen, x + d, ops + 1)
  <2> HIDE DEF x
  <2> QED
    BY <1>1, <1>7, <1>8, CallWithin
<1>10. WithinSpeed(bytes + call[t].blen, now - m_start, ops + 1)
  <2> HIDE DEF x, d
  <2>1. x + d \in Nat /\ now - m_start \in Nat /\ bytes + call[t].blen \in Nat /\ ops + 1 \in Nat
    BY <1>1, <1>6, <1>8
  <2> QED
    BY <1>1, <1>8, <1>9, <2>1, LaterWithin
<1>11. Idle'
  BY <1>2, <1>10 DEF Idle, WithinSpeed
<1>12. \A u \in Threads : Sleeper(u)'
  BY <1>5 DEF Sleeper
<1>13. ReportedWithinSpeed' /\ m_start' <= now'
  BY <1>2 DEF ThrottleInv, ReportedWithinSpeed, WithinSpeed
<1> QED
  BY <1>3, <1>11, <1>12, <1>13 DEF ThrottleInv

LEMMA ThrottleInvNext == ASSUME OneWriter, ThrottleInv, [Next]_vars PROVE ThrottleInv'
<1>1. ASSUME Open PROVE ThrottleInv'
  <2>1. /\ isOpen' /\ m_start' = now /\ bytes' = 0 /\ ops' = 0 /\ ~isOpen
        /\ UNCHANGED <<now, m_writespeedMiBs, call, report>>
    BY <1>1 DEF Open
  <2>2. ThrottleTypeOK' /\ m_start' <= now'
    BY <2>1 DEF ThrottleInv, ThrottleTypeOK
  <2>3. \A t \in Threads : ~call'[t].busy
    BY <2>1 DEF ThrottleInv, Sleeper
  <2>4. (\A t \in Threads : Sleeper(t)') /\ Idle'
    BY <2>1, <2>3 DEF Sleeper, Idle, WithinSpeed
  <2>5. ReportedWithinSpeed'
    BY <2>1 DEF ThrottleInv, ReportedWithinSpeed, WithinSpeed
  <2> QED
    BY <2>2, <2>4, <2>5 DEF ThrottleInv
<1>2. ASSUME Close PROVE ThrottleInv'
  <2>1. /\ ~isOpen' /\ isOpen /\ \A t \in Threads : ~call[t].busy
        /\ report' = [bytes_written |-> bytes, write_ops |-> ops, duration_us |-> now - m_start]
        /\ UNCHANGED <<now, m_writespeedMiBs, m_start, bytes, ops, call>>
    BY <1>2 DEF Close, ThrottleInv, ThrottleTypeOK
  <2>2. ThrottleTypeOK' /\ m_start' <= now'
    <3>1. now - m_start \in Nat /\ bytes \in Nat /\ ops \in Nat
      BY DEF ThrottleInv, ThrottleTypeOK
    <3>2. report' \in [bytes_written : Nat, write_ops : Nat, duration_us : Nat]
      BY <2>1, <3>1
    <3>3. isOpen' \in BOOLEAN
      BY <1>2 DEF Close
    <3> QED
      BY <2>1, <3>2, <3>3 DEF ThrottleInv, ThrottleTypeOK
  <2>3. (\A t \in Threads : Sleeper(t)') /\ Idle'
    BY <2>1 DEF Sleeper, Idle
  <2>4. ReportedWithinSpeed'
    BY <2>1 DEF ThrottleInv, Idle, ReportedWithinSpeed, WithinSpeed
  <2> QED
    BY <2>2, <2>3, <2>4 DEF ThrottleInv
<1>3. ASSUME Tick PROVE ThrottleInv'
  <2>1. now' = now + 1 /\ UNCHANGED <<m_writespeedMiBs, isOpen, m_start, bytes, ops, call, report>>
    BY <1>3 DEF Tick
  <2>2. ThrottleTypeOK' /\ m_start' <= now'
    BY <2>1 DEF ThrottleInv, ThrottleTypeOK
  <2>3. \A t \in Threads : Sleeper(t)'
    BY <2>1 DEF ThrottleInv, Sleeper, Began, delay_us, WithinSpeed
  <2>4. Idle'
    <3> SUFFICES ASSUME isOpen, \A t \in Threads : ~call[t].busy
                 PROVE  WithinSpeed(bytes, now - m_start, ops)'
      BY <2>1 DEF Idle
    <3>1. WithinSpeed(bytes, now - m_start, ops)
      BY DEF ThrottleInv, Idle
    <3>2. /\ ThrottleTypeOK /\ bytes \in Nat /\ ops \in Nat /\ now - m_start \in Nat
          /\ now + 1 - m_start \in Nat /\ now - m_start <= now + 1 - m_start
      BY DEF ThrottleInv, ThrottleTypeOK
    <3>3. WithinSpeed(bytes, now + 1 - m_start, ops)
      BY <3>1, <3>2, LaterWithin
    <3> DEFINE us == now + 1 - m_start
    <3>4. now' - m_start' = us
      BY <2>1, <3>2 DEF ThrottleTypeOK
    <3>5. WithinSpeed(bytes, us, ops)
      BY <3>3
    <3> HIDE DEF us
    <3> QED
      BY <2>1, <3>4, <3>5 DEF WithinSpeed
  <2>5. ReportedWithinSpeed'
    BY <2>1 DEF ThrottleInv, ReportedWithinSpeed, WithinSpeed
  <2> QED
    BY <2>2, <2>3, <2>4, <2>5 DEF ThrottleInv
<1>4. ASSUME UNCHANGED vars PROVE ThrottleInv'
  BY <1>4 DEF vars, ThrottleInv, ThrottleTypeOK, Sleeper, Began, delay_us, Idle, WithinSpeed,
              ReportedWithinSpeed
<1> QED
  BY <1>1, <1>2, <1>3, <1>4, WriteKeeps, WriteDoneKeeps DEF Next

\* For writes made one after another, of any lengths, at any speed: a transfer is
\* reported with less than the configured speed allows in its duration and one
\* microsecond more for each call (the sleeps of Write() and Write(XrdSfsAio*)
\* against the duration that Close() measures).
THEOREM SpeedKept == OneWriter => (Spec => []ReportedWithinSpeed)
<1> SUFFICES ASSUME OneWriter PROVE Spec => []ReportedWithinSpeed
  OBVIOUS
<1>1. ThrottleInv /\ [Next]_vars => ThrottleInv'
  BY ThrottleInvNext
<1>2. ThrottleInv => ReportedWithinSpeed
  BY DEF ThrottleInv
<1> QED
  BY <1>1, <1>2, ThrottleInvInit, PTL DEF Spec
=============================================================================
