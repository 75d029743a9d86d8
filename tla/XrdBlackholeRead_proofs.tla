---------------------- MODULE XrdBlackholeRead_proofs ----------------------
(***************************************************************************)
(* The read calls for any files, any requests, any generator and any word  *)
(* size: how many bytes are put into the buffers, which ones, and how many *)
(* are counted.                                                            *)
(***************************************************************************)
EXTENDS XrdBlackholeRead, FiniteSetTheorems, SequenceTheorems, TLAPS

Word == 0..(W - 1)

\* Where ReadInner() starts the generator.
Seed(s) == IF s.offset < 0 THEN 0 ELSE XorWord(s.offset, m.m_ino) % W

\* f is the states of l steps of the generator from x on.
Trace(f, x, l) ==
    /\ f \in [0..l -> Word]
    /\ f[0] = x
    /\ \A k \in 0..(l - 1) : f[k + 1] = step(f[k])

\* The first l bytes of mem are those of the states in f.
Bytes(mem, f, l) == \A b \in 0..(l - 1) : mem[b] = ByteOf(f[b + 1])

\* l steps of the generator from x on end in y and have filled mem.
Generated(x, l, y, mem) == \E f : Trace(f, x, l) /\ f[l] = y /\ Bytes(mem, f, l)

\* mem has been given its first l bytes and no other.
Filled(mem, l) == \A b \in DOMAIN mem : mem[b] # Junk <=> b < l

\* What a read of l bytes at the offset of s leaves in memory.
Content(s, l, mem) ==
    IF m.m_isRandom THEN \E y : Generated(Seed(s), l, y, mem)
    ELSE \A b \in 0..(l - 1) : mem[b] = 0

\* A memory as long as the buffer of s and the guard behind it.
Memory(s) == [0..(s.size + Guard - 1) -> Int]

Served == [seg : Segments, rc : Nat, mem : UNION {Memory(s) : s \in Segments}]

\* A segment that has been served.
Good(r) ==
    /\ r.rc = clipped(r.seg)
    /\ r.mem \in Memory(r.seg)
    /\ Filled(r.mem, r.rc)
    /\ Content(r.seg, r.rc, r.mem)

\* ReadInner() in one of the loops, or done.
Inside(s) ==
    /\ n = clipped(s)
    /\ i \in 0..n
    /\ out \in Memory(s)
    /\ state \in Word
    /\ at \in {"by8", "tail"} =>
          /\ m.m_isRandom
          /\ Filled(out, i)
          /\ Generated(Seed(s), i, state, out)
    /\ at = "zero" => ~m.m_isRandom /\ Filled(out, 0)
    /\ at = "return" => Filled(out, n) /\ Content(s, n, out)

\* Where the call under way is.
Calling ==
    /\ m \in OpenFiles
    /\ todo \in Seq(Segments)
    /\ at \in {"out", "by8", "tail", "zero", "return"}
    /\ at # "out" => todo # <<>> /\ Inside(Head(todo))

\* What is counted is what has been asked for, and nothing is left over
\* between calls.
Counted ==
    /\ m_readBytes \in Nat /\ total \in Nat
    /\ m_readBytes + total = handed
    /\ todo = <<>> => total = 0

AllGood ==
    /\ served \in Seq(Served)
    /\ \A k \in 1..Len(served) : Good(served[k])

ReadInv == Calling /\ Counted /\ AllGood

-----------------------------------------------------------------------------
(* Numbers and segments *)

\* A set of naturals has a least element.
LEMMA LeastElement ==
    ASSUME NEW T, T \subseteq Nat, T # {}
    PROVE  \E x \in T : \A y \in T : x <= y
<1> DEFINE R == OpToRel(<, Nat)
<1>1. IsWellFoundedOn(R, Nat)
  BY NatLessThanWellFounded
<1>2. \A x, y \in Nat : <<y, x>> \in R <=> y < x
  BY DEF OpToRel
<1> HIDE DEF R
<1>3. PICK x \in T : \A y \in T : ~(<<y, x>> \in R)
  BY <1>1, WFMin
<1>4. \A y \in T : x <= y
  <2> SUFFICES ASSUME NEW y \in T PROVE x <= y
    OBVIOUS
  <2>1. x \in Nat /\ y \in Nat /\ ~(y < x)
    BY <1>2, <1>3
  <2> QED
    BY <2>1
<1> QED
  BY <1>4

\* The generator is deterministic: two traces from one state agree.
LEMMA TracesAgree ==
    ASSUME NEW x, NEW l \in Nat, NEW j \in Nat, NEW f, NEW g, Trace(f, x, l), Trace(g, x, j),
           NEW b \in Nat, b <= l, b <= j
    PROVE  f[b] = g[b]
<1> DEFINE T == {k \in Nat : k <= b /\ f[k] # g[k]}
<1> SUFFICES ASSUME b \in T PROVE FALSE
  OBVIOUS
<1>1. PICK k \in T : \A y \in T : k <= y
  <2>1. T \subseteq Nat /\ T # {}
    OBVIOUS
  <2> HIDE DEF T
  <2> QED
    BY <2>1, LeastElement
<1>2. k \in Nat /\ k <= b /\ f[k] # g[k]
  OBVIOUS
<1>3. k # 0
  BY <1>2 DEF Trace
<1>4. k - 1 \in Nat /\ k - 1 \in 0..(l - 1) /\ k - 1 \in 0..(j - 1) /\ (k - 1) + 1 = k /\ k - 1 <= b /\ ~(k <= k - 1)
  BY <1>2, <1>3
<1>5. k - 1 \notin T
  BY <1>1, <1>4
<1>6. f[k - 1] = g[k - 1]
  BY <1>4, <1>5
<1>7. f[(k - 1) + 1] = step(f[k - 1]) /\ g[(k - 1) + 1] = step(g[k - 1])
  BY <1>4 DEF Trace
<1>8. f[(k - 1) + 1] = g[(k - 1) + 1]
  BY <1>6, <1>7
<1> QED
  BY <1>2, <1>4, <1>8

\* A step of the generator stays within the word.
LEMMA StepWord == ASSUME NEW x \in Word PROVE step(x) \in Word
<1>1. x * K + C \in Int
  <2>1. x \in Nat /\ K \in Nat /\ C \in Nat
    BY ReadAssumption DEF Word
  <2> QED
    BY <2>1
<1> DEFINE y == x * K + C
<1>2. y \in Int /\ W \in Nat \ {0}
  BY <1>1, ReadAssumption
<1>3. step(x) = y % W
  BY DEF step
<1> HIDE DEF y
<1> QED
  BY <1>2, <1>3 DEF Word

LEMMA SeedWord == ASSUME m \in OpenFiles, NEW s \in Segments PROVE Seed(s) \in Word
<1>1. W \in Nat \ {0} /\ s.offset \in Int
  BY ReadAssumption
<1>2. CASE s.offset < 0
  BY <1>1, <1>2 DEF Seed, Word
<1>3. CASE ~(s.offset < 0)
  <2> DEFINE y == XorWord(s.offset, m.m_ino)
  <2>1. s.offset >= 0
    BY <1>1, <1>3
  <2>2. y \in Nat
    BY <2>1, ReadAssumption
  <2>3. Seed(s) = y % W
    BY <1>3 DEF Seed
  <2> HIDE DEF y
  <2> QED
    BY <1>1, <2>2, <2>3 DEF Word
<1> QED
  BY <1>2, <1>3

\* The length ReadInner() computes is the number of positions asked for.
LEMMA ClippedExact ==
    ASSUME m \in OpenFiles, NEW s \in Segments
    PROVE  /\ clipped(s) \in Nat /\ clipped(s) <= s.size
           /\ clipped(s) = Cardinality(Asked(s))
<1>1. m.m_size \in Nat /\ s.offset \in Int /\ s.size \in Nat
  BY ReadAssumption
<1> DEFINE c == clipped(s)
<1>2. c \in Nat /\ c <= s.size
  BY <1>1 DEF clipped
<1>3. Asked(s) = s.offset .. (s.offset + c - 1)
  BY <1>1 DEF clipped, Asked
<1> DEFINE lo == s.offset
           hi == s.offset + c - 1
<1>4. lo \in Int /\ hi \in Int /\ hi = lo + c - 1
  BY <1>1, <1>2
<1> HIDE DEF lo, hi, c
<1>5. Cardinality(lo..hi) = IF lo > hi THEN 0 ELSE hi - lo + 1
  BY <1>4, FS_Interval
<1>6. Cardinality(lo..hi) = c
  BY <1>2, <1>4, <1>5
<1> QED
  BY <1>2, <1>3, <1>6 DEF c, lo, hi

-----------------------------------------------------------------------------
(* The generator *)

\* One more step of the generator extends its trace.
LEMMA TraceGrows ==
    ASSUME NEW x, NEW l \in Nat, NEW f, Trace(f, x, l), NEW j, j = l + 1
    PROVE  \E g : /\ Trace(g, x, j)
                  /\ g[j] = step(f[l])
                  /\ \A k \in 0..l : g[k] = f[k]
<1> DEFINE g == [k \in 0..(l + 1) |-> IF k <= l THEN f[k] ELSE step(f[l])]
<1>1. \A k \in 0..l : f[k] \in Word
  BY DEF Trace
<1>2. step(f[l]) \in Word
  BY <1>1, StepWord
<1>3. g \in [0..(l + 1) -> Word]
  BY <1>1, <1>2
<1>4. g[l + 1] = step(f[l]) /\ \A k \in 0..l : g[k] = f[k]
  OBVIOUS
<1>5. g[0] = x
  BY <1>4 DEF Trace
<1>6. ASSUME NEW k \in 0..((l + 1) - 1) PROVE g[k + 1] = step(g[k])
  <2>1. CASE k = l
    BY <1>4, <2>1
  <2>2. CASE k # l
    <3>1. k \in 0..(l - 1) /\ k \in 0..l /\ k + 1 \in 0..l
      BY <2>2
    <3>2. f[k + 1] = step(f[k])
      BY <3>1 DEF Trace
    <3> QED
      BY <1>4, <3>1, <3>2
  <2> QED
    BY <2>1, <2>2
<1>7. Trace(g, x, l + 1)
  <2> HIDE DEF g
  <2> QED
    BY <1>3, <1>5, <1>6 DEF Trace
<1> HIDE DEF g
<1> QED
  BY <1>4, <1>7

\* The eight states of a round: the first is a step from the state before it,
\* each other one a step from its predecessor.
LEMMA EightSteps ==
    ASSUME NEW y \in Word
    PROVE  /\ eight(y)[1] = step(y)
           /\ \A k \in 1..7 : eight(y)[k + 1] = step(eight(y)[k])
           /\ \A k \in 1..8 : eight(y)[k] \in Word
<1> DEFINE s1 == step(y)
           s2 == step(s1)
           s3 == step(s2)
           s4 == step(s3)
           s5 == step(s4)
           s6 == step(s5)
           s7 == step(s6)
           s8 == step(s7)
<1>1. eight(y) = <<s1, s2, s3, s4, s5, s6, s7, s8>>
  BY DEF eight
<1>2. s2 = step(s1) /\ s3 = step(s2) /\ s4 = step(s3) /\ s5 = step(s4) /\ s6 = step(s5) /\ s7 = step(s6) /\ s8 = step(s7)
  OBVIOUS
<1>3. s1 = step(y) /\ s1 \in Word
  BY StepWord
<1> HIDE DEF s1, s2, s3, s4, s5, s6, s7, s8
<1>4. s2 \in Word
  BY <1>2, <1>3, StepWord
<1>5. s3 \in Word
  BY <1>2, <1>4, StepWord
<1>6. s4 \in Word
  BY <1>2, <1>5, StepWord
<1>7. s5 \in Word
  BY <1>2, <1>6, StepWord
<1>8. s6 \in Word
  BY <1>2, <1>7, StepWord
<1>9. s7 \in Word
  BY <1>2, <1>8, StepWord
<1>10. s8 \in Word
  BY <1>2, <1>9, StepWord
<1> DEFINE e == eight(y)
<1>11. /\ e[1] = s1 /\ e[2] = s2 /\ e[3] = s3 /\ e[4] = s4
       /\ e[5] = s5 /\ e[6] = s6 /\ e[7] = s7 /\ e[8] = s8
  BY <1>1
<1>12. /\ \A k \in 1..8 : k = 1 \/ k = 2 \/ k = 3 \/ k = 4 \/ k = 5 \/ k = 6 \/ k = 7 \/ k = 8
       /\ \A k \in 1..7 : k \in 1..8 /\ k # 8
  OBVIOUS
<1> HIDE DEF e
<1>13. \A k \in 1..8 : e[k] \in Word
  BY <1>3, <1>4, <1>5, <1>6, <1>7, <1>8, <1>9, <1>10, <1>11, <1>12
<1>14. ASSUME NEW k \in 1..7 PROVE e[k + 1] = step(e[k])
  <2>1. k = 1 \/ k = 2 \/ k = 3 \/ k = 4 \/ k = 5 \/ k = 6 \/ k = 7
    BY <1>12
  <2> QED
    BY <1>2, <1>11, <2>1
<1> QED
  BY <1>3, <1>11, <1>13, <1>14 DEF e

\* A round of the unrolled loop extends the trace by its eight states.
LEMMA TraceGrowsByEight ==
    ASSUME NEW x, NEW l \in Nat, NEW f, Trace(f, x, l), NEW y, y = f[l], NEW c, c = l + 8
    PROVE  \E g : /\ Trace(g, x, c)
                  /\ \A k \in 0..l : g[k] = f[k]
                  /\ \A k \in 1..8 : g[l + k] = eight(y)[k]
<1> DEFINE e == eight(f[l])
           g == [k \in 0..(l + 8) |-> IF k <= l THEN f[k] ELSE e[k - l]]
<1>1. \A k \in 0..l : f[k] \in Word
  BY DEF Trace
<1>2. /\ e[1] = step(f[l])
      /\ \A k \in 1..7 : e[k + 1] = step(e[k])
      /\ \A k \in 1..8 : e[k] \in Word
  BY <1>1, EightSteps
<1> HIDE DEF e
<1>3. g \in [0..(l + 8) -> Word]
  <2> SUFFICES ASSUME NEW k \in 0..(l + 8) PROVE (IF k <= l THEN f[k] ELSE e[k - l]) \in Word
    OBVIOUS
  <2>1. CASE k <= l
    BY <1>1, <2>1
  <2>2. CASE ~(k <= l)
    <3> DEFINE j == k - l
    <3>1. j \in 1..8
      BY <2>2
    <3> HIDE DEF j
    <3>2. e[j] \in Word
      BY <1>2, <3>1
    <3> QED
      BY <2>2, <3>2 DEF j
  <2> QED
    BY <2>1, <2>2
<1>4. \A k \in 0..l : g[k] = f[k]
  OBVIOUS
<1>5. ASSUME NEW k \in 1..8 PROVE g[l + k] = e[k]
  <2>1. l + k \in 0..(l + 8) /\ ~(l + k <= l) /\ (l + k) - l = k
    OBVIOUS
  <2> QED
    BY <2>1
<1>6. g[0] = x
  BY <1>4 DEF Trace
<1> HIDE DEF g
<1>7. ASSUME NEW k \in 0..((l + 8) - 1) PROVE g[k + 1] = step(g[k])
  <2>1. CASE k < l
    <3>1. k \in 0..(l - 1) /\ k \in 0..l /\ k + 1 \in 0..l
      BY <2>1
    <3>2. f[k + 1] = step(f[k])
      BY <3>1 DEF Trace
    <3> QED
      BY <1>4, <3>1, <3>2
  <2>2. CASE k = l
    <3>1. g[l + 1] = e[1] /\ g[l] = f[l]
      BY <1>4, <1>5
    <3> QED
      BY <1>2, <2>2, <3>1
  <2>3. CASE k > l
    <3> DEFINE j == k - l
    <3>1. j \in 1..7 /\ j \in 1..8 /\ j + 1 \in 1..8 /\ l + j = k /\ l + (j + 1) = k + 1
      BY <2>3
    <3> HIDE DEF j
    <3>2. g[l + j] = e[j] /\ g[l + (j + 1)] = e[j + 1] /\ e[j + 1] = step(e[j])
      BY <1>2, <1>5, <3>1
    <3> QED
      BY <3>1, <3>2
  <2> QED
    BY <2>1, <2>2, <2>3
<1>8. Trace(g, x, l + 8)
  BY <1>3, <1>6, <1>7 DEF Trace
<1> QED
  BY <1>4, <1>5, <1>8 DEF e

-----------------------------------------------------------------------------
(* Buffers *)

LEMMA BufferEmpty ==
    ASSUME NEW s \in Segments
    PROVE  /\ Buffer(s.size) \in Memory(s)
           /\ Filled(Buffer(s.size), 0)
<1>1. s.size \in Nat
  BY ReadAssumption
<1> QED
  BY <1>1 DEF Buffer, Memory, Filled, Junk, Guard

\* Putting bytes in a row behind those that are there.
LEMMA FilledGrows ==
    ASSUME NEW s \in Segments, NEW mem \in Memory(s), NEW l \in Nat, NEW d \in Nat,
           Filled(mem, l), NEW new \in Memory(s),
           \A b \in DOMAIN mem : IF b \in l..(l + d - 1) THEN new[b] \in Nat ELSE new[b] = mem[b]
    PROVE  Filled(new, l + d)
<1>1. s.size \in Nat
  BY ReadAssumption
<1>2. DOMAIN new = DOMAIN mem /\ \A b \in DOMAIN mem : b \in Nat
  BY <1>1 DEF Memory, Guard
<1> SUFFICES ASSUME NEW b \in DOMAIN mem PROVE new[b] # Junk <=> b < l + d
  BY <1>2 DEF Filled
<1>3. b \in Nat /\ (mem[b] # Junk <=> b < l)
  BY <1>2 DEF Filled
<1>4. CASE b \in l..(l + d - 1)
  <2>1. new[b] \in Nat
    BY <1>4
  <2> QED
    BY <1>4, <2>1 DEF Junk
<1>5. CASE ~(b \in l..(l + d - 1))
  <2>1. new[b] = mem[b]
    BY <1>5
  <2>2. b < l <=> b < l + d
    BY <1>3, <1>5
  <2> QED
    BY <1>3, <2>1, <2>2
<1> QED
  BY <1>4, <1>5

\* What a buffer holds does not depend on the call that is under way.
LEMMA ContentFrame ==
    ASSUME m' = m, NEW s
    PROVE  /\ clipped(s)' = clipped(s)
           /\ Seed(s)' = Seed(s)
           /\ \A l, mem : Content(s, l, mem)' <=> Content(s, l, mem)
<1>1. clipped(s)' = clipped(s)
  BY DEF clipped
<1>2. Seed(s)' = Seed(s)
  BY DEF Seed
<1> QED
  BY <1>1, <1>2 DEF Content

LEMMA AllGoodFrame ==
    ASSUME AllGood, UNCHANGED <<m, served>>
    PROVE  AllGood'
<1>1. m' = m /\ served' = served
  OBVIOUS
<1>2. \A k \in 1..Len(served) : Good(served[k])'
  <2> SUFFICES ASSUME NEW k \in 1..Len(served) PROVE Good(served[k])'
    OBVIOUS
  <2>1. PICK r : r = served[k]
    OBVIOUS
  <2>2. Good(r) /\ served[k]' = r
    BY <1>1, <2>1 DEF AllGood
  <2>3. Good(r)'
    BY <1>1, <2>2, ContentFrame DEF Good
  <2> QED
    BY <1>1, <2>1, <2>3 DEF Good
<1> QED
  BY <1>1, <1>2 DEF AllGood

-----------------------------------------------------------------------------
(* The actions *)

LEMMA ReadInvInit == Init => ReadInv
<1> SUFFICES ASSUME Init PROVE ReadInv
  OBVIOUS
<1>1. Calling
  BY EmptySeq DEF Init, Calling
<1>2. Counted
  BY DEF Init, Counted
<1>3. AllGood
  <2>1. served = <<>> /\ served \in Seq(Served) /\ Len(served) = 0
    BY EmptySeq DEF Init
  <2> QED
    BY <2>1 DEF AllGood
<1> QED
  BY <1>1, <1>2, <1>3 DEF ReadInv

LEMMA ReadStep ==
    ASSUME ReadInv, NEW s \in Segments, Read(s)
    PROVE  ReadInv'
<1>1. AllGood'
  BY AllGoodFrame DEF Read, ReadInv
<1>2. todo = <<>> /\ todo' = <<s>> /\ at = "out" /\ at' = at
  BY DEF Read, Idle, locals
<1>3. todo' \in Seq(Segments)
  BY <1>2
<1>4. Calling'
  BY <1>2, <1>3 DEF Read, ReadInv, Calling
<1>5. Counted'
  BY <1>2 DEF Read, ReadInv, Counted
<1> QED
  BY <1>1, <1>4, <1>5 DEF ReadInv

LEMMA ReadVStep ==
    ASSUME ReadInv, NEW s \in Segments, NEW t \in Segments, ReadV(s, t)
    PROVE  ReadInv'
<1>1. AllGood'
  BY AllGoodFrame DEF ReadV, ReadInv
<1>2. todo = <<>> /\ todo' = Wanted(s) \o Wanted(t) /\ at = "out" /\ at' = at
  BY DEF ReadV, Idle, locals
<1>3. Wanted(s) \in Seq(Segments) /\ Wanted(t) \in Seq(Segments)
  BY EmptySeq DEF Wanted
<1>4. todo' \in Seq(Segments)
  BY <1>2, <1>3, ConcatProperties
<1>5. Calling'
  BY <1>2, <1>4 DEF ReadV, ReadInv, Calling
<1>6. Counted'
  BY <1>2 DEF ReadV, ReadInv, Counted
<1> QED
  BY <1>1, <1>5, <1>6 DEF ReadInv

\* The steps inside ReadInner() change nothing but its locals.
LEMMA LocalStep ==
    ASSUME ReadInv, UNCHANGED <<m, m_readBytes, todo, total, served, handed>>,
           at' \in {"by8", "tail", "zero", "return"}, todo # <<>>, Inside(Head(todo))'
    PROVE  ReadInv'
<1>1. AllGood'
  BY AllGoodFrame DEF ReadInv
<1>2. Counted'
  BY DEF ReadInv, Counted
<1>3. Calling'
  BY DEF ReadInv, Calling
<1> QED
  BY <1>1, <1>2, <1>3 DEF ReadInv

\* The segment that is being served.
LEMMA Serving ==
    ASSUME Calling, todo # <<>>
    PROVE  Head(todo) \in Segments /\ Tail(todo) \in Seq(Segments)
BY HeadTailProperties DEF Calling

LEMMA ReadInnerStep ==
    ASSUME ReadInv, ReadInner
    PROVE  ReadInv'
<1> DEFINE s == Head(todo)
<1>1. s \in Segments /\ todo # <<>> /\ UNCHANGED <<m, m_readBytes, todo, total, served, handed>> /\ m \in OpenFiles
  BY Serving DEF ReadInner, ReadInv, Calling
<1>2. PICK c \in Nat : c = clipped(s) /\ n' = c
  BY <1>1, ClippedExact DEF ReadInner
<1>3. i' = 0 /\ state' = Seed(s) /\ state' \in Word
  BY <1>1, SeedWord DEF ReadInner, Seed
<1>4. out' = Buffer(s.size) /\ out' \in Memory(s) /\ Filled(out', 0)
  BY <1>1, BufferEmpty DEF ReadInner
<1>5. at' = IF c = 0 THEN "return" ELSE IF m.m_isRandom THEN "by8" ELSE "zero"
  BY <1>2 DEF ReadInner
<1>6. Trace([k \in 0..0 |-> Seed(s)], Seed(s), 0)
  BY <1>3 DEF Trace
<1>7. Generated(Seed(s), 0, Seed(s), out')
  <2> DEFINE f == [k \in 0..0 |-> Seed(s)]
  <2>1. f[0] = Seed(s) /\ Bytes(out', f, 0)
    BY DEF Bytes
  <2> HIDE DEF f
  <2> QED
    BY <1>6, <2>1 DEF f, Generated
<1>8. PICK r : r = s /\ r = Head(todo) /\ r = Head(todo)'
  BY <1>1
<1>9. Inside(r)'
  <2>1. clipped(r)' = c /\ Seed(r)' = Seed(s) /\ m.m_isRandom' = m.m_isRandom
    BY <1>1, <1>2, <1>8, ContentFrame
  <2>2. i' \in 0..n' /\ out' \in Memory(r)
    BY <1>2, <1>3, <1>4, <1>8
  <2>3. at' \in {"by8", "tail"} =>
          /\ m.m_isRandom'
          /\ Filled(out', i')
          /\ Generated(Seed(r)', i', state', out')
    BY <1>3, <1>4, <1>5, <1>7, <2>1
  <2>4. at' = "zero" => ~m.m_isRandom' /\ Filled(out', 0)
    BY <1>4, <1>5, <2>1
  <2>5. at' = "return" => Filled(out', n') /\ Content(r, n, out)'
    <3> SUFFICES ASSUME at' = "return" PROVE Filled(out', n') /\ Content(r, n, out)'
      OBVIOUS
    <3>1. c = 0
      BY <1>5
    <3>2. \A b \in 0..(n' - 1) : out'[b] = 0
      BY <1>2, <3>1
    <3>3. n' = 0
      BY <1>2, <3>1
    <3> QED
      BY <1>4, <1>7, <2>1, <3>2, <3>3 DEF Content
  <2> QED
    BY <1>2, <1>3, <2>1, <2>2, <2>3, <2>4, <2>5 DEF Inside, Memory
<1> QED
  BY <1>1, <1>5, <1>8, <1>9, LocalStep

\* The bytes that d more steps of the generator put behind those that are there.
LEMMA BytesGrow ==
    ASSUME NEW mem, NEW new, NEW f, NEW g, NEW l \in Nat, NEW d \in Nat, Bytes(mem, f, l),
           \A k \in 0..l : g[k] = f[k],
           \A b \in 0..(l - 1) : new[b] = mem[b],
           \A k \in 1..d : new[l + k - 1] = ByteOf(g[l + k])
    PROVE  Bytes(new, g, l + d)
<1> SUFFICES ASSUME NEW b \in 0..(l + d - 1) PROVE new[b] = ByteOf(g[b + 1])
  BY DEF Bytes
<1>1. CASE b < l
  <2>1. b \in 0..(l - 1) /\ b + 1 \in 0..l
    BY <1>1
  <2>2. mem[b] = ByteOf(f[b + 1])
    BY <2>1 DEF Bytes
  <2>3. g[b + 1] = f[b + 1] /\ new[b] = mem[b]
    BY <2>1
  <2> QED
    BY <2>2, <2>3
<1>2. CASE ~(b < l)
  <2> DEFINE k == b + 1 - l
  <2>1. k \in 1..d /\ l + k - 1 = b /\ l + k = b + 1
    BY <1>2
  <2> HIDE DEF k
  <2>2. new[l + k - 1] = ByteOf(g[l + k])
    BY <2>1
  <2> QED
    BY <2>1, <2>2
<1> QED
  BY <1>1, <1>2

\* While the generator fills the buffer of s, i bytes of it are written.
LEMMA Filling ==
    ASSUME ReadInv, at \in {"by8", "tail"}
    PROVE  \E s \in Segments :
              /\ s = Head(todo) /\ todo # <<>> /\ m \in OpenFiles
              /\ n = clipped(s) /\ n \in Nat /\ i \in 0..n /\ i \in Nat /\ n <= s.size
              /\ out \in Memory(s) /\ state \in Word /\ m.m_isRandom /\ Filled(out, i)
              /\ Generated(Seed(s), i, state, out)
<1>1. Calling /\ at # "out"
  BY DEF ReadInv
<1>2. PICK s : s = Head(todo)
  OBVIOUS
<1>3. todo # <<>> /\ Inside(s) /\ m \in OpenFiles
  BY <1>1, <1>2 DEF Calling
<1>4. s \in Segments
  BY <1>1, <1>2, <1>3, Serving
<1>5. clipped(s) \in Nat /\ clipped(s) <= s.size
  BY <1>3, <1>4, ClippedExact
<1>6. n = clipped(s) /\ i \in 0..n
  BY <1>3 DEF Inside
<1>7. i \in Nat /\ n \in Nat /\ n <= s.size
  BY <1>5, <1>6
<1>8. /\ out \in Memory(s) /\ state \in Word /\ m.m_isRandom /\ Filled(out, i)
      /\ Generated(Seed(s), i, state, out)
  BY <1>3 DEF Inside
<1> QED
  BY <1>2, <1>3, <1>4, <1>6, <1>7, <1>8

\* A step of the loops that stays in them, or that leaves them when all is written.
LEMMA FillingOn ==
    ASSUME ReadInv, NEW s \in Segments, s = Head(todo), todo # <<>>, m \in OpenFiles, m.m_isRandom,
           n = clipped(s), n \in Nat,
           UNCHANGED <<m, m_readBytes, todo, total, n, served, handed>>,
           at' \in {"by8", "tail", "return"}, at' = "return" => i' = n,
           i' \in 0..n, out' \in Memory(s), state' \in Word, Filled(out', i'),
           Generated(Seed(s), i', state', out')
    PROVE  ReadInv'
<1>1. clipped(s)' = clipped(s) /\ Seed(s)' = Seed(s) /\ m.m_isRandom' /\ n' = n
  BY ContentFrame
<1>2. at' = "return" => Filled(out', n') /\ Content(s, n, out)'
  BY <1>1 DEF Content
<1>3. Inside(s)'
  BY <1>1, <1>2 DEF Inside, Memory
<1>4. s = Head(todo)'
  OBVIOUS
<1> QED
  BY <1>3, <1>4, LocalStep

LEMMA fill8Step ==
    ASSUME ReadInv, fill8
    PROVE  ReadInv'
<1>1. at \in {"by8", "tail"} /\ UNCHANGED <<m, m_readBytes, todo, total, n, served, handed>>
  BY DEF fill8
<1>2. PICK s \in Segments :
              /\ s = Head(todo) /\ todo # <<>> /\ m \in OpenFiles
              /\ n = clipped(s) /\ n \in Nat /\ i \in 0..n /\ i \in Nat /\ n <= s.size
              /\ out \in Memory(s) /\ state \in Word /\ m.m_isRandom /\ Filled(out, i)
              /\ Generated(Seed(s), i, state, out)
  BY <1>1, Filling
<1>3. PICK f, x : x = Seed(s) /\ Trace(f, x, i) /\ f[i] = state /\ Bytes(out, f, i)
  BY <1>2 DEF Generated
<1>4. CASE ~(i + 8 <= n)
  <2>1. at' = "tail" /\ i' = i /\ state' = state /\ out' = out
    BY <1>4 DEF fill8
  <2>2. /\ i' \in 0..n /\ out' \in Memory(s) /\ state' \in Word /\ Filled(out', i')
        /\ Generated(Seed(s), i', state', out')
    BY <1>2, <1>3, <2>1
  <2>3. at' \in {"by8", "tail", "return"} /\ (at' = "return" => i' = n)
    BY <2>1
  <2> QED
    BY <1>1, <1>2, <2>2, <2>3, FillingOn
<1>5. CASE i + 8 <= n
  <2>1. /\ state' = eight(state)[8]
        /\ out' = [k \in DOMAIN out |->
                          IF k \in i .. i + 7 THEN ByteOf(eight(state)[k - i + 1]) ELSE out[k]]
        /\ i' = i + 8 /\ at' = at
    BY <1>5 DEF fill8
  <2>2. PICK g : /\ Trace(g, x, i + 8)
                 /\ \A k \in 0..i : g[k] = f[k]
                 /\ \A k \in 1..8 : g[i + k] = eight(state)[k]
    <3>1. PICK c : c = i + 8
      OBVIOUS
    <3>2. i \in Nat /\ Trace(f, x, i) /\ state = f[i]
      BY <1>2, <1>3
    <3>3. \E g : /\ Trace(g, x, c)
                 /\ \A k \in 0..i : g[k] = f[k]
                 /\ \A k \in 1..8 : g[i + k] = eight(state)[k]
      BY <3>1, <3>2, TraceGrowsByEight
    <3> QED
      BY <3>1, <3>3
  <2>3. s.size \in Nat /\ DOMAIN out = 0..(s.size + 7) /\ DOMAIN out' = DOMAIN out
    BY <1>2, <2>1, ReadAssumption DEF Memory, Guard
  <2>4. /\ \A k \in 1..8 : eight(state)[k] \in Word
        /\ \A k \in 1..8 : ByteOf(eight(state)[k]) \in Nat
    <3>1. \A k \in 1..8 : eight(state)[k] \in Word
      BY <1>2, EightSteps
    <3> QED
      BY <3>1, ReadAssumption DEF Word
  <2>5. \A b \in DOMAIN out : IF b \in i..(i + 8 - 1) THEN out'[b] \in Nat ELSE out'[b] = out[b]
    <3> SUFFICES ASSUME NEW b \in DOMAIN out
                 PROVE  IF b \in i..(i + 8 - 1) THEN out'[b] \in Nat ELSE out'[b] = out[b]
      OBVIOUS
    <3>1. b \in Int /\ i + 8 - 1 = i + 7
      BY <1>2, <2>3
    <3>2. CASE b \in i..(i + 7)
      <4> DEFINE k == b - i + 1
      <4>1. k \in 1..8 /\ b - i + 1 = k
        BY <1>2, <3>1, <3>2
      <4> HIDE DEF k
      <4>2. out'[b] = ByteOf(eight(state)[k])
        BY <2>1, <3>2, <4>1
      <4> QED
        BY <2>4, <3>1, <3>2, <4>1, <4>2
    <3>3. CASE ~(b \in i..(i + 7))
      BY <2>1, <3>1, <3>3
    <3> QED
      BY <3>2, <3>3
  <2>6. out' \in Memory(s)
    <3>1. \A b \in DOMAIN out : out'[b] \in Int
      BY <1>2, <2>5 DEF Memory
    <3> DEFINE D == DOMAIN out
    <3>2. out' = [b \in D |-> out'[b]] /\ D = 0..(s.size + Guard - 1)
      BY <1>2, <2>1 DEF Memory
    <3> HIDE DEF D
    <3> QED
      BY <3>1, <3>2 DEF Memory, D
  <2>7. Filled(out', i + 8)
    <3>1. 8 \in Nat
      OBVIOUS
    <3> QED
      BY <1>2, <2>5, <2>6, <3>1, FilledGrows
  <2>8. Bytes(out', g, i + 8)
    <3>1. \A b \in 0..(i - 1) : out'[b] = out[b]
      <4> SUFFICES ASSUME NEW b \in 0..(i - 1) PROVE out'[b] = out[b]
        OBVIOUS
      <4>1. b \in DOMAIN out /\ ~(b \in i..(i + 8 - 1))
        BY <1>2, <2>3
      <4> QED
        BY <2>5, <4>1
    <3>2. \A k \in 1..8 : out'[i + k - 1] = ByteOf(g[i + k])
      <4> SUFFICES ASSUME NEW k \in 1..8 PROVE out'[i + k - 1] = ByteOf(g[i + k])
        OBVIOUS
      <4> DEFINE b == i + k - 1
      <4>1. b \in DOMAIN out /\ b \in i..(i + 7) /\ b - i + 1 = k
        BY <1>2, <1>5, <2>3
      <4> HIDE DEF b
      <4>2. out'[b] = ByteOf(eight(state)[k])
        BY <2>1, <4>1
      <4> QED
        BY <2>2, <4>2 DEF b
    <3>3. 8 \in Nat
      OBVIOUS
    <3> QED
      BY <1>2, <1>3, <2>2, <3>1, <3>2, <3>3, BytesGrow
  <2>9. g[i + 8] = state' /\ state' \in Word /\ i + 8 \in 0..n
    BY <1>2, <1>5, <2>1, <2>2, <2>4
  <2>10. /\ i' \in 0..n /\ out' \in Memory(s) /\ state' \in Word /\ Filled(out', i')
         /\ Generated(Seed(s), i', state', out')
    BY <1>3, <2>1, <2>2, <2>6, <2>7, <2>8, <2>9 DEF Generated
  <2>11. at' \in {"by8", "tail", "return"} /\ (at' = "return" => i' = n)
    BY <1>1, <2>1
  <2> QED
    BY <1>1, <1>2, <2>10, <2>11, FillingOn
<1> QED
  BY <1>4, <1>5

LEMMA fill1Step ==
    ASSUME ReadInv, fill1
    PROVE  ReadInv'
<1>1. at \in {"by8", "tail"} /\ UNCHANGED <<m, m_readBytes, todo, total, n, served, handed>>
  BY DEF fill1
<1>2. PICK s \in Segments :
              /\ s = Head(todo) /\ todo # <<>> /\ m \in OpenFiles
              /\ n = clipped(s) /\ n \in Nat /\ i \in 0..n /\ i \in Nat /\ n <= s.size
              /\ out \in Memory(s) /\ state \in Word /\ m.m_isRandom /\ Filled(out, i)
              /\ Generated(Seed(s), i, state, out)
  BY <1>1, Filling
<1>3. PICK f, x : x = Seed(s) /\ Trace(f, x, i) /\ f[i] = state /\ Bytes(out, f, i)
  BY <1>2 DEF Generated
<1>4. CASE ~(i < n)
  <2>1. at' = "return" /\ i' = i /\ state' = state /\ out' = out /\ i = n
    BY <1>2, <1>4 DEF fill1
  <2>2. /\ i' \in 0..n /\ out' \in Memory(s) /\ state' \in Word /\ Filled(out', i')
        /\ Generated(Seed(s), i', state', out')
    BY <1>2, <2>1
  <2>3. at' \in {"by8", "tail", "return"} /\ (at' = "return" => i' = n)
    BY <2>1
  <2> QED
    BY <1>1, <1>2, <2>2, <2>3, FillingOn
<1>5. CASE i < n
  <2>1. /\ state' = step(state)
        /\ out' = [out EXCEPT ![i] = ByteOf(step(state))]
        /\ i' = i + 1 /\ at' = at
    BY <1>5 DEF fill1
  <2>2. PICK g : /\ Trace(g, x, i + 1)
                 /\ g[i + 1] = step(state)
                 /\ \A k \in 0..i : g[k] = f[k]
    <3>1. i \in Nat /\ Trace(f, x, i)
      BY <1>2, <1>3
    <3>2. PICK j : j = i + 1
      OBVIOUS
    <3>3. \E g : /\ Trace(g, x, j)
                 /\ g[j] = step(f[i])
                 /\ \A k \in 0..i : g[k] = f[k]
      BY <3>1, <3>2, TraceGrows
    <3> QED
      BY <1>3, <3>2, <3>3
  <2>3. s.size \in Nat /\ DOMAIN out = 0..(s.size + 7) /\ DOMAIN out' = DOMAIN out /\ i \in DOMAIN out
    BY <1>2, <1>5, <2>1, ReadAssumption DEF Memory, Guard
  <2>4. step(state) \in Word
    BY <1>2, StepWord
  <2>5. ByteOf(step(state)) \in Nat
    BY <2>4, ReadAssumption DEF Word
  <2>6. out' \in Memory(s)
    <3>1. PICK v : v = ByteOf(step(state)) /\ v \in Int
      BY <2>5
    <3> DEFINE D == 0..(s.size + Guard - 1)
    <3>2. out \in [D -> Int] /\ out' = [out EXCEPT ![i] = v]
      BY <1>2, <2>1, <3>1 DEF Memory
    <3> HIDE DEF D
    <3>3. out' \in [D -> Int]
      BY <3>1, <3>2
    <3> QED
      BY <3>3 DEF Memory, D
  <2>7. \A b \in DOMAIN out : IF b = i THEN out'[b] \in Nat ELSE out'[b] = out[b]
    BY <2>1, <2>3, <2>5
  <2>8. Filled(out', i + 1)
    <3>1. 1 \in Nat /\ \A b \in DOMAIN out : b \in i..(i + 1 - 1) <=> b = i
      BY <1>2, <2>3
    <3>2. \A b \in DOMAIN out : IF b \in i..(i + 1 - 1) THEN out'[b] \in Nat ELSE out'[b] = out[b]
      BY <2>7, <3>1
    <3> QED
      BY <1>2, <2>6, <3>1, <3>2, FilledGrows
  <2>9. Bytes(out', g, i + 1)
    <3>1. \A b \in 0..(i - 1) : out'[b] = out[b]
      <4> SUFFICES ASSUME NEW b \in 0..(i - 1) PROVE out'[b] = out[b]
        OBVIOUS
      <4>1. b \in DOMAIN out /\ b # i
        BY <1>2, <1>5, <2>3
      <4> QED
        BY <2>7, <4>1
    <3>2. \A k \in 1..1 : out'[i + k - 1] = ByteOf(g[i + k])
      <4>1. out'[i] = ByteOf(g[i + 1])
        BY <2>1, <2>2, <2>3
      <4>2. i + 1 - 1 = i /\ \A k \in 1..1 : k = 1
        BY <1>2
      <4> QED
        BY <4>1, <4>2
    <3>3. 1 \in Nat
      OBVIOUS
    <3> QED
      BY <1>2, <1>3, <2>2, <3>1, <3>2, <3>3, BytesGrow
  <2>10. /\ i' \in 0..n /\ out' \in Memory(s) /\ state' \in Word /\ Filled(out', i')
         /\ Generated(Seed(s), i', state', out')
    <3>1. i' \in 0..n
      BY <1>2, <1>5, <2>1
    <3>2. Generated(x, i + 1, step(state), out')
      BY <2>2, <2>9 DEF Generated
    <3> QED
      BY <1>3, <2>1, <2>4, <2>6, <2>8, <3>1, <3>2
  <2>11. at' \in {"by8", "tail", "return"} /\ (at' = "return" => i' = n)
    BY <1>1, <2>1
  <2> QED
    BY <1>1, <1>2, <2>10, <2>11, FillingOn
<1> QED
  BY <1>4, <1>5

LEMMA memsetStep ==
    ASSUME ReadInv, memset
    PROVE  ReadInv'
<1>1. at = "zero" /\ at' = "return" /\ UNCHANGED <<m, m_readBytes, todo, total, n, i, state, served, handed>>
  BY DEF memset
<1>2. PICK s : s = Head(todo) /\ Inside(s) /\ todo # <<>> /\ m \in OpenFiles
  BY <1>1 DEF ReadInv, Calling
<1>3. s \in Segments
  BY <1>2, Serving DEF ReadInv
<1>4. clipped(s) \in Nat /\ clipped(s) <= s.size /\ s.size \in Nat
  BY <1>2, <1>3, ClippedExact, ReadAssumption
<1>5. n = clipped(s) /\ ~m.m_isRandom /\ Filled(out, 0) /\ out \in Memory(s) /\ state \in Word /\ i \in 0..n
  BY <1>1, <1>2 DEF Inside
<1>6. out' = [k \in DOMAIN out |-> IF k < n THEN 0 ELSE out[k]]
  BY DEF memset
<1>7. DOMAIN out = 0..(s.size + 7)
  BY <1>5 DEF Memory, Guard
<1>8. out' \in Memory(s)
  BY <1>4, <1>5, <1>6 DEF Memory, Guard
<1>9. Filled(out', n)
  <2>1. n \in Nat
    BY <1>4, <1>5
  <2>2. \A b \in DOMAIN out : out'[b] = (IF b < n THEN 0 ELSE out[b]) /\ out[b] = Junk
    BY <1>5, <1>6, <1>7, <1>4 DEF Filled
  <2>3. DOMAIN out' = DOMAIN out
    BY <1>6
  <2> QED
    BY <2>2, <2>3 DEF Filled, Junk
<1>10. \A b \in 0..(n - 1) : out'[b] = 0
  <2> SUFFICES ASSUME NEW b \in 0..(n - 1) PROVE out'[b] = 0
    OBVIOUS
  <2>1. b \in DOMAIN out /\ b < n
    BY <1>4, <1>5, <1>7
  <2> QED
    BY <1>6, <2>1
<1>11. clipped(s)' = clipped(s) /\ m.m_isRandom' = m.m_isRandom
  BY <1>1, ContentFrame
<1>12. Content(s, n, out)'
  BY <1>1, <1>5, <1>10, <1>11 DEF Content
<1>13. Inside(s)'
  BY <1>1, <1>5, <1>8, <1>9, <1>11, <1>12 DEF Inside, Memory
<1>14. s = Head(todo)'
  BY <1>1, <1>2
<1> QED
  BY <1>1, <1>2, <1>13, <1>14, LocalStep

LEMMA ReturnStep ==
    ASSUME ReadInv, Return
    PROVE  ReadInv'
<1>1. at = "return" /\ at' = "out" /\ m' = m
  BY DEF Return
<1>2. PICK s : s = Head(todo) /\ Inside(s) /\ todo # <<>> /\ m \in OpenFiles
  BY <1>1 DEF ReadInv, Calling
<1>3. s \in Segments /\ Tail(todo) \in Seq(Segments)
  BY <1>2, Serving DEF ReadInv
<1>4. clipped(s) \in Nat /\ clipped(s) = Cardinality(Asked(s))
  BY <1>2, <1>3, ClippedExact
<1>5. n = clipped(s) /\ Filled(out, n) /\ out \in Memory(s) /\ Content(s, n, out)
  BY <1>1, <1>2 DEF Inside
<1>6. Calling'
  BY <1>1, <1>2, <1>3 DEF Return, Calling
<1>7. Counted'
  <2>1. n \in Nat /\ handed' = handed + n
    BY <1>2, <1>4, <1>5 DEF Return
  <2>2. IF todo' = <<>> THEN m_readBytes' = m_readBytes + total + n /\ total' = 0
                        ELSE total' = total + n /\ m_readBytes' = m_readBytes
    BY DEF Return
  <2>3. m_readBytes \in Nat /\ total \in Nat /\ m_readBytes + total = handed
    BY DEF ReadInv, Counted
  <2> QED
    BY <2>1, <2>2, <2>3 DEF Counted
<1>8. AllGood'
  <2>1. PICK r : r = [seg |-> s, rc |-> n, mem |-> out]
    OBVIOUS
  <2>2. served' = Append(served, r) /\ served \in Seq(Served)
    BY <1>2, <2>1 DEF Return, ReadInv, AllGood
  <2>3. r \in Served /\ r.seg = s /\ r.rc = n /\ r.mem = out
    BY <1>3, <1>4, <1>5, <2>1 DEF Served
  <2>4. Good(r)
    BY <1>5, <2>3 DEF Good
  <2>5. \A q : Good(q) => Good(q)'
    BY <1>1, ContentFrame DEF Good
  <2>6. /\ served' \in Seq(Served) /\ Len(served') = Len(served) + 1 /\ Len(served) \in Nat
        /\ \A k \in 1..Len(served) : served'[k] = served[k]
        /\ served'[Len(served) + 1] = r
    BY <2>2, <2>3, AppendProperties, LenProperties
  <2>7. ASSUME NEW k \in 1..Len(served') PROVE Good(served[k])'
    <3>1. PICK q : q = served'[k]
      OBVIOUS
    <3>2. Good(q)
      <4>1. CASE k = Len(served) + 1
        BY <2>4, <2>6, <3>1, <4>1
      <4>2. CASE k # Len(served) + 1
        <5>1. k \in 1..Len(served)
          BY <2>6, <4>2
        <5> QED
          BY <2>6, <3>1, <5>1 DEF ReadInv, AllGood
      <4> QED
        BY <4>1, <4>2
    <3>3. Good(q)'
      BY <2>5, <3>2
    <3> QED
      BY <3>1, <3>3 DEF Good
  <2> QED
    BY <2>6, <2>7 DEF AllGood
<1> QED
  BY <1>6, <1>7, <1>8 DEF ReadInv

-----------------------------------------------------------------------------
(* The theorems *)

LEMMA ReadInvInductive == ReadInv /\ [Next]_vars => ReadInv'
<1> SUFFICES ASSUME ReadInv, [Next]_vars PROVE ReadInv'
  OBVIOUS
<1>1. ASSUME NEW s \in Segments, Read(s) PROVE ReadInv'
  BY <1>1, ReadStep
<1>2. ASSUME NEW s \in Segments, NEW t \in Segments, ReadV(s, t) PROVE ReadInv'
  BY <1>2, ReadVStep
<1>3. CASE ReadInner
  BY <1>3, ReadInnerStep
<1>4. CASE fill8
  BY <1>4, fill8Step
<1>5. CASE fill1
  BY <1>5, fill1Step
<1>6. CASE memset
  BY <1>6, memsetStep
<1>7. CASE Return
  BY <1>7, ReturnStep
<1>8. CASE UNCHANGED vars
  <2>1. UNCHANGED <<m, m_readBytes, todo, total, at, n, i, state, out, served, handed>>
    BY <1>8 DEF vars, locals
  <2>2. AllGood'
    BY <2>1, AllGoodFrame DEF ReadInv
  <2>3. Counted'
    BY <2>1 DEF ReadInv, Counted
  <2>4. Calling'
    BY <2>1 DEF ReadInv, Calling, Inside, clipped, Seed, Content, Memory
  <2> QED
    BY <2>2, <2>3, <2>4 DEF ReadInv
<1> QED
  BY <1>1, <1>2, <1>3, <1>4, <1>5, <1>6, <1>7, <1>8 DEF Next

LEMMA ReadInvariant == Spec => []ReadInv
<1>1. Init => ReadInv
  BY ReadInvInit
<1>2. ReadInv /\ [Next]_vars => ReadInv'
  BY ReadInvInductive
<1> QED
  BY <1>1, <1>2, PTL DEF Spec

\* The reads served so far, one by one.
LEMMA ServedExact ==
    ASSUME ReadInv, NEW k \in DOMAIN served
    PROVE  /\ served[k].seg \in Segments /\ Good(served[k])
           /\ served[k].rc \in Nat /\ served[k].rc <= served[k].seg.size
           /\ served[k].rc = Cardinality(Asked(served[k].seg))
<1>1. served \in Seq(Served) /\ m \in OpenFiles
  BY DEF ReadInv, AllGood, Calling
<1>2. k \in 1..Len(served)
  BY <1>1, LenProperties
<1>3. served[k] \in Served
  BY <1>1, <1>2, ElementOfSeq
<1>4. Good(served[k]) /\ served[k].seg \in Segments
  BY <1>2, <1>3 DEF ReadInv, AllGood, Served
<1>5. served[k].rc = clipped(served[k].seg)
  BY <1>4 DEF Good
<1> QED
  BY <1>1, <1>4, <1>5, ClippedExact

LEMMA BuffersExactInv == ReadInv => BuffersExact
<1> SUFFICES ASSUME ReadInv, NEW k \in DOMAIN served
             PROVE  /\ served[k].rc = Cardinality(Asked(served[k].seg))
                    /\ {b \in DOMAIN served[k].mem : served[k].mem[b] # Junk} = 0 .. served[k].rc - 1
  BY DEF BuffersExact
<1>1. PICK r : r = served[k]
  OBVIOUS
<1>2. /\ r.seg \in Segments /\ Good(r) /\ r.rc \in Nat /\ r.rc <= r.seg.size
      /\ r.rc = Cardinality(Asked(r.seg))
  BY <1>1, ServedExact
<1>3. r.mem \in Memory(r.seg) /\ Filled(r.mem, r.rc) /\ r.seg.size \in Nat
  BY <1>2, ReadAssumption DEF Good
<1>4. DOMAIN r.mem = 0..(r.seg.size + 7)
  BY <1>3 DEF Memory, Guard
<1>5. \A b \in DOMAIN r.mem : r.mem[b] # Junk <=> b < r.rc
  BY <1>3 DEF Filled
<1>6. {b \in DOMAIN r.mem : r.mem[b] # Junk} = {b \in 0..(r.seg.size + 7) : b < r.rc}
  BY <1>4, <1>5
<1>7. {b \in 0..(r.seg.size + 7) : b < r.rc} = 0 .. r.rc - 1
  BY <1>2, <1>3
<1> QED
  BY <1>1, <1>2, <1>6, <1>7

LEMMA PrefixesAgreeInv == ReadInv => PrefixesAgree
<1> SUFFICES ASSUME ReadInv, NEW j \in DOMAIN served, NEW k \in DOMAIN served,
                    served[j].seg.offset = served[k].seg.offset,
                    NEW b \in 0 .. served[j].rc - 1, b < served[k].rc
             PROVE  served[j].mem[b] = served[k].mem[b]
  BY DEF PrefixesAgree
<1>1. PICK r, s : r = served[j] /\ s = served[k]
  OBVIOUS
<1>2. Good(r) /\ Good(s) /\ r.rc \in Nat /\ s.rc \in Nat
  BY <1>1, ServedExact
<1>3. b \in Nat /\ b \in 0..(r.rc - 1) /\ b \in 0..(s.rc - 1) /\ b + 1 \in Nat /\ b + 1 <= r.rc /\ b + 1 <= s.rc
  BY <1>1, <1>2
<1>4. CASE m.m_isRandom
  <2>1. PICK x : x = Seed(r.seg) /\ x = Seed(s.seg)
    BY <1>1 DEF Seed
  <2>2. PICK f : Trace(f, x, r.rc) /\ Bytes(r.mem, f, r.rc)
    BY <1>2, <1>4, <2>1 DEF Good, Content, Generated
  <2>3. PICK g : Trace(g, x, s.rc) /\ Bytes(s.mem, g, s.rc)
    BY <1>2, <1>4, <2>1 DEF Good, Content, Generated
  <2>4. f[b + 1] = g[b + 1]
    <3> DEFINE c == b + 1
    <3>1. c \in Nat /\ c <= r.rc /\ c <= s.rc
      BY <1>3
    <3> HIDE DEF c
    <3>2. f[c] = g[c]
      BY <1>2, <2>2, <2>3, <3>1, TracesAgree
    <3> QED
      BY <3>2 DEF c
  <2>5. r.mem[b] = ByteOf(f[b + 1]) /\ s.mem[b] = ByteOf(g[b + 1])
    BY <1>3, <2>2, <2>3 DEF Bytes
  <2> QED
    BY <1>1, <2>4, <2>5
<1>5. CASE ~m.m_isRandom
  <2>1. r.mem[b] = 0 /\ s.mem[b] = 0
    BY <1>2, <1>3, <1>5 DEF Good, Content
  <2> QED
    BY <1>1, <2>1
<1> QED
  BY <1>4, <1>5

\* Every read of every file fills exactly the part of the caller's buffer that
\* its segment has in the file and returns that length: no round of the unrolled
\* loop and no memset() reaches past it, for any segment of a Read() or ReadV().
THEOREM ReadBuffersExact == Spec => []BuffersExact
BY ReadInvariant, BuffersExactInv, PTL

\* Two reads at one offset return the same bytes as far as both go, for any
\* generator, any word size and any lengths: how many bytes the unrolled loop
\* writes and how many the tail does never shows.
THEOREM ReadPrefixesAgree == Spec => []PrefixesAgree
BY ReadInvariant, PrefixesAgreeInv, PTL

\* Whenever no call is under way, the bytes the handle has counted are the file
\* positions all its reads asked for, the segments of every ReadV() included.
THEOREM ReadCountExact == Spec => []ReadBytesExact
<1>1. ReadInv => ReadBytesExact
  BY DEF ReadInv, Counted, ReadBytesExact, Idle
<1> QED
  BY <1>1, ReadInvariant, PTL
=============================================================================
