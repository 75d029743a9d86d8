-------------------------- MODULE XrdBlackholeRead --------------------------
(***************************************************************************)
(* What the read calls of an open XrdBlackholeOssFile put into the caller's *)
(* buffers: ReadInner() as Read() and ReadV() use it, loop by loop.        *)
(*                                                                         *)
(* The generator runs on a word of W values instead of 2^64 and takes its  *)
(* output from the top of it; its multiplier K and increment C are         *)
(* parameters.  A buffer is the memory from its first byte on: what lies   *)
(* behind its end is there too, so that a write past it is seen.           *)
(***************************************************************************)
EXTENDS Integers, Sequences, FiniteSets

CONSTANTS
    OpenFiles,  \* what Open() caches: records of m_size, m_isRandom and m_ino
    Segments,   \* the requests: records of offset and size
    W, K, C,    \* word size, multiplier and increment of the generator
    XorWord(_, _),  \* the exclusive or of an offset and an inode number
    ByteOf(_),  \* the top bits of a word
    MaxServed   \* no call that fills a buffer begins once so many are filled

ASSUME ReadAssumption ==
    /\ OpenFiles \subseteq [m_size : Nat, m_isRandom : BOOLEAN, m_ino : Nat]
    /\ Segments \subseteq [offset : Int, size : Nat]
    /\ W \in Nat \ {0} /\ K \in Nat /\ C \in Nat
    /\ \A s \in Segments, f \in OpenFiles : s.offset >= 0 => XorWord(s.offset, f.m_ino) \in Nat
    /\ \A x \in 0..(W - 1) : ByteOf(x) \in Nat

VARIABLES
    m,          \* the open file
    m_readBytes,
    todo,       \* the segments of the call under way that are not served yet
    total,      \* the call's total so far
    at,         \* where ReadInner() is: "out", or before one of its loops
    n, i, state, out,   \* ReadInner()'s locals and its buffer
    served,     \* history: the segments served, with the bytes put in memory
    handed      \* history: how many positions of the file they ask for

locals == <<at, n, i, state, out>>
vars == <<m, m_readBytes, todo, total, locals, served, handed>>

Junk == -1      \* what a buffer holds before the call
Guard == 8      \* how far behind a buffer the model looks

Buffer(size) == [k \in 0 .. size + Guard - 1 |-> Junk]

Init ==
    /\ m \in OpenFiles
    /\ m_readBytes = 0
    /\ todo = <<>>
    /\ total = 0
    /\ at = "out"
    /\ n = 0 /\ i = 0 /\ state = 0 /\ out = Buffer(0)
    /\ served = <<>>
    /\ handed = 0

Idle == at = "out" /\ todo = <<>>

\* Read(), ReadRaw() and the asynchronous Read(): one segment.
Read(s) ==
    /\ Idle
    /\ Len(served) < MaxServed
    /\ todo' = <<s>>
    /\ UNCHANGED <<m, m_readBytes, total, locals, served, handed>>

\* A segment as ReadV() serves it: one without a size is passed over.
Wanted(s) == IF s.size > 0 THEN <<s>> ELSE <<>>

ReadV(s, t) ==
    /\ Idle
    /\ todo' = Wanted(s) \o Wanted(t)
    /\ todo' # <<>> => Len(served) < MaxServed
    /\ UNCHANGED <<m, m_readBytes, total, locals, served, handed>>

-----------------------------------------------------------------------------
(* ReadInner() *)

\* The length of the part of the segment that lies in the file.
clipped(s) ==
    IF s.offset < 0 \/ s.offset >= m.m_size THEN 0
    ELSE LET left == m.m_size - s.offset IN IF s.size < left THEN s.size ELSE left

ReadInner ==
    LET s == Head(todo)
    IN  /\ at = "out"
        /\ todo # <<>>
        /\ n' = clipped(s)
        /\ i' = 0
        /\ state' = IF s.offset < 0 THEN 0 ELSE XorWord(s.offset, m.m_ino) % W
        /\ out' = Buffer(s.size)
        /\ at' = IF n' = 0 THEN "return" ELSE IF m.m_isRandom THEN "by8" ELSE "zero"
        /\ UNCHANGED <<m, m_readBytes, todo, total, served, handed>>

step(x) == (x * K + C) % W

\* The states after one to eight steps of the generator.
eight(x) ==
    LET s1 == step(x)
        s2 == step(s1)
        s3 == step(s2)
        s4 == step(s3)
        s5 == step(s4)
        s6 == step(s5)
        s7 == step(s6)
    IN  <<s1, s2, s3, s4, s5, s6, s7, step(s7)>>

\* Mutant of fill8: another round is begun while any byte is missing.
fill8_overruns ==
    /\ at = "by8"
    /\ IF i < n
       THEN /\ state' = eight(state)[8]
            /\ out' = [k \in DOMAIN out |->
                          IF k \in i .. i + 7 THEN ByteOf(eight(state)[k - i + 1]) ELSE out[k]]
            /\ i' = i + 8
            /\ UNCHANGED at
       ELSE at' = "tail" /\ UNCHANGED <<i, state, out>>
    /\ UNCHANGED <<m, m_readBytes, todo, total, n, served, handed>>

\* Mutant of fill8: each byte is taken before the step that makes it.
fill8_early ==
    /\ at = "by8"
    /\ IF i + 8 <= n
       THEN /\ state' = eight(state)[8]
            /\ out' = [k \in DOMAIN out |->
                          CASE k = i -> ByteOf(state)
                            [] k \in i + 1 .. i + 7 -> ByteOf(eight(state)[k - i])
                            [] OTHER -> out[k]]
            /\ i' = i + 8
            /\ UNCHANGED at
       ELSE at' = "tail" /\ UNCHANGED <<i, state, out>>
    /\ UNCHANGED <<m, m_readBytes, todo, total, n, served, handed>>

\* The unrolled loop: eight bytes a round, as long as eight are missing.
fill8 ==
    /\ at = "by8"
    /\ IF i + 8 <= n
       THEN /\ state' = eight(state)[8]
            /\ out' = [k \in DOMAIN out |->
                          IF k \in i .. i + 7 THEN ByteOf(eight(state)[k - i + 1]) ELSE out[k]]
            /\ i' = i + 8
            /\ UNCHANGED at
       ELSE at' = "tail" /\ UNCHANGED <<i, state, out>>
    /\ UNCHANGED <<m, m_readBytes, todo, total, n, served, handed>>

\* The loop over the rest.
fill1 ==
    /\ at = "tail"
    /\ IF i < n
       THEN /\ state' = step(state)
            /\ out' = [out EXCEPT ![i] = ByteOf(step(state))]
            /\ i' = i + 1
            /\ UNCHANGED at
       ELSE at' = "return" /\ UNCHANGED <<i, state, out>>
    /\ UNCHANGED <<m, m_readBytes, todo, total, n, served, handed>>

memset ==
    /\ at = "zero"
    /\ out' = [k \in DOMAIN out |-> IF k < n THEN 0 ELSE out[k]]
    /\ at' = "return"
    /\ UNCHANGED <<m, m_readBytes, todo, total, n, i, state, served, handed>>

-----------------------------------------------------------------------------
\* The positions of the file that a segment asks for; one that starts before
\* the file asks for none.
Asked(s) == {p \in s.offset .. s.offset + s.size - 1 : s.offset >= 0 /\ p < m.m_size}

\* Mutant of Return: the total of a ReadV() is only its last segment.
Return_lastOnly ==
    /\ at = "return"
    /\ at' = "out"
    /\ todo' = Tail(todo)
    /\ served' = Append(served, [seg |-> Head(todo), rc |-> n, mem |-> out])
    /\ IF Tail(todo) = <<>>
       THEN m_readBytes' = m_readBytes + n /\ total' = 0
       ELSE total' = n /\ UNCHANGED m_readBytes
    /\ handed' = handed + Cardinality(Asked(Head(todo)))
    /\ n' = 0 /\ i' = 0 /\ state' = 0 /\ out' = Buffer(0)
    /\ UNCHANGED m

\* ReadInner() is back; when it was the last segment the call counts and ends.
Return ==
    /\ at = "return"
    /\ at' = "out"
    /\ todo' = Tail(todo)
    /\ served' = Append(served, [seg |-> Head(todo), rc |-> n, mem |-> out])
    /\ IF Tail(todo) = <<>>
       THEN m_readBytes' = m_readBytes + total + n /\ total' = 0
       ELSE total' = total + n /\ UNCHANGED m_readBytes
    /\ handed' = handed + Cardinality(Asked(Head(todo)))
    /\ n' = 0 /\ i' = 0 /\ state' = 0 /\ out' = Buffer(0)
    /\ UNCHANGED m

Next ==
    \/ \E s \in Segments : Read(s)
    \/ \E s, t \in Segments : ReadV(s, t)
    \/ ReadInner \/ fill8 \/ fill1 \/ memset \/ Return

Spec == Init /\ [][Next]_vars

-----------------------------------------------------------------------------
\* A read returns as many bytes as it asks for positions of the file, at its
\* end and beyond it too; it sets exactly that many bytes of the buffer and
\* touches nothing behind them, whichever loop wrote last.
BuffersExact ==
    \A k \in DOMAIN served :
        LET r == served[k]
        IN  /\ r.rc = Cardinality(Asked(r.seg))
            /\ {b \in DOMAIN r.mem : r.mem[b] # Junk} = 0 .. r.rc - 1

\* A short read returns the first bytes of a longer one that starts at the same
\* offset, wherever the unrolled loop gives way to the tail.
PrefixesAgree ==
    \A j, k \in DOMAIN served :
        LET r == served[j]
            s == served[k]
        IN  r.seg.offset = s.seg.offset =>
                \A b \in 0 .. r.rc - 1 : b < s.rc => r.mem[b] = s.mem[b]

\* Between calls m_readBytes, which Close() reports, is the number of file
\* positions handed out by all reads, the segments of every ReadV() included.
ReadBytesExact == Idle => m_readBytes = handed

\* A position of a file has one value: two reads that both return it agree,
\* wherever they start.
BytesStable ==
    \A j, k \in DOMAIN served :
        LET r == served[j]
            s == served[k]
        IN  \A p \in Asked(r.seg) \cap Asked(s.seg) :
                r.mem[p - r.seg.offset] = s.mem[p - s.seg.offset]
=============================================================================
