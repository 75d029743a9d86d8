------------------------- MODULE MCXrdBlackholeRead -------------------------
(* Instances of XrdBlackholeRead for TLC. *)
EXTENDS XrdBlackholeRead, Bitwise

\* An empty file, one of zeros and a random one that takes two rounds and a tail.
MCOpenFiles == {[m_size |-> 0,  m_isRandom |-> TRUE,  m_ino |-> 1],
                [m_size |-> 5,  m_isRandom |-> FALSE, m_ino |-> 2],
                [m_size |-> 18, m_isRandom |-> TRUE,  m_ino |-> 3]}

\* Before the file, at its start, off the eight-byte grid, and at the last byte.
MCSegments == [offset : {-1, 0, 1, 17}, size : {0, 1, 7, 9, 17}]

MCXor(x, y) == x ^^ y

\* The top four bits of an eight-bit word.
TopBits(x) == x \div 16
=============================================================================
