----------------------------- MODULE FileStore ------------------------------
(***************************************************************************)
(* What the plug-in promises a well-behaved client, without stubs, inode   *)
(* numbers, flags or locks: a store of files that have a size each.  A     *)
(* session is the time from Open() to the end of Close().  One that writes *)
(* takes the file away and gives it back, in one step, with the size it    *)
(* wrote; one that reads sees the size the file had when it was opened.    *)
(***************************************************************************)
EXTENDS Integers

CONSTANTS Paths, Handles, WriteSizes, Offsets, Lengths, SeedSizes

VARIABLES
    store,      \* path -> the file's size, Absent or Busy
    session     \* handle -> its session, or NoSession

storevars == <<store, session>>

Absent == -1
Busy   == -2

\* size is what reads are clipped to; bytes and got have been written and read.
Session(p, w, size) ==
    [open |-> TRUE, path |-> p, write |-> w, size |-> size, bytes |-> 0, got |-> 0]

NoSession ==
    [open |-> FALSE, path |-> "", write |-> FALSE, size |-> 0, bytes |-> 0, got |-> 0]

InUse(p) == \E h \in Handles : session[h].open /\ session[h].path = p

StoreInit ==
    /\ store = [p \in Paths |-> Absent]
    /\ session = [h \in Handles |-> NoSession]

Seed(p, size) ==
    /\ store[p] = Absent
    /\ store' = [store EXCEPT ![p] = size]
    /\ UNCHANGED session

OpenRead(h, p) ==
    /\ ~session[h].open
    /\ store[p] >= 0
    /\ session' = [session EXCEPT ![h] = Session(p, FALSE, store[p])]
    /\ UNCHANGED store

\* The old content, if there is any and it is kept, can be read meanwhile.
OpenWrite(h, p) ==
    /\ ~session[h].open
    /\ ~InUse(p)
    /\ \E size \in {0, store[p]} :
          /\ size >= 0
          /\ session' = [session EXCEPT ![h] = Session(p, TRUE, size)]
    /\ store' = [store EXCEPT ![p] = Busy]

Write(h, n) ==
    /\ session[h].write
    /\ session' = [session EXCEPT ![h].bytes = @ + n]
    /\ UNCHANGED store

\* How much of a request lies in a file of this size.
Overlap(size, offset, blen) ==
    IF offset < 0 \/ offset >= size THEN 0
    ELSE IF blen < size - offset THEN blen ELSE size - offset

Read(h, n) ==
    /\ session[h].open
    /\ session' = [session EXCEPT ![h].got = @ + n]
    /\ UNCHANGED store

ReadOne(h, off1, len1) == Read(h, Overlap(session[h].size, off1, len1))

ReadTwo(h, off1, len1, off2, len2) ==
    Read(h, Overlap(session[h].size, off1, len1) + Overlap(session[h].size, off2, len2))

Close(h) ==
    /\ session[h].open
    /\ store' = IF session[h].write
                THEN [store EXCEPT ![session[h].path] = session[h].bytes] ELSE store
    /\ session' = [session EXCEPT ![h] = NoSession]

Rename(from, to) ==
    /\ ~InUse(from) /\ ~InUse(to)
    /\ store[from] >= 0
    /\ store' = [[store EXCEPT ![from] = Absent] EXCEPT ![to] = store[from]]
    /\ UNCHANGED session

Unlink(p) ==
    /\ ~InUse(p)
    /\ store' = [store EXCEPT ![p] = Absent]
    /\ UNCHANGED session

StoreNext ==
    \/ \E p \in Paths, size \in SeedSizes : Seed(p, size)
    \/ \E from, to \in Paths : Rename(from, to)
    \/ \E p \in Paths : Unlink(p)
    \/ \E h \in Handles :
          \/ \E p \in Paths : OpenRead(h, p) \/ OpenWrite(h, p)
          \/ \E n \in WriteSizes : Write(h, n)
          \/ \E off1 \in Offsets, len1 \in Lengths : ReadOne(h, off1, len1)
          \/ \E off1, off2 \in Offsets, len1, len2 \in Lengths :
                ReadTwo(h, off1, len1, off2, len2)
          \/ Close(h)

StoreSpec == StoreInit /\ [][StoreNext]_storevars
=============================================================================
