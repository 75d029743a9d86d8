----------------------- MODULE XrdBlackholeIsolation ------------------------
(***************************************************************************)
(* How far the damage goes when clients share files and rename, replace or *)
(* unlink them while they are open, and when fds outgrow an int.  Another  *)
(* history variable, which no action of the program reads, collects the    *)
(* stubs that such a thing has happened to.                                *)
(***************************************************************************)
EXTENDS XrdBlackholeOss

VARIABLE disturbed  \* the stubs whose size is no longer answered for

isolationvars == <<vars, disturbed>>

WritesTo(p) == \E g \in Sessions(p) : file[g].was_write

\* The sessions on the name, or on the stub, that a session of h begins on.
Rivals(h, p) ==
    {g \in Handles \ {h} : /\ InSession(g)
                           /\ \/ file[g].m_path = p
                              \/ exists(p) /\ file[g].m_stub = m_files[p]}

\* A session begins on a file in use, and it or one of the others writes.
Contended ==
    UNION {LET p == file'[h].m_path
               G == Rivals(h, p)
           IN  IF \E g \in G : file'[h].was_write \/ file[g].was_write
               THEN {m_files[p], m_files'[p]} \cup {file[g].m_stub : g \in G}
               ELSE {}
             : h \in {k \in Handles : ~InSession(k) /\ file'[k].pc # "idle"}}

\* A name some session writes to comes to stand for another file, or for none.
Relocated ==
    UNION {{m_files[p], m_files'[p]} :
              p \in {q \in Paths : m_files'[q] # m_files[q] /\ WritesTo(q)}}

\* A stub is marked open for writing, but Open() fails and no one will close it.
Abandoned ==
    {i \in Inodes : /\ ~stub[i].m_isOpenWrite
                    /\ stub'[i].m_isOpenWrite
                    /\ \A h \in Handles : file'[h].pc = file[h].pc}

IsolationInit == Init /\ disturbed = {}

IsolationNext ==
    /\ Next
    /\ disturbed' = disturbed \cup ((Contended \cup Relocated \cup Abandoned) \ {NoStub})

IsolationSpec == IsolationInit /\ [][IsolationNext]_isolationvars

-----------------------------------------------------------------------------
\* Nothing but these three things damages a size, and they damage that of the
\* files they happen to: while some clients share a file or move it under a
\* writer, every other file at rest still has, for Stat and for the next Open(),
\* the size of the last write session on it, and every other reader, even of a
\* file that has been renamed, replaced or unlinked under it, is clipped to the
\* size its file has.
DamageContained ==
    /\ \A p \in Paths : AtRest(p) /\ m_files[p] \notin disturbed =>
          /\ stub[m_files[p]].m_size = written[m_files[p]]
          /\ Stat(p) = written[m_files[p]]
    /\ \A h \in Handles :
          /\ file[h].pc = "open"
          /\ ~file[h].was_write
          /\ file[h].m_stub \notin disturbed \cup {NoStub}
          => file[h].m_size = written[file[h].m_stub]
=============================================================================
