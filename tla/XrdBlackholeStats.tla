------------------------- MODULE XrdBlackholeStats -------------------------
(***************************************************************************)
(* XrdBlackholeStatsManager: the aggregates of all completed transfers.    *)
(* recordTransfer() updates them under one lock and getSnapshot() copies   *)
(* them under it, so an update is one action and a snapshot is the value   *)
(* of stats.  The throughput sums, the operation counts and the log lines  *)
(* are left out: nothing in the program reads them back.                   *)
(***************************************************************************)
EXTENDS Integers

VARIABLE stats

Snapshot == [total_transfers     : Nat,
             write_transfers     : Nat,
             read_transfers      : Nat,
             total_bytes_written : Nat,
             total_bytes_read    : Nat,
             total_errors        : Nat]

StatsInit ==
    stats = [total_transfers     |-> 0,
             write_transfers     |-> 0,
             read_transfers      |-> 0,
             total_bytes_written |-> 0,
             total_bytes_read    |-> 0,
             total_errors        |-> 0]

recordTransfer(s) ==
    stats' = [stats EXCEPT
                !.total_transfers     = @ + 1,
                !.write_transfers     = IF s.bytes_written > 0 THEN @ + 1 ELSE @,
                !.read_transfers      = IF s.bytes_read > 0 THEN @ + 1 ELSE @,
                !.total_bytes_written = @ + s.bytes_written,
                !.total_bytes_read    = @ + s.bytes_read,
                !.total_errors        = @ + s.errors]

StatsTypeOK == stats \in Snapshot
=============================================================================
