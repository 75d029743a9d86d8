----------------------- MODULE MCXrdBlackholeMetrics ------------------------
(* Instances of XrdBlackholeMetrics for TLC. *)
EXTENDS XrdBlackholeMetrics

\* A write, a read too short to be timed, and a session that moved both ways.
MCTransferStats ==
    {[bytes_written |-> 4, bytes_read |-> 0, errors |-> 0, duration_us |-> 2],
     [bytes_written |-> 0, bytes_read |-> 3, errors |-> 1, duration_us |-> 0],
     [bytes_written |-> 2, bytes_read |-> 1, errors |-> 0, duration_us |-> 1]}

MCRequests == {[verb |-> "GET", path |-> "/metrics"], [verb |-> "PUT", path |-> "/metrics"],
               [verb |-> "GET", path |-> "/"]}
=============================================================================
