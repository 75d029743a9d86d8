------------------------ MODULE XrdBlackholeMetrics -------------------------
(***************************************************************************)
(* The Prometheus handler over the stats manager: XRootD's HTTP threads    *)
(* ask for /metrics while others record transfers.  The text of the body   *)
(* is left out; its values, the rounding of the averages apart, are not.   *)
(***************************************************************************)
EXTENDS XrdBlackholeStatsManager

CONSTANT Requests   \* the HTTP requests: records of verb and path

VARIABLE response   \* thread -> the values of the body it sent last

metricsvars == <<managervars, response>>

NoBody == <<>>

MetricsInit == ManagerInit /\ response = [t \in Threads |-> NoBody]

MatchesPath(req) == req.verb = "GET" /\ req.path = "/metrics"

average(sum, count) == IF count > 0 THEN sum \div count ELSE 0

\* The total of transfers is not exported.
buildMetrics(s) ==
    [transfers_total_write    |-> s.write_transfers,
     transfers_total_read     |-> s.read_transfers,
     bytes_written_total      |-> s.total_bytes_written,
     bytes_read_total         |-> s.total_bytes_read,
     errors_total             |-> s.total_errors,
     write_throughput_avg     |-> average(s.sum_write_MiBs, s.write_transfers),
     read_throughput_avg      |-> average(s.sum_read_MiBs, s.read_transfers)]

\* ProcessReq() calls buildMetrics(), which takes a snapshot ...
ProcessReq(t, req) ==
    /\ MatchesPath(req)
    /\ getSnapshot(t)
    /\ response' = [response EXCEPT ![t] = NoBody]

\* Mutant of SendSimpleResp: an average is made of the sum as it is by now.
SendSimpleResp_liveSum(t) ==
    /\ thread[t].pc = "back"
    /\ thread[t].op = "snapshot"
    /\ response' = [response EXCEPT ![t] =
          buildMetrics([thread[t].snap EXCEPT !["sum_write_MiBs"] = members["sum_write_MiBs"]])]
    /\ thread' = [thread EXCEPT ![t] = Idle]
    /\ UNCHANGED <<members, m_mutex, past, since>>

\* ... and sends what it makes of it.
SendSimpleResp(t) ==
    /\ thread[t].pc = "back"
    /\ thread[t].op = "snapshot"
    /\ response' = [response EXCEPT ![t] = buildMetrics(thread[t].snap)]
    /\ thread' = [thread EXCEPT ![t] = Idle]
    /\ UNCHANGED <<members, m_mutex, past, since>>

\* logSummary() returns; the line, which is left out, was written under the lock.
Logged(t) ==
    /\ thread[t].pc = "back"
    /\ thread[t].op = "summary"
    /\ thread' = [thread EXCEPT ![t] = Idle]
    /\ UNCHANGED <<members, m_mutex, past, since, response>>

\* A call under way goes on.
Proceed(t) ==
    \/ (Lock(t) \/ Update(t) \/ Copy(t) \/ Unlock(t)) /\ UNCHANGED response
    \/ SendSimpleResp(t)
    \/ Logged(t)

MetricsNext ==
    \E t \in Threads :
        \/ \E s \in TransferStats : recordTransfer(t, s) /\ UNCHANGED response
        \/ \E req \in Requests : ProcessReq(t, req)
        \/ logSummary(t) /\ UNCHANGED response
        \/ Proceed(t)

MetricsSpec == MetricsInit /\ [][MetricsNext]_metricsvars

-----------------------------------------------------------------------------
\* A response shows the totals as they were at one moment between the request
\* and the answer: every transfer recorded before the request is in all of its
\* values, and none is in some of them only.
ScrapeConsistent ==
    \A t \in Threads : response[t] # NoBody =>
        \E k \in since[t] .. Len(past) : response[t] = buildMetrics(past[k])
=============================================================================
