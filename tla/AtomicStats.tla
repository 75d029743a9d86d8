---------------------------- MODULE AtomicStats -----------------------------
(* What the stats manager promises: transfers are recorded one at a time,  *)
(* each as a whole.                                                        *)
EXTENDS XrdBlackholeStats

CONSTANT TransferStats

StatsSpec == StatsInit /\ [][\E s \in TransferStats : recordTransfer(s)]_stats
=============================================================================
