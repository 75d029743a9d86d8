SPECIFICATION MetricsSpec
CONSTANTS
    Threads = {t1, t2}
    NoThread = NoThread
    TransferStats <- MCTransferStats
    MaxTransfers = 2
    Requests <- MCRequests
INVARIANT ScrapeConsistent
PROPERTY RecordsAtomically
