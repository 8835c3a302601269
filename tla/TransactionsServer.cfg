CONSTANTS
    t1 = t1  t2 = t2  t3 = t3
    w1 = w1  w2 = w2  w3 = w3
    r1 = r1  r2 = r2
    Txns <- TxnIds
    Writes <- WriteIds
    Requests <- RequestIds
    Batches <- BatchesOf
    MaxActive = 2
SPECIFICATION ServerSpec
PROPERTY WritesAreBuffered
CHECK_DEADLOCK FALSE
