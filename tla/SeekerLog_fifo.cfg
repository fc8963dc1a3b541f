\* One reader, concurrent writers and the state logger.
SPECIFICATION FairSpec
CONSTANTS
    w1 = w1 w2 = w2 r1 = r1 r2 = r2 a = a b = b
    Logger = Logger None = None
    Writers <- OneWriter
    Readers <- OneReader
    Records <- MCRecords
    MaxBlocks = 4
    MaxCount = 2
    EarlyOpen = FALSE
INVARIANTS MemorySafe NothingLeaked
PROPERTIES ImplementsQueue WritersReturn RecordsDelivered
