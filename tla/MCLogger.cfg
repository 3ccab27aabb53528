SPECIFICATION LoggerSpec
CONSTANTS
    Readers = {r1}
    Writers = {w1}
    Size = 8
    HeaderLen = 2
    MaxPayload = 2
    Requests <- MCRequests
    Junk <- MCJunk
    MaxEntries = 5
INVARIANTS
    LoggerTypeOK
    NoSleepOnEntries
    ReadsWholeEntries
PROPERTIES
    LogIsQueue
    LostOnlyWhenFull
    LossIsBounded
    BlockedReaderReturns
