SPECIFICATION LoggerSpec
CONSTANTS
    Readers = {r1}
    Writers = {w1, w2}
    Size = 8
    HeaderLen = 2
    MaxPayload = 2
    Requests <- MCRequests
    Junk <- MCJunk
    MaxEntries = 5
PROPERTY LogIsQueue
