SPECIFICATION EnvSpec
CONSTANTS
    Callers = {p1, p2}
    baudrate = baudrate
    name = name
    v1 = v1
    v2 = v2
    NoVal = NoVal
    Names <- MCNames
    Vals <- MCVals
    baudrate_table <- MCBaudrates
    EntryLen <- ShortEntries
    ENV_MAX_SIZE = 100
    HeaderLen = 5
    Faults = {}
INVARIANT SetReturnsStored
