SPECIFICATION EnvSpec
CONSTANTS
    Callers = {p1}
    baudrate = baudrate
    name = name
    v1 = v1
    v2 = v2
    NoVal = NoVal
    Names <- MCNames
    Vals <- MCVals
    baudrate_table <- MCBaudrates
    EntryLen <- LongEntries
    ENV_MAX_SIZE = 90
    HeaderLen = 5
    Faults = {"erase"}
INVARIANTS
    EnvTypeOK
    SetReturnsStored
    KeepsWhatBootFinds
PROPERTY
    UpdateIsAtomic
