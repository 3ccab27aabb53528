SPECIFICATION CoreSpec
CONSTANTS
    main_wake_lock = main
    unknown_wakeup = unknown
    Locks = {main, unknown, u1, k1}
    UserLocks = {u1}
    Writers = {w1}
    MaxTimeout = 1
    UnknownTimeout = 1
    h1 = h1
    Handlers = {h1}
    Level <- MCLevel
INVARIANTS
    CoreTypeOK
    AsleepHonoursUser
    NothingLeftDown
    ScriptPreparedSleep
CONSTRAINT LocksStay
