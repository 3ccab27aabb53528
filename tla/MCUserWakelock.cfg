SPECIFICATION UserSpec
CONSTANTS
    main_wake_lock = main
    unknown_wakeup = unknown
    Locks = {main, unknown, u1, u2}
    MaxTimeout = 3
    UnknownTimeout = 1
    NsecPerJiffy = 2
    U64 = 32
    ULong = 8
    Requests <- ShortRequests
INVARIANTS
    UserTimeoutKept
