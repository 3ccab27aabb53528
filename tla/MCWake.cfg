SPECIFICATION CoreSpec
CONSTANTS
    main_wake_lock = main
    unknown_wakeup = unknown
    Locks = {main, unknown, k1}
    UserLocks = {}
    Writers = {w1}
    MaxTimeout = 1
    UnknownTimeout = 1
    h1 = h1
    Handlers = {h1}
    Level <- MCLevel
PROPERTY WakeRequestCompletes
