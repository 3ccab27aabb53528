SPECIFICATION EarlySpec
CONSTANTS
    main_wake_lock = main
    unknown_wakeup = unknown
    Locks = {main, unknown, l1}
    MaxTimeout = 1
    UnknownTimeout = 1
    h1 = h1
    h2 = h2
    h3 = h3
    Handlers <- MCHandlers
    Level <- MCLevel
PROPERTIES SleepRequestHonoured WakeRequestHonoured
INVARIANTS
    EarlyTypeOK
    MainDownOnlyWhenDark
    HandlersFollowState
    DarkInLevelOrder
