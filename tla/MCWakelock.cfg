SPECIFICATION ListSpec
CONSTANTS
    main_wake_lock = main
    unknown_wakeup = unknown
    Locks = {main, unknown, l1, l2}
    MaxTimeout = 3
    UnknownTimeout = 2
INVARIANTS
    WalkIsExact
    WakelockTypeOK
    TimerCoversHeld
    SuspendNotLost
    BlameMatchesBlockers
PROPERTY SuspendOnlyWhenReleased
