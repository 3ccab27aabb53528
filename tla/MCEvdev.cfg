SPECIFICATION EvdevSpec
CONSTANTS
    main_wake_lock = main
    unknown_wakeup = unknown
    Locks = {main, unknown, c1, c2}
    MaxTimeout = 1
    UnknownTimeout = 1
    HZ = 1
    BufferSize = 4
INVARIANTS
    EvdevTypeOK
    UnreadKeepsAwake
    ReadReleasesLock
    OpenOnceClosedOnce
    GrabOwnerAlive
    SleepersHaveNothing
SYMMETRY ClientSymmetry
