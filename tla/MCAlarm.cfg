SPECIFICATION AlarmSpec
CONSTANTS
    main_wake_lock = main
    unknown_wakeup = unknown
    alarm_wake_lock = alarm
    alarm_rtc_wake_lock = alarm_rtc
    Locks = {main, unknown, alarm, alarm_rtc}
    MaxTimeout = 1
    UnknownTimeout = 1
    SetTypes = {"RTC_WAKEUP", "ELAPSED_REALTIME_WAKEUP"}
    MaxDue = 2
    MaxLate = 1
    Shifts = {1}
    AlarmTimeout = 1
    RtcTimeout = 1
    BusyTimeout = 1
    SuspendTime = 1
INVARIANTS
    AlarmTypeOK
    QueuedIsArmed
    SleepsUntilAlarm
    FiredKeepsAwake
    IdleHoldsNothing
CONSTRAINT MainLockDown
