------------------------------- MODULE Alarm --------------------------------
(***************************************************************************)
(* The Android alarm driver, drivers/rtc/alarm.c, and its device            *)
(* /dev/alarm, drivers/rtc/alarm-dev.c, on top of module Wakelock.  Of the  *)
(* latter's suspend work only this is kept: whenever no lock is held it may *)
(* freeze the processes and suspend the devices.                            *)
(*                                                                          *)
(* There is one alarm per type, the ones of alarm-dev.c, so a queue is      *)
(* empty or holds one alarm.  Both files take their spinlocks with          *)
(* interrupts off and the board has one CPU: an interrupt handler is one    *)
(* action, and so is a critical section.  Time is relative and counts       *)
(* seconds: due[t] is alarm->expires minus the clock of its queue, expiry[t]*)
(* is the expiry of the queue's hrtimer minus the timer's clock.            *)
(*                                                                          *)
(* alarm_triggered_func is not here: the driver of this board's RTC,        *)
(* wmt-rtc.c, requests its interrupt only for an open /dev/rtc, and without *)
(* the device that the interrupt would have to be passed on to.             *)
(***************************************************************************)
EXTENDS Wakelock

CONSTANTS alarm_wake_lock, alarm_rtc_wake_lock,
          SetTypes,       \* the alarms that user space sets
          MaxDue,         \* bound on how far ahead an alarm is set
          MaxLate,        \* bound on how long an alarm is counted as overdue
          Shifts,         \* by how much the wall clock is set
          AlarmTimeout,   \* 5 * HZ, for an alarm that went off
          RtcTimeout,     \* 1 * HZ, for an alarm changed while suspended
          BusyTimeout,    \* 2 * HZ, for an alarm that is about to go off
          SuspendTime     \* bound on the time from alarm_suspend to sleep

Types == {"RTC_WAKEUP", "RTC", "ELAPSED_REALTIME_WAKEUP", "ELAPSED_REALTIME",
          "SYSTEMTIME"}
TIME_CHANGE == "TIME_CHANGE"
Order == <<"RTC_WAKEUP", "RTC", "ELAPSED_REALTIME_WAKEUP", "ELAPSED_REALTIME",
           "SYSTEMTIME">>
Wakeup == {"RTC_WAKEUP", "ELAPSED_REALTIME_WAKEUP"}
Elapsed == {"ELAPSED_REALTIME_WAKEUP", "ELAPSED_REALTIME"}
WallClock == Types \ {"SYSTEMTIME"}     \* queues whose hrtimer is CLOCK_REALTIME

ASSUME AlarmAssumption ==
    /\ {alarm_wake_lock, alarm_rtc_wake_lock} \subseteq Clients
    /\ alarm_wake_lock # alarm_rtc_wake_lock
    /\ SetTypes \subseteq Types
    /\ MaxDue \in Nat \ {0} /\ MaxLate \in Nat /\ SuspendTime \in Nat
    /\ Shifts \subseteq Int
    /\ {AlarmTimeout, RtcTimeout, BusyTimeout} \subseteq 1..MaxTimeout

VARIABLES
    queued,         \* types whose queue holds its alarm
    due,            \* seconds until the alarm of a queue is due
    armed,          \* queues whose hrtimer is enqueued
    expiry,         \* seconds until the hrtimer expires
    stopped,        \* base->stopped of the wall clock queues
    suspended,      \* between alarm_suspend and alarm_resume
    rtc,            \* seconds until the RTC alarm, or NotArmed
    stage,          \* where pm_suspend is
    spent,          \* seconds since alarm_suspend chose an alarm
    enabled, pending, wait_pending, opened,     \* as in alarm-dev.c
    waiter,         \* the process in ANDROID_ALARM_WAIT
    setter,         \* the process in ANDROID_ALARM_SET_RTC
    shift,          \* by how much it sets the clock
    releasing,      \* index of the loop in alarm_release, 0 outside
    owed,           \* history: seconds left of the lock of the last alarm
    reported        \* history: an alarm was returned and not acknowledged

queueVars == <<queued, due, armed, expiry, stopped>>
pmVars == <<suspended, rtc, stage, spent>>
devVars == <<enabled, pending, wait_pending, opened, waiter, releasing>>
rtcVars == <<setter, shift>>
history == <<owed, reported>>
alarmOnly == <<queueVars, pmVars, devVars, rtcVars, history>>
alarmVars == <<wakelockVars, alarmOnly>>

Stages == {"out", "frozen", "marked", "cancelled", "suspended", "late", "asleep",
           "resuming", "thaw"}

AlarmInit ==
    /\ WakelockInit
    /\ queued = {} /\ armed = {}
    /\ due = [t \in Types |-> 0] /\ expiry = [t \in Types |-> 0]
    /\ stopped = FALSE /\ suspended = FALSE
    /\ rtc = NotArmed /\ stage = "out" /\ spent = 0
    /\ enabled = {} /\ pending = {} /\ wait_pending = FALSE /\ opened = FALSE
    /\ waiter = "out" /\ setter = "out" /\ shift = 0 /\ releasing = 0
    /\ owed = 0 /\ reported = FALSE

\* alarm_driver_init and alarm_dev_init: the two locks, before anything else.
alarm_dev_init(l) ==
    /\ l \in {alarm_wake_lock, alarm_rtc_wake_lock}
    /\ wake_lock_init(l)
    /\ UNCHANGED alarmOnly

Ready == {alarm_wake_lock, alarm_rtc_wake_lock} \subseteq inited
Running == Ready /\ stage = "out"     \* processes are not frozen
InterruptsOn == Ready /\ stage # "asleep"

----------------------------------------------------------------------------
Stopped(t) == stopped /\ t \in WallClock

\* update_timer_locked: it releases the RTC lock when the head was removed,
\* and it sets the timer of a queue that is not empty.
UnlockedFor(t) ==
    IF t \in Wakeup /\ ~suspended /\ ~Stopped(t) THEN {alarm_rtc_wake_lock} ELSE {}
Arms(t) == ~Stopped(t) /\ ~(t \in Wakeup /\ suspended)

\* A wake-up alarm that is changed while suspended delays the suspend instead.
LockedFor(t) ==
    IF t \in Wakeup /\ suspended /\ ~Stopped(t) THEN {alarm_rtc_wake_lock} ELSE {}

\* Arm the timers of the queues T that are not empty, with the times d.
ArmAll(T, d) ==
    /\ armed' = armed \cup (T \cap queued)
    /\ expiry' = [t \in Types |-> IF t \in T \cap queued THEN d[t] ELSE expiry[t]]

\* alarm_start_range: the alarm is the first of its queue.
alarm_start(t, when) ==
    /\ LockThenUnlock(LockedFor(t), RtcTimeout, {})
    /\ queued' = queued \cup {t}
    /\ due' = [due EXCEPT ![t] = when]
    /\ IF Arms(t)
         THEN armed' = armed \cup {t} /\ expiry' = [expiry EXCEPT ![t] = when]
         ELSE UNCHANGED <<armed, expiry>>

\* alarm_try_to_cancel takes the alarm off its queue.  The hrtimer of a queue
\* that is now empty stays armed and fires for nothing.
Cancelled(t) == IF t \in queued THEN UnlockedFor(t) ELSE {}
alarm_try_to_cancel(t) ==
    /\ queued' = queued \ {t}
    /\ due' = [due EXCEPT ![t] = 0]
    /\ expiry' = [expiry EXCEPT ![t] = IF t \in armed THEN @ ELSE 0]
    /\ UNCHANGED armed

----------------------------------------------------------------------------
(* alarm_timer_triggered and the callback alarm_triggered, in the interrupt.*)
(* An alarm that is not due yet stays, and the timer is set for it.         *)
alarm_timer_triggered(t) ==
    LET stays == t \in queued /\ due[t] > 0
        goes_off == t \in queued /\ due[t] <= 0 /\ t \in enabled IN
    /\ InterruptsOn
    /\ t \in armed /\ expiry[t] <= 0
    /\ LockThenUnlock(IF goes_off THEN {alarm_wake_lock}
                      ELSE IF stays THEN LockedFor(t) ELSE {},
                      IF goes_off THEN AlarmTimeout ELSE RtcTimeout, UnlockedFor(t))
    /\ queued' = IF stays THEN queued ELSE queued \ {t}
    /\ armed' = IF stays /\ Arms(t) THEN armed ELSE armed \ {t}
    /\ due' = [due EXCEPT ![t] = IF stays THEN @ ELSE 0]
    /\ expiry' = [expiry EXCEPT ![t] = IF ~stays THEN 0
                                       ELSE IF Arms(t) THEN due[t] ELSE @]
    /\ enabled' = IF goes_off THEN enabled \ {t} ELSE enabled
    /\ pending' = IF goes_off THEN pending \cup {t} ELSE pending
    /\ owed' = IF goes_off THEN AlarmTimeout ELSE owed
    /\ UNCHANGED <<stopped, pmVars, rtcVars, wait_pending, opened, waiter,
                   releasing, reported>>

----------------------------------------------------------------------------
\* The first call of a process on its file claims the device.
Claims == Running /\ releasing = 0 /\ opened' = TRUE

alarm_set(t, when) ==
    /\ Claims
    /\ enabled' = enabled \cup {t}
    /\ alarm_start(t, when)
    /\ UNCHANGED <<stopped, pmVars, rtcVars, pending, wait_pending,
                   waiter, releasing, history>>

\* Faulty variant: clearing an alarm releases the lock of the one reported.
ForgetsReported(t) ==
    /\ Claims
    /\ alarm_try_to_cancel(t)
    /\ enabled' = enabled \ {t} /\ pending' = pending \ {t}
    /\ LockThenUnlock({}, 0, Cancelled(t) \cup
          IF pending # {} /\ pending \subseteq {t} THEN {alarm_wake_lock} ELSE {})
    /\ UNCHANGED <<stopped, pmVars, rtcVars, wait_pending, waiter, releasing, history>>

alarm_clear(t) ==
    /\ Claims
    /\ alarm_try_to_cancel(t)
    /\ enabled' = enabled \ {t} /\ pending' = pending \ {t}
    /\ LockThenUnlock({}, 0, Cancelled(t) \cup
          IF pending # {} /\ pending \subseteq {t} /\ ~wait_pending
          THEN {alarm_wake_lock} ELSE {})
    /\ UNCHANGED <<stopped, pmVars, rtcVars, wait_pending, waiter, releasing, history>>

\* ANDROID_ALARM_WAIT acknowledges what it returned before, and waits.
alarm_wait ==
    /\ Claims
    /\ waiter = "out"
    /\ waiter' = "waiting"
    /\ LET acknowledged == pending = {} /\ wait_pending IN
          /\ LockThenUnlock({}, 0, IF acknowledged THEN {alarm_wake_lock} ELSE {})
          /\ wait_pending' = (wait_pending /\ ~acknowledged)
    /\ reported' = FALSE
    /\ UNCHANGED <<queueVars, pmVars, rtcVars, enabled, pending, releasing, owed>>

\* wait_event_interruptible sees an alarm, or is interrupted.
wait_event(to) ==
    /\ Running
    /\ waiter = "waiting"
    /\ to = "woken" => pending # {}
    /\ waiter' = to
    /\ UNCHANGED <<wakelockVars, queueVars, pmVars, rtcVars, enabled, pending,
                   wait_pending, opened, releasing, history>>

alarm_wait_returns ==
    /\ Running
    /\ waiter = "woken" /\ waiter' = "out"
    /\ wait_pending' = TRUE
    /\ pending' = {} /\ reported' = (pending \cap Types # {})
    /\ UNCHANGED <<wakelockVars, queueVars, pmVars, rtcVars, enabled, opened,
                   releasing, owed>>

\* alarm_release: each pass of the loop disables an alarm under the lock of
\* alarm-dev.c, then cancels it without that lock.
alarm_release ==
    /\ Running
    /\ opened /\ releasing = 0 /\ waiter = "out"
    /\ releasing' = 1
    /\ enabled' = enabled \ {Order[1]}
    /\ UNCHANGED <<wakelockVars, queueVars, pmVars, rtcVars, pending, wait_pending,
                   opened, waiter, history>>

release_next ==
    /\ releasing \in 1..(Len(Order) - 1)
    /\ alarm_try_to_cancel(Order[releasing])
    /\ LockThenUnlock({}, 0, Cancelled(Order[releasing]))
    /\ enabled' = enabled \ {Order[releasing + 1]}
    /\ releasing' = releasing + 1
    /\ UNCHANGED <<stopped, pmVars, rtcVars, pending, wait_pending, opened, waiter, history>>

\* Faulty variant: the lock is released only for alarms not yet returned.
ReleaseForgetsReturned ==
    /\ releasing = Len(Order)
    /\ alarm_try_to_cancel(Order[releasing])
    /\ LockThenUnlock({}, 0, Cancelled(Order[releasing]) \cup
          IF pending # {} THEN {alarm_wake_lock} ELSE {})
    /\ pending' = {} /\ wait_pending' = FALSE /\ opened' = FALSE
    /\ releasing' = 0 /\ reported' = FALSE
    /\ UNCHANGED <<stopped, pmVars, rtcVars, enabled, waiter, owed>>

release_last ==
    /\ releasing = Len(Order)
    /\ alarm_try_to_cancel(Order[releasing])
    /\ LockThenUnlock({}, 0, Cancelled(Order[releasing]) \cup
          IF pending # {} \/ wait_pending THEN {alarm_wake_lock} ELSE {})
    /\ pending' = {} /\ wait_pending' = FALSE /\ opened' = FALSE
    /\ releasing' = 0 /\ reported' = FALSE
    /\ UNCHANGED <<stopped, pmVars, rtcVars, enabled, waiter, owed>>

----------------------------------------------------------------------------
\* What the bound on times leaves room for.
InRange(f) == \A t \in queued : f[t] \in -MaxLate..MaxDue

Later(T, d) == [t \in Types |-> IF t \in T \cap queued THEN due[t] + d ELSE due[t]]
SetterStep(from, to) == setter = from /\ setter' = to

\* The RTC compares its clock with the time of the alarm: a time that has
\* passed does not come again.
Programmed(r) == IF r > 0 THEN r ELSE NotArmed

(* alarm_set_rtc stops the timers and moves the origin of elapsed time      *)
(* before the clock is set, so that elapsed time goes on as before.  A      *)
(* stopped timer is set anew before anybody looks at its expiry.            *)
alarm_set_rtc(d) ==
    /\ Running
    /\ SetterStep("out", "stopped") /\ shift' = d
    /\ wake_lock(alarm_rtc_wake_lock) /\ UNCHANGED <<workq, worker>>
    /\ armed' = armed \ WallClock
    /\ expiry' = [t \in Types |-> IF t \in WallClock THEN 0 ELSE expiry[t]]
    /\ stopped' = TRUE
    /\ due' = Later(Elapsed, d) /\ InRange(due')
    /\ UNCHANGED <<queued, pmVars, devVars, history>>

do_settimeofday ==
    /\ Running
    /\ SetterStep("stopped", "set")
    /\ due' = Later(WallClock, -shift) /\ InRange(due')
    /\ UNCHANGED <<wakelockVars, queued, armed, expiry, stopped, pmVars, devVars,
                   shift, history>>

\* The new time is invalid.
do_settimeofday_refuses ==
    /\ Running
    /\ SetterStep("stopped", "refused")
    /\ UNCHANGED <<wakelockVars, queueVars, pmVars, devVars, shift, history>>

set_rtc_restarts ==
    /\ Running
    /\ \/ SetterStep("set", "restarted")
       \/ SetterStep("refused", "failed")
    /\ stopped' = FALSE
    /\ ArmAll(WallClock, due)
    /\ UNCHANGED <<wakelockVars, queued, due, pmVars, devVars, shift, history>>

\* rtc_set_time moves the clock of the RTC, or fails; then the lock is dropped.
\* An RTC alarm left over from a suspend is for a time of that clock.
set_rtc_unlocks ==
    /\ Running
    /\ setter \in {"restarted", "failed"} /\ setter' = "notify"
    /\ \/ UNCHANGED rtc
       \/ /\ setter = "restarted" /\ rtc # NotArmed
          /\ rtc - shift <= MaxDue
          /\ rtc' = Programmed(rtc - shift)
    /\ wake_unlock(alarm_rtc_wake_lock) /\ UNCHANGED worker
    /\ shift' = 0
    /\ UNCHANGED <<queueVars, suspended, stage, spent, devVars, history>>

\* alarm_ioctl tells the process in ANDROID_ALARM_WAIT, failure or not.
set_rtc_notifies ==
    /\ Running
    /\ SetterStep("notify", "out")
    /\ pending' = pending \cup {TIME_CHANGE}
    /\ UNCHANGED <<wakelockVars, queueVars, pmVars, enabled, wait_pending, opened,
                   waiter, releasing, shift, history>>

----------------------------------------------------------------------------
StageStep(from, to) == stage = from /\ stage' = to

\* What pm_suspend does to the locks: it asks for them, and goes on if r = 0.
Asks(r) ==
    /\ has_wake_lock(r)
    /\ UNCHANGED <<inited, expire_timer, timer_fired, workq, worker, moved>>

\* Processes are frozen where they leave the kernel; the one that waits is
\* interrupted for it and calls again when it is thawed.
freeze_processes ==
    /\ Ready /\ setter = "out" /\ releasing = 0 /\ waiter # "woken"
    /\ Asks(0)
    /\ StageStep("out", "frozen")
    /\ waiter' = "out"
    /\ UNCHANGED <<queueVars, suspended, rtc, spent, rtcVars, enabled, pending,
                   wait_pending, opened, releasing, history>>

alarm_suspend ==
    /\ StageStep("frozen", "marked")
    /\ suspended' = TRUE
    /\ UNCHANGED <<wakelockVars, queueVars, rtc, spent, devVars, rtcVars, history>>

\* The second index is ..._WAKEUP_MASK, 1 << 2, which is that of SYSTEMTIME.
suspend_cancels_timers ==
    /\ StageStep("marked", "cancelled")
    /\ armed' = armed \ {"RTC_WAKEUP", "SYSTEMTIME"}
    /\ expiry' = [t \in Types |-> IF t \in armed' \cup queued THEN expiry[t] ELSE 0]
    /\ UNCHANGED <<wakelockVars, queued, due, stopped, suspended, rtc, spent, devVars,
                   rtcVars, history>>

\* Faulty variant: the RTC is set for the alarms of one queue only.
FirstQueueOnly(r) ==
    /\ "RTC_WAKEUP" \in queued => r = expiry["RTC_WAKEUP"]
    /\ r \in {expiry[t] : t \in queued \cap Wakeup}

\* The hrtimer that expires first, of the wake-up queues that are not empty.
IsWakeupTime(r) ==
    /\ \A t \in queued \cap Wakeup : r <= expiry[t]
    /\ r \in {expiry[t] : t \in queued \cap Wakeup}

\* The RTC is set first.  When the alarm is about to go off it stays set, for
\* rtc_set_alarm refuses the zeroed time that is to clear it.
suspend_sets_rtc ==
    /\ stage = "cancelled"
    /\ \/ /\ queued \cap Wakeup = {}
          /\ stage' = "suspended"
          /\ UNCHANGED <<wakelockVars, armed, expiry, suspended, rtc>>
       \/ \E r \in 2..MaxDue :
          /\ IsWakeupTime(r)
          /\ rtc' = r
          /\ stage' = "suspended"
          /\ UNCHANGED <<wakelockVars, armed, expiry, suspended>>
       \/ \E r \in -MaxLate..1 :         \* alarm about to go off
          /\ IsWakeupTime(r)
          /\ suspended' = FALSE
          /\ wake_lock_timeout(alarm_rtc_wake_lock, BusyTimeout) /\ UNCHANGED worker
          /\ ArmAll(Wakeup, due)
          /\ stage' = "thaw"
          /\ rtc' = Programmed(r)
    /\ spent' = 0
    /\ UNCHANGED <<queued, due, stopped, devVars, rtcVars, history>>

\* Another device refuses to suspend, or a wake lock is found to be held.
suspend_aborted ==
    /\ StageStep("suspended", "resuming")
    /\ UNCHANGED <<wakelockVars, queueVars, suspended, rtc, spent, devVars, rtcVars, history>>

power_suspend_late ==
    /\ stage = "suspended"
    /\ \E r \in -1..MaxTimeout :
          /\ Asks(r)
          /\ stage' = IF r = 0 THEN "late" ELSE "resuming"
    /\ UNCHANGED <<queueVars, suspended, rtc, spent, devVars, rtcVars, history>>

enter_sleep ==
    /\ StageStep("late", "asleep")
    /\ spent' = 0
    /\ UNCHANGED <<wakelockVars, queueVars, suspended, rtc, devVars, rtcVars, history>>

\* The RTC or something else wakes the system; wmt_pm_enter clears the RTC.
wake_up_system ==
    /\ StageStep("asleep", "resuming")
    /\ rtc' = NotArmed
    /\ UNCHANGED <<wakelockVars, queueVars, suspended, spent, devVars, rtcVars, history>>

\* Faulty variant: the timers that alarm_suspend cancelled stay cancelled.
ResumesWithoutTimers ==
    /\ StageStep("resuming", "thaw")
    /\ suspended' = FALSE
    /\ spent' = 0
    /\ UNCHANGED <<wakelockVars, queueVars, rtc, devVars, rtcVars, history>>

\* The zeroed time that is to clear the RTC is refused here as well.
alarm_resume ==
    /\ StageStep("resuming", "thaw")
    /\ suspended' = FALSE
    /\ ArmAll(Wakeup, due)
    /\ spent' = 0
    /\ UNCHANGED <<wakelockVars, queued, due, stopped, rtc, devVars, rtcVars, history>>

thaw_processes ==
    /\ StageStep("thaw", "out")
    /\ UNCHANGED <<wakelockVars, queueVars, suspended, rtc, spent, devVars, rtcVars, history>>

----------------------------------------------------------------------------
\* A second goes by for times of the types T, cut off at -MaxLate.
Aged(f, T, S) ==
    [t \in Types |-> IF t \in T \cap S /\ f[t] > -MaxLate THEN f[t] - 1 ELSE f[t]]
Older(x) == IF x > 0 THEN x - 1 ELSE x

\* Interrupts are prompt: none is outstanding when the second ends.  An RTC
\* alarm that comes now is lost: nobody takes its interrupt, and wmt_pm_enter
\* clears what the power controller has noted of it.
AlarmTick ==
    /\ InterruptsOn
    /\ \A t \in armed : expiry[t] > 0
    /\ stage \in {"suspended", "late"} => spent < SuspendTime
    /\ spent' = IF stage \in {"suspended", "late"} THEN spent + 1 ELSE spent
    /\ Tick
    /\ due' = Aged(due, Types, queued)
    /\ expiry' = Aged(expiry, Types, armed \cup queued)
    /\ rtc' = Programmed(rtc - 1)
    /\ owed' = Older(owed)
    /\ UNCHANGED <<queued, armed, stopped, suspended, stage, devVars, rtcVars, reported>>

\* Asleep, the wall clock goes on; jiffies and the monotonic clock stand still.
AsleepTick ==
    /\ stage = "asleep"
    /\ rtc # 0
    /\ due' = Aged(due, WallClock, queued)
    /\ expiry' = Aged(expiry, WallClock, armed \cup queued)
    /\ rtc' = Older(rtc)
    /\ UNCHANGED <<wakelockVars, queued, armed, stopped, suspended, stage, spent,
                   devVars, rtcVars, history>>

Ioctl ==
    \/ \E t \in SetTypes :
          \/ \E when \in 0..MaxDue : alarm_set(t, when)
          \/ alarm_clear(t)
    \/ alarm_wait \/ alarm_wait_returns
    \/ \E to \in {"woken", "out"} : wait_event(to)
    \/ alarm_release \/ release_next \/ release_last

SetRtc ==
    \/ \E d \in Shifts : alarm_set_rtc(d)
    \/ do_settimeofday \/ do_settimeofday_refuses
    \/ set_rtc_restarts \/ set_rtc_unlocks \/ set_rtc_notifies

Suspend ==
    \/ freeze_processes \/ alarm_suspend \/ suspend_cancels_timers \/ suspend_sets_rtc
    \/ suspend_aborted \/ power_suspend_late \/ enter_sleep \/ wake_up_system
    \/ alarm_resume \/ thaw_processes

AlarmNext ==
    \/ \E l \in Clients : alarm_dev_init(l)
    \/ \E t \in Types : alarm_timer_triggered(t)
    \/ Ioctl \/ SetRtc \/ Suspend
    \/ AlarmTick \/ AsleepTick
    \/ Running /\ MainStep /\ UNCHANGED alarmOnly
    \/ InterruptsOn /\ (TimerFires \/ expire_wake_locks) /\ UNCHANGED alarmOnly

AlarmSpec == AlarmInit /\ [][AlarmNext]_alarmVars

----------------------------------------------------------------------------
AlarmTypeOK ==
    /\ WakelockTypeOK
    /\ queued \subseteq Types /\ armed \subseteq Types
    /\ due \in [Types -> -MaxLate..MaxDue] /\ expiry \in [Types -> -MaxLate..MaxDue]
    /\ stopped \in BOOLEAN /\ suspended \in BOOLEAN
    /\ rtc \in -1..MaxDue /\ stage \in Stages /\ spent \in 0..SuspendTime
    /\ enabled \subseteq Types /\ pending \subseteq Types \cup {TIME_CHANGE}
    /\ wait_pending \in BOOLEAN /\ opened \in BOOLEAN
    /\ waiter \in {"out", "waiting", "woken"}
    /\ setter \in {"out", "stopped", "set", "refused", "restarted", "failed", "notify"}
    /\ shift \in Shifts \cup {0} /\ releasing \in 0..Len(Order)
    /\ owed \in 0..AlarmTimeout /\ reported \in BOOLEAN

(* An alarm that is set will go off: its hrtimer is armed for exactly the   *)
(* time it is due, through settings of the clock, suspends that succeed and *)
(* ones that fail, except while alarm_set_rtc or a suspend holds it back.   *)
QueuedIsArmed ==
    \A t \in queued \ {"SYSTEMTIME"} :
        ~Stopped(t) /\ ~(t \in Wakeup /\ suspended) => t \in armed /\ expiry[t] = due[t]

\* android_alarm.h: "The alarm interface is similar to the hrtimer interface
\* but adds support for wakeup from suspend": no alarm that is queued while
\* nothing is suspended or stopped is without a timer.
AlarmsGoOff ==
    \A t \in queued : ~stopped /\ stage = "out" => t \in armed

(* The system does not sleep through a wake-up alarm: while it is asleep    *)
(* the RTC is set to wake it no later than any of them is due, provided the *)
(* other devices suspend within SuspendTime seconds of alarm_suspend, which *)
(* must be one at most: the RTC alarm is lost when it comes before sleep.   *)
SleepsUntilAlarm ==
    stage = "asleep" =>
        \A t \in queued \cap Wakeup : rtc = 0 \/ (rtc # NotArmed /\ rtc <= due[t])

(* An alarm that went off keeps the system awake for the five seconds in    *)
(* which user space has to fetch it, and after that until the next WAIT     *)
(* acknowledges it: no other ioctl takes the lock away.                     *)
FiredKeepsAwake ==
    owed > 0 /\ (pending \cap Types # {} \/ reported) => alarm_wake_lock \in Held

(* And for no longer: with nothing to fetch and nothing to acknowledge the  *)
(* lock is not held, in particular not after the device was released, and   *)
(* then no alarm is left to go off.                                         *)
IdleHoldsNothing ==
    /\ pending = {} /\ ~wait_pending => alarm_wake_lock \notin active
    /\ ~opened => enabled = {} /\ queued = {} /\ alarm_wake_lock \notin active
=============================================================================
