----------------------------- MODULE AlarmProofs -----------------------------
(***************************************************************************)
(* Proofs about module Alarm, for any timeouts, any bound on how far ahead  *)
(* an alarm is set and any setting of the clock.  The invariant falls into  *)
(* three parts that share few variables: the queues and their timers, the   *)
(* device with its wake lock, and the RTC.                                  *)
(***************************************************************************)
EXTENDS Alarm, WakelockProofs

\* alarm_suspend marks the driver until alarm_resume; processes in the middle
\* of alarm_release or alarm_set_rtc are not frozen; the latter stops timers.
SuspInv ==
    /\ suspended <=> stage \in {"marked", "cancelled", "suspended", "late", "asleep",
                                "resuming"}
    /\ stage # "out" => setter = "out" /\ releasing = 0
    /\ stopped <=> setter \in {"stopped", "set", "refused"}

\* The expiry of the timer of a wake-up queue is right even while a suspend
\* has cancelled it: alarm_suspend sets the RTC by it.
ExpiryInv == \A t \in queued \cap Wakeup : ~stopped => expiry[t] = due[t]

QueueInv == SuspInv /\ QueuedIsArmed /\ ExpiryInv

\* The lock of an alarm that went off lasts as long as it has to.
AwakeInv ==
    /\ owed > 0 /\ (pending \cap Types # {} \/ reported) => left[alarm_wake_lock] >= owed
    /\ reported => wait_pending

\* What the loop of alarm_release has disabled and cancelled so far.
ReleaseInv ==
    /\ releasing # 0 => opened
    /\ \A i \in 1..Len(Order) : i <= releasing => Order[i] \notin enabled
    /\ \A i \in 1..Len(Order) : i < releasing => Order[i] \notin queued

DevInv == AwakeInv /\ ReleaseInv /\ IdleHoldsNothing

\* From alarm_suspend on the RTC is set for the first wake-up alarm, which was
\* two seconds off at least, and the RTC has not gone off before sleep.
RtcInv ==
    \A t \in queued \cap Wakeup :
        /\ stage \in {"suspended", "late"} => rtc > 0 /\ rtc <= due[t] /\ rtc + spent >= 2
        /\ stage = "asleep" => rtc = 0 \/ (rtc > 0 /\ rtc <= due[t])

\* The devices suspend before the RTC can go off.
QuickSuspend == SuspendTime <= 1

\* The inductive invariant.
AlarmInv == AlarmTypeOK /\ QueueInv /\ DevInv /\ (QuickSuspend => RtcInv)

----------------------------------------------------------------------------
(* The loop of alarm_release passes over every type.                        *)
LEMMA OrderIsTypes ==
    /\ Len(Order) = 5
    /\ \A i \in 1..5 : Order[i] \in Types
    /\ \A t \in Types : \E i \in 1..5 : Order[i] = t
  BY DEF Order, Types

(* Both locks of the driver are locks of drivers, and are different.        *)
LEMMA AlarmLocks ==
    /\ alarm_wake_lock \in Locks /\ alarm_rtc_wake_lock \in Locks
    /\ alarm_wake_lock \in Clients /\ alarm_rtc_wake_lock \in Clients
    /\ alarm_wake_lock # alarm_rtc_wake_lock
    /\ alarm_wake_lock # main_wake_lock /\ alarm_rtc_wake_lock # main_wake_lock
    /\ AlarmTimeout \in 1..MaxTimeout /\ RtcTimeout \in 1..MaxTimeout
    /\ BusyTimeout \in 1..MaxTimeout /\ MaxTimeout \in Nat
    /\ MaxDue \in Nat \ {0} /\ MaxLate \in Nat /\ SuspendTime \in Nat
  BY AlarmAssumption, WakelockAssumption DEF Clients

(* The queues and their timers are left alone.                              *)
LEMMA QueueFrame ==
    ASSUME QueueInv, UNCHANGED <<queueVars, suspended, stage, setter, releasing>>
    PROVE  QueueInv'
  BY DEF QueueInv, SuspInv, QueuedIsArmed, ExpiryInv, Stopped, queueVars

(* The device is left alone, and its lock keeps its state.                  *)
LEMMA DevFrame ==
    ASSUME DevInv,
           UNCHANGED <<enabled, pending, wait_pending, opened, releasing, owed, reported>>,
           queued' \subseteq queued,
           left'[alarm_wake_lock] = left[alarm_wake_lock],
           alarm_wake_lock \in active' => alarm_wake_lock \in active
    PROVE  DevInv'
<1>1. AwakeInv'
  BY DEF DevInv, AwakeInv
<1>2. ReleaseInv'
  BY DEF DevInv, ReleaseInv
<1>3. IdleHoldsNothing'
  BY DEF DevInv, IdleHoldsNothing
<1>. QED  BY <1>1, <1>2, <1>3 DEF DevInv

(* Neither the RTC, nor the stage, nor an alarm that stays is changed.      *)
LEMMA RtcFrame ==
    ASSUME QuickSuspend => RtcInv, UNCHANGED <<rtc, stage, spent>>,
           queued' \subseteq queued, \A t \in queued' : due'[t] = due[t]
    PROVE  QuickSuspend => RtcInv'
  BY DEF RtcInv

(* Outside of the stages in which the RTC matters.                          *)
LEMMA RtcIdle ==
    ASSUME stage' \notin {"suspended", "late", "asleep"}
    PROVE  QuickSuspend => RtcInv'
  BY DEF RtcInv

----------------------------------------------------------------------------
(* wake_unlock and wake_lock_timeout of the lock for the RTC, and wake_lock *)
(* of it, do not touch the lock for alarms.                                 *)
LEMMA RtcLockEffect ==
    ASSUME WakelockTypeOK, worker' = worker,
           \/ wake_lock(alarm_rtc_wake_lock) /\ UNCHANGED workq
           \/ \E t \in 1..MaxTimeout : wake_lock_timeout(alarm_rtc_wake_lock, t)
           \/ wake_unlock(alarm_rtc_wake_lock)
    PROVE  /\ WakelockTypeOK'
           /\ left'[alarm_wake_lock] = left[alarm_wake_lock]
           /\ alarm_wake_lock \in active' => alarm_wake_lock \in active
<1> DEFINE k == alarm_wake_lock
<1>1. CASE wake_lock(alarm_rtc_wake_lock) /\ UNCHANGED workq
  <2>1. WakelockTypeOK'
    BY <1>1, LockType, AlarmLocks DEF WakelockTypeOK
  <2>2. left'[k] = left[k] /\ (k \in active' => k \in active)
    BY <1>1, AlarmLocks DEF wake_lock, WakelockTypeOK
  <2>. QED  BY <2>1, <2>2
<1>2. ASSUME NEW t \in 1..MaxTimeout, wake_lock_timeout(alarm_rtc_wake_lock, t)
      PROVE  WakelockTypeOK' /\ left'[k] = left[k] /\ (k \in active' => k \in active)
  <2>1. WakelockTypeOK'
    BY <1>2, LockTimeoutType, AlarmLocks DEF WakelockTypeOK
  <2>2. left'[k] = left[k] /\ (k \in active' => k \in active)
    BY <1>2, AlarmLocks DEF wake_lock_timeout, Collect, WakelockTypeOK
  <2>. QED  BY <2>1, <2>2
<1>3. CASE wake_unlock(alarm_rtc_wake_lock)
  <2>1. WakelockTypeOK'
    BY <1>3, UnlockType, AlarmLocks DEF WakelockTypeOK
  <2>2. left'[k] = left[k] /\ (k \in active' => k \in active)
    BY <1>3, AlarmLocks DEF wake_unlock, Collect, WakelockTypeOK
  <2>. QED  BY <2>1, <2>2
<1>. QED  BY <1>1, <1>2, <1>3

(* What pm_suspend asks changes no time, and a look that finds nothing held *)
(* finds both locks run out.                                                *)
LEMMA AsksEffect ==
    ASSUME WakelockTypeOK, NEW r \in -1..MaxTimeout, Asks(r)
    PROVE  /\ WakelockTypeOK' /\ left' = left /\ active' \subseteq active
           /\ r = 0 => \A l \in Locks : left[l] = 0
<1>1. WakelockTypeOK'
  BY HasWakeLockType DEF Asks, WakelockTypeOK
<1>2. left' = left /\ active' \subseteq active
  BY DEF Asks, has_wake_lock, Collect
<1>3. r = 0 => Held = {}
  BY AskHeld DEF Asks
<1>4. ASSUME Held = {}, NEW l \in Locks PROVE left[l] = 0
  <2>1. left[l] \in 0..MaxTimeout /\ (l \notin auto => left[l] = 0) /\ auto \subseteq active
    BY DEF WakelockTypeOK
  <2>2. l \in auto => ~(left[l] > 0)
    BY <1>4, <2>1 DEF Held, HeldIn
  <2>. QED  BY <2>1, <2>2, AlarmLocks
<1>. QED  BY <1>1, <1>2, <1>3, <1>4

(* A step of the wake lock manager alone, which spares the driver's locks.  *)
LEMMA ManagerFrame ==
    ASSUME AlarmInv, WakelockTypeOK', UNCHANGED alarmOnly,
           left'[alarm_wake_lock] = left[alarm_wake_lock],
           left'[alarm_rtc_wake_lock] = left[alarm_rtc_wake_lock],
           alarm_wake_lock \in active' => alarm_wake_lock \in active
    PROVE  AlarmInv'
<1> USE DEF alarmOnly, queueVars, pmVars, devVars, rtcVars, history
<1>1. AlarmTypeOK'
  BY DEF AlarmInv, AlarmTypeOK
<1>2. QueueInv'
  BY QueueFrame DEF AlarmInv
<1>3. DevInv'
  BY DevFrame DEF AlarmInv
<1>4. QuickSuspend => RtcInv'
  BY RtcFrame DEF AlarmInv
<1>. QED  BY <1>1, <1>2, <1>3, <1>4 DEF AlarmInv, QuickSuspend

(* The driver's init, the main lock, the expiry timer.                      *)
LEMMA ManagerSteps ==
    ASSUME AlarmInv,
           \/ \E l \in Clients : alarm_dev_init(l)
           \/ (MainStep \/ TimerFires \/ expire_wake_locks) /\ UNCHANGED alarmOnly
           \/ UNCHANGED alarmVars
    PROVE  AlarmInv'
<1>0. WakelockTypeOK
  BY DEF AlarmInv, AlarmTypeOK
<1>1. WakelockTypeOK' /\ UNCHANGED alarmOnly
  BY <1>0, WakelockTypeNext DEF WakelockNext, ClientStep, alarm_dev_init, alarmVars
<1>2. \A k \in {alarm_wake_lock, alarm_rtc_wake_lock} :
         left'[k] = left[k] /\ (k \in active' => k \in active)
  <2>1. ASSUME NEW l \in Clients, alarm_dev_init(l) PROVE left' = left /\ active' = active
    BY <2>1 DEF alarm_dev_init, wake_lock_init
  <2>2. CASE wake_lock(main_wake_lock)
    BY <1>0, <2>2, AlarmLocks DEF wake_lock, WakelockTypeOK
  <2>3. CASE wake_unlock(main_wake_lock)
    BY <1>0, <2>3, AlarmLocks DEF wake_unlock, Collect, WakelockTypeOK
  <2>4. CASE TimerFires \/ expire_wake_locks
    BY <2>4 DEF TimerFires, expire_wake_locks, has_wake_lock, Collect
  <2>5. CASE UNCHANGED alarmVars
    BY <2>5 DEF alarmVars, wakelockVars
  <2>. QED  BY <2>1, <2>2, <2>3, <2>4, <2>5 DEF MainStep
<1>. QED  BY <1>1, <1>2, ManagerFrame

----------------------------------------------------------------------------
(* Nothing is set, nothing is suspended.                                    *)
LEMMA AlarmInvInit == AlarmInit => AlarmInv
<1> SUFFICES ASSUME AlarmInit PROVE AlarmInv
  OBVIOUS
<1>0. WakelockTypeOK /\ active = {main_wake_lock}
  BY WakelockTypeInit DEF AlarmInit, WakelockInit
<1>1. AlarmTypeOK
  <2>1. due \in [Types -> -MaxLate..MaxDue] /\ expiry \in [Types -> -MaxLate..MaxDue]
    BY AlarmLocks DEF AlarmInit
  <2>2. /\ queued \subseteq Types /\ armed \subseteq Types
        /\ rtc \in -1..MaxDue /\ stage \in Stages /\ spent \in 0..SuspendTime
        /\ enabled \subseteq Types /\ pending \subseteq Types \cup {TIME_CHANGE}
        /\ waiter \in {"out", "waiting", "woken"}
        /\ setter \in {"out", "stopped", "set", "refused", "restarted", "failed", "notify"}
        /\ releasing \in 0..Len(Order) /\ owed \in 0..AlarmTimeout
        /\ shift \in Shifts \cup {0}
    BY AlarmLocks, OrderIsTypes DEF AlarmInit, NotArmed, Stages
  <2>3. /\ stopped \in BOOLEAN /\ suspended \in BOOLEAN /\ wait_pending \in BOOLEAN
        /\ opened \in BOOLEAN /\ reported \in BOOLEAN
    BY Zenon DEF AlarmInit
  <2>. QED  BY <1>0, <2>1, <2>2, <2>3 DEF AlarmTypeOK
<1>2. QueueInv
  BY DEF AlarmInit, QueueInv, SuspInv, QueuedIsArmed, ExpiryInv
<1>3. DevInv
  BY <1>0, AlarmLocks, OrderIsTypes
     DEF AlarmInit, DevInv, AwakeInv, ReleaseInv, IdleHoldsNothing
<1>4. RtcInv
  BY DEF AlarmInit, RtcInv
<1>. QED  BY <1>1, <1>2, <1>3, <1>4 DEF AlarmInv

----------------------------------------------------------------------------
(* The timer of a queue fires: an alarm that goes off leaves its queue for  *)
(* the pending ones and takes the lock for as long as it is owed.           *)
LEMMA TriggerStep ==
    ASSUME AlarmInv, NEW t \in Types, alarm_timer_triggered(t)
    PROVE  AlarmInv'
<1> DEFINE stays == t \in queued /\ due[t] > 0
           off == t \in queued /\ due[t] <= 0 /\ t \in enabled
           S == IF off THEN {alarm_wake_lock} ELSE IF stays THEN LockedFor(t) ELSE {}
           T == IF off THEN AlarmTimeout ELSE RtcTimeout
<1>1. /\ LockThenUnlock(S, T, UnlockedFor(t))
      /\ queued' = IF stays THEN queued ELSE queued \ {t}
      /\ armed' = IF stays /\ Arms(t) THEN armed ELSE armed \ {t}
      /\ due' = [due EXCEPT ![t] = IF stays THEN @ ELSE 0]
      /\ expiry' = [expiry EXCEPT ![t] = IF ~stays THEN 0
                                         ELSE IF Arms(t) THEN due[t] ELSE @]
      /\ enabled' = IF off THEN enabled \ {t} ELSE enabled
      /\ pending' = IF off THEN pending \cup {t} ELSE pending
      /\ owed' = IF off THEN AlarmTimeout ELSE owed
      /\ UNCHANGED <<stopped, pmVars, rtcVars, wait_pending, opened, waiter,
                     releasing, reported>>
  BY DEF alarm_timer_triggered
<1>2. /\ UnlockedFor(t) \subseteq {alarm_rtc_wake_lock}
      /\ LockedFor(t) \subseteq {alarm_rtc_wake_lock}
  BY DEF UnlockedFor, LockedFor
<1>3. /\ WakelockTypeOK'
      /\ left'[alarm_wake_lock] = IF off THEN AlarmTimeout ELSE left[alarm_wake_lock]
      /\ alarm_wake_lock \in active' => off \/ alarm_wake_lock \in active
  <2>1. /\ S \in SUBSET Locks /\ UnlockedFor(t) \in SUBSET Locks
        /\ T \in 0..MaxTimeout /\ WakelockTypeOK
        /\ off => S = {alarm_wake_lock} /\ T = AlarmTimeout
        /\ ~off => S \subseteq {alarm_rtc_wake_lock}
    BY <1>2, AlarmLocks DEF AlarmInv, AlarmTypeOK
  <2> HIDE DEF S, T, off
  <2>2. WakelockTypeOK'
    BY <1>1, <2>1, LockThenUnlockType
  <2>3. /\ active' \subseteq (active \cup S) \ UnlockedFor(t)
        /\ \A l \in Locks : left'[l] = IF l \in UnlockedFor(t) THEN 0
                                       ELSE IF l \in S THEN T ELSE left[l]
    BY <1>1, <2>1, LockThenUnlockEffect
  <2>. QED  BY <1>2, <2>1, <2>2, <2>3, AlarmLocks
<1>4. AlarmTypeOK'
  <2>1. /\ due' \in [Types -> -MaxLate..MaxDue] /\ expiry' \in [Types -> -MaxLate..MaxDue]
        /\ owed' \in 0..AlarmTimeout
    BY <1>1, AlarmLocks DEF AlarmInv, AlarmTypeOK
  <2>. QED  BY <1>1, <1>3, <2>1 DEF AlarmInv, AlarmTypeOK, pmVars, rtcVars
<1>5. QueueInv'
  <2>1. /\ UNCHANGED <<stopped, suspended>>
        /\ \A x \in queued' : due'[x] = due[x] /\ (x # t => expiry'[x] = expiry[x])
        /\ \A x \in queued' : x # t => (x \in armed' <=> x \in armed)
        /\ t \in queued' /\ Arms(t) => t \in armed' /\ expiry'[t] = due[t]
        /\ t \in queued' /\ ~Arms(t) => expiry'[t] = expiry[t]
        /\ queued' \subseteq queued
    <3>0. due \in [Types -> -MaxLate..MaxDue] /\ expiry \in [Types -> -MaxLate..MaxDue]
          /\ queued \subseteq Types
      BY DEF AlarmInv, AlarmTypeOK
    <3>1. UNCHANGED <<stopped, suspended>>
      BY <1>1 DEF pmVars
    <3>2. CASE stays
      <4>1. /\ queued' = queued /\ armed' = IF Arms(t) THEN armed ELSE armed \ {t}
            /\ due' = [due EXCEPT ![t] = @]
            /\ expiry' = [expiry EXCEPT ![t] = IF Arms(t) THEN due[t] ELSE @]
        BY <1>1, <3>2
      <4>2. t \in armed
        BY DEF alarm_timer_triggered
      <4>. QED  BY <3>0, <3>1, <4>1, <4>2
    <3>3. CASE ~stays
      <4>1. /\ queued' = queued \ {t} /\ armed' = armed \ {t}
            /\ due' = [due EXCEPT ![t] = 0] /\ expiry' = [expiry EXCEPT ![t] = 0]
        BY <1>1, <3>3
      <4>. QED  BY <3>0, <3>1, <4>1
    <3>. QED  BY <3>2, <3>3
  <2>2. SuspInv'
    BY <1>1 DEF AlarmInv, QueueInv, SuspInv, pmVars, rtcVars
  <2>3. QueuedIsArmed'
    BY <2>1 DEF AlarmInv, QueueInv, QueuedIsArmed, Stopped, Arms
  <2>4. ExpiryInv'
    BY <2>1 DEF AlarmInv, QueueInv, ExpiryInv
  <2>. QED  BY <2>2, <2>3, <2>4 DEF QueueInv
<1>6. DevInv'
  <2>1. AwakeInv'
    BY <1>1, <1>3, AlarmLocks DEF AlarmInv, DevInv, AwakeInv
  <2>2. ReleaseInv'
    BY <1>1 DEF AlarmInv, DevInv, ReleaseInv
  <2>3. IdleHoldsNothing'
    BY <1>1, <1>3 DEF AlarmInv, DevInv, IdleHoldsNothing
  <2>. QED  BY <2>1, <2>2, <2>3 DEF DevInv
<1>7. QuickSuspend => RtcInv'
  <2>1. /\ UNCHANGED <<rtc, stage, spent>> /\ queued' \subseteq queued
        /\ \A x \in queued' : due'[x] = due[x]
    BY <1>1 DEF AlarmInv, AlarmTypeOK, pmVars
  <2>. QED  BY <2>1, RtcFrame DEF AlarmInv
<1>. QED  BY <1>4, <1>5, <1>6, <1>7 DEF AlarmInv, QuickSuspend

----------------------------------------------------------------------------
(* A process sets an alarm: no suspend is under way, so the timer is armed, *)
(* unless alarm_set_rtc has stopped it, and no lock is needed for it.       *)
LEMMA SetStep ==
    ASSUME AlarmInv, NEW t \in Types, NEW when \in 0..MaxDue, alarm_set(t, when)
    PROVE  AlarmInv'
<1>1. /\ stage = "out" /\ releasing = 0 /\ opened' = TRUE /\ enabled' = enabled \cup {t}
      /\ alarm_start(t, when)
      /\ UNCHANGED <<stopped, pmVars, rtcVars, pending, wait_pending,
                     waiter, releasing, history>>
  BY DEF alarm_set, Claims, Running
<1>3. ~suspended
  BY <1>1 DEF AlarmInv, QueueInv, SuspInv
<1>2. WakelockTypeOK' /\ left' = left /\ active' = active
  <2>1. UNCHANGED wakelockVars
    BY <1>1, <1>3 DEF alarm_start, LockThenUnlock, LockedFor
  <2>. QED  BY <2>1 DEF AlarmInv, AlarmTypeOK, wakelockVars, WakelockTypeOK
<1>4. /\ queued' = queued \cup {t} /\ due' = [due EXCEPT ![t] = when]
      /\ ~Stopped(t) => armed' = armed \cup {t} /\ expiry' = [expiry EXCEPT ![t] = when]
      /\ Stopped(t) => armed' = armed /\ expiry' = expiry
  BY <1>1, <1>3 DEF alarm_start, Arms
<1>5. AlarmTypeOK'
  <2>1. /\ due' \in [Types -> -MaxLate..MaxDue] /\ expiry' \in [Types -> -MaxLate..MaxDue]
        /\ armed' \subseteq Types /\ queued' \subseteq Types
    BY <1>4, AlarmLocks DEF AlarmInv, AlarmTypeOK
  <2>2. opened' \in BOOLEAN
    BY <1>1
  <2>. QED  BY <1>1, <1>2, <2>1, <2>2 DEF AlarmInv, AlarmTypeOK, pmVars, rtcVars, history
<1>6. QueueInv'
  <2>1. SuspInv'
    BY <1>1 DEF AlarmInv, QueueInv, SuspInv, pmVars, rtcVars
  <2>2. QueuedIsArmed'
    BY <1>1, <1>3, <1>4 DEF AlarmInv, AlarmTypeOK, QueueInv, QueuedIsArmed, Stopped, pmVars
  <2>3. ExpiryInv'
    BY <1>1, <1>4 DEF AlarmInv, AlarmTypeOK, QueueInv, ExpiryInv, Stopped, WallClock
  <2>. QED  BY <2>1, <2>2, <2>3 DEF QueueInv
<1>7. DevInv'
  BY <1>1, <1>2, OrderIsTypes DEF AlarmInv, DevInv, AwakeInv, ReleaseInv, IdleHoldsNothing, history
<1>8. QuickSuspend => RtcInv'
  BY <1>1, RtcIdle DEF pmVars
<1>. QED  BY <1>5, <1>6, <1>7, <1>8 DEF AlarmInv, QuickSuspend

(* Cancelling an alarm disturbs no other queue.                             *)
LEMMA CancelQueue ==
    ASSUME AlarmTypeOK, QueuedIsArmed, ExpiryInv, NEW t \in Types, alarm_try_to_cancel(t),
           UNCHANGED <<stopped, suspended>>
    PROVE  /\ QueuedIsArmed' /\ ExpiryInv'
           /\ due' \in [Types -> -MaxLate..MaxDue] /\ expiry' \in [Types -> -MaxLate..MaxDue]
           /\ queued' \subseteq Types /\ armed' \subseteq Types
<1>1. /\ queued' = queued \ {t} /\ armed' = armed
      /\ due' \in [Types -> -MaxLate..MaxDue] /\ expiry' \in [Types -> -MaxLate..MaxDue]
      /\ \A x \in queued' : due'[x] = due[x] /\ expiry'[x] = expiry[x]
  BY AlarmLocks DEF alarm_try_to_cancel, AlarmTypeOK
<1>. QED  BY <1>1 DEF AlarmTypeOK, QueuedIsArmed, ExpiryInv, Stopped

(* The locks that cancelling an alarm and acknowledging it unlock.          *)
LEMMA UnlockEffect ==
    ASSUME AlarmTypeOK, NEW U \in SUBSET {alarm_wake_lock, alarm_rtc_wake_lock},
           LockThenUnlock({}, 0, U)
    PROVE  /\ WakelockTypeOK'
           /\ alarm_wake_lock \in active' => alarm_wake_lock \in active /\ alarm_wake_lock \notin U
           /\ alarm_wake_lock \notin U => left'[alarm_wake_lock] = left[alarm_wake_lock]
<1>1. /\ {} \in SUBSET Locks /\ U \in SUBSET Locks /\ 0 \in 0..MaxTimeout /\ WakelockTypeOK
  BY AlarmLocks DEF AlarmTypeOK
<1>2. WakelockTypeOK'
  BY <1>1, LockThenUnlockType
<1>3. /\ active' \subseteq (active \cup {}) \ U
      /\ \A l \in Locks : left'[l] = IF l \in U THEN 0 ELSE IF l \in {} THEN 0 ELSE left[l]
  BY <1>1, LockThenUnlockEffect
<1>. QED  BY <1>2, <1>3, AlarmLocks

(* Clearing an alarm drops the lock only if nothing else is pending and     *)
(* nothing was reported.                                                    *)
LEMMA ClearStep ==
    ASSUME AlarmInv, NEW t \in Types, alarm_clear(t)
    PROVE  AlarmInv'
<1> DEFINE U == Cancelled(t) \cup
                  IF pending # {} /\ pending \subseteq {t} /\ ~wait_pending
                  THEN {alarm_wake_lock} ELSE {}
<1>1. /\ stage = "out" /\ releasing = 0 /\ opened' = TRUE
      /\ alarm_try_to_cancel(t) /\ LockThenUnlock({}, 0, U)
      /\ enabled' = enabled \ {t} /\ pending' = pending \ {t}
      /\ UNCHANGED <<stopped, pmVars, rtcVars, wait_pending, waiter, releasing, history>>
  BY DEF alarm_clear, Claims, Running
<1>2. U \in SUBSET {alarm_wake_lock, alarm_rtc_wake_lock} /\ Cancelled(t) \subseteq {alarm_rtc_wake_lock}
  BY DEF Cancelled, UnlockedFor
<1>3. /\ WakelockTypeOK'
      /\ alarm_wake_lock \in active' => alarm_wake_lock \in active /\ alarm_wake_lock \notin U
      /\ alarm_wake_lock \notin U => left'[alarm_wake_lock] = left[alarm_wake_lock]
  <2> HIDE DEF U
  <2>. QED  BY <1>1, <1>2, UnlockEffect DEF AlarmInv
<1>4. /\ QueuedIsArmed' /\ ExpiryInv'
      /\ due' \in [Types -> -MaxLate..MaxDue] /\ expiry' \in [Types -> -MaxLate..MaxDue]
      /\ queued' \subseteq Types /\ armed' \subseteq Types
  BY <1>1, CancelQueue DEF AlarmInv, QueueInv, pmVars
<1>5. AlarmTypeOK'
  <2>1. opened' \in BOOLEAN
    BY <1>1
  <2>. QED  BY <1>1, <1>3, <1>4, <2>1 DEF AlarmInv, AlarmTypeOK, pmVars, rtcVars, history
<1>6. SuspInv'
  BY <1>1 DEF AlarmInv, QueueInv, SuspInv, pmVars, rtcVars
<1>7. DevInv'
  <2>1. AwakeInv'
    BY <1>1, <1>2, <1>3, AlarmLocks DEF AlarmInv, DevInv, AwakeInv, history
  <2>2. ReleaseInv'
    BY <1>1, OrderIsTypes DEF ReleaseInv
  <2>3. IdleHoldsNothing'
    BY <1>1, <1>3 DEF AlarmInv, DevInv, IdleHoldsNothing
  <2>. QED  BY <2>1, <2>2, <2>3 DEF DevInv
<1>8. QuickSuspend => RtcInv'
  BY <1>1, RtcIdle DEF pmVars
<1>. QED  BY <1>4, <1>5, <1>6, <1>7, <1>8 DEF AlarmInv, QueueInv, QuickSuspend

(* The next WAIT acknowledges: it drops the lock when nothing is pending.   *)
LEMMA WaitStep == ASSUME AlarmInv, alarm_wait PROVE AlarmInv'
<1> DEFINE ack == pending = {} /\ wait_pending
           U == IF ack THEN {alarm_wake_lock} ELSE {}
<1>1. /\ stage = "out" /\ releasing = 0 /\ opened' = TRUE /\ waiter' = "waiting"
      /\ LockThenUnlock({}, 0, U) /\ wait_pending' = (wait_pending /\ ~ack)
      /\ reported' = FALSE
      /\ UNCHANGED <<queueVars, pmVars, rtcVars, enabled, pending, releasing, owed>>
  BY DEF alarm_wait, Claims, Running
<1>2. /\ WakelockTypeOK'
      /\ alarm_wake_lock \in active' => alarm_wake_lock \in active /\ alarm_wake_lock \notin U
      /\ alarm_wake_lock \notin U => left'[alarm_wake_lock] = left[alarm_wake_lock]
  <2>1. U \in SUBSET {alarm_wake_lock, alarm_rtc_wake_lock}
    OBVIOUS
  <2> HIDE DEF U
  <2>. QED  BY <1>1, <2>1, UnlockEffect DEF AlarmInv
<1>3. AlarmTypeOK'
  <2>1. opened' \in BOOLEAN /\ wait_pending' \in BOOLEAN /\ reported' \in BOOLEAN
    BY <1>1
  <2>. QED  BY <1>1, <1>2, <2>1 DEF AlarmInv, AlarmTypeOK, queueVars, pmVars, rtcVars
<1>4. QueueInv'
  BY <1>1, QueueFrame DEF AlarmInv, pmVars, rtcVars
<1>5. DevInv'
  <2>1. AwakeInv'
    BY <1>1, <1>2 DEF AlarmInv, DevInv, AwakeInv
  <2>2. ReleaseInv'
    BY <1>1, OrderIsTypes DEF ReleaseInv
  <2>3. IdleHoldsNothing'
    BY <1>1, <1>2 DEF AlarmInv, DevInv, IdleHoldsNothing
  <2>. QED  BY <2>1, <2>2, <2>3 DEF DevInv
<1>6. QuickSuspend => RtcInv'
  BY <1>1, RtcIdle DEF pmVars
<1>. QED  BY <1>3, <1>4, <1>5, <1>6 DEF AlarmInv, QuickSuspend

(* The process that waits is woken, and takes what is pending with it; from *)
(* then on the lock is held for what it was told of.                        *)
LEMMA WaitReturnSteps ==
    ASSUME AlarmInv,
           alarm_wait_returns \/ \E to \in {"woken", "out"} : wait_event(to)
    PROVE  AlarmInv'
<1>1. /\ stage = "out"
      /\ UNCHANGED <<wakelockVars, queueVars, pmVars, rtcVars, enabled, opened,
                     releasing, owed>>
      /\ waiter' \in {"out", "woken"}
      /\ \/ UNCHANGED <<pending, wait_pending, reported>>
         \/ pending' = {} /\ wait_pending' = TRUE /\ reported' = (pending \cap Types # {})
  BY DEF alarm_wait_returns, wait_event, Running, history
<1>2. WakelockTypeOK' /\ left' = left /\ active' = active
  BY <1>1 DEF AlarmInv, AlarmTypeOK, wakelockVars, WakelockTypeOK
<1>3. AlarmTypeOK'
  <2>1. wait_pending' \in BOOLEAN /\ reported' \in BOOLEAN /\ pending' \subseteq Types \cup {TIME_CHANGE}
    BY <1>1 DEF AlarmInv, AlarmTypeOK
  <2>. QED  BY <1>1, <1>2, <2>1 DEF AlarmInv, AlarmTypeOK, queueVars, pmVars, rtcVars
<1>4. QueueInv'
  BY <1>1, QueueFrame DEF AlarmInv, pmVars, rtcVars
<1>5. DevInv'
  <2>1. AwakeInv'
    <3>1. CASE UNCHANGED <<pending, wait_pending, reported>>
      BY <1>1, <1>2, <3>1 DEF AlarmInv, DevInv, AwakeInv
    <3>2. CASE pending' = {} /\ wait_pending' = TRUE /\ reported' = (pending \cap Types # {})
      <4>1. reported' => pending \cap Types # {}
        BY <3>2
      <4>. QED  BY <1>1, <1>2, <3>2, <4>1 DEF AlarmInv, DevInv, AwakeInv
    <3>. QED  BY <1>1, <3>1, <3>2
  <2>2. ReleaseInv'
    BY <1>1 DEF AlarmInv, DevInv, ReleaseInv, queueVars
  <2>3. IdleHoldsNothing'
    BY <1>1, <1>2 DEF AlarmInv, DevInv, IdleHoldsNothing, queueVars
  <2>. QED  BY <2>1, <2>2, <2>3 DEF DevInv
<1>6. QuickSuspend => RtcInv'
  BY <1>1, RtcIdle DEF pmVars
<1>. QED  BY <1>3, <1>4, <1>5, <1>6 DEF AlarmInv, QuickSuspend

----------------------------------------------------------------------------
(* alarm_release begins: the first alarm is disabled.                       *)
LEMMA ReleaseStep == ASSUME AlarmInv, alarm_release PROVE AlarmInv'
<1>1. /\ stage = "out" /\ opened /\ releasing = 0 /\ releasing' = 1
      /\ enabled' = enabled \ {Order[1]}
      /\ UNCHANGED <<wakelockVars, queueVars, pmVars, rtcVars, pending, wait_pending,
                     opened, waiter, history>>
  BY DEF alarm_release, Running
<1>2. WakelockTypeOK' /\ left' = left /\ active' = active
  BY <1>1 DEF AlarmInv, AlarmTypeOK, wakelockVars, WakelockTypeOK
<1>3. AlarmTypeOK'
  <2>1. releasing' \in 0..Len(Order) /\ enabled' \subseteq Types
    BY <1>1, OrderIsTypes DEF AlarmInv, AlarmTypeOK
  <2>. QED  BY <1>1, <1>2, <2>1 DEF AlarmInv, AlarmTypeOK, queueVars, pmVars, rtcVars, history
<1>4. QueueInv'
  BY <1>1 DEF AlarmInv, QueueInv, SuspInv, QueuedIsArmed, ExpiryInv, Stopped, queueVars,
              pmVars, rtcVars
<1>5. DevInv'
  <2>1. AwakeInv'
    BY <1>1, <1>2 DEF AlarmInv, DevInv, AwakeInv, history
  <2>2. ReleaseInv'
    BY <1>1, OrderIsTypes DEF ReleaseInv, queueVars
  <2>3. IdleHoldsNothing'
    BY <1>1, <1>2 DEF AlarmInv, DevInv, IdleHoldsNothing, queueVars
  <2>. QED  BY <2>1, <2>2, <2>3 DEF DevInv
<1>6. QuickSuspend => RtcInv'
  BY <1>1, RtcIdle DEF pmVars
<1>. QED  BY <1>3, <1>4, <1>5, <1>6 DEF AlarmInv, QuickSuspend

(* The loop cancels one alarm and disables the next.                        *)
LEMMA ReleaseNextStep == ASSUME AlarmInv, release_next PROVE AlarmInv'
<1> DEFINE t == Order[releasing]
<1>1. /\ releasing \in 1..4 /\ alarm_try_to_cancel(t) /\ LockThenUnlock({}, 0, Cancelled(t))
      /\ enabled' = enabled \ {Order[releasing + 1]} /\ releasing' = releasing + 1
      /\ UNCHANGED <<stopped, pmVars, rtcVars, pending, wait_pending, opened, waiter, history>>
  BY OrderIsTypes DEF release_next
<1>2. t \in Types /\ Cancelled(t) \in SUBSET {alarm_wake_lock, alarm_rtc_wake_lock}
      /\ alarm_wake_lock \notin Cancelled(t)
  BY <1>1, OrderIsTypes, AlarmLocks DEF Cancelled, UnlockedFor
<1>3. stage = "out"
  BY <1>1 DEF AlarmInv, QueueInv, SuspInv
<1> HIDE DEF t
<1>4. /\ WakelockTypeOK' /\ (alarm_wake_lock \in active' => alarm_wake_lock \in active)
      /\ left'[alarm_wake_lock] = left[alarm_wake_lock]
  BY <1>1, <1>2, UnlockEffect DEF AlarmInv
<1>5. /\ QueuedIsArmed' /\ ExpiryInv'
      /\ due' \in [Types -> -MaxLate..MaxDue] /\ expiry' \in [Types -> -MaxLate..MaxDue]
      /\ queued' \subseteq Types /\ armed' \subseteq Types
  BY <1>1, <1>2, CancelQueue DEF AlarmInv, QueueInv, pmVars
<1>6. AlarmTypeOK'
  <2>1. releasing' \in 0..Len(Order) /\ enabled' \subseteq Types
    BY <1>1, OrderIsTypes DEF AlarmInv, AlarmTypeOK
  <2>. QED  BY <1>1, <1>4, <1>5, <2>1 DEF AlarmInv, AlarmTypeOK, pmVars, rtcVars, history
<1>7. SuspInv'
  BY <1>1, <1>3 DEF AlarmInv, QueueInv, SuspInv, pmVars, rtcVars
<1>8. DevInv'
  <2>1. AwakeInv'
    BY <1>1, <1>4 DEF AlarmInv, DevInv, AwakeInv, history
  <2>2. ReleaseInv'
    <3>1. queued' = queued \ {Order[releasing]}
      BY <1>1 DEF alarm_try_to_cancel, t
    <3>2. ASSUME NEW i \in 1..Len(Order), i <= releasing' PROVE Order[i] \notin enabled'
      <4>1. i <= releasing \/ i = releasing + 1
        BY <1>1, <3>2, OrderIsTypes
      <4>. QED  BY <1>1, <4>1 DEF AlarmInv, DevInv, ReleaseInv
    <3>3. ASSUME NEW i \in 1..Len(Order), i < releasing' PROVE Order[i] \notin queued'
      <4>1. i < releasing \/ i = releasing
        BY <1>1, <3>3, OrderIsTypes
      <4>. QED  BY <3>1, <4>1 DEF AlarmInv, DevInv, ReleaseInv
    <3>4. opened'
      BY <1>1 DEF AlarmInv, DevInv, ReleaseInv
    <3>. QED  BY <3>2, <3>3, <3>4 DEF ReleaseInv
  <2>3. IdleHoldsNothing'
    BY <1>1, <1>4 DEF AlarmInv, DevInv, IdleHoldsNothing, alarm_try_to_cancel
  <2>. QED  BY <2>1, <2>2, <2>3 DEF DevInv
<1>9. QuickSuspend => RtcInv'
  BY <1>1, <1>3, RtcIdle DEF pmVars
<1>. QED  BY <1>5, <1>6, <1>7, <1>8, <1>9 DEF AlarmInv, QueueInv, QuickSuspend

(* The last pass: no alarm is enabled or queued, and the lock is dropped.   *)
LEMMA ReleaseLastStep == ASSUME AlarmInv, release_last PROVE AlarmInv'
<1> DEFINE t == Order[releasing]
           U == Cancelled(t) \cup IF pending # {} \/ wait_pending THEN {alarm_wake_lock} ELSE {}
<1>1. /\ releasing = 5 /\ alarm_try_to_cancel(t) /\ LockThenUnlock({}, 0, U)
      /\ pending' = {} /\ wait_pending' = FALSE /\ opened' = FALSE
      /\ releasing' = 0 /\ reported' = FALSE
      /\ UNCHANGED <<stopped, pmVars, rtcVars, enabled, waiter, owed>>
  BY OrderIsTypes DEF release_last
<1>2. t \in Types /\ U \in SUBSET {alarm_wake_lock, alarm_rtc_wake_lock}
  BY <1>1, OrderIsTypes DEF Cancelled, UnlockedFor
<1>3. stage = "out"
  BY <1>1 DEF AlarmInv, QueueInv, SuspInv
<1>4. WakelockTypeOK' /\ alarm_wake_lock \notin active'
  <2>1. /\ WakelockTypeOK'
        /\ alarm_wake_lock \in active' => alarm_wake_lock \in active /\ alarm_wake_lock \notin U
    <3> HIDE DEF U
    <3>. QED  BY <1>1, <1>2, UnlockEffect DEF AlarmInv
  <2>. QED  BY <2>1 DEF AlarmInv, DevInv, IdleHoldsNothing
<1>5. /\ QueuedIsArmed' /\ ExpiryInv'
      /\ due' \in [Types -> -MaxLate..MaxDue] /\ expiry' \in [Types -> -MaxLate..MaxDue]
      /\ queued' \subseteq Types /\ armed' \subseteq Types
  <2> HIDE DEF t
  <2>. QED  BY <1>1, <1>2, CancelQueue DEF AlarmInv, QueueInv, pmVars
<1>6. AlarmTypeOK'
  <2>1. releasing' \in 0..Len(Order) /\ pending' \subseteq Types \cup {TIME_CHANGE}
    BY <1>1, OrderIsTypes
  <2>2. wait_pending' \in BOOLEAN /\ opened' \in BOOLEAN /\ reported' \in BOOLEAN
    BY <1>1
  <2>. QED  BY <1>1, <1>4, <1>5, <2>1, <2>2 DEF AlarmInv, AlarmTypeOK, pmVars, rtcVars
<1>7. SuspInv'
  BY <1>1, <1>3 DEF AlarmInv, QueueInv, SuspInv, pmVars, rtcVars
<1>8. DevInv'
  <2>1. AwakeInv'
    BY <1>1 DEF AwakeInv
  <2>2. ReleaseInv'
    BY <1>1, OrderIsTypes DEF ReleaseInv
  <2>3. enabled' = {}
    BY <1>1, OrderIsTypes DEF AlarmInv, AlarmTypeOK, DevInv, ReleaseInv
  <2>4. queued' = {}
    <3>1. \A i \in 1..5 : Order[i] \notin queued'
      <4>1. queued' = queued \ {Order[5]}
        BY <1>1 DEF alarm_try_to_cancel
      <4>2. \A i \in 1..5 : i < 5 => Order[i] \notin queued
        BY <1>1, OrderIsTypes DEF AlarmInv, DevInv, ReleaseInv
      <4>. QED  BY <4>1, <4>2
    <3>. QED  BY <1>5, <3>1, OrderIsTypes
  <2>. QED  BY <1>4, <2>1, <2>2, <2>3, <2>4 DEF DevInv, IdleHoldsNothing
<1>9. QuickSuspend => RtcInv'
  BY <1>1, <1>3, RtcIdle DEF pmVars
<1>. QED  BY <1>5, <1>6, <1>7, <1>8, <1>9 DEF AlarmInv, QueueInv, QuickSuspend

----------------------------------------------------------------------------
(* alarm_set_rtc stops the timers before it moves the origin of elapsed     *)
(* time, and do_settimeofday moves the wall clock while they are stopped.   *)
LEMMA SetRtcStep == ASSUME AlarmInv, NEW d \in Shifts, alarm_set_rtc(d) PROVE AlarmInv'
<1>1. /\ stage = "out" /\ setter' = "stopped" /\ shift' = d
      /\ wake_lock(alarm_rtc_wake_lock) /\ UNCHANGED <<workq, worker>>
      /\ armed' = armed \ WallClock
      /\ expiry' = [t \in Types |-> IF t \in WallClock THEN 0 ELSE expiry[t]]
      /\ stopped' = TRUE /\ due' = Later(Elapsed, d) /\ InRange(due')
      /\ UNCHANGED <<queued, pmVars, devVars, history>>
  BY DEF alarm_set_rtc, SetterStep, Running
<1>2. /\ WakelockTypeOK' /\ left'[alarm_wake_lock] = left[alarm_wake_lock]
      /\ alarm_wake_lock \in active' => alarm_wake_lock \in active
  BY <1>1, RtcLockEffect DEF AlarmInv, AlarmTypeOK
<1>3. AlarmTypeOK'
  <2>1. due' \in [Types -> -MaxLate..MaxDue]
    BY <1>1, AlarmLocks DEF AlarmInv, AlarmTypeOK, Later, InRange
  <2>2. expiry' \in [Types -> -MaxLate..MaxDue]
    BY <1>1, AlarmLocks DEF AlarmInv, AlarmTypeOK
  <2>3. stopped' \in BOOLEAN
    BY <1>1
  <2>. QED  BY <1>1, <1>2, <2>1, <2>2, <2>3 DEF AlarmInv, AlarmTypeOK, pmVars, devVars, history
<1>4. QueueInv'
  <2>1. SuspInv'
    BY <1>1 DEF AlarmInv, QueueInv, SuspInv, pmVars, devVars
  <2>2. QueuedIsArmed' /\ ExpiryInv'
    BY <1>1 DEF AlarmInv, AlarmTypeOK, QueuedIsArmed, ExpiryInv, Stopped, WallClock
  <2>. QED  BY <2>1, <2>2 DEF QueueInv
<1>5. DevInv'
  BY <1>1, <1>2, DevFrame DEF AlarmInv, devVars, history
<1>6. QuickSuspend => RtcInv'
  BY <1>1, RtcIdle DEF pmVars
<1>. QED  BY <1>3, <1>4, <1>5, <1>6 DEF AlarmInv, QuickSuspend

(* The clock is set, or the new time is refused.                            *)
LEMMA SettimeofdaySteps ==
    ASSUME AlarmInv, do_settimeofday \/ do_settimeofday_refuses
    PROVE  AlarmInv'
<1>1. /\ stage = "out" /\ setter = "stopped" /\ setter' \in {"set", "refused"}
      /\ (due' = Later(WallClock, -shift) /\ InRange(due')) \/ due' = due
      /\ UNCHANGED <<wakelockVars, queued, armed, expiry, stopped, pmVars, devVars,
                     shift, history>>
  BY DEF do_settimeofday, do_settimeofday_refuses, SetterStep, Running, queueVars
<1>2. WakelockTypeOK' /\ left' = left /\ active' = active
  BY <1>1 DEF AlarmInv, AlarmTypeOK, wakelockVars, WakelockTypeOK
<1>3. AlarmTypeOK'
  <2>1. due' \in [Types -> -MaxLate..MaxDue]
    BY <1>1, AlarmLocks DEF AlarmInv, AlarmTypeOK, Later, InRange
  <2>. QED  BY <1>1, <1>2, <2>1 DEF AlarmInv, AlarmTypeOK, pmVars, devVars, history
<1>4. QueueInv'
  <2>1. SuspInv' /\ stopped
    BY <1>1 DEF AlarmInv, QueueInv, SuspInv, pmVars, devVars
  <2>2. QueuedIsArmed' /\ ExpiryInv'
    BY <1>1, <2>1 DEF AlarmInv, AlarmTypeOK, QueuedIsArmed, ExpiryInv, Stopped, WallClock
  <2>. QED  BY <2>1, <2>2 DEF QueueInv
<1>5. DevInv'
  BY <1>1, <1>2, DevFrame DEF AlarmInv, devVars, history
<1>6. QuickSuspend => RtcInv'
  BY <1>1, RtcIdle DEF pmVars
<1>. QED  BY <1>3, <1>4, <1>5, <1>6 DEF AlarmInv, QuickSuspend

(* What ArmAll leaves in the timers.                                        *)
LEMMA ArmAllEffect ==
    ASSUME AlarmTypeOK, NEW T \in SUBSET Types, ArmAll(T, due)
    PROVE  /\ armed' \subseteq Types /\ expiry' \in [Types -> -MaxLate..MaxDue]
           /\ armed \subseteq armed'
           /\ \A t \in queued : t \in T => t \in armed' /\ expiry'[t] = due[t]
           /\ \A t \in queued : t \notin T => expiry'[t] = expiry[t]
  BY DEF ArmAll, AlarmTypeOK

(* The timers are set anew, for the times the alarms are due now.           *)
LEMMA RestartStep == ASSUME AlarmInv, set_rtc_restarts PROVE AlarmInv'
<1>1. /\ stage = "out" /\ setter' \in {"restarted", "failed"}
      /\ stopped' = FALSE /\ ArmAll(WallClock, due)
      /\ UNCHANGED <<wakelockVars, queued, due, pmVars, devVars, shift, history>>
  BY DEF set_rtc_restarts, SetterStep, Running
<1>2. WakelockTypeOK' /\ left' = left /\ active' = active
  BY <1>1 DEF AlarmInv, AlarmTypeOK, wakelockVars, WakelockTypeOK
<1>3. /\ armed' \subseteq Types /\ expiry' \in [Types -> -MaxLate..MaxDue]
      /\ \A t \in queued : t \in WallClock => t \in armed' /\ expiry'[t] = due[t]
  BY <1>1, ArmAllEffect DEF AlarmInv, WallClock
<1>4. AlarmTypeOK'
  <2>1. stopped' \in BOOLEAN
    BY <1>1
  <2>. QED  BY <1>1, <1>2, <1>3, <2>1 DEF AlarmInv, AlarmTypeOK, pmVars, devVars, history
<1>5. QueueInv'
  <2>1. SuspInv'
    BY <1>1 DEF AlarmInv, QueueInv, SuspInv, pmVars, devVars
  <2>2. QueuedIsArmed' /\ ExpiryInv'
    BY <1>1, <1>3 DEF AlarmInv, AlarmTypeOK, QueuedIsArmed, ExpiryInv, WallClock, Wakeup, Types
  <2>. QED  BY <2>1, <2>2 DEF QueueInv
<1>6. DevInv'
  BY <1>1, <1>2, DevFrame DEF AlarmInv, devVars, history
<1>7. QuickSuspend => RtcInv'
  BY <1>1, RtcIdle DEF pmVars
<1>. QED  BY <1>4, <1>5, <1>6, <1>7 DEF AlarmInv, QuickSuspend

(* The lock for the RTC is dropped, and the waiting process is told.        *)
LEMMA SetRtcEndSteps ==
    ASSUME AlarmInv, set_rtc_unlocks \/ set_rtc_notifies
    PROVE  AlarmInv'
<1>1. /\ stage = "out" /\ setter \in {"restarted", "failed", "notify"} /\ setter' \in {"notify", "out"}
      /\ \/ wake_unlock(alarm_rtc_wake_lock) /\ UNCHANGED worker
         \/ UNCHANGED wakelockVars
      /\ pending' = pending \/ pending' = pending \cup {TIME_CHANGE}
      /\ \/ rtc' = rtc
         \/ rtc - shift <= MaxDue /\ rtc' = Programmed(rtc - shift)
      /\ shift' = shift \/ shift' = 0
      /\ UNCHANGED <<queueVars, suspended, stage, spent, enabled, wait_pending, opened,
                     waiter, releasing, history>>
  BY DEF set_rtc_unlocks, set_rtc_notifies, SetterStep, Running, devVars, pmVars
<1>2. /\ WakelockTypeOK' /\ left'[alarm_wake_lock] = left[alarm_wake_lock]
      /\ alarm_wake_lock \in active' => alarm_wake_lock \in active
  <2>1. CASE wake_unlock(alarm_rtc_wake_lock) /\ UNCHANGED worker
    BY <2>1, RtcLockEffect DEF AlarmInv, AlarmTypeOK
  <2>2. CASE UNCHANGED wakelockVars
    BY <2>2 DEF AlarmInv, AlarmTypeOK, wakelockVars, WakelockTypeOK
  <2>. QED  BY <1>1, <2>1, <2>2
<1>3. AlarmTypeOK'
  <2>1. rtc' \in -1..MaxDue
    <3>1. rtc \in -1..MaxDue /\ shift \in Int
      BY AlarmAssumption DEF AlarmInv, AlarmTypeOK
    <3>. QED  BY <1>1, <3>1, AlarmLocks DEF Programmed, NotArmed
  <2>. QED  BY <1>1, <1>2, <2>1 DEF AlarmInv, AlarmTypeOK, queueVars, history
<1>4. QueueInv'
  BY <1>1 DEF AlarmInv, QueueInv, SuspInv, QueuedIsArmed, ExpiryInv, Stopped, queueVars
<1>5. DevInv'
  <2>1. AwakeInv'
    <3>1. pending' \cap Types = pending \cap Types
      BY <1>1 DEF TIME_CHANGE, Types
    <3>. QED  BY <1>1, <1>2, <3>1 DEF AlarmInv, DevInv, AwakeInv, history
  <2>2. ReleaseInv'
    BY <1>1 DEF AlarmInv, DevInv, ReleaseInv, queueVars
  <2>3. IdleHoldsNothing'
    BY <1>1, <1>2 DEF AlarmInv, DevInv, IdleHoldsNothing, queueVars
  <2>. QED  BY <2>1, <2>2, <2>3 DEF DevInv
<1>6. QuickSuspend => RtcInv'
  BY <1>1, RtcIdle
<1>. QED  BY <1>3, <1>4, <1>5, <1>6 DEF AlarmInv, QuickSuspend

----------------------------------------------------------------------------
(* A step of the suspend that touches neither timers nor locks.             *)
LEMMA StageSteps ==
    ASSUME AlarmInv,
           \/ alarm_suspend \/ suspend_aborted \/ enter_sleep \/ wake_up_system
           \/ thaw_processes
    PROVE  AlarmInv'
<1>1. /\ UNCHANGED <<wakelockVars, queueVars, devVars, rtcVars, history>>
      /\ rtc' \in {rtc, NotArmed}
  BY DEF alarm_suspend, suspend_aborted, enter_sleep, wake_up_system, thaw_processes
<1>2. WakelockTypeOK' /\ left' = left /\ active' = active
  BY <1>1 DEF AlarmInv, AlarmTypeOK, wakelockVars, WakelockTypeOK
<1>3. /\ suspended' \in BOOLEAN /\ stage' \in Stages /\ spent' \in 0..SuspendTime
      /\ SuspInv' /\ (suspended => suspended')
  <2>0. /\ suspended \in BOOLEAN /\ spent \in 0..SuspendTime /\ 0 \in 0..SuspendTime
        /\ SuspInv /\ UNCHANGED <<setter, releasing, stopped>>
    BY <1>1, AlarmLocks DEF AlarmInv, AlarmTypeOK, QueueInv, queueVars, devVars, rtcVars
  <2> USE DEF StageStep, Stages, SuspInv
  <2>1. CASE alarm_suspend
    BY <2>0, <2>1 DEF alarm_suspend
  <2>2. CASE suspend_aborted
    BY <2>0, <2>2 DEF suspend_aborted
  <2>3. CASE enter_sleep
    BY <2>0, <2>3 DEF enter_sleep
  <2>4. CASE wake_up_system
    BY <2>0, <2>4 DEF wake_up_system
  <2>5. CASE thaw_processes
    BY <2>0, <2>5 DEF thaw_processes
  <2>. QED  BY <2>1, <2>2, <2>3, <2>4, <2>5
<1>4. AlarmTypeOK'
  <2>1. rtc' \in -1..MaxDue
    BY <1>1, AlarmLocks DEF AlarmInv, AlarmTypeOK, NotArmed
  <2>. QED  BY <1>1, <1>2, <1>3, <2>1 DEF AlarmInv, AlarmTypeOK, queueVars, devVars, rtcVars, history
<1>5. QueueInv'
  BY <1>1, <1>3 DEF AlarmInv, QueueInv, QueuedIsArmed, ExpiryInv, Stopped, queueVars
<1>6. DevInv'
  BY <1>1, <1>2, DevFrame DEF AlarmInv, devVars, history, queueVars
<1>7. QuickSuspend => RtcInv'
  <2>1. CASE enter_sleep
    BY <1>1, <2>1 DEF AlarmInv, RtcInv, enter_sleep, StageStep, queueVars
  <2>2. CASE alarm_suspend \/ suspend_aborted \/ wake_up_system \/ thaw_processes
    BY <2>2, RtcIdle DEF alarm_suspend, suspend_aborted, wake_up_system, thaw_processes, StageStep
  <2>. QED  BY <2>1, <2>2
<1>. QED  BY <1>4, <1>5, <1>6, <1>7 DEF AlarmInv, QuickSuspend

(* Processes are frozen only outside of alarm_set_rtc and alarm_release.    *)
LEMMA FreezeStep == ASSUME AlarmInv, freeze_processes PROVE AlarmInv'
<1>1. /\ setter = "out" /\ releasing = 0 /\ Asks(0) /\ stage = "out" /\ stage' = "frozen"
      /\ waiter' = "out"
      /\ UNCHANGED <<queueVars, suspended, rtc, spent, rtcVars, enabled, pending,
                     wait_pending, opened, releasing, history>>
  BY DEF freeze_processes, StageStep
<1>2. WakelockTypeOK' /\ left' = left /\ active' \subseteq active
  BY <1>1, AsksEffect, AlarmLocks DEF AlarmInv, AlarmTypeOK
<1>3. AlarmTypeOK'
  BY <1>1, <1>2 DEF AlarmInv, AlarmTypeOK, queueVars, rtcVars, history, Stages
<1>4. QueueInv'
  BY <1>1 DEF AlarmInv, QueueInv, SuspInv, QueuedIsArmed, ExpiryInv, Stopped, queueVars, rtcVars
<1>5. DevInv'
  BY <1>1, <1>2, DevFrame DEF AlarmInv, history, queueVars
<1>6. QuickSuspend => RtcInv'
  BY <1>1, RtcIdle
<1>. QED  BY <1>3, <1>4, <1>5, <1>6 DEF AlarmInv, QuickSuspend

(* alarm_suspend cancels timers, and keeps their expiry times.              *)
LEMMA CancelTimersStep == ASSUME AlarmInv, suspend_cancels_timers PROVE AlarmInv'
<1>1. /\ stage = "marked" /\ stage' = "cancelled"
      /\ armed' = armed \ {"RTC_WAKEUP", "SYSTEMTIME"}
      /\ expiry' = [t \in Types |-> IF t \in armed' \cup queued THEN expiry[t] ELSE 0]
      /\ UNCHANGED <<wakelockVars, queued, due, stopped, suspended, rtc, spent, devVars,
                     rtcVars, history>>
  BY DEF suspend_cancels_timers, StageStep
<1>2. WakelockTypeOK' /\ left' = left /\ active' = active
  BY <1>1 DEF AlarmInv, AlarmTypeOK, wakelockVars, WakelockTypeOK
<1>3. /\ expiry' \in [Types -> -MaxLate..MaxDue]
      /\ \A t \in queued : expiry'[t] = expiry[t]
  BY <1>1, AlarmLocks DEF AlarmInv, AlarmTypeOK
<1>4. AlarmTypeOK'
  BY <1>1, <1>2, <1>3 DEF AlarmInv, AlarmTypeOK, devVars, rtcVars, history, Stages
<1>5. QueueInv'
  <2>1. SuspInv' /\ suspended
    BY <1>1 DEF AlarmInv, QueueInv, SuspInv, rtcVars, devVars
  <2>2. QueuedIsArmed'
    BY <1>1, <1>3, <2>1 DEF AlarmInv, QueueInv, QueuedIsArmed, Stopped, Wakeup
  <2>3. ExpiryInv'
    BY <1>1, <1>3 DEF AlarmInv, QueueInv, ExpiryInv
  <2>. QED  BY <2>1, <2>2, <2>3 DEF QueueInv
<1>6. DevInv'
  BY <1>1, <1>2, DevFrame DEF AlarmInv, devVars, history
<1>7. QuickSuspend => RtcInv'
  BY <1>1, RtcIdle
<1>. QED  BY <1>4, <1>5, <1>6, <1>7 DEF AlarmInv, QuickSuspend

(* The timers of the wake-up queues are set anew, at the end of a suspend   *)
(* that came to something or came to nothing.                               *)
LEMMA RearmQueue ==
    ASSUME AlarmTypeOK, QueueInv, stage # "out", ArmAll(Wakeup, due), suspended' = FALSE,
           stage' = "thaw", UNCHANGED <<queued, due, stopped, setter, releasing>>
    PROVE  /\ QueueInv' /\ armed' \subseteq Types /\ expiry' \in [Types -> -MaxLate..MaxDue]
<1>1. /\ armed' \subseteq Types /\ expiry' \in [Types -> -MaxLate..MaxDue]
      /\ armed \subseteq armed'
      /\ \A t \in queued : t \in Wakeup => t \in armed' /\ expiry'[t] = due[t]
      /\ \A t \in queued : t \notin Wakeup => expiry'[t] = expiry[t]
  BY ArmAllEffect DEF Wakeup, Types
<1>2. SuspInv'
  BY DEF QueueInv, SuspInv
<1>3. QueuedIsArmed'
  BY <1>1 DEF QueueInv, QueuedIsArmed, Stopped
<1>4. ExpiryInv'
  BY <1>1 DEF ExpiryInv
<1>. QED  BY <1>1, <1>2, <1>3, <1>4 DEF QueueInv

(* The RTC is set for the first wake-up alarm, or the suspend is refused    *)
(* because that alarm is about to go off.                                   *)
LEMMA SetsRtcStep == ASSUME AlarmInv, suspend_sets_rtc PROVE AlarmInv'
<1>1. /\ stage = "cancelled" /\ spent' = 0
      /\ UNCHANGED <<queued, due, stopped, devVars, rtcVars, history>>
  BY DEF suspend_sets_rtc
<1>2. suspended /\ ~stopped
  BY <1>1 DEF AlarmInv, QueueInv, SuspInv
<1>3. ASSUME stage' = "suspended", UNCHANGED <<wakelockVars, armed, expiry, suspended>>,
             rtc' \in -1..MaxDue,
             \A t \in queued \cap Wakeup : rtc' >= 2 /\ rtc' <= expiry[t]
      PROVE  AlarmInv'
  <2>1. WakelockTypeOK' /\ left' = left /\ active' = active
    BY <1>3 DEF AlarmInv, AlarmTypeOK, wakelockVars, WakelockTypeOK
  <2>2. AlarmTypeOK'
    BY <1>1, <1>3, <2>1, AlarmLocks DEF AlarmInv, AlarmTypeOK, devVars, rtcVars, history, Stages
  <2>3. QueueInv'
    BY <1>1, <1>3 DEF AlarmInv, QueueInv, SuspInv, QueuedIsArmed, ExpiryInv, Stopped, rtcVars, devVars
  <2>4. DevInv'
    BY <1>1, <2>1, DevFrame DEF AlarmInv, devVars, history
  <2>5. RtcInv'
    <3>1. \A t \in queued \cap Wakeup : expiry[t] = due[t]
      BY <1>2 DEF AlarmInv, QueueInv, ExpiryInv
    <3>2. \A r \in Int : r >= 2 => r > 0 /\ (spent' = 0 => r + spent' >= 2)
      OBVIOUS
    <3>3. rtc' \in Int
      BY <2>2, AlarmLocks DEF AlarmTypeOK
    <3>4. \A t \in queued \cap Wakeup : rtc' > 0 /\ rtc' <= due[t] /\ rtc' + spent' >= 2
      BY <1>1, <1>3, <3>1, <3>2, <3>3
    <3>. QED  BY <1>1, <1>3, <3>4 DEF RtcInv
  <2>. QED  BY <2>2, <2>3, <2>4, <2>5 DEF AlarmInv
<1>4. CASE /\ queued \cap Wakeup = {} /\ stage' = "suspended"
           /\ UNCHANGED <<wakelockVars, armed, expiry, suspended, rtc>>
  BY <1>3, <1>4 DEF AlarmInv, AlarmTypeOK
<1>5. ASSUME NEW r \in 2..MaxDue, IsWakeupTime(r), rtc' = r, stage' = "suspended",
             UNCHANGED <<wakelockVars, armed, expiry, suspended>>
      PROVE  AlarmInv'
  <2>1. rtc' \in -1..MaxDue /\ rtc' >= 2
    BY <1>5, AlarmLocks
  <2>2. \A t \in queued \cap Wakeup : rtc' <= expiry[t]
    BY <1>5 DEF IsWakeupTime
  <2>. QED  BY <1>3, <1>5, <2>1, <2>2
<1>6. ASSUME NEW r \in -MaxLate..1, rtc' = Programmed(r), suspended' = FALSE,
             stage' = "thaw", ArmAll(Wakeup, due),
             wake_lock_timeout(alarm_rtc_wake_lock, BusyTimeout), UNCHANGED worker
      PROVE  AlarmInv'
  <2>1. /\ WakelockTypeOK' /\ left'[alarm_wake_lock] = left[alarm_wake_lock]
        /\ alarm_wake_lock \in active' => alarm_wake_lock \in active
    BY <1>6, RtcLockEffect, AlarmLocks DEF AlarmInv, AlarmTypeOK
  <2>2. QueueInv' /\ armed' \subseteq Types /\ expiry' \in [Types -> -MaxLate..MaxDue]
    BY <1>1, <1>6, RearmQueue DEF AlarmInv, rtcVars, devVars
  <2>3. AlarmTypeOK'
    <3>1. suspended' \in BOOLEAN
      BY <1>6
    <3>2. spent' \in 0..SuspendTime /\ rtc' \in -1..MaxDue
      BY <1>1, <1>6, AlarmLocks DEF Programmed, NotArmed
    <3>. QED  BY <1>1, <1>6, <2>1, <2>2, <3>1, <3>2 DEF AlarmInv, AlarmTypeOK, devVars, rtcVars, history, Stages
  <2>4. DevInv'
    BY <1>1, <2>1, DevFrame DEF AlarmInv, devVars, history
  <2>5. RtcInv'
    BY <1>6 DEF RtcInv
  <2>. QED  BY <2>2, <2>3, <2>4, <2>5 DEF AlarmInv
<1>. QED  BY <1>4, <1>5, <1>6 DEF suspend_sets_rtc

(* power_suspend_late asks for the locks, and changes nothing else.         *)
LEMMA SuspendLateStep == ASSUME AlarmInv, power_suspend_late PROVE AlarmInv'
<1>1. PICK r \in -1..MaxTimeout : Asks(r) /\ stage' = IF r = 0 THEN "late" ELSE "resuming"
  BY DEF power_suspend_late
<1>2. /\ stage = "suspended"
      /\ UNCHANGED <<queueVars, suspended, rtc, spent, devVars, rtcVars, history>>
  BY DEF power_suspend_late
<1>3. /\ WakelockTypeOK' /\ left' = left /\ active' \subseteq active
      /\ r = 0 => \A l \in Locks : left[l] = 0
  BY <1>1, AsksEffect DEF AlarmInv, AlarmTypeOK
<1>4. AlarmTypeOK'
  <2>1. stage' \in Stages
    BY <1>1 DEF Stages
  <2>. QED  BY <1>2, <1>3, <2>1 DEF AlarmInv, AlarmTypeOK, queueVars, devVars, rtcVars, history
<1>5. QueueInv'
  BY <1>1, <1>2 DEF AlarmInv, QueueInv, SuspInv, QueuedIsArmed, ExpiryInv, Stopped, queueVars,
                    rtcVars, devVars
<1>6. DevInv'
  BY <1>2, <1>3, DevFrame DEF AlarmInv, devVars, history, queueVars
<1>7. QuickSuspend => RtcInv'
  <2>1. CASE r = 0
    BY <1>1, <1>2, <2>1 DEF AlarmInv, RtcInv, queueVars
  <2>2. CASE r # 0
    BY <1>1, <2>2, RtcIdle
  <2>. QED  BY <2>1, <2>2
<1>. QED  BY <1>4, <1>5, <1>6, <1>7 DEF AlarmInv, QuickSuspend

(* alarm_resume sets the timers it finds wanting.                           *)
LEMMA ResumeStep == ASSUME AlarmInv, alarm_resume PROVE AlarmInv'
<1>1. /\ stage = "resuming" /\ stage' = "thaw" /\ suspended' = FALSE
      /\ ArmAll(Wakeup, due) /\ spent' = 0
      /\ UNCHANGED <<wakelockVars, queued, due, stopped, rtc, devVars, rtcVars, history>>
  BY DEF alarm_resume, StageStep
<1>2. WakelockTypeOK' /\ left' = left /\ active' = active
  BY <1>1 DEF AlarmInv, AlarmTypeOK, wakelockVars, WakelockTypeOK
<1>3. QueueInv' /\ armed' \subseteq Types /\ expiry' \in [Types -> -MaxLate..MaxDue]
  BY <1>1, RearmQueue DEF AlarmInv, rtcVars, devVars
<1>4. AlarmTypeOK'
  <2>1. rtc' \in -1..MaxDue /\ spent' \in 0..SuspendTime
    BY <1>1, AlarmLocks DEF AlarmInv, AlarmTypeOK
  <2>2. suspended' \in BOOLEAN
    BY <1>1
  <2>. QED  BY <1>1, <1>2, <1>3, <2>1, <2>2 DEF AlarmInv, AlarmTypeOK, devVars, rtcVars, history, Stages
<1>5. DevInv'
  BY <1>1, <1>2, DevFrame DEF AlarmInv, devVars, history
<1>6. QuickSuspend => RtcInv'
  BY <1>1, RtcIdle
<1>. QED  BY <1>3, <1>4, <1>5, <1>6 DEF AlarmInv, QuickSuspend

----------------------------------------------------------------------------
(* Time goes by for an alarm and its timer alike.                           *)
LEMMA AgedQueue ==
    ASSUME AlarmTypeOK, QueueInv, NEW T \in SUBSET Types, Wakeup \subseteq T,
           due' = Aged(due, T, queued), expiry' = Aged(expiry, T, armed \cup queued),
           UNCHANGED <<queued, armed, stopped, suspended, stage, setter, releasing>>
    PROVE  /\ QueueInv'
           /\ due' \in [Types -> -MaxLate..MaxDue] /\ expiry' \in [Types -> -MaxLate..MaxDue]
           /\ \A t \in queued \cap Wakeup : due[t] > 0 => due'[t] = due[t] - 1
<1>1. due' \in [Types -> -MaxLate..MaxDue] /\ expiry' \in [Types -> -MaxLate..MaxDue]
  BY AlarmLocks DEF AlarmTypeOK, Aged
<1>2. \A t \in queued : expiry[t] = due[t] => expiry'[t] = due'[t]
  BY DEF AlarmTypeOK, Aged
<1>3. \A t \in queued \cap Wakeup : due[t] > 0 => due'[t] = due[t] - 1
  BY AlarmLocks DEF AlarmTypeOK, Aged
<1>4. SuspInv'
  BY DEF QueueInv, SuspInv
<1>5. QueuedIsArmed' /\ ExpiryInv'
  BY <1>2 DEF QueueInv, QueuedIsArmed, ExpiryInv, Stopped
<1>. QED  BY <1>1, <1>3, <1>4, <1>5 DEF QueueInv

(* A second of the running system.                                          *)
LEMMA TickStep == ASSUME AlarmInv, AlarmTick PROVE AlarmInv'
<1>1. /\ stage # "asleep"
      /\ stage \in {"suspended", "late"} => spent < SuspendTime /\ spent' = spent + 1
      /\ stage \notin {"suspended", "late"} => spent' = spent
      /\ Tick /\ due' = Aged(due, Types, queued)
      /\ expiry' = Aged(expiry, Types, armed \cup queued)
      /\ rtc' = Programmed(rtc - 1) /\ owed' = Older(owed)
      /\ UNCHANGED <<queued, armed, stopped, suspended, stage, devVars, rtcVars, reported>>
  BY DEF AlarmTick, InterruptsOn
<1>2. /\ rtc \in -1..MaxDue /\ spent \in 0..SuspendTime /\ owed \in 0..AlarmTimeout
      /\ left \in [Locks -> 0..MaxTimeout] /\ due \in [Types -> -MaxLate..MaxDue]
  BY DEF AlarmInv, AlarmTypeOK, WakelockTypeOK
<1>3. /\ WakelockTypeOK' /\ active' = active
      /\ \A l \in Locks : left'[l] = IF left[l] > 0 THEN left[l] - 1 ELSE 0
  BY <1>1, TickType DEF AlarmInv, AlarmTypeOK, Tick
<1>4. /\ QueueInv'
      /\ due' \in [Types -> -MaxLate..MaxDue] /\ expiry' \in [Types -> -MaxLate..MaxDue]
      /\ \A t \in queued \cap Wakeup : due[t] > 0 => due'[t] = due[t] - 1
  BY <1>1, AgedQueue DEF AlarmInv, Wakeup, Types, rtcVars, devVars
<1>5. AlarmTypeOK'
  <2>1. rtc' \in -1..MaxDue /\ spent' \in 0..SuspendTime /\ owed' \in 0..AlarmTimeout
    BY <1>1, <1>2, AlarmLocks DEF Older, Programmed, NotArmed
  <2>. QED  BY <1>1, <1>3, <1>4, <2>1 DEF AlarmInv, AlarmTypeOK, devVars, rtcVars
<1>6. DevInv'
  <2>1. AwakeInv'
    BY <1>1, <1>2, <1>3, AlarmLocks DEF AlarmInv, DevInv, AwakeInv, Older, devVars
  <2>2. ReleaseInv'
    BY <1>1 DEF AlarmInv, DevInv, ReleaseInv, devVars
  <2>3. IdleHoldsNothing'
    BY <1>1, <1>3 DEF AlarmInv, DevInv, IdleHoldsNothing, devVars
  <2>. QED  BY <2>1, <2>2, <2>3 DEF DevInv
<1>7. QuickSuspend => RtcInv'
  <2> SUFFICES ASSUME QuickSuspend, NEW x \in queued \cap Wakeup, stage \in {"suspended", "late"}
               PROVE  rtc' > 0 /\ rtc' <= due'[x] /\ rtc' + spent' >= 2
    BY <1>1 DEF RtcInv
  <2>1. rtc \in Int /\ spent \in Int /\ due[x] \in Int /\ SuspendTime \in Int
    BY <1>2, AlarmLocks DEF Wakeup, Types
  <2>2. rtc > 0 /\ rtc <= due[x] /\ rtc + spent >= 2
    BY DEF AlarmInv, RtcInv
  <2>3. spent < SuspendTime /\ spent' = spent + 1 /\ SuspendTime <= 1 /\ spent >= 0
    BY <1>1, <1>2, AlarmLocks DEF QuickSuspend
  <2>4. rtc >= 2 /\ rtc' = rtc - 1
    <3>1. rtc >= 2
      BY <2>1, <2>2, <2>3
    <3>2. rtc - 1 > 0
      BY <2>1, <3>1
    <3>. QED  BY <1>1, <3>1, <3>2 DEF Programmed
  <2>5. due'[x] = due[x] - 1
    BY <1>4, <2>1, <2>2
  <2>. QED  BY <2>1, <2>2, <2>3, <2>4, <2>5
<1>. QED  BY <1>4, <1>5, <1>6, <1>7 DEF AlarmInv, QuickSuspend

(* A second of the sleeping system: only the wall clock and the RTC go on.  *)
LEMMA AsleepStep == ASSUME AlarmInv, AsleepTick PROVE AlarmInv'
<1>1. /\ stage = "asleep" /\ rtc # 0
      /\ due' = Aged(due, WallClock, queued)
      /\ expiry' = Aged(expiry, WallClock, armed \cup queued)
      /\ rtc' = Older(rtc)
      /\ UNCHANGED <<wakelockVars, queued, armed, stopped, suspended, stage, spent,
                     devVars, rtcVars, history>>
  BY DEF AsleepTick
<1>2. rtc \in -1..MaxDue /\ due \in [Types -> -MaxLate..MaxDue]
  BY DEF AlarmInv, AlarmTypeOK
<1>3. WakelockTypeOK' /\ left' = left /\ active' = active
  BY <1>1 DEF AlarmInv, AlarmTypeOK, wakelockVars, WakelockTypeOK
<1>4. /\ QueueInv'
      /\ due' \in [Types -> -MaxLate..MaxDue] /\ expiry' \in [Types -> -MaxLate..MaxDue]
      /\ \A t \in queued \cap Wakeup : due[t] > 0 => due'[t] = due[t] - 1
  BY <1>1, AgedQueue DEF AlarmInv, Wakeup, WallClock, Types, rtcVars, devVars
<1>5. AlarmTypeOK'
  <2>1. rtc' \in -1..MaxDue
    BY <1>1, <1>2, AlarmLocks DEF Older
  <2>. QED  BY <1>1, <1>3, <1>4, <2>1 DEF AlarmInv, AlarmTypeOK, devVars, rtcVars, history
<1>6. DevInv'
  BY <1>1, <1>3, DevFrame DEF AlarmInv, devVars, history
<1>7. QuickSuspend => RtcInv'
  <2> SUFFICES ASSUME RtcInv, NEW t \in queued \cap Wakeup
               PROVE  rtc' = 0 \/ (rtc' > 0 /\ rtc' <= due'[t])
    BY <1>1 DEF AlarmInv, RtcInv
  <2>1. rtc \in Int /\ due[t] \in Int
    BY <1>2 DEF Wakeup, Types
  <2>. QED  BY <1>1, <1>4, <2>1 DEF RtcInv, Older
<1>. QED  BY <1>4, <1>5, <1>6, <1>7 DEF AlarmInv, QuickSuspend

----------------------------------------------------------------------------
(* Every step of the device, the clock, the suspend and time preserves the  *)
(* invariant.                                                               *)
LEMMA AlarmInvNext == AlarmInv /\ [AlarmNext]_alarmVars => AlarmInv'
<1> SUFFICES ASSUME AlarmInv, [AlarmNext]_alarmVars PROVE AlarmInv'
  OBVIOUS
<1>1. ASSUME NEW t \in Types, alarm_timer_triggered(t) PROVE AlarmInv'
  BY <1>1, TriggerStep
<1>3. CASE Ioctl
  <2>0. \A t \in SetTypes : t \in Types
    BY AlarmAssumption
  <2>. QED  BY <1>3, <2>0, SetStep, ClearStep, WaitStep, WaitReturnSteps, ReleaseStep,
               ReleaseNextStep, ReleaseLastStep DEF Ioctl
<1>4. CASE SetRtc
  BY <1>4, SetRtcStep, SettimeofdaySteps, RestartStep, SetRtcEndSteps DEF SetRtc
<1>5. CASE Suspend
  BY <1>5, FreezeStep, StageSteps, CancelTimersStep, SetsRtcStep, SuspendLateStep, ResumeStep
     DEF Suspend
<1>6. CASE AlarmTick
  BY <1>6, TickStep
<1>7. CASE AsleepTick
  BY <1>7, AsleepStep
<1>8. CASE \/ \E l \in Clients : alarm_dev_init(l)
           \/ (MainStep \/ TimerFires \/ expire_wake_locks) /\ UNCHANGED alarmOnly
           \/ UNCHANGED alarmVars
  BY <1>8, ManagerSteps
<1>. QED  BY <1>1, <1>3, <1>4, <1>5, <1>6, <1>7, <1>8 DEF AlarmNext

(* The driver and its device keep their types.                              *)
THEOREM AlarmTypeCorrect == AlarmSpec => []AlarmTypeOK
<1>1. AlarmInv => AlarmTypeOK
  BY DEF AlarmInv
<1>. QED  BY <1>1, AlarmInvInit, AlarmInvNext, PTL DEF AlarmSpec

(* No alarm loses its timer: through settings of the clock and suspends,    *)
(* refused ones too, a queue's timer is armed for when its alarm is due.    *)
THEOREM AlarmsKeepTheirTimer == AlarmSpec => []QueuedIsArmed
<1>1. AlarmInv => QueuedIsArmed
  BY DEF AlarmInv, QueueInv
<1>. QED  BY <1>1, AlarmInvInit, AlarmInvNext, PTL DEF AlarmSpec

(* An alarm that went off keeps the system awake until it was fetched and   *)
(* acknowledged, or for as long as its lock lasts.                          *)
THEOREM FiredAlarmStaysAwake == AlarmSpec => []FiredKeepsAwake
<1>1. AlarmInv => FiredKeepsAwake
  <2> SUFFICES ASSUME AlarmInv, owed > 0, left[alarm_wake_lock] >= owed
               PROVE  alarm_wake_lock \in Held
    BY DEF FiredKeepsAwake, AlarmInv, DevInv, AwakeInv
  <2>1. owed \in 0..AlarmTimeout /\ left[alarm_wake_lock] \in 0..MaxTimeout
    BY AlarmLocks DEF AlarmInv, AlarmTypeOK, WakelockTypeOK
  <2>2. left[alarm_wake_lock] > 0
    BY <2>1, AlarmLocks
  <2>. QED  BY <2>2, AlarmLocks DEF AlarmInv, AlarmTypeOK, WakelockTypeOK, Held, HeldIn
<1>. QED  BY <1>1, AlarmInvInit, AlarmInvNext, PTL DEF AlarmSpec

(* With nothing to fetch or to acknowledge the lock is free, and a device   *)
(* that was released has no alarm left.                                     *)
THEOREM IdleDeviceIsQuiet == AlarmSpec => []IdleHoldsNothing
<1>1. AlarmInv => IdleHoldsNothing
  BY DEF AlarmInv, DevInv
<1>. QED  BY <1>1, AlarmInvInit, AlarmInvNext, PTL DEF AlarmSpec

(* The system does not sleep through a wake-up alarm, if the devices are    *)
(* suspended within a second of alarm_suspend, which sets the RTC for two   *)
(* seconds ahead at least: an RTC alarm that comes before sleep is lost.    *)
THEOREM NoAlarmIsSleptThrough == AlarmSpec => [](QuickSuspend => SleepsUntilAlarm)
<1>1. AlarmInv => (QuickSuspend => SleepsUntilAlarm)
  BY DEF AlarmInv, RtcInv, SleepsUntilAlarm, NotArmed
<1>. QED  BY <1>1, AlarmInvInit, AlarmInvNext, PTL DEF AlarmSpec
=============================================================================
