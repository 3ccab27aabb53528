------------------------------ MODULE Wakelock ------------------------------
(***************************************************************************)
(* The wake lock manager, kernel/power/wakelock.c: the locks of type        *)
(* WAKE_LOCK_SUSPEND, the timer that expires them, the work item that       *)
(* suspends the system and the single-threaded queue it runs on.            *)
(*                                                                          *)
(* Every operation takes the spinlock list_lock with interrupts off, so one *)
(* operation is one action.  Time is relative: left[l] is the distance      *)
(* lock->expires - jiffies, which is all the code ever computes, cut off at *)
(* zero because the code only tests its sign; the same for the timer.  The  *)
(* event counter is only compared with a copy of itself, so what is kept is *)
(* whether it moved since the copy was taken.  The order of the active list *)
(* is abstracted here and is the subject of module WakelockList.            *)
(***************************************************************************)
EXTENDS Integers, Sequences

CONSTANTS Locks,            \* every struct wake_lock of type WAKE_LOCK_SUSPEND
          main_wake_lock,   \* held while the user has not asked for sleep
          unknown_wakeup,   \* taken when pm_suspend returns without an event
          MaxTimeout,       \* bound on the timeout of a lock, in jiffies
          UnknownTimeout    \* HZ / 2, the timeout given to unknown_wakeup

ASSUME WakelockAssumption ==
    /\ main_wake_lock \in Locks
    /\ unknown_wakeup \in Locks
    /\ main_wake_lock # unknown_wakeup
    /\ MaxTimeout \in Nat
    /\ UnknownTimeout \in 1..MaxTimeout

VARIABLES
    inited,         \* locks with WAKE_LOCK_INITIALIZED
    active,         \* locks with WAKE_LOCK_ACTIVE, on the active list
    auto,           \* locks with WAKE_LOCK_AUTO_EXPIRE
    left,           \* jiffies until lock->expires; 0 when lapsed or not auto
    preventing,     \* locks with WAKE_LOCK_PREVENTING_SUSPEND
    expire_timer,   \* jiffies until expire_timer fires, or NotArmed
    timer_fired,    \* timer detached, its handler not yet under list_lock
    workq,          \* work items pending on suspend_work_queue
    worker,         \* what the thread of suspend_work_queue is doing
    moved           \* current_event_num # entry_event_num

wakelockVars == <<inited, active, auto, left, preventing, expire_timer,
                  timer_fired, workq, worker, moved>>

NotArmed == -1
Clients == Locks \ {main_wake_lock, unknown_wakeup}

\* The stages of suspend(), in order.
SuspendStages == {"suspend", "suspend_entry", "pm_suspend", "suspend_exit",
                  "suspend_unknown"}
\* Work items of the queue; earlysuspend.c puts its two on it as well.
Works == {"suspend", "early_suspend", "late_resume"}
WorkerStages == {"idle"} \cup Works \cup SuspendStages
                  \cup {"es_call", "es_release", "lr_call"}

----------------------------------------------------------------------------
\* A lock that keeps the system awake: active, and not a lapsed timed lock.
HeldIn(a, e, lf) == {l \in a : l \notin e \/ lf[l] > 0}
Held == HeldIn(active, auto, left)
Permanent == active \ auto

(* has_wake_lock_locked: -1 if a lock without timeout is active, otherwise  *)
(* the time until the last timed lock lapses, 0 if none is left.            *)
IsHasWakeLock(r, a, e, lf) ==
    \/ a \ e # {} /\ r = -1
    \/ /\ a \ e = {}
       /\ \A l \in a : lf[l] <= r
       /\ r = 0 \/ \E l \in a : lf[l] = r

\* The lapsed locks that the walk of has_wake_lock_locked expires: permanent
\* locks come first on the list, and the walk ends at the first of them.
Expired(a, e, lf) == IF a \ e # {} THEN {} ELSE {l \in a : lf[l] = 0}

Pending(w) == \E i \in 1..Len(workq) : workq[i] = w

\* queue_work does nothing for a work item that is already pending.
queue_work(w) == workq' = IF Pending(w) THEN workq ELSE Append(workq, w)

\* Faulty variant: an armed timer is not moved to a later expiry.
TimerNotMoved(r) ==
    /\ expire_timer' = IF r <= 0 THEN NotArmed
                       ELSE IF expire_timer = NotArmed THEN r ELSE expire_timer
    /\ IF r = 0 THEN queue_work("suspend") ELSE UNCHANGED workq

\* The end of wake_lock_internal and of wake_unlock: r is the value that
\* has_wake_lock_locked returned.
SetTimerOrSuspend(r) ==
    /\ expire_timer' = IF r > 0 THEN r ELSE NotArmed
    /\ IF r = 0 THEN queue_work("suspend") ELSE UNCHANGED workq

\* Faulty variant: expire_wake_lock leaves WAKE_LOCK_AUTO_EXPIRE set.
ExpiryKeepsFlag(a, e, lf) ==
    /\ active' = a \ Expired(a, e, lf)
    /\ auto' = e
    /\ left' = lf

\* has_wake_lock_locked expires locks of a list a, flags e and times lf.
Collect(a, e, lf) ==
    /\ active' = a \ Expired(a, e, lf)
    /\ auto' = e \ Expired(a, e, lf)
    /\ left' = lf

----------------------------------------------------------------------------
WakelockInit ==
    /\ inited = {main_wake_lock, unknown_wakeup}
    /\ active = {main_wake_lock}
    /\ auto = {}
    /\ left = [l \in Locks |-> 0]
    /\ preventing = {}
    /\ expire_timer = NotArmed
    /\ timer_fired = FALSE
    /\ workq = <<>>
    /\ worker = "idle"
    /\ moved = TRUE

wake_lock_init(l) ==
    /\ l \notin inited
    /\ inited' = inited \cup {l}
    /\ UNCHANGED <<active, auto, left, preventing, expire_timer, timer_fired,
                   workq, worker, moved>>

(* wake_lock_destroy takes the lock off its list and looks no further.  Its *)
(* callers destroy a lock that is inactive, or (evdev_release) one that     *)
(* still has a timeout running.                                             *)
wake_lock_destroy(l) ==
    /\ l \in inited \cap Clients
    /\ l \in active => l \in auto
    /\ inited' = inited \ {l}
    /\ active' = active \ {l}
    /\ auto' = auto \ {l}
    /\ left' = [left EXCEPT ![l] = 0]
    /\ preventing' = preventing \ {l}
    /\ UNCHANGED <<expire_timer, timer_fired, workq, worker, moved>>

\* Faulty variant: taking the main lock does not settle the accounts.
MainLockKeepsBlame(l, a, e, lf) ==
    IF main_wake_lock \notin a THEN HeldIn(a, e, lf) ELSE preventing

\* The flags that wake_lock_internal leaves: update_sleep_wait_stats_locked
\* while the main lock is released, nothing while it is held, except that a
\* lapsed lock is first accounted as released.
LockBlame(l, a, e, lf) ==
    IF l = main_wake_lock THEN {}
    ELSE IF main_wake_lock \notin a THEN HeldIn(a, e, lf)
    ELSE IF l \in auto /\ left[l] = 0 THEN preventing \ {l}
    ELSE preventing

\* wake_lock queues no work; its callers say what becomes of workq and worker.
wake_lock(l) ==
    LET a == active \cup {l}
        e == auto \ {l}
        lf == [left EXCEPT ![l] = 0] IN
    /\ l \in inited
    /\ active' = a
    /\ auto' = e
    /\ left' = lf
    /\ preventing' = LockBlame(l, a, e, lf)
    /\ moved' = TRUE
    /\ expire_timer' = NotArmed
    /\ UNCHANGED <<inited, timer_fired>>

wake_lock_timeout(l, timeout) ==
    LET a == active \cup {l}
        e == auto \cup {l}
        lf == [left EXCEPT ![l] = timeout] IN
    /\ l \in inited
    /\ Collect(a, e, lf)
    /\ preventing' = LockBlame(l, a, e, lf) \ Expired(a, e, lf)
    /\ moved' = TRUE
    /\ \E r \in -1..MaxTimeout : IsHasWakeLock(r, a, e, lf) /\ SetTimerOrSuspend(r)
    /\ UNCHANGED <<inited, timer_fired>>

wake_unlock(l) ==
    LET a == active \ {l}
        e == auto \ {l}
        lf == [left EXCEPT ![l] = 0] IN
    /\ l \in inited
    /\ Collect(a, e, lf)
    /\ preventing' = IF l = main_wake_lock THEN HeldIn(a, e, lf)
                     ELSE preventing \ ({l} \cup Expired(a, e, lf))
    /\ \E r \in -1..MaxTimeout : IsHasWakeLock(r, a, e, lf) /\ SetTimerOrSuspend(r)
    /\ UNCHANGED <<inited, timer_fired, moved>>

(* Calls made one after the other with interrupts off: wake_lock_timeout of *)
(* the locks S, then wake_unlock of the locks U, the main lock not among    *)
(* them.  Only the last look at the list counts: with fewer locks active it *)
(* expires no less, and if one before it queued suspend_work, so does it.   *)
LockThenUnlock(S, timeout, U) ==
    LET a == (active \cup S) \ U
        e == (auto \cup S) \ U
        lf == [l \in Locks |-> IF l \in U THEN 0
                               ELSE IF l \in S THEN timeout ELSE left[l]]
        blamed == IF S = {} THEN preventing
                  ELSE IF main_wake_lock \notin active THEN HeldIn(a, e, lf)
                  ELSE preventing \ {l \in S \cap auto : left[l] = 0} IN
    IF S \cup U = {} THEN UNCHANGED wakelockVars ELSE
    /\ S \cup U \subseteq inited
    /\ Collect(a, e, lf)
    /\ preventing' = blamed \ (U \cup Expired(a, e, lf))
    /\ moved' = (moved \/ S # {})
    /\ \E r \in -1..MaxTimeout : IsHasWakeLock(r, a, e, lf) /\ SetTimerOrSuspend(r)
    /\ UNCHANGED <<inited, timer_fired, worker>>

\* A bare call of has_wake_lock that returned r.
has_wake_lock(r) ==
    /\ IsHasWakeLock(r, active, auto, left)
    /\ Collect(active, auto, left)
    /\ preventing' = preventing \ Expired(active, auto, left)

----------------------------------------------------------------------------
\* One jiffy goes by.
Tick ==
    /\ left' = [l \in Locks |-> IF left[l] > 0 THEN left[l] - 1 ELSE 0]
    /\ expire_timer' = IF expire_timer > 0 THEN expire_timer - 1 ELSE expire_timer
    /\ UNCHANGED <<inited, active, auto, preventing, timer_fired, workq,
                   worker, moved>>

\* The timer softirq detaches the timer; an interrupt may still take
\* list_lock before the handler does.
TimerFires ==
    /\ expire_timer = 0
    /\ ~timer_fired
    /\ expire_timer' = NotArmed
    /\ timer_fired' = TRUE
    /\ UNCHANGED <<inited, active, auto, left, preventing, workq, worker, moved>>

expire_wake_locks ==
    /\ timer_fired
    /\ timer_fired' = FALSE
    /\ \E r \in -1..MaxTimeout :
          /\ has_wake_lock(r)
          /\ IF r = 0 THEN queue_work("suspend") ELSE UNCHANGED workq
    /\ UNCHANGED <<inited, expire_timer, worker, moved>>

----------------------------------------------------------------------------
\* The thread of suspend_work_queue takes the next item; it is no longer
\* pending from here on and may be queued again.
run_workqueue ==
    /\ worker = "idle"
    /\ workq # <<>>
    /\ worker' = Head(workq)
    /\ workq' = Tail(workq)
    /\ UNCHANGED <<inited, active, auto, left, preventing, expire_timer,
                   timer_fired, moved>>

\* Faulty variant: a lock with a timeout does not stop the suspend.
ChecksPermanentOnly ==
    /\ worker = "suspend"
    /\ \E r \in -1..MaxTimeout :
          /\ has_wake_lock(r)
          /\ worker' = IF r < 0 THEN "idle" ELSE "suspend_entry"
    /\ UNCHANGED <<inited, expire_timer, timer_fired, workq, moved>>

suspend_check ==
    /\ worker = "suspend"
    /\ \E r \in -1..MaxTimeout :
          /\ has_wake_lock(r)
          /\ worker' = IF r # 0 THEN "idle" ELSE "suspend_entry"
    /\ UNCHANGED <<inited, expire_timer, timer_fired, workq, moved>>

\* entry_event_num = current_event_num, read outside list_lock.
suspend_entry ==
    /\ worker = "suspend_entry"
    /\ moved' = FALSE
    /\ worker' = "pm_suspend"
    /\ UNCHANGED <<inited, active, auto, left, preventing, expire_timer,
                   timer_fired, workq>>

\* pm_suspend as this file sees it: it may ask for wake locks (the freezer
\* and power_suspend_late do) and it returns.
pm_suspend_asks ==
    /\ worker = "pm_suspend"
    /\ \E r \in -1..MaxTimeout : has_wake_lock(r)
    /\ UNCHANGED <<inited, expire_timer, timer_fired, workq, worker, moved>>

pm_suspend_returns ==
    /\ worker = "pm_suspend"
    /\ worker' = "suspend_exit"
    /\ UNCHANGED <<inited, active, auto, left, preventing, expire_timer,
                   timer_fired, workq, moved>>

\* Faulty variant: unknown_wakeup is not taken after a wake-up without event.
ForgetsUnknownWakeup ==
    /\ worker = "suspend_exit"
    /\ worker' = "idle"
    /\ UNCHANGED <<inited, active, auto, left, preventing, expire_timer,
                   timer_fired, workq, moved>>

suspend_exit ==
    /\ worker = "suspend_exit"
    /\ worker' = IF moved THEN "idle" ELSE "suspend_unknown"
    /\ UNCHANGED <<inited, active, auto, left, preventing, expire_timer,
                   timer_fired, workq, moved>>

suspend_unknown ==
    /\ worker = "suspend_unknown"
    /\ wake_lock_timeout(unknown_wakeup, UnknownTimeout)
    /\ worker' = "idle"

\* A driver or a user of /sys/power/wake_lock changes a lock.
ClientStep(l) ==
    \/ /\ \/ wake_lock(l) /\ UNCHANGED workq
          \/ \E t \in 0..MaxTimeout : wake_lock_timeout(l, t)
          \/ wake_unlock(l)
       /\ UNCHANGED worker
    \/ wake_lock_init(l)
    \/ wake_lock_destroy(l)

\* earlysuspend.c takes and drops the main lock, never with a timeout.
MainStep ==
    /\ \/ wake_lock(main_wake_lock) /\ UNCHANGED workq
       \/ wake_unlock(main_wake_lock)
    /\ UNCHANGED worker

SuspendWork == suspend_check \/ suspend_entry \/ suspend_exit \/ suspend_unknown

WakelockNext ==
    \/ \E l \in Clients : ClientStep(l)
    \/ MainStep
    \/ Tick \/ TimerFires \/ expire_wake_locks
    \/ run_workqueue \/ SuspendWork \/ pm_suspend_asks \/ pm_suspend_returns

(* Time passes, the timer softirq runs, and the queue's thread is scheduled *)
(* and finishes what it does outside pm_suspend.                            *)
WakelockFairness ==
    /\ WF_wakelockVars(Tick)
    /\ WF_wakelockVars(TimerFires)
    /\ WF_wakelockVars(expire_wake_locks)
    /\ WF_wakelockVars(run_workqueue)
    /\ WF_wakelockVars(SuspendWork)

WakelockSafety == WakelockInit /\ [][WakelockNext]_wakelockVars
WakelockSpec == WakelockSafety /\ WakelockFairness

----------------------------------------------------------------------------
WakelockTypeOK ==
    /\ inited \subseteq Locks
    /\ active \subseteq inited
    /\ auto \subseteq active
    /\ left \in [Locks -> 0..MaxTimeout]
    /\ \A l \in Locks : l \notin auto => left[l] = 0
    /\ preventing \subseteq Locks
    /\ expire_timer \in -1..MaxTimeout
    /\ timer_fired \in BOOLEAN
    /\ workq \in Seq(Works)
    /\ worker \in WorkerStages
    /\ moved \in BOOLEAN

\* The stages between the check of suspend() and its comparison of the event
\* counter, during which suspend() itself will see to the next attempt.
Attempting == worker \in {"suspend_entry", "pm_suspend", "suspend_exit",
                          "suspend_unknown"}

(* While no permanent lock is active, the expiry timer is armed for no less *)
(* than the time the last timed lock has left: wake_lock, wake_unlock and   *)
(* the handler re-arm it, has_wake_lock and wake_lock_destroy do not.       *)
TimerCoversHeld ==
    Permanent = {} => \A l \in Held : expire_timer >= left[l]

(* No suspend is lost: when no permanent lock is active, something is still *)
(* going to start suspend(): the timer, its handler, a queued work item, or *)
(* suspend() itself when it finds that no event came in.  Otherwise the     *)
(* device would stay awake until somebody happened to use a wake lock.      *)
SuspendNotLost ==
    Permanent = {} =>
        \/ expire_timer # NotArmed
        \/ timer_fired
        \/ Pending("suspend")
        \/ worker = "suspend"
        \/ Attempting /\ (worker # "suspend_entry" => ~moved)

(* The statistics blame the right locks: while the main lock is held, no    *)
(* lock is accounted as preventing suspend; while it is released, all held  *)
(* locks are, and only active ones.                                         *)
BlameMatchesBlockers ==
    IF main_wake_lock \in active THEN preventing = {}
    ELSE Held \subseteq preventing /\ preventing \subseteq active

\* The wake lock manager implements the promise of wakelock.h.
Gate == INSTANCE SuspendGate WITH held <- Held, trying <- Attempting
SuspendOnlyWhenReleased == Gate!GateSpec
=============================================================================
