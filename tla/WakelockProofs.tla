--------------------------- MODULE WakelockProofs ---------------------------
(***************************************************************************)
(* Proofs about module Wakelock, for any set of locks and any timeouts.     *)
(* TimerCoversHeld and SuspendNotLost are inductive together with the type  *)
(* invariant: a suspend() that backs off because a timed lock is left       *)
(* relies on the timer being armed for that lock.                           *)
(***************************************************************************)
EXTENDS Wakelock, TLAPS

(* The queue keeps its type, and holds the suspend work after queue_work.   *)
LEMMA QueueWork ==
    ASSUME NEW w \in Works, workq \in Seq(Works), queue_work(w)
    PROVE  workq' \in Seq(Works) /\ Pending(w)'
<1>1. workq' \in Seq(Works)
  BY DEF queue_work
<1>2. CASE Pending(w)
  BY <1>2, <1>1 DEF queue_work, Pending
<1>3. CASE ~Pending(w)
  <2>1. workq' = Append(workq, w)
    BY <1>3 DEF queue_work
  <2>2. Len(workq') = Len(workq) + 1 /\ workq'[Len(workq) + 1] = w
    BY <2>1
  <2>3. Len(workq) + 1 \in 1..Len(workq')
    BY <2>2
  <2>. QED  BY <2>2, <2>3, <1>1 DEF Pending
<1>. QED  BY <1>1, <1>2, <1>3

(* What a has_wake_lock_locked walk leaves behind is well typed.            *)
LEMMA CollectType ==
    ASSUME NEW a \in SUBSET inited, NEW e \in SUBSET a,
           NEW lf \in [Locks -> 0..MaxTimeout], inited \subseteq Locks,
           \A l \in Locks : l \notin e => lf[l] = 0,
           Collect(a, e, lf)
    PROVE  /\ active' \subseteq inited
           /\ auto' \subseteq active'
           /\ left' \in [Locks -> 0..MaxTimeout]
           /\ \A l \in Locks : l \notin auto' => left'[l] = 0
  BY DEF Collect, Expired

(* Re-arming keeps the timer and the queue well typed.                      *)
LEMMA SetTimerType ==
    ASSUME NEW r \in -1..MaxTimeout, workq \in Seq(Works), SetTimerOrSuspend(r),
           MaxTimeout \in Nat
    PROVE  expire_timer' \in -1..MaxTimeout /\ workq' \in Seq(Works)
<1>1. expire_timer' \in -1..MaxTimeout
  BY DEF SetTimerOrSuspend, NotArmed
<1>2. CASE r = 0
  BY <1>1, <1>2, QueueWork DEF SetTimerOrSuspend, Works
<1>3. CASE r # 0
  BY <1>1, <1>3 DEF SetTimerOrSuspend
<1>. QED  BY <1>2, <1>3

(* wakelocks_init leaves every variable well typed.                         *)
LEMMA WakelockTypeInit == WakelockInit => WakelockTypeOK
<1> SUFFICES ASSUME WakelockInit PROVE WakelockTypeOK
  OBVIOUS
<1> USE WakelockAssumption DEF WakelockInit
<1>1. inited \subseteq Locks /\ active \subseteq inited /\ auto \subseteq active
  OBVIOUS
<1>2. left \in [Locks -> 0..MaxTimeout] /\ \A l \in Locks : left[l] = 0
  OBVIOUS
<1>3. preventing \subseteq Locks /\ expire_timer \in -1..MaxTimeout
  BY DEF NotArmed
<1>4. workq \in Seq(Works) /\ worker \in WorkerStages
  BY DEF WorkerStages
<1>5. timer_fired \in BOOLEAN /\ moved \in BOOLEAN
  OBVIOUS
<1>. QED  BY <1>1, <1>2, <1>3, <1>4, <1>5 DEF WakelockTypeOK

(* wake_lock keeps the type invariant, whoever takes the lock.              *)
LEMMA LockType ==
    ASSUME WakelockTypeOK, NEW l \in Locks, wake_lock(l),
           workq' \in Seq(Works), worker' \in WorkerStages
    PROVE  WakelockTypeOK'
  BY WakelockAssumption
  DEF WakelockTypeOK, wake_lock, LockBlame, HeldIn, NotArmed

(* wake_lock_timeout keeps the types.                                       *)
LEMMA LockTimeoutType ==
    ASSUME WakelockTypeOK, NEW l \in Locks, NEW t \in 0..MaxTimeout,
           wake_lock_timeout(l, t), worker' \in WorkerStages
    PROVE  WakelockTypeOK'
<1> DEFINE a == active \cup {l}
           e == auto \cup {l}
           lf == [left EXCEPT ![l] = t]
<1>1. a \in SUBSET inited /\ e \in SUBSET a /\ lf \in [Locks -> 0..MaxTimeout]
  BY DEF WakelockTypeOK, wake_lock_timeout
<1>2. \A k \in Locks : k \notin e => lf[k] = 0
  BY DEF WakelockTypeOK
<1>3. Collect(a, e, lf) /\ UNCHANGED <<inited, timer_fired>> /\ moved' = TRUE
  BY DEF wake_lock_timeout
<1>4. /\ active' \subseteq inited
      /\ auto' \subseteq active'
      /\ left' \in [Locks -> 0..MaxTimeout]
      /\ \A k \in Locks : k \notin auto' => left'[k] = 0
  <2> HIDE DEF a, e, lf
  <2>. QED  BY <1>1, <1>2, <1>3, CollectType DEF WakelockTypeOK
<1>5. expire_timer' \in -1..MaxTimeout /\ workq' \in Seq(Works)
  <2>1. PICK r \in -1..MaxTimeout : SetTimerOrSuspend(r)
    BY DEF wake_lock_timeout
  <2>. QED  BY <2>1, SetTimerType, WakelockAssumption DEF WakelockTypeOK
<1>6. preventing' \subseteq Locks
  BY <1>1 DEF wake_lock_timeout, LockBlame, HeldIn, WakelockTypeOK
<1>. QED  BY <1>3, <1>4, <1>5, <1>6 DEF WakelockTypeOK

(* wake_unlock keeps the types.                                             *)
LEMMA UnlockType ==
    ASSUME WakelockTypeOK, NEW l \in Locks, wake_unlock(l), worker' \in WorkerStages
    PROVE  WakelockTypeOK'
<1> DEFINE a == active \ {l}
           e == auto \ {l}
           lf == [left EXCEPT ![l] = 0]
<1>1. a \in SUBSET inited /\ e \in SUBSET a /\ lf \in [Locks -> 0..MaxTimeout]
  BY WakelockAssumption DEF WakelockTypeOK
<1>2. \A k \in Locks : k \notin e => lf[k] = 0
  BY DEF WakelockTypeOK
<1>3. Collect(a, e, lf) /\ UNCHANGED <<inited, timer_fired, moved>>
  BY DEF wake_unlock
<1>4. /\ active' \subseteq inited
      /\ auto' \subseteq active'
      /\ left' \in [Locks -> 0..MaxTimeout]
      /\ \A k \in Locks : k \notin auto' => left'[k] = 0
  <2> HIDE DEF a, e, lf
  <2>. QED  BY <1>1, <1>2, <1>3, CollectType DEF WakelockTypeOK
<1>5. expire_timer' \in -1..MaxTimeout /\ workq' \in Seq(Works)
  <2>1. PICK r \in -1..MaxTimeout : SetTimerOrSuspend(r)
    BY DEF wake_unlock
  <2>. QED  BY <2>1, SetTimerType, WakelockAssumption DEF WakelockTypeOK
<1>6. preventing' \subseteq Locks
  BY <1>1 DEF wake_unlock, HeldIn, WakelockTypeOK
<1>. QED  BY <1>3, <1>4, <1>5, <1>6 DEF WakelockTypeOK

(* has_wake_lock only takes locks off the active list and flags off them.   *)
LEMMA HasWakeLockType ==
    ASSUME WakelockTypeOK, NEW r, has_wake_lock(r)
    PROVE  /\ active' \subseteq inited
           /\ auto' \subseteq active'
           /\ left' \in [Locks -> 0..MaxTimeout]
           /\ \A k \in Locks : k \notin auto' => left'[k] = 0
           /\ preventing' \subseteq Locks
<1>1. Collect(active, auto, left) /\ preventing' \subseteq preventing
  BY DEF has_wake_lock
<1>. QED  BY <1>1, CollectType DEF WakelockTypeOK

(* A jiffy: every time that is left shrinks by one, down to zero.           *)
LEMMA TickType == WakelockTypeOK /\ Tick => WakelockTypeOK'
<1> SUFFICES ASSUME WakelockTypeOK, Tick PROVE WakelockTypeOK'
  OBVIOUS
<1>1. left' \in [Locks -> 0..MaxTimeout]
  BY WakelockAssumption DEF WakelockTypeOK, Tick
<1>2. \A l \in Locks : l \notin auto' => left'[l] = 0
  BY DEF WakelockTypeOK, Tick
<1>3. expire_timer' \in -1..MaxTimeout
  BY WakelockAssumption DEF WakelockTypeOK, Tick
<1>. QED  BY <1>1, <1>2, <1>3 DEF WakelockTypeOK, Tick

(* The calls of drivers and processes keep the types.                       *)
LEMMA ClientStepType ==
    ASSUME WakelockTypeOK, NEW l \in Clients, ClientStep(l)
    PROVE  WakelockTypeOK'
<1>0. l \in Locks
  BY DEF Clients
<1>1. CASE wake_lock(l) /\ UNCHANGED <<workq, worker>>
  BY <1>0, <1>1, LockType DEF WakelockTypeOK
<1>2. ASSUME NEW t \in 0..MaxTimeout, wake_lock_timeout(l, t), UNCHANGED worker
      PROVE  WakelockTypeOK'
  BY <1>0, <1>2, LockTimeoutType DEF WakelockTypeOK
<1>3. CASE wake_unlock(l) /\ UNCHANGED worker
  BY <1>0, <1>3, UnlockType DEF WakelockTypeOK
<1>4. CASE wake_lock_init(l)
  BY <1>0, <1>4 DEF wake_lock_init, WakelockTypeOK
<1>5. CASE wake_lock_destroy(l)
  BY <1>0, <1>5, WakelockAssumption DEF wake_lock_destroy, WakelockTypeOK, Clients
<1>. QED  BY <1>1, <1>2, <1>3, <1>4, <1>5 DEF ClientStep

(* Every step of the manager keeps the types.                               *)
LEMMA WakelockTypeNext ==
    WakelockTypeOK /\ [WakelockNext]_wakelockVars => WakelockTypeOK'
<1> SUFFICES ASSUME WakelockTypeOK, [WakelockNext]_wakelockVars
             PROVE  WakelockTypeOK'
  OBVIOUS
<1>1. ASSUME NEW l \in Clients, ClientStep(l) PROVE WakelockTypeOK'
  BY <1>1, ClientStepType
<1>2. CASE MainStep
  BY <1>2, LockType, UnlockType, WakelockAssumption DEF MainStep, WakelockTypeOK
<1>3. CASE Tick
  BY <1>3, TickType
<1>4. CASE TimerFires
  BY <1>4, WakelockAssumption DEF TimerFires, WakelockTypeOK, NotArmed
<1>5. CASE expire_wake_locks
  <2>1. PICK r \in -1..MaxTimeout :
           has_wake_lock(r) /\ IF r = 0 THEN queue_work("suspend") ELSE UNCHANGED workq
    BY <1>5 DEF expire_wake_locks
  <2>2. workq' \in Seq(Works)
    BY <2>1, QueueWork DEF WakelockTypeOK, Works
  <2>. QED  BY <1>5, <2>1, <2>2, HasWakeLockType DEF expire_wake_locks, WakelockTypeOK
<1>6. CASE run_workqueue
  <2>1. Head(workq) \in Works /\ Tail(workq) \in Seq(Works)
    BY <1>6 DEF run_workqueue, WakelockTypeOK
  <2>. QED  BY <1>6, <2>1 DEF run_workqueue, WakelockTypeOK, WorkerStages
<1>7. CASE suspend_check
  <2>1. PICK r \in -1..MaxTimeout :
           has_wake_lock(r) /\ worker' = IF r # 0 THEN "idle" ELSE "suspend_entry"
    BY <1>7 DEF suspend_check
  <2>2. worker' \in WorkerStages
    BY <2>1 DEF WorkerStages, SuspendStages
  <2>. QED  BY <1>7, <2>1, <2>2, HasWakeLockType DEF suspend_check, WakelockTypeOK
<1>8. CASE suspend_entry
  BY <1>8 DEF suspend_entry, WakelockTypeOK, WorkerStages, SuspendStages
<1>9. CASE suspend_exit
  BY <1>9 DEF suspend_exit, WakelockTypeOK, WorkerStages, SuspendStages
<1>10. CASE suspend_unknown
  <2>1. UnknownTimeout \in 0..MaxTimeout /\ worker' \in WorkerStages
    BY <1>10, WakelockAssumption DEF suspend_unknown, WorkerStages
  <2>. QED  BY <1>10, <2>1, LockTimeoutType, WakelockAssumption DEF suspend_unknown
<1>11. CASE pm_suspend_asks
  BY <1>11, HasWakeLockType DEF pm_suspend_asks, WakelockTypeOK
<1>12. CASE pm_suspend_returns
  BY <1>12 DEF pm_suspend_returns, WakelockTypeOK, WorkerStages, SuspendStages
<1>13. CASE UNCHANGED wakelockVars
  BY <1>13 DEF wakelockVars, WakelockTypeOK
<1>. QED
  BY <1>1, <1>2, <1>3, <1>4, <1>5, <1>6, <1>7, <1>8, <1>9, <1>10, <1>11, <1>12,
     <1>13 DEF WakelockNext, SuspendWork

(* The state of the wake lock manager always has its type.                  *)
THEOREM WakelockTypeCorrect == WakelockSafety => []WakelockTypeOK
  BY WakelockTypeInit, WakelockTypeNext, PTL DEF WakelockSafety

----------------------------------------------------------------------------
\* The inductive invariant behind SuspendNotLost.
NotLostInv == WakelockTypeOK /\ TimerCoversHeld /\ SuspendNotLost

(* After wake_lock_timeout or wake_unlock has re-evaluated the locks, the   *)
(* timer covers what is held, and it or a queued work item will suspend.    *)
LEMMA Rearmed ==
    ASSUME NEW a \in SUBSET Locks, NEW e \in SUBSET a,
           NEW lf \in [Locks -> 0..MaxTimeout], NEW r \in -1..MaxTimeout,
           MaxTimeout \in Nat, workq \in Seq(Works),
           IsHasWakeLock(r, a, e, lf), Collect(a, e, lf), SetTimerOrSuspend(r)
    PROVE  /\ TimerCoversHeld'
           /\ Permanent' = {} => expire_timer' # NotArmed \/ Pending("suspend")'
<1>1. Permanent' = a \ e
  BY DEF Permanent, Collect, Expired
<1>2. CASE a \ e # {}
  BY <1>1, <1>2 DEF TimerCoversHeld
<1>3. CASE a \ e = {} /\ r = 0
  <2>1. Pending("suspend")'
    BY <1>3, QueueWork DEF SetTimerOrSuspend, Works
  <2>2. Held' = {}
    BY <1>3 DEF IsHasWakeLock, Held, HeldIn, Collect, Expired
  <2>. QED  BY <2>1, <2>2 DEF TimerCoversHeld
<1>4. CASE a \ e = {} /\ r # 0
  <2>1. r > 0 /\ \A l \in a : lf[l] <= r
    BY <1>4 DEF IsHasWakeLock
  <2>2. expire_timer' = r /\ left' = lf /\ Held' \subseteq a
    BY <2>1 DEF SetTimerOrSuspend, Collect, Held, HeldIn
  <2>. QED  BY <2>1, <2>2 DEF TimerCoversHeld, NotArmed
<1>. QED  BY <1>2, <1>3, <1>4

(* wake_lock leaves a permanent lock, with which nothing is due.            *)
LEMMA LockKeeps ==
    ASSUME NotLostInv, NEW l \in Locks, wake_lock(l)
    PROVE  TimerCoversHeld' /\ SuspendNotLost'
<1>1. l \in Permanent'
  BY DEF wake_lock, Permanent
<1>. QED  BY <1>1 DEF TimerCoversHeld, SuspendNotLost

(* wake_lock_timeout re-arms the timer for the last lock to lapse.          *)
LEMMA LockTimeoutKeeps ==
    ASSUME NotLostInv, NEW l \in Locks, NEW t \in 0..MaxTimeout,
           wake_lock_timeout(l, t)
    PROVE  TimerCoversHeld' /\ SuspendNotLost'
<1> DEFINE a == active \cup {l}
           e == auto \cup {l}
           lf == [left EXCEPT ![l] = t]
<1>1. a \in SUBSET Locks /\ e \in SUBSET a /\ lf \in [Locks -> 0..MaxTimeout]
  BY DEF NotLostInv, WakelockTypeOK
<1>2. PICK r \in -1..MaxTimeout : IsHasWakeLock(r, a, e, lf) /\ SetTimerOrSuspend(r)
  BY DEF wake_lock_timeout
<1>3. Collect(a, e, lf)
  BY DEF wake_lock_timeout
<1>4. /\ TimerCoversHeld'
      /\ Permanent' = {} => expire_timer' # NotArmed \/ Pending("suspend")'
  <2> HIDE DEF a, e, lf
  <2>. QED  BY <1>1, <1>2, <1>3, Rearmed, WakelockAssumption
            DEF NotLostInv, WakelockTypeOK
<1>. QED  BY <1>4 DEF SuspendNotLost, NotArmed

(* wake_unlock re-arms the timer or queues the suspend work.                *)
LEMMA UnlockKeeps ==
    ASSUME NotLostInv, NEW l \in Locks, wake_unlock(l)
    PROVE  TimerCoversHeld' /\ SuspendNotLost'
<1> DEFINE a == active \ {l}
           e == auto \ {l}
           lf == [left EXCEPT ![l] = 0]
<1>1. a \in SUBSET Locks /\ e \in SUBSET a /\ lf \in [Locks -> 0..MaxTimeout]
  BY WakelockAssumption DEF NotLostInv, WakelockTypeOK
<1>2. PICK r \in -1..MaxTimeout : IsHasWakeLock(r, a, e, lf) /\ SetTimerOrSuspend(r)
  BY DEF wake_unlock
<1>3. Collect(a, e, lf)
  BY DEF wake_unlock
<1>4. /\ TimerCoversHeld'
      /\ Permanent' = {} => expire_timer' # NotArmed \/ Pending("suspend")'
  <2> HIDE DEF a, e, lf
  <2>. QED  BY <1>1, <1>2, <1>3, Rearmed, WakelockAssumption
            DEF NotLostInv, WakelockTypeOK
<1>. QED  BY <1>4 DEF SuspendNotLost, NotArmed

(* A bare has_wake_lock changes neither what is held nor the permanent      *)
(* locks; a non-zero answer means the timer is running or a permanent lock  *)
(* is active.                                                               *)
LEMMA AskKeeps ==
    ASSUME NotLostInv, NEW r \in -1..MaxTimeout, has_wake_lock(r),
           expire_timer' = expire_timer
    PROVE  /\ Permanent' = Permanent
           /\ TimerCoversHeld'
           /\ Permanent = {} /\ r # 0 => expire_timer # NotArmed
<1>1. Permanent' = Permanent
  BY DEF has_wake_lock, Collect, Expired, Permanent
<1>2. Held' = Held /\ left' = left
  BY DEF has_wake_lock, Collect, Expired, Held, HeldIn, NotLostInv, WakelockTypeOK
<1>3. ASSUME Permanent = {}, r # 0 PROVE expire_timer # NotArmed
  <2>1. PICK l \in active : left[l] = r
    BY <1>3 DEF has_wake_lock, IsHasWakeLock, Permanent
  <2>2. left[l] > 0 /\ l \in Held
    BY <1>3, <2>1, WakelockAssumption DEF NotLostInv, WakelockTypeOK, Held, HeldIn
  <2>3. expire_timer >= left[l]
    BY <1>3, <2>2 DEF NotLostInv, TimerCoversHeld
  <2>. QED  BY <2>2, <2>3, WakelockAssumption DEF NotArmed, NotLostInv, WakelockTypeOK
<1>. QED  BY <1>1, <1>2, <1>3 DEF NotLostInv, TimerCoversHeld

(* A jiffy brings the timer no closer than the locks it waits for.          *)
LEMMA TickKeeps ==
    ASSUME NotLostInv, Tick
    PROVE  TimerCoversHeld' /\ SuspendNotLost'
<1>1. Permanent' = Permanent /\ Held' \subseteq Held
  BY DEF Tick, Permanent, Held, HeldIn, NotLostInv, WakelockTypeOK
<1>2. \A l \in Held' : l \in Locks /\ left[l] >= left'[l] /\
                       (left[l] > 0 => left'[l] = left[l] - 1) /\ left[l] \in Nat
  BY <1>1 DEF Tick, Held, HeldIn, NotLostInv, WakelockTypeOK
<1>3. TimerCoversHeld'
  <2> SUFFICES ASSUME Permanent = {}, NEW l \in Held' PROVE expire_timer' >= left'[l]
    BY <1>1 DEF TimerCoversHeld
  <2>1. expire_timer >= left[l] /\ expire_timer \in Int /\ left[l] \in Nat
    BY <1>1 DEF NotLostInv, TimerCoversHeld, WakelockTypeOK, Held, HeldIn
  <2>2. l \in auto /\ left'[l] > 0
    BY <1>1 DEF Held, HeldIn, Permanent, Tick
  <2>. QED  BY <2>1, <2>2, <1>2 DEF Tick
<1>4. expire_timer # NotArmed => expire_timer' # NotArmed
  BY DEF Tick, NotArmed, NotLostInv, WakelockTypeOK
<1>5. SuspendNotLost'
  BY <1>1, <1>4 DEF Tick, NotLostInv, SuspendNotLost, Pending, Attempting
<1>. QED  BY <1>3, <1>5

(* No call of a driver or a process loses a suspend.                        *)
LEMMA ClientStepKeeps ==
    ASSUME NotLostInv, NEW l \in Clients, ClientStep(l)
    PROVE  TimerCoversHeld' /\ SuspendNotLost'
<1>0. l \in Locks
  BY DEF Clients
<1>1. CASE wake_lock(l)
  BY <1>0, <1>1, LockKeeps
<1>2. ASSUME NEW t \in 0..MaxTimeout, wake_lock_timeout(l, t)
      PROVE  TimerCoversHeld' /\ SuspendNotLost'
  BY <1>0, <1>2, LockTimeoutKeeps
<1>3. CASE wake_unlock(l)
  BY <1>0, <1>3, UnlockKeeps
<1>4. CASE wake_lock_init(l)
  BY <1>4 DEF wake_lock_init, NotLostInv, TimerCoversHeld, SuspendNotLost, Held,
              HeldIn, Permanent, Pending, Attempting
<1>5. CASE wake_lock_destroy(l)
  <2>1. Permanent' = Permanent
    BY <1>5 DEF wake_lock_destroy, Permanent
  <2>2. Held' \subseteq Held /\ \A k \in Held' : left'[k] = left[k]
    BY <1>5 DEF wake_lock_destroy, Held, HeldIn, NotLostInv, WakelockTypeOK
  <2>3. TimerCoversHeld'
    BY <1>5, <2>1, <2>2 DEF wake_lock_destroy, NotLostInv, TimerCoversHeld
  <2>. QED  BY <1>5, <2>1, <2>3
            DEF wake_lock_destroy, NotLostInv, SuspendNotLost, Pending, Attempting
<1>. QED  BY <1>1, <1>2, <1>3, <1>4, <1>5 DEF ClientStep

(* At boot the main lock is held.                                           *)
LEMMA NotLostInit == WakelockInit => NotLostInv
<1> SUFFICES ASSUME WakelockInit PROVE TimerCoversHeld /\ SuspendNotLost
  BY WakelockTypeInit DEF NotLostInv
<1>1. main_wake_lock \in Permanent
  BY DEF WakelockInit, Permanent
<1>. QED  BY <1>1 DEF TimerCoversHeld, SuspendNotLost

(* Every step preserves the strengthened invariant.                         *)
LEMMA NotLostNext == NotLostInv /\ [WakelockNext]_wakelockVars => NotLostInv'
<1> SUFFICES ASSUME NotLostInv, [WakelockNext]_wakelockVars
             PROVE  TimerCoversHeld' /\ SuspendNotLost'
  BY WakelockTypeNext DEF NotLostInv
<1> USE DEF NotLostInv
<1>1. ASSUME NEW l \in Clients, ClientStep(l)
      PROVE  TimerCoversHeld' /\ SuspendNotLost'
  BY <1>1, ClientStepKeeps
<1>2. CASE MainStep
  BY <1>2, LockKeeps, UnlockKeeps, WakelockAssumption DEF MainStep
<1>3. CASE Tick
  BY <1>3, TickKeeps
<1>4. CASE TimerFires
  \* A timer that fires covered nothing: no lock has any time left.
  <2>1. Permanent' = Permanent /\ Held' = Held
    BY <1>4 DEF TimerFires, Permanent, Held, HeldIn
  <2>2. Permanent = {} => Held = {}
    BY <1>4 DEF TimerFires, TimerCoversHeld, Held, HeldIn, Permanent, WakelockTypeOK
  <2>. QED  BY <1>4, <2>1, <2>2 DEF TimerFires, TimerCoversHeld, SuspendNotLost
<1>5. CASE expire_wake_locks
  <2>1. PICK r \in -1..MaxTimeout :
           has_wake_lock(r) /\ IF r = 0 THEN queue_work("suspend") ELSE UNCHANGED workq
    BY <1>5 DEF expire_wake_locks
  <2>2. expire_timer' = expire_timer
    BY <1>5 DEF expire_wake_locks
  <2>3. /\ Permanent' = Permanent
        /\ TimerCoversHeld'
        /\ Permanent = {} /\ r # 0 => expire_timer # NotArmed
    BY <2>1, <2>2, AskKeeps
  <2>4. r = 0 => Pending("suspend")'
    BY <2>1, QueueWork DEF WakelockTypeOK, Works
  <2>. QED  BY <2>2, <2>3, <2>4 DEF SuspendNotLost
<1>6. CASE run_workqueue
  <2>1. TimerCoversHeld' /\ Permanent' = Permanent
    BY <1>6 DEF run_workqueue, TimerCoversHeld, Held, HeldIn, Permanent
  <2>2. CASE Head(workq) = "suspend"
    BY <1>6, <2>1, <2>2 DEF run_workqueue, SuspendNotLost
  <2>3. CASE Head(workq) # "suspend"
    <3>1. ASSUME Pending("suspend") PROVE Pending("suspend")'
      <4>1. PICK i \in 1..Len(workq) : workq[i] = "suspend"
        BY <3>1 DEF Pending
      <4>2. i - 1 \in 1..Len(Tail(workq)) /\ Tail(workq)[i - 1] = "suspend"
        BY <4>1, <2>3, <1>6 DEF run_workqueue, WakelockTypeOK
      <4>. QED  BY <4>2, <1>6 DEF run_workqueue, Pending
    <3>. QED  BY <1>6, <2>1, <3>1 DEF run_workqueue, SuspendNotLost, Attempting
  <2>. QED  BY <2>2, <2>3
<1>7. CASE suspend_check
  <2>1. PICK r \in -1..MaxTimeout :
           has_wake_lock(r) /\ worker' = IF r # 0 THEN "idle" ELSE "suspend_entry"
    BY <1>7 DEF suspend_check
  <2>2. expire_timer' = expire_timer
    BY <1>7 DEF suspend_check
  <2>3. /\ Permanent' = Permanent
        /\ TimerCoversHeld'
        /\ Permanent = {} /\ r # 0 => expire_timer # NotArmed
    BY <2>1, <2>2, AskKeeps
  <2>. QED  BY <2>1, <2>2, <2>3 DEF SuspendNotLost, Attempting
<1>8. CASE suspend_entry
  BY <1>8 DEF suspend_entry, TimerCoversHeld, SuspendNotLost, Held, HeldIn,
              Permanent, Pending, Attempting
<1>9. CASE suspend_exit
  BY <1>9 DEF suspend_exit, TimerCoversHeld, SuspendNotLost, Held, HeldIn,
              Permanent, Pending, Attempting
<1>10. CASE suspend_unknown
  <2>1. UnknownTimeout \in 0..MaxTimeout
    BY WakelockAssumption
  <2>. QED  BY <1>10, <2>1, LockTimeoutKeeps, WakelockAssumption DEF suspend_unknown
<1>11. CASE pm_suspend_asks
  <2>1. Permanent' = Permanent /\ TimerCoversHeld'
    BY <1>11, AskKeeps DEF pm_suspend_asks
  <2>. QED  BY <1>11, <2>1 DEF pm_suspend_asks, SuspendNotLost, Pending, Attempting
<1>12. CASE pm_suspend_returns
  BY <1>12 DEF pm_suspend_returns, TimerCoversHeld, SuspendNotLost, Held, HeldIn,
               Permanent, Pending, Attempting
<1>13. CASE UNCHANGED wakelockVars
  BY <1>13 DEF wakelockVars, TimerCoversHeld, SuspendNotLost, Held, HeldIn,
               Permanent, Pending, Attempting
<1>. QED
  BY <1>1, <1>2, <1>3, <1>4, <1>5, <1>6, <1>7, <1>8, <1>9, <1>10, <1>11, <1>12,
     <1>13 DEF WakelockNext, SuspendWork

(* No sequence of wake_lock, wake_lock_timeout, wake_unlock, destruction,   *)
(* timer expiry and suspend attempts, on any set of locks, ever leaves the  *)
(* system without a permanent wake lock and without anything that will try  *)
(* to suspend it.                                                           *)
THEOREM NoSuspendIsLost == WakelockSafety => []SuspendNotLost
<1>1. NotLostInv => SuspendNotLost
  BY DEF NotLostInv
<1>. QED  BY <1>1, NotLostInit, NotLostNext, PTL DEF WakelockSafety

(* The expiry timer never fires early for the last timed lock, and is never *)
(* missing while a timed lock is all that keeps the system awake.           *)
THEOREM TimerAlwaysCovers == WakelockSafety => []TimerCoversHeld
<1>1. NotLostInv => TimerCoversHeld
  BY DEF NotLostInv
<1>. QED  BY <1>1, NotLostInit, NotLostNext, PTL DEF WakelockSafety

----------------------------------------------------------------------------
(* A walk of has_wake_lock_locked expires only locks that hold nothing.     *)
LEMMA CollectHeld ==
    ASSUME NEW a \in SUBSET Locks, NEW e \in SUBSET a,
           NEW lf \in [Locks -> 0..MaxTimeout], Collect(a, e, lf)
    PROVE  Held' = HeldIn(a, e, lf)
  BY DEF Collect, Expired, Held, HeldIn

(* has_wake_lock changes no lock that holds, and returns 0 only if none does. *)
LEMMA AskHeld ==
    ASSUME WakelockTypeOK, NEW r, has_wake_lock(r)
    PROVE  Held' = Held /\ (r = 0 => Held = {})
<1>1. Held' = Held
  BY CollectHeld DEF has_wake_lock, Held, WakelockTypeOK
<1>2. r = 0 => Held = {}
  BY DEF has_wake_lock, IsHasWakeLock, Held, HeldIn, WakelockTypeOK
<1>. QED  BY <1>1, <1>2

(* An operation on a lock makes no other lock hold that did not.            *)
LEMMA ClientHeld ==
    ASSUME WakelockTypeOK, NEW l \in Clients, ClientStep(l)
    PROVE  Held' \subseteq Held \cup {l}
<1>0. l \in Locks
  BY DEF Clients
<1>1. CASE wake_lock(l)
  BY <1>0, <1>1 DEF wake_lock, Held, HeldIn, WakelockTypeOK
<1>2. ASSUME NEW t \in 0..MaxTimeout, wake_lock_timeout(l, t)
      PROVE  Held' \subseteq Held \cup {l}
  BY <1>0, <1>2 DEF wake_lock_timeout, Held, HeldIn, WakelockTypeOK, Collect, Expired
<1>3. CASE wake_unlock(l)
  BY <1>0, <1>3 DEF wake_unlock, Held, HeldIn, WakelockTypeOK, Collect, Expired
<1>4. CASE wake_lock_init(l) \/ wake_lock_destroy(l)
  BY <1>0, <1>4 DEF wake_lock_init, wake_lock_destroy, Held, HeldIn, WakelockTypeOK
<1>. QED  BY <1>1, <1>2, <1>3, <1>4 DEF ClientStep

(* Neither time nor the expiry handler makes a lock hold.                   *)
LEMMA TimerHeld ==
    ASSUME WakelockTypeOK, Tick \/ TimerFires \/ expire_wake_locks
    PROVE  Held' \subseteq Held
<1>1. CASE Tick
  BY <1>1 DEF Tick, Held, HeldIn, WakelockTypeOK
<1>2. CASE TimerFires
  BY <1>2 DEF TimerFires, Held, HeldIn
<1>3. CASE expire_wake_locks
  BY <1>3, AskHeld DEF expire_wake_locks
<1>. QED  BY <1>1, <1>2, <1>3

(* The calls of a driver with interrupts off, taken together: the types.    *)
LEMMA LockThenUnlockType ==
    ASSUME WakelockTypeOK, NEW S \in SUBSET Locks, NEW t \in 0..MaxTimeout,
           NEW U \in SUBSET Locks, LockThenUnlock(S, t, U)
    PROVE  WakelockTypeOK'
<1> DEFINE a == (active \cup S) \ U
           e == (auto \cup S) \ U
           lf == [l \in Locks |-> IF l \in U THEN 0 ELSE IF l \in S THEN t ELSE left[l]]
<1>1. CASE S \cup U = {}
  <2>1. UNCHANGED wakelockVars
    BY <1>1 DEF LockThenUnlock
  <2>. QED  BY <2>1 DEF wakelockVars, WakelockTypeOK
<1>2. CASE S \cup U # {}
  <2>1. /\ Collect(a, e, lf) /\ S \cup U \subseteq inited
        /\ UNCHANGED <<inited, timer_fired, worker>> /\ moved' \in BOOLEAN
    BY <1>2 DEF LockThenUnlock, WakelockTypeOK
  <2>2. a \in SUBSET inited /\ e \in SUBSET a /\ lf \in [Locks -> 0..MaxTimeout]
    BY <2>1, WakelockAssumption DEF WakelockTypeOK
  <2>3. \A k \in Locks : k \notin e => lf[k] = 0
    BY DEF WakelockTypeOK
  <2>4. PICK r \in -1..MaxTimeout : SetTimerOrSuspend(r)
    BY <1>2 DEF LockThenUnlock
  <2>5. expire_timer' \in -1..MaxTimeout /\ workq' \in Seq(Works)
    BY <2>4, SetTimerType, WakelockAssumption DEF WakelockTypeOK
  <2>6. preventing' \subseteq Locks
    BY <1>2, <2>2 DEF LockThenUnlock, HeldIn, WakelockTypeOK
  <2> HIDE DEF a, e, lf
  <2>7. /\ active' \subseteq inited
        /\ auto' \subseteq active'
        /\ left' \in [Locks -> 0..MaxTimeout]
        /\ \A k \in Locks : k \notin auto' => left'[k] = 0
    BY <2>1, <2>2, <2>3, CollectType DEF WakelockTypeOK
  <2>. QED  BY <2>1, <2>5, <2>6, <2>7 DEF WakelockTypeOK
<1>. QED  BY <1>1, <1>2

(* The same calls: only the locks of S may start to hold, those of U do not *)
(* hold any more, and every other lock keeps the time it has left.          *)
LEMMA LockThenUnlockEffect ==
    ASSUME WakelockTypeOK, NEW S \in SUBSET Locks, NEW t \in 0..MaxTimeout,
           NEW U \in SUBSET Locks, LockThenUnlock(S, t, U)
    PROVE  /\ Held' \subseteq (Held \cup S) \ U
           /\ active' \subseteq (active \cup S) \ U
           /\ \A l \in Locks :
                 left'[l] = IF l \in U THEN 0 ELSE IF l \in S THEN t ELSE left[l]
           /\ inited' = inited /\ worker' = worker
           /\ S \cup U \subseteq inited
<1>1. CASE S \cup U = {}
  <2>1. UNCHANGED wakelockVars
    BY <1>1 DEF LockThenUnlock
  <2>. QED  BY <1>1, <2>1 DEF wakelockVars, Held, HeldIn
<1>2. CASE S \cup U # {}
  <2> DEFINE a == (active \cup S) \ U
             e == (auto \cup S) \ U
             lf == [l \in Locks |-> IF l \in U THEN 0 ELSE IF l \in S THEN t ELSE left[l]]
  <2>1. Collect(a, e, lf) /\ S \cup U \subseteq inited /\ UNCHANGED <<inited, worker>>
    BY <1>2 DEF LockThenUnlock
  <2>2. a \in SUBSET Locks /\ e \in SUBSET a /\ lf \in [Locks -> 0..MaxTimeout]
    BY <2>1, WakelockAssumption DEF WakelockTypeOK
  <2>3. Held' = HeldIn(a, e, lf)
    <3> HIDE DEF a, e, lf
    <3>. QED  BY <2>1, <2>2, CollectHeld
  <2>4. Held' \subseteq (Held \cup S) \ U
    BY <2>2, <2>3 DEF Held, HeldIn, WakelockTypeOK
  <2>5. active' \subseteq a /\ left' = lf
    BY <2>1 DEF Collect
  <2>. QED  BY <2>1, <2>4, <2>5
<1>. QED  BY <1>1, <1>2

(* At boot nobody is blamed.                                                *)
LEMMA BlameInit == WakelockInit => BlameMatchesBlockers
  BY DEF WakelockInit, BlameMatchesBlockers

(* wake_lock keeps the accounts right.                                      *)
LEMMA BlameLock ==
    ASSUME WakelockTypeOK, BlameMatchesBlockers, NEW l \in Locks, wake_lock(l)
    PROVE  BlameMatchesBlockers'
  BY DEF WakelockTypeOK, BlameMatchesBlockers, wake_lock, LockBlame, Held, HeldIn

(* wake_lock_timeout keeps the accounts right.                              *)
LEMMA BlameLockTimeout ==
    ASSUME WakelockTypeOK, BlameMatchesBlockers, NEW l \in Locks \ {main_wake_lock},
           NEW t \in 0..MaxTimeout, wake_lock_timeout(l, t), main_wake_lock \notin auto
    PROVE  BlameMatchesBlockers'
<1> DEFINE a == active \cup {l}
           e == auto \cup {l}
           lf == [left EXCEPT ![l] = t]
<1>1. a \in SUBSET Locks /\ e \in SUBSET a /\ lf \in [Locks -> 0..MaxTimeout]
  BY DEF WakelockTypeOK
<1>2. Collect(a, e, lf)
  BY DEF wake_lock_timeout
<1>3. Held' = HeldIn(a, e, lf)
  <2> HIDE DEF a, e, lf
  <2>. QED  BY <1>1, <1>2, CollectHeld
<1>4. main_wake_lock \in active' <=> main_wake_lock \in active
  BY <1>2 DEF Collect, Expired
<1>5. CASE main_wake_lock \in active
  BY <1>4, <1>5 DEF wake_lock_timeout, LockBlame, BlameMatchesBlockers
<1>6. CASE main_wake_lock \notin active
  <2>1. preventing' = HeldIn(a, e, lf) \ Expired(a, e, lf)
    BY <1>6 DEF wake_lock_timeout, LockBlame
  <2>2. HeldIn(a, e, lf) \cap Expired(a, e, lf) = {}
    BY <1>1 DEF HeldIn, Expired
  <2>3. Held' \subseteq active'
    BY DEF Held, HeldIn
  <2> HIDE DEF a, e, lf
  <2>. QED  BY <1>3, <1>4, <1>6, <2>1, <2>2, <2>3 DEF BlameMatchesBlockers
<1>. QED  BY <1>5, <1>6

(* wake_unlock keeps the accounts right, of the main lock too.              *)
LEMMA BlameUnlock ==
    ASSUME WakelockTypeOK, BlameMatchesBlockers, NEW l \in Locks, wake_unlock(l),
           main_wake_lock \notin auto
    PROVE  BlameMatchesBlockers'
<1> DEFINE a == active \ {l}
           e == auto \ {l}
           lf == [left EXCEPT ![l] = 0]
<1>1. a \in SUBSET Locks /\ e \in SUBSET a /\ lf \in [Locks -> 0..MaxTimeout]
  BY WakelockAssumption DEF WakelockTypeOK
<1>2. Collect(a, e, lf)
  BY DEF wake_unlock
<1>3. Held' = HeldIn(a, e, lf)
  <2> HIDE DEF a, e, lf
  <2>. QED  BY <1>1, <1>2, CollectHeld
<1>4. Held' \subseteq active' /\ active' = a \ Expired(a, e, lf)
  BY <1>2 DEF Held, HeldIn, Collect
<1>5. CASE l = main_wake_lock
  <2>1. main_wake_lock \notin active' /\ preventing' = HeldIn(a, e, lf)
    BY <1>4, <1>5 DEF wake_unlock
  <2> HIDE DEF a, e, lf
  <2>. QED  BY <1>3, <1>4, <2>1 DEF BlameMatchesBlockers
<1>6. CASE l # main_wake_lock
  <2>1. main_wake_lock \in active' <=> main_wake_lock \in active
    BY <1>4, <1>6 DEF Expired
  <2>2. preventing' = preventing \ ({l} \cup Expired(a, e, lf))
    BY <1>6 DEF wake_unlock
  <2>3. Held' \subseteq Held \ ({l} \cup Expired(a, e, lf))
    BY <1>3, <1>1 DEF HeldIn, Held, Expired, WakelockTypeOK
  <2>. QED  BY <1>4, <2>1, <2>2, <2>3 DEF BlameMatchesBlockers
<1>. QED  BY <1>5, <1>6

\* The main lock never has a timeout.
BlameInv == WakelockTypeOK /\ main_wake_lock \notin auto /\ BlameMatchesBlockers

(* has_wake_lock keeps the accounts right.                                  *)
LEMMA BlameAsk ==
    ASSUME BlameInv, NEW r, has_wake_lock(r)
    PROVE  main_wake_lock \notin auto' /\ BlameMatchesBlockers'
<1>1. Held' = Held
  BY AskHeld DEF BlameInv
<1>2. Held \cap Expired(active, auto, left) = {}
  BY DEF Held, HeldIn, Expired, BlameInv, WakelockTypeOK
<1>3. main_wake_lock \in active' <=> main_wake_lock \in active
  BY DEF BlameInv, has_wake_lock, Collect, Expired
<1>. QED  BY <1>1, <1>2, <1>3 DEF BlameInv, BlameMatchesBlockers, has_wake_lock, Collect

(* Every step keeps the accounts right.                                     *)
LEMMA BlameNext == BlameInv /\ [WakelockNext]_wakelockVars => BlameInv'
<1> SUFFICES ASSUME BlameInv, [WakelockNext]_wakelockVars
             PROVE  main_wake_lock \notin auto' /\ BlameMatchesBlockers'
  BY WakelockTypeNext DEF BlameInv
<1> USE DEF BlameInv
<1>1. ASSUME NEW l \in Clients, ClientStep(l)
      PROVE  main_wake_lock \notin auto' /\ BlameMatchesBlockers'
  <2>0. l \in Locks \ {main_wake_lock}
    BY DEF Clients
  <2>1. CASE wake_lock(l)
    BY <2>0, <2>1, BlameLock DEF wake_lock
  <2>2. ASSUME NEW t \in 0..MaxTimeout, wake_lock_timeout(l, t)
        PROVE  main_wake_lock \notin auto' /\ BlameMatchesBlockers'
    BY <2>0, <2>2, BlameLockTimeout DEF wake_lock_timeout, Collect
  <2>3. CASE wake_unlock(l)
    BY <2>0, <2>3, BlameUnlock DEF wake_unlock, Collect
  <2>4. CASE wake_lock_init(l)
    BY <2>4 DEF wake_lock_init, BlameMatchesBlockers, Held, HeldIn
  <2>5. CASE wake_lock_destroy(l)
    BY <2>0, <2>5 DEF wake_lock_destroy, BlameMatchesBlockers, Held, HeldIn,
                      WakelockTypeOK
  <2>. QED  BY <1>1, <2>1, <2>2, <2>3, <2>4, <2>5 DEF ClientStep
<1>2. CASE MainStep
  BY <1>2, BlameLock, BlameUnlock, WakelockAssumption
  DEF MainStep, wake_lock, wake_unlock, Collect
<1>3. CASE Tick
  BY <1>3 DEF Tick, BlameMatchesBlockers, Held, HeldIn, WakelockTypeOK
<1>4. CASE expire_wake_locks \/ suspend_check \/ pm_suspend_asks
  BY <1>4, BlameAsk DEF expire_wake_locks, suspend_check, pm_suspend_asks
<1>5. CASE suspend_unknown
  <2>1. UnknownTimeout \in 0..MaxTimeout /\ unknown_wakeup \in Locks \ {main_wake_lock}
    BY WakelockAssumption
  <2>. QED  BY <1>5, <2>1, BlameLockTimeout DEF suspend_unknown, wake_lock_timeout, Collect
<1>6. CASE \/ TimerFires \/ run_workqueue \/ suspend_entry \/ suspend_exit
           \/ pm_suspend_returns \/ UNCHANGED wakelockVars
  BY <1>6 DEF TimerFires, run_workqueue, suspend_entry, suspend_exit,
              pm_suspend_returns, wakelockVars, BlameMatchesBlockers, Held, HeldIn
<1>. QED
  BY <1>1, <1>2, <1>3, <1>4, <1>5, <1>6 DEF WakelockNext, SuspendWork

(* /proc/wakelocks charges the time the system could not sleep to exactly   *)
(* the locks that prevented it.                                             *)
THEOREM BlameIsRight == WakelockSafety => []BlameMatchesBlockers
<1>1. WakelockInit => BlameInv
  BY WakelockTypeInit, BlameInit DEF BlameInv, WakelockInit
<1>2. BlameInv => BlameMatchesBlockers
  BY DEF BlameInv
<1>. QED  BY <1>1, <1>2, BlameNext, PTL DEF WakelockSafety

----------------------------------------------------------------------------
(* A step that leaves the stage of the attempt alone is a Change of what is *)
(* held, or a stutter.                                                      *)
LEMMA StepIsChange ==
    ASSUME WakelockTypeOK', Attempting' = Attempting
    PROVE  [Gate!GateNext]_(Gate!gateVars)
<1>1. Held' \in SUBSET Locks
  BY DEF WakelockTypeOK, Held, HeldIn
<1>. QED  BY <1>1 DEF Gate!GateNext, Gate!Change

(* Every step of the manager is a step of SuspendGate or leaves it alone.   *)
LEMMA GateStep ==
    ASSUME WakelockTypeOK, [WakelockNext]_wakelockVars
    PROVE  [Gate!GateNext]_(Gate!gateVars)
<1>0. WakelockTypeOK'
  BY WakelockTypeNext
<1>1. ASSUME NEW l \in Clients, ClientStep(l) PROVE [Gate!GateNext]_(Gate!gateVars)
  <2>1. worker' = worker
    BY <1>1 DEF ClientStep, wake_lock_init, wake_lock_destroy
  <2>. QED  BY <1>0, <2>1, StepIsChange DEF Attempting
<1>2. CASE \/ MainStep \/ Tick \/ TimerFires \/ expire_wake_locks \/ pm_suspend_asks
           \/ UNCHANGED wakelockVars
  <2>1. worker' = worker
    BY <1>2 DEF MainStep, Tick, TimerFires, expire_wake_locks, pm_suspend_asks,
                wakelockVars
  <2>. QED  BY <1>0, <2>1, StepIsChange DEF Attempting
<1>3. CASE run_workqueue
  <2>1. worker = "idle" /\ worker' \in Works
    BY <1>3 DEF run_workqueue, WakelockTypeOK
  <2>. QED  BY <1>0, <2>1, StepIsChange DEF Attempting, Works
<1>4. CASE suspend_entry \/ pm_suspend_returns
  BY <1>0, <1>4, StepIsChange DEF suspend_entry, pm_suspend_returns, Attempting
<1>5. CASE suspend_check
  <2>1. PICK r \in -1..MaxTimeout :
           has_wake_lock(r) /\ worker' = IF r # 0 THEN "idle" ELSE "suspend_entry"
    BY <1>5 DEF suspend_check
  <2>2. worker = "suspend" /\ ~Attempting
    BY <1>5 DEF suspend_check, Attempting
  <2>3. CASE r = 0
    <3>1. Held = {} /\ Held' = Held
      BY <2>1, <2>3, AskHeld
    <3>2. Attempting' = TRUE
      BY <2>1, <2>3 DEF Attempting
    <3>. QED  BY <2>2, <3>1, <3>2 DEF Gate!GateNext, Gate!Begin
  <2>4. CASE r # 0
    BY <1>0, <2>1, <2>2, <2>4, StepIsChange DEF Attempting
  <2>. QED  BY <2>3, <2>4
<1>6. CASE suspend_exit
  <2>1. Held' = Held /\ Held \in SUBSET Locks /\ Attempting
    BY <1>6 DEF suspend_exit, Held, HeldIn, WakelockTypeOK, Attempting
  <2>2. CASE moved
    <3>1. Attempting' = FALSE
      BY <1>6, <2>2 DEF suspend_exit, Attempting
    <3>. QED  BY <2>1, <3>1 DEF Gate!GateNext, Gate!End
  <2>3. CASE ~moved
    BY <1>0, <1>6, <2>1, <2>3, StepIsChange DEF suspend_exit, Attempting
  <2>. QED  BY <2>2, <2>3
<1>7. CASE suspend_unknown
  <2> DEFINE a == active \cup {unknown_wakeup}
             e == auto \cup {unknown_wakeup}
             lf == [left EXCEPT ![unknown_wakeup] = UnknownTimeout]
  <2>1. a \in SUBSET Locks /\ e \in SUBSET a /\ lf \in [Locks -> 0..MaxTimeout]
    BY WakelockAssumption DEF WakelockTypeOK
  <2>2. Collect(a, e, lf)
    BY <1>7 DEF suspend_unknown, wake_lock_timeout
  <2>3. Held' = HeldIn(a, e, lf)
    <3> HIDE DEF a, e, lf
    <3>. QED  BY <2>1, <2>2, CollectHeld
  <2>4. Held \subseteq Held' /\ Held' \in SUBSET Locks
    BY <2>1, <2>3, WakelockAssumption DEF Held, HeldIn, WakelockTypeOK
  <2>5. Attempting /\ Attempting' = FALSE
    BY <1>7 DEF suspend_unknown, Attempting
  <2>. QED  BY <2>4, <2>5 DEF Gate!GateNext, Gate!End
<1>. QED
  BY <1>1, <1>2, <1>3, <1>4, <1>5, <1>6, <1>7 DEF WakelockNext, SuspendWork

\* SuspendGate without its fairness, under the refinement mapping.
GateSafety == Gate!GateInit /\ [][Gate!GateNext]_(Gate!gateVars)

(* The wake lock manager implements the gate that wakelock.h promises, for  *)
(* every set of locks: an attempt to suspend begins only when no lock is    *)
(* held.                                                                    *)
THEOREM WakelockImplementsGate == WakelockSafety => GateSafety
<1>1. WakelockInit => Gate!GateInit
  BY WakelockTypeInit
  DEF WakelockInit, Gate!GateInit, Held, HeldIn, Attempting, WakelockTypeOK
<1>2. WakelockTypeOK /\ [WakelockNext]_wakelockVars => [Gate!GateNext]_(Gate!gateVars)
  BY GateStep
<1>. QED
  BY <1>1, <1>2, WakelockTypeInit, WakelockTypeNext, PTL DEF WakelockSafety, GateSafety
=============================================================================
