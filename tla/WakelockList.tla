---------------------------- MODULE WakelockList ----------------------------
(***************************************************************************)
(* The list active_wake_locks[WAKE_LOCK_SUSPEND] of kernel/power/wakelock.c *)
(* under the operations of module Wakelock, which knows the active locks    *)
(* only as a set.  The code gets the answer of has_wake_lock_locked, and    *)
(* the locks to expire, from one walk that stops at the first permanent     *)
(* lock; it relies on wake_lock_internal putting permanent locks at the     *)
(* head and timed locks at the tail.                                        *)
(***************************************************************************)
EXTENDS Wakelock, Functions

VARIABLE active_wake_locks      \* the list, head first

listVars == <<wakelockVars, active_wake_locks>>

\* What the walk has done after the locks before this one: the locks that
\* expire_wake_lock took off the list, the maximum so far, and -1 for good
\* once a permanent lock was met.
WalkStep(e, lf, w, l) ==
    IF w.ret = -1 THEN w
    ELSE IF l \notin e THEN [w EXCEPT !.ret = -1]
    ELSE IF lf[l] = 0 THEN [w EXCEPT !.gone = @ \cup {l}]
    ELSE [w EXCEPT !.ret = IF lf[l] > @ THEN lf[l] ELSE @]

Walk(list, e, lf) ==
    LET walk[i \in 0..Len(list)] ==
          IF i = 0 THEN [ret |-> 0, gone |-> {}]
          ELSE WalkStep(e, lf, walk[i - 1], list[i])
    IN walk[Len(list)]

\* list_del of the locks S: what is left of a list, in its order.
Without(list, S) ==
    LET rest[i \in 0..Len(list)] ==
          IF i = 0 THEN <<>>
          ELSE IF list[i] \in S THEN rest[i - 1] ELSE Append(rest[i - 1], list[i])
    IN rest[Len(list)]

\* The list that has_wake_lock_locked leaves, with the flags and times it saw.
AfterWalk(list, e, lf) == Without(list, Walk(list, e, lf).gone)

\* Faulty variant: a permanent lock goes to the tail like a timed one.
PermanentAtTail(l) == Append(Without(active_wake_locks, {l}), l)

\* list_del and list_add: a permanent lock goes to the head.
AtHead(l) == <<l>> \o Without(active_wake_locks, {l})

\* list_del and list_add_tail: a timed lock goes to the tail.
AtTail(l) == Append(Without(active_wake_locks, {l}), l)

----------------------------------------------------------------------------
ListInit ==
    /\ WakelockInit
    /\ active_wake_locks = <<main_wake_lock>>

ListLock(l) ==
    /\ wake_lock(l)
    /\ active_wake_locks' = AtHead(l)
    /\ UNCHANGED <<workq, worker>>

\* The walk at the end of wake_lock_internal sees the lock just added.
ListLockTimeout(l, t) ==
    /\ wake_lock_timeout(l, t)
    /\ active_wake_locks' =
          AfterWalk(AtTail(l), auto \cup {l}, [left EXCEPT ![l] = t])

ListUnlock(l) ==
    /\ wake_unlock(l)
    /\ active_wake_locks' = AfterWalk(Without(active_wake_locks, {l}), auto, left)
    /\ UNCHANGED worker

ListDestroy(l) ==
    /\ wake_lock_destroy(l)
    /\ active_wake_locks' = Without(active_wake_locks, {l})

\* The three callers that only ask has_wake_lock.
ListAsk ==
    /\ expire_wake_locks \/ suspend_check \/ pm_suspend_asks
    /\ active_wake_locks' = AfterWalk(active_wake_locks, auto, left)

ListNext ==
    \/ \E l \in Clients :
          \/ \E t \in 0..MaxTimeout : ListLockTimeout(l, t) /\ UNCHANGED worker
          \/ ListDestroy(l)
          \/ wake_lock_init(l) /\ UNCHANGED active_wake_locks
    \/ \E l \in Clients \cup {main_wake_lock} : ListLock(l) \/ ListUnlock(l)
    \/ ListAsk
    \/ suspend_unknown /\ ListLockTimeout(unknown_wakeup, UnknownTimeout)
    \/ /\ Tick \/ TimerFires \/ run_workqueue \/ suspend_entry
          \/ suspend_exit \/ pm_suspend_returns
       /\ UNCHANGED active_wake_locks

ListSafety == ListInit /\ [][ListNext]_listVars
ListSpec == ListSafety /\ WakelockFairness

----------------------------------------------------------------------------
(* The list holds exactly the active locks, each once: the walk expires the *)
(* locks that the set model says it does, whatever order the locks were     *)
(* taken, extended, released and destroyed in.                              *)
ListIsActive ==
    /\ Range(active_wake_locks) = active
    /\ IsInjective(active_wake_locks)

(* The walk of has_wake_lock_locked may stop at the first permanent lock:   *)
(* at any time it would return the value that the whole list calls for, and *)
(* it never expires a lock that stands before a permanent one.              *)
WalkIsExact ==
    LET w == Walk(active_wake_locks, auto, left) IN
    /\ IsHasWakeLock(w.ret, active, auto, left)
    /\ w.gone = Expired(active, auto, left)
=============================================================================
