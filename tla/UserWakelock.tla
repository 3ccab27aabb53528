---------------------------- MODULE UserWakelock ----------------------------
(***************************************************************************)
(* kernel/power/userwakelock.c: wake locks that processes create and use by *)
(* name through /sys/power/wake_lock and /sys/power/wake_unlock, on top of  *)
(* module Wakelock.  The names are the client locks; a lock that has been   *)
(* created stays in the tree for good.  The mutex tree_lock is held from    *)
(* the look-up of a name to the end of the store; the wake lock manager and *)
(* its timer run in between.                                                *)
(***************************************************************************)
EXTENDS Wakelock

CONSTANTS Requests,         \* timeouts that processes write, in nanoseconds
          NsecPerJiffy,     \* NSEC_PER_SEC / HZ
          U64, ULong        \* 2^64 and 2^32: how many values a u64, a long has

ASSUME UserWakelockAssumption ==
    /\ NsecPerJiffy \in Nat \ {0}
    /\ U64 \in Nat \ {0} /\ ULong \in Nat \ {0}
    /\ Requests \subseteq 0..(U64 - 1)
    /\ ULong \div 2 <= MaxTimeout + 1

VARIABLES
    store,          \* the store that holds tree_lock: <<>>, or name and timeout
    due             \* nanoseconds left of what a process asked for by name

userVars == <<wakelockVars, store, due>>

NoTimeout == -1
UserInit ==
    /\ WakelockInit
    /\ store = <<>>
    /\ due = [l \in Clients |-> 0]

----------------------------------------------------------------------------
\* The assignment of a u64 to a long keeps the low bits as a signed number.
AsLong(x) == LET y == x % ULong IN IF y >= ULong \div 2 THEN y - ULong ELSE y

\* Faulty variant: the conversion rounds down.
RoundsDown(ns) ==
    IF ns = NoTimeout THEN 0
    ELSE IF ns < NsecPerJiffy THEN 1 ELSE AsLong(ns \div NsecPerJiffy)

\* Nanoseconds to jiffies, in the u64 arithmetic of lookup_wake_lock_name; a
\* store without a timeout gets 0.
Jiffies(ns) ==
    LET j == ((ns + NsecPerJiffy - 1) % U64) \div NsecPerJiffy IN
    IF ns = NoTimeout THEN 0 ELSE AsLong(IF j <= 0 THEN 1 ELSE j)

\* lookup_wake_lock_name creates the lock of a name that is not in the tree;
\* a bad argument or no memory changes nothing.
lookup_wake_lock_name(l, ns) ==
    /\ store = <<>>
    /\ inited' = inited \cup {l}
    /\ store' = <<l, ns>>
    /\ UNCHANGED <<active, auto, left, preventing, expire_timer, timer_fired,
                   workq, worker, moved, due>>

(* The rest of wake_lock_store.  A negative timeout has lapsed already when *)
(* wake_lock_timeout takes the lock.                                        *)
wake_lock_store ==
    /\ store # <<>>
    /\ LET l == store[1]
           ns == store[2]
           timeout == Jiffies(ns) IN
       /\ IF timeout # 0
            THEN wake_lock_timeout(l, IF timeout > 0 THEN timeout ELSE 0)
            ELSE wake_lock(l) /\ UNCHANGED workq
       /\ due' = [due EXCEPT ![l] = ns]
    /\ store' = <<>>
    /\ UNCHANGED worker

\* wake_unlock_store: a name that is not in the tree is refused.
wake_unlock_store(l) ==
    /\ store = <<>>
    /\ wake_unlock(l)
    /\ due' = [due EXCEPT ![l] = 0]
    /\ UNCHANGED <<worker, store>>

\* One jiffy goes by for the locks and for the processes.
UserTick ==
    /\ Tick
    /\ due' = [l \in Clients |-> IF due[l] > NsecPerJiffy THEN due[l] - NsecPerJiffy
                                 ELSE IF due[l] = NoTimeout THEN NoTimeout ELSE 0]
    /\ UNCHANGED store

UserNext ==
    \/ \E l \in Clients, ns \in Requests \cup {NoTimeout} : lookup_wake_lock_name(l, ns)
    \/ wake_lock_store
    \/ \E l \in Clients : wake_unlock_store(l)
    \/ UserTick
    \/ /\ \/ MainStep \/ TimerFires \/ expire_wake_locks \/ run_workqueue
          \/ SuspendWork \/ pm_suspend_asks \/ pm_suspend_returns
       /\ UNCHANGED <<store, due>>

UserSpec == UserInit /\ [][UserNext]_userVars

----------------------------------------------------------------------------
UserTypeOK ==
    /\ WakelockTypeOK
    /\ store = <<>> \/ store \in Clients \X (Requests \cup {NoTimeout})
    /\ due \in [Clients -> (-1)..(U64 - 1)]

(* A process that asked for a wake lock has it for as long as it asked for, *)
(* counted in ticks: without limit if it gave no timeout.  A lock with a    *)
(* timeout ends less than a jiffy after that, or within the first jiffy.    *)
UserTimeoutKept ==
    \A l \in Clients :
        /\ due[l] = NoTimeout => l \in Permanent
        /\ due[l] > 0 => l \in Held
        /\ l \in Held /\ due[l] # NoTimeout => left[l] * NsecPerJiffy <= due[l] + NsecPerJiffy
=============================================================================
