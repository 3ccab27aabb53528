------------------------- MODULE UserWakelockProofs --------------------------
(***************************************************************************)
(* Proofs about module UserWakelock, for any width of u64 and long and any  *)
(* length of a jiffy.                                                       *)
(***************************************************************************)
EXTENDS UserWakelock, WakelockProofs

(* The setting of the second theorem: rounding up a request does not wrap   *)
(* around a u64, and its jiffies fit a long.                                *)
RequestsFit ==
    /\ ULong >= 4
    /\ \A ns \in Requests :
          /\ ns + NsecPerJiffy <= U64
          /\ ns <= NsecPerJiffy * (ULong \div 2 - 1)

(* What a lock has left, in nanoseconds, is what the process has left,      *)
(* rounded up, and never more than a jiffy above it.                        *)
KeptInv ==
    \A l \in Clients :
        /\ due[l] = NoTimeout => l \in Permanent
        /\ due[l] # NoTimeout => /\ due[l] <= left[l] * NsecPerJiffy
                                 /\ left[l] * NsecPerJiffy <= due[l] + NsecPerJiffy

\* The inductive invariant.
UserInv == UserTypeOK /\ (RequestsFit => KeptInv)

----------------------------------------------------------------------------
(* Integer division by a positive number.                                   *)
LEMMA DivFacts ==
    ASSUME NEW x \in Nat, NEW n \in Nat \ {0}
    PROVE  /\ x \div n \in Nat
           /\ n * (x \div n) <= x
           /\ x < n * (x \div n) + n
  OBVIOUS

(* The remainder of a division by a positive number.                        *)
LEMMA ModFacts ==
    ASSUME NEW x \in Nat, NEW n \in Nat \ {0}
    PROVE  /\ x % n \in 0..(n - 1)
           /\ x < n => x % n = x
  OBVIOUS

(* One jiffy less.                                                          *)
LEMMA OneLess == ASSUME NEW a \in Int, NEW n \in Int PROVE (a - 1) * n = a * n - n
  OBVIOUS

(* A product with a positive number is monotonic.                           *)
LEMMA Monotonic ==
    ASSUME NEW a \in Int, NEW b \in Int, NEW n \in Nat \ {0}, a * n < b * n
    PROVE  a < b
  OBVIOUS

(* The constants of the conversion.                                         *)
LEMMA UserConstants ==
    /\ NsecPerJiffy \in Nat \ {0} /\ U64 \in Nat \ {0} /\ ULong \in Nat \ {0}
    /\ ULong \div 2 \in Nat /\ 2 * (ULong \div 2) <= ULong /\ ULong < 2 * (ULong \div 2) + 2
    /\ ULong \div 2 <= MaxTimeout + 1 /\ MaxTimeout \in Nat
    /\ \A ns \in Requests : ns \in Nat /\ ns < U64
<1>1. /\ NsecPerJiffy \in Nat \ {0} /\ U64 \in Nat \ {0} /\ ULong \in Nat \ {0}
      /\ ULong \div 2 <= MaxTimeout + 1 /\ MaxTimeout \in Nat
      /\ Requests \subseteq 0..(U64 - 1)
  BY UserWakelockAssumption, WakelockAssumption
<1>2. ULong \div 2 \in Nat /\ 2 * (ULong \div 2) <= ULong /\ ULong < 2 * (ULong \div 2) + 2
  BY <1>1, DivFacts
<1>. QED  BY <1>1, <1>2

(* A long is no more than half of what its bits could hold.                 *)
LEMMA AsLongType ==
    ASSUME NEW x \in Nat
    PROVE  /\ AsLong(x) < ULong \div 2 \/ AsLong(x) < 0
           /\ AsLong(x) \in Int
           /\ x < ULong \div 2 => AsLong(x) = x
<1>1. x % ULong \in 0..(ULong - 1) /\ (x < ULong => x % ULong = x)
  BY ModFacts, UserConstants
<1>. QED  BY <1>1, UserConstants DEF AsLong

(* Whatever a process writes, the timeout is one that wake_lock_timeout     *)
(* takes.                                                                   *)
LEMMA JiffiesType ==
    ASSUME NEW ns \in Requests \cup {NoTimeout}
    PROVE  /\ Jiffies(ns) \in Int
           /\ (IF Jiffies(ns) > 0 THEN Jiffies(ns) ELSE 0) \in 0..MaxTimeout
<1>1. CASE ns = NoTimeout
  BY <1>1, UserConstants DEF Jiffies
<1>2. CASE ns # NoTimeout
  <2> DEFINE x == ns + NsecPerJiffy - 1
             j == (x % U64) \div NsecPerJiffy
             k == IF j <= 0 THEN 1 ELSE j
  <2>1. x \in Nat
    BY <1>2, UserConstants
  <2>2. x % U64 \in Nat
    BY <2>1, ModFacts, UserConstants
  <2>3. j \in Nat
    <3> HIDE DEF x
    <3>. QED  BY <2>2, DivFacts, UserConstants
  <2>4. Jiffies(ns) = AsLong(k)
    BY <1>2 DEF Jiffies
  <2>5. k \in Nat
    <3> HIDE DEF j
    <3>. QED  BY <2>3
  <2> HIDE DEF k
  <2>6. AsLong(k) \in Int /\ (AsLong(k) < ULong \div 2 \/ AsLong(k) < 0)
    BY <2>5, AsLongType
  <2>. QED  BY <2>4, <2>6, UserConstants
<1>. QED  BY <1>1, <1>2

(* A request that fits is rounded up to jiffies, by less than one, or to    *)
(* the first jiffy.                                                         *)
LEMMA JiffiesFit ==
    ASSUME RequestsFit, NEW ns \in Requests
    PROVE  /\ Jiffies(ns) \in Nat \ {0}
           /\ ns <= Jiffies(ns) * NsecPerJiffy
           /\ Jiffies(ns) * NsecPerJiffy <= ns + NsecPerJiffy
<1> DEFINE n == NsecPerJiffy
           h == ULong \div 2
           x == ns + n - 1
           j == (x % U64) \div n
<1>0. n \in Nat \ {0} /\ h \in Nat /\ ns \in Nat /\ h >= 2
  BY UserConstants DEF RequestsFit
<1>1. x \in Nat /\ x % U64 = x
  <2>1. x \in Nat /\ x < U64
    BY UserConstants DEF RequestsFit
  <2> HIDE DEF x
  <2>. QED  BY <2>1, ModFacts, UserConstants
<1>2. j \in Nat /\ n * j <= x /\ x < n * j + n
  <2>1. j = x \div n
    BY <1>1
  <2> HIDE DEF x, n, j
  <2>. QED  BY <1>0, <1>1, <2>1, DivFacts
<1>3. n * j = j * n /\ j * n \in Int
  <2> HIDE DEF n, j
  <2>. QED  BY <1>0, <1>2
<1>4. ns <= j * n /\ j * n < ns + n
  <2> HIDE DEF n, j
  <2>. QED  BY <1>0, <1>2, <1>3
<1>5. j < h
  <2>1. ns <= n * (h - 1)
    BY DEF RequestsFit
  <2> HIDE DEF n, j, h
  <2>2. n * (h - 1) = (h - 1) * n /\ (h - 1) * n = h * n - n /\ h * n \in Int
    BY <1>0, OneLess
  <2>3. j * n < h * n
    BY <1>0, <1>3, <1>4, <2>1, <2>2
  <2>. QED  BY <1>0, <1>2, <2>3, Monotonic
<1>6. ns # NoTimeout
  BY <1>0 DEF NoTimeout
<1>7. CASE j <= 0
  <2>1. Jiffies(ns) = AsLong(1)
    BY <1>6, <1>7 DEF Jiffies
  <2>2. Jiffies(ns) = 1
    BY <1>0, <2>1, AsLongType
  <2>3. j = 0
    <3> HIDE DEF j
    <3>. QED  BY <1>2, <1>7
  <2>4. ns <= 0
    <3> HIDE DEF j, n
    <3>. QED  BY <1>0, <1>4, <2>3
  <2>. QED  BY <1>0, <2>2, <2>4
<1>8. CASE ~(j <= 0)
  <2>1. Jiffies(ns) = AsLong(j)
    BY <1>6, <1>8 DEF Jiffies
  <2> HIDE DEF j
  <2>2. Jiffies(ns) = j
    BY <1>2, <1>5, <2>1, AsLongType
  <2>. QED  BY <1>0, <1>2, <1>3, <1>4, <1>8, <2>2
<1>. QED  BY <1>7, <1>8

----------------------------------------------------------------------------
(* A walk of has_wake_lock_locked expires no lock without a timeout.        *)
LEMMA CollectPermanent ==
    ASSUME NEW a, NEW e, NEW lf, Collect(a, e, lf) PROVE Permanent' = a \ e
  BY DEF Collect, Expired, Permanent

(* A step that leaves the times of the clients' locks as they are, and every *)
(* lock without a timeout that is not the one the step is about.            *)
LEMMA KeptFrame ==
    ASSUME UserInv, WakelockTypeOK', UNCHANGED <<store, due>>,
           \A l \in Clients : left'[l] = left[l],
           \A l \in Clients : l \in Permanent => l \in Permanent'
    PROVE  UserInv'
<1>1. UserTypeOK'
  BY DEF UserInv, UserTypeOK
<1>2. RequestsFit => KeptInv'
  BY DEF UserInv, KeptInv
<1>. QED  BY <1>1, <1>2 DEF UserInv, RequestsFit

(* A name is looked up, and its lock created if it is not in the tree.      *)
LEMMA LookupStep ==
    ASSUME UserInv, NEW l \in Clients, NEW ns \in Requests \cup {NoTimeout},
           lookup_wake_lock_name(l, ns)
    PROVE  UserInv'
<1>1. /\ inited' = inited \cup {l} /\ store' = <<l, ns>>
      /\ UNCHANGED <<active, auto, left, preventing, expire_timer, timer_fired,
                     workq, worker, moved, due>>
  BY DEF lookup_wake_lock_name
<1>2. WakelockTypeOK'
  BY <1>1 DEF UserInv, UserTypeOK, WakelockTypeOK, Clients
<1>3. UserTypeOK'
  BY <1>1, <1>2 DEF UserInv, UserTypeOK
<1>4. RequestsFit => KeptInv'
  BY <1>1 DEF UserInv, KeptInv, Permanent
<1>. QED  BY <1>3, <1>4 DEF UserInv, RequestsFit

(* A store takes the lock, for the jiffies that the request comes to.       *)
LEMMA StoreStep == ASSUME UserInv, wake_lock_store PROVE UserInv'
<1> DEFINE l == store[1]
           ns == store[2]
           t == IF Jiffies(ns) > 0 THEN Jiffies(ns) ELSE 0
<1>1. /\ store # <<>> /\ store' = <<>> /\ due' = [due EXCEPT ![l] = ns] /\ UNCHANGED worker
      /\ IF Jiffies(ns) # 0 THEN wake_lock_timeout(l, t) ELSE wake_lock(l) /\ UNCHANGED workq
  BY DEF wake_lock_store
<1>2. l \in Clients /\ l \in Locks /\ ns \in Requests \cup {NoTimeout}
  BY <1>1 DEF UserInv, UserTypeOK, Clients
<1> HIDE DEF l, ns
<1>3. Jiffies(ns) \in Int /\ t \in 0..MaxTimeout
  BY <1>2, JiffiesType
<1>4. /\ WakelockTypeOK'
      /\ left' = [left EXCEPT ![l] = IF Jiffies(ns) # 0 THEN t ELSE 0]
      /\ \A k \in Clients : k # l /\ k \in Permanent => k \in Permanent'
      /\ Jiffies(ns) = 0 => l \in Permanent'
  <2>1. CASE Jiffies(ns) # 0
    <3>1. wake_lock_timeout(l, t)
      BY <1>1, <2>1
    <3> HIDE DEF t
    <3>2. WakelockTypeOK'
      BY <1>1, <1>2, <1>3, <3>1, LockTimeoutType DEF UserInv, UserTypeOK, WakelockTypeOK
    <3>3. Collect(active \cup {l}, auto \cup {l}, [left EXCEPT ![l] = t])
      BY <3>1 DEF wake_lock_timeout
    <3>4. Permanent' = (active \cup {l}) \ (auto \cup {l})
      BY <3>3, CollectPermanent
    <3>. QED  BY <2>1, <3>2, <3>3, <3>4 DEF Permanent, Collect
  <2>2. CASE Jiffies(ns) = 0
    <3>1. wake_lock(l) /\ UNCHANGED workq
      BY <1>1, <2>2
    <3>2. WakelockTypeOK'
      BY <1>1, <1>2, <3>1, LockType DEF UserInv, UserTypeOK, WakelockTypeOK
    <3>. QED  BY <2>2, <3>1, <3>2 DEF Permanent, wake_lock
  <2>. QED  BY <2>1, <2>2
<1>5. UserTypeOK'
  <2>1. due \in [Clients -> (-1)..(U64 - 1)] /\ ns \in (-1)..(U64 - 1)
    BY <1>2, UserConstants DEF UserInv, UserTypeOK, NoTimeout
  <2>. QED  BY <1>1, <1>4, <2>1 DEF UserInv, UserTypeOK
<1>6. ASSUME RequestsFit PROVE KeptInv'
  <2>0. /\ left \in [Locks -> 0..MaxTimeout] /\ due \in [Clients -> (-1)..(U64 - 1)]
        /\ \A k \in Clients : k \in Locks
    BY DEF UserInv, UserTypeOK, WakelockTypeOK, Clients
  <2>1. ASSUME NEW k \in Clients, k # l
        PROVE  due'[k] = due[k] /\ left'[k] = left[k] /\ (k \in Permanent => k \in Permanent')
    BY <1>1, <1>2, <1>4, <2>0, <2>1
  <2>2. due'[l] = ns /\ left'[l] = IF Jiffies(ns) # 0 THEN t ELSE 0
    BY <1>1, <1>2, <1>4, <2>0
  <2>3. CASE ns = NoTimeout
    BY <1>4, <1>6, <2>1, <2>2, <2>3 DEF UserInv, KeptInv, Jiffies
  <2>4. CASE ns # NoTimeout
    <3>1. /\ Jiffies(ns) \in Nat \ {0} /\ ns <= Jiffies(ns) * NsecPerJiffy
          /\ Jiffies(ns) * NsecPerJiffy <= ns + NsecPerJiffy
      BY <1>2, <1>6, <2>4, JiffiesFit
    <3>2. left'[l] = Jiffies(ns)
      BY <2>2, <3>1
    <3>. QED  BY <1>6, <2>1, <2>2, <2>4, <3>1, <3>2 DEF UserInv, KeptInv
  <2>. QED  BY <2>3, <2>4
<1>. QED  BY <1>5, <1>6 DEF UserInv, RequestsFit

(* A process gives its lock up.                                             *)
LEMMA UnlockStoreStep ==
    ASSUME UserInv, NEW l \in Clients, wake_unlock_store(l)
    PROVE  UserInv'
<1>1. wake_unlock(l) /\ due' = [due EXCEPT ![l] = 0] /\ UNCHANGED <<worker, store>> /\ l \in Locks
  BY DEF wake_unlock_store, Clients
<1>2. WakelockTypeOK'
  BY <1>1, UnlockType DEF UserInv, UserTypeOK, WakelockTypeOK
<1>3. Collect(active \ {l}, auto \ {l}, [left EXCEPT ![l] = 0])
  BY <1>1 DEF wake_unlock
<1>4. Permanent' = Permanent \ {l} /\ left' = [left EXCEPT ![l] = 0]
  <2>1. Permanent' = (active \ {l}) \ (auto \ {l})
    BY <1>3, CollectPermanent
  <2>. QED  BY <1>3, <2>1 DEF Permanent, Collect
<1>5. UserTypeOK'
  BY <1>1, <1>2, UserConstants DEF UserInv, UserTypeOK
<1>6. ASSUME RequestsFit PROVE KeptInv'
  <2>0. /\ left \in [Locks -> 0..MaxTimeout] /\ due \in [Clients -> (-1)..(U64 - 1)]
        /\ \A k \in Clients : k \in Locks
    BY DEF UserInv, UserTypeOK, WakelockTypeOK, Clients
  <2>1. due'[l] = 0 /\ left'[l] = 0
    BY <1>1, <1>4, <2>0
  <2>2. \A k \in Clients : k # l => due'[k] = due[k] /\ left'[k] = left[k]
    BY <1>1, <1>4, <2>0
  <2>3. 0 <= 0 * NsecPerJiffy /\ 0 * NsecPerJiffy <= 0 + NsecPerJiffy
    BY UserConstants
  <2>. QED  BY <1>4, <1>6, <2>1, <2>2, <2>3 DEF UserInv, KeptInv, NoTimeout
<1>. QED  BY <1>5, <1>6 DEF UserInv, RequestsFit

(* A jiffy goes by for the lock and for the process.                        *)
LEMMA UserTickStep == ASSUME UserInv, UserTick PROVE UserInv'
<1>1. /\ Tick /\ UNCHANGED store
      /\ due' = [l \in Clients |-> IF due[l] > NsecPerJiffy THEN due[l] - NsecPerJiffy
                                    ELSE IF due[l] = NoTimeout THEN NoTimeout ELSE 0]
  BY DEF UserTick
<1>2. WakelockTypeOK' /\ Permanent' = Permanent
  BY <1>1, TickType DEF UserInv, UserTypeOK, Tick, Permanent
<1>3. UserTypeOK'
  BY <1>1, <1>2, UserConstants DEF UserInv, UserTypeOK, NoTimeout
<1>4. ASSUME RequestsFit PROVE KeptInv'
  <2> SUFFICES ASSUME NEW l \in Clients
               PROVE  /\ due'[l] = NoTimeout => l \in Permanent'
                      /\ due'[l] # NoTimeout =>
                            /\ due'[l] <= left'[l] * NsecPerJiffy
                            /\ left'[l] * NsecPerJiffy <= due'[l] + NsecPerJiffy
    BY DEF KeptInv
  <2> DEFINE n == NsecPerJiffy
             d == due[l]
             x == left[l]
  <2>0. n \in Nat \ {0} /\ d \in (-1)..(U64 - 1) /\ U64 \in Nat /\ x \in Nat /\ d \in Int
    BY UserConstants DEF UserInv, UserTypeOK, WakelockTypeOK, Clients
  <2>1. /\ due'[l] = IF d > n THEN d - n ELSE IF d = NoTimeout THEN NoTimeout ELSE 0
        /\ left'[l] = IF x > 0 THEN x - 1 ELSE 0
    BY <1>1 DEF Tick, Clients
  <2>2. /\ d = NoTimeout => l \in Permanent
        /\ d # NoTimeout => d <= x * n /\ x * n <= d + n
    BY <1>4 DEF UserInv, KeptInv
  <2> HIDE DEF n, d, x
  <2>3. x * n \in Int /\ (x - 1) * n = x * n - n /\ 0 * n = 0
    BY <2>0, OneLess
  <2>4. CASE d = NoTimeout
    BY <1>2, <2>0, <2>1, <2>2, <2>4 DEF NoTimeout
  <2>5. CASE d # NoTimeout /\ x = 0
    <3>1. d = 0
      BY <2>0, <2>2, <2>3, <2>5 DEF NoTimeout
    <3>2. due'[l] = 0 /\ left'[l] = 0
      BY <2>0, <2>1, <2>5, <3>1 DEF NoTimeout
    <3>. QED  BY <2>0, <2>3, <3>2 DEF NoTimeout, n
  <2>6. CASE d # NoTimeout /\ x > 0
    <3>1. left'[l] * n = x * n - n
      BY <2>1, <2>3, <2>6
    <3>2. CASE d > n
      BY <2>0, <2>1, <2>2, <2>3, <2>6, <3>1, <3>2 DEF NoTimeout, n
    <3>3. CASE d <= n
      <4>1. due'[l] = 0
        BY <2>0, <2>1, <2>6, <3>3 DEF NoTimeout
      <4>2. x <= 2
        <5>1. x * n < 3 * n
          BY <2>0, <2>2, <2>3, <2>6, <3>3
        <5>2. x < 3
          BY <2>0, <5>1, Monotonic
        <5>. QED  BY <2>0, <5>2
      <4>3. x * n - n >= 0 /\ x * n - n <= n
        <5>1. x = 1 \/ x = 2
          BY <2>0, <2>6, <4>2
        <5>. QED  BY <2>0, <5>1
      <4>. QED  BY <2>0, <2>3, <3>1, <4>1, <4>3 DEF NoTimeout, n
    <3>. QED  BY <2>0, <3>2, <3>3
  <2>. QED  BY <2>0, <2>4, <2>5, <2>6
<1>. QED  BY <1>3, <1>4 DEF UserInv, RequestsFit

(* The main lock, the expiry timer and the suspend thread do nothing to the *)
(* locks of processes.                                                      *)
LEMMA ManagerSteps ==
    ASSUME UserInv, UNCHANGED <<store, due>>,
           \/ MainStep \/ TimerFires \/ expire_wake_locks \/ run_workqueue
           \/ SuspendWork \/ pm_suspend_asks \/ pm_suspend_returns \/ UNCHANGED wakelockVars
    PROVE  UserInv'
<1>0. /\ WakelockTypeOK /\ left \in [Locks -> 0..MaxTimeout]
      /\ \A l \in Clients : l \in Locks /\ l # main_wake_lock /\ l # unknown_wakeup
  BY DEF UserInv, UserTypeOK, WakelockTypeOK, Clients
<1>1. WakelockTypeOK'
  BY <1>0, WakelockTypeNext DEF WakelockNext
<1>2. /\ \A l \in Clients : left'[l] = left[l]
      /\ \A l \in Clients : l \in Permanent => l \in Permanent'
  <2>1. CASE wake_lock(main_wake_lock)
    BY <1>0, <2>1 DEF wake_lock, Permanent
  <2>2. CASE wake_unlock(main_wake_lock)
    BY <1>0, <2>2 DEF wake_unlock, Collect, Expired, Permanent
  <2>3. ASSUME NEW r, has_wake_lock(r) PROVE left' = left /\ Permanent' = Permanent
    BY <2>3 DEF has_wake_lock, Collect, Expired, Permanent
  <2>4. CASE wake_lock_timeout(unknown_wakeup, UnknownTimeout)
    BY <1>0, <2>4 DEF wake_lock_timeout, Collect, Expired, Permanent
  <2>5. CASE UNCHANGED <<active, auto, left>>
    BY <2>5 DEF Permanent
  <2>. QED  BY <2>1, <2>2, <2>3, <2>4, <2>5
            DEF MainStep, TimerFires, expire_wake_locks, run_workqueue, SuspendWork,
                suspend_check, suspend_entry, suspend_exit, suspend_unknown,
                pm_suspend_asks, pm_suspend_returns, wakelockVars
<1>. QED  BY <1>1, <1>2, KeptFrame

----------------------------------------------------------------------------
(* Nobody has asked for a lock.                                             *)
LEMMA UserInvInit == UserInit => UserInv
<1> SUFFICES ASSUME UserInit PROVE UserInv
  OBVIOUS
<1>0. WakelockTypeOK /\ \A l \in Clients : left[l] = 0 /\ due[l] = 0
  BY WakelockTypeInit DEF UserInit, WakelockInit, Clients
<1>1. UserTypeOK
  BY <1>0, UserConstants DEF UserInit, UserTypeOK
<1>2. KeptInv
  BY <1>0, UserConstants DEF KeptInv, NoTimeout
<1>. QED  BY <1>1, <1>2 DEF UserInv

(* Every step preserves the invariant.                                      *)
LEMMA UserInvNext == UserInv /\ [UserNext]_userVars => UserInv'
<1> SUFFICES ASSUME UserInv, [UserNext]_userVars PROVE UserInv'
  OBVIOUS
<1>1. ASSUME NEW l \in Clients, NEW ns \in Requests \cup {NoTimeout},
             lookup_wake_lock_name(l, ns)
      PROVE  UserInv'
  BY <1>1, LookupStep
<1>2. CASE wake_lock_store
  BY <1>2, StoreStep
<1>3. ASSUME NEW l \in Clients, wake_unlock_store(l) PROVE UserInv'
  BY <1>3, UnlockStoreStep
<1>4. CASE UserTick
  BY <1>4, UserTickStep
<1>5. CASE /\ \/ MainStep \/ TimerFires \/ expire_wake_locks \/ run_workqueue
              \/ SuspendWork \/ pm_suspend_asks \/ pm_suspend_returns
           /\ UNCHANGED <<store, due>>
  BY <1>5, ManagerSteps
<1>6. CASE UNCHANGED userVars
  BY <1>6, ManagerSteps DEF userVars
<1>. QED  BY <1>1, <1>2, <1>3, <1>4, <1>5, <1>6 DEF UserNext

(* Whatever timeout a process writes, wrapped around and cut off as it may  *)
(* be, the wake lock manager gets one that it can take.                     *)
THEOREM UserTypeCorrect == UserSpec => []UserTypeOK
<1>1. UserInv => UserTypeOK
  BY DEF UserInv
<1>. QED  BY <1>1, UserInvInit, UserInvNext, PTL DEF UserSpec

(* If the requests fit, a process has the lock for as long as it asked for, *)
(* and for less than a jiffy more, or for the first jiffy.                  *)
THEOREM UserTimeoutIsKept == UserSpec => [](RequestsFit => UserTimeoutKept)
<1>1. UserInv => (RequestsFit => UserTimeoutKept)
  <2> SUFFICES ASSUME UserInv, RequestsFit, NEW l \in Clients
               PROVE  /\ due[l] = NoTimeout => l \in Permanent
                      /\ due[l] > 0 => l \in Held
                      /\ l \in Held /\ due[l] # NoTimeout =>
                            left[l] * NsecPerJiffy <= due[l] + NsecPerJiffy
    BY DEF UserTimeoutKept
  <2>1. /\ due[l] = NoTimeout => l \in Permanent
        /\ due[l] # NoTimeout => /\ due[l] <= left[l] * NsecPerJiffy
                                 /\ left[l] * NsecPerJiffy <= due[l] + NsecPerJiffy
    BY DEF UserInv, KeptInv
  <2>2. /\ left[l] \in Nat /\ due[l] \in Int /\ NsecPerJiffy \in Nat
        /\ l \notin auto => left[l] = 0
        /\ auto \subseteq active
    BY UserConstants DEF UserInv, UserTypeOK, WakelockTypeOK, Clients
  <2>3. ASSUME due[l] > 0 PROVE l \in Held
    <3>1. left[l] # 0
      <4>1. due[l] # NoTimeout
        BY <2>2, <2>3 DEF NoTimeout
      <4>2. 0 * NsecPerJiffy = 0
        BY <2>2
      <4>. QED  BY <2>1, <2>2, <2>3, <4>1, <4>2
    <3>2. left[l] > 0 /\ l \in active
      BY <2>2, <3>1
    <3>. QED  BY <3>2 DEF Held, HeldIn
  <2>. QED  BY <2>1, <2>3
<1>. QED  BY <1>1, UserInvInit, UserInvNext, PTL DEF UserSpec
=============================================================================
