-------------------------- MODULE SuspendCoreProofs --------------------------
(***************************************************************************)
(* Proofs about modules EarlySuspend and SuspendCore, for any handlers,     *)
(* levels, locks and writers of /sys/power/state.                           *)
(*                                                                          *)
(* First module EarlySuspend by itself.  Its properties are inductive       *)
(* together: the main lock is down only when the handlers are dark because  *)
(* the two loops leave the handlers as the flag SUSPENDED says, and they do *)
(* that because the list holds every handler once and changes in no loop.   *)
(*                                                                          *)
(* Then the whole suspend path: what a stage of pm_suspend has taken down   *)
(* is a function of the stage, and nothing that could take the main lock or *)
(* a user's lock runs between the last check and sleep.                     *)
(***************************************************************************)
EXTENDS SuspendCore, WakelockProofs, SequenceTheorems

----------------------------------------------------------------------------
(* What no call of another lock, no jiffy and no question touches: the main *)
(* lock has no timeout and stays as it is.                                  *)
MainKept == main_wake_lock \notin auto' /\ (main_wake_lock \in active' <=> main_wake_lock \in active)

(* A walk of has_wake_lock_locked does not expire the main lock.            *)
LEMMA CollectKeepsMain ==
    ASSUME NEW a, NEW e, NEW lf, Collect(a, e, lf), main_wake_lock \notin e
    PROVE  /\ main_wake_lock \notin auto'
           /\ main_wake_lock \in active' <=> main_wake_lock \in a
  BY DEF Collect, Expired

(* Any operation on another lock leaves the main lock alone.                *)
LEMMA ClientKeepsMain ==
    ASSUME main_wake_lock \notin auto, NEW l \in Clients, ClientStep(l)
    PROVE  MainKept
<1>0. l # main_wake_lock
  BY DEF Clients
<1>1. CASE wake_lock(l)
  BY <1>0, <1>1 DEF wake_lock, MainKept
<1>2. ASSUME NEW t \in 0..MaxTimeout, wake_lock_timeout(l, t) PROVE MainKept
  BY <1>0, <1>2, CollectKeepsMain DEF wake_lock_timeout, MainKept
<1>3. CASE wake_unlock(l)
  BY <1>0, <1>3, CollectKeepsMain DEF wake_unlock, MainKept
<1>4. CASE wake_lock_init(l) \/ wake_lock_destroy(l)
  BY <1>0, <1>4 DEF wake_lock_init, wake_lock_destroy, MainKept
<1>. QED  BY <1>1, <1>2, <1>3, <1>4 DEF ClientStep

(* So does what the wake lock manager does by itself.                       *)
LEMMA ManagerKeepsMain ==
    ASSUME main_wake_lock \notin auto,
           \/ Tick \/ TimerFires \/ expire_wake_locks \/ run_workqueue
           \/ SuspendWork \/ pm_suspend_asks \/ pm_suspend_returns
    PROVE  MainKept
<1>1. ASSUME NEW r, has_wake_lock(r) PROVE MainKept
  BY <1>1, CollectKeepsMain DEF has_wake_lock, MainKept
<1>2. CASE expire_wake_locks \/ suspend_check \/ pm_suspend_asks
  BY <1>1, <1>2 DEF expire_wake_locks, suspend_check, pm_suspend_asks
<1>3. CASE suspend_unknown
  BY <1>3, CollectKeepsMain, WakelockAssumption
  DEF suspend_unknown, wake_lock_timeout, MainKept
<1>4. CASE \/ Tick \/ TimerFires \/ run_workqueue \/ suspend_entry \/ suspend_exit
           \/ pm_suspend_returns
  BY <1>4 DEF Tick, TimerFires, run_workqueue, suspend_entry, suspend_exit,
              pm_suspend_returns, MainKept
<1>. QED  BY <1>2, <1>3, <1>4 DEF SuspendWork

----------------------------------------------------------------------------
\* The list holds no handler twice and is sorted by level.
ListDistinct ==
    \A i, j \in 1..Len(handlers) : handlers[i] = handlers[j] => i = j
ListSorted ==
    \A i, j \in 1..Len(handlers) : i < j => Level[handlers[i]] <= Level[handlers[j]]

\* The two ways the list changes.
Inserted(s, k, x) == SubSeq(s, 1, k - 1) \o <<x>> \o SubSeq(s, k, Len(s))
Without(s, k) == SubSeq(s, 1, k - 1) \o SubSeq(s, k + 1, Len(s))

(* Concatenation, element by element.                                       *)
LEMMA Joined ==
    ASSUME NEW S, NEW p \in Seq(S), NEW q \in Seq(S)
    PROVE  /\ p \o q \in Seq(S)
           /\ Len(p \o q) = Len(p) + Len(q)
           /\ \A i \in 1..Len(p) : (p \o q)[i] = p[i]
           /\ \A i \in 1..Len(q) : (p \o q)[Len(p) + i] = q[i]
<1>1. p \o q \in Seq(S)
  OBVIOUS
<1>2. Len(p \o q) = Len(p) + Len(q)
  OBVIOUS
<1>3. ASSUME NEW i \in 1..Len(p) PROVE (p \o q)[i] = p[i]
  OBVIOUS
<1>4. ASSUME NEW i \in 1..Len(q) PROVE (p \o q)[Len(p) + i] = q[i]
  OBVIOUS
<1>. QED  BY <1>1, <1>2, <1>3, <1>4

(* Insertion before position k, element by element.                         *)
LEMMA InsertAt ==
    ASSUME NEW S, NEW s \in Seq(S), NEW x \in S, NEW k \in 1..(Len(s) + 1)
    PROVE  /\ Inserted(s, k, x) \in Seq(S)
           /\ Len(Inserted(s, k, x)) = Len(s) + 1
           /\ \A i \in 1..(Len(s) + 1) : Inserted(s, k, x)[i] =
                 IF i < k THEN s[i] ELSE IF i = k THEN x ELSE s[i - 1]
<1>1. PICK p : p = SubSeq(s, 1, k - 1)
  OBVIOUS
<1>2. PICK q : q = SubSeq(s, k, Len(s))
  OBVIOUS
<1>3. PICK one : one = <<x>>
  OBVIOUS
<1>4. p \in Seq(S) /\ Len(p) = k - 1 /\ \A i \in 1..(k - 1) : p[i] = s[i]
  BY <1>1
<1>5. q \in Seq(S) /\ Len(q) = Len(s) + 1 - k
        /\ \A i \in 1..(Len(s) + 1 - k) : q[i] = s[k + i - 1]
  BY <1>2
<1>6. one \in Seq(S) /\ Len(one) = 1 /\ one[1] = x
  BY <1>3
<1>7. PICK px : px = p \o one
  OBVIOUS
<1>8. PICK t : t = px \o q
  OBVIOUS
<1>9. /\ px \in Seq(S)
      /\ Len(px) = Len(p) + Len(one)
      /\ \A i \in 1..Len(p) : px[i] = p[i]
      /\ \A i \in 1..Len(one) : px[Len(p) + i] = one[i]
  <2>1. p \in Seq(S) /\ one \in Seq(S)
    BY <1>4, <1>6
  <2>. QED  BY <2>1, <1>7, Joined
<1>10. px \in Seq(S) /\ Len(px) = k /\ px[k] = x /\ \A i \in 1..(k - 1) : px[i] = s[i]
  BY <1>4, <1>6, <1>9
<1>11. /\ t \in Seq(S)
       /\ Len(t) = Len(px) + Len(q)
       /\ \A i \in 1..Len(px) : t[i] = px[i]
       /\ \A i \in 1..Len(q) : t[Len(px) + i] = q[i]
  <2>1. px \in Seq(S) /\ q \in Seq(S)
    BY <1>5, <1>10
  <2>. QED  BY <2>1, <1>8, Joined
<1>12. ASSUME NEW i \in 1..(Len(s) + 1)
      PROVE  t[i] = IF i < k THEN s[i] ELSE IF i = k THEN x ELSE s[i - 1]
  <2>1. CASE i < k
    BY <1>10, <1>11, <2>1
  <2>2. CASE i = k
    BY <1>10, <1>11, <2>2
  <2>3. CASE i > k
    <3>1. i - k \in 1..(Len(s) + 1 - k) /\ k + (i - k) = i /\ k + (i - k) - 1 = i - 1
      BY <2>3
    <3>2. t[k + (i - k)] = q[i - k]
      BY <1>5, <1>10, <1>11, <3>1
    <3>3. q[i - k] = s[k + (i - k) - 1]
      BY <1>5, <3>1
    <3>. QED  BY <3>1, <3>2, <3>3, <2>3
  <2>. QED  BY <2>1, <2>2, <2>3
<1>13. Len(t) = Len(s) + 1
  BY <1>5, <1>10, <1>11
<1>14. t = Inserted(s, k, x)
  BY <1>1, <1>2, <1>3, <1>7, <1>8, Zenon DEF Inserted
<1>. QED  BY <1>11, <1>12, <1>13, <1>14, Zenon

(* Removal of position k, element by element.                               *)
LEMMA RemoveFrom ==
    ASSUME NEW S, NEW s \in Seq(S), NEW k \in 1..Len(s)
    PROVE  /\ Without(s, k) \in Seq(S)
           /\ Len(Without(s, k)) = Len(s) - 1
           /\ \A i \in 1..(Len(s) - 1) : Without(s, k)[i] = IF i < k THEN s[i] ELSE s[i + 1]
<1> DEFINE p == SubSeq(s, 1, k - 1)
           q == SubSeq(s, k + 1, Len(s))
           t == p \o q
<1>1. p \in Seq(S) /\ Len(p) = k - 1 /\ \A i \in 1..(k - 1) : p[i] = s[i]
  OBVIOUS
<1>2. q \in Seq(S) /\ Len(q) = Len(s) - k
        /\ \A i \in 1..(Len(s) - k) : q[i] = s[k + i]
  OBVIOUS
<1> HIDE DEF p, q
<1>4. /\ t \in Seq(S)
      /\ Len(t) = Len(s) - 1
      /\ \A i \in 1..(Len(s) - 1) : t[i] = IF i <= k - 1 THEN p[i] ELSE q[i - (k - 1)]
  BY <1>1, <1>2, ConcatProperties
<1> HIDE DEF t
<1>5. ASSUME NEW i \in 1..(Len(s) - 1) PROVE t[i] = IF i < k THEN s[i] ELSE s[i + 1]
  <2>1. CASE i < k
    BY <1>1, <1>4, <2>1
  <2>2. CASE i >= k
    BY <1>2, <1>4, <2>2
  <2>. QED  BY <2>1, <2>2
<1>6. t = Without(s, k)
  BY DEF t, p, q, Without
<1>. QED  BY <1>4, <1>5, <1>6

(* A newly registered handler is in the list once, at a place that keeps    *)
(* the list sorted.                                                         *)
LEMMA RegisterList ==
    ASSUME EarlyTypeOK, ListDistinct, ListSorted, NEW h \in Handlers,
           register_early_suspend(h)
    PROVE  /\ handlers' \in Seq(Handlers)
           /\ Registered' = Registered \cup {h}
           /\ ListDistinct' /\ ListSorted'
<1>0. handlers \in Seq(Handlers) /\ h \notin Registered
  BY DEF EarlyTypeOK, register_early_suspend
<1>1. PICK k \in 1..(Len(handlers) + 1) :
         /\ IsInsertPosition(k, h)
         /\ handlers' = Inserted(handlers, k, h)
  BY DEF register_early_suspend, Inserted
<1>2. /\ handlers' \in Seq(Handlers)
      /\ Len(handlers') = Len(handlers) + 1
      /\ \A i \in 1..(Len(handlers) + 1) :
            handlers'[i] = IF i < k THEN handlers[i] ELSE IF i = k THEN h
                           ELSE handlers[i - 1]
  <2>1. handlers \in Seq(Handlers) /\ k \in 1..(Len(handlers) + 1)
    BY <1>0
  <2>2. Inserted(handlers, k, h) \in Seq(Handlers)
    BY <2>1, InsertAt
  <2>3. Len(Inserted(handlers, k, h)) = Len(handlers) + 1
    BY <2>1, InsertAt
  <2>4. ASSUME NEW i \in 1..(Len(handlers) + 1)
        PROVE  Inserted(handlers, k, h)[i] =
                 IF i < k THEN handlers[i] ELSE IF i = k THEN h ELSE handlers[i - 1]
    BY <2>1, InsertAt
  <2>. QED  BY <1>1, <2>2, <2>3, <2>4
<1>3. Registered' = Registered \cup {h}
  <2>1. ASSUME NEW i \in 1..Len(handlers') PROVE handlers'[i] \in Registered \cup {h}
    <3>1. CASE i < k
      BY <1>0, <1>2, <3>1 DEF Registered
    <3>2. CASE i = k
      BY <1>0, <1>2, <3>2
    <3>3. CASE i > k
      <4>1. i - 1 \in 1..Len(handlers) /\ handlers'[i] = handlers[i - 1]
        BY <1>0, <1>2, <3>3
      <4>. QED  BY <4>1 DEF Registered
    <3>. QED  BY <3>1, <3>2, <3>3, <1>0, <1>2
  <2>2. h \in Registered'
    BY <1>0, <1>2 DEF Registered
  <2>3. ASSUME NEW i \in 1..Len(handlers) PROVE handlers[i] \in Registered'
    <3>1. CASE i < k
      BY <1>0, <1>2, <3>1 DEF Registered
    <3>2. CASE i >= k
      <4>1. i + 1 \in 1..Len(handlers') /\ handlers'[i + 1] = handlers[i]
        BY <1>0, <1>2, <3>2
      <4>. QED  BY <4>1 DEF Registered
    <3>. QED  BY <3>1, <3>2, <1>0
  <2>. QED  BY <2>1, <2>2, <2>3 DEF Registered
<1>4. ListDistinct'
  <2> SUFFICES ASSUME NEW i \in 1..Len(handlers'), NEW j \in 1..Len(handlers'), i < j
               PROVE  handlers'[i] # handlers'[j]
    BY <1>2 DEF ListDistinct
  <2>1. \A m \in 1..Len(handlers) : handlers[m] # h
    BY <1>0 DEF Registered
  <2>2. CASE j < k
    BY <1>0, <1>2, <2>2 DEF ListDistinct
  <2>3. CASE j = k
    BY <1>0, <1>2, <2>1, <2>3
  <2>4. CASE j > k
    <3>1. handlers'[j] = handlers[j - 1] /\ j - 1 \in 1..Len(handlers)
      BY <1>0, <1>2, <2>4
    <3>2. CASE i = k
      BY <1>0, <1>2, <2>1, <3>1, <3>2
    <3>3. CASE i < k
      BY <1>0, <1>2, <2>4, <3>1, <3>3 DEF ListDistinct
    <3>4. CASE i > k
      <4>1. handlers'[i] = handlers[i - 1] /\ i - 1 \in 1..Len(handlers) /\ i - 1 < j - 1
        BY <1>0, <1>2, <3>4
      <4>. QED  BY <3>1, <4>1 DEF ListDistinct
    <3>. QED  BY <3>2, <3>3, <3>4, <1>0
  <2>. QED  BY <2>2, <2>3, <2>4, <1>0, <1>2
<1>5. ListSorted'
  <2> SUFFICES ASSUME NEW i \in 1..Len(handlers'), NEW j \in 1..Len(handlers'), i < j
               PROVE  Level[handlers'[i]] <= Level[handlers'[j]]
    BY DEF ListSorted
  <2>1. \A m \in 1..Len(handlers) : Level[handlers[m]] \in Int
    BY <1>0, EarlySuspendAssumption
  <2>2. Level[h] \in Int
    BY EarlySuspendAssumption
  <2>3. CASE j < k
    BY <1>0, <1>2, <2>3 DEF ListSorted
  <2>4. CASE j = k
    BY <1>0, <1>1, <1>2, <2>4 DEF IsInsertPosition
  <2>5. CASE j > k
    <3>1. handlers'[j] = handlers[j - 1] /\ j - 1 \in 1..Len(handlers)
            /\ k \in 1..Len(handlers)
      BY <1>0, <1>2, <2>5
    <3>2. Level[handlers[k]] > Level[h] /\ Level[handlers[k]] <= Level[handlers[j - 1]]
      BY <1>0, <1>1, <2>1, <2>5, <3>1 DEF IsInsertPosition, ListSorted
    <3>3. CASE i < k
      BY <1>0, <1>2, <2>5, <3>1, <3>3 DEF ListSorted
    <3>4. CASE i = k
      <4>1. handlers'[i] = h
        BY <1>0, <1>2, <3>4
      <4>2. Level[handlers[k]] \in Int /\ Level[handlers[j - 1]] \in Int
        BY <2>1, <3>1
      <4>. QED  BY <2>2, <3>1, <3>2, <4>1, <4>2
    <3>5. CASE i > k
      <4>1. handlers'[i] = handlers[i - 1] /\ i - 1 \in 1..Len(handlers) /\ i - 1 < j - 1
        BY <1>0, <1>2, <3>5
      <4>. QED  BY <3>1, <4>1 DEF ListSorted
    <3>. QED  BY <3>3, <3>4, <3>5, <1>0
  <2>. QED  BY <2>3, <2>4, <2>5, <1>0, <1>2
<1>. QED  BY <1>2, <1>3, <1>4, <1>5

(* Unregistering takes the handler off the list, all of it.                 *)
LEMMA UnregisterList ==
    ASSUME EarlyTypeOK, ListDistinct, ListSorted, NEW h \in Handlers,
           unregister_early_suspend(h)
    PROVE  /\ handlers' \in Seq(Handlers)
           /\ Registered' = Registered \ {h}
           /\ ListDistinct' /\ ListSorted'
<1>0. handlers \in Seq(Handlers)
  BY DEF EarlyTypeOK
<1>1. PICK k \in 1..Len(handlers) :
         /\ handlers[k] = h
         /\ handlers' = Without(handlers, k)
  BY DEF unregister_early_suspend, Without
<1>2. /\ handlers' \in Seq(Handlers)
      /\ Len(handlers') = Len(handlers) - 1
      /\ \A i \in 1..(Len(handlers) - 1) :
            handlers'[i] = IF i < k THEN handlers[i] ELSE handlers[i + 1]
  BY <1>0, <1>1, RemoveFrom
<1>3. Registered' = Registered \ {h}
  <2>1. Registered' \subseteq Registered \ {h}
    <3> SUFFICES ASSUME NEW i \in 1..Len(handlers')
                 PROVE  handlers'[i] \in Registered /\ handlers'[i] # h
      BY DEF Registered
    <3>1. CASE i < k
      <4>1. i \in 1..Len(handlers) /\ handlers'[i] = handlers[i] /\ i # k
        BY <1>0, <1>2, <3>1
      <4>. QED  BY <1>1, <4>1 DEF Registered, ListDistinct
    <3>2. CASE i >= k
      <4>1. i + 1 \in 1..Len(handlers) /\ handlers'[i] = handlers[i + 1] /\ i + 1 # k
        BY <1>0, <1>2, <3>2
      <4>. QED  BY <1>1, <4>1 DEF Registered, ListDistinct
    <3>. QED  BY <3>1, <3>2, <1>0, <1>2
  <2>2. ASSUME NEW i \in 1..Len(handlers), handlers[i] # h
        PROVE  handlers[i] \in Registered'
    <3>1. CASE i < k
      BY <1>0, <1>2, <3>1 DEF Registered
    <3>2. CASE i > k
      <4>1. i - 1 \in 1..Len(handlers') /\ handlers'[i - 1] = handlers[i]
        BY <1>0, <1>2, <3>2
      <4>. QED  BY <4>1 DEF Registered
    <3>. QED  BY <3>1, <3>2, <1>0, <1>1, <2>2
  <2>. QED  BY <2>1, <2>2 DEF Registered
<1>4. ASSUME NEW i \in 1..Len(handlers'), NEW j \in 1..Len(handlers'), i < j
      PROVE  \E p, q \in 1..Len(handlers) :
                p < q /\ handlers'[i] = handlers[p] /\ handlers'[j] = handlers[q]
  <2>0. i \in 1..(Len(handlers) - 1) /\ j \in 1..(Len(handlers) - 1) /\ Len(handlers) \in Nat
    BY <1>0, <1>2
  <2>1. CASE j < k
    BY <1>2, <1>4, <2>0, <2>1
  <2>2. CASE i < k /\ j >= k
    <3>1. /\ i \in 1..Len(handlers) /\ j + 1 \in 1..Len(handlers) /\ i < j + 1
          /\ handlers'[i] = handlers[i] /\ handlers'[j] = handlers[j + 1]
      BY <1>2, <1>4, <2>0, <2>2
    <3>. QED  BY <3>1
  <2>3. CASE i >= k
    <3>1. /\ i + 1 \in 1..Len(handlers) /\ j + 1 \in 1..Len(handlers) /\ i + 1 < j + 1
          /\ handlers'[i] = handlers[i + 1] /\ handlers'[j] = handlers[j + 1]
      BY <1>2, <1>4, <2>0, <2>3
    <3>. QED  BY <3>1
  <2>. QED  BY <2>0, <2>1, <2>2, <2>3
<1>5. ListDistinct' /\ ListSorted'
  <2> SUFFICES ASSUME NEW i \in 1..Len(handlers'), NEW j \in 1..Len(handlers'), i < j
               PROVE  /\ handlers'[i] # handlers'[j]
                      /\ Level[handlers'[i]] <= Level[handlers'[j]]
    BY <1>2 DEF ListDistinct, ListSorted
  <2>1. PICK p, q \in 1..Len(handlers) :
           p < q /\ handlers'[i] = handlers[p] /\ handlers'[j] = handlers[q]
    BY <1>4
  <2>. QED  BY <2>1 DEF ListDistinct, ListSorted
<1>. QED  BY <1>2, <1>3, <1>5

----------------------------------------------------------------------------
\* The cursor stays in the list; the main lock is held in the first loop, and
\* the flag SUSPENDED says which of the two loops is under way.
LoopInv ==
    /\ worker = "es_call" =>
          /\ "SUSPENDED" \in state
          /\ main_wake_lock \in active
          /\ pos \in 1..(Len(handlers) + 1)
    /\ worker = "lr_call" => "SUSPENDED" \notin state /\ pos \in 0..Len(handlers)

\* The inductive invariant.
EarlyInv ==
    /\ EarlyTypeOK
    /\ main_wake_lock \notin auto
    /\ ListDistinct
    /\ ListSorted
    /\ LoopInv
    /\ HandlersFollowState
    /\ MainDownOnlyWhenDark

InLoop == worker \in {"es_call", "lr_call"}

(* At boot the main lock is held, no handler is registered and none is off. *)
LEMMA EarlyInvInit == EarlyInit => EarlyInv
<1> SUFFICES ASSUME EarlyInit PROVE EarlyInv
  OBVIOUS
<1>1. WakelockTypeOK
  BY WakelockTypeInit DEF EarlyInit
<1>2. /\ worker = "idle" /\ handlers = <<>> /\ off = {} /\ state = {}
      /\ main_wake_lock \in active /\ auto = {}
  BY DEF EarlyInit, WakelockInit
<1>3. EarlyTypeOK
  BY <1>1, <1>2 DEF EarlyInit, EarlyTypeOK, Requests
<1>4. HandlersFollowState
  BY <1>2 DEF HandlersFollowState
<1>. QED  BY <1>2, <1>3, <1>4 DEF EarlyInv, ListDistinct, ListSorted, LoopInv,
                                  MainDownOnlyWhenDark

(* A step of the wake lock manager, of its clients or of pm_suspend touches *)
(* neither the main lock nor this layer, and is in no loop over the list.   *)
LEMMA EarlyQuiet ==
    ASSUME EarlyInv, WakelockTypeOK', MainKept, UNCHANGED earlyVars,
           worker' = worker \/ (~InLoop /\ ~InLoop')
    PROVE  EarlyInv'
<1>0. /\ state' = state /\ requested' = requested /\ handlers' = handlers
      /\ off' = off /\ pos' = pos /\ Registered' = Registered
  BY DEF earlyVars, Registered
<1>1. EarlyTypeOK'
  BY <1>0 DEF EarlyInv, EarlyTypeOK
<1>2. ListDistinct' /\ ListSorted'
  BY <1>0 DEF EarlyInv, ListDistinct, ListSorted
<1>3. LoopInv'
  BY <1>0 DEF EarlyInv, LoopInv, MainKept, InLoop
<1>4. HandlersFollowState'
  BY <1>0 DEF EarlyInv, HandlersFollowState, InLoop
<1>5. MainDownOnlyWhenDark'
  BY <1>0 DEF EarlyInv, MainDownOnlyWhenDark, MainKept
<1>. QED  BY <1>1, <1>2, <1>3, <1>4, <1>5 DEF EarlyInv, MainKept

(* Registering a handler: it is suspended at once if the others are.        *)
LEMMA RegisterInv ==
    ASSUME EarlyInv, NEW h \in Handlers, register_early_suspend(h)
    PROVE  EarlyInv'
<1>1. /\ handlers' \in Seq(Handlers)
      /\ Registered' = Registered \cup {h}
      /\ ListDistinct' /\ ListSorted'
  BY RegisterList DEF EarlyInv
<1>2. /\ UNCHANGED wakelockVars /\ state' = state /\ requested' = requested
      /\ pos' = pos /\ worker \notin {"es_call", "lr_call"}
      /\ off' = IF "SUSPENDED" \in state THEN off \cup {h} ELSE off
  BY DEF register_early_suspend, MutexFree
<1>3. WakelockTypeOK' /\ worker' = worker /\ active' = active /\ auto' = auto
  BY <1>2 DEF EarlyInv, EarlyTypeOK, WakelockTypeOK, wakelockVars
<1>4. EarlyTypeOK'
  BY <1>1, <1>2, <1>3 DEF EarlyInv, EarlyTypeOK
<1>5. HandlersFollowState'
  BY <1>1, <1>2, <1>3 DEF EarlyInv, HandlersFollowState
<1>6. MainDownOnlyWhenDark'
  BY <1>1, <1>2, <1>3 DEF EarlyInv, MainDownOnlyWhenDark, StateFlags
<1>. QED  BY <1>1, <1>2, <1>3, <1>4, <1>5, <1>6 DEF EarlyInv, LoopInv

(* Unregistering a handler, on or off.                                      *)
LEMMA UnregisterInv ==
    ASSUME EarlyInv, NEW h \in Handlers, unregister_early_suspend(h)
    PROVE  EarlyInv'
<1>1. /\ handlers' \in Seq(Handlers)
      /\ Registered' = Registered \ {h}
      /\ ListDistinct' /\ ListSorted'
  BY UnregisterList DEF EarlyInv
<1>2. /\ UNCHANGED wakelockVars /\ state' = state /\ requested' = requested
      /\ pos' = pos /\ worker \notin {"es_call", "lr_call"}
      /\ off' = off \ {h}
  BY DEF unregister_early_suspend, MutexFree
<1>3. WakelockTypeOK' /\ worker' = worker /\ active' = active /\ auto' = auto
  BY <1>2 DEF EarlyInv, EarlyTypeOK, WakelockTypeOK, wakelockVars
<1>4. EarlyTypeOK'
  BY <1>1, <1>2, <1>3 DEF EarlyInv, EarlyTypeOK
<1>5. HandlersFollowState'
  BY <1>1, <1>2, <1>3 DEF EarlyInv, HandlersFollowState
<1>6. MainDownOnlyWhenDark'
  BY <1>1, <1>2, <1>3 DEF EarlyInv, MainDownOnlyWhenDark
<1>. QED  BY <1>1, <1>2, <1>3, <1>4, <1>5, <1>6 DEF EarlyInv, LoopInv

(* A request changes one flag; one to wake takes the main lock.             *)
LEMMA RequestInv ==
    ASSUME EarlyInv, NEW s \in Requests, request_suspend_state(s)
    PROVE  EarlyInv'
<1>0. /\ worker' = worker /\ handlers' = handlers /\ off' = off /\ pos' = pos
      /\ requested' = s /\ Registered' = Registered
  BY DEF request_suspend_state, Registered
<1>1. /\ WakelockTypeOK' /\ state' \subseteq StateFlags /\ main_wake_lock \notin auto'
      /\ "SUSPENDED" \in state' <=> "SUSPENDED" \in state
      /\ main_wake_lock \in active => main_wake_lock \in active'
      /\ main_wake_lock \in active' \/ (state' = state /\ active' = active)
  <2>1. CASE /\ "SUSPEND_REQUESTED" \notin state
             /\ state' = state \cup {"SUSPEND_REQUESTED"}
             /\ queue_work("early_suspend")
             /\ UNCHANGED <<inited, active, auto, left, preventing, expire_timer,
                            timer_fired, moved>>
    <3>1. workq' \in Seq(Works)
      BY <2>1, QueueWork DEF EarlyInv, EarlyTypeOK, WakelockTypeOK, Works
    <3>2. main_wake_lock \in active
      BY <2>1 DEF EarlyInv, MainDownOnlyWhenDark, StateFlags
    <3>3. WakelockTypeOK'
      BY <1>0, <2>1, <3>1 DEF EarlyInv, EarlyTypeOK, WakelockTypeOK
    <3>. QED  BY <2>1, <3>2, <3>3 DEF EarlyInv, EarlyTypeOK, StateFlags
  <2>2. CASE /\ state' = state \ {"SUSPEND_REQUESTED"}
             /\ wake_lock(main_wake_lock)
             /\ queue_work("late_resume")
    <3>1. workq' \in Seq(Works) /\ worker' \in WorkerStages
      BY <1>0, <2>2, QueueWork DEF EarlyInv, EarlyTypeOK, WakelockTypeOK, Works
    <3>2. WakelockTypeOK'
      BY <2>2, <3>1, LockType, WakelockAssumption DEF EarlyInv, EarlyTypeOK
    <3>. QED  BY <2>2, <3>2 DEF EarlyInv, EarlyTypeOK, wake_lock
  <2>3. CASE UNCHANGED <<state, inited, active, auto, left, preventing,
                         expire_timer, timer_fired, workq, moved>>
    BY <1>0, <2>3 DEF EarlyInv, EarlyTypeOK, WakelockTypeOK
  <2>. QED  BY <2>1, <2>2, <2>3 DEF request_suspend_state
<1>2. EarlyTypeOK'
  BY <1>0, <1>1 DEF EarlyInv, EarlyTypeOK
<1>3. ListDistinct' /\ ListSorted'
  BY <1>0 DEF EarlyInv, ListDistinct, ListSorted
<1>4. LoopInv'
  BY <1>0, <1>1 DEF EarlyInv, LoopInv
<1>5. HandlersFollowState'
  BY <1>0, <1>1 DEF EarlyInv, HandlersFollowState
<1>6. MainDownOnlyWhenDark'
  BY <1>0, <1>1 DEF EarlyInv, MainDownOnlyWhenDark
<1>. QED  BY <1>1, <1>2, <1>3, <1>4, <1>5, <1>6 DEF EarlyInv

(* The steps of early_suspend and late_resume.                              *)
LEMMA EarlyWorkInv ==
    ASSUME EarlyInv, EarlyWork
    PROVE  EarlyInv'
<1> USE DEF EarlyInv
<1>0. handlers \in Seq(Handlers) /\ pos \in Nat /\ off \subseteq Handlers
  BY DEF EarlyTypeOK
<1>1. CASE early_suspend_begin
  <2>0. /\ worker = "early_suspend"
        /\ UNCHANGED <<inited, active, auto, left, preventing, expire_timer,
                       timer_fired, workq, moved, requested, handlers, off>>
    BY <1>1 DEF early_suspend_begin
  <2>1. CASE state = {"SUSPEND_REQUESTED"}
    <3>1. state' = StateFlags /\ worker' = "es_call" /\ pos' = 1
      BY <1>1, <2>1 DEF early_suspend_begin
    <3>2. main_wake_lock \in active'
      BY <2>0, <2>1 DEF MainDownOnlyWhenDark, StateFlags
    <3>3. off' = {}
      BY <2>0, <2>1 DEF HandlersFollowState
    <3>4. HandlersFollowState'
      BY <3>1, <3>3 DEF HandlersFollowState
    <3>5. EarlyTypeOK'
      BY <2>0, <3>1 DEF EarlyTypeOK, WakelockTypeOK, WorkerStages
    <3>6. LoopInv'
      BY <1>0, <2>0, <3>1, <3>2 DEF LoopInv, StateFlags
    <3>. QED  BY <2>0, <3>2, <3>4, <3>5, <3>6
              DEF MainDownOnlyWhenDark, ListDistinct, ListSorted
  <2>2. CASE state # {"SUSPEND_REQUESTED"}
    <3>1. worker' = "es_release" /\ UNCHANGED earlyVars
      BY <1>1, <2>0, <2>2 DEF early_suspend_begin, earlyVars
    <3>2. WakelockTypeOK' /\ MainKept
      BY <2>0, <3>1 DEF EarlyTypeOK, WakelockTypeOK, WorkerStages, MainKept
    <3>. QED  BY <2>0, <3>1, <3>2, EarlyQuiet DEF InLoop
  <2>. QED  BY <2>1, <2>2
<1>2. CASE early_suspend_call
  <2>0. /\ worker = "es_call" /\ "SUSPENDED" \in state
        /\ main_wake_lock \in active /\ pos \in 1..(Len(handlers) + 1)
        /\ off = {handlers[i] : i \in 1..(pos - 1)}
        /\ UNCHANGED <<inited, active, auto, left, preventing, expire_timer,
                       timer_fired, workq, moved, state, requested, handlers>>
    BY <1>2 DEF early_suspend_call, LoopInv, HandlersFollowState
  <2>1. CASE pos <= Len(handlers)
    <3>1. off' = off \cup {handlers[pos]} /\ pos' = pos + 1 /\ worker' = worker
      BY <1>2, <2>1 DEF early_suspend_call
    <3>2. off' = {handlers[i] : i \in 1..pos}
      BY <1>0, <2>0, <3>1
    <3>3. HandlersFollowState'
      BY <1>0, <2>0, <3>1, <3>2 DEF HandlersFollowState
    <3>4. EarlyTypeOK'
      BY <1>0, <2>0, <2>1, <3>1 DEF EarlyTypeOK, WakelockTypeOK
    <3>5. LoopInv'
      BY <1>0, <2>0, <2>1, <3>1 DEF LoopInv
    <3>. QED  BY <2>0, <3>3, <3>4, <3>5 DEF MainDownOnlyWhenDark, ListDistinct, ListSorted
  <2>2. CASE pos > Len(handlers)
    <3>1. worker' = "es_release" /\ off' = off /\ pos' = pos
      BY <1>0, <1>2, <2>2 DEF early_suspend_call
    <3>2. pos - 1 = Len(handlers)
      BY <1>0, <2>0, <2>2
    <3>3. off' = Registered'
      BY <2>0, <3>1, <3>2 DEF Registered
    <3>4. HandlersFollowState'
      BY <2>0, <3>1, <3>3 DEF HandlersFollowState
    <3>5. EarlyTypeOK'
      BY <2>0, <3>1 DEF EarlyTypeOK, WakelockTypeOK, WorkerStages
    <3>. QED  BY <2>0, <3>1, <3>4, <3>5
              DEF MainDownOnlyWhenDark, ListDistinct, ListSorted, LoopInv
  <2>. QED  BY <1>0, <2>1, <2>2
<1>3. CASE early_suspend_release
  <2>0. worker = "es_release" /\ worker' = "idle" /\ UNCHANGED earlyVars
    BY <1>3 DEF early_suspend_release
  <2>1. CASE state = StateFlags
    <3>1. wake_unlock(main_wake_lock)
      BY <1>3, <2>1 DEF early_suspend_release
    <3>2. WakelockTypeOK'
      BY <2>0, <3>1, UnlockType, WakelockAssumption DEF EarlyTypeOK, WorkerStages
    <3>3. main_wake_lock \notin auto'
      BY <3>1 DEF wake_unlock, Collect
    <3>4. off = Registered
      BY <2>0, <2>1 DEF HandlersFollowState, StateFlags
    <3>5. /\ state' = state /\ requested' = requested /\ handlers' = handlers
          /\ off' = off /\ pos' = pos /\ Registered' = Registered
      BY <2>0 DEF earlyVars, Registered
    <3>6. EarlyTypeOK'
      BY <3>2, <3>5 DEF EarlyTypeOK
    <3>7. HandlersFollowState'
      BY <2>0, <3>5 DEF HandlersFollowState
    <3>. QED  BY <2>0, <2>1, <3>3, <3>4, <3>5, <3>6, <3>7
              DEF MainDownOnlyWhenDark, ListDistinct, ListSorted, LoopInv
  <2>2. CASE state # StateFlags
    <3>1. UNCHANGED <<inited, active, auto, left, preventing, expire_timer,
                      timer_fired, workq, moved>>
      BY <1>3, <2>2 DEF early_suspend_release
    <3>2. WakelockTypeOK' /\ MainKept
      BY <2>0, <3>1 DEF EarlyTypeOK, WakelockTypeOK, WorkerStages, MainKept
    <3>. QED  BY <2>0, <3>2, EarlyQuiet DEF InLoop
  <2>. QED  BY <2>1, <2>2
<1>4. CASE late_resume_begin
  <2>0. /\ worker = "late_resume"
        /\ UNCHANGED <<inited, active, auto, left, preventing, expire_timer,
                       timer_fired, workq, moved, requested, handlers, off>>
    BY <1>4 DEF late_resume_begin
  <2>1. CASE state = {"SUSPENDED"}
    <3>1. state' = {} /\ worker' = "lr_call" /\ pos' = Len(handlers)
      BY <1>4, <2>1 DEF late_resume_begin
    <3>2. main_wake_lock \in active'
      BY <2>0, <2>1 DEF MainDownOnlyWhenDark, StateFlags
    <3>3. off' = {handlers[i] : i \in 1..Len(handlers)}
      BY <2>0, <2>1 DEF HandlersFollowState, Registered
    <3>4. HandlersFollowState'
      BY <2>0, <3>1, <3>3 DEF HandlersFollowState
    <3>5. EarlyTypeOK'
      BY <1>0, <2>0, <3>1 DEF EarlyTypeOK, WakelockTypeOK, WorkerStages, StateFlags
    <3>6. LoopInv'
      BY <1>0, <2>0, <3>1 DEF LoopInv
    <3>. QED  BY <2>0, <3>2, <3>4, <3>5, <3>6
              DEF MainDownOnlyWhenDark, ListDistinct, ListSorted
  <2>2. CASE state # {"SUSPENDED"}
    <3>1. worker' = "idle" /\ UNCHANGED earlyVars
      BY <1>4, <2>0, <2>2 DEF late_resume_begin, earlyVars
    <3>2. WakelockTypeOK' /\ MainKept
      BY <2>0, <3>1 DEF EarlyTypeOK, WakelockTypeOK, WorkerStages, MainKept
    <3>. QED  BY <2>0, <3>1, <3>2, EarlyQuiet DEF InLoop
  <2>. QED  BY <2>1, <2>2
<1>5. CASE late_resume_call
  <2>0. /\ worker = "lr_call" /\ "SUSPENDED" \notin state /\ pos \in 0..Len(handlers)
        /\ off = {handlers[i] : i \in 1..pos}
        /\ UNCHANGED <<inited, active, auto, left, preventing, expire_timer,
                       timer_fired, workq, moved, state, requested, handlers>>
    BY <1>5 DEF late_resume_call, LoopInv, HandlersFollowState
  <2>1. main_wake_lock \in active'
    BY <2>0 DEF MainDownOnlyWhenDark, StateFlags
  <2>2. CASE pos >= 1
    <3>1. off' = off \ {handlers[pos]} /\ pos' = pos - 1 /\ worker' = worker
      BY <1>5, <2>2 DEF late_resume_call
    <3>2. off' = {handlers[i] : i \in 1..(pos - 1)}
      BY <1>0, <2>0, <2>2, <3>1 DEF ListDistinct
    <3>3. HandlersFollowState'
      BY <1>0, <2>0, <3>1, <3>2 DEF HandlersFollowState
    <3>4. EarlyTypeOK'
      BY <1>0, <2>0, <2>2, <3>1 DEF EarlyTypeOK, WakelockTypeOK
    <3>5. LoopInv'
      BY <1>0, <2>0, <2>2, <3>1 DEF LoopInv
    <3>. QED  BY <2>0, <2>1, <3>3, <3>4, <3>5
              DEF MainDownOnlyWhenDark, ListDistinct, ListSorted
  <2>3. CASE pos < 1
    <3>1. worker' = "idle" /\ off' = off /\ pos' = pos
      BY <1>0, <1>5, <2>3 DEF late_resume_call
    <3>2. off' = {}
      BY <1>0, <2>0, <2>3, <3>1
    <3>3. HandlersFollowState'
      BY <2>0, <3>1, <3>2 DEF HandlersFollowState
    <3>4. EarlyTypeOK'
      BY <2>0, <3>1 DEF EarlyTypeOK, WakelockTypeOK, WorkerStages
    <3>. QED  BY <2>0, <2>1, <3>1, <3>3, <3>4
              DEF MainDownOnlyWhenDark, ListDistinct, ListSorted, LoopInv
  <2>. QED  BY <1>0, <2>2, <2>3
<1>. QED  BY <1>1, <1>2, <1>3, <1>4, <1>5 DEF EarlyWork

(* What the wake lock manager does by itself, or pm_suspend.                *)
LEMMA ManagerInv ==
    ASSUME EarlyInv, UNCHANGED earlyVars,
           \/ Tick \/ TimerFires \/ expire_wake_locks \/ run_workqueue
           \/ SuspendWork \/ pm_suspend_asks \/ pm_suspend_returns
    PROVE  EarlyInv'
<1>1. WakelockTypeOK'
  BY WakelockTypeNext DEF EarlyInv, EarlyTypeOK, WakelockNext
<1>2. MainKept
  BY ManagerKeepsMain DEF EarlyInv
<1>3. worker' = worker \/ (~InLoop /\ ~InLoop')
  <2>1. CASE Tick \/ TimerFires \/ expire_wake_locks \/ pm_suspend_asks
    BY <2>1 DEF Tick, TimerFires, expire_wake_locks, pm_suspend_asks
  <2>2. CASE run_workqueue
    <3>1. worker = "idle" /\ worker' \in Works
      BY <2>2 DEF run_workqueue, EarlyInv, EarlyTypeOK, WakelockTypeOK
    <3>. QED  BY <3>1 DEF InLoop, Works
  <2>3. CASE SuspendWork \/ pm_suspend_returns
    BY <2>3 DEF SuspendWork, suspend_check, suspend_entry, suspend_exit,
                suspend_unknown, pm_suspend_returns, InLoop
  <2>. QED  BY <2>1, <2>2, <2>3
<1>. QED  BY <1>1, <1>2, <1>3, EarlyQuiet

(* A driver or a process uses its own lock.                                 *)
LEMMA ClientInv ==
    ASSUME EarlyInv, NEW l \in Clients, ClientStep(l), UNCHANGED earlyVars
    PROVE  EarlyInv'
<1>1. WakelockTypeOK' /\ MainKept
  BY ClientStepType, ClientKeepsMain DEF EarlyInv, EarlyTypeOK
<1>2. worker' = worker
  BY DEF ClientStep, wake_lock_init, wake_lock_destroy
<1>. QED  BY <1>1, <1>2, EarlyQuiet

(* Every step of the two layers keeps the invariant.                        *)
LEMMA EarlyInvNext == EarlyInv /\ [EarlyNext]_earlyStackVars => EarlyInv'
<1> SUFFICES ASSUME EarlyInv, [EarlyNext]_earlyStackVars PROVE EarlyInv'
  OBVIOUS
<1>1. ASSUME NEW l \in Clients, ClientStep(l), UNCHANGED earlyVars PROVE EarlyInv'
  BY <1>1, ClientInv
<1>2. ASSUME NEW s \in Requests, request_suspend_state(s) PROVE EarlyInv'
  BY <1>2, RequestInv
<1>3. ASSUME NEW h \in Handlers,
             register_early_suspend(h) \/ unregister_early_suspend(h)
      PROVE  EarlyInv'
  BY <1>3, RegisterInv, UnregisterInv
<1>4. CASE EarlyWork
  BY <1>4, EarlyWorkInv
<1>5. CASE Manager \/ Pm
  BY <1>5, ManagerInv DEF Manager, Pm
<1>6. CASE UNCHANGED earlyStackVars
  <2>1. WakelockTypeOK' /\ MainKept /\ worker' = worker /\ UNCHANGED earlyVars
    BY <1>6 DEF earlyStackVars, wakelockVars, EarlyInv, EarlyTypeOK, WakelockTypeOK,
                MainKept
  <2>. QED  BY <2>1, EarlyQuiet
<1>. QED  BY <1>1, <1>2, <1>3, <1>4, <1>5, <1>6 DEF EarlyNext

(* In a sorted list whose suspended handlers are a prefix, a suspended      *)
(* handler has every handler of a lower level suspended.                    *)
LEMMA PrefixInLevelOrder == EarlyInv => DarkInLevelOrder
<1> SUFFICES ASSUME EarlyInv, NEW g \in Registered, NEW h \in Registered,
                    Level[g] < Level[h], h \in off
             PROVE  g \in off
  BY DEF DarkInLevelOrder
<1>0. handlers \in Seq(Handlers) /\ pos \in Nat
  BY DEF EarlyInv, EarlyTypeOK
<1>1. PICK i \in 1..Len(handlers) : g = handlers[i]
  BY DEF Registered
<1>2. ASSUME NEW n \in 0..Len(handlers), off = {handlers[m] : m \in 1..n}
      PROVE  g \in off
  <2>1. PICK j \in 1..n : h = handlers[j]
    BY <1>2
  <2>2. Level[g] \in Int /\ Level[h] \in Int
    BY <1>0, <1>1, <2>1, EarlySuspendAssumption
  <2>3. ~(j <= i)
    BY <1>0, <1>1, <2>1, <2>2 DEF EarlyInv, ListSorted
  <2>4. i \in 1..n
    BY <1>0, <2>3
  <2>. QED  BY <1>1, <1>2, <2>4
<1>3. CASE worker = "es_call"
  <2>1. off = {handlers[m] : m \in 1..(pos - 1)} /\ pos - 1 \in 0..Len(handlers)
    BY <1>0, <1>3 DEF EarlyInv, HandlersFollowState, LoopInv
  <2>. QED  BY <1>2, <2>1
<1>4. CASE worker = "lr_call"
  <2>1. off = {handlers[m] : m \in 1..pos} /\ pos \in 0..Len(handlers)
    BY <1>0, <1>4 DEF EarlyInv, HandlersFollowState, LoopInv
  <2>. QED  BY <1>2, <2>1
<1>5. CASE worker \notin {"es_call", "lr_call"}
  BY <1>5 DEF EarlyInv, HandlersFollowState
<1>. QED  BY <1>3, <1>4, <1>5

(* The state of early suspend always has its type.                          *)
THEOREM EarlyTypeCorrect == EarlySafety => []EarlyTypeOK
<1>1. EarlyInv => EarlyTypeOK
  BY DEF EarlyInv
<1>. QED  BY <1>1, EarlyInvInit, EarlyInvNext, PTL DEF EarlySafety

(* Whatever requests race with early_suspend and late_resume, the main lock *)
(* is down only while the user wants sleep and every handler is suspended.  *)
THEOREM MainLockGuardsDark == EarlySafety => []MainDownOnlyWhenDark
<1>1. EarlyInv => MainDownOnlyWhenDark
  BY DEF EarlyInv
<1>. QED  BY <1>1, EarlyInvInit, EarlyInvNext, PTL DEF EarlySafety

(* No handler is suspended or resumed twice in a row and none is forgotten, *)
(* for any number of handlers that come and go at any time.                 *)
THEOREM HandlersNeverDrift == EarlySafety => []HandlersFollowState
<1>1. EarlyInv => HandlersFollowState
  BY DEF EarlyInv
<1>. QED  BY <1>1, EarlyInvInit, EarlyInvNext, PTL DEF EarlySafety

(* Handlers go dark from low to high level and come back the other way.     *)
THEOREM LevelsAreRespected == EarlySafety => []DarkInLevelOrder
  BY EarlyInvInit, EarlyInvNext, PrefixInLevelOrder, PTL DEF EarlySafety

----------------------------------------------------------------------------
(* The whole suspend path.                                                  *)

\* What is frozen, disabled and down at each stage of pm_suspend.
StageInv ==
    /\ pm # "out" => worker = "pm_suspend"
    /\ helpers <=> pm \in {"out", "prepare", "resume_hook", "return"}
    /\ pm # "unfreeze" =>
          (frozen <=> pm \in {"freeze_rest", "devices", "late", "window", "sysdev",
                              "asleep", "sysdev_resume", "resume_devices", "thaw"})
    /\ irqs <=> pm \notin {"sysdev", "asleep"}
    /\ devices = IF pm \in {"late", "resume_devices"} THEN "suspended"
                 ELSE IF pm \in {"window", "sysdev", "asleep", "sysdev_resume"}
                 THEN "noirq" ELSE "on"

\* No process is frozen between running pm.sh and making its request.
WritersInv == frozen => \A w \in Writers : writer[w] = "out"

\* From the last check for wake locks on, no lock of the user is held.
WindowInv ==
    pm \in {"window", "sysdev", "asleep"} =>
        main_wake_lock \notin active /\ Held \cap UserLocks = {}

\* On the way down, a script that ran for waking up belongs to a request that
\* holds the main lock or is about to take it.
ScriptInv ==
    pm \in {"prepare", "freeze", "freeze_rest", "devices", "late", "window",
            "sysdev", "asleep"} =>
        \/ script \in {"suspend", "pre_suspend"}
        \/ main_wake_lock \in active
        \/ \E w \in Writers : writer[w] = "on"

\* The inductive invariant.
CoreInv ==
    /\ EarlyInv
    /\ CoreTypeOK
    /\ StageInv
    /\ WritersInv
    /\ WindowInv
    /\ ScriptInv

(* At boot pm_suspend is not running and everything is up.                  *)
LEMMA CoreInvInit == CoreInit => CoreInv
<1> SUFFICES ASSUME CoreInit PROVE CoreInv
  OBVIOUS
<1>1. EarlyInv
  BY EarlyInvInit DEF CoreInit
<1>2. CoreTypeOK
  BY <1>1 DEF CoreInit, CoreTypeOK, EarlyInv, PmStages
<1>. QED  BY <1>1, <1>2 DEF CoreInit, CoreInv, StageInv, WritersInv, WindowInv, ScriptInv

----------------------------------------------------------------------------
(* A step of a driver, of the timer or of a process that is not frozen,     *)
(* with pm_suspend where it is.                                             *)
LEMMA OutsideStep ==
    ASSUME CoreInv, EarlyInv', UNCHANGED coreVars, UNCHANGED worker,
           main_wake_lock \in active' <=> main_wake_lock \in active,
           ~frozen \/ Held' \cap UserLocks \subseteq Held
    PROVE  CoreInv'
<1>0. /\ pm' = pm /\ frozen' = frozen /\ helpers' = helpers /\ devices' = devices
      /\ irqs' = irqs /\ script' = script /\ writer' = writer
  BY DEF coreVars
<1>1. CoreTypeOK'
  BY <1>0 DEF CoreInv, CoreTypeOK, EarlyInv
<1>2. StageInv' /\ WritersInv' /\ ScriptInv'
  BY <1>0 DEF CoreInv, StageInv, WritersInv, ScriptInv
<1>3. WindowInv'
  BY <1>0 DEF CoreInv, WindowInv, StageInv
<1>. QED  BY <1>1, <1>2, <1>3 DEF CoreInv

(* A step of the queue's thread outside pm_suspend.                         *)
LEMMA WorkerStepInv == CoreInv /\ WorkerStep => CoreInv'
<1> SUFFICES ASSUME CoreInv, WorkerStep PROVE CoreInv'
  OBVIOUS
<1>1. EarlyInv' /\ UNCHANGED coreVars
  BY ManagerInv, EarlyWorkInv DEF WorkerStep, CoreInv
<1>2. worker # "pm_suspend"
  BY DEF WorkerStep, run_workqueue, SuspendWork, suspend_check, suspend_entry,
         suspend_exit, suspend_unknown, EarlyWork, early_suspend_begin,
         early_suspend_call, early_suspend_release, late_resume_begin, late_resume_call
<1>3. pm = "out"
  BY <1>2 DEF CoreInv, StageInv
<1>4. /\ pm' = pm /\ frozen' = frozen /\ helpers' = helpers /\ devices' = devices
      /\ irqs' = irqs /\ script' = script /\ writer' = writer
  BY <1>1 DEF coreVars
<1>. QED  BY <1>1, <1>3, <1>4 DEF CoreInv, CoreTypeOK, EarlyInv, StageInv, WritersInv,
                                  WindowInv, ScriptInv

(* state_store runs pm.sh, then makes its request.                          *)
LEMMA HookInv ==
    ASSUME CoreInv, NEW w \in Writers, NEW s \in pm_states, state_store_hook(w, s)
    PROVE  CoreInv'
<1> DEFINE v == IF s = "on" THEN "on" ELSE "sleep"
<1>0. /\ ~frozen /\ writer[w] = "out" /\ writer' = [writer EXCEPT ![w] = v]
      /\ v \in Requests
      /\ script' \in {script, IF v = "on" THEN "post_resume" ELSE "pre_suspend"}
      /\ UNCHANGED <<earlyStackVars, pm, frozen, helpers, devices, irqs>>
  BY DEF state_store_hook, RunScript, Requests
<1> HIDE DEF v
<1>1. EarlyInv'
  BY <1>0, EarlyInvNext DEF CoreInv
<1>2. active' = active /\ Held' = Held /\ worker' = worker
  BY <1>0 DEF earlyStackVars, wakelockVars, Held, HeldIn
<1>3. writer \in [Writers -> Requests \cup {"out"}]
  BY DEF CoreInv, CoreTypeOK
<1>4. CoreTypeOK'
  BY <1>0, <1>1, <1>3 DEF CoreInv, CoreTypeOK, EarlyInv
<1>5. StageInv' /\ WritersInv' /\ WindowInv'
  BY <1>0, <1>2 DEF CoreInv, StageInv, WritersInv, WindowInv
<1>6. ScriptInv'
  <2>1. CASE v = "on"
    BY <1>0, <1>3, <2>1 DEF ScriptInv
  <2>2. CASE v # "on"
    BY <1>0, <1>2, <1>3, <2>2 DEF CoreInv, ScriptInv
  <2>. QED  BY <2>1, <2>2
<1>. QED  BY <1>1, <1>4, <1>5, <1>6 DEF CoreInv

(* A request to wake has the main lock when it is through, whichever of its *)
(* branches it took.                                                        *)
LEMMA RequestMain ==
    ASSUME EarlyInv, NEW s \in Requests, request_suspend_state(s)
    PROVE  /\ main_wake_lock \in active => main_wake_lock \in active'
           /\ s = "on" => main_wake_lock \in active'
           /\ worker' = worker
<1>1. CASE "SUSPEND_REQUESTED" \in state /\ s = "on"
  BY <1>1 DEF request_suspend_state, wake_lock
<1>2. CASE "SUSPEND_REQUESTED" \notin state
  BY <1>2 DEF request_suspend_state, EarlyInv, MainDownOnlyWhenDark, StateFlags
<1>3. CASE s # "on"
  BY <1>3 DEF request_suspend_state
<1>. QED  BY <1>1, <1>2, <1>3

(* The request that follows the script.                                     *)
LEMMA StoreInv ==
    ASSUME CoreInv, NEW w \in Writers, state_store_request(w)
    PROVE  CoreInv'
<1>0. /\ writer[w] \in Requests /\ writer' = [writer EXCEPT ![w] = "out"]
      /\ request_suspend_state(writer[w])
      /\ UNCHANGED <<pm, frozen, helpers, devices, irqs, script>>
      /\ writer \in [Writers -> Requests \cup {"out"}]
  BY DEF state_store_request, CoreInv, CoreTypeOK, Requests
<1>1. EarlyInv'
  BY <1>0, RequestInv DEF CoreInv
<1>2. ~frozen
  BY <1>0 DEF CoreInv, WritersInv, Requests
<1>3. /\ main_wake_lock \in active => main_wake_lock \in active'
      /\ writer[w] = "on" => main_wake_lock \in active'
      /\ worker' = worker
  BY <1>0, RequestMain DEF CoreInv
<1>4. CoreTypeOK'
  BY <1>0, <1>1 DEF CoreInv, CoreTypeOK, EarlyInv
<1>5. StageInv' /\ WritersInv' /\ WindowInv'
  BY <1>0, <1>2, <1>3 DEF CoreInv, StageInv, WritersInv, WindowInv
<1>6. ScriptInv'
  BY <1>0, <1>3 DEF CoreInv, ScriptInv
<1>. QED  BY <1>1, <1>4, <1>5, <1>6 DEF CoreInv

----------------------------------------------------------------------------
(* A step of pm_suspend that leaves the two layers below alone.             *)
LEMMA PmAlone ==
    ASSUME CoreInv, UNCHANGED earlyStackVars
    PROVE  /\ EarlyInv'
           /\ active' = active /\ Held' = Held /\ worker' = worker
<1>1. EarlyInv'
  BY EarlyInvNext DEF CoreInv
<1>. QED  BY <1>1 DEF earlyStackVars, wakelockVars, Held, HeldIn

(* enter_state and suspend_prepare: the way down to frozen processes.       *)
LEMMA PrepareInv ==
    ASSUME CoreInv,
           \/ enter_state \/ suspend_prepare \/ suspend_prepare_fails
           \/ freeze_processes \/ suspend_prepare_unfreeze
    PROVE  CoreInv'
<1>0. UNCHANGED earlyStackVars /\ UNCHANGED <<devices, irqs, writer>>
  BY DEF enter_state, suspend_prepare, suspend_prepare_fails, freeze_processes,
         suspend_prepare_unfreeze
<1>1. EarlyInv' /\ active' = active /\ Held' = Held /\ worker' = worker
  BY <1>0, PmAlone
<1> USE DEF CoreInv
<1>2. CASE enter_state
  <2>1. pm = "out" /\ pm' = "prepare" /\ worker = "pm_suspend" /\ helpers
          /\ script' = "suspend" /\ UNCHANGED <<frozen, helpers>>
    BY <1>2 DEF enter_state, RunScript, StageInv
  <2>. QED  BY <1>0, <1>1, <2>1 DEF CoreTypeOK, EarlyInv, PmStages, StageInv, WritersInv,
                                    WindowInv, ScriptInv
<1>3. CASE suspend_prepare \/ suspend_prepare_fails
  <2>1. pm = "prepare" /\ pm' \in {"freeze", "return"} /\ helpers' = (pm' = "return")
          /\ UNCHANGED <<frozen, script>>
    BY <1>3 DEF suspend_prepare, suspend_prepare_fails, StageInv
  <2>. QED  BY <1>0, <1>1, <2>1 DEF CoreTypeOK, EarlyInv, PmStages, StageInv, WritersInv,
                                    WindowInv, ScriptInv
<1>4. CASE freeze_processes
  <2>1. CASE pm = "freeze"
    BY <1>0, <1>1, <1>4, <2>1 DEF freeze_processes, CoreTypeOK, EarlyInv, PmStages,
       StageInv, WritersInv, WindowInv, ScriptInv
  <2>2. CASE pm = "freeze_rest"
    BY <1>0, <1>1, <1>4, <2>2 DEF freeze_processes, CoreTypeOK, EarlyInv, PmStages,
       StageInv, WritersInv, WindowInv, ScriptInv
  <2>. QED  BY <1>4, <2>1, <2>2 DEF freeze_processes
<1>5. CASE suspend_prepare_unfreeze
  <2>1. CASE frozen
    <3>1. pm = "unfreeze" /\ pm' = pm /\ ~frozen' /\ frozen' \in BOOLEAN
            /\ helpers' = helpers /\ script' = script
      BY <1>5, <2>1 DEF suspend_prepare_unfreeze
    <3>2. CoreTypeOK' /\ WritersInv' /\ WindowInv' /\ ScriptInv'
      BY <1>0, <1>1, <3>1 DEF CoreTypeOK, EarlyInv, WritersInv, WindowInv, ScriptInv
    <3>3. StageInv'
      BY <1>0, <1>1, <3>1 DEF StageInv
    <3>. QED  BY <1>1, <3>2, <3>3
  <2>2. CASE ~frozen
    BY <1>0, <1>1, <1>5, <2>2 DEF suspend_prepare_unfreeze, CoreTypeOK, EarlyInv,
       PmStages, StageInv, WritersInv, WindowInv, ScriptInv
  <2>. QED  BY <2>1, <2>2
<1>. QED  BY <1>2, <1>3, <1>4, <1>5

(* The two steps of pm_suspend that ask for wake locks.                     *)
LEMMA PmAsksInv ==
    ASSUME CoreInv, try_to_freeze_tasks_waits \/ power_suspend_late
    PROVE  CoreInv'
<1> USE DEF CoreInv
<1>0. PICK r \in -1..MaxTimeout : has_wake_lock(r)
  BY DEF try_to_freeze_tasks_waits, power_suspend_late
<1>1. UNCHANGED <<inited, expire_timer, timer_fired, workq, worker, moved, earlyVars,
                  frozen, helpers, irqs, script, writer>>
  BY DEF try_to_freeze_tasks_waits, power_suspend_late
<1>2. worker = "pm_suspend"
  BY DEF try_to_freeze_tasks_waits, power_suspend_late, StageInv
<1>3. EarlyInv' /\ (main_wake_lock \in active' <=> main_wake_lock \in active)
  <2>1. pm_suspend_asks
    BY <1>0, <1>1, <1>2 DEF pm_suspend_asks
  <2>. QED  BY <1>1, <2>1, ManagerInv, ManagerKeepsMain DEF EarlyInv, MainKept
<1>4. CASE try_to_freeze_tasks_waits
  <2>1. pm \in {"freeze", "freeze_rest"} /\ pm' \in {pm, "unfreeze"} /\ devices' = devices
    BY <1>4 DEF try_to_freeze_tasks_waits
  <2>. QED  BY <1>1, <1>3, <2>1 DEF CoreTypeOK, EarlyInv, PmStages, StageInv, WritersInv,
                                    WindowInv, ScriptInv
<1>5. CASE power_suspend_late
  <2>1. PICK q \in -1..MaxTimeout :
           /\ has_wake_lock(q)
           /\ IF q # 0 THEN pm' = "resume_devices" /\ UNCHANGED devices
                       ELSE pm' = "window" /\ devices' = "noirq"
    BY <1>5 DEF power_suspend_late
  <2>2. pm = "late"
    BY <1>5 DEF power_suspend_late
  <2>3. CASE q # 0
    BY <1>1, <1>3, <2>1, <2>2, <2>3 DEF CoreTypeOK, EarlyInv, PmStages, StageInv,
       WritersInv, WindowInv, ScriptInv
  <2>4. CASE q = 0
    <3>1. Held' = {}
      BY <2>1, <2>4, AskHeld DEF EarlyInv, EarlyTypeOK
    <3>2. main_wake_lock \notin active'
      BY <1>3, <3>1 DEF Held, HeldIn, EarlyInv
    <3>. QED  BY <1>1, <1>3, <2>1, <2>2, <2>4, <3>1, <3>2 DEF CoreTypeOK, EarlyInv,
              PmStages, StageInv, WritersInv, WindowInv, ScriptInv
  <2>. QED  BY <2>3, <2>4
<1>. QED  BY <1>4, <1>5

(* Devices and interrupts, down and up again.                               *)
LEMMA DevicesInv ==
    ASSUME CoreInv,
           \/ dpm_suspend_start \/ suspend_enter_irqs_off \/ sysdev_suspend
           \/ sysdev_resume \/ dpm_resume_end
    PROVE  CoreInv'
<1>0. UNCHANGED earlyStackVars /\ UNCHANGED <<frozen, helpers, script, writer>>
  BY DEF dpm_suspend_start, suspend_enter_irqs_off, sysdev_suspend, sysdev_resume,
         dpm_resume_end
<1>1. EarlyInv' /\ active' = active /\ Held' = Held /\ worker' = worker
  BY <1>0, PmAlone
<1> USE DEF CoreInv
<1>2. CASE dpm_suspend_start
  BY <1>0, <1>1, <1>2 DEF dpm_suspend_start, CoreTypeOK, EarlyInv, PmStages, StageInv,
     WritersInv, WindowInv, ScriptInv
<1>3. CASE suspend_enter_irqs_off
  <2>1. /\ pm = "window"
        /\ \/ devices' = "suspended" /\ pm' = "resume_devices" /\ irqs' = irqs
           \/ irqs' = FALSE /\ pm' = "sysdev" /\ devices' = devices
    BY <1>3 DEF suspend_enter_irqs_off
  <2>2. CoreTypeOK' /\ WritersInv' /\ WindowInv' /\ ScriptInv'
    BY <1>0, <1>1, <2>1 DEF CoreTypeOK, EarlyInv, PmStages, WritersInv, WindowInv, ScriptInv
  <2>3. StageInv'
    BY <1>0, <1>1, <2>1 DEF StageInv
  <2>. QED  BY <1>1, <2>2, <2>3
<1>4. CASE sysdev_suspend
  <2>1. /\ pm = "sysdev"
        /\ \/ irqs' = TRUE /\ devices' = "suspended" /\ pm' = "resume_devices"
           \/ pm' = "asleep" /\ irqs' = irqs /\ devices' = devices
    BY <1>4 DEF sysdev_suspend
  <2>2. CoreTypeOK' /\ WritersInv' /\ WindowInv' /\ ScriptInv'
    BY <1>0, <1>1, <2>1 DEF CoreTypeOK, EarlyInv, PmStages, WritersInv, WindowInv, ScriptInv
  <2>3. StageInv'
    BY <1>0, <1>1, <2>1 DEF StageInv
  <2>. QED  BY <1>1, <2>2, <2>3
<1>5. CASE sysdev_resume
  BY <1>0, <1>1, <1>5 DEF sysdev_resume, CoreTypeOK, EarlyInv, PmStages, StageInv,
     WritersInv, WindowInv, ScriptInv
<1>6. CASE dpm_resume_end
  BY <1>0, <1>1, <1>6 DEF dpm_resume_end, CoreTypeOK, EarlyInv, PmStages, StageInv,
     WritersInv, WindowInv, ScriptInv
<1>. QED  BY <1>2, <1>3, <1>4, <1>5, <1>6

(* The way out of enter_state and pm_suspend.                               *)
LEMMA FinishInv ==
    ASSUME CoreInv,
           \/ suspend_finish \/ enter_state_hook \/ enter_state_returns
           \/ pm_suspend_invalid \/ enter_state_refuses
    PROVE  CoreInv'
<1> USE DEF CoreInv
<1>1. CASE suspend_finish \/ enter_state_hook
  <2>0. UNCHANGED earlyStackVars /\ UNCHANGED <<devices, irqs, writer>>
    BY <1>1 DEF suspend_finish, enter_state_hook
  <2>1. EarlyInv' /\ active' = active /\ Held' = Held /\ worker' = worker
    BY <2>0, PmAlone
  <2>2. CASE suspend_finish /\ pm = "thaw"
    <3>1. frozen' = FALSE /\ pm' = "enable_helpers" /\ helpers' = helpers /\ script' = script
      BY <2>2 DEF suspend_finish
    <3>2. CoreTypeOK' /\ WritersInv' /\ WindowInv' /\ ScriptInv'
      BY <2>0, <2>1, <3>1 DEF CoreTypeOK, EarlyInv, PmStages, WritersInv, WindowInv,
                              ScriptInv
    <3>3. StageInv'
      BY <2>0, <2>1, <2>2, <3>1 DEF StageInv
    <3>. QED  BY <2>1, <3>2, <3>3
  <2>3. CASE suspend_finish /\ pm = "enable_helpers"
    BY <2>0, <2>1, <2>3 DEF suspend_finish, CoreTypeOK, EarlyInv, PmStages, StageInv,
       WritersInv, WindowInv, ScriptInv
  <2>4. CASE enter_state_hook
    BY <2>0, <2>1, <2>4 DEF enter_state_hook, RunScript, CoreTypeOK, EarlyInv, PmStages,
       StageInv, WritersInv, WindowInv, ScriptInv
  <2>. QED  BY <1>1, <2>2, <2>3, <2>4 DEF suspend_finish
<1>2. CASE enter_state_returns \/ pm_suspend_invalid \/ enter_state_refuses
  <2>1. /\ pm_suspend_returns /\ pm \in {"return", "out"} /\ pm' = "out"
        /\ UNCHANGED <<earlyVars, frozen, helpers, devices, irqs, script, writer>>
    BY <1>2 DEF enter_state_returns, pm_suspend_invalid, enter_state_refuses, coreVars
  <2>2. EarlyInv'
    BY <2>1, ManagerInv
  <2>. QED  BY <2>1, <2>2 DEF CoreTypeOK, EarlyInv, PmStages, StageInv, WritersInv,
                              WindowInv, ScriptInv
<1>. QED  BY <1>1, <1>2

(* The board wakes up; the key press takes the lock of an event device.     *)
LEMMA WakeInv == CoreInv /\ wmt_pm_enter_returns => CoreInv'
<1> SUFFICES ASSUME CoreInv, wmt_pm_enter_returns PROVE CoreInv'
  OBVIOUS
<1> USE DEF CoreInv
<1>0. /\ pm = "asleep" /\ pm' = "sysdev_resume" /\ irqs' = TRUE
      /\ UNCHANGED <<earlyVars, frozen, helpers, devices, script, writer>>
  BY DEF wmt_pm_enter_returns
<1>1. EarlyInv' /\ worker' = worker
  <2>1. CASE UNCHANGED wakelockVars
    <3>1. UNCHANGED earlyStackVars
      BY <1>0, <2>1 DEF earlyStackVars
    <3>. QED  BY <3>1, PmAlone
  <2>2. ASSUME NEW l \in DriverLocks, wake_lock_timeout(l, MaxTimeout), UNCHANGED worker
        PROVE  EarlyInv' /\ worker' = worker
    <3>1. l \in Clients /\ MaxTimeout \in 0..MaxTimeout
      BY WakelockAssumption DEF DriverLocks
    <3>2. ClientStep(l)
      BY <2>2, <3>1 DEF ClientStep
    <3>. QED  BY <1>0, <2>2, <3>1, <3>2, ClientInv
  <2>. QED  BY <2>1, <2>2 DEF wmt_pm_enter_returns
<1>. QED  BY <1>0, <1>1 DEF CoreTypeOK, EarlyInv, PmStages, StageInv, WritersInv,
                            WindowInv, ScriptInv

(* Drivers, processes that are not frozen, and the timer.                   *)
LEMMA OthersInv == CoreInv /\ (UserStep \/ DriverStep \/ TimerStep) => CoreInv'
<1> SUFFICES ASSUME CoreInv, UserStep \/ DriverStep \/ TimerStep PROVE CoreInv'
  OBVIOUS
<1>0. EarlyInv /\ WakelockTypeOK
  BY DEF CoreInv, EarlyInv, EarlyTypeOK
<1>1. ASSUME NEW l \in UserLocks, ~frozen, ClientStep(l), UNCHANGED <<earlyVars, coreVars>>
      PROVE  CoreInv'
  <2>0. l \in Clients
    BY SuspendCoreAssumption
  <2>1. EarlyInv' /\ MainKept /\ worker' = worker
    BY <1>0, <1>1, <2>0, ClientInv, ClientKeepsMain
    DEF EarlyInv, ClientStep, wake_lock_init, wake_lock_destroy
  <2>. QED  BY <1>1, <2>1, OutsideStep DEF MainKept
<1>2. ASSUME NEW h \in Handlers, ~frozen, UNCHANGED coreVars,
             register_early_suspend(h) \/ unregister_early_suspend(h)
      PROVE  CoreInv'
  <2>1. EarlyInv'
    BY <1>0, <1>2, RegisterInv, UnregisterInv
  <2>2. worker' = worker /\ active' = active
    BY <1>2 DEF register_early_suspend, unregister_early_suspend, wakelockVars
  <2>. QED  BY <1>2, <2>1, <2>2, OutsideStep
<1>3. ASSUME NEW l \in DriverLocks, ClientStep(l), UNCHANGED <<earlyVars, coreVars>>
      PROVE  CoreInv'
  <2>0. l \in Clients /\ l \notin UserLocks
    BY DEF DriverLocks
  <2>1. EarlyInv' /\ MainKept /\ worker' = worker
    BY <1>0, <1>3, <2>0, ClientInv, ClientKeepsMain
    DEF EarlyInv, ClientStep, wake_lock_init, wake_lock_destroy
  <2>2. Held' \subseteq Held \cup {l}
    BY <1>0, <1>3, <2>0, ClientHeld
  <2>. QED  BY <1>3, <2>0, <2>1, <2>2, OutsideStep DEF MainKept
<1>4. CASE TimerStep
  <2>0. (Tick \/ TimerFires \/ expire_wake_locks) /\ UNCHANGED <<earlyVars, coreVars>>
    BY <1>4 DEF TimerStep
  <2>1. EarlyInv' /\ MainKept
    BY <1>0, <2>0, ManagerInv, ManagerKeepsMain DEF EarlyInv
  <2>2. worker' = worker
    BY <2>0 DEF Tick, TimerFires, expire_wake_locks
  <2>3. Held' \subseteq Held
    BY <1>0, <2>0, TimerHeld
  <2>. QED  BY <2>0, <2>1, <2>2, <2>3, OutsideStep DEF MainKept
<1>. QED  BY <1>1, <1>2, <1>3, <1>4 DEF UserStep, DriverStep

(* Every step of the system keeps the invariant.                            *)
LEMMA CoreInvNext == CoreInv /\ [CoreNext]_powerVars => CoreInv'
<1> SUFFICES ASSUME CoreInv, [CoreNext]_powerVars PROVE CoreInv'
  OBVIOUS
<1>1. ASSUME NEW w \in Writers, NEW s \in pm_states, state_store_hook(w, s)
      PROVE  CoreInv'
  BY <1>1, HookInv
<1>2. ASSUME NEW w \in Writers, state_store_request(w) PROVE CoreInv'
  BY <1>2, StoreInv
<1>3. CASE UserStep \/ DriverStep \/ TimerStep
  BY <1>3, OthersInv
<1>4. CASE WorkerStep
  BY <1>4, WorkerStepInv
<1>5. CASE PmWork
  BY <1>5, PrepareInv, PmAsksInv, DevicesInv, FinishInv DEF PmWork
<1>6. CASE wmt_pm_enter_returns
  BY <1>6, WakeInv
<1>7. CASE UNCHANGED powerVars
  <2>1. UNCHANGED earlyStackVars /\ UNCHANGED coreVars
    BY <1>7 DEF powerVars
  <2>. QED  BY <2>1, PmAlone, OutsideStep
<1>. QED  BY <1>1, <1>2, <1>3, <1>4, <1>5, <1>6, <1>7 DEF CoreNext

(* The state of the whole suspend path always has its type.                 *)
THEOREM CoreTypeCorrect == CoreSpec => []CoreTypeOK
<1>1. CoreInv => CoreTypeOK
  BY DEF CoreInv
<1>. QED  BY <1>1, CoreInvInit, CoreInvNext, PTL DEF CoreSpec

(* Every way out of pm_suspend leaves processes, helpers, devices and       *)
(* interrupts as it found them, for any number of writers and drivers.      *)
THEOREM PmSuspendUndoesItself == CoreSpec => []NothingLeftDown
<1>1. CoreInv => NothingLeftDown
  BY DEF CoreInv, StageInv, NothingLeftDown
<1>. QED  BY <1>1, CoreInvInit, CoreInvNext, PTL DEF CoreSpec

(* The system sleeps only as the user wants: the request stands, the        *)
(* handlers are dark, no lock of the user's processes is held.              *)
THEOREM SleepHonoursUser == CoreSpec => []AsleepHonoursUser
<1>1. CoreInv => AsleepHonoursUser
  BY DEF CoreInv, WindowInv, AsleepHonoursUser, EarlyInv, MainDownOnlyWhenDark
<1>. QED  BY <1>1, CoreInvInit, CoreInvNext, PTL DEF CoreSpec

(* The last action of pm.sh before sleep prepared for sleep.                *)
THEOREM ScriptRanForSleep == CoreSpec => []ScriptPreparedSleep
<1>1. CoreInv => ScriptPreparedSleep
  BY DEF CoreInv, WindowInv, ScriptInv, WritersInv, StageInv, ScriptPreparedSleep
<1>. QED  BY <1>1, CoreInvInit, CoreInvNext, PTL DEF CoreSpec
=============================================================================
