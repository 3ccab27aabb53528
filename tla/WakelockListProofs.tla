------------------------- MODULE WakelockListProofs --------------------------
(***************************************************************************)
(* Proofs about module WakelockList, for any number of locks and any        *)
(* timeouts: the order that wake_lock_internal keeps is what makes one walk *)
(* that stops at the first permanent lock enough.                           *)
(***************************************************************************)
EXTENDS WakelockList, WakelockProofs, WellFoundedInduction

(* Permanent locks first: after a lock with a timeout, of the set e, there  *)
(* are only such locks.                                                     *)
Sorted(list, e) ==
    \A i, j \in 1..Len(list) : i < j /\ list[i] \in e => list[j] \in e

\* The inductive invariant.
ListInv ==
    /\ WakelockTypeOK
    /\ active_wake_locks \in Seq(Locks)
    /\ ListIsActive
    /\ Sorted(active_wake_locks, auto)

----------------------------------------------------------------------------
(* A set that holds 0 and, with a number, the next one up to n, holds every *)
(* number up to n: a least number that is missing cannot be.                *)
LEMMA Induction ==
    ASSUME NEW n \in Nat, NEW S, 0 \in S, \A i \in 1..n : i - 1 \in S => i \in S
    PROVE  \A i \in 0..n : i \in S
<1> DEFINE R == OpToRel(<, Nat)
           T == {i \in 0..n : i \notin S}
<1>1. SUFFICES ASSUME T # {} PROVE FALSE
  OBVIOUS
<1>2. IsWellFoundedOn(R, Nat)
  BY NatLessThanWellFounded
<1>3. PICK x \in T : \A y \in T : ~ (<<y, x>> \in R)
  <2>1. T \subseteq Nat
    OBVIOUS
  <2> HIDE DEF R, T
  <2>. QED  BY <1>1, <1>2, <2>1, WFMin
<1>4. x \in 1..n /\ x - 1 \in 0..n
  OBVIOUS
<1>5. x - 1 \in T
  BY <1>4
<1>6. <<x - 1, x>> \in R
  BY <1>4 DEF OpToRel
<1>. QED  BY <1>3, <1>5, <1>6

\* The function f on 0..n begins with b, and s leads from a value to the next.
IsRecursion(f, n, b, s) ==
    f = [i \in 0..n |-> IF i = 0 THEN b ELSE s[<<f[i - 1], i>>]]

(* A recursive function on 0..n exists, for a step of a set T into itself.  *)
LEMMA RecursionExists ==
    ASSUME NEW n \in Nat, NEW T, NEW b \in T, NEW s \in [T \X (1..n) -> T]
    PROVE  \E f \in [0..n -> T] : IsRecursion(f, n, b, s)
<1> DEFINE Rec(f, k) == /\ f \in [0..k -> T]
                        /\ f = [i \in 0..k |-> IF i = 0 THEN b ELSE s[<<f[i - 1], i>>]]
           S == {k \in 0..n : \E f : Rec(f, k)}
<1>1. 0 \in S
  <2>1. Rec([i \in 0..0 |-> b], 0)
    OBVIOUS
  <2> HIDE DEF Rec
  <2>. QED  BY <2>1
<1>2. ASSUME NEW k \in 1..n, k - 1 \in S PROVE k \in S
  <2>1. PICK f : Rec(f, k - 1)
    BY <1>2
  <2> DEFINE g == [i \in 0..k |-> IF i = k THEN s[<<f[k - 1], k>>] ELSE f[i]]
  <2>2. f[k - 1] \in T /\ s[<<f[k - 1], k>>] \in T
    <3>1. f[k - 1] \in T
      BY <2>1
    <3>2. <<f[k - 1], k>> \in T \X (1..n)
      BY <3>1
    <3>. QED  BY <3>1, <3>2
  <2>3. g \in [0..k -> T]
    BY <2>1, <2>2
  <2>4. ASSUME NEW i \in 0..k PROVE g[i] = IF i = 0 THEN b ELSE s[<<g[i - 1], i>>]
    <3>1. i # 0 => g[i - 1] = f[i - 1]
      OBVIOUS
    <3>2. CASE i = k
      <4>1. g[i] = s[<<f[i - 1], i>>] /\ i # 0
        BY <3>2
      <4> HIDE DEF g
      <4>. QED  BY <3>1, <4>1
    <3>3. CASE i # k
      <4>1. i \in 0..(k - 1) /\ g[i] = f[i]
        BY <3>3
      <4>2. f[i] = IF i = 0 THEN b ELSE s[<<f[i - 1], i>>]
        BY <2>1, <4>1
      <4>. QED  BY <3>1, <4>1, <4>2
    <3>. QED  BY <3>2, <3>3
  <2>5. Rec(g, k)
    <3>1. g = [i \in 0..k |-> g[i]]
      OBVIOUS
    <3> HIDE DEF g
    <3>. QED  BY <2>3, <2>4, <3>1
  <2> HIDE DEF Rec
  <2>. QED  BY <2>5
<1>3. n \in S
  <2> HIDE DEF S
  <2>. QED  BY <1>1, <1>2, Induction
<1>. QED  BY <1>3 DEF IsRecursion

----------------------------------------------------------------------------
(* What list_del leaves: the other locks, each as often and in the same     *)
(* order as before.                                                         *)
LEMMA WithoutFacts ==
    ASSUME NEW list \in Seq(Locks), NEW D, NEW e
    PROVE  /\ Without(list, D) \in Seq(Locks)
           /\ Range(Without(list, D)) = Range(list) \ D
           /\ IsInjective(list) => IsInjective(Without(list, D))
           /\ Sorted(list, e) => Sorted(Without(list, D), e)
<1> DEFINE n == Len(list)
           Del(r, i) == IF list[i] \in D THEN r ELSE Append(r, list[i])
           Eq(f) == f = [i \in 0..n |-> IF i = 0 THEN <<>> ELSE Del(f[i - 1], i)]
           rest == CHOOSE f : Eq(f)
<1>1. n \in Nat /\ \A i \in 1..n : list[i] \in Locks
  OBVIOUS
<1>2. Without(list, D) = rest[n]
  BY DEF Without
<1>3. Eq(rest)
  <2> DEFINE s == [x \in Seq(Locks) \X (1..n) |-> Del(x[1], x[2])]
             none == <<>>
  <2>1. none \in Seq(Locks)
    OBVIOUS
  <2>2. s \in [Seq(Locks) \X (1..n) -> Seq(Locks)]
    <3>1. \A r \in Seq(Locks), i \in 1..n : Del(r, i) \in Seq(Locks)
      BY <1>1
    <3> HIDE DEF Del, n
    <3>. QED  BY <3>1
  <2>3. PICK f \in [0..n -> Seq(Locks)] : IsRecursion(f, n, none, s)
    <3> HIDE DEF s, n, none
    <3>. QED  BY <1>1, <2>1, <2>2, RecursionExists
  <2>4. \A i \in 0..n : i # 0 => s[<<f[i - 1], i>>] = Del(f[i - 1], i)
    <3>1. \A i \in 0..n : i # 0 => f[i - 1] \in Seq(Locks) /\ i \in 1..n
      BY <1>1
    <3> HIDE DEF Del, n
    <3>. QED  BY <3>1
  <2>5. Eq(f)
    <3> HIDE DEF Del, n, s
    <3>. QED  BY <2>3, <2>4 DEF IsRecursion
  <2>. QED
    <3> HIDE DEF Eq
    <3>. QED  BY <2>5
<1> HIDE DEF rest
<1>4. rest[0] = <<>> /\ \A i \in 1..n : rest[i] = Del(rest[i - 1], i)
  <2> HIDE DEF n, Del
  <2>. QED  BY <1>1, <1>3
<1> DEFINE Good(i) ==
             /\ rest[i] \in Seq(Locks)
             /\ \A k \in 1..Len(rest[i]) : \E j \in 1..i : rest[i][k] = list[j] /\ list[j] \notin D
             /\ \A j \in 1..i : list[j] \notin D => \E k \in 1..Len(rest[i]) : rest[i][k] = list[j]
             /\ IsInjective(list) =>
                   \A k, m \in 1..Len(rest[i]) : rest[i][k] = rest[i][m] => k = m
             /\ Sorted(list, e) => Sorted(rest[i], e)
           S == {i \in 0..n : Good(i)}
<1>5. 0 \in S
  <2>1. rest[0] \in Seq(Locks) /\ Len(rest[0]) = 0 /\ 1..0 = {}
    BY <1>4
  <2>2. Good(0)
    BY <2>1 DEF Sorted
  <2> HIDE DEF Good
  <2>. QED  BY <1>1, <2>2
<1>6. ASSUME NEW i \in 1..n, Good(i - 1) PROVE Good(i)
  <2> DEFINE r == rest[i - 1]
  <2>1. /\ r \in Seq(Locks) /\ list[i] \in Locks /\ Len(r) \in Nat
        /\ i \in Nat /\ i - 1 \in Nat /\ \A j \in 1..i : j \in 1..(i - 1) \/ j = i
    BY <1>1, <1>6
  <2>2. /\ \A k \in 1..Len(r) : \E j \in 1..(i - 1) : r[k] = list[j] /\ list[j] \notin D
        /\ \A j \in 1..(i - 1) : list[j] \notin D => \E k \in 1..Len(r) : r[k] = list[j]
        /\ IsInjective(list) => \A k, m \in 1..Len(r) : r[k] = r[m] => k = m
        /\ Sorted(list, e) => Sorted(r, e)
    BY <1>6
  <2>3. rest[i] = Del(r, i)
    BY <1>4
  <2> HIDE DEF r
  <2>4. CASE list[i] \in D
    <3>1. rest[i] = r
      BY <2>3, <2>4
    <3>. QED  BY <2>1, <2>2, <2>4, <3>1
  <2>5. CASE list[i] \notin D
    <3> DEFINE q == Append(r, list[i])
    <3>1. rest[i] = q
      BY <2>3, <2>5
    <3>2. /\ q \in Seq(Locks) /\ Len(q) = Len(r) + 1 /\ q[Len(q)] = list[i]
          /\ \A k \in 1..Len(r) : q[k] = r[k]
          /\ \A k \in 1..Len(q) : k \in 1..Len(r) \/ k = Len(q)
      BY <2>1
    <3> HIDE DEF q
    <3>a. i \in 1..i /\ Len(q) \in 1..Len(q) /\ (\A j \in 1..(i - 1) : j \in 1..i)
          /\ \A k \in 1..Len(r) : k \in 1..Len(q)
      BY <2>1, <3>2
    <3>3. ASSUME NEW k \in 1..Len(q)
          PROVE  \E j \in 1..i : q[k] = list[j] /\ list[j] \notin D
      <4>1. CASE k \in 1..Len(r)
        <5>1. PICK j \in 1..(i - 1) : r[k] = list[j] /\ list[j] \notin D
          BY <2>2, <4>1
        <5>. QED  BY <3>2, <3>a, <4>1, <5>1
      <4>2. CASE k = Len(q)
        BY <2>5, <3>2, <3>a, <4>2
      <4>. QED  BY <3>2, <4>1, <4>2
    <3>4. ASSUME NEW j \in 1..i, list[j] \notin D
          PROVE  \E k \in 1..Len(q) : q[k] = list[j]
      BY <2>1, <2>2, <3>2, <3>4, <3>a
    <3>5. ASSUME IsInjective(list), NEW k \in 1..Len(q), NEW m \in 1..Len(q), q[k] = q[m]
          PROVE  k = m
      <4>1. \A j \in 1..(i - 1) : list[j] # list[i]
        BY <1>1, <3>5 DEF IsInjective
      <4>2. \A t \in 1..Len(r) : r[t] # list[i]
        BY <2>2, <4>1
      <4>. QED  BY <2>2, <3>2, <3>5, <4>2
    <3>6. ASSUME Sorted(list, e), NEW k \in 1..Len(q), NEW m \in 1..Len(q), k < m, q[k] \in e
          PROVE  q[m] \in e
      <4>1. k \in 1..Len(r)
        BY <2>1, <3>2, <3>6
      <4>2. PICK j \in 1..(i - 1) : r[k] = list[j]
        BY <2>2, <4>1
      <4>3. list[i] \in e
        BY <1>1, <3>2, <3>6, <4>1, <4>2 DEF Sorted
      <4>4. m \in 1..Len(r) => r[m] \in e
        BY <2>2, <3>2, <3>6, <4>1 DEF Sorted
      <4>. QED  BY <3>2, <4>3, <4>4
    <3>7. Sorted(list, e) => Sorted(q, e)
      BY <3>6 DEF Sorted
    <3>. QED  BY <3>1, <3>2, <3>3, <3>4, <3>5, <3>7
  <2>. QED  BY <2>4, <2>5
<1>7. n \in S
  <2>1. \A i \in 1..n : i - 1 \in S => i \in S
    <3> HIDE DEF Good
    <3>. QED  BY <1>1, <1>6
  <2>2. n \in Nat
    BY <1>1
  <2> HIDE DEF S, n
  <2>3. \A i \in 0..n : i \in S
    BY <1>5, <2>1, <2>2, Induction
  <2>. QED  BY <2>2, <2>3
<1>8. Good(n)
  <2> HIDE DEF Good
  <2>. QED  BY <1>7
<1>9. DOMAIN list = 1..n /\ DOMAIN rest[n] = 1..Len(rest[n])
  BY <1>8
<1>10. Range(rest[n]) = Range(list) \ D
  <2>1. \A x : x \in Range(rest[n]) <=> \E k \in 1..Len(rest[n]) : x = rest[n][k]
    BY <1>9 DEF Range
  <2>2. \A x : x \in Range(list) <=> \E j \in 1..n : x = list[j]
    BY <1>9 DEF Range
  <2>3. ASSUME NEW x \in Range(rest[n]) PROVE x \in Range(list) \ D
    <3>1. PICK k \in 1..Len(rest[n]) : x = rest[n][k]
      BY <2>1
    <3>2. PICK j \in 1..n : x = list[j] /\ list[j] \notin D
      BY <1>8, <3>1
    <3>. QED  BY <2>2, <3>2
  <2>4. ASSUME NEW x \in Range(list) \ D PROVE x \in Range(rest[n])
    <3>1. PICK j \in 1..n : x = list[j]
      BY <2>2
    <3>2. PICK k \in 1..Len(rest[n]) : rest[n][k] = list[j]
      BY <1>8, <3>1
    <3>. QED  BY <2>1, <3>1, <3>2
  <2>. QED  BY <2>3, <2>4
<1>11. IsInjective(list) => IsInjective(rest[n])
  BY <1>8, <1>9 DEF IsInjective
<1>. QED  BY <1>2, <1>8, <1>10, <1>11

\* What the walk may have found: its return value and the locks it expires.
Found == [ret : Int, gone : SUBSET Locks]

\* The walk has found what the locks P call for.
Right(w, P, e, lf) ==
    w \in Found /\ IsHasWakeLock(w.ret, P, e, lf) /\ w.gone = Expired(P, e, lf)

(* The right answer for the locks P remains right when the walk goes on to  *)
(* the next lock, provided that a permanent lock does not follow a timed    *)
(* one.                                                                     *)
LEMMA WalkOn ==
    ASSUME NEW P, NEW l \in Locks, NEW e, NEW lf \in [Locks -> 0..MaxTimeout], NEW w,
           P \subseteq Locks, l \in e \/ P \ e # {} \/ P = {}, Right(w, P, e, lf)
    PROVE  Right(WalkStep(e, lf, w, l), P \cup {l}, e, lf)
<1> DEFINE v == WalkStep(e, lf, w, l)
           Q == P \cup {l}
<1>s. SUFFICES v \in Found /\ IsHasWakeLock(v.ret, Q, e, lf) /\ v.gone = Expired(Q, e, lf)
  BY DEF Right
<1>r. w \in Found /\ IsHasWakeLock(w.ret, P, e, lf) /\ w.gone = Expired(P, e, lf)
  BY DEF Right
<1>0. /\ w.ret \in Int /\ w.gone \in SUBSET Locks
      /\ \A k \in Locks : lf[k] \in Int /\ lf[k] >= 0
  BY <1>r, WakelockAssumption DEF Found
<1>1. CASE w.ret = -1
  <2>1. P \ e # {} /\ Q \ e # {}
    BY <1>0, <1>1, <1>r DEF IsHasWakeLock
  <2>2. v = w
    BY <1>1 DEF WalkStep
  <2> HIDE DEF v, Q
  <2>. QED  BY <1>1, <1>r, <2>1, <2>2 DEF IsHasWakeLock, Expired
<1>2. CASE w.ret # -1
  <2>0. P \ e = {} /\ \A k \in P : lf[k] <= w.ret
    BY <1>2, <1>r DEF IsHasWakeLock
  <2>1. w.ret >= 0 /\ w.gone = {k \in P : lf[k] = 0}
    BY <1>0, <1>2, <1>r, <2>0 DEF IsHasWakeLock, Expired
  <2>2. CASE l \notin e
    <3>1. P = {} /\ w.gone = {}
      BY <2>0, <2>1, <2>2
    <3>2. v = [w EXCEPT !.ret = -1]
      BY <1>2, <2>2 DEF WalkStep
    <3>3. v \in Found /\ v.ret = -1 /\ v.gone = {}
      BY <1>r, <3>1, <3>2 DEF Found
    <3> HIDE DEF v
    <3>4. Q \ e # {}
      BY <2>2
    <3> HIDE DEF Q
    <3>. QED  BY <3>3, <3>4 DEF IsHasWakeLock, Expired
  <2>3. CASE l \in e /\ lf[l] = 0
    <3>1. v = [w EXCEPT !.gone = @ \cup {l}]
      BY <1>2, <2>3 DEF WalkStep
    <3>2. v \in Found /\ v.ret = w.ret /\ v.gone = w.gone \cup {l}
      BY <1>0, <1>r, <3>1 DEF Found
    <3> HIDE DEF v
    <3>3. Q \ e = {}
      BY <2>0, <2>3
    <3>4. \A k \in Q : lf[k] <= w.ret
      BY <2>0, <2>1, <2>3
    <3>5. w.ret = 0 \/ \E k \in Q : lf[k] = w.ret
      BY <1>2, <1>r, <2>0 DEF IsHasWakeLock
    <3>6. {k \in P : lf[k] = 0} \cup {l} = {k \in Q : lf[k] = 0}
      BY <2>3
    <3> HIDE DEF Q
    <3>. QED  BY <2>1, <3>2, <3>3, <3>4, <3>5, <3>6 DEF IsHasWakeLock, Expired
  <2>4. CASE l \in e /\ lf[l] # 0
    <3> DEFINE m == IF lf[l] > w.ret THEN lf[l] ELSE w.ret
    <3>1. v = [w EXCEPT !.ret = m]
      BY <1>2, <2>4 DEF WalkStep
    <3>0. m \in Int /\ lf[l] <= m /\ w.ret <= m /\ m \in {lf[l], w.ret} /\ m # 0
      BY <1>0, <2>1, <2>4
    <3> HIDE DEF m
    <3>2. v \in Found /\ v.ret = m /\ v.gone = w.gone
      BY <1>0, <1>r, <3>0, <3>1 DEF Found
    <3> HIDE DEF v
    <3>3. Q \ e = {}
      BY <2>0, <2>4
    <3>4. \A k \in Q : lf[k] <= m
      <4>1. \A k \in P : lf[k] \in Int /\ lf[k] <= w.ret
        BY <1>0, <2>0
      <4>2. ASSUME NEW k \in P PROVE lf[k] <= m
        <5>1. lf[k] \in Int /\ lf[k] <= w.ret
          BY <4>1
        <5>2. w.ret \in Int /\ w.ret <= m /\ m \in Int
          BY <1>0, <3>0
        <5>. QED  BY <5>1, <5>2
      <4>. QED  BY <3>0, <4>2
    <3>5. \E k \in Q : lf[k] = m
      <4>1. w.ret = 0 \/ \E k \in P : lf[k] = w.ret
        BY <1>2, <1>r, <2>0 DEF IsHasWakeLock
      <4>. QED  BY <3>0, <4>1
    <3>6. {k \in P : lf[k] = 0} = {k \in Q : lf[k] = 0}
      BY <2>4
    <3> HIDE DEF Q
    <3>. QED  BY <2>1, <3>2, <3>3, <3>4, <3>5, <3>6 DEF IsHasWakeLock, Expired
  <2>. QED  BY <2>2, <2>3, <2>4
<1>. QED  BY <1>1, <1>2

(* One walk over a list with the permanent locks first, though it stops at  *)
(* the first of them, finds what the whole list calls for.                  *)
LEMMA WalkFacts ==
    ASSUME NEW list \in Seq(Locks), NEW e, NEW lf \in [Locks -> 0..MaxTimeout], Sorted(list, e)
    PROVE  /\ IsHasWakeLock(Walk(list, e, lf).ret, Range(list), e, lf)
           /\ Walk(list, e, lf).gone = Expired(Range(list), e, lf)
<1> DEFINE n == Len(list)
           none == [ret |-> 0, gone |-> {}]
           On(w, i) == WalkStep(e, lf, w, list[i])
           Eq(f) == f = [i \in 0..n |-> IF i = 0 THEN none ELSE On(f[i - 1], i)]
           walk == CHOOSE f : Eq(f)
           P(i) == {list[j] : j \in 1..i}
<1>1. n \in Nat /\ \A i \in 1..n : list[i] \in Locks
  OBVIOUS
<1>2. Walk(list, e, lf) = walk[n]
  BY DEF Walk
<1>3. none \in Found
  BY DEF Found
<1>4. Eq(walk)
  <2> DEFINE s == [x \in Found \X (1..n) |-> On(x[1], x[2])]
  <2>1. \A w \in Found, i \in 1..n : On(w, i) \in Found
    <3> SUFFICES ASSUME NEW w \in Found, NEW i \in 1..n PROVE On(w, i) \in Found
      OBVIOUS
    <3>1. list[i] \in Locks /\ lf[list[i]] \in Int
      BY <1>1, WakelockAssumption
    <3> HIDE DEF n
    <3>. QED  BY <3>1 DEF WalkStep, Found
  <2>2. s \in [Found \X (1..n) -> Found]
    <3> HIDE DEF On, n
    <3>. QED  BY <2>1
  <2>3. PICK f \in [0..n -> Found] : IsRecursion(f, n, none, s)
    <3> HIDE DEF s, n, none
    <3>. QED  BY <1>1, <1>3, <2>2, RecursionExists
  <2>4. \A i \in 0..n : i # 0 => s[<<f[i - 1], i>>] = On(f[i - 1], i)
    <3>1. \A i \in 0..n : i # 0 => f[i - 1] \in Found /\ i \in 1..n
      BY <1>1
    <3> HIDE DEF On, n
    <3>. QED  BY <3>1
  <2>5. Eq(f)
    <3> HIDE DEF On, n, s, none
    <3>. QED  BY <2>3, <2>4 DEF IsRecursion
  <2>. QED
    <3> HIDE DEF Eq
    <3>. QED  BY <2>5
<1> HIDE DEF walk
<1>5. walk[0] = none /\ \A i \in 1..n : walk[i] = On(walk[i - 1], i)
  <2> HIDE DEF n, On, none
  <2>. QED  BY <1>1, <1>4
<1> DEFINE Good(i) == Right(walk[i], P(i), e, lf)
           S == {i \in 0..n : Good(i)}
<1>6. 0 \in S
  <2>1. P(0) = {}
    OBVIOUS
  <2>2. walk[0].ret = 0 /\ walk[0].gone = {}
    BY <1>5
  <2> HIDE DEF P
  <2>3. Good(0)
    BY <1>3, <1>5, <2>1, <2>2 DEF Right, IsHasWakeLock, Expired
  <2> HIDE DEF Good
  <2>. QED  BY <1>1, <2>3
<1>7. ASSUME NEW i \in 1..n, Good(i - 1) PROVE Good(i)
  <2>1. P(i) = P(i - 1) \cup {list[i]}
    <3>1. \A j : j \in 1..i <=> j \in 1..(i - 1) \/ j = i
      BY <1>1
    <3>. QED  BY <3>1
  <2>2. P(i - 1) \in SUBSET Locks
    BY <1>1
  <2>3. list[i] \in e \/ P(i - 1) \ e # {} \/ P(i - 1) = {}
    <3> SUFFICES ASSUME NEW x \in P(i - 1), P(i - 1) \ e = {} PROVE list[i] \in e
      OBVIOUS
    <3>1. PICK j \in 1..(i - 1) : x = list[j]
      OBVIOUS
    <3>2. j \in 1..n /\ j < i /\ list[j] \in e
      BY <1>1, <3>1
    <3>. QED  BY <3>2 DEF Sorted
  <2>4. walk[i] = On(walk[i - 1], i) /\ list[i] \in Locks
    BY <1>1, <1>5
  <2>5. P(i - 1) \subseteq Locks
    BY <2>2
  <2> HIDE DEF P, n
  <2>6. Right(WalkStep(e, lf, walk[i - 1], list[i]), P(i - 1) \cup {list[i]}, e, lf)
    BY <1>7, <2>3, <2>4, <2>5, WalkOn
  <2>. QED  BY <2>1, <2>4, <2>6
<1>8. Good(n)
  <2>1. \A i \in 1..n : i - 1 \in S => i \in S
    <3> HIDE DEF Good
    <3>. QED  BY <1>1, <1>7
  <2>2. n \in Nat
    BY <1>1
  <2> HIDE DEF S, n
  <2>3. \A i \in 0..n : i \in S
    BY <1>6, <2>1, <2>2, Induction
  <2>4. n \in S
    BY <2>2, <2>3
  <2> HIDE DEF Good
  <2>. QED  BY <2>4 DEF S
<1>9. P(n) = Range(list)
  <2>1. DOMAIN list = 1..n
    OBVIOUS
  <2>. QED  BY <2>1 DEF Range
<1>. QED
  <2> HIDE DEF P, n
  <2>. QED  BY <1>2, <1>8, <1>9 DEF Right

----------------------------------------------------------------------------
\* A list of the locks a, each once, with those outside e first.
Lists(list, a, e) ==
    list \in Seq(Locks) /\ Range(list) = a /\ IsInjective(list) /\ Sorted(list, e)

(* Which locks are on a list.                                               *)
LEMMA ListRange ==
    ASSUME NEW list \in Seq(Locks)
    PROVE  /\ \A x : x \in Range(list) <=> \E i \in 1..Len(list) : x = list[i]
           /\ IsInjective(list) <=> \A i, j \in 1..Len(list) : list[i] = list[j] => i = j
           /\ Range(list) \subseteq Locks
<1>1. DOMAIN list = 1..Len(list) /\ \A i \in 1..Len(list) : list[i] \in Locks
  OBVIOUS
<1>. QED  BY <1>1 DEF Range, IsInjective

(* Only the flags of the locks on the list matter.                          *)
LEMMA ListsAgree ==
    ASSUME NEW list, NEW a, NEW e, NEW f, Lists(list, a, e), a \cap e = a \cap f
    PROVE  Lists(list, a, f)
<1>1. \A i \in 1..Len(list) : list[i] \in a
  BY ListRange DEF Lists
<1>2. \A x \in a : x \in e <=> x \in f
  OBVIOUS
<1>. QED  BY <1>1, <1>2 DEF Lists, Sorted

(* list_del of the locks D.                                                 *)
LEMMA ListsWithout ==
    ASSUME NEW list, NEW a, NEW e, NEW D, Lists(list, a, e)
    PROVE  Lists(Without(list, D), a \ D, e)
  BY WithoutFacts DEF Lists

(* list_add of a permanent lock.                                            *)
LEMMA ListsAddHead ==
    ASSUME NEW r, NEW a, NEW e, NEW l \in Locks, Lists(r, a, e), l \notin a, l \notin e
    PROVE  Lists(<<l>> \o r, a \cup {l}, e)
<1> DEFINE q == <<l>> \o r
<1>1. r \in Seq(Locks) /\ Len(r) \in Nat
  BY DEF Lists
<1>2. /\ q \in Seq(Locks) /\ Len(q) = Len(r) + 1 /\ q[1] = l
      /\ \A i \in 1..Len(q) : i # 1 => i - 1 \in 1..Len(r) /\ q[i] = r[i - 1]
      /\ \A i \in 1..Len(r) : i + 1 \in 1..Len(q) /\ q[i + 1] = r[i]
      /\ 1 \in 1..Len(q)
  BY <1>1
<1>3. /\ \A x : x \in a <=> \E i \in 1..Len(r) : x = r[i]
      /\ \A i, j \in 1..Len(r) : r[i] = r[j] => i = j
      /\ \A i, j \in 1..Len(r) : i < j /\ r[i] \in e => r[j] \in e
  BY <1>1, ListRange DEF Lists, Sorted
<1> HIDE DEF q
<1>4. Range(q) = a \cup {l}
  <2>1. \A x : x \in Range(q) <=> \E i \in 1..Len(q) : x = q[i]
    BY <1>2, ListRange
  <2>2. ASSUME NEW x \in Range(q) PROVE x \in a \cup {l}
    BY <1>2, <1>3, <2>1
  <2>3. ASSUME NEW x \in a PROVE x \in Range(q)
    <3>1. PICK i \in 1..Len(r) : x = r[i]
      BY <1>3
    <3>. QED  BY <1>2, <2>1, <3>1
  <2>4. l \in Range(q)
    BY <1>2, <2>1
  <2>. QED  BY <2>2, <2>3, <2>4
<1>5. ASSUME NEW i \in 1..Len(q), NEW j \in 1..Len(q), q[i] = q[j] PROVE i = j
  <2>1. \A k \in 1..Len(r) : r[k] # l
    BY <1>3
  <2>2. i = 1 \/ (i - 1 \in 1..Len(r) /\ q[i] = r[i - 1])
    BY <1>2
  <2>3. j = 1 \/ (j - 1 \in 1..Len(r) /\ q[j] = r[j - 1])
    BY <1>2
  <2>4. CASE i # 1 /\ j # 1
    <3>1. i - 1 = j - 1
      BY <1>3, <1>5, <2>2, <2>3, <2>4
    <3>. QED  BY <3>1
  <2>. QED  BY <1>2, <1>5, <2>1, <2>2, <2>3, <2>4
<1>6. ASSUME NEW i \in 1..Len(q), NEW j \in 1..Len(q), i < j, q[i] \in e PROVE q[j] \in e
  <2>1. i # 1 /\ j # 1
    BY <1>2, <1>6
  <2>2. i - 1 \in 1..Len(r) /\ j - 1 \in 1..Len(r) /\ q[i] = r[i - 1] /\ q[j] = r[j - 1]
    BY <1>2, <2>1
  <2>3. i - 1 < j - 1
    BY <1>6
  <2>. QED  BY <1>3, <1>6, <2>2, <2>3
<1>7. IsInjective(q) /\ Sorted(q, e)
  BY <1>2, <1>5, <1>6, ListRange DEF Sorted
<1>. QED  BY <1>2, <1>4, <1>7 DEF Lists, q

(* list_add_tail of a lock with a timeout.                                  *)
LEMMA ListsAddTail ==
    ASSUME NEW r, NEW a, NEW e, NEW l \in Locks, Lists(r, a, e), l \notin a, l \in e
    PROVE  Lists(Append(r, l), a \cup {l}, e)
<1> DEFINE q == Append(r, l)
<1>1. r \in Seq(Locks) /\ Len(r) \in Nat
  BY DEF Lists
<1>2. /\ q \in Seq(Locks) /\ Len(q) = Len(r) + 1 /\ q[Len(q)] = l
      /\ \A i \in 1..Len(q) : i \in 1..Len(r) \/ i = Len(q)
      /\ \A i \in 1..Len(r) : i \in 1..Len(q) /\ q[i] = r[i] /\ i < Len(q)
      /\ Len(q) \in 1..Len(q)
  BY <1>1
<1>3. /\ \A x : x \in a <=> \E i \in 1..Len(r) : x = r[i]
      /\ \A i, j \in 1..Len(r) : r[i] = r[j] => i = j
      /\ \A i, j \in 1..Len(r) : i < j /\ r[i] \in e => r[j] \in e
  BY <1>1, ListRange DEF Lists, Sorted
<1> HIDE DEF q
<1>4. Range(q) = a \cup {l}
  <2>1. \A x : x \in Range(q) <=> \E i \in 1..Len(q) : x = q[i]
    BY <1>2, ListRange
  <2>2. ASSUME NEW x \in Range(q) PROVE x \in a \cup {l}
    BY <1>2, <1>3, <2>1
  <2>3. ASSUME NEW x \in a PROVE x \in Range(q)
    <3>1. PICK i \in 1..Len(r) : x = r[i]
      BY <1>3
    <3>. QED  BY <1>2, <2>1, <3>1
  <2>4. l \in Range(q)
    BY <1>2, <2>1
  <2>. QED  BY <2>2, <2>3, <2>4
<1>5. ASSUME NEW i \in 1..Len(q), NEW j \in 1..Len(q), q[i] = q[j] PROVE i = j
  <2>1. \A k \in 1..Len(r) : r[k] # l
    BY <1>3
  <2>. QED  BY <1>2, <1>3, <1>5, <2>1
<1>6. ASSUME NEW i \in 1..Len(q), NEW j \in 1..Len(q), i < j, q[i] \in e PROVE q[j] \in e
  BY <1>2, <1>3, <1>6
<1>7. IsInjective(q) /\ Sorted(q, e)
  BY <1>2, <1>5, <1>6, ListRange DEF Sorted
<1>. QED  BY <1>2, <1>4, <1>7 DEF Lists, q

(* What a walk leaves on the list is what Collect leaves active.            *)
LEMMA ListsAfterWalk ==
    ASSUME NEW list, NEW a, NEW e, NEW lf \in [Locks -> 0..MaxTimeout], Lists(list, a, e)
    PROVE  Lists(AfterWalk(list, e, lf), a \ Expired(a, e, lf), e \ Expired(a, e, lf))
<1> DEFINE x == Expired(a, e, lf)
<1>1. Walk(list, e, lf).gone = x
  BY WalkFacts DEF Lists
<1>2. Lists(AfterWalk(list, e, lf), a \ x, e)
  <2> HIDE DEF x
  <2>. QED  BY <1>1, ListsWithout DEF AfterWalk
<1>3. (a \ x) \cap e = (a \ x) \cap (e \ x)
  OBVIOUS
<1> HIDE DEF x
<1>4. Lists(AfterWalk(list, e, lf), a \ x, e \ x)
  BY <1>2, <1>3, ListsAgree
<1>. QED  BY <1>4 DEF x

----------------------------------------------------------------------------
(* The invariant in terms of lists.                                         *)
LEMMA ListInvIs == ListInv <=> WakelockTypeOK /\ Lists(active_wake_locks, active, auto)
  BY DEF ListInv, Lists, ListIsActive

(* The lists when the locks are set up.                                     *)
LEMMA ListInvInit == ListInit => ListInv
<1> SUFFICES ASSUME ListInit PROVE ListInv
  OBVIOUS
<1>1. WakelockTypeOK
  BY WakelockTypeInit DEF ListInit
<1>2. active_wake_locks = <<main_wake_lock>> /\ active = {main_wake_lock} /\ main_wake_lock \in Locks
  BY WakelockAssumption DEF ListInit, WakelockInit
<1>3. /\ active_wake_locks \in Seq(Locks) /\ Len(active_wake_locks) = 1
      /\ active_wake_locks[1] = main_wake_lock /\ \A i \in 1..1 : i = 1
  BY <1>2
<1>4. Range(active_wake_locks) = active /\ IsInjective(active_wake_locks)
  <2>1. /\ \A x : x \in Range(active_wake_locks) <=> \E i \in 1..1 : x = active_wake_locks[i]
        /\ \A i, j \in 1..1 : i = j
        /\ 1 \in 1..1
    BY <1>3, ListRange
  <2>2. IsInjective(active_wake_locks)
    BY <1>3, <2>1, ListRange
  <2>3. \A x : x \in Range(active_wake_locks) <=> x = main_wake_lock
    BY <1>3, <2>1
  <2>. QED  BY <1>2, <2>2, <2>3
<1>5. Sorted(active_wake_locks, auto)
  BY <1>3 DEF Sorted
<1>. QED  BY <1>1, <1>3, <1>4, <1>5 DEF ListInv, ListIsActive

(* Each operation on the list is the operation of module Wakelock.          *)
LEMMA ListStepIsStep == ListNext => WakelockNext
<1> SUFFICES ASSUME ListNext PROVE WakelockNext
  OBVIOUS
<1>1. ASSUME NEW l \in Clients,
             \/ \E t \in 0..MaxTimeout : ListLockTimeout(l, t) /\ UNCHANGED worker
             \/ ListDestroy(l) \/ wake_lock_init(l)
      PROVE  WakelockNext
  BY <1>1 DEF ListLockTimeout, ListDestroy, ClientStep, WakelockNext
<1>2. ASSUME NEW l \in Clients, ListLock(l) \/ ListUnlock(l) PROVE WakelockNext
  BY <1>2 DEF ListLock, ListUnlock, ClientStep, WakelockNext
<1>3. CASE ListLock(main_wake_lock) \/ ListUnlock(main_wake_lock)
  BY <1>3 DEF ListLock, ListUnlock, MainStep, WakelockNext
<1>4. CASE ListAsk
  BY <1>4 DEF ListAsk, SuspendWork, WakelockNext
<1>5. CASE \/ suspend_unknown \/ Tick \/ TimerFires \/ run_workqueue \/ suspend_entry
           \/ suspend_exit \/ pm_suspend_returns
  BY <1>5 DEF SuspendWork, WakelockNext
<1>. QED  BY <1>1, <1>2, <1>3, <1>4, <1>5 DEF ListNext

(* wake_lock moves a lock to the head.                                      *)
LEMMA ListLockStep ==
    ASSUME ListInv, NEW l \in Locks, wake_lock(l), active_wake_locks' = AtHead(l)
    PROVE  Lists(active_wake_locks, active, auto)'
<1> DEFINE r == Without(active_wake_locks, {l})
<1>1. Lists(r, active \ {l}, auto)
  BY ListInvIs, ListsWithout
<1> HIDE DEF r
<1>2. Lists(r, active \ {l}, auto \ {l})
  BY <1>1, ListsAgree
<1>3. Lists(<<l>> \o r, (active \ {l}) \cup {l}, auto \ {l})
  BY <1>2, ListsAddHead
<1>4. active' = (active \ {l}) \cup {l} /\ auto' = auto \ {l} /\ active_wake_locks' = <<l>> \o r
  BY DEF wake_lock, AtHead, r
<1>. QED  BY <1>3, <1>4 DEF Lists, Sorted

(* wake_lock_timeout moves a lock to the tail, then walks over the list.    *)
LEMMA ListLockTimeoutStep ==
    ASSUME ListInv, NEW l \in Locks, NEW t \in 0..MaxTimeout, ListLockTimeout(l, t)
    PROVE  Lists(active_wake_locks, active, auto)'
<1> DEFINE r == Without(active_wake_locks, {l})
           a == active \cup {l}
           e == auto \cup {l}
           lf == [left EXCEPT ![l] = t]
<1>1. Lists(r, active \ {l}, auto)
  BY ListInvIs, ListsWithout
<1>2. lf \in [Locks -> 0..MaxTimeout]
  BY DEF ListInv, WakelockTypeOK
<1>3. (active \ {l}) \cap auto = (active \ {l}) \cap e /\ (active \ {l}) \cup {l} = a
  OBVIOUS
<1>4. active_wake_locks' = AfterWalk(Append(r, l), e, lf)
  BY DEF ListLockTimeout, AtTail
<1>5. Collect(a, e, lf)
  BY DEF ListLockTimeout, wake_lock_timeout
<1>6. l \in e
  OBVIOUS
<1> HIDE DEF r, e, lf
<1>7. Lists(r, active \ {l}, e)
  BY <1>1, <1>3, ListsAgree
<1>8. Lists(Append(r, l), a, e)
  BY <1>3, <1>6, <1>7, ListsAddTail
<1> HIDE DEF a
<1>9. Lists(active_wake_locks', active', auto')
  BY <1>2, <1>4, <1>5, <1>8, ListsAfterWalk DEF Collect
<1>. QED  BY <1>9 DEF Lists, Sorted

(* wake_unlock takes a lock off, then walks over the list.                  *)
LEMMA ListUnlockStep ==
    ASSUME ListInv, NEW l \in Locks, ListUnlock(l)
    PROVE  Lists(active_wake_locks, active, auto)'
<1> DEFINE r == Without(active_wake_locks, {l})
           a == active \ {l}
           lf == [left EXCEPT ![l] = 0]
           x == Expired(a, auto, left)
<1>1. Lists(r, a, auto)
  BY ListInvIs, ListsWithout
<1>2. left \in [Locks -> 0..MaxTimeout] /\ active \subseteq Locks
  BY DEF ListInv, WakelockTypeOK
<1>3. Expired(a, auto \ {l}, lf) = x
  <2>1. a \ (auto \ {l}) = a \ auto /\ \A k \in a : lf[k] = left[k]
    BY <1>2
  <2>. QED  BY <2>1 DEF Expired
<1>4. active_wake_locks' = AfterWalk(r, auto, left)
  BY DEF ListUnlock
<1>5. active' = a \ x /\ auto' = (auto \ {l}) \ x
  BY <1>3 DEF ListUnlock, wake_unlock, Collect
<1>6. Lists(AfterWalk(r, auto, left), a \ x, auto \ x)
  <2> HIDE DEF a, r
  <2>. QED  BY <1>1, <1>2, ListsAfterWalk
<1>7. (a \ x) \cap (auto \ x) = (a \ x) \cap ((auto \ {l}) \ x)
  OBVIOUS
<1> HIDE DEF a, x, r
<1>8. Lists(active_wake_locks', active', auto')
  BY <1>4, <1>5, <1>6, <1>7, ListsAgree
<1>. QED  BY <1>8 DEF Lists, Sorted

(* wake_lock_destroy takes a lock off and looks no further.                 *)
LEMMA ListDestroyStep ==
    ASSUME ListInv, NEW l \in Locks, ListDestroy(l)
    PROVE  Lists(active_wake_locks, active, auto)'
<1>1. Lists(Without(active_wake_locks, {l}), active \ {l}, auto)
  BY ListInvIs, ListsWithout
<1>2. /\ active_wake_locks' = Without(active_wake_locks, {l})
      /\ active' = active \ {l} /\ auto' = auto \ {l}
  BY DEF ListDestroy, wake_lock_destroy
<1>3. Lists(active_wake_locks', active', auto')
  BY <1>1, <1>2, ListsAgree
<1>. QED  BY <1>3 DEF Lists, Sorted

(* A bare walk.                                                             *)
LEMMA ListAskStep ==
    ASSUME ListInv, ListAsk PROVE Lists(active_wake_locks, active, auto)'
<1>1. Collect(active, auto, left)
  BY DEF ListAsk, expire_wake_locks, suspend_check, pm_suspend_asks, has_wake_lock
<1>2. active_wake_locks' = AfterWalk(active_wake_locks, auto, left)
  BY DEF ListAsk
<1>3. left \in [Locks -> 0..MaxTimeout]
  BY DEF ListInv, WakelockTypeOK
<1>4. Lists(active_wake_locks', active', auto')
  BY <1>1, <1>2, <1>3, ListInvIs, ListsAfterWalk DEF Collect
<1>. QED  BY <1>4 DEF Lists, Sorted

(* Every step preserves the invariant.                                      *)
LEMMA ListInvNext == ASSUME ListInv, [ListNext]_listVars PROVE ListInv'
<1>1. WakelockTypeOK'
  <2>1. [WakelockNext]_wakelockVars
    BY ListStepIsStep DEF listVars
  <2>. QED  BY <2>1, WakelockTypeNext DEF ListInv
<1>2. Lists(active_wake_locks, active, auto)'
  <2>1. CASE UNCHANGED <<active_wake_locks, active, auto>>
    BY <2>1, ListInvIs DEF Lists, Sorted
  <2>2. ASSUME NEW l \in Clients,
               \/ \E t \in 0..MaxTimeout : ListLockTimeout(l, t)
               \/ ListDestroy(l)
        PROVE  Lists(active_wake_locks, active, auto)'
    BY <2>2, ListLockTimeoutStep, ListDestroyStep DEF Clients
  <2>3. ASSUME NEW l \in Clients \cup {main_wake_lock}, ListLock(l) \/ ListUnlock(l)
        PROVE  Lists(active_wake_locks, active, auto)'
    BY <2>3, ListLockStep, ListUnlockStep, WakelockAssumption DEF Clients, ListLock
  <2>4. CASE ListAsk
    BY <2>4, ListAskStep
  <2>5. CASE ListLockTimeout(unknown_wakeup, UnknownTimeout)
    <3>1. unknown_wakeup \in Locks /\ UnknownTimeout \in 0..MaxTimeout
      BY WakelockAssumption
    <3>. QED  BY <2>5, <3>1, ListLockTimeoutStep
  <2>6. ASSUME NEW l \in Clients, wake_lock_init(l), UNCHANGED active_wake_locks
        PROVE  UNCHANGED <<active_wake_locks, active, auto>>
    BY <2>6 DEF wake_lock_init
  <2>7. ASSUME \/ Tick \/ TimerFires \/ run_workqueue \/ suspend_entry
               \/ suspend_exit \/ pm_suspend_returns,
               UNCHANGED active_wake_locks
        PROVE  UNCHANGED <<active_wake_locks, active, auto>>
    BY <2>7 DEF Tick, TimerFires, run_workqueue, suspend_entry, suspend_exit, pm_suspend_returns
  <2>8. UNCHANGED listVars => UNCHANGED <<active_wake_locks, active, auto>>
    BY DEF listVars, wakelockVars
  <2>. QED  BY <2>1, <2>2, <2>3, <2>4, <2>5, <2>6, <2>7, <2>8 DEF ListNext
<1>3. (WakelockTypeOK /\ Lists(active_wake_locks, active, auto))' => ListInv'
  BY DEF ListInv, Lists, ListIsActive
<1>. QED  BY <1>1, <1>2, <1>3

(* The invariant holds throughout.                                          *)
LEMMA ListInvariant == ListSafety => []ListInv
<1>1. ListInv /\ [ListNext]_listVars => ListInv'
  BY ListInvNext
<1>. QED  BY <1>1, ListInvInit, PTL DEF ListSafety

----------------------------------------------------------------------------
(* The wake lock manager with its list does nothing that the manager with a *)
(* set does not: what module WakelockProofs proves of that holds of it.     *)
THEOREM ListImplementsSet == ListSafety => WakelockSafety
<1>1. ListInit => WakelockInit
  BY DEF ListInit
<1>2. [ListNext]_listVars => [WakelockNext]_wakelockVars
  BY ListStepIsStep DEF listVars
<1>. QED  BY <1>1, <1>2, PTL DEF ListSafety, WakelockSafety

(* active_wake_locks holds exactly the active locks, each once.             *)
THEOREM ListHoldsActive == ListSafety => []ListIsActive
<1>1. ListInv => ListIsActive
  BY DEF ListInv
<1>. QED  BY <1>1, ListInvariant, PTL

(* has_wake_lock_locked may stop at the first permanent lock it meets: what *)
(* it returns and what it expires is what the whole list calls for.         *)
THEOREM WalkMayStopEarly == ListSafety => []WalkIsExact
<1>1. ListInv => WalkIsExact
  <2> SUFFICES ASSUME ListInv PROVE WalkIsExact
    OBVIOUS
  <2>1. /\ active_wake_locks \in Seq(Locks) /\ left \in [Locks -> 0..MaxTimeout]
        /\ Sorted(active_wake_locks, auto) /\ Range(active_wake_locks) = active
    BY DEF ListInv, WakelockTypeOK, ListIsActive
  <2>2. /\ IsHasWakeLock(Walk(active_wake_locks, auto, left).ret, active, auto, left)
        /\ Walk(active_wake_locks, auto, left).gone = Expired(active, auto, left)
    BY <2>1, WalkFacts
  <2>. QED  BY <2>2 DEF WalkIsExact
<1>. QED  BY <1>1, ListInvariant, PTL
=============================================================================
