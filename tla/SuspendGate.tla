---------------------------- MODULE SuspendGate ----------------------------
(***************************************************************************)
(* What the wake lock API promises the rest of the kernel                   *)
(* (include/linux/wakelock.h): a set of locks is held, the system may only  *)
(* start to suspend at an instant when none is held, and it does start once *)
(* none is held any more.  Lists, timers, work items and the walk that      *)
(* expires a lock are left to the implementation (module Wakelock).         *)
(***************************************************************************)
CONSTANT Locks

VARIABLES held,     \* the locks that keep the system awake
          trying    \* TRUE while an attempt to suspend is under way

gateVars == <<held, trying>>

GateTypeOK == held \subseteq Locks /\ trying \in BOOLEAN

GateInit == held \subseteq Locks /\ trying = FALSE

\* Locks come and go: one is taken, or some are released or time out.
Change ==
    /\ \E h \in SUBSET Locks : held' = h
    /\ UNCHANGED trying

\* An attempt to suspend passes the gate only when no lock is held.
Begin == ~trying /\ held = {} /\ trying' = TRUE /\ UNCHANGED held

\* The attempt is over: the system slept and woke, or the attempt was
\* abandoned; a lock may be taken in the same step.
End ==
    /\ trying
    /\ trying' = FALSE
    /\ \E h \in SUBSET Locks : held \subseteq h /\ held' = h

GateNext == Change \/ Begin \/ End

(* Fairness is the promise that matters to the battery: a system that no    *)
(* lock keeps awake does try to suspend.                                    *)
GateSpec == GateInit /\ [][GateNext]_gateVars /\ WF_gateVars(Begin)
=============================================================================
