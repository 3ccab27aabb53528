------------------------------ MODULE MCAlarm -------------------------------
(* Model of module Alarm.                                                   *)
EXTENDS Alarm

\* Only suspends depend on the main lock, and no suspend has to happen: what
\* can happen with the lock up can happen with the lock down.  So it is up
\* only until the device is first used, or the clock first set.
MainLockDown ==
    main_wake_lock \in active => ~opened /\ setter = "out" /\ pending = {}
=============================================================================
