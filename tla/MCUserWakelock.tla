--------------------------- MODULE MCUserWakelock ---------------------------
(* Models of module UserWakelock with a u64 of five bits, a long of three   *)
(* and jiffies of two nanoseconds.                                           *)
EXTENDS UserWakelock

\* Requests whose jiffies fit a long.
ShortRequests == 0..(NsecPerJiffy * (ULong \div 2 - 1))
=============================================================================
