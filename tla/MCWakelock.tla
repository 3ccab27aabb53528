----------------------------- MODULE MCWakelock -----------------------------
(* Model of modules Wakelock and WakelockList with two client locks         *)
(* besides main and unknown_wakeups.                                        *)
EXTENDS WakelockList
=============================================================================
