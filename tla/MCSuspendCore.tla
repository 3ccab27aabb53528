---------------------------- MODULE MCSuspendCore ----------------------------
(* Model of module SuspendCore: one lock of a user process, one of a       *)
(* driver, one handler.                                                     *)
EXTENDS SuspendCore, TLC

CONSTANTS h1

MCLevel == h1 :> 50

\* A lock that is not initialised acts like one that nobody holds, and run
\* wakelock has locks destroyed in use: here they stay, except at rest.
LocksStay ==
    \/ Locks \subseteq inited
    \/ pm = "out" /\ state = {} /\ \A w \in Writers : writer[w] = "out"
=============================================================================
