------------------------------ MODULE MCWmtEnv ------------------------------
(* Models of module WmtEnv: two names, two values, of which the baudrate   *)
(* may take one.                                                            *)
EXTENDS WmtEnv, TLC

CONSTANTS name, v1, v2

MCNames == {baudrate, name}
MCVals == {v1, v2}
MCBaudrates == {v1}
\* The two definitions do not fit together, one does with room to spare.
LongEntries == (baudrate :> 40) @@ (name :> 60)
\* Both fit.
ShortEntries == (baudrate :> 10) @@ (name :> 20)
=============================================================================
