--------------------------- MODULE MCEarlySuspend ---------------------------
(* Model of module EarlySuspend: three handlers on two levels.             *)
EXTENDS EarlySuspend, TLC

CONSTANTS h1, h2, h3

MCHandlers == {h1, h2, h3}
MCLevel == (h1 :> 50) @@ (h2 :> 100) @@ (h3 :> 100)
=============================================================================
