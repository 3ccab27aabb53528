------------------------------ MODULE EnvStore ------------------------------
(***************************************************************************)
(* What drivers/mtd/wmt_env.c is for: one environment that survives power   *)
(* loss, of which a running kernel keeps an image.  The image is edited one *)
(* parameter at a time and committed as a whole; a loss of power keeps the  *)
(* environment that was committed last.  Where there is none to begin with, *)
(* none is ever made up.  An image or an environment that does not exist is *)
(* the empty set, one that does is a singleton.                             *)
(***************************************************************************)
CONSTANT Env            \* the environments

VARIABLES stored,       \* what the next boot finds
          image         \* what the running kernel works on

storeVars == <<stored, image>>

StoreInit == image = {} /\ (stored = {} \/ \E e \in Env : stored = {e})

Load == image = {} /\ image' = stored /\ UNCHANGED stored

Edit ==
    /\ image # {}
    /\ \E e \in Env : image' = {e}
    /\ UNCHANGED stored

Commit == image # {} /\ stored' = image /\ UNCHANGED image

PowerLoss == image' = {} /\ UNCHANGED stored

StoreNext == Load \/ Edit \/ Commit \/ PowerLoss

StoreSpec == StoreInit /\ [][StoreNext]_storeVars
=============================================================================
