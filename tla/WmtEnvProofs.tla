---------------------------- MODULE WmtEnvProofs ----------------------------
(***************************************************************************)
(* Proofs about module WmtEnv for one caller and a flash whose writes do    *)
(* what they say (it may report that it cannot erase): every update is      *)
(* atomic with respect to power loss, and a call that returns 0 has stored  *)
(* the image, as long as the image fits into the data of a copy, which      *)
(* wmt_setsyspara does not make sure of.  Names, values and lengths are     *)
(* arbitrary.                                                               *)
(***************************************************************************)
EXTENDS WmtEnv, TLAPS

(* The setting of the theorems on updates.  Run env_two_callers shows what  *)
(* happens without OneCaller; without SoundFlash sf_write returns 0 for     *)
(* data that the flash did not take.                                        *)
OneCaller == \A p, q \in Callers : p = q
SoundFlash == "data" \notin Faults /\ "flags" \notin Faults

Quiet == \A p \in Callers : pc[p] = "out"

(* What holds of the two copies at each stage of env_update: the copy that  *)
(* env_valid names is good throughout, the other one is not until it is     *)
(* written, and it is written with a matching checksum and with the image,  *)
(* if that fits.                                                            *)
StageOK(p) ==
    /\ pc[p] = "erase" => erasing = env_invalid /\ ~IsValid(flash[env_invalid]) /\ crc_ok
    /\ pc[p] = "write" => flash[env_invalid] = Blank /\ crc_ok
    /\ pc[p] = "obsolete" =>
          /\ IsValid(flash[env_invalid])
          /\ FitsData(ram) => flash[env_invalid].env = ram
    /\ pc[p] = "done" => (FitsData(ram) => flash[env_valid].env = ram)

EnvInv ==
    /\ EnvTypeOK
    /\ buffer # "loaded" => Quiet
    /\ buffer = "loaded" =>
          /\ env_valid \in {0, 1}
          /\ IsValid(flash[env_valid])
          /\ env_valid = 1 /\ (\A p \in Callers : pc[p] # "obsolete") => ~IsValid(flash[0])
          /\ \A p \in Callers : StageOK(p)

----------------------------------------------------------------------------
(* The environment of the constants is well formed.                         *)
LEMMA BlankType == EmptyEnv \in Env /\ Blank \in Copy
  BY WmtEnvAssumption DEF EmptyEnv, Env, Blank, Copy, FlagValues

(* A sector that is being erased or written holds a copy without a valid    *)
(* checksum.                                                                *)
LEMMA HalfType ==
    ASSUME NEW c \in Copy, NEW d \in HalfErased(c) \cup HalfWritten(c)
    PROVE  d \in Copy /\ ~IsValid(d)
  <1> DEFINE half(f) == [flags |-> f, crc |-> FALSE, env |-> EmptyEnv]
  <1>1. \A f \in FlagValues : half(f) \in Copy /\ ~IsValid(half(f))
    BY BlankType DEF Copy, IsValid
  <1>2. Blank = half(255) /\ 255 \in FlagValues
    BY DEF Blank, FlagValues
  <1>3. c.flags \in FlagValues /\ (IF c.flags = 0 THEN 0 ELSE 1) \in FlagValues
    BY DEF Copy, FlagValues
  <1>4. \E f \in FlagValues : d = half(f)
    BY <1>2, <1>3 DEF HalfErased, HalfWritten
  <1>5. QED
    BY <1>1, <1>4

(* The image written over a blank sector with a good checksum is valid.     *)
LEMMA ProgrammedType ==
    ASSUME NEW c \in Copy, EnvTypeOK, NEW d \in Programmed(c)
    PROVE  /\ d \in Copy
           /\ FitsData(ram) => d.env = ram
           /\ c = Blank /\ crc_ok => IsValid(d)
  <1>1. PICK e \in ReadBack(ram) :
            d = [flags |-> IF c.flags = 0 THEN 0 ELSE 1,
                 crc |-> crc_ok /\ (c = Blank \/ (c.crc /\ c.env = e)),
                 env |-> e]
    BY DEF Programmed
  <1>2. e \in Env /\ (FitsData(ram) => e = ram)
    BY DEF ReadBack, EnvTypeOK
  <1>3. QED
    BY <1>1, <1>2 DEF Copy, FlagValues, IsValid, Blank, EnvTypeOK

(* What the first boot finds.                                               *)
LEMMA EnvInvInit == EnvInit => EnvInv
  <1> SUFFICES ASSUME EnvInit PROVE EnvInv
    OBVIOUS
  <1>1. flash \in [{0, 1} -> Copy]
    <2>1. ASSUME NEW f \in {0, 1}, NEW e \in Env
          PROVE  Written(f, e) \in Copy
      BY DEF Written, Copy, FlagValues
    <2>2. CASE flash = [i \in {0, 1} |-> Blank]
      BY <2>2, BlankType
    <2>3. CASE \E i \in {0, 1}, e, old \in {e \in Env : FitsData(e)} :
                  \E c \in {Blank, Written(0, old)} :
                     flash = [j \in {0, 1} |-> IF j = i THEN Written(1, e) ELSE c]
      BY <2>1, <2>3, BlankType
    <2>4. QED
      BY <2>2, <2>3 DEF EnvInit
  <1>2. ram \in Env
    BY BlankType DEF EnvInit
  <1>3. EnvTypeOK
    BY <1>1, <1>2 DEF EnvInit, EnvTypeOK, ENV_INVALID
  <1>4. QED
    BY <1>3 DEF EnvInit, EnvInv, Quiet

(* The type invariant is preserved by every step.                           *)
LEMMA EnvTypeNext ==
    ASSUME EnvTypeOK, buffer = "loaded" => env_valid \in {0, 1}, [EnvNext]_envVars,
           buffer # "loaded" => Quiet
    PROVE  EnvTypeOK'
  <1> USE DEF EnvTypeOK, ENV_INVALID, env_invalid
  <1>1. CASE UNCHANGED envVars
    BY <1>1 DEF envVars
  <1>2. CASE mtd_register \/ \E n \in Names : wmt_getsyspara(n)
    BY <1>2 DEF mtd_register, wmt_getsyspara
  <1>3. CASE env_init
    <2>1. \A i \in {0, 1} : flash[i].env \in Env
      BY DEF Copy
    <2>2. QED
      BY <1>3, <2>1 DEF env_init
  <1>4. CASE power_loss
    <2>1. flash' \in [{0, 1} -> Copy]
      <3>1. CASE UNCHANGED flash
        BY <3>1
      <3>2. CASE /\ mtd /\ \E p \in Callers : pc[p] = "write"
                 /\ \E c \in HalfWritten(flash[env_invalid]) :
                       flash' = [flash EXCEPT ![env_invalid] = c]
        <4>1. env_invalid \in {0, 1}
          BY <3>2 DEF Quiet
        <4>2. flash[env_invalid] \in Copy
          BY <4>1
        <4>3. QED
          BY <3>2, <4>1, <4>2, HalfType
      <3>3. QED
        BY <1>4, <3>1, <3>2 DEF power_loss
    <2>2. QED
      BY <1>4, <2>1, BlankType DEF power_loss
  <1>5. ASSUME NEW p \in Callers, UpdateStep(p)
        PROVE  EnvTypeOK'
    <2>1. CASE \E n \in Names, v \in Vals \cup {NoVal} : wmt_setsyspara(p, n, v)
      <3>1. PICK n \in Names, v \in Vals \cup {NoVal} : wmt_setsyspara(p, n, v)
        BY <2>1
      <3>2. /\ env_invalid \in {0, 1} /\ flash[env_invalid] \in Copy
            /\ [ram EXCEPT ![n] = v] \in Env /\ [ram EXCEPT ![n] = NoVal] \in Env
        BY <3>1 DEF wmt_setsyspara, Env
      <3>3. ram' \in Env /\ UNCHANGED <<mtd, buffer, env_valid, rc>>
        BY <3>1, <3>2 DEF wmt_setsyspara
      <3>4. /\ flash' \in [{0, 1} -> Copy] /\ erasing' \in {0, 1, 2}
            /\ pc' \in [Callers -> {"out", "erase", "write", "obsolete", "done", "dead"}]
        <4>1. CASE env_update(p)
          BY <4>1, <3>2, HalfType DEF env_update
        <4>2. CASE UNCHANGED <<flash, erasing, pc>>
          BY <4>2
        <4>3. QED
          BY <3>1, <4>1, <4>2 DEF wmt_setsyspara
      <3>5. crc_ok' \in BOOLEAN
        BY <3>1, Zenon DEF wmt_setsyspara, env_update
      <3>6. QED
        BY <3>3, <3>4, <3>5
    <2>2. CASE \/ wmt_setsyspara_failed(p) \/ wmt_setsyspara_null(p)
               \/ erase_fails(p) \/ write_oopses(p) \/ set_returns(p)
      BY <2>2 DEF wmt_setsyspara_failed, wmt_setsyspara_null, erase_fails,
                  write_oopses, set_returns
    <2>3. CASE erase_ends(p)
      BY <2>3, BlankType DEF erase_ends
    <2>4. CASE write_new(p)
      <3>1. env_invalid \in {0, 1} /\ flash[env_invalid] \in Copy
        BY <2>4 DEF write_new, Quiet
      <3>2. flash' \in [{0, 1} -> Copy]
        BY <2>4, <3>1, HalfType, ProgrammedType DEF write_new
      <3>3. QED
        BY <2>4, <3>2 DEF write_new
    <2>5. CASE obsolete_old(p)
      <3>1. env_valid \in {0, 1} /\ env_invalid \in {0, 1} /\ flash[env_valid] \in Copy
        BY <2>5 DEF obsolete_old, Quiet
      <3>2. \A f \in FlagValues : [flash EXCEPT ![env_valid].flags = f] \in [{0, 1} -> Copy]
        BY <3>1 DEF Copy
      <3>3. flash' \in [{0, 1} -> Copy]
        BY <2>5, <3>1, <3>2 DEF obsolete_old, Copy, FlagValues
      <3>4. QED
        BY <2>5, <3>1, <3>3 DEF obsolete_old
    <2>6. QED
      BY <1>5, <2>1, <2>2, <2>3, <2>4, <2>5 DEF UpdateStep
  <1>6. QED
    BY <1>1, <1>2, <1>3, <1>4, <1>5 DEF EnvNext

(* What the type invariant rests on, for any callers and any faults.        *)
EnvBase ==
    /\ EnvTypeOK
    /\ buffer = "loaded" => env_valid \in {0, 1}
    /\ buffer # "loaded" => Quiet

(* Every step preserves the base of the type invariant.                     *)
LEMMA EnvBaseNext == ASSUME EnvBase, [EnvNext]_envVars PROVE EnvBase'
  <1> USE DEF ENV_INVALID, env_invalid
  <1>t. EnvTypeOK /\ EnvTypeOK'
    BY EnvTypeNext DEF EnvBase
  <1>1. CASE UNCHANGED envVars
    BY <1>1, <1>t DEF envVars, EnvBase, Quiet
  <1>2. CASE mtd_register \/ \E n \in Names : wmt_getsyspara(n)
    BY <1>2, <1>t DEF mtd_register, wmt_getsyspara, EnvBase, Quiet
  <1>3. CASE env_init
    <2>1. Quiet /\ UNCHANGED pc
      BY <1>3 DEF env_init, EnvBase
    <2>2. buffer' = "loaded" => env_valid' \in {0, 1}
      BY <1>3 DEF env_init
    <2>3. QED
      BY <1>t, <2>1, <2>2 DEF EnvBase, Quiet
  <1>4. CASE power_loss
    BY <1>4, <1>t DEF power_loss, EnvBase, Quiet
  <1>5. ASSUME NEW p \in Callers, UpdateStep(p)
        PROVE  EnvBase'
    <2>1. CASE wmt_setsyspara_failed(p)
      BY <2>1, <1>t DEF wmt_setsyspara_failed, EnvBase, Quiet
    <2>2. CASE ~wmt_setsyspara_failed(p)
      <3>1. buffer = "loaded" /\ buffer' = buffer
        BY <1>5, <2>2 DEF UpdateStep, EnvBase, Quiet, wmt_setsyspara, wmt_setsyspara_null, write_oopses, erase_ends,
           erase_fails, write_new, obsolete_old, set_returns
      <3>2. env_valid' \in {env_valid, env_invalid}
        BY <1>5, <2>2 DEF UpdateStep, wmt_setsyspara, wmt_setsyspara_null, write_oopses, erase_ends, erase_fails,
           write_new, obsolete_old, set_returns
      <3>3. QED
        BY <1>t, <3>1, <3>2 DEF EnvBase
    <2>3. QED
      BY <2>1, <2>2
  <1>6. QED
    BY <1>1, <1>2, <1>3, <1>4, <1>5 DEF EnvNext

(* However many tasks call wmt_setsyspara at once and whatever the flash    *)
(* fails to do, the two copies, the image and the stages of env_update keep *)
(* their types: no step writes or erases a copy that there is not.          *)
THEOREM EnvTypeCorrect == EnvSpec => []EnvTypeOK
  <1>1. EnvInit => EnvBase
    BY EnvInvInit DEF EnvInv, EnvBase
  <1>2. EnvBase /\ [EnvNext]_envVars => EnvBase'
    BY EnvBaseNext
  <1>3. EnvBase => EnvTypeOK
    BY DEF EnvBase
  <1>4. QED
    BY <1>1, <1>2, <1>3, PTL DEF EnvSpec

(* Every step preserves the invariant.                                      *)
LEMMA EnvInvNext ==
    ASSUME OneCaller, SoundFlash, EnvInv, [EnvNext]_envVars
    PROVE  EnvInv'
  <1> USE DEF ENV_INVALID, env_invalid
  <1>t. EnvTypeOK /\ EnvTypeOK'
    BY EnvTypeNext DEF EnvInv
  <1>1. CASE UNCHANGED envVars
    BY <1>1, <1>t DEF envVars, EnvInv, Quiet, StageOK
  <1>2. CASE mtd_register \/ \E n \in Names : wmt_getsyspara(n)
    BY <1>2, <1>t DEF mtd_register, wmt_getsyspara, EnvInv, Quiet, StageOK
  <1>3. CASE env_init
    <2>1. Quiet /\ UNCHANGED <<flash, pc>>
      BY <1>3 DEF env_init, EnvInv
    <2>2. buffer' = "loaded" =>
            /\ env_valid' \in {0, 1}
            /\ IsValid(flash[env_valid'])
            /\ env_valid' = 1 => ~IsValid(flash[0])
      BY <1>3 DEF env_init
    <2>3. Quiet' /\ \A p \in Callers : StageOK(p)'
      BY <2>1 DEF Quiet, StageOK
    <2>4. QED
      BY <1>t, <2>1, <2>2, <2>3 DEF EnvInv
  <1>4. CASE power_loss
    BY <1>4, <1>t DEF power_loss, EnvInv, Quiet
  <1>5. ASSUME NEW p \in Callers, UpdateStep(p)
        PROVE  EnvInv'
    <2>1. \A q \in Callers : q = p
      BY DEF OneCaller
    <2>2. CASE wmt_setsyspara_failed(p)
      BY <2>2, <1>t DEF wmt_setsyspara_failed, EnvInv, Quiet
    <2>3. ASSUME ~wmt_setsyspara_failed(p)
          PROVE  /\ buffer = "loaded" /\ buffer' = "loaded"
                 /\ pc' \in [Callers -> {"out", "erase", "write", "obsolete", "done", "dead"}]
                 /\ env_valid \in {0, 1} /\ env_invalid \in {0, 1} /\ env_valid # env_invalid
                 /\ IsValid(flash[env_valid])
                 /\ env_valid = 1 /\ pc[p] # "obsolete" => ~IsValid(flash[0])
                 /\ StageOK(p)
      <3>1. buffer = "loaded"
        BY <1>5, <2>3 DEF UpdateStep, EnvInv, Quiet, wmt_setsyspara, wmt_setsyspara_null, write_oopses, erase_ends,
                          erase_fails, write_new, obsolete_old, set_returns
      <3>2. buffer' = buffer
        BY <1>5, <2>3 DEF UpdateStep, wmt_setsyspara, wmt_setsyspara_null, write_oopses, erase_ends, erase_fails,
                          write_new, obsolete_old, set_returns
      <3>3. QED
        BY <3>1, <3>2, <2>1, <1>t DEF EnvInv, EnvTypeOK
    <2>4. SUFFICES ASSUME ~wmt_setsyspara_failed(p)
                   PROVE  /\ env_valid' \in {0, 1}
                          /\ IsValid(flash[env_valid])'
                          /\ env_valid' = 1 /\ pc'[p] # "obsolete" => ~IsValid(flash'[0])
                          /\ StageOK(p)'
      BY <1>t, <2>1, <2>2, <2>3 DEF EnvInv
    <2>5. flash \in [{0, 1} -> Copy] /\ pc \in [Callers -> {"out", "erase", "write", "obsolete", "done", "dead"}]
      BY <1>t DEF EnvTypeOK
    <2>6. CASE \E n \in Names, v \in Vals \cup {NoVal} : wmt_setsyspara(p, n, v)
      <3>1. pc[p] = "out" /\ UNCHANGED env_valid
        BY <2>6 DEF wmt_setsyspara
      <3>2. CASE env_update(p)
        <4>1. PICK c \in HalfErased(flash[env_invalid]) :
                      flash' = [flash EXCEPT ![env_invalid] = c]
          BY <3>2 DEF env_update
        <4>2. ~IsValid(c)
          BY <2>3, <2>4, <2>5, HalfType
        <4>3. flash'[env_valid] = flash[env_valid] /\ flash'[env_invalid] = c
          BY <2>3, <2>4, <2>5, <4>1
        <4>4. pc'[p] = "erase" /\ erasing' = env_invalid /\ crc_ok'
          BY <2>5, <3>2 DEF env_update
        <4>5. QED
          BY <2>3, <2>4, <3>1, <4>2, <4>3, <4>4 DEF StageOK
      <3>3. CASE UNCHANGED <<flash, erasing, pc>>
        BY <2>3, <2>4, <3>1, <3>3 DEF StageOK
      <3>4. QED
        BY <2>6, <3>2, <3>3 DEF wmt_setsyspara
    <2>7. CASE erase_ends(p)
      <3>1. /\ flash' = [flash EXCEPT ![env_invalid] = Blank]
            /\ pc'[p] = "write" /\ UNCHANGED <<env_valid, crc_ok>> /\ crc_ok
        <4>1. pc[p] = "erase" /\ pc' = [pc EXCEPT ![p] = "write"]
          BY <2>7 DEF erase_ends
        <4>2. erasing = env_invalid /\ crc_ok /\ env_invalid # ENV_INVALID
          BY <2>3, <2>4, <4>1 DEF StageOK
        <4>3. UNCHANGED <<env_valid, crc_ok>>
          BY <2>7 DEF erase_ends
        <4>4. flash' = [flash EXCEPT ![env_invalid] = Blank]
          BY <2>7, <4>2 DEF erase_ends
        <4>5. QED
          BY <2>5, <4>1, <4>2, <4>3, <4>4
      <3>2. ~IsValid(Blank)
        BY DEF IsValid, Blank
      <3>3. flash'[env_valid] = flash[env_valid] /\ flash'[env_invalid] = Blank
        BY <2>3, <2>4, <2>5, <3>1
      <3>4. QED
        BY <2>3, <2>4, <3>1, <3>2, <3>3 DEF StageOK
    <2>8. CASE wmt_setsyspara_null(p) \/ erase_fails(p) \/ write_oopses(p) \/ set_returns(p)
      BY <2>3, <2>4, <2>5, <2>8 DEF wmt_setsyspara_null, erase_fails, write_oopses,
                                    set_returns, StageOK
    <2>9. CASE write_new(p)
      <3> PICK d \in Programmed(flash[env_invalid]) :
                  flash' = [flash EXCEPT ![env_invalid] = d]
        BY <2>9 DEF write_new, SoundFlash
      <3>1. pc'[p] = "obsolete" /\ UNCHANGED <<env_valid, ram>>
        BY <2>5, <2>9 DEF write_new
      <3>2. flash[env_invalid] = Blank /\ crc_ok
        BY <2>3, <2>4, <2>9 DEF write_new, StageOK
      <3>3. IsValid(d) /\ (FitsData(ram) => d.env = ram)
        BY <1>t, <2>3, <2>4, <2>5, <3>2, ProgrammedType
      <3>4. flash'[env_valid] = flash[env_valid] /\ flash'[env_invalid] = d
        BY <2>3, <2>4, <2>5
      <3>5. QED
        BY <2>3, <2>4, <3>1, <3>3, <3>4 DEF StageOK
    <2>10. CASE obsolete_old(p)
      <3>1. /\ flash' = [flash EXCEPT ![env_valid].flags = 0]
            /\ pc'[p] = "done" /\ env_valid' = env_invalid /\ UNCHANGED ram
        BY <2>5, <2>10 DEF obsolete_old, SoundFlash
      <3>2. /\ flash'[env_invalid] = flash[env_invalid]
            /\ ~IsValid(flash'[env_valid])
        <4>1. flash'[env_valid] = [flash[env_valid] EXCEPT !.flags = 0]
          BY <2>3, <2>4, <2>5, <3>1
        <4>2. flash[env_valid] \in Copy
          BY <2>3, <2>4, <2>5
        <4>3. flash'[env_valid].flags = 0
          BY <4>1, <4>2 DEF Copy
        <4>4. ~IsValid(flash'[env_valid])
          BY <4>3 DEF IsValid
        <4>5. flash'[env_invalid] = flash[env_invalid]
          BY <2>3, <2>4, <2>5, <3>1
        <4>6. QED
          BY <4>4, <4>5
      <3>3. IsValid(flash[env_invalid]) /\ (FitsData(ram) => flash[env_invalid].env = ram)
        BY <2>3, <2>4, <2>10 DEF obsolete_old, StageOK
      <3>4. QED
        BY <2>3, <2>4, <3>1, <3>2, <3>3 DEF StageOK
    <2>11. QED
      BY <1>5, <2>4, <2>6, <2>7, <2>8, <2>9, <2>10 DEF UpdateStep
  <1>6. QED
    BY <1>1, <1>2, <1>3, <1>4, <1>5 DEF EnvNext

----------------------------------------------------------------------------
(* The invariant implies that the copy an update keeps is the one a boot    *)
(* finds, and that a call that returns 0 has stored an image that fits.     *)
LEMMA EnvInvKeeps ==
    EnvInv => KeepsWhatBootFinds /\ (OneCaller /\ FitsData(ram) => SetReturnsStored)
  <1> SUFFICES ASSUME EnvInv
               PROVE  KeepsWhatBootFinds /\ (OneCaller /\ FitsData(ram) => SetReturnsStored)
    OBVIOUS
  <1>1. ASSUME buffer = "loaded", \A p \in Callers : pc[p] # "obsolete"
        PROVE  IsValid(flash[env_valid]) /\ Stored = {flash[env_valid].env}
    BY <1>1 DEF EnvInv, Stored
  <1>2. ASSUME OneCaller, FitsData(ram), NEW p \in Callers, pc[p] = "done"
        PROVE  Stored = {ram}
    <2>1. buffer = "loaded"
      BY <1>2 DEF EnvInv, Quiet
    <2>2. \A q \in Callers : pc[q] # "obsolete"
      BY <1>2 DEF OneCaller
    <2>3. flash[env_valid].env = ram
      BY <1>2, <2>1 DEF EnvInv, StageOK
    <2>4. QED
      BY <1>1, <2>1, <2>2, <2>3
  <1>3. QED
    BY <1>1, <1>2 DEF KeepsWhatBootFinds, SetReturnsStored

(* The invariant holds in every reachable state.                            *)
LEMMA EnvInvariant == OneCaller /\ SoundFlash => (EnvSpec => []EnvInv)
  <1> SUFFICES ASSUME OneCaller, SoundFlash PROVE EnvSpec => []EnvInv
    OBVIOUS
  <1>1. EnvInit => EnvInv
    BY EnvInvInit
  <1>2. EnvInv /\ [EnvNext]_envVars => EnvInv'
    BY EnvInvNext
  <1>3. QED
    BY <1>1, <1>2, PTL DEF EnvSpec

(* An update always erases the copy that a boot would not choose            *)
(* (env_update, env_invalid).                                               *)
THEOREM EnvKeepsBootCopy ==
    OneCaller /\ SoundFlash => (EnvSpec => []KeepsWhatBootFinds)
  <1> SUFFICES ASSUME OneCaller, SoundFlash PROVE EnvSpec => []KeepsWhatBootFinds
    OBVIOUS
  <1>1. EnvSpec => []EnvInv
    BY EnvInvariant
  <1>2. EnvInv => KeepsWhatBootFinds
    BY EnvInvKeeps
  <1>3. QED
    BY <1>1, <1>2, PTL

(* When wmt_setsyspara returns 0 and the image fits into the data of a      *)
(* copy, the next boot finds what it has set.                               *)
THEOREM EnvSetIsDurable ==
    OneCaller /\ SoundFlash => (EnvSpec => [](FitsData(ram) => SetReturnsStored))
  <1> SUFFICES ASSUME OneCaller, SoundFlash
               PROVE  EnvSpec => [](FitsData(ram) => SetReturnsStored)
    OBVIOUS
  <1>1. EnvSpec => []EnvInv
    BY EnvInvariant
  <1>2. EnvInv => (FitsData(ram) => SetReturnsStored)
    BY EnvInvKeeps
  <1>3. QED
    BY <1>1, <1>2, PTL

(* The image as the abstract store sees it.                                 *)
Image == IF buffer = "loaded" THEN {ram} ELSE {}

(* Every step, while the image fits into the data of a copy, is a step of   *)
(* the abstract store or leaves it alone.                                   *)
LEMMA StoreStep ==
    ASSUME OneCaller, SoundFlash, EnvInv, EnvInv', FitsData(ram), FitsData(ram)',
           [EnvNext]_envVars
    PROVE  \/ Image = {} /\ Image' = Stored /\ Stored' = Stored
           \/ Image # {} /\ (\E e \in Env : Image' = {e}) /\ Stored' = Stored
           \/ Image # {} /\ Stored' = Image /\ Image' = Image
           \/ Image' = {} /\ Stored' = Stored
           \/ Stored' = Stored /\ Image' = Image
  <1> USE DEF ENV_INVALID, env_invalid
  <1>t. flash \in [{0, 1} -> Copy] /\ ram \in Env /\ ram' \in Env
    BY DEF EnvInv, EnvTypeOK
  <1>1. CASE UNCHANGED <<flash, buffer, ram>>
    BY <1>1 DEF Image, Stored
  <1>2. CASE mtd_register \/ (\E n \in Names : wmt_getsyspara(n)) \/ UNCHANGED envVars
    BY <1>1, <1>2 DEF mtd_register, wmt_getsyspara, envVars
  <1>3. CASE env_init
    BY <1>3 DEF env_init, Image, Stored
  <1>4. CASE power_loss
    <2>1. Image' = {}
      BY <1>4 DEF power_loss, Image
    <2>2. CASE UNCHANGED flash
      BY <2>1, <2>2 DEF Stored
    <2>3. CASE /\ mtd /\ \E p \in Callers : pc[p] = "write"
               /\ \E c \in HalfWritten(flash[env_invalid]) :
                     flash' = [flash EXCEPT ![env_invalid] = c]
      <3>1. PICK p \in Callers : pc[p] = "write"
        BY <2>3
      <3>2. /\ buffer = "loaded" /\ env_valid \in {0, 1}
            /\ IsValid(flash[env_valid]) /\ (env_valid = 1 => ~IsValid(flash[0]))
        BY <3>1 DEF EnvInv, Quiet, OneCaller
      <3>3. PICK c \in HalfWritten(flash[env_invalid]) :
                    flash' = [flash EXCEPT ![env_invalid] = c]
        BY <2>3
      <3>4. ~IsValid(c)
        BY <1>t, <3>2, HalfType
      <3>5. flash'[env_valid] = flash[env_valid] /\ flash'[env_invalid] = c
        BY <1>t, <3>2, <3>3
      <3>6. CASE env_valid = 0
        BY <2>1, <3>2, <3>5, <3>6 DEF Stored
      <3>7. CASE env_valid = 1
        <4>1. ~IsValid(flash'[0])
          BY <3>4, <3>5, <3>7
        <4>2. QED
          BY <2>1, <3>2, <3>5, <3>7, <4>1 DEF Stored
      <3>8. QED
        BY <3>2, <3>6, <3>7
    <2>4. QED
      BY <1>4, <2>2, <2>3 DEF power_loss
  <1>5. ASSUME NEW p \in Callers, UpdateStep(p),
               ~wmt_setsyspara_failed(p), ~wmt_setsyspara_null(p),
               ~erase_fails(p), ~write_oopses(p), ~set_returns(p)
        PROVE  \/ (\E e \in Env : Image' = {e}) /\ Stored' = Stored
               \/ Stored' = Image /\ Image' = Image
    <2>1. /\ buffer = "loaded" /\ buffer' = "loaded" /\ env_valid \in {0, 1}
          /\ IsValid(flash[env_valid])
          /\ env_valid = 1 /\ pc[p] # "obsolete" => ~IsValid(flash[0])
          /\ StageOK(p)
      <3>1. buffer = "loaded" /\ buffer' = buffer
        BY <1>5 DEF UpdateStep, EnvInv, Quiet, wmt_setsyspara, wmt_setsyspara_null, write_oopses, erase_ends,
                    write_new, obsolete_old
      <3>2. QED
        BY <3>1 DEF EnvInv, OneCaller
    <2>2. Image = {ram} /\ Image' = {ram'}
      BY <2>1 DEF Image
    <2>3. ASSUME NEW c \in Copy, flash' = [flash EXCEPT ![env_invalid] = c],
                 ~IsValid(c), pc[p] # "obsolete"
          PROVE  Stored' = Stored
      <3>1. flash'[env_valid] = flash[env_valid] /\ flash'[env_invalid] = c
        BY <1>t, <2>1, <2>3
      <3>2. CASE env_valid = 0
        BY <2>1, <3>1, <3>2 DEF Stored
      <3>3. CASE env_valid = 1
        <4>1. ~IsValid(flash'[0])
          BY <2>3, <3>1, <3>3
        <4>2. QED
          BY <2>1, <2>3, <3>1, <3>3, <4>1 DEF Stored
      <3>4. QED
        BY <2>1, <3>2, <3>3
    <2>4. env_invalid \in {0, 1} /\ flash[env_invalid] \in Copy
      BY <1>t, <2>1
    <2>5. CASE \E n \in Names, v \in Vals \cup {NoVal} : wmt_setsyspara(p, n, v)
      <3>1. Stored' = Stored
        <4>1. CASE env_update(p)
          <5>1. PICK c \in HalfErased(flash[env_invalid]) :
                        flash' = [flash EXCEPT ![env_invalid] = c]
            BY <4>1 DEF env_update
          <5>2. c \in Copy /\ ~IsValid(c)
            BY <2>4, HalfType
          <5>3. QED
            BY <2>3, <2>5, <5>1, <5>2 DEF wmt_setsyspara
        <4>2. CASE UNCHANGED flash
          BY <4>2 DEF Stored
        <4>3. QED
          BY <2>5, <4>1, <4>2 DEF wmt_setsyspara
      <3>2. QED
        BY <1>t, <2>2, <3>1
    <2>6. CASE erase_ends(p)
      <3>1. pc[p] = "erase" /\ UNCHANGED ram
        BY <2>6 DEF erase_ends
      <3>2. erasing = env_invalid /\ env_invalid # ENV_INVALID
        BY <2>1, <3>1 DEF StageOK
      <3>3. flash' = [flash EXCEPT ![env_invalid] = Blank]
        BY <2>6, <3>2 DEF erase_ends
      <3>4. ~IsValid(Blank)
        BY DEF IsValid, Blank
      <3>5. Stored' = Stored
        BY <2>3, <3>1, <3>3, <3>4, BlankType
      <3>6. QED
        BY <1>t, <2>2, <3>5
    <2>7. CASE write_new(p)
      <3> PICK d \in Programmed(flash[env_invalid]) :
                  flash' = [flash EXCEPT ![env_invalid] = d]
        BY <2>7 DEF write_new, SoundFlash
      <3>1. pc[p] = "write" /\ UNCHANGED ram
        BY <2>7 DEF write_new
      <3>2. IsValid(d) /\ d.env = ram
        BY <2>1, <2>4, <3>1, ProgrammedType DEF StageOK, EnvInv
      <3>3. flash'[env_valid] = flash[env_valid] /\ flash'[env_invalid] = d
        BY <1>t, <2>1
      <3>4. Stored' = Stored \/ Stored' = {ram}
        <4>1. CASE env_valid = 0
          <5>1. IsValid(flash[0]) /\ flash'[0] = flash[0]
            BY <2>1, <3>3, <4>1
          <5>2. QED
            BY <5>1 DEF Stored
        <4>2. CASE env_valid = 1
          <5>1. IsValid(flash'[0]) /\ flash'[0].env = ram
            BY <3>2, <3>3, <4>2
          <5>2. QED
            BY <5>1 DEF Stored
        <4>3. QED
          BY <2>1, <4>1, <4>2
      <3>5. QED
        BY <1>t, <2>2, <3>1, <3>4
    <2>8. CASE obsolete_old(p)
      <3>1. pc'[p] = "done" /\ UNCHANGED ram
        BY <2>8 DEF obsolete_old, EnvInv, EnvTypeOK
      <3>2. SetReturnsStored'
        <4>1. OneCaller /\ FitsData(ram)' => SetReturnsStored'
          BY EnvInvKeeps, PTL
        <4>2. QED
          BY <4>1
      <3>3. Stored' = {ram'}
        BY <3>1, <3>2 DEF SetReturnsStored
      <3>4. QED
        BY <2>2, <3>1, <3>3
    <2>9. QED
      BY <1>5, <2>5, <2>6, <2>7, <2>8 DEF UpdateStep
  <1>6. ASSUME NEW p \in Callers, UpdateStep(p)
        PROVE  \/ Image # {} /\ (\E e \in Env : Image' = {e}) /\ Stored' = Stored
               \/ Image # {} /\ Stored' = Image /\ Image' = Image
               \/ Image' = {} /\ Stored' = Stored
               \/ Stored' = Stored /\ Image' = Image
    <2>1. CASE wmt_setsyspara_failed(p)
      BY <2>1 DEF wmt_setsyspara_failed, Image, Stored
    <2>2. CASE wmt_setsyspara_null(p) \/ erase_fails(p) \/ write_oopses(p) \/ set_returns(p)
      BY <1>1, <2>2 DEF wmt_setsyspara_null, erase_fails, write_oopses, set_returns,
                        Image, Stored
    <2>3. CASE ~(\/ wmt_setsyspara_failed(p) \/ wmt_setsyspara_null(p)
                 \/ erase_fails(p) \/ write_oopses(p) \/ set_returns(p))
      <3>1. Image # {}
        BY <1>6, <2>3 DEF Image, UpdateStep, EnvInv, Quiet, wmt_setsyspara,
                          erase_ends, write_new, obsolete_old
      <3>2. QED
        BY <1>5, <1>6, <2>3, <3>1
    <2>4. QED
      BY <2>1, <2>2, <2>3
  <1>7. QED
    BY <1>2, <1>3, <1>4, <1>6 DEF EnvNext

(* wmt_env.c implements one durable environment: whatever is set, as long   *)
(* as the image fits into the data of a copy, and wherever power fails, a   *)
(* boot finds the environment of before the update or the one of after it,  *)
(* and never none or a mixture.                                             *)
THEOREM EnvUpdateIsAtomic ==
    OneCaller /\ SoundFlash => (EnvSpec /\ []FitsData(ram) => UpdateIsAtomic)
  <1> SUFFICES ASSUME OneCaller, SoundFlash
               PROVE  EnvSpec /\ []FitsData(ram) => UpdateIsAtomic
    OBVIOUS
  <1>1. EnvInit => Store!StoreInit
    <2> SUFFICES ASSUME EnvInit PROVE Store!StoreInit
      OBVIOUS
    <2>1. flash \in [{0, 1} -> Copy]
      BY EnvInvInit DEF EnvInv, EnvTypeOK
    <2>2. Stored = {} \/ \E e \in Env : Stored = {e}
      BY <2>1 DEF Stored, Copy
    <2>3. QED
      BY <2>2 DEF EnvInit, Store!StoreInit
  <1>2. EnvInv /\ EnvInv' /\ FitsData(ram) /\ FitsData(ram)' /\ [EnvNext]_envVars
            => [Store!StoreNext]_(Store!storeVars)
    BY StoreStep DEF Image, Store!StoreNext, Store!storeVars, Store!Load, Store!Edit,
                     Store!Commit, Store!PowerLoss
  <1>3. EnvSpec => []EnvInv
    BY EnvInvariant
  <1>4. QED
    BY <1>1, <1>2, <1>3, PTL DEF EnvSpec, UpdateIsAtomic, Store!StoreSpec
=============================================================================
