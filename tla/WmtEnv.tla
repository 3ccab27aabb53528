------------------------------- MODULE WmtEnv -------------------------------
(***************************************************************************)
(* The u-boot environment as the kernel keeps it, drivers/mtd/wmt_env.c on  *)
(* a board that boots from serial flash: two copies in two flash sectors,   *)
(* an image in RAM, and the calls wmt_getsyspara and wmt_setsyspara.        *)
(*                                                                          *)
(* There is no lock.  The board has one CPU and the kernel is not           *)
(* preemptible, so a caller is only interrupted where it sleeps, which is   *)
(* the msleep of spi_flash_sector_erase (the BKL of the ioctl is dropped    *)
(* there too); power may fail anywhere.  The other calls that may sleep are *)
(* not points of interleaving: the kmalloc and the ioremap of the first     *)
(* call run in wmt_init, an arch_initcall, when there is no other caller,   *)
(* and the ioremap of env_update only before the flash driver registers,    *)
(* where the call ends in an oops.  An environment is a function from       *)
(* parameter names to values; a copy in flash has its flags byte, whether   *)
(* its checksum matches its data, and what its data reads as.               *)
(***************************************************************************)
EXTENDS Integers, FiniteSets, FiniteSetsExt

CONSTANTS Callers,          \* tasks in MEMSETENV of mtdchar.c or in a driver's probe
          Names, Vals,      \* parameter names and values
          NoVal,            \* the value of an undefined parameter
          baudrate,         \* the name that is treated specially
          baudrate_table,   \* the values that it may take
          EntryLen,         \* bytes of "name=value\0", by name
          ENV_MAX_SIZE,     \* size of a copy in flash and of the buffer
          HeaderLen,        \* bytes of crc and flags ahead of the data
          Faults            \* flash operations that may fail: "erase", "data", "flags"

Env == [Names -> Vals \cup {NoVal}]

ASSUME WmtEnvAssumption ==
    /\ NoVal \notin Vals
    /\ baudrate \in Names
    /\ baudrate_table \subseteq Vals
    /\ EntryLen \in [Names -> Nat]
    /\ ENV_MAX_SIZE \in Nat
    /\ HeaderLen \in Nat
    /\ Faults \subseteq {"erase", "data", "flags"}

VARIABLES
    flash,          \* the two copies
    erasing,        \* the copy whose erasure is under way, or ENV_INVALID
    mtd,            \* the flash driver has registered its partitions
    buffer,         \* env_ptr: "none", "loaded", "failed" (env_init returned 1),
                    \* "oops" (null pointer used) or "wild" (wild pointer used)
    ram,            \* the data of the buffer
    crc_ok,         \* the crc of the buffer matches its data
    env_valid,      \* the copy the buffer was loaded from or written to
    pc,             \* where a caller is in env_update; "dead": killed by an oops
    rc              \* what the last wmt_getsyspara returned

envVars == <<flash, erasing, mtd, buffer, ram, crc_ok, env_valid, pc, rc>>

ENV_INVALID == 2
env_invalid == IF env_valid \in {0, 1} THEN 1 - env_valid ELSE ENV_INVALID
EmptyEnv == [n \in Names |-> NoVal]

FlagValues == {0, 1, 255}
Written(f, e) == [flags |-> f, crc |-> TRUE, env |-> e]
Copy == [flags : FlagValues, crc : BOOLEAN, env : Env]
Blank == [flags |-> 255, crc |-> FALSE, env |-> EmptyEnv]
\* A sector in the middle of being erased: anything, unless it was blank.
HalfErased(c) ==
    IF c = Blank THEN {Blank}
    ELSE {[flags |-> f, crc |-> FALSE, env |-> EmptyEnv] : f \in FlagValues}
\* A sector in the middle of being written, from crc and flags to the data.
HalfWritten(c) ==
    {[flags |-> f, crc |-> FALSE, env |-> EmptyEnv] :
        f \in {c.flags, IF c.flags = 0 THEN 0 ELSE 1}}

\* The test that env_init applies to a copy.
IsValid(c) == c.flags = 1 /\ c.crc

\* The environment that env_init finds in flash: the first valid copy.
Stored == IF IsValid(flash[0]) THEN {flash[0].env}
          ELSE IF IsValid(flash[1]) THEN {flash[1].env}
          ELSE {}

\* Bytes that the definitions of an environment take.
Used(e) == MapThenSumSet(LAMBDA n : EntryLen[n], {n \in Names : e[n] # NoVal})

\* The definitions and the NUL that ends them fit into the data of a copy.
FitsData(e) == Used(e) + 1 <= ENV_MAX_SIZE - HeaderLen

\* What a boot makes of the bytes of an image that fit into a copy: where the
\* end is cut off, that depends on what follows them in memory.
ReadBack(e) == IF FitsData(e) THEN {e} ELSE Env

\* A caller that neither sleeps nor is gone keeps the CPU.
CpuFree == \A q \in Callers : pc[q] \in {"out", "erase", "dead"}

\* The kernel first boots on a blank flash, or on one with a valid copy; the
\* other copy was then never used or holds an older environment.
EnvInit ==
    /\ \/ flash = [i \in {0, 1} |-> Blank]
       \/ \E i \in {0, 1}, e, old \in {e \in Env : FitsData(e)} :
             \E c \in {Blank, Written(0, old)} :
                flash = [j \in {0, 1} |-> IF j = i THEN Written(1, e) ELSE c]
    /\ erasing = ENV_INVALID
    /\ mtd = FALSE
    /\ buffer = "none"
    /\ ram = EmptyEnv
    /\ crc_ok = FALSE
    /\ env_valid = ENV_INVALID
    /\ pc = [p \in Callers |-> "out"]
    /\ rc = -1

----------------------------------------------------------------------------
mtd_register ==
    /\ CpuFree
    /\ ~mtd
    /\ mtd' = TRUE
    /\ UNCHANGED <<flash, erasing, buffer, ram, crc_ok, env_valid, pc, rc>>

\* Before the flash driver has registered, env_init falls through from a copy
\* that is flagged valid but has a wrong checksum to a read through the null
\* pointer mtd_table[env].
DereferencesNull(i) == ~mtd /\ flash[i].flags = 1 /\ ~flash[i].crc

\* The start of wmt_getsyspara and wmt_setsyspara: the first call allocates
\* the buffer and runs env_init, which reads one copy after the other.
env_init ==
    /\ CpuFree
    /\ buffer = "none"
    /\ \/ \E i \in {0, 1} :
             /\ IsValid(flash[i])
             /\ i = 1 => ~IsValid(flash[0]) /\ ~DereferencesNull(0)
             /\ buffer' = "loaded" /\ ram' = flash[i].env /\ env_valid' = i
             /\ crc_ok' = TRUE
       \/ /\ \E i \in {0, 1} : DereferencesNull(i) /\ (i = 1 => ~IsValid(flash[0]))
          /\ buffer' = "oops" /\ UNCHANGED <<ram, crc_ok, env_valid>>
       \/ /\ \A i \in {0, 1} : ~IsValid(flash[i]) /\ ~DereferencesNull(i)
          /\ buffer' = "failed" /\ ram' = flash[1].env
          /\ UNCHANGED <<crc_ok, env_valid>>
    /\ UNCHANGED <<flash, erasing, mtd, pc, rc>>

\* Faulty variant: the return code is not cleared before the call.
CountsFailures(n) ==
    /\ CpuFree
    /\ buffer \in {"loaded", "failed"}
    /\ rc' \in IF ram[n] = NoVal THEN {rc + 1} ELSE {rc, rc + 1}
    /\ UNCHANGED <<flash, erasing, mtd, buffer, ram, crc_ok, env_valid, pc>>

\* wmt_getsyspara once the buffer exists: it does not ask how env_init ended.
\* It fails for an undefined parameter and for a value too long for varval.
wmt_getsyspara(n) ==
    /\ CpuFree
    /\ buffer \in {"loaded", "failed"}
    /\ rc' \in IF ram[n] = NoVal THEN {1} ELSE {0, 1}
    /\ UNCHANGED <<flash, erasing, mtd, buffer, ram, crc_ok, env_valid, pc>>

----------------------------------------------------------------------------
\* Faulty variant: the crc is not updated.
ForgetsCrc(p) ==
    /\ crc_ok' = FALSE
    /\ pc' = [pc EXCEPT ![p] = "erase"]
    /\ erasing' = env_invalid
    /\ \E c \in HalfErased(flash[env_invalid]) :
          flash' = [flash EXCEPT ![env_invalid] = c]

\* env_update up to its first sleep: the crc of the image is updated and the
\* other sector is being erased.
env_update(p) ==
    /\ crc_ok' = TRUE
    /\ pc' = [pc EXCEPT ![p] = "erase"]
    /\ erasing' = env_invalid
    /\ \E c \in HalfErased(flash[env_invalid]) :
          flash' = [flash EXCEPT ![env_invalid] = c]

(* wmt_setsyspara: an existing definition is deleted from the image first.  *)
(* A baudrate that is not supported is refused before that; a definition    *)
(* that does not fit is refused after it.                                   *)
wmt_setsyspara(p, n, v) ==
    LET cleared == [ram EXCEPT ![n] = NoVal]
        fits == EntryLen[n] <= ENV_MAX_SIZE - Used(cleared) IN
    /\ buffer = "loaded"
    /\ pc[p] = "out" /\ CpuFree
    /\ n = baudrate /\ ram[n] # NoVal => v \in baudrate_table
    /\ v = NoVal => ram[n] # NoVal
    /\ \/ /\ v = NoVal \/ fits
          /\ ram' = [ram EXCEPT ![n] = v]
          /\ env_update(p)
       \/ /\ v # NoVal /\ ~fits
          /\ ram' = cleared
          /\ crc_ok' = (crc_ok /\ cleared = ram)
          /\ UNCHANGED <<flash, erasing, pc>>
    /\ UNCHANGED <<mtd, buffer, env_valid, rc>>

\* Clearing the baudrate with a null pointer parses the number behind it.
wmt_setsyspara_null(p) ==
    /\ buffer = "loaded"
    /\ pc[p] = "out" /\ CpuFree
    /\ ram[baudrate] # NoVal
    /\ pc' = [pc EXCEPT ![p] = "dead"]
    /\ UNCHANGED <<flash, erasing, mtd, buffer, ram, crc_ok, env_valid, rc>>

\* After a failed env_init env_update indexes mtd_table with ENV_INVALID,
\* far behind its end, and calls through what it finds there.
wmt_setsyspara_failed(p) ==
    /\ buffer = "failed"
    /\ pc[p] = "out" /\ CpuFree
    /\ buffer' = "wild"
    /\ UNCHANGED <<flash, erasing, mtd, ram, crc_ok, env_valid, pc, rc>>

\* The msleep loop ends when the flash is no longer busy.
erase_ends(p) ==
    /\ pc[p] = "erase" /\ CpuFree
    /\ pc' = [pc EXCEPT ![p] = "write"]
    /\ erasing' = ENV_INVALID
    /\ flash' = IF erasing = ENV_INVALID THEN flash
                ELSE [flash EXCEPT ![erasing] = Blank]
    /\ UNCHANGED <<mtd, buffer, ram, crc_ok, env_valid, rc>>

\* The flash reports an error: env_update returns 1.
erase_fails(p) ==
    /\ "erase" \in Faults
    /\ pc[p] = "erase" /\ CpuFree
    /\ pc' = [pc EXCEPT ![p] = "out"]
    /\ erasing' = ENV_INVALID
    /\ UNCHANGED <<flash, mtd, buffer, ram, crc_ok, env_valid, rc>>

\* Programming only clears bits: what was not blank keeps its cleared flags
\* and gets a wrong checksum, unless it was the same data.  ENV_MAX_SIZE bytes
\* are written, crc and flags included; the crc is that of the data that fits.
Programmed(c) ==
    {[flags |-> IF c.flags = 0 THEN 0 ELSE 1,
      crc |-> crc_ok /\ (c = Blank \/ (c.crc /\ c.env = e)),
      env |-> e] : e \in ReadBack(ram)}

\* Faulty variant: the old copy is made obsolete before the new one is written.
ObsoletesFirst(p) ==
    /\ pc[p] = "write" /\ mtd
    /\ pc' = [pc EXCEPT ![p] = "obsolete"]
    /\ flash' = [flash EXCEPT ![env_valid].flags = 0]
    /\ UNCHANGED <<erasing, mtd, buffer, ram, crc_ok, env_valid, rc>>

\* The image is written to the sector that env_invalid names now.  sf_write
\* returns 0 whether or not the flash took the data.
write_new(p) ==
    /\ pc[p] = "write" /\ mtd
    /\ pc' = [pc EXCEPT ![p] = "obsolete"]
    /\ \E c \in Programmed(flash[env_invalid])
                  \cup (IF "data" \in Faults THEN HalfWritten(flash[env_invalid]) ELSE {}) :
          flash' = [flash EXCEPT ![env_invalid] = c]
    /\ UNCHANGED <<erasing, mtd, buffer, ram, crc_ok, env_valid, rc>>

\* Before the flash driver has probed, spi_read_status asks a null pointer
\* whether the flash is busy: the caller dies with the other copy erased.
write_oopses(p) ==
    /\ pc[p] = "write" /\ ~mtd
    /\ pc' = [pc EXCEPT ![p] = "dead"]
    /\ UNCHANGED <<flash, erasing, mtd, buffer, ram, crc_ok, env_valid, rc>>

\* Faulty variant: the copies do not change places.
ForgetsToSwap(p) ==
    /\ pc[p] = "obsolete"
    /\ pc' = [pc EXCEPT ![p] = "done"]
    /\ flash' = [flash EXCEPT ![env_valid].flags = 0]
    /\ UNCHANGED <<erasing, mtd, buffer, ram, crc_ok, env_valid, rc>>

\* The flags byte of the copy that env_valid names is cleared, the copies
\* change places, and the call returns 0.
obsolete_old(p) ==
    /\ pc[p] = "obsolete"
    /\ pc' = [pc EXCEPT ![p] = "done"]
    /\ \E f \in {0} \cup (IF "flags" \in Faults THEN {flash[env_valid].flags} ELSE {}) :
          flash' = [flash EXCEPT ![env_valid].flags = f]
    /\ env_valid' = env_invalid
    /\ UNCHANGED <<erasing, mtd, buffer, ram, crc_ok, rc>>

set_returns(p) ==
    /\ pc[p] = "done"
    /\ pc' = [pc EXCEPT ![p] = "out"]
    /\ UNCHANGED <<flash, erasing, mtd, buffer, ram, crc_ok, env_valid, rc>>

\* Power fails and the kernel boots again; a write under way leaves garbage.
power_loss ==
    /\ \/ UNCHANGED flash
       \/ /\ mtd /\ \E p \in Callers : pc[p] = "write"
          /\ \E c \in HalfWritten(flash[env_invalid]) :
                flash' = [flash EXCEPT ![env_invalid] = c]
    /\ erasing' = ENV_INVALID
    /\ mtd' = FALSE
    /\ buffer' = "none"
    /\ ram' = EmptyEnv
    /\ crc_ok' = FALSE
    /\ env_valid' = ENV_INVALID
    /\ pc' = [p \in Callers |-> "out"]
    /\ rc' = -1

UpdateStep(p) ==
    \/ \E n \in Names, v \in Vals \cup {NoVal} : wmt_setsyspara(p, n, v)
    \/ wmt_setsyspara_null(p) \/ wmt_setsyspara_failed(p)
    \/ erase_ends(p) \/ erase_fails(p)
    \/ write_new(p) \/ write_oopses(p) \/ obsolete_old(p) \/ set_returns(p)

EnvNext ==
    \/ mtd_register \/ env_init \/ power_loss
    \/ \E n \in Names : wmt_getsyspara(n)
    \/ \E p \in Callers : UpdateStep(p)

EnvSpec == EnvInit /\ [][EnvNext]_envVars

----------------------------------------------------------------------------
EnvTypeOK ==
    /\ flash \in [{0, 1} -> Copy]
    /\ erasing \in {0, 1, ENV_INVALID}
    /\ mtd \in BOOLEAN
    /\ buffer \in {"none", "loaded", "failed", "oops", "wild"}
    /\ ram \in Env
    /\ crc_ok \in BOOLEAN
    /\ env_valid \in {0, 1, ENV_INVALID}
    /\ pc \in [Callers -> {"out", "erase", "write", "obsolete", "done", "dead"}]
    /\ rc \in {-1, 0, 1}

(* The copy that env_valid names, which the next update keeps while it      *)
(* erases the other, is the one that a boot would choose, except between    *)
(* the two writes of env_update.                                            *)
KeepsWhatBootFinds ==
    buffer = "loaded" /\ (\A p \in Callers : pc[p] # "obsolete") =>
        IsValid(flash[env_valid]) /\ Stored = {flash[env_valid].env}

(* wmt_env.c on wmt_setsyspara: "Return 0 indicates success. Nonzero        *)
(* indicates failure."  A call that returns 0 has made the image the        *)
(* environment that the next boot finds.  (False for an image that fills    *)
(* the buffer but not the data of a copy: see ReadBack.)                    *)
SetReturnsStored == \A p \in Callers : pc[p] = "done" => Stored = {ram}

\* The two copies and the image implement one durable environment.
Store == INSTANCE EnvStore WITH
             stored <- Stored,
             image <- IF buffer = "loaded" THEN {ram} ELSE {}
UpdateIsAtomic == Store!StoreSpec
=============================================================================
