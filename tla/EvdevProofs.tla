----------------------------- MODULE EvdevProofs -----------------------------
(***************************************************************************)
(* Proofs about module Evdev, for any number of files and locks, any size   *)
(* of the rings and any length of a second.                                 *)
(***************************************************************************)
EXTENDS Evdev, WakelockProofs, FiniteSetTheorems

\* The stages of a file whose client is on the device's list.
Attached == {"attached", "failed"} \cup (OpenFile \ {"close"})
OpenFiles == {c \in Clients : file[c] \in OpenFile}

\* A client is on the list exactly from attach to detach, and it comes to the
\* list with an empty ring.
FileInv ==
    \A c \in Clients :
        /\ c \in clients <=> file[c] \in Attached
        /\ file[c] \in {"none", "lookup", "close"} => ring[c] = 0

\* The lock of a client with unread events lasts out the second.
AwakeInv == \A c \in clients : ring[c] # 0 => left[c] >= fresh[c]

\* exist says how far input_unregister_device has come.
ExistInv == exist <=> going \in {"here", "gone_away"}

GrabOne == \A c, d \in grab : c = d

\* The inductive invariant.
EvdevInv ==
    /\ EvdevTypeOK
    /\ FileInv
    /\ AwakeInv
    /\ ExistInv
    /\ GrabOne
    /\ IsFiniteSet(OpenFiles)
    /\ ReadReleasesLock
    /\ OpenOnceClosedOnce
    /\ GrabOwnerAlive
    /\ SleepersHaveNothing

(* A device that has just been connected.                                   *)
LEMMA EvdevInvInit == EvdevInit => EvdevInv
<1> SUFFICES ASSUME EvdevInit PROVE EvdevInv
  OBVIOUS
<1>1. WakelockTypeOK
  BY WakelockTypeInit DEF EvdevInit
<1>2. EvdevTypeOK
  <2>1. 0 \in 0..(BufferSize - 1) /\ 0 \in 0..HZ
    BY EvdevAssumption, WakelockAssumption
  <2>2. file \in [Clients -> Files]
    BY DEF EvdevInit, Files
  <2>3. ring \in [Clients -> 0..(BufferSize - 1)] /\ fresh \in [Clients -> 0..HZ]
    BY <2>1 DEF EvdevInit
  <2>4. /\ going \in Going /\ opened \in Nat /\ handle \in Int /\ users \in Nat
        /\ grab \subseteq Clients /\ clients \subseteq Clients /\ waiting \subseteq Clients
        /\ lapped \subseteq Clients
    BY DEF EvdevInit, Going
  <2>5. exist \in BOOLEAN /\ devgrab \in BOOLEAN
    BY Zenon DEF EvdevInit
  <2>. QED  BY <1>1, <2>2, <2>3, <2>4, <2>5 DEF EvdevTypeOK
<1>3. OpenFiles = {}
  BY DEF EvdevInit, OpenFiles, OpenFile
<1>4. IsFiniteSet(OpenFiles) /\ Cardinality(OpenFiles) = 0
  BY <1>3, FS_EmptySet
<1>5. OpenOnceClosedOnce
  BY <1>4 DEF EvdevInit, OpenOnceClosedOnce, OpenFiles
<1>6. FileInv
  BY DEF EvdevInit, FileInv, Attached, OpenFile
<1>7. ReadReleasesLock
  BY WakelockAssumption DEF EvdevInit, WakelockInit, ReadReleasesLock, Held, HeldIn, Clients
<1>. QED  BY <1>2, <1>4, <1>5, <1>6, <1>7
          DEF EvdevInit, EvdevInv, AwakeInv, ExistInv, GrabOne, GrabOwnerAlive,
              SleepersHaveNothing

----------------------------------------------------------------------------
(* A step that only moves a file to a stage of the same kind, and perhaps   *)
(* its reader on or off the wait queue.                                     *)
LEMMA MoveFile ==
    ASSUME EvdevInv, NEW c \in Clients, NEW to \in Files,
           file' = [file EXCEPT ![c] = to],
           waiting' \subseteq Clients,
           to \in Attached <=> file[c] \in Attached,
           to \in OpenFile <=> file[c] \in OpenFile,
           to \in {"none", "lookup", "close"} => file[c] \in {"none", "lookup", "close"},
           c \in grab => to \notin {"detach", "close"},
           \A d \in waiting' : file'[d] = "asleep" => ring[d] = 0 /\ (exist \/ going = "dead"),
           UNCHANGED <<wakelockVars, going, exist, opened, handle, users, devgrab, grab,
                       clients, ring, fresh, lapped>>
    PROVE  EvdevInv'
<1>0. file \in [Clients -> Files] /\ WakelockTypeOK
  BY DEF EvdevInv, EvdevTypeOK
<1>1. WakelockTypeOK' /\ left' = left /\ Held' = Held
  BY <1>0 DEF wakelockVars, WakelockTypeOK, Held, HeldIn
<1>2. EvdevTypeOK'
  BY <1>0, <1>1 DEF EvdevInv, EvdevTypeOK
<1>3. OpenFiles' = OpenFiles
  BY <1>0 DEF OpenFiles
<1>4. FileInv'
  BY <1>0 DEF EvdevInv, FileInv
<1>5. AwakeInv' /\ ReadReleasesLock' /\ ExistInv' /\ GrabOne'
  BY <1>1 DEF EvdevInv, AwakeInv, ReadReleasesLock, ExistInv, GrabOne
<1>6. OpenOnceClosedOnce'
  BY <1>3 DEF EvdevInv, OpenOnceClosedOnce, OpenFiles
<1>7. GrabOwnerAlive'
  BY <1>0 DEF EvdevInv, GrabOwnerAlive
<1>8. SleepersHaveNothing'
  BY DEF SleepersHaveNothing
<1>. QED  BY <1>2, <1>3, <1>4, <1>5, <1>6, <1>7, <1>8 DEF EvdevInv

(* The steps of open and read that move the file only.                      *)
LEMMA FileSteps ==
    ASSUME EvdevInv, NEW c \in Clients,
           \/ evdev_open(c) \/ open_no_memory(c) \/ open_device_fails(c)
           \/ evdev_read(c) \/ read_check(c) \/ read_returns(c) \/ fetch_finds_nothing(c)
    PROVE  EvdevInv'
<1>0. /\ UNCHANGED <<wakelockVars, going, exist, opened, handle, users, devgrab, grab,
                     clients, ring, fresh, lapped>>
      /\ file \in [Clients -> Files] /\ waiting \subseteq Clients
  BY DEF evdev_open, open_no_memory, open_device_fails, evdev_read, read_check,
         read_returns, fetch_finds_nothing, EvdevInv, EvdevTypeOK
<1>1. \A d \in waiting : file[d] = "asleep" => ring[d] = 0 /\ (exist \/ going = "dead")
  BY DEF EvdevInv, SleepersHaveNothing
<1> USE DEF Step, Files, OpenFile, Attached
<1>2. CASE evdev_open(c)
  BY <1>0, <1>1, <1>2, MoveFile DEF evdev_open
<1>3. CASE open_no_memory(c)
  BY <1>0, <1>1, <1>3, MoveFile DEF open_no_memory
<1>4. CASE open_device_fails(c)
  BY <1>0, <1>1, <1>4, MoveFile DEF open_device_fails
<1>5. CASE evdev_read(c)
  BY <1>0, <1>1, <1>5, MoveFile DEF evdev_read
<1>6. CASE read_check(c)
  BY <1>0, <1>1, <1>6, MoveFile DEF read_check, Readable
<1>7. CASE read_returns(c)
  BY <1>0, <1>1, <1>7, MoveFile DEF read_returns
<1>8. CASE fetch_finds_nothing(c)
  BY <1>0, <1>1, <1>8, MoveFile DEF fetch_finds_nothing
<1>. QED  BY <1>2, <1>3, <1>4, <1>5, <1>6, <1>7, <1>8

(* A signal only takes a reader off the wait queue.                         *)
LEMMA SignalStep == ASSUME EvdevInv, NEW c \in Clients, read_signal(c) PROVE EvdevInv'
<1>1. WakelockTypeOK' /\ left' = left /\ Held' = Held
  BY DEF EvdevInv, EvdevTypeOK, read_signal, wakelockVars, WakelockTypeOK, Held, HeldIn
<1>2. EvdevTypeOK'
  BY <1>1 DEF EvdevInv, EvdevTypeOK, read_signal
<1>3. OpenFiles' = OpenFiles
  BY DEF OpenFiles, read_signal
<1>4. FileInv' /\ AwakeInv' /\ ReadReleasesLock' /\ ExistInv' /\ GrabOne' /\ GrabOwnerAlive'
  BY <1>1 DEF EvdevInv, read_signal, FileInv, AwakeInv, ReadReleasesLock, ExistInv,
              GrabOne, GrabOwnerAlive
<1>5. OpenOnceClosedOnce'
  BY <1>3 DEF EvdevInv, OpenOnceClosedOnce, OpenFiles, read_signal
<1>6. SleepersHaveNothing'
  BY DEF EvdevInv, SleepersHaveNothing, read_signal
<1>. QED  BY <1>2, <1>3, <1>4, <1>5, <1>6 DEF EvdevInv

----------------------------------------------------------------------------
(* A client comes to the list with an empty ring and a lock nobody holds.   *)
LEMMA AttachStep ==
    ASSUME EvdevInv, NEW c \in Clients, evdev_attach_client(c)
    PROVE  EvdevInv'
<1>0. /\ file \in [Clients -> Files] /\ file[c] = "lookup"
      /\ file' = [file EXCEPT ![c] = "attached"]
      /\ clients' = clients \cup {c} /\ ring[c] = 0
      /\ UNCHANGED <<going, exist, opened, handle, users, devgrab, grab, waiting,
                     ring, fresh, lapped>>
  BY DEF EvdevInv, EvdevTypeOK, evdev_attach_client, Step, FileInv
<1>1. WakelockTypeOK' /\ left' = left /\ Held' = Held
  BY ClientStepType
     DEF EvdevInv, EvdevTypeOK, evdev_attach_client, ClientStep, wake_lock_init, Held, HeldIn
<1>2. EvdevTypeOK'
  BY <1>0, <1>1 DEF EvdevInv, EvdevTypeOK, Files
<1>3. OpenFiles' = OpenFiles
  BY <1>0 DEF OpenFiles, OpenFile
<1>4. FileInv'
  BY <1>0 DEF EvdevInv, FileInv, Attached, OpenFile
<1>5. AwakeInv' /\ ReadReleasesLock' /\ ExistInv' /\ GrabOne'
  BY <1>0, <1>1 DEF EvdevInv, AwakeInv, ReadReleasesLock, ExistInv, GrabOne
<1>6. OpenOnceClosedOnce'
  BY <1>0, <1>3 DEF EvdevInv, OpenOnceClosedOnce, OpenFiles
<1>7. GrabOwnerAlive'
  BY <1>0 DEF EvdevInv, GrabOwnerAlive, OpenFile
<1>8. SleepersHaveNothing'
  BY <1>0 DEF EvdevInv, SleepersHaveNothing
<1>. QED  BY <1>2, <1>3, <1>4, <1>5, <1>6, <1>7, <1>8 DEF EvdevInv

(* One more file is open; the first one opens the input device.             *)
LEMMA OpenStep ==
    ASSUME EvdevInv, NEW c \in Clients, evdev_open_device(c)
    PROVE  EvdevInv'
<1>0. /\ file \in [Clients -> Files] /\ file[c] = "attached"
      /\ file' = [file EXCEPT ![c] = "idle"] /\ exist /\ opened \in Nat
      /\ opened' = opened + 1
      /\ opened = 0 => going = "here" /\ users' = users + 1 /\ handle' = handle + 1
      /\ opened # 0 => users' = users /\ handle' = handle
      /\ UNCHANGED <<wakelockVars, going, exist, devgrab, grab, clients, waiting,
                     ring, fresh, lapped>>
  BY DEF EvdevInv, EvdevTypeOK, evdev_open_device, Step
<1>1. WakelockTypeOK' /\ left' = left /\ Held' = Held
  BY <1>0 DEF EvdevInv, EvdevTypeOK, wakelockVars, WakelockTypeOK, Held, HeldIn
<1>2. EvdevTypeOK'
  BY <1>0, <1>1 DEF EvdevInv, EvdevTypeOK, Files, OpenFile
<1>3. OpenFiles' = OpenFiles \cup {c} /\ c \notin OpenFiles
  BY <1>0 DEF OpenFiles, OpenFile
<1>4. IsFiniteSet(OpenFiles)' /\ Cardinality(OpenFiles') = Cardinality(OpenFiles) + 1
  BY <1>3, FS_AddElement DEF EvdevInv
<1>5. FileInv'
  BY <1>0 DEF EvdevInv, FileInv, Attached, OpenFile
<1>6. AwakeInv' /\ ReadReleasesLock' /\ ExistInv' /\ GrabOne'
  BY <1>0, <1>1 DEF EvdevInv, AwakeInv, ReadReleasesLock, ExistInv, GrabOne
<1>7. OpenOnceClosedOnce'
  <2>1. opened = Cardinality(OpenFiles) /\ going \in {"here", "gone_away"}
    BY <1>0 DEF EvdevInv, OpenOnceClosedOnce, OpenFiles, ExistInv
  <2>2. users' = 1
    BY <1>0, <2>1 DEF EvdevInv, OpenOnceClosedOnce
  <2>3. opened' = Cardinality(OpenFiles')
    BY <1>0, <1>4, <2>1
  <2>. QED  BY <1>0, <2>1, <2>2, <2>3 DEF OpenOnceClosedOnce, OpenFiles
<1>8. GrabOwnerAlive'
  BY <1>0 DEF EvdevInv, GrabOwnerAlive, OpenFile
<1>9. SleepersHaveNothing'
  BY <1>0 DEF EvdevInv, SleepersHaveNothing
<1>. QED  BY <1>2, <1>4, <1>5, <1>6, <1>7, <1>8, <1>9 DEF EvdevInv

(* The error path of open takes the client off the list; it has no grab.    *)
LEMMA FreeStep ==
    ASSUME EvdevInv, NEW c \in Clients, open_frees_client(c)
    PROVE  EvdevInv'
<1>0. /\ file \in [Clients -> Files] /\ file[c] = "failed"
      /\ file' = [file EXCEPT ![c] = "freed"]
      /\ clients' = clients \ {c} /\ fresh' = [fresh EXCEPT ![c] = 0]
      /\ UNCHANGED <<wakelockVars, going, exist, opened, handle, users, devgrab, grab,
                     waiting, ring, lapped>>
  BY DEF EvdevInv, EvdevTypeOK, open_frees_client, Step
<1>1. WakelockTypeOK' /\ left' = left /\ Held' = Held
  BY <1>0 DEF EvdevInv, EvdevTypeOK, wakelockVars, WakelockTypeOK, Held, HeldIn
<1>2. EvdevTypeOK'
  BY <1>0, <1>1, EvdevAssumption DEF EvdevInv, EvdevTypeOK, Files
<1>3. OpenFiles' = OpenFiles
  BY <1>0 DEF OpenFiles, OpenFile
<1>4. FileInv'
  BY <1>0 DEF EvdevInv, FileInv, Attached, OpenFile
<1>5. AwakeInv' /\ ReadReleasesLock' /\ ExistInv' /\ GrabOne'
  BY <1>0, <1>1 DEF EvdevInv, EvdevTypeOK, AwakeInv, ReadReleasesLock, ExistInv, GrabOne
<1>6. OpenOnceClosedOnce'
  BY <1>0, <1>3 DEF EvdevInv, OpenOnceClosedOnce, OpenFiles
<1>7. GrabOwnerAlive'
  BY <1>0 DEF EvdevInv, GrabOwnerAlive, OpenFile
<1>8. SleepersHaveNothing'
  BY <1>0 DEF EvdevInv, SleepersHaveNothing
<1>. QED  BY <1>2, <1>3, <1>4, <1>5, <1>6, <1>7, <1>8 DEF EvdevInv

----------------------------------------------------------------------------
(* A file that is released gives up its grab, and nobody else has one.      *)
LEMMA ReleaseStep ==
    ASSUME EvdevInv, NEW c \in Clients, evdev_release(c)
    PROVE  EvdevInv'
<1>0. /\ file \in [Clients -> Files] /\ file[c] = "idle"
      /\ file' = [file EXCEPT ![c] = "detach"]
      /\ grab' = grab \ {c} /\ devgrab' = IF c \in grab THEN FALSE ELSE devgrab
      /\ UNCHANGED <<wakelockVars, going, exist, opened, handle, users, clients,
                     waiting, ring, fresh, lapped>>
  BY DEF EvdevInv, EvdevTypeOK, evdev_release, Step
<1>1. WakelockTypeOK' /\ left' = left /\ Held' = Held
  BY <1>0 DEF EvdevInv, EvdevTypeOK, wakelockVars, WakelockTypeOK, Held, HeldIn
<1>2. EvdevTypeOK'
  <2>1. devgrab' \in BOOLEAN /\ grab' \subseteq Clients
    BY <1>0 DEF EvdevInv, EvdevTypeOK
  <2>. QED  BY <1>0, <1>1, <2>1 DEF EvdevInv, EvdevTypeOK, Files, OpenFile
<1>3. OpenFiles' = OpenFiles
  BY <1>0 DEF OpenFiles, OpenFile
<1>4. FileInv'
  BY <1>0 DEF EvdevInv, FileInv, Attached, OpenFile
<1>5. AwakeInv' /\ ReadReleasesLock' /\ ExistInv' /\ GrabOne'
  BY <1>0, <1>1 DEF EvdevInv, AwakeInv, ReadReleasesLock, ExistInv, GrabOne
<1>6. OpenOnceClosedOnce'
  BY <1>0, <1>3 DEF EvdevInv, OpenOnceClosedOnce, OpenFiles
<1>7. GrabOwnerAlive'
  <2>1. \A d \in grab' : d \in clients' /\ file'[d] \in OpenFile \ {"detach", "close"}
    BY <1>0 DEF EvdevInv, EvdevTypeOK, GrabOwnerAlive, OpenFile
  <2>2. exist => (devgrab' <=> grab' # {})
    BY <1>0 DEF EvdevInv, GrabOwnerAlive, GrabOne
  <2>. QED  BY <1>0, <2>1, <2>2 DEF GrabOwnerAlive
<1>8. SleepersHaveNothing'
  BY <1>0 DEF EvdevInv, SleepersHaveNothing
<1>. QED  BY <1>2, <1>3, <1>4, <1>5, <1>6, <1>7, <1>8 DEF EvdevInv

(* A detached client takes its events and its lock with it.                 *)
LEMMA DetachStep ==
    ASSUME EvdevInv, NEW c \in Clients, evdev_detach_client(c)
    PROVE  EvdevInv'
<1>0. /\ file \in [Clients -> Files] /\ file[c] = "detach"
      /\ file' = [file EXCEPT ![c] = "close"]
      /\ clients' = clients \ {c} /\ ring' = [ring EXCEPT ![c] = 0]
      /\ fresh' = [fresh EXCEPT ![c] = 0] /\ lapped' = lapped \ {c}
      /\ wake_lock_destroy(c)
      /\ UNCHANGED <<going, exist, opened, handle, users, devgrab, grab, waiting>>
      /\ c \in Locks
  BY DEF EvdevInv, EvdevTypeOK, evdev_detach_client, Step, Clients
<1>1. WakelockTypeOK' /\ left' = [left EXCEPT ![c] = 0] /\ Held' \subseteq Held \ {c}
  <2>1. WakelockTypeOK'
    BY <1>0, ClientStepType DEF EvdevInv, EvdevTypeOK, ClientStep
  <2>2. left' = [left EXCEPT ![c] = 0] /\ Held' \subseteq Held \ {c}
    BY <1>0 DEF EvdevInv, EvdevTypeOK, WakelockTypeOK, wake_lock_destroy, Held, HeldIn
  <2>. QED  BY <2>1, <2>2
<1>2. EvdevTypeOK'
  <2>1. ring' \in [Clients -> 0..(BufferSize - 1)] /\ fresh' \in [Clients -> 0..HZ]
    BY <1>0, EvdevAssumption, WakelockAssumption DEF EvdevInv, EvdevTypeOK
  <2>. QED  BY <1>0, <1>1, <2>1 DEF EvdevInv, EvdevTypeOK, Files, OpenFile
<1>3. OpenFiles' = OpenFiles
  BY <1>0 DEF OpenFiles, OpenFile
<1>4. FileInv'
  BY <1>0 DEF EvdevInv, EvdevTypeOK, FileInv, Attached, OpenFile
<1>5. AwakeInv' /\ ReadReleasesLock' /\ ExistInv' /\ GrabOne'
  BY <1>0, <1>1 DEF EvdevInv, EvdevTypeOK, WakelockTypeOK, Clients, AwakeInv,
                    ReadReleasesLock, ExistInv, GrabOne
<1>6. OpenOnceClosedOnce'
  BY <1>0, <1>3 DEF EvdevInv, OpenOnceClosedOnce, OpenFiles
<1>7. GrabOwnerAlive'
  BY <1>0 DEF EvdevInv, EvdevTypeOK, GrabOwnerAlive
<1>8. SleepersHaveNothing'
  BY <1>0 DEF EvdevInv, EvdevTypeOK, SleepersHaveNothing
<1>. QED  BY <1>2, <1>3, <1>4, <1>5, <1>6, <1>7, <1>8 DEF EvdevInv

(* The last file of a live device closes it, and no grab is left by then.   *)
LEMMA CloseStep ==
    ASSUME EvdevInv, NEW c \in Clients, evdev_close_device(c)
    PROVE  EvdevInv'
<1>0. /\ file \in [Clients -> Files] /\ file[c] = "close"
      /\ file' = [file EXCEPT ![c] = "none"]
      /\ opened' = IF exist THEN opened - 1 ELSE opened
      /\ IF exist /\ opened = 1
           THEN devgrab' = FALSE /\ users' = users - 1 /\ handle' = handle - 1
           ELSE UNCHANGED <<handle, users, devgrab>>
      /\ UNCHANGED <<wakelockVars, going, exist, grab, clients, waiting, ring,
                     fresh, lapped>>
  BY DEF EvdevInv, EvdevTypeOK, evdev_close_device, Step, input_close_device
<1>1. WakelockTypeOK' /\ left' = left /\ Held' = Held
  BY <1>0 DEF EvdevInv, EvdevTypeOK, wakelockVars, WakelockTypeOK, Held, HeldIn
<1>2. OpenFiles' = OpenFiles \ {c} /\ c \in OpenFiles
  BY <1>0 DEF OpenFiles, OpenFile
<1>3. /\ IsFiniteSet(OpenFiles)'
      /\ Cardinality(OpenFiles') = Cardinality(OpenFiles) - 1
      /\ Cardinality(OpenFiles) \in Nat /\ Cardinality(OpenFiles') \in Nat
  BY <1>2, FS_RemoveElement, FS_CardinalityType DEF EvdevInv
<1>4. ASSUME exist
      PROVE  /\ opened = Cardinality(OpenFiles) /\ opened \in Nat \ {0}
             /\ users = 1 /\ going \in {"here", "gone_away"}
  <2>1. opened = Cardinality(OpenFiles) /\ going \in {"here", "gone_away"}
    BY <1>4 DEF EvdevInv, OpenOnceClosedOnce, OpenFiles, ExistInv
  <2>2. opened \in Nat \ {0}
    BY <1>3, <2>1
  <2>. QED  BY <2>1, <2>2 DEF EvdevInv, OpenOnceClosedOnce
<1>5. EvdevTypeOK'
  <2>1. opened' \in Nat /\ users' \in Nat /\ handle' \in Int
    BY <1>0, <1>4 DEF EvdevInv, EvdevTypeOK
  <2>2. devgrab' \in BOOLEAN
    BY <1>0 DEF EvdevInv, EvdevTypeOK
  <2>3. file' \in [Clients -> Files]
    BY <1>0 DEF Files
  <2>. QED  BY <1>0, <1>1, <2>1, <2>2, <2>3 DEF EvdevInv, EvdevTypeOK
<1>6. FileInv'
  <2>1. ring[c] = 0
    BY <1>0 DEF EvdevInv, FileInv
  <2>. QED  BY <1>0, <2>1 DEF EvdevInv, FileInv, Attached, OpenFile
<1>7. AwakeInv' /\ ReadReleasesLock' /\ ExistInv' /\ GrabOne'
  BY <1>0, <1>1 DEF EvdevInv, AwakeInv, ReadReleasesLock, ExistInv, GrabOne
<1>8. OpenOnceClosedOnce'
  <2>1. exist => opened' = Cardinality(OpenFiles')
    BY <1>0, <1>3, <1>4
  <2>2. users' = IF opened' > 0 /\ going' \notin {"removed", "unregistered"} THEN 1 ELSE 0
    BY <1>0, <1>4 DEF EvdevInv, OpenOnceClosedOnce
  <2>. QED  BY <1>0, <2>1, <2>2 DEF OpenOnceClosedOnce, OpenFiles
<1>9. GrabOwnerAlive'
  <2>1. c \notin grab
    BY <1>0 DEF EvdevInv, GrabOwnerAlive
  <2>2. \A d \in grab' : d \in clients' /\ file'[d] \in OpenFile \ {"detach", "close"}
    BY <1>0, <2>1 DEF EvdevInv, EvdevTypeOK, GrabOwnerAlive
  <2>3. ASSUME exist, opened = 1 PROVE grab = {}
    <3>1. Cardinality(OpenFiles') = 0
      BY <1>3, <1>4, <2>3
    <3>2. OpenFiles' = {}
      BY <1>3, <3>1, FS_EmptySet
    <3>3. grab \subseteq OpenFiles'
      BY <1>0, <2>2 DEF EvdevInv, EvdevTypeOK, OpenFiles
    <3>. QED  BY <3>2, <3>3
  <2>4. exist => (devgrab' <=> grab # {})
    BY <1>0, <2>3 DEF EvdevInv, GrabOwnerAlive
  <2>. QED  BY <1>0, <2>2, <2>4 DEF GrabOwnerAlive
<1>10. SleepersHaveNothing'
  BY <1>0 DEF EvdevInv, SleepersHaveNothing, EvdevTypeOK
<1>. QED  BY <1>3, <1>5, <1>6, <1>7, <1>8, <1>9, <1>10 DEF EvdevInv

(* A grab is taken by an open file, when there is none, and given back.     *)
LEMMA GrabSteps ==
    ASSUME EvdevInv, NEW c \in Clients, evdev_grab(c) \/ evdev_ungrab(c)
    PROVE  EvdevInv'
<1>0. /\ file[c] = "idle"
      /\ \/ grab' = {c} /\ devgrab' = TRUE
         \/ grab' = {} /\ devgrab' = FALSE
      /\ UNCHANGED <<wakelockVars, going, exist, opened, handle, users, clients, file,
                     waiting, ring, fresh, lapped>>
  BY DEF evdev_grab, evdev_ungrab
<1>1. WakelockTypeOK' /\ left' = left /\ Held' = Held
  BY <1>0 DEF EvdevInv, EvdevTypeOK, wakelockVars, WakelockTypeOK, Held, HeldIn
<1>2. EvdevTypeOK'
  <2>1. devgrab' \in BOOLEAN /\ grab' \subseteq Clients
    BY <1>0
  <2>. QED  BY <1>0, <1>1, <2>1 DEF EvdevInv, EvdevTypeOK
<1>3. OpenFiles' = OpenFiles
  BY <1>0 DEF OpenFiles
<1>4. FileInv' /\ AwakeInv' /\ ReadReleasesLock' /\ ExistInv' /\ GrabOne'
  BY <1>0, <1>1 DEF EvdevInv, FileInv, AwakeInv, ReadReleasesLock, ExistInv, GrabOne
<1>5. OpenOnceClosedOnce'
  BY <1>0, <1>3 DEF EvdevInv, OpenOnceClosedOnce, OpenFiles
<1>6. GrabOwnerAlive'
  <2>1. c \in clients
    BY <1>0 DEF EvdevInv, FileInv, Attached, OpenFile
  <2>2. \A d \in grab' : d = c
    BY <1>0
  <2>3. \A d \in grab' : d \in clients' /\ file'[d] \in OpenFile \ {"detach", "close"}
    BY <1>0, <2>1, <2>2 DEF OpenFile
  <2>4. devgrab' <=> grab' # {}
    BY <1>0
  <2>. QED  BY <2>3, <2>4 DEF GrabOwnerAlive
<1>7. SleepersHaveNothing'
  BY <1>0 DEF EvdevInv, SleepersHaveNothing
<1>. QED  BY <1>2, <1>3, <1>4, <1>5, <1>6, <1>7 DEF EvdevInv

----------------------------------------------------------------------------
(* The reader takes an event out, and drops its lock with the last one.     *)
LEMMA FetchStep ==
    ASSUME EvdevInv, NEW c \in Clients, evdev_fetch_next_event(c)
    PROVE  EvdevInv'
<1>0. /\ file \in [Clients -> Files] /\ file[c] \in {"fetch", "drain"}
      /\ file' = [file EXCEPT ![c] = "drain"]
      /\ ring \in [Clients -> 0..(BufferSize - 1)] /\ ring[c] # 0
      /\ ring' = [ring EXCEPT ![c] = @ - 1]
      /\ UNCHANGED <<going, exist, opened, handle, users, devgrab, grab, clients,
                     waiting, fresh, lapped>>
      /\ c \in Locks /\ BufferSize \in Nat
  BY EvdevAssumption DEF EvdevInv, EvdevTypeOK, evdev_fetch_next_event, Clients
<1>1. /\ WakelockTypeOK' /\ Held' \subseteq Held
      /\ ring'[c] = 0 => c \notin Held'
      /\ \A d \in Clients : d # c \/ ring'[c] # 0 => left'[d] = left[d]
  <2>1. CASE ring'[c] = 0
    <3>1. wake_unlock(c) /\ UNCHANGED worker
      BY <2>1 DEF evdev_fetch_next_event
    <3>2. WakelockTypeOK'
      BY <3>1, <1>0, UnlockType DEF EvdevInv, EvdevTypeOK, WakelockTypeOK
    <3>3. Held' \subseteq Held \ {c} /\ left' = [left EXCEPT ![c] = 0]
      BY <3>1, <1>0 DEF wake_unlock, Held, HeldIn, EvdevInv, EvdevTypeOK, WakelockTypeOK,
                        Collect, Expired
    <3>. QED  BY <2>1, <3>2, <3>3 DEF EvdevInv, EvdevTypeOK, WakelockTypeOK, Clients
  <2>2. CASE ring'[c] # 0
    <3>1. UNCHANGED wakelockVars
      BY <2>2 DEF evdev_fetch_next_event
    <3>. QED  BY <2>2, <3>1
              DEF wakelockVars, WakelockTypeOK, EvdevInv, EvdevTypeOK, Held, HeldIn
  <2>. QED  BY <2>1, <2>2
<1>2. EvdevTypeOK'
  <2>1. ring' \in [Clients -> 0..(BufferSize - 1)]
    BY <1>0
  <2>. QED  BY <1>0, <1>1, <2>1 DEF EvdevInv, EvdevTypeOK, Files, OpenFile
<1>3. OpenFiles' = OpenFiles
  BY <1>0 DEF OpenFiles, OpenFile
<1>4. FileInv'
  BY <1>0 DEF EvdevInv, FileInv, Attached, OpenFile
<1>5. AwakeInv'
  <2> SUFFICES ASSUME NEW d \in clients, ring'[d] # 0 PROVE left'[d] >= fresh[d]
    BY <1>0 DEF AwakeInv
  <2>1. d \in Clients /\ ring[d] # 0
    BY <1>0 DEF EvdevInv, EvdevTypeOK
  <2>. QED  BY <1>1, <2>1 DEF EvdevInv, AwakeInv
<1>6. ReadReleasesLock'
  BY <1>0, <1>1 DEF EvdevInv, ReadReleasesLock
<1>7. ExistInv' /\ GrabOne'
  BY <1>0 DEF EvdevInv, ExistInv, GrabOne
<1>8. OpenOnceClosedOnce'
  BY <1>0, <1>3 DEF EvdevInv, OpenOnceClosedOnce, OpenFiles
<1>9. GrabOwnerAlive'
  BY <1>0 DEF EvdevInv, EvdevTypeOK, GrabOwnerAlive, OpenFile
<1>10. SleepersHaveNothing'
  BY <1>0 DEF EvdevInv, EvdevTypeOK, SleepersHaveNothing
<1>. QED  BY <1>2, <1>3, <1>4, <1>5, <1>6, <1>7, <1>8, <1>9, <1>10 DEF EvdevInv

(* An event goes to the owner of the grab or to everybody, renews the lock  *)
(* of each receiver and wakes every reader.                                 *)
LEMMA EventStep == ASSUME EvdevInv, evdev_event PROVE EvdevInv'
<1>0. /\ UNCHANGED <<going, exist, opened, handle, users, devgrab, grab, clients, file>>
      /\ waiting' = {}
      /\ ring' = [d \in Clients |-> IF d \in Receivers THEN (ring[d] + 1) % BufferSize ELSE ring[d]]
      /\ fresh' = [d \in Clients |-> IF d \in Receivers THEN HZ ELSE fresh[d]]
      /\ lapped' = {d \in Clients : ring'[d] = 0 /\ d \in lapped \cup Receivers}
  BY DEF evdev_event
<1>1. Receivers \subseteq Clients /\ Receivers \in SUBSET Locks /\ HZ \in 0..MaxTimeout
  BY EvdevAssumption, WakelockAssumption DEF EvdevInv, EvdevTypeOK, Receivers, Clients
<1>2. LockThenUnlock(Receivers, HZ, {})
  BY DEF evdev_event, LockAll
<1>3. WakelockTypeOK'
  BY <1>1, <1>2, LockThenUnlockType DEF EvdevInv, EvdevTypeOK
<1>4. /\ Held' \subseteq Held \cup Receivers
      /\ \A l \in Locks : left'[l] = IF l \in Receivers THEN HZ ELSE left[l]
  <2>1. WakelockTypeOK /\ {} \in SUBSET Locks
    BY DEF EvdevInv, EvdevTypeOK
  <2>2. /\ Held' \subseteq (Held \cup Receivers) \ {}
        /\ \A l \in Locks :
              left'[l] = IF l \in {} THEN 0 ELSE IF l \in Receivers THEN HZ ELSE left[l]
    BY <1>1, <1>2, <2>1, LockThenUnlockEffect
  <2>. QED  BY <2>2
<1>5. EvdevTypeOK'
  <2>1. ring' \in [Clients -> 0..(BufferSize - 1)]
    <3>1. \A n \in 0..(BufferSize - 1) : (n + 1) % BufferSize \in 0..(BufferSize - 1)
      BY EvdevAssumption
    <3>. QED  BY <1>0, <3>1 DEF EvdevInv, EvdevTypeOK
  <2>2. fresh' \in [Clients -> 0..HZ]
    BY <1>0, EvdevAssumption, WakelockAssumption DEF EvdevInv, EvdevTypeOK
  <2>. QED  BY <1>0, <1>3, <2>1, <2>2 DEF EvdevInv, EvdevTypeOK
<1>6. OpenFiles' = OpenFiles
  BY <1>0 DEF OpenFiles
<1>7. FileInv'
  <2>1. Receivers \subseteq clients
    BY DEF EvdevInv, GrabOwnerAlive, Receivers
  <2>2. \A d \in Clients : file[d] \in {"none", "lookup", "close"} => ring'[d] = ring[d]
    BY <1>0, <2>1 DEF EvdevInv, FileInv, Attached, OpenFile
  <2>. QED  BY <1>0, <2>2 DEF EvdevInv, FileInv
<1>8. AwakeInv'
  <2> SUFFICES ASSUME NEW d \in clients, ring'[d] # 0 PROVE left'[d] >= fresh'[d]
    BY <1>0 DEF AwakeInv
  <2>1. d \in Clients /\ d \in Locks
    BY DEF EvdevInv, EvdevTypeOK, Clients
  <2>2. CASE d \in Receivers
    BY <1>0, <1>1, <1>4, <2>1, <2>2, WakelockAssumption
  <2>3. CASE d \notin Receivers
    BY <1>0, <1>4, <2>1, <2>3 DEF EvdevInv, AwakeInv
  <2>. QED  BY <2>2, <2>3
<1>9. ReadReleasesLock'
  BY <1>0, <1>4 DEF EvdevInv, ReadReleasesLock
<1>10. ExistInv' /\ GrabOne' /\ GrabOwnerAlive'
  BY <1>0 DEF EvdevInv, ExistInv, GrabOne, GrabOwnerAlive
<1>11. OpenOnceClosedOnce'
  BY <1>0, <1>6 DEF EvdevInv, OpenOnceClosedOnce, OpenFiles
<1>12. SleepersHaveNothing'
  BY <1>0 DEF SleepersHaveNothing
<1>. QED  BY <1>5, <1>6, <1>7, <1>8, <1>9, <1>10, <1>11, <1>12 DEF EvdevInv

----------------------------------------------------------------------------
(* The steps of input_unregister_device: the readers are woken after the    *)
(* device is marked dead, and only then is the input device closed.         *)
LEMMA GoneSteps ==
    ASSUME EvdevInv, input_disconnect_device \/ Disconnect
    PROVE  EvdevInv'
<1>0. /\ UNCHANGED <<wakelockVars, opened, grab, clients, file, ring, fresh, lapped>>
      /\ handle \in Int /\ users \in Nat /\ devgrab \in BOOLEAN
  BY DEF EvdevInv, EvdevTypeOK, input_disconnect_device, Disconnect, evdev_mark_dead,
         evdev_hangup, evdev_cleanup, input_unregister_handle
<1>1. WakelockTypeOK' /\ left' = left /\ Held' = Held
  BY <1>0 DEF EvdevInv, EvdevTypeOK, wakelockVars, WakelockTypeOK, Held, HeldIn
<1>2. OpenFiles' = OpenFiles
  BY <1>0 DEF OpenFiles
<1>3. FileInv' /\ AwakeInv' /\ ReadReleasesLock' /\ GrabOne'
  BY <1>0, <1>1 DEF EvdevInv, FileInv, AwakeInv, ReadReleasesLock, GrabOne
<1> USE DEF Leave, Going
<1>4. /\ going' \in Going /\ exist' \in BOOLEAN /\ waiting' \subseteq waiting
      /\ handle' \in Int /\ users' \in Nat /\ devgrab' \in BOOLEAN
      /\ ExistInv' /\ (exist' => exist)
      /\ exist' => devgrab' = devgrab
      /\ users' = IF opened > 0 /\ going' \notin {"removed", "unregistered"} THEN 1 ELSE 0
      /\ \A d \in waiting' : exist \/ going = "dead" => exist' \/ going' = "dead"
  <2>0. /\ exist \in BOOLEAN /\ opened \in Nat /\ ExistInv
        /\ users = IF opened > 0 /\ going \notin {"removed", "unregistered"} THEN 1 ELSE 0
    BY DEF EvdevInv, EvdevTypeOK, OpenOnceClosedOnce
  <2>1. CASE input_disconnect_device
    BY <1>0, <2>0, <2>1 DEF input_disconnect_device, ExistInv
  <2>2. CASE evdev_mark_dead
    BY <1>0, <2>0, <2>2 DEF evdev_mark_dead, ExistInv
  <2>3. CASE evdev_hangup
    BY <1>0, <2>0, <2>3 DEF evdev_hangup, ExistInv
  <2>4. CASE evdev_cleanup
    <3>1. devgrab' \in BOOLEAN
      BY <1>0, <2>4 DEF evdev_cleanup, input_close_device
    <3>2. handle' \in Int /\ users' = 0
      BY <1>0, <2>0, <2>4 DEF evdev_cleanup, input_close_device
    <3>. QED  BY <2>0, <2>4, <3>1, <3>2 DEF evdev_cleanup, ExistInv
  <2>5. CASE input_unregister_handle
    BY <1>0, <2>0, <2>5 DEF input_unregister_handle, ExistInv
  <2>. QED  BY <2>1, <2>2, <2>3, <2>4, <2>5 DEF Disconnect
<1>5. EvdevTypeOK'
  BY <1>0, <1>1, <1>4 DEF EvdevInv, EvdevTypeOK
<1>6. OpenOnceClosedOnce'
  BY <1>0, <1>2, <1>4 DEF EvdevInv, OpenOnceClosedOnce, OpenFiles
<1>7. GrabOwnerAlive'
  BY <1>0, <1>4 DEF EvdevInv, GrabOwnerAlive
<1>8. SleepersHaveNothing'
  BY <1>0, <1>4 DEF EvdevInv, SleepersHaveNothing
<1>. QED  BY <1>2, <1>3, <1>4, <1>5, <1>6, <1>7, <1>8 DEF EvdevInv

(* A step of the wake lock manager that makes no client's lock hold and     *)
(* takes from it no more time than passes.                                  *)
LEMMA ManagerStep ==
    ASSUME EvdevInv, WakelockTypeOK', Held' \cap Clients \subseteq Held,
           fresh' \in [Clients -> 0..HZ],
           \A c \in Clients : left[c] >= fresh[c] => left'[c] >= fresh'[c],
           UNCHANGED <<going, exist, opened, handle, users, devgrab, grab, clients, file,
                       waiting, ring, lapped>>
    PROVE  EvdevInv'
<1>1. EvdevTypeOK'
  BY DEF EvdevInv, EvdevTypeOK
<1>2. OpenFiles' = OpenFiles
  BY DEF OpenFiles
<1>3. FileInv' /\ ExistInv' /\ GrabOne' /\ GrabOwnerAlive' /\ SleepersHaveNothing'
  BY DEF EvdevInv, FileInv, ExistInv, GrabOne, GrabOwnerAlive, SleepersHaveNothing
<1>4. OpenOnceClosedOnce'
  BY <1>2 DEF EvdevInv, OpenOnceClosedOnce, OpenFiles
<1>5. AwakeInv'
  BY DEF EvdevInv, EvdevTypeOK, AwakeInv
<1>6. ReadReleasesLock'
  BY DEF EvdevInv, ReadReleasesLock
<1>. QED  BY <1>1, <1>2, <1>3, <1>4, <1>5, <1>6 DEF EvdevInv

(* A jiffy, and the main lock, the timer and the suspend thread.            *)
LEMMA OtherSteps ==
    ASSUME EvdevInv,
           \/ EvdevTick
           \/ (MainStep \/ TimerFires \/ expire_wake_locks \/ suspend_asks) /\ UNCHANGED evdevOnly
    PROVE  EvdevInv'
<1>0. /\ WakelockTypeOK /\ fresh \in [Clients -> 0..HZ] /\ HZ \in Nat
      /\ \A c \in Clients : c \in Locks /\ c # main_wake_lock
  BY EvdevAssumption, WakelockAssumption DEF EvdevInv, EvdevTypeOK, Clients
<1>1. CASE EvdevTick
  <2>1. WakelockTypeOK' /\ Held' \subseteq Held
    BY <1>0, <1>1, TickType, TimerHeld DEF EvdevTick
  <2>2. fresh' \in [Clients -> 0..HZ]
    BY <1>0, <1>1 DEF EvdevTick
  <2>3. \A c \in Clients : left[c] >= fresh[c] => left'[c] >= fresh'[c]
    BY <1>0, <1>1, WakelockAssumption DEF EvdevTick, Tick, WakelockTypeOK
  <2>. QED  BY <1>1, <2>1, <2>2, <2>3, ManagerStep DEF EvdevTick
<1>2. CASE MainStep /\ UNCHANGED evdevOnly
  <2>1. WakelockTypeOK'
    BY <1>0, <1>2, WakelockTypeNext DEF WakelockNext
  <2>2. Held' \cap Clients \subseteq Held /\ \A c \in Clients : left'[c] = left[c]
    <3>1. CASE wake_lock(main_wake_lock)
      BY <1>0, <3>1 DEF wake_lock, Held, HeldIn, WakelockTypeOK, Clients
    <3>2. CASE wake_unlock(main_wake_lock)
      BY <1>0, <3>2 DEF wake_unlock, Collect, Expired, Held, HeldIn, WakelockTypeOK, Clients
    <3>. QED  BY <1>2, <3>1, <3>2 DEF MainStep
  <2>. QED  BY <1>0, <1>2, <2>1, <2>2, ManagerStep DEF evdevOnly
<1>3. CASE (TimerFires \/ expire_wake_locks) /\ UNCHANGED evdevOnly
  <2>1. WakelockTypeOK' /\ Held' \subseteq Held
    BY <1>0, <1>3, WakelockTypeNext, TimerHeld DEF WakelockNext
  <2>2. left' = left
    BY <1>3 DEF TimerFires, expire_wake_locks, has_wake_lock, Collect
  <2>. QED  BY <1>0, <1>3, <2>1, <2>2, ManagerStep DEF evdevOnly
<1>4. CASE suspend_asks /\ UNCHANGED evdevOnly
  <2>1. PICK r \in -1..MaxTimeout : has_wake_lock(r)
    BY <1>4 DEF suspend_asks
  <2>2. Held' = Held /\ left' = left
    BY <1>0, <2>1, AskHeld DEF has_wake_lock, Collect
  <2>3. WakelockTypeOK'
    BY <1>0, <1>4, <2>1, HasWakeLockType DEF suspend_asks, WakelockTypeOK
  <2>. QED  BY <1>0, <1>4, <2>2, <2>3, ManagerStep DEF evdevOnly
<1>. QED  BY <1>1, <1>2, <1>3, <1>4

----------------------------------------------------------------------------
(* Every step of a file, of the device, of its events and of the wake lock  *)
(* manager preserves the invariant.                                         *)
LEMMA EvdevInvNext == EvdevInv /\ [EvdevNext]_evdevVars => EvdevInv'
<1> SUFFICES ASSUME EvdevInv, [EvdevNext]_evdevVars PROVE EvdevInv'
  OBVIOUS
<1>1. CASE evdev_event
  BY <1>1, EventStep
<1>2. ASSUME NEW c \in Clients,
             \/ evdev_open(c) \/ open_no_memory(c) \/ evdev_attach_client(c)
             \/ evdev_open_device(c) \/ open_device_fails(c) \/ open_frees_client(c)
             \/ evdev_release(c) \/ evdev_detach_client(c) \/ evdev_close_device(c)
             \/ evdev_grab(c) \/ evdev_ungrab(c)
             \/ evdev_read(c) \/ read_check(c) \/ read_returns(c) \/ read_signal(c)
             \/ evdev_fetch_next_event(c) \/ fetch_finds_nothing(c)
      PROVE  EvdevInv'
  BY <1>2, FileSteps, SignalStep, AttachStep, OpenStep, FreeStep, ReleaseStep,
     DetachStep, CloseStep, GrabSteps, FetchStep
<1>3. CASE input_disconnect_device \/ Disconnect
  BY <1>3, GoneSteps
<1>4. CASE \/ EvdevTick
           \/ (MainStep \/ TimerFires \/ expire_wake_locks \/ suspend_asks) /\ UNCHANGED evdevOnly
  BY <1>4, OtherSteps
<1>5. CASE UNCHANGED evdevVars
  <2>1. WakelockTypeOK' /\ left' = left /\ Held' = Held
    BY <1>5 DEF evdevVars, EvdevInv, EvdevTypeOK, wakelockVars, WakelockTypeOK, Held, HeldIn
  <2>. QED  BY <1>5, <2>1, ManagerStep DEF evdevVars, evdevOnly, EvdevInv, EvdevTypeOK
<1>. QED  BY <1>1, <1>2, <1>3, <1>4, <1>5 DEF EvdevNext

(* evdev.c keeps its counts, its list and its rings within their types:     *)
(* neither the count of open files nor the users of the device goes below   *)
(* zero, and no ring index leaves the buffer.                               *)
THEOREM EvdevTypeCorrect == EvdevSpec => []EvdevTypeOK
<1>1. EvdevInv => EvdevTypeOK
  BY DEF EvdevInv
<1>. QED  BY <1>1, EvdevInvInit, EvdevInvNext, PTL DEF EvdevSpec

(* The system stays awake for a second after an event that a client has not *)
(* read, whatever other clients, readers and the suspend thread do.         *)
THEOREM UnreadStaysAwake == EvdevSpec => []UnreadKeepsAwake
<1>1. EvdevInv => UnreadKeepsAwake
  <2> SUFFICES ASSUME EvdevInv, NEW c \in clients, ring[c] # 0, fresh[c] > 0
               PROVE  c \in Held
    BY DEF UnreadKeepsAwake
  <2>1. /\ c \in Locks /\ c \in Clients /\ left[c] >= fresh[c]
        /\ left[c] \in 0..MaxTimeout /\ fresh[c] \in 0..HZ
    BY DEF EvdevInv, EvdevTypeOK, WakelockTypeOK, AwakeInv, Clients
  <2>2. left[c] > 0
    BY <2>1, EvdevAssumption, WakelockAssumption
  <2>. QED  BY <2>1, <2>2 DEF EvdevInv, EvdevTypeOK, WakelockTypeOK, Held, HeldIn
<1>. QED  BY <1>1, EvdevInvInit, EvdevInvNext, PTL DEF EvdevSpec

(* A client that has read everything keeps nobody awake, unless its ring    *)
(* was lapped.                                                              *)
THEOREM EmptyRingSleeps == EvdevSpec => []ReadReleasesLock
<1>1. EvdevInv => ReadReleasesLock
  BY DEF EvdevInv
<1>. QED  BY <1>1, EvdevInvInit, EvdevInvNext, PTL DEF EvdevSpec

(* The input device is closed once, by the last file or by the disconnect.  *)
THEOREM DeviceClosedOnce == EvdevSpec => []OpenOnceClosedOnce
<1>1. EvdevInv => OpenOnceClosedOnce
  BY DEF EvdevInv
<1>. QED  BY <1>1, EvdevInvInit, EvdevInvNext, PTL DEF EvdevSpec

(* evdev->grab never points at a client that was released.                  *)
THEOREM GrabNeverDangles == EvdevSpec => []GrabOwnerAlive
<1>1. EvdevInv => GrabOwnerAlive
  BY DEF EvdevInv
<1>. QED  BY <1>1, EvdevInvInit, EvdevInvNext, PTL DEF EvdevSpec

(* No reader sleeps through an event or through the end of the device.      *)
THEOREM NoReaderOversleeps == EvdevSpec => []SleepersHaveNothing
<1>1. EvdevInv => SleepersHaveNothing
  BY DEF EvdevInv
<1>. QED  BY <1>1, EvdevInvInit, EvdevInvNext, PTL DEF EvdevSpec
=============================================================================
