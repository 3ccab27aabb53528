------------------------------- MODULE Evdev --------------------------------
(***************************************************************************)
(* An event device, drivers/input/evdev.c, from the moment it is connected, *)
(* with the parts of drivers/input/input.c it calls.  Each file open on it  *)
(* is a client with a ring of events and a wake lock of its own: the client *)
(* locks of module Wakelock are the clients here.                           *)
(*                                                                          *)
(* Events come from interrupts, so evdev_event is one action.  What is done *)
(* under evdev->mutex is one action too; open, release and disconnect are   *)
(* sequences of them.  An event is not told apart from another, and of the  *)
(* two indices of a ring only the distance is kept.                         *)
(***************************************************************************)
EXTENDS Wakelock, FiniteSets

CONSTANTS HZ,           \* jiffies in a second, the timeout of a client's lock
          BufferSize    \* EVDEV_BUFFER_SIZE

ASSUME EvdevAssumption ==
    /\ HZ \in 1..MaxTimeout
    /\ BufferSize \in Nat /\ BufferSize >= 2

VARIABLES
    going,      \* how far input_unregister_device has come
    exist,      \* evdev->exist
    opened,     \* evdev->open
    handle,     \* handle->open
    users,      \* dev->users as far as this handle is concerned
    devgrab,    \* dev->grab is this handle
    grab,       \* evdev->grab, at most one client
    clients,    \* evdev->client_list
    file,       \* stage of the process that uses a client
    waiting,    \* clients whose reader is on evdev->wait, not runnable
    ring,       \* client->head minus client->tail, modulo the buffer's size
    fresh,      \* history: jiffies left of the second after the last event
    lapped      \* history: clients whose ring was filled until it looks empty

evdevOnly == <<going, exist, opened, handle, users, devgrab, grab, clients,
               file, waiting, ring, fresh, lapped>>
evdevVars == <<wakelockVars, evdevOnly>>

Going == {"here", "gone_away", "dead", "hung_up", "removed", "unregistered"}
\* A file that is open, and every stage of one.
OpenFile == {"idle", "check", "asleep", "fetch", "drain", "detach", "close"}
Files == {"none", "lookup", "attached", "failed", "freed"} \cup OpenFile

Step(c, from, to) == file[c] = from /\ file' = [file EXCEPT ![c] = to]

EvdevInit ==
    /\ WakelockInit
    /\ going = "here" /\ exist = TRUE
    /\ opened = 0 /\ handle = 0 /\ users = 0
    /\ devgrab = FALSE /\ grab = {} /\ clients = {}
    /\ file = [c \in Clients |-> "none"]
    /\ waiting = {}
    /\ ring = [c \in Clients |-> 0]
    /\ fresh = [c \in Clients |-> 0]
    /\ lapped = {}

----------------------------------------------------------------------------
\* input_pass_event: a grabbed device, or an open handle on the device's list.
Reaches == devgrab \/ (going # "unregistered" /\ handle # 0)
Receivers == IF grab # {} THEN grab ELSE clients

\* wake_lock_timeout for one receiver after the other, with interrupts off.
LockAll(S) == LockThenUnlock(S, HZ, {})

evdev_event ==
    /\ Reaches
    /\ LockAll(Receivers)
    /\ ring' = [c \in Clients |-> IF c \in Receivers THEN (ring[c] + 1) % BufferSize ELSE ring[c]]
    /\ fresh' = [c \in Clients |-> IF c \in Receivers THEN HZ ELSE fresh[c]]
    /\ lapped' = {c \in Clients : ring'[c] = 0 /\ c \in lapped \cup Receivers}
    /\ waiting' = {}
    /\ UNCHANGED <<going, exist, opened, handle, users, devgrab, grab, clients, file>>

----------------------------------------------------------------------------
\* evdev_open finds the device in evdev_table and takes a reference.
evdev_open(c) ==
    /\ going \notin {"removed", "unregistered"}
    /\ Step(c, "none", "lookup")
    /\ UNCHANGED <<wakelockVars, going, exist, opened, handle, users, devgrab, grab,
                   clients, waiting, ring, fresh, lapped>>

\* There is no memory for a client.
open_no_memory(c) ==
    /\ Step(c, "lookup", "none")
    /\ UNCHANGED <<wakelockVars, going, exist, opened, handle, users, devgrab, grab,
                   clients, waiting, ring, fresh, lapped>>

evdev_attach_client(c) ==
    /\ Step(c, "lookup", "attached")
    /\ wake_lock_init(c)
    /\ clients' = clients \cup {c}
    /\ UNCHANGED <<going, exist, opened, handle, users, devgrab, grab, waiting,
                   ring, fresh, lapped>>

\* evdev_open_device, with input_open_device for the first client.
evdev_open_device(c) ==
    /\ Step(c, "attached", "idle")
    /\ exist
    /\ opened' = opened + 1
    /\ IF opened = 0 THEN going = "here" /\ handle' = handle + 1 /\ users' = users + 1
       ELSE UNCHANGED <<handle, users>>
    /\ UNCHANGED <<wakelockVars, going, exist, devgrab, grab, clients, waiting,
                   ring, fresh, lapped>>

\* The device is gone or does not open, or the task was interrupted.
open_device_fails(c) ==
    /\ Step(c, "attached", "failed")
    /\ UNCHANGED <<wakelockVars, going, exist, opened, handle, users, devgrab, grab,
                   clients, waiting, ring, fresh, lapped>>

(* The error path detaches and frees the client, and does not destroy its   *)
(* wake lock: the lock stays on the list it is on.  The memory is not given *)
(* to anybody else here.                                                    *)
open_frees_client(c) ==
    /\ Step(c, "failed", "freed")
    /\ clients' = clients \ {c}
    /\ fresh' = [fresh EXCEPT ![c] = 0]
    /\ UNCHANGED <<wakelockVars, going, exist, opened, handle, users, devgrab, grab,
                   waiting, ring, lapped>>

input_close_device ==
    /\ devgrab' = FALSE
    /\ users' = users - 1
    /\ handle' = handle - 1

\* Faulty variant: a grab outlives the client that made it.
KeepsGrab(c) ==
    /\ Step(c, "idle", "detach")
    /\ UNCHANGED <<wakelockVars, going, exist, opened, handle, users, devgrab, grab,
                   clients, waiting, ring, fresh, lapped>>

\* evdev_release, first under the mutex: give up a grab.
evdev_release(c) ==
    /\ Step(c, "idle", "detach")
    /\ grab' = grab \ {c}
    /\ devgrab' = IF c \in grab THEN FALSE ELSE devgrab
    /\ UNCHANGED <<wakelockVars, going, exist, opened, handle, users, clients, waiting,
                   ring, fresh, lapped>>

\* Then the client is detached, its wake lock destroyed, its memory freed.
evdev_detach_client(c) ==
    /\ Step(c, "detach", "close")
    /\ clients' = clients \ {c}
    /\ wake_lock_destroy(c)
    /\ ring' = [ring EXCEPT ![c] = 0]
    /\ fresh' = [fresh EXCEPT ![c] = 0]
    /\ lapped' = lapped \ {c}
    /\ UNCHANGED <<going, exist, opened, handle, users, devgrab, grab, waiting>>

\* Faulty variant: the count is dropped although the device is dead.
ClosesDeadDevice(c) ==
    /\ Step(c, "close", "none")
    /\ opened' = opened - 1
    /\ IF opened = 1 THEN input_close_device ELSE UNCHANGED <<handle, users, devgrab>>
    /\ UNCHANGED <<wakelockVars, going, exist, grab, clients, waiting, ring,
                   fresh, lapped>>

\* The last file of a device that is not dead closes the input device.
evdev_close_device(c) ==
    /\ Step(c, "close", "none")
    /\ opened' = IF exist THEN opened - 1 ELSE opened
    /\ IF exist /\ opened = 1 THEN input_close_device
       ELSE UNCHANGED <<handle, users, devgrab>>
    /\ UNCHANGED <<wakelockVars, going, exist, grab, clients, waiting, ring,
                   fresh, lapped>>

\* EVIOCGRAB; an event between its two assignments still goes to everybody.
evdev_grab(c) ==
    /\ file[c] = "idle" /\ exist
    /\ grab = {} /\ ~devgrab
    /\ grab' = {c} /\ devgrab' = TRUE
    /\ UNCHANGED <<wakelockVars, going, exist, opened, handle, users, clients, file,
                   waiting, ring, fresh, lapped>>

evdev_ungrab(c) ==
    /\ file[c] = "idle" /\ exist
    /\ grab = {c}
    /\ grab' = {} /\ devgrab' = FALSE
    /\ UNCHANGED <<wakelockVars, going, exist, opened, handle, users, clients, file,
                   waiting, ring, fresh, lapped>>

----------------------------------------------------------------------------
\* evdev_read waits until there is an event or the device is dead.
evdev_read(c) ==
    /\ \/ Step(c, "idle", "check")
       \/ Step(c, "asleep", "check") /\ c \notin waiting
    /\ waiting' = waiting \cup {c}
    /\ UNCHANGED <<wakelockVars, going, exist, opened, handle, users, devgrab, grab,
                   clients, ring, fresh, lapped>>

Readable(c) == ring[c] # 0 \/ ~exist

read_check(c) ==
    /\ Step(c, "check", IF Readable(c) THEN "fetch" ELSE "asleep")
    /\ waiting' = IF Readable(c) THEN waiting \ {c} ELSE waiting
    /\ UNCHANGED <<wakelockVars, going, exist, opened, handle, users, devgrab, grab,
                   clients, ring, fresh, lapped>>

\* O_NONBLOCK or a signal; a device that died; a full buffer of the caller.
read_returns(c) ==
    /\ \/ Step(c, "check", "idle") /\ ~Readable(c)
       \/ Step(c, "fetch", "idle") /\ ~exist
       \/ Step(c, "drain", "idle")
    /\ waiting' = waiting \ {c}
    /\ UNCHANGED <<wakelockVars, going, exist, opened, handle, users, devgrab, grab,
                   clients, ring, fresh, lapped>>

\* A signal makes a sleeping reader runnable.
read_signal(c) ==
    /\ file[c] = "asleep"
    /\ waiting' = waiting \ {c}
    /\ UNCHANGED <<wakelockVars, going, exist, opened, handle, users, devgrab, grab,
                   clients, file, ring, fresh, lapped>>

\* Faulty variant: the lock is dropped with the first event that is read.
UnlocksAtOnce(c) ==
    /\ file[c] \in {"fetch", "drain"} /\ (file[c] = "fetch" => exist)
    /\ ring[c] # 0
    /\ ring' = [ring EXCEPT ![c] = @ - 1]
    /\ wake_unlock(c) /\ UNCHANGED worker
    /\ file' = [file EXCEPT ![c] = "drain"]
    /\ UNCHANGED <<going, exist, opened, handle, users, devgrab, grab, clients, waiting, fresh, lapped>>

\* Faulty variant: the reader that empties its ring keeps the lock.
NeverUnlocks(c) ==
    /\ file[c] \in {"fetch", "drain"} /\ (file[c] = "fetch" => exist)
    /\ ring[c] # 0
    /\ ring' = [ring EXCEPT ![c] = @ - 1]
    /\ file' = [file EXCEPT ![c] = "drain"]
    /\ UNCHANGED <<wakelockVars, going, exist, opened, handle, users, devgrab, grab, clients, waiting, fresh, lapped>>

\* The loop of evdev_read: one event, and the lock when it was the last.
evdev_fetch_next_event(c) ==
    /\ file[c] \in {"fetch", "drain"} /\ (file[c] = "fetch" => exist)
    /\ ring[c] # 0
    /\ ring' = [ring EXCEPT ![c] = @ - 1]
    /\ IF ring'[c] = 0
         THEN wake_unlock(c) /\ UNCHANGED worker
         ELSE UNCHANGED wakelockVars
    /\ file' = [file EXCEPT ![c] = "drain"]
    /\ UNCHANGED <<going, exist, opened, handle, users, devgrab, grab, clients, waiting, fresh, lapped>>

\* Nothing is left when the loop looks: events that lapped the ring.
fetch_finds_nothing(c) ==
    /\ Step(c, "fetch", "idle") /\ exist
    /\ ring[c] = 0
    /\ UNCHANGED <<wakelockVars, going, exist, opened, handle, users, devgrab, grab,
                   clients, waiting, ring, fresh, lapped>>

----------------------------------------------------------------------------
Leave(from, to) == going = from /\ going' = to

\* Key releases that it passes first are an evdev_event before this step.
input_disconnect_device ==
    /\ Leave("here", "gone_away")
    /\ handle' = 0
    /\ UNCHANGED <<wakelockVars, exist, opened, users, devgrab, grab, clients, file,
                   waiting, ring, fresh, lapped>>

evdev_mark_dead ==
    /\ Leave("gone_away", "dead")
    /\ exist' = FALSE
    /\ UNCHANGED <<wakelockVars, opened, handle, users, devgrab, grab, clients, file,
                   waiting, ring, fresh, lapped>>

\* Faulty variant: sleeping readers are not told that the device is dead.
HangsUpSilently ==
    /\ Leave("dead", "hung_up")
    /\ UNCHANGED <<wakelockVars, exist, opened, handle, users, devgrab, grab, clients,
                   file, waiting, ring, fresh, lapped>>

evdev_hangup ==
    /\ Leave("dead", "hung_up")
    /\ waiting' = {}
    /\ UNCHANGED <<wakelockVars, exist, opened, handle, users, devgrab, grab, clients,
                   file, ring, fresh, lapped>>

\* evdev_cleanup removes the device from evdev_table and closes it.
evdev_cleanup ==
    /\ Leave("hung_up", "removed")
    /\ IF opened > 0 THEN input_close_device ELSE UNCHANGED <<handle, users, devgrab>>
    /\ UNCHANGED <<wakelockVars, exist, opened, grab, clients, file, waiting, ring, fresh, lapped>>

input_unregister_handle ==
    /\ Leave("removed", "unregistered")
    /\ UNCHANGED <<wakelockVars, exist, opened, handle, users, devgrab, grab, clients,
                   file, waiting, ring, fresh, lapped>>

EvdevTick ==
    /\ Tick
    /\ fresh' = [c \in Clients |-> IF fresh[c] > 0 THEN fresh[c] - 1 ELSE 0]
    /\ UNCHANGED <<going, exist, opened, handle, users, devgrab, grab, clients, file,
                   waiting, ring, lapped>>

\* What the suspend thread does to the locks of drivers: it asks for them.
suspend_asks ==
    /\ \E r \in -1..MaxTimeout : has_wake_lock(r)
    /\ UNCHANGED <<inited, expire_timer, timer_fired, workq, worker, moved>>

Disconnect == evdev_mark_dead \/ evdev_hangup \/ evdev_cleanup \/ input_unregister_handle
InRead(c) == file[c] \in {"check", "asleep", "fetch", "drain"}

EvdevNext ==
    \/ evdev_event
    \/ \E c \in Clients :
          \/ evdev_open(c) \/ open_no_memory(c) \/ evdev_attach_client(c)
          \/ evdev_open_device(c) \/ open_device_fails(c) \/ open_frees_client(c)
          \/ evdev_release(c) \/ evdev_detach_client(c) \/ evdev_close_device(c)
          \/ evdev_grab(c) \/ evdev_ungrab(c)
          \/ evdev_read(c) \/ read_check(c) \/ read_returns(c) \/ read_signal(c)
          \/ evdev_fetch_next_event(c) \/ fetch_finds_nothing(c)
    \/ input_disconnect_device \/ Disconnect
    \/ EvdevTick
    \/ (MainStep \/ TimerFires \/ expire_wake_locks \/ suspend_asks) /\ UNCHANGED evdevOnly

EvdevSpec == EvdevInit /\ [][EvdevNext]_evdevVars

----------------------------------------------------------------------------
EvdevTypeOK ==
    /\ WakelockTypeOK
    /\ going \in Going /\ exist \in BOOLEAN
    /\ opened \in Nat /\ handle \in Int /\ users \in Nat
    /\ devgrab \in BOOLEAN
    /\ grab \subseteq Clients /\ clients \subseteq Clients /\ waiting \subseteq Clients
    /\ file \in [Clients -> Files]
    /\ ring \in [Clients -> 0..(BufferSize - 1)]
    /\ fresh \in [Clients -> 0..HZ]
    /\ lapped \subseteq Clients

(* The system stays awake for a second after an event that a client has not *)
(* read: evdev_pass_event renews the lock, only the reader that empties the *)
(* ring drops it, and neither expiry nor release loses it before.           *)
UnreadKeepsAwake ==
    \A c \in clients : ring[c] # 0 /\ fresh[c] > 0 => c \in Held

(* And for no longer: a client whose ring is empty holds no lock, unless as *)
(* many events as the ring has slots came in unread and made it look empty. *)
ReadReleasesLock ==
    \A c \in Clients : c \in Held /\ ring[c] = 0 => c \in lapped

(* The input device is open exactly while files are, and it is closed once: *)
(* by the last file, or by the disconnect if that comes first.              *)
OpenOnceClosedOnce ==
    /\ users = IF opened > 0 /\ going \notin {"removed", "unregistered"} THEN 1 ELSE 0
    /\ exist => opened = Cardinality({c \in Clients : file[c] \in OpenFile})

(* A grab belongs to a file that is open, so evdev_event never follows it   *)
(* to a freed client, and on a live device both layers agree about it.      *)
GrabOwnerAlive ==
    /\ \A c \in grab : c \in clients /\ file[c] \in OpenFile \ {"detach", "close"}
    /\ exist => (devgrab <=> grab # {})

(* No wake-up is lost: a reader sleeps only while it has nothing to return, *)
(* neither an event nor, once evdev_hangup has run, the end of the device.  *)
SleepersHaveNothing ==
    \A c \in waiting : file[c] = "asleep" =>
        ring[c] = 0 /\ (exist \/ going = "dead")
=============================================================================
