# Power management, events and persistent state of the WM8750 kernel, in TLA+

This directory holds TLA+ models of the parts of the APC-8750 kernel
(`src/kernel`, Linux 2.6.32 with the Android and WonderMedia patches) that carry
state of their own and are hard to test: the way the device goes to sleep and
wakes up, the drivers that keep it awake (alarms and input events), the log that
every Android process writes to, and the boot-loader environment that the kernel
rewrites in flash. TLC checks the models on small instances; TLAPS proves every
invariant, and the main refinements and action properties, for every value of the
constants under the conditions that section 4 lists.

## 1. Inventory

The repository is a kernel tree and a u-boot tree. Nearly all of it is upstream
Linux or register-level driver code. The logic of the product is here:

| Part | State | Operations | Talks to |
|---|---|---|---|
| wake lock manager, `kernel/power/wakelock.c` | flags and expiry of each lock, the active list, `expire_timer`, `suspend_work`, event counters | `wake_lock_init/destroy`, `wake_lock`, `wake_lock_timeout`, `wake_unlock`, `has_wake_lock`, timer handler, `suspend()` | every driver; `pm_suspend`; `power_suspend_late` is called back from the device PM core |
| early suspend, `kernel/power/earlysuspend.c` | `state` flags, `requested_suspend_state`, handler list | `register_/unregister_early_suspend`, `request_suspend_state`, the work items `early_suspend` and `late_resume` | drops and takes `main_wake_lock`; shares `suspend_work_queue` with `suspend()` |
| suspend path, `kernel/power/{main,suspend,process}.c`, `drivers/base/sys.c`, `arch/arm/mach-wmt/pm.c` | frozen processes, helpers, devices, interrupts, the script `pm.sh` | `state_store`, `pm_suspend`, `enter_state`, `suspend_prepare`, freezer, `suspend_enter`, `wmt_pm_enter` | asks the wake lock manager at three places |
| user wake locks, `kernel/power/userwakelock.c` | tree of named locks | stores to `wake_lock`, `wake_unlock` | wake lock manager |
| environment store, `drivers/mtd/wmt_env.c` on `drivers/mtd/devices/wmt_sf.c` | two flash copies, RAM image, `env_valid`/`env_invalid` | `env_init`, `wmt_getsyspara`, `wmt_setsyspara`, `env_update` | u-boot reads the same copies; `MEMSETENV` of `mtdchar.c` and many drivers call it |
| alarm driver, `drivers/rtc/alarm{,-dev}.c` | alarm queues and their hrtimers, the RTC, two wake locks, enabled and pending flags | SET, CLEAR, WAIT, SET_RTC, release, timer callbacks, `alarm_suspend`, `alarm_resume` | wake lock manager, RTC, called back from the suspend path |
| event devices, `drivers/input/evdev.c` with `input.c` | clients with a ring and a wake lock each, a grab, open counts | event, open, read, grab, close, disconnect | wake lock manager, input drivers |
| Android logger, `drivers/staging/android/logger.c` | ring of bytes, write offset, an offset per reader | write, read, open, release, flush | every process |
| I2C, `drivers/i2c/busses/wmt-i2c-bus.c` | transfer queue | submit, interrupt | drivers |
| DMA, `arch/arm/mach-wmt/dma.c` | channel table | request, start, interrupt, free | audio, SD |
| Android binder, lowmemorykiller, `drivers/staging/android` | node and thread tables | ioctls | user space |
| display memory and graphics, `drivers/video/wmt` | memory block lists | allocate, free, map | display, video codecs |
| boot loader, `src/u-boot` | environment | start-up | the flash copies above |

What is hard in it:

* *Interleaving.* Interrupt handlers, a timer, one work queue thread with three
  work items, and processes all change the wake lock list; a request to wake
  races with a suspend that is already under way.
* *Something must happen.* The device must go to sleep when the last lock is
  gone. No code path polls; each of several paths must hand the duty on.
* *Partial failure.* Suspending is a chain of some ten steps, each of which may
  fail and must be undone.
* *Power loss.* The environment is rewritten in place; power may fail between
  and inside flash operations.
* *No lock.* `wmt_env.c` takes no lock, and its flash erase sleeps; the logger
  reads the offset it goes back to on an error before it takes its mutex.
* *Time.* An alarm that falls due while the system is on its way to sleep; a wall
  clock that is set under armed alarms; wake locks that lapse.
* *Going away.* An input device is unplugged while files are opened, read,
  grabbed and closed.
* *Numeric edges.* Nanoseconds to jiffies in mixed widths; the overflow check of
  the environment.

The correctness properties per part: the wake lock manager never starts a
suspend while a lock is held and never loses one; early suspend drops the main
lock only with all handlers suspended and carries out the last request; the
suspend path honours the locks of processes and undoes each partial step; a user
lock lasts as long as it was asked for; an environment update is atomic and is
durable when the call returns 0; a wake-up alarm is never slept through and keeps
the system awake until it is acknowledged; an unread input event keeps it awake
for its second, and a device is closed once; a reader of the log gets whole
entries in order. `PROJECT.json` lists the hazards at their lines.

## 2. Modules

| Module | Models |
|---|---|
| `SuspendGate` | abstract: what the wake lock API promises |
| `Wakelock` | `wakelock.c`, locks of type `WAKE_LOCK_SUSPEND` |
| `WakelockList` | extends it by the order of `active_wake_locks` and the walk of `has_wake_lock_locked` |
| `EarlySuspend` | `earlysuspend.c` on top of `Wakelock` |
| `SuspendCore` | the whole path from `/sys/power/state` to sleep, on top of `EarlySuspend` |
| `UserWakelock` | `userwakelock.c` on top of `Wakelock` |
| `EnvStore` | abstract: one environment that survives power loss |
| `WmtEnv` | `wmt_env.c` on a board that boots from serial flash |
| `Alarm` | `alarm.c` and `alarm-dev.c` on top of `Wakelock` |
| `Evdev` | `evdev.c` and the parts of `input.c` it calls, on top of `Wakelock` |
| `LogQueue` | abstract: a queue of entries per reader of a log |
| `Logger` | `logger.c` |
| `WakelockProofs`, `WakelockListProofs` | theorems about `Wakelock` and `WakelockList` |
| `SuspendCoreProofs` | theorems about `EarlySuspend` and `SuspendCore` |
| `UserWakelockProofs`, `AlarmProofs`, `EvdevProofs`, `LoggerProofs`, `WmtEnvProofs` | theorems about the module of that name |
| `MC*` | instances for TLC |

Operators that begin with the comment "Faulty variant" are not part of a
specification. Each is a plausible mistake in the definition that follows it;
putting it in the place of that definition makes TLC report the property that
guards against it, which shows that the property is not vacuous.

### Wakelock

Each function of `wakelock.c` holds the spinlock `list_lock` with interrupts off,
so each is one action. `suspend()` is not under the lock and is split where
others can come in: the check (`suspend_check`), the copy of the event counter
(`suspend_entry`), `pm_suspend`, the comparison (`suspend_exit`) and the taking
of `unknown_wakeup` (`suspend_unknown`). The timer softirq detaches the timer
before its handler gets `list_lock`; `TimerFires` and `expire_wake_locks` are two
actions for that reason. A work item is removed from the queue before it runs
and can be queued again meanwhile.

Times are distances to now, cut off at zero, because the code only ever looks at
`expires - jiffies` and its sign. The event counter is compared with a copy of
itself only, so the model keeps whether it moved. The statistics' times are left
out; `preventing` keeps the flag that decides who is charged.

`wake_lock_destroy` does not look at the other locks. It is modelled for the
callers there are: the lock is inactive or (`evdev_release`) is one with a
timeout.

### WakelockList

The list as a sequence: a permanent lock goes to the head, a timed one to the
tail, and the walk stops at the first permanent lock. The module runs the list
beside the sets of `Wakelock` and states that the two agree. `Walk` and `Without`
(`list_del`) are recursive functions over the places of the list.

### EarlySuspend

`state_lock` makes each test of the two flags one action. The handler loops are
stepped one handler at a time with the mutex held, so requests and wake locks
interleave with them; registration waits for the mutex.

### SuspendCore

`pm` is the place where `pm_suspend` is. User processes run until they are
frozen. Drivers take locks until interrupts go off, also between the last check
(`power_suspend_late`) and that moment. `dpm_suspend_start`, the noirq phase and
`sysdev_suspend` succeed or fail as they like. The freezer asks for wake locks
only in a pass that leaves a task running. A writer of `/sys/power/state` runs
`pm.sh` and then makes its request, and is not frozen in between because it does
not return to user space. `standby` is a request to sleep for which `state_store`
runs no script; the path below it is that of `mem`. `enter_state_refuses` is a
`pm_suspend` that comes back with `-ENODEV`, before the board has registered its
operations, or with `-EBUSY`, while another task holds `pm_mutex`.

### UserWakelock

The width of the types is a parameter: the conversion is in arithmetic modulo
`U64`, and the assignment to a `long` keeps the low bits. `due` is what a process
is still owed, in nanoseconds; it is a history of the requests, not code.

### WmtEnv

An environment is a function from names to values. A copy in flash has its flags
byte, whether its checksum matches, and its data. The CPU is one and the kernel
is not preemptible, so callers interleave only in the `msleep` of the erase. The
other points where a caller may be descheduled, the `kmalloc` and `ioremap` calls,
are in the first call, which is made while the kernel initialises its drivers one
by one, and in accesses before the flash driver registers, after which an update
does not get far (below).
Power may fail at every step, and inside an erase or a write. An erase makes a
sector blank only when it ends; programming only clears bits, so writing over a
copy that was not erased spoils it. Before the flash driver registers, reads go
to the memory-mapped flash, for which `env_init` has a path of its own; an update
gets as far as the write, where `spi_read_status` uses the null pointer `reg_sf` and
the caller dies with the other copy erased (`write_oopses`). A caller that clears
`baudrate` with a null value dies as well (`wmt_setsyspara_null`), since the number
behind the pointer is parsed. `Faults` says which flash operations may fail.

`Programmed` writes what fits. The check in `wmt_setsyspara` compares with the size
of a whole copy, checksum and flags included, so an image may pass it whose end the
copy has no room for. What a later boot reads back from such a copy depends on what
follows in memory, and is any environment (`ReadBack`); `FitsData` says that nothing
is cut off.

### Alarm

There is one alarm per type, so a queue is a flag. `due` is the time of the
alarm, `expiry` the time of the queue's hrtimer, both relative to their own clock
and in seconds: that the two agree is a property and not built in. `alarm_set_rtc`
is split at its critical sections; elapsed time is moved in the first, the wall
clock in the second. `alarm_suspend` has three steps (the flag, the timers, the
RTC). The RTC stays set after a suspend that was refused or aborted: the zeroed
time with which `alarm_suspend` and `alarm_resume` try to clear it does not pass
`rtc_valid_tm`, and only `wmt_pm_enter` clears it, on the way out of sleep. An RTC
alarm that comes while the system is awake has no effect. `wmt-rtc.c` requests its
interrupt only for an open `/dev/rtc`, and then without the device that
`wmt_rtc_interrupt` would have to pass it on to, so `alarm_triggered_func` never runs;
and `wmt_pm_enter` clears the wake-up status before it sleeps. `LockedFor` and the
alarm that `alarm_timer_triggered` finds not to be due are in the code and in the
model; no behaviour gets there, since processes are frozen while `suspended` is set
and a timer is always set for its alarm.

The rest of the suspend path is reduced to what the driver depends on:
processes are frozen only while no lock is held, a device may refuse,
`power_suspend_late` asks for locks, and the time from `alarm_suspend` to sleep is
bounded by `SuspendTime`. Asleep, only the wall clock and the RTC go on.
`owed` and `reported` are histories of what user space is due.

### Evdev

A client lock of `Wakelock` is a client of the device. An event is an interrupt
and so one action; open, read, release and disconnect are sequences of actions
that interleave. Of a ring the distance between head and tail is kept, modulo the
size, so a ring that was filled looks empty, as in the code. A sleeping reader is
on the wait queue until an event, a hang-up or a signal takes it off.
`wake_lock_destroy` is not called in the error path of `evdev_open`, and is not in
the model either.

### Logger

A byte of the ring is a pair of the entry it belongs to and its place in it, so
reading a length at an offset that holds no start of an entry gives an arbitrary
16-bit length (`Junk`). `get_next_entry` is the code's loop over `count`, as a recursive
function. Critical sections of `log->mutex` are one action; a failed write
leaves its header and part of its payload in the ring. The refinement mapping
reads a reader's queue from the bytes between its offset and the write offset.

## 3. Runs

| Run | Instance | Shows |
|---|---|---|
| `wakelock` | two client locks, timeouts up to 3 | `SuspendNotLost`, `TimerCoversHeld`, `BlameMatchesBlockers`, `WalkIsExact`, and `SuspendOnlyWhenReleased` (refinement of `SuspendGate` with its fairness) |
| `early_suspend` | three handlers on two levels, one client lock | `MainDownOnlyWhenDark`, `HandlersFollowState`, `DarkInLevelOrder`; liveness `SleepRequestHonoured`, `WakeRequestHonoured` |
| `suspend_core` | one lock of a process, one of a driver, one handler, one writer | `AsleepHonoursUser`, `NothingLeftDown`, `ScriptPreparedSleep` |
| `wake` | the same without the process's lock | liveness `WakeRequestCompletes` |
| `user_wakelock` | two names, u64 of 5 bits, long of 3 bits, requests that fit | `UserTimeoutKept` |
| `env` | one caller, two names, two values, erase may fail, power loss anywhere | `SetReturnsStored`, `KeepsWhatBootFinds`, `UpdateIsAtomic` (refinement of `EnvStore`) |
| `alarm` | two types of wake-up alarms, up to two seconds ahead, the clock set forward by one | `QueuedIsArmed`, `SleepsUntilAlarm`, `FiredKeepsAwake`, `IdleHoldsNothing` |
| `evdev` | two files on one device, rings of four slots | `UnreadKeepsAwake`, `ReadReleasesLock`, `OpenOnceClosedOnce`, `GrabOwnerAlive`, `SleepersHaveNothing` |
| `logger` | one writer, one reader, a ring of eight bytes, entries of three and four | `LogIsQueue` (refinement of `LogQueue`), `ReadsWholeEntries`, `LostOnlyWhenFull`, `LossIsBounded`, `NoSleepOnEntries`; liveness `BlockedReaderReturns` |

Three runs end in a counterexample. Each shows that the code does not do what the
quoted comment says:

* `env_two_callers`: the flash driver has registered, and a second caller enters
  while the first sleeps in the erase.
  It goes on after `env_valid` and `env_invalid` have changed places, writes over
  a copy that nobody erased and makes the only good copy obsolete. Both calls
  return 0, and the next boot finds no environment.
* `logger_two_writers`: a task reads the write offset before it takes the mutex
  and puts it back when its write fails, although another task has written an
  entry meanwhile. The entry is gone, and a reader that had read it is ahead of
  the write offset and returns bytes that are no entry.
* `alarm_systemtime`: `alarm_suspend` uses a mask as an index and cancels the timer
  of the queue `SYSTEMTIME`, which `alarm_resume` does not set again: an alarm in
  it never goes off.

Some other disagreements are in the models without a run of their own:
`wmt_pm_enter` enables interrupts before `sysdev_resume`, which warns about that
(`irqs` in `SuspendCore`); a user timeout of which the jiffies are a multiple of
2^32 becomes a lock without timeout (`Jiffies`); `sf_write` hides a failed write, so
the only good copy may be made obsolete (`Faults = {"data"}` in `WmtEnv`); the first
early call after a power loss during an update reads through a null pointer
(`DereferencesNull`); the overflow check of `wmt_setsyspara` compares with the size
of the whole copy and counts one NUL instead of two, so that with entries of 40 and
48 bytes and a copy of 90 a call returns 0 and has stored something else (TLC refutes
`SetReturnsStored` and `UpdateIsAtomic` there); a time that `do_settimeofday` refuses has
moved elapsed time all the same (`alarm_set_rtc`); and a system whose devices take two
seconds to suspend sleeps through an alarm that falls due meanwhile
(`SleepsUntilAlarm` with `SuspendTime = 2`).

### Bounds

* Two client locks besides `main` and `unknown_wakeups` give every combination of
  permanent, running, lapsed and absent for a pair; the list then has up to four
  elements. Timeouts up to 3 tell "lapses before", "with" and "after" another.
  The proofs remove both bounds.
* Three handlers on two levels give insertion at the head, in the middle, behind
  an equal level and at the tail.
* One lock per kind in `SuspendCore`: the path asks only whether any lock is held.
  In `suspend_core` the constraint `LocksStay` leaves out suspends with a lock that is
  not initialised: it acts like one that is not held, and `wakelock` has locks
  destroyed in use. `wake` and the proofs do without the constraint.
* Widths of 5 and 3 bits: as on the machine a long is narrower than a u64. The
  requests of the run, up to 6 nanoseconds with jiffies of 2, exercise the rounding;
  none of them wraps around or loses bits, as `UserTimeoutKept` is false of those
  that do (section 4).
* Two names and two values: one is the `baudrate`, which is treated specially,
  and together they overflow the buffer, so the refused set that edits the image
  happens.
* Alarms two seconds ahead: one second is "about to go off" for `alarm_suspend`,
  two is not. `SuspendTime` is 1. It matters: with 2 the RTC may go off before the
  system sleeps, nobody notices, and `SleepsUntilAlarm` is violated. So the property
  rests on devices that suspend within a second of `alarm_suspend`. `MaxLate` is 1:
  that an alarm is overdue is all that is ever asked, and the clock is set by one
  second. One second stands for each of the timeouts of 1, 2 and 5 seconds; shorter
  locks only make the properties harder to keep. The constraint `MainLockDown` of
  `MCAlarm` keeps the main lock down once the device is in use: the driver's steps do
  not depend on that lock, it only prevents suspends, and no suspend is ever forced,
  so a run with the lock up is also one with the lock down. The proofs do without it.
* Two clients of a device, so that a grab has somebody to exclude, and closing
  and disconnecting have an order. Four slots are the least that tell "one more",
  "full" and "lapped" apart with the size a power of two.
* A ring of eight bytes with entries of three and four: entries wrap at each of
  their bytes, the length itself included, and a new entry takes away one or two
  old ones. Five entries go round the ring twice.

### Fairness

* `Tick`, the timer softirq, its handler and the work queue's thread are weakly
  fair: interrupts are delivered and a single-threaded work queue runs what is
  queued. Users and drivers are never fair.
* `EarlySuspend`: `pm_suspend` is fair there, which abstracts from how long the
  device sleeps. `SuspendCore` does without that: `wmt_pm_enter` need not return
  (`wmt_pm_enter_returns` has no fairness), and `WakeRequestCompletes` holds
  since a request to wake is made by a process that runs, and keeps the suspend
  under way from completing.
* `PmProgress` is fair: the freezer's loop ends by its 20-second `TIMEOUT`.
  `state_store_request` is fair: a writer in the kernel goes on.
* `Logger`: a reader that is runnable inside `read()` goes on, and a writer that has
  left its critical section calls `wake_up_interruptible`: both are kernel code that
  the scheduler runs. Nobody has to call `read()` or `write()`.
* No fairness is assumed of `WmtEnv`, `UserWakelock`, `Evdev` or `Alarm`; only safety
  is checked.

Deadlock is checked in all runs.

## 4. Proofs

Each theorem holds for every value of the constants that satisfies the module's
named `ASSUME`. The results in this table need more, and say so in their statement;
TLC finds a counterexample to each without its condition.

| Theorem | Says | Under |
|---|---|---|
| `NoAlarmIsSleptThrough` | `SleepsUntilAlarm` | `QuickSuspend`: `SuspendTime <= 1` |
| `UserTimeoutIsKept` | `UserTimeoutKept` | `RequestsFit`: the sum that rounds a request up fits a u64, its jiffies a long |
| `NoWakeUpIsLost`, `ReadsAreWhole`, `LossesAreBounded` | `NoSleepOnEntries`, `ReadsWholeEntries`, `LossIsBounded` | `OneWriter` |
| `EnvKeepsBootCopy` | `KeepsWhatBootFinds` | `OneCaller` and `SoundFlash` |
| `EnvSetIsDurable`, `EnvUpdateIsAtomic` | `SetReturnsStored`, `UpdateIsAtomic` | `OneCaller`, `SoundFlash` and `FitsData` of the image |

### Wake locks

`WakelockProofs`, for any set of locks and any timeouts, from
`WakelockAssumption` (main and unknown are two different locks, the timeout of
the latter is positive):

* `WakelockTypeCorrect`: the type invariant.
* `NoSuspendIsLost` and `TimerAlwaysCovers`: the inductive invariant is
  `NotLostInv`, type correctness with `TimerCoversHeld` and `SuspendNotLost`.
  `SuspendNotLost` alone is not inductive: when `has_wake_lock` answers that a
  lock is still held, `suspend()` gives up and leaves the next attempt to the
  timer; that the timer is armed follows from `TimerCoversHeld` only. Lemma
  `Rearmed` is the common end of `wake_lock_timeout` and `wake_unlock`, lemma
  `AskKeeps` the effect of a bare `has_wake_lock`.
* `BlameIsRight`: inductive with `main_wake_lock \notin auto` (`BlameInv`).
* `WakelockImplementsGate`: initial states and steps map to those of
  `SuspendGate`. The fairness part is checked by TLC.

`WakelockListProofs`, for a list of any length:

* `ListHoldsActive` and `WalkMayStopEarly` rest on `ListInv`: the list holds the
  active locks, each once, and no permanent lock stands behind a timed one
  (`Sorted`). The last part is what `wake_lock_internal` is careful about and is not
  visible in either property; without it a walk that stops at the first permanent
  lock could leave a lapsed lock behind it unexpired. `WalkOn` is one step of the
  walk, `WalkFacts` the whole of it, `WithoutFacts` says what `list_del` leaves.
* `ListImplementsSet`: dropping the list, each step is a step of `Wakelock`. So the
  theorems of `WakelockProofs` hold of the manager with the list.

### Early suspend and the suspend path

`SuspendCoreProofs`, for any handlers, levels, locks and writers:

* `EarlyTypeCorrect`, `MainLockGuardsDark`, `HandlersNeverDrift`, `LevelsAreRespected`
  share `EarlyInv`: the properties, that the handler list has no handler twice and
  is sorted by level, and `LoopInv` (the cursor stays in the list, and the flag
  `SUSPENDED` says which of the two loops is under way). `RegisterList` and
  `UnregisterList` show that insertion and removal keep the list sorted.
  `DarkInLevelOrder` then follows: what is suspended is a prefix of a sorted list.
* `CoreTypeCorrect`, `PmSuspendUndoesItself`, `SleepHonoursUser`, `ScriptRanForSleep`
  share `CoreInv`, which is `EarlyInv` with four parts: `StageInv`, what is frozen and
  down at each stage of `pm_suspend`; `WritersInv`, no process is frozen between
  `pm.sh` and its request; `WindowInv`, from the last check on no lock of the user is
  held; `ScriptInv`, a script for waking that ran on the way down belongs to a
  request that has, or is about to take, the main lock.

### User wake locks

`UserWakelockProofs`, for any widths of u64 and long and any length of a jiffy.
`UserTypeCorrect` needs nothing more: whatever a process writes, the conversion
gives a timeout that `wake_lock_timeout` takes. `UserTimeoutIsKept` needs
`RequestsFit`: in the instance of the run TLC refutes it with requests of up to 8
nanoseconds, whose jiffies are one too many for the long. `KeptInv` is inductive: what the lock has left, in
nanoseconds, is between what the process is due and one jiffy more. `JiffiesFit` is
the arithmetic of the conversion.

### Alarms

`AlarmProofs`, for any timeouts, times and settings of the clock. `AlarmInv` has the
type invariant and three parts that share few variables:

* `QueueInv` for `AlarmsKeepTheirTimer`: the expiry of a wake-up queue's timer stays
  right even while a suspend has cancelled it, since `alarm_suspend` sets the RTC by it.
* `DevInv` for `FiredAlarmStaysAwake` and `IdleDeviceIsQuiet`: the lock of an alarm
  that went off lasts as long as it is owed, and what the loop of `alarm_release` has
  disabled and cancelled so far.
* `RtcInv` for `NoAlarmIsSleptThrough`: from `alarm_suspend` on the RTC is set for the
  first wake-up alarm, at least two seconds ahead of that moment, and it has not gone
  off before sleep. That is where `QuickSuspend` comes in. The bound is tight: with
  `SuspendTime` = 2 TLC finds a system that sleeps with an RTC that has gone off.

### Event devices

`EvdevProofs`, for any number of files, any ring size and any length of a second:
`EvdevTypeCorrect`, `UnreadStaysAwake`, `EmptyRingSleeps`, `DeviceClosedOnce`,
`GrabNeverDangles`, `NoReaderOversleeps`. `EvdevInv` adds that a client is on the list
exactly from attach to detach and comes to it with an empty ring (`FileInv`), that the
lock of a client with unread events lasts out the second (`AwakeInv`), that `exist`
says how far the disconnect has come (`ExistInv`), that there is one grab at most
(`GrabOne`), and that finitely many files are open, which the count of `input.c`
needs.

### Logger

`LoggerProofs`, for any ring, entries, readers and contents:

* `LoggerTypeCorrect` and `NoNeedlessLoss`, with any number of writers. The second is
  an action property: `fix_up_readers` moves a reader only if the ring has no room
  (`CrossedWhenFull`, `PulledBy`). Where it moves him to does not matter for that, so
  the 16-bit lengths that `get_next_entry` follows may be anything.
* `ReadsAreWhole` and `LossesAreBounded`, with one writer. The first needs `ChainInv`:
  going back from the write offset there is a chain of whole entries, and the head and
  every open reader stand at a joint of it. A write cuts off the far end, and
  `get_next_entry`, which follows real lengths then, stops at a joint. For the second
  it stops less than one entry beyond the length of the new one (`NextEntry`).
* `NoWakeUpIsLost` with one writer: a failed write then goes back to where it began
  (`OrigInv`), so the write offset moves only if somebody is about to wake the
  readers. With two writers it is false: a reader falls asleep at the write offset,
  and a write that fails puts the offset back behind it. TLC needs ten steps.

### Environment

`WmtEnvProofs`, for any names and values, from `WmtEnvAssumption`. `EnvTypeCorrect` and
`EnvKeepsBootCopy` hold for any lengths and sizes, the first for any callers and
faults as well. The others are under `OneCaller` (a single process updates) and
`SoundFlash` (writes do not fail; erases may), and `EnvSetIsDurable` and
`EnvUpdateIsAtomic` speak of images that fit the data of a copy (`FitsData`). All three
are needed: the run `env_two_callers` refutes the result without the first, the same
instance with one caller and `Faults = {"data"}` without the second, and entries of 40
and 48 bytes in a copy of 90 without the third.

* The inductive invariant `EnvInv` says that the copy of `env_valid` is valid
  while an image is loaded, that no copy before it is valid (a boot takes the
  first), and, per stage of the update (`StageOK`), what the other sector holds:
  something invalid during the erase, blank before the write, the image with a
  matching checksum after it.
* `EnvKeepsBootCopy`, `EnvSetIsDurable` follow from it; `EnvUpdateIsAtomic` shows
  each step to be a step of `EnvStore` or a stutter. The commit is the flash write
  if the new copy comes first and the clearing of the old flags byte otherwise.

### Recursive functions

The walks are recursive functions, and the provers have neither induction nor the
existence of such a function built in. Both are derived where they are needed, in
terms of sets: a set of numbers that is not empty has a least element
(`LeastElement`, from the library's `WFMin` and `NatLessThanWellFounded`), so a
property holds up to `n` if there is no least counterexample (`Induction`), and a
function that satisfies the recursion exists on every initial part of its domain
(`RecursionExists`, `WalkExists`).

### Only model-checked

Liveness: `SleepRequestHonoured`, `WakeRequestHonoured`, `WakeRequestCompletes`,
`BlockedReaderReturns` and the fairness in `SuspendOnlyWhenReleased`. And the
refinement `LogIsQueue`: its mapping reads a sequence of entries out of the bytes
of the ring, and the proof has to relate that sequence before and after each write.
Of what it promises, that reads return whole entries and how many a reader loses are
proved (`ReadsAreWhole`, `LossesAreBounded`, `NoNeedlessLoss`); that they come in order is
not.

## 5. Not modelled

Lock types other than `WAKE_LOCK_SUSPEND` (an idle lock touches neither the timer
nor the work item), statistics times and `/proc/wakelocks`; the wrap of `jiffies` after 2^31
ticks; the device lists of the PM core; register programming, wake-up sources and
the power-key timer of `mach-wmt/pm.c`; the bytes of an environment, so what
`wmt_getsyspara` returns from a copy that `env_init` rejected is not a property;
the environment on NOR flash (not configured); the console mode `logcat_set` of the
logger and a writer that sleeps in a page fault inside its critical section; `poll`,
`fasync` and the asking ioctls of event devices, and the reuse of a client's memory
that still holds an active wake lock, events that come while `dev->open()` runs and
the moment between the two assignments of a grab (both fall into one step with what
precedes them); alarms of drivers other than `alarm-dev.c`, fractions of a second, an
RTC that fails, `/dev/rtc`, and a `wmt.pmc.param` setting that takes the RTC out of the wake-up
sources. No property holds of an environment whose flash writes fail: `sf_write` hides
that from its caller. Parts without a module are in
`PROJECT.json` with the reason.

## 6. Plan

In this order:

1. *Done:* wake locks, early suspend, suspend path, user wake locks, environment
   on serial flash, with the proofs above; alarm driver, event devices and logger.
2. *Done:* proofs of every invariant of the runs, of `LostOnlyWhenFull`, and of the
   refinements of `SuspendGate` and `EnvStore` and of `Wakelock` by `WakelockList`. Left:
   `LogIsQueue`, on top of `ChainInv`.
3. Environment on NAND: the ring of blocks in `env_update` and `env_init`, with bad
   blocks and power loss, as a second implementation of `EnvStore`.
4. The I2C transfer queue with its interrupt handler, the DMA channels, and the
   power key of `mach-wmt/pm.c`.
5. A weaker guarantee of `WmtEnv` when the flags byte cannot be cleared: the
   environment may be an older one but is never lost.
