----------------------------- MODULE SuspendCore -----------------------------
(***************************************************************************)
(* The whole path from /sys/power/state to sleep and back: state_store of   *)
(* kernel/power/main.c, pm_suspend and enter_state of suspend.c, the        *)
(* freezer of process.c and the WM8750 entry code of mach-wmt/pm.c, on top  *)
(* of modules EarlySuspend and Wakelock.                                    *)
(*                                                                          *)
(* The board has one CPU: with its interrupts off nothing but the suspend   *)
(* path runs.  User processes run until they are frozen; drivers run until  *)
(* interrupts are off, from their interrupt handlers up to noirq and from   *)
(* timers and threads after that.                                           *)
(***************************************************************************)
EXTENDS EarlySuspend

CONSTANTS UserLocks,    \* locks taken through /sys/power/wake_lock
          Writers       \* processes that write to /sys/power/state

ASSUME SuspendCoreAssumption == UserLocks \subseteq Clients

VARIABLES
    pm,             \* where pm_suspend is, "out" when it is not running
    frozen,         \* user processes are in the refrigerator
    helpers,        \* ~usermodehelper_disabled
    devices,        \* how far the devices are down
    irqs,           \* the CPU takes interrupts
    script,         \* the last action the script pm.sh was run with
    writer          \* what a writer is about to request, or "out"

coreVars == <<pm, frozen, helpers, devices, irqs, script, writer>>
powerVars == <<earlyStackVars, coreVars>>

DriverLocks == Clients \ UserLocks
pm_states == {"on", "standby", "mem"}
PmStages == {"out", "prepare", "freeze", "freeze_rest", "unfreeze", "devices",
             "late", "window", "sysdev", "asleep", "sysdev_resume",
             "resume_devices", "thaw", "enable_helpers", "resume_hook", "return"}

CoreInit ==
    /\ EarlyInit
    /\ pm = "out"
    /\ frozen = FALSE
    /\ helpers = TRUE
    /\ devices = "on"
    /\ irqs = TRUE
    /\ script = "post_resume"
    /\ writer = [w \in Writers |-> "out"]

----------------------------------------------------------------------------
\* call_usermodehelper does nothing but fail while helpers are disabled, and
\* its callers ignore the failure.
RunScript(action) == script' = IF helpers THEN action ELSE script

\* state_store of one of the strings in pm_states first runs pm.sh, except for
\* "standby", then makes the request; the process cannot be frozen in between.
state_store_hook(w, s) ==
    /\ ~frozen
    /\ writer[w] = "out"
    /\ writer' = [writer EXCEPT ![w] = IF s = "on" THEN "on" ELSE "sleep"]
    /\ \/ s = "mem" /\ RunScript("pre_suspend")
       \/ s = "on" /\ RunScript("post_resume")
       \/ s = "standby" /\ UNCHANGED script
    /\ UNCHANGED <<earlyStackVars, pm, frozen, helpers, devices, irqs>>

state_store_request(w) ==
    /\ writer[w] # "out"
    /\ request_suspend_state(writer[w])
    /\ writer' = [writer EXCEPT ![w] = "out"]
    /\ UNCHANGED <<pm, frozen, helpers, devices, irqs, script>>

\* pm_suspend refuses the state PM_SUSPEND_ON.
pm_suspend_invalid ==
    /\ worker = "pm_suspend" /\ pm = "out" /\ requested = "on"
    /\ pm_suspend_returns
    /\ UNCHANGED <<earlyVars, coreVars>>

\* enter_state returns -EBUSY while another task holds pm_mutex (pm_test_store),
\* and -ENODEV as long as the board has not called suspend_set_ops.
enter_state_refuses ==
    /\ worker = "pm_suspend" /\ pm = "out" /\ requested # "on"
    /\ pm_suspend_returns
    /\ UNCHANGED <<earlyVars, coreVars>>

\* enter_state up to its call of suspend_prepare.
enter_state ==
    /\ worker = "pm_suspend" /\ pm = "out" /\ requested # "on"
    /\ RunScript("suspend")
    /\ pm' = "prepare"
    /\ UNCHANGED <<earlyStackVars, frozen, helpers, devices, irqs, writer>>

\* A notifier refuses, or a helper does not end in time: enter_state returns
\* without running the resume script.
suspend_prepare_fails ==
    /\ pm = "prepare"
    /\ pm' = "return"
    /\ UNCHANGED <<earlyStackVars, frozen, helpers, devices, irqs, script, writer>>

suspend_prepare ==
    /\ pm = "prepare"
    /\ helpers' = FALSE
    /\ pm' = "freeze"
    /\ UNCHANGED <<earlyStackVars, frozen, devices, irqs, script, writer>>

\* A pass of try_to_freeze_tasks that leaves a task running asks for wake
\* locks; it gives up for one, or when it has taken too long.
try_to_freeze_tasks_waits ==
    /\ pm \in {"freeze", "freeze_rest"}
    /\ \E r \in -1..MaxTimeout :
          /\ has_wake_lock(r)
          /\ pm' \in IF r # 0 THEN {"unfreeze"} ELSE {pm, "unfreeze"}
    /\ UNCHANGED <<inited, expire_timer, timer_fired, workq, worker, moved,
                   earlyVars, frozen, helpers, devices, irqs, script, writer>>

\* Faulty variant: a process is frozen in the middle of its write.
FreezesWriters ==
    /\ \/ pm = "freeze" /\ frozen' = TRUE /\ pm' = "freeze_rest"
       \/ pm = "freeze_rest" /\ pm' = "devices" /\ UNCHANGED frozen
    /\ UNCHANGED <<earlyStackVars, helpers, devices, irqs, script, writer>>

\* A pass with no task left ends the loop without asking for wake locks.
freeze_processes ==
    /\ \/ /\ pm = "freeze"
          /\ \A w \in Writers : writer[w] = "out"
          /\ frozen' = TRUE
          /\ pm' = "freeze_rest"
       \/ /\ pm = "freeze_rest"
          /\ pm' = "devices"
          /\ UNCHANGED frozen
    /\ UNCHANGED <<earlyStackVars, helpers, devices, irqs, script, writer>>

\* Faulty variant: the error path leaves the helpers disabled.
LeavesHelpersOff ==
    /\ pm = "unfreeze"
    /\ IF frozen
         THEN frozen' = FALSE /\ UNCHANGED pm
         ELSE pm' = "return" /\ UNCHANGED frozen
    /\ UNCHANGED <<earlyStackVars, helpers, devices, irqs, script, writer>>

\* The error path of suspend_prepare.
suspend_prepare_unfreeze ==
    /\ pm = "unfreeze"
    /\ IF frozen
         THEN frozen' = FALSE /\ UNCHANGED <<pm, helpers>>
         ELSE helpers' = TRUE /\ pm' = "return" /\ UNCHANGED frozen
    /\ UNCHANGED <<earlyStackVars, devices, irqs, script, writer>>

\* dpm_suspend_start suspends the devices or fails half way; dpm_resume_end
\* resumes them in both cases.
dpm_suspend_start ==
    /\ pm = "devices"
    /\ devices' = "suspended"
    /\ pm' \in {"late", "resume_devices"}
    /\ UNCHANGED <<earlyStackVars, frozen, helpers, irqs, script, writer>>

\* Faulty variant: the last check for wake locks is left out.
NoLateCheck ==
    /\ pm = "late"
    /\ pm' = "window"
    /\ devices' = "noirq"
    /\ UNCHANGED <<earlyStackVars, frozen, helpers, irqs, script, writer>>

\* dpm_suspend_noirq down to the callback power_suspend_late.
power_suspend_late ==
    /\ pm = "late"
    /\ \E r \in -1..MaxTimeout :
          /\ has_wake_lock(r)
          /\ IF r # 0
               THEN pm' = "resume_devices" /\ UNCHANGED devices
               ELSE pm' = "window" /\ devices' = "noirq"
    /\ UNCHANGED <<inited, expire_timer, timer_fired, workq, worker, moved,
                   earlyVars, frozen, helpers, irqs, script, writer>>

\* The devices after the power device, then arch_suspend_disable_irqs.
suspend_enter_irqs_off ==
    /\ pm = "window"
    /\ \/ devices' = "suspended" /\ pm' = "resume_devices" /\ UNCHANGED irqs
       \/ irqs' = FALSE /\ pm' = "sysdev" /\ UNCHANGED devices
    /\ UNCHANGED <<earlyStackVars, frozen, helpers, script, writer>>

\* sysdev_suspend fails if a wake-up interrupt is pending.
sysdev_suspend ==
    /\ pm = "sysdev"
    /\ \/ irqs' = TRUE /\ devices' = "suspended" /\ pm' = "resume_devices"
       \/ pm' = "asleep" /\ UNCHANGED <<irqs, devices>>
    /\ UNCHANGED <<earlyStackVars, frozen, helpers, script, writer>>

(* wmt_pm_enter returns after a wake-up event.  For a key it reports        *)
(* KEY_POWER, which takes the lock of an open event device; other sources   *)
(* take none.  It leaves with interrupts enabled.                           *)
wmt_pm_enter_returns ==
    /\ pm = "asleep"
    /\ irqs' = TRUE
    /\ pm' = "sysdev_resume"
    /\ \/ UNCHANGED wakelockVars
       \/ \E l \in DriverLocks :
             wake_lock_timeout(l, MaxTimeout) /\ UNCHANGED worker
    /\ UNCHANGED <<earlyVars, frozen, helpers, devices, script, writer>>

\* The rest of suspend_enter on the way up.
sysdev_resume ==
    /\ pm = "sysdev_resume"
    /\ irqs' = TRUE
    /\ devices' = "suspended"
    /\ pm' = "resume_devices"
    /\ UNCHANGED <<earlyStackVars, frozen, helpers, script, writer>>

dpm_resume_end ==
    /\ pm = "resume_devices"
    /\ devices' = "on"
    /\ pm' = "thaw"
    /\ UNCHANGED <<earlyStackVars, frozen, helpers, irqs, script, writer>>

\* suspend_finish: the processes run before the helpers are enabled again.
suspend_finish ==
    /\ \/ pm = "thaw" /\ frozen' = FALSE /\ pm' = "enable_helpers" /\ UNCHANGED helpers
       \/ pm = "enable_helpers" /\ helpers' = TRUE /\ pm' = "resume_hook" /\ UNCHANGED frozen
    /\ UNCHANGED <<earlyStackVars, devices, irqs, script, writer>>

enter_state_hook ==
    /\ pm = "resume_hook"
    /\ RunScript("resume")
    /\ pm' = "return"
    /\ UNCHANGED <<earlyStackVars, frozen, helpers, devices, irqs, writer>>

enter_state_returns ==
    /\ pm = "return"
    /\ pm' = "out"
    /\ pm_suspend_returns
    /\ UNCHANGED <<earlyVars, frozen, helpers, devices, irqs, script, writer>>

----------------------------------------------------------------------------
PmWork ==
    \/ pm_suspend_invalid \/ enter_state_refuses \/ enter_state
    \/ suspend_prepare \/ suspend_prepare_fails
    \/ try_to_freeze_tasks_waits \/ freeze_processes \/ suspend_prepare_unfreeze
    \/ dpm_suspend_start \/ power_suspend_late \/ suspend_enter_irqs_off
    \/ sysdev_suspend \/ sysdev_resume \/ dpm_resume_end
    \/ suspend_finish \/ enter_state_hook \/ enter_state_returns

\* Everything but another round of the freezer's loop.
PmProgress == PmWork /\ <<pm, worker, frozen>>' # <<pm, worker, frozen>>

UserStep ==
    /\ ~frozen
    /\ \/ \E l \in UserLocks : ClientStep(l) /\ UNCHANGED earlyVars
       \/ \E h \in Handlers : register_early_suspend(h) \/ unregister_early_suspend(h)
    /\ UNCHANGED coreVars

DriverStep ==
    /\ irqs
    /\ \E l \in DriverLocks : ClientStep(l)
    /\ UNCHANGED <<earlyVars, coreVars>>

\* Interrupts that the wake lock manager needs: the timer tick and softirq.
TimerStep ==
    /\ irqs
    /\ Tick \/ TimerFires \/ expire_wake_locks
    /\ UNCHANGED <<earlyVars, coreVars>>

WorkerStep ==
    \/ (run_workqueue \/ SuspendWork) /\ UNCHANGED <<earlyVars, coreVars>>
    \/ EarlyWork /\ UNCHANGED coreVars

CoreNext ==
    \/ \E w \in Writers, s \in pm_states : state_store_hook(w, s)
    \/ \E w \in Writers : state_store_request(w)
    \/ UserStep \/ DriverStep \/ TimerStep \/ WorkerStep
    \/ PmWork \/ wmt_pm_enter_returns

(* The scheduler runs the queue's thread and the writers; a device that     *)
(* sleeps may sleep for ever, so waking up is not fair.  A freezer that     *)
(* waits gives up after TIMEOUT, so it does not wait for ever.              *)
CoreFairness ==
    /\ WF_powerVars(WorkerStep)
    /\ WF_powerVars(PmProgress)
    /\ \A w \in Writers : WF_powerVars(state_store_request(w))

CoreSpec == CoreInit /\ [][CoreNext]_powerVars /\ CoreFairness

----------------------------------------------------------------------------
CoreTypeOK ==
    /\ EarlyTypeOK
    /\ pm \in PmStages
    /\ frozen \in BOOLEAN /\ helpers \in BOOLEAN /\ irqs \in BOOLEAN
    /\ devices \in {"on", "suspended", "noirq"}
    /\ script \in {"suspend", "resume", "pre_suspend", "post_resume"}
    /\ writer \in [Writers -> Requests \cup {"out"}]

(* The system sleeps only if the user asked for it, with every registered   *)
(* handler suspended and with neither the main lock nor a lock of a user    *)
(* process held: a process that took its lock before it was frozen is       *)
(* honoured, although the freezer itself may finish without looking.        *)
AsleepHonoursUser ==
    pm = "asleep" =>
        /\ state = StateFlags
        /\ off = Registered
        /\ main_wake_lock \notin active
        /\ Held \cap UserLocks = {}

(* Every way out of pm_suspend, failed or not, undoes what the way in did:  *)
(* processes thawed, helpers enabled, devices resumed, interrupts on.       *)
NothingLeftDown ==
    pm \in {"out", "return"} => ~frozen /\ helpers /\ devices = "on" /\ irqs

(* The last thing pm.sh did before the system sleeps was to prepare for     *)
(* it; a script for waking up that ran later means a request to wake that   *)
(* stops the suspend.                                                       *)
ScriptPreparedSleep == pm = "asleep" => script \in {"suspend", "pre_suspend"}

(* A request to wake that stands resumes every handler, although the system *)
(* is never obliged to wake up: nobody can make the request while it sleeps *)
(* and the suspend under way when it is made is abandoned.                  *)
WakeRequestCompletes ==
    <>[]("SUSPEND_REQUESTED" \notin state) => <>[](off = {})
=============================================================================
