---------------------------- MODULE EarlySuspend ----------------------------
(***************************************************************************)
(* kernel/power/earlysuspend.c on top of the wake lock manager: the user's  *)
(* request to sleep or wake, the early-suspend handlers (screen, input) and *)
(* the main wake lock, which is dropped once the handlers have run.         *)
(*                                                                          *)
(* Its two work items share the single-threaded suspend_work_queue with     *)
(* suspend().  The spinlock state_lock makes each test-and-change of state  *)
(* one action; the mutex early_suspend_lock is held by the worker exactly   *)
(* in the stages es_call and lr_call, and by registration within one step.  *)
(***************************************************************************)
EXTENDS Wakelock

CONSTANTS Handlers,     \* struct early_suspend of the drivers
          Level         \* Level[h]: the level a handler registers with

ASSUME EarlySuspendAssumption == Level \in [Handlers -> Int]

VARIABLES
    state,          \* subset of the flags SUSPEND_REQUESTED and SUSPENDED
    requested,      \* requested_suspend_state: PM_SUSPEND_ON or a sleep state
    handlers,       \* the list early_suspend_handlers
    off,            \* handlers whose last call was suspend, not resume
    pos             \* cursor of the loop over the handlers

earlyVars == <<state, requested, handlers, off, pos>>
earlyStackVars == <<wakelockVars, earlyVars>>

\* What a request may be for; pm_suspend treats all sleep states alike.
Requests == {"on", "sleep"}
StateFlags == {"SUSPEND_REQUESTED", "SUSPENDED"}
Registered == {handlers[i] : i \in 1..Len(handlers)}
MutexFree == worker \notin {"es_call", "lr_call"}

EarlyInit ==
    /\ WakelockInit
    /\ state = {}
    /\ requested = "sleep"
    /\ handlers = <<>>
    /\ off = {}
    /\ pos = 0

----------------------------------------------------------------------------
\* Faulty variant: handlers are appended whatever their level.
AppendsHandler(k, h) == k = Len(handlers) + 1

\* The place where the loop of register_early_suspend stops: before the first
\* handler with a greater level.
IsInsertPosition(k, h) ==
    /\ \A i \in 1..(k - 1) : Level[handlers[i]] <= Level[h]
    /\ k <= Len(handlers) => Level[handlers[k]] > Level[h]

\* Faulty variant: a handler registered late is not suspended at once.
RegistersOnly(h) ==
    /\ MutexFree
    /\ h \notin Registered
    /\ \E k \in 1..(Len(handlers) + 1) :
          /\ IsInsertPosition(k, h)
          /\ handlers' = SubSeq(handlers, 1, k - 1) \o <<h>>
                           \o SubSeq(handlers, k, Len(handlers))
    /\ UNCHANGED <<wakelockVars, state, requested, off, pos>>

register_early_suspend(h) ==
    /\ MutexFree
    /\ h \notin Registered
    /\ \E k \in 1..(Len(handlers) + 1) :
          /\ IsInsertPosition(k, h)
          /\ handlers' = SubSeq(handlers, 1, k - 1) \o <<h>>
                           \o SubSeq(handlers, k, Len(handlers))
    /\ off' = IF "SUSPENDED" \in state THEN off \cup {h} ELSE off
    /\ UNCHANGED <<wakelockVars, state, requested, pos>>

unregister_early_suspend(h) ==
    /\ MutexFree
    /\ \E k \in 1..Len(handlers) :
          /\ handlers[k] = h
          /\ handlers' = SubSeq(handlers, 1, k - 1)
                           \o SubSeq(handlers, k + 1, Len(handlers))
    /\ off' = off \ {h}
    /\ UNCHANGED <<wakelockVars, state, requested, pos>>

\* Faulty variant: an aborted early_suspend does not look at the main lock.
AbortReturns ==
    /\ worker = "early_suspend"
    /\ IF state = {"SUSPEND_REQUESTED"}
         THEN state' = StateFlags /\ worker' = "es_call" /\ pos' = 1
         ELSE worker' = "idle" /\ UNCHANGED <<state, pos>>
    /\ UNCHANGED <<inited, active, auto, left, preventing, expire_timer,
                   timer_fired, workq, moved, requested, handlers, off>>

\* early_suspend takes the mutex and decides under state_lock.
early_suspend_begin ==
    /\ worker = "early_suspend"
    /\ IF state = {"SUSPEND_REQUESTED"}
         THEN state' = StateFlags /\ worker' = "es_call" /\ pos' = 1
         ELSE worker' = "es_release" /\ UNCHANGED <<state, pos>>
    /\ UNCHANGED <<inited, active, auto, left, preventing, expire_timer,
                   timer_fired, workq, moved, requested, handlers, off>>

\* The loop calls the suspend handlers from the head of the list, then drops
\* the mutex and syncs the file systems.
early_suspend_call ==
    /\ worker = "es_call"
    /\ IF pos <= Len(handlers)
         THEN off' = off \cup {handlers[pos]} /\ pos' = pos + 1 /\ UNCHANGED worker
         ELSE worker' = "es_release" /\ UNCHANGED <<off, pos>>
    /\ UNCHANGED <<inited, active, auto, left, preventing, expire_timer,
                   timer_fired, workq, moved, state, requested, handlers>>

\* Faulty variant: the request is not checked again.
ReleasesAnyway ==
    /\ worker = "es_release"
    /\ worker' = "idle"
    /\ wake_unlock(main_wake_lock)
    /\ UNCHANGED earlyVars

\* The label abort: the main lock is dropped if the request still stands.
early_suspend_release ==
    /\ worker = "es_release"
    /\ worker' = "idle"
    /\ IF state = StateFlags
         THEN wake_unlock(main_wake_lock)
         ELSE UNCHANGED <<inited, active, auto, left, preventing, expire_timer,
                          timer_fired, workq, moved>>
    /\ UNCHANGED earlyVars

\* Faulty variant: the loop starts one handler too low.
ResumesFromBelowTop ==
    /\ worker = "late_resume"
    /\ IF state = {"SUSPENDED"}
         THEN state' = {} /\ worker' = "lr_call" /\ pos' = Len(handlers) - 1
         ELSE worker' = "idle" /\ UNCHANGED <<state, pos>>
    /\ UNCHANGED <<inited, active, auto, left, preventing, expire_timer,
                   timer_fired, workq, moved, requested, handlers, off>>

late_resume_begin ==
    /\ worker = "late_resume"
    /\ IF state = {"SUSPENDED"}
         THEN state' = {} /\ worker' = "lr_call" /\ pos' = Len(handlers)
         ELSE worker' = "idle" /\ UNCHANGED <<state, pos>>
    /\ UNCHANGED <<inited, active, auto, left, preventing, expire_timer,
                   timer_fired, workq, moved, requested, handlers, off>>

\* The resume handlers are called from the tail of the list.
late_resume_call ==
    /\ worker = "lr_call"
    /\ IF pos >= 1
         THEN off' = off \ {handlers[pos]} /\ pos' = pos - 1 /\ UNCHANGED worker
         ELSE worker' = "idle" /\ UNCHANGED <<off, pos>>
    /\ UNCHANGED <<inited, active, auto, left, preventing, expire_timer,
                   timer_fired, workq, moved, state, requested, handlers>>

\* request_suspend_state, all of it under state_lock.
request_suspend_state(new_state) ==
    /\ requested' = new_state
    /\ \/ /\ "SUSPEND_REQUESTED" \notin state /\ new_state # "on"
          /\ state' = state \cup {"SUSPEND_REQUESTED"}
          /\ queue_work("early_suspend")
          /\ UNCHANGED <<inited, active, auto, left, preventing, expire_timer,
                         timer_fired, moved>>
       \/ /\ "SUSPEND_REQUESTED" \in state /\ new_state = "on"
          /\ state' = state \ {"SUSPEND_REQUESTED"}
          /\ wake_lock(main_wake_lock)
          /\ queue_work("late_resume")
       \/ /\ "SUSPEND_REQUESTED" \in state <=> new_state # "on"
          /\ UNCHANGED <<state, inited, active, auto, left, preventing,
                         expire_timer, timer_fired, workq, moved>>
    /\ UNCHANGED <<worker, handlers, off, pos>>

EarlyWork ==
    \/ early_suspend_begin \/ early_suspend_call \/ early_suspend_release
    \/ late_resume_begin \/ late_resume_call

\* pm_suspend, as far as this layer goes, returns sooner or later.
Pm == (pm_suspend_asks \/ pm_suspend_returns) /\ UNCHANGED earlyVars

\* What the wake lock manager does by itself.
Manager == (Tick \/ TimerFires \/ expire_wake_locks \/ run_workqueue \/ SuspendWork)
             /\ UNCHANGED earlyVars

EarlyNext ==
    \/ \E l \in Clients : ClientStep(l) /\ UNCHANGED earlyVars
    \/ \E s \in Requests : request_suspend_state(s)
    \/ \E h \in Handlers : register_early_suspend(h) \/ unregister_early_suspend(h)
    \/ EarlyWork \/ Manager \/ Pm

EarlyFairness ==
    /\ WF_earlyStackVars(run_workqueue /\ UNCHANGED earlyVars)
    /\ WF_earlyStackVars(EarlyWork)
    /\ WF_earlyStackVars(SuspendWork /\ UNCHANGED earlyVars)
    /\ WF_earlyStackVars(pm_suspend_returns /\ UNCHANGED earlyVars)

EarlySafety == EarlyInit /\ [][EarlyNext]_earlyStackVars
EarlySpec == EarlySafety /\ EarlyFairness

----------------------------------------------------------------------------
EarlyTypeOK ==
    /\ WakelockTypeOK
    /\ state \subseteq StateFlags
    /\ requested \in Requests
    /\ handlers \in Seq(Handlers)
    /\ off \subseteq Handlers
    /\ pos \in Nat

(* The main wake lock is down only while the user wants the system asleep   *)
(* and every registered handler has been suspended: the system can then     *)
(* only go down with its screen dark, whatever requests raced with the two  *)
(* work items and in whatever order they ran.                               *)
MainDownOnlyWhenDark ==
    main_wake_lock \notin active =>
        state = StateFlags /\ off = Registered

(* Outside the two loops the handlers agree with the flag SUSPENDED, in a   *)
(* loop exactly a prefix of the list is suspended: no handler is suspended  *)
(* or resumed twice in a row, and none is forgotten.                        *)
HandlersFollowState ==
    off = CASE worker = "es_call" -> {handlers[i] : i \in 1..(pos - 1)}
            [] worker = "lr_call" -> {handlers[i] : i \in 1..pos}
            [] OTHER -> IF "SUSPENDED" \in state THEN Registered ELSE {}

(* earlysuspend.h: suspend handlers run from low to high level, resume      *)
(* handlers in the opposite order, so whenever a handler is suspended, all  *)
(* handlers of lower levels are.                                            *)
DarkInLevelOrder ==
    \A g, h \in Registered : Level[g] < Level[h] /\ h \in off => g \in off

(* A request to sleep that stands releases the main wake lock for good,     *)
(* however many requests came before it.                                    *)
SleepRequestHonoured ==
    <>[]("SUSPEND_REQUESTED" \in state) => <>[](main_wake_lock \notin active)

(* A request to wake that stands resumes every handler for good.            *)
WakeRequestHonoured ==
    <>[]("SUSPEND_REQUESTED" \notin state) => <>[](off = {})
=============================================================================
