------------------------------ MODULE Autosave ------------------------------
(***************************************************************************)
(* The automatic saving of parameters (apps/libs/pxlibs/libs/parameters)   *)
(* on the low-priority work queue, which other modules use as well.  The   *)
(* parameters' writer lock is held by at most one caller of param_set or   *)
(* param_control_autosave; the worker takes it to take back the schedule,  *)
(* and the reader lock for the save itself.                                *)
(***************************************************************************)
EXTENDS WQueue

CONSTANTS
  autosave_work,
  SavesToFlash     \* is there no default file?

ASSUME AutosaveConstants ==
  /\ autosave_work \in Works
  /\ SavesToFlash \in BOOLEAN

Others == Works \ {autosave_work}

VARIABLES
  autosave_scheduled, autosave_disabled,
  armed,      \* what autosave_worker reads of actuator_armed
  setting,    \* is a caller of param_set in work_queue, with the lock?
  stage,      \* where autosave_worker is
  filling,    \* the other works whose callers are in work_queue
  unsaved,    \* history: has a parameter changed since the last good save?
  changed,    \* history: since the worker last took back the schedule, or a
              \* call disabled the saving?
  missed,     \* history: has a save failed, or the saving been disabled, since
              \* the last change to be saved or the start of the last save?
  collided    \* history: has the worker met a cancel of the work it runs?

saveVars == <<autosave_scheduled, autosave_disabled, unsaved, changed, missed>>
vars == <<queueVars, saveVars, armed, setting, stage, filling, collided>>

Init ==
  /\ QueueInit
  /\ autosave_scheduled = FALSE
  /\ autosave_disabled = FALSE
  /\ armed = FALSE
  /\ setting = FALSE
  /\ stage = "start"
  /\ filling = {}
  /\ unsaved = FALSE
  /\ changed = FALSE
  /\ missed = FALSE
  /\ collided = FALSE

-----------------------------------------------------------------------------
(* Callers with the parameters' lock.                                      *)

\* param_autosave at the end of a param_set that changes the value,
param_autosave(d) ==
  /\ ~setting
  /\ unsaved' = TRUE
  /\ changed' = (changed \/ ~autosave_disabled)
  /\ missed' = (missed /\ autosave_disabled)
  /\ IF autosave_scheduled \/ autosave_disabled
     THEN UNCHANGED <<queueVars, autosave_scheduled, setting>>
     ELSE /\ autosave_scheduled' = TRUE
          /\ Fill(autosave_work, d)
          /\ setting' = TRUE
  /\ UNCHANGED <<autosave_disabled, armed, stage, filling, collided>>

\* and the rest of its work_queue.
AutosaveQueues ==
  /\ setting
  /\ work_queue(autosave_work)
  /\ setting' = FALSE
  /\ UNCHANGED <<threadVars, saveVars, armed, stage, filling, collided>>

(* A cancel that leaves the saving scheduled. *)
Unschedule_NotAtAll == UNCHANGED autosave_scheduled

Unschedule == autosave_scheduled' = FALSE

\* param_control_autosave(false) and (true).
DisableAutosave ==
  /\ ~setting
  /\ IF autosave_scheduled
     THEN work_cancel(autosave_work)
     ELSE UNCHANGED queueVars
  /\ Unschedule
  /\ autosave_disabled' = TRUE
  /\ changed' = FALSE
  /\ missed' = TRUE
  /\ collided' = (collided \/ (autosave_scheduled /\ stage = "requeue"))
  /\ UNCHANGED <<unsaved, armed, setting, stage, filling>>

EnableAutosave ==
  /\ ~setting
  /\ autosave_disabled' = FALSE
  /\ UNCHANGED <<queueVars, autosave_scheduled, unsaved, changed, missed, armed,
                 setting, stage, filling, collided>>

-----------------------------------------------------------------------------
(* autosave_worker, on the thread of the queue.                            *)

Running(s) == tpc = "run" /\ work = autosave_work /\ stage = s

Deferred == SavesToFlash /\ armed

\* While armed it puts itself off, without the lock,
WorkerDefers(d) ==
  /\ Running("start")
  /\ Deferred
  /\ collided' = (collided \/ ~autosave_scheduled \/ autosave_work \in worker)
  /\ Fill(autosave_work, d)
  /\ stage' = "requeue"
  /\ UNCHANGED <<saveVars, armed, setting, filling>>

WorkerRequeues ==
  /\ Running("requeue")
  /\ work_queue(autosave_work)
  /\ Return
  /\ stage' = "start"
  /\ UNCHANGED <<saveVars, armed, setting, filling, collided>>

\* otherwise it takes back the schedule, with the lock,
WorkerRecords ==
  /\ Running("start")
  /\ ~Deferred
  /\ ~setting
  /\ Unschedule
  /\ changed' = FALSE
  /\ missed' = (missed /\ autosave_disabled)
  /\ collided' = (collided \/ autosave_work \in worker)
  /\ IF autosave_disabled
     THEN Return /\ UNCHANGED stage
     ELSE stage' = "save" /\ UNCHANGED threadVars
  /\ UNCHANGED <<q, workVars, clock, autosave_disabled, unsaved, armed, setting,
                 filling>>

\* and saves what has changed by then, with the reader lock.  The attempts at
\* file or flash may all fail.
param_save_default(ok) ==
  /\ ~setting
  /\ unsaved' = (unsaved /\ ~ok)
  /\ missed' = (missed \/ ~ok)

\* A failure is only reported.
WorkerSaves(ok) ==
  /\ Running("save")
  /\ param_save_default(ok)
  /\ stage' = "start"
  /\ Return
  /\ UNCHANGED <<q, workVars, clock, autosave_scheduled, autosave_disabled,
                 changed, armed, setting, filling, collided>>

Arm ==
  /\ armed' = ~armed
  /\ UNCHANGED <<queueVars, saveVars, setting, stage, filling, collided>>

-----------------------------------------------------------------------------
(* Other works: each has one caller, which queues it when it is free.      *)

OtherFills(w, d) ==
  /\ w \notin worker
  /\ Fill(w, d)
  /\ filling' = filling \cup {w}
  /\ UNCHANGED <<saveVars, armed, setting, stage, collided>>

OtherQueues(w) ==
  /\ w \in filling
  /\ work_queue(w)
  /\ filling' = filling \ {w}
  /\ UNCHANGED <<threadVars, saveVars, armed, setting, stage, collided>>

OtherCancels(w) ==
  /\ w \notin filling
  /\ work_cancel(w)
  /\ UNCHANGED <<saveVars, armed, setting, stage, filling, collided>>

OtherReturns ==
  /\ tpc = "run"
  /\ work \in Others
  /\ Return
  /\ UNCHANGED <<q, workVars, clock, saveVars, armed, setting, stage, filling,
                 collided>>

-----------------------------------------------------------------------------
Workers ==
  \/ \E d \in Delays : WorkerDefers(d)
  \/ WorkerRequeues
  \/ WorkerRecords
  \/ \E ok \in BOOLEAN : WorkerSaves(ok)
  \/ OtherReturns

Thread ==
  /\ \/ \E k \in DOMAIN Entry : Process(k)
     \/ Sleep
     \/ Wake
  /\ UNCHANGED <<saveVars, armed, setting, stage, filling, collided>>

TimePasses ==
  Tick /\ UNCHANGED <<saveVars, armed, setting, stage, filling, collided>>

Step ==
  \/ \E d \in Delays : param_autosave(d)
  \/ AutosaveQueues
  \/ DisableAutosave
  \/ EnableAutosave
  \/ Arm
  \/ \E w \in Others :
       \/ \E d \in Delays : OtherFills(w, d)
       \/ OtherQueues(w)
       \/ OtherCancels(w)
  \/ Workers
  \/ Thread
  \/ TimePasses

\* Once the worker has collided with a cancel its work may be linked twice, or
\* the list cut off; what a broken list does is not followed.
Next == ~collided /\ Step

\* The thread and the callers run, workers end, and the clock never stops,
\* however often others queue their works.
Fairness ==
  /\ WF_vars(~collided /\ Thread)
  /\ WF_vars(~collided /\ Workers)
  /\ WF_vars(~collided /\ AutosaveQueues)
  /\ SF_vars(~collided /\ TimePasses)

Spec == Init /\ [][Next]_vars /\ Fairness

-----------------------------------------------------------------------------
\* Works that are to be found in the list: not those still being filled in.
Listed ==
  {w \in worker \ filling :
     w = autosave_work => ~setting /\ stage # "requeue"}

\* The variables have their types.
TypeOK ==
  /\ q.head \in Works \cup {NULL} /\ q.tail \in Works \cup {NULL}
  /\ q.flink \in [Works -> Works \cup {NULL}]
  /\ q.blink \in [Works -> Works \cup {NULL}]
  /\ worker \subseteq Works
  /\ delay \in [Works -> Delays \cup {0}]
  /\ qtime \in [Works -> 0..(ClockRange - 1)]
  /\ clock \in 0..(ClockRange - 1)
  /\ age \in [Works -> 0..Far]
  /\ tpc \in {"process", "run", "sleep"}
  /\ work \in Works \cup {NULL}
  /\ ran \in 0..MaxRun
  /\ next \in 0..WORKPERIOD
  /\ {autosave_scheduled, autosave_disabled, armed, setting} \subseteq BOOLEAN
  /\ {unsaved, changed, missed, collided} \subseteq BOOLEAN
  /\ stage \in {"start", "requeue", "save"}
  /\ filling \subseteq Others

(***************************************************************************)
(* The list holds the queued works, each once, and its two directions      *)
(* agree, whatever workers, callers and cancels do; until the worker of    *)
(* the parameters puts its work back although it was cancelled.            *)
(***************************************************************************)
ListIsSound ==
  ~collided =>
    /\ {Entry[k] : k \in DOMAIN Entry} = Listed \cup {NULL}
    /\ \A w \in Listed :
         /\ q.blink[w] = NULL <=> q.head = w
         /\ q.flink[w] = NULL <=> q.tail = w
         /\ q.flink[w] # NULL => q.blink[q.flink[w]] = w

(***************************************************************************)
(* No work runs before its delay is over, by more than half a tick, unless *)
(* the 32-bit clock has wrapped since it was queued.                       *)
(***************************************************************************)
NeverEarly ==
  [][\A w \in Works :
       (tpc = "process" /\ work' = w /\ ~collided) =>
         \/ age[w] + USEC_PER_TICK \div 2 >= USEC_PER_TICK * delay[w]
         \/ clock < qtime[w]]_vars

(***************************************************************************)
(* The thread never sleeps past a work by more than the period (or half a  *)
(* tick), although no signal wakes it for what is queued while it sleeps.  *)
(***************************************************************************)
SleepIsShort ==
  (tpc = "sleep" /\ ~collided) =>
    \A w \in Listed :
      age[w] + next <= Max({USEC_PER_TICK * delay[w], WORKPERIOD})
                         + (USEC_PER_TICK - 1) \div 2

(***************************************************************************)
(* A changed parameter is not forgotten.  A change since the worker has    *)
(* last taken back the schedule has the work in the queue or on its way,   *)
(* also when it comes between the worker's decision and its save, and when *)
(* that save fails.  Older changes that are not stored are about to be     *)
(* saved, unless a save has failed, which the code reports and does not    *)
(* repeat, or the saving was disabled.                                     *)
(***************************************************************************)
ChangeIsPending ==
  ~collided =>
    /\ changed =>
         autosave_scheduled /\ (autosave_work \in worker \/ Running("start"))
    /\ unsaved => changed \/ missed \/ Running("save")

(***************************************************************************)
(* Every change is followed by a save that begins after it, and what is    *)
(* unsaved is stored in the end or its save fails; unless the saving is    *)
(* disabled or the vehicle armed.  Lost signals and the work of others     *)
(* only delay it.                                                          *)
(***************************************************************************)
ChangesAreSaved ==
  /\ changed ~> ~changed \/ armed \/ collided
  /\ unsaved ~> ~unsaved \/ missed \/ armed \/ collided
=============================================================================
