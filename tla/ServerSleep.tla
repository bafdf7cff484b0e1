---------------------------- MODULE ServerSleep ----------------------------
(***************************************************************************)
(* The sleeping state of server_queue (--sleep-idle-seconds): after a while *)
(* without tasks the main thread unloads the model and sleeps until a       *)
(* request at the gate wait_until_no_sleep() asks it to come back.          *)
(*                                                                         *)
(* Main thread and gate wait on ONE condition variable, condition_tasks,    *)
(* and the gate wakes it with notify_one().  `cv` is the set of threads     *)
(* blocked on it; a thread that was notified, or woken for no reason,       *)
(* leaves cv and takes mutex_tasks again in a step of its own.  One action  *)
(* is one critical section of mutex_tasks (the callbacks that unload and    *)
(* reload the model run inside it), or one step outside of it.              *)
(*                                                                         *)
(* Time is one bit, `idle`: the idle time has passed since the last task.   *)
(* It may pass whenever it has not, with one exception: a thread that was   *)
(* released at the gate gets the mutex before a whole idle time (a second   *)
(* or more, counted from the end of the sleep) is over, unless it is one of *)
(* `Laggards`.  Passing the gate does not restart the idle time.            *)
(***************************************************************************)
EXTENDS Integers, FiniteSets

CONSTANTS
    Requests,       \* handlers that pass the gate, tokenize and post one task
    Main,           \* the thread of start_loop()
    Laggards,       \* requests that may take an idle time to get the mutex
    MayTerminate,   \* BOOLEAN: the server may be shut down
    MaxSleeps       \* bound: how often the server goes to sleep

ASSUME SleepAssumption ==
    /\ Main \notin Requests
    /\ Laggards \subseteq Requests
    /\ MayTerminate \in BOOLEAN
    /\ MaxSleeps \in Nat

VARIABLES
    running, sleeping, req_stop_sleeping,   \* members of server_queue
    queue_tasks,    \* requests whose task is queued
    idle,           \* now - time_last_task >= idle_sleep_ms
    cv,             \* threads blocked on condition_tasks
    loaded,         \* the model, its context and vocabulary exist
    main_pc,
    req_pc,
    sleeps          \* how often the server went to sleep, bounded by MaxSleeps

queueVars == <<running, sleeping, req_stop_sleeping, queue_tasks, idle>>
vars == <<queueVars, cv, loaded, main_pc, req_pc, sleeps>>

MainPcs == {"loop", "process", "update", "check", "timed", "asleep", "exit"}
RequestPcs == {"new", "gate", "passed", "tokenized", "posted", "answered"}

\* notify_one(): one of the blocked threads, if there is any.
NotifyOne == IF cv = {} THEN cv' = cv ELSE \E w \in cv : cv' = cv \ {w}
NotifyAll == cv' = {}

Init ==
    /\ running = TRUE /\ sleeping = FALSE /\ req_stop_sleeping = FALSE
    /\ queue_tasks = {} /\ idle = FALSE
    /\ cv = {} /\ loaded = TRUE
    /\ main_pc = "loop"
    /\ req_pc = [r \in Requests |-> "new"]
    /\ sleeps = 0

-----------------------------------------------------------------------------
(* HTTP threads *)

\* wait_until_no_sleep(), first test
GatePass(r) ==
    /\ req_pc[r] = "new" /\ ~sleeping
    /\ req_pc' = [req_pc EXCEPT ![r] = "passed"]
    /\ UNCHANGED <<queueVars, cv, loaded, main_pc, sleeps>>

\* Mutant: the request to wake up is not remembered.
GateAsk_ForgetsFlag(r) ==
    /\ req_pc[r] = "new" /\ sleeping
    /\ \E w \in (IF req_stop_sleeping \/ cv = {} THEN {{}} ELSE {{x} : x \in cv}) :
          cv' = (cv \ w) \cup {r}
    /\ req_pc' = [req_pc EXCEPT ![r] = "gate"]
    /\ UNCHANGED <<queueVars, loaded, main_pc, sleeps>>

\* Mutant: the request is remembered but nobody is notified.
GateAsk_NoNotify(r) ==
    /\ req_pc[r] = "new" /\ sleeping
    /\ cv' = cv \cup {r}
    /\ req_stop_sleeping' = TRUE
    /\ req_pc' = [req_pc EXCEPT ![r] = "gate"]
    /\ UNCHANGED <<running, sleeping, queue_tasks, idle, loaded, main_pc, sleeps>>

\* ... the server sleeps: the first to ask notifies, everybody waits
GateAsk(r) ==
    /\ req_pc[r] = "new" /\ sleeping
    /\ \E w \in (IF req_stop_sleeping \/ cv = {} THEN {{}} ELSE {{x} : x \in cv}) :
          cv' = (cv \ w) \cup {r}
    /\ req_stop_sleeping' = TRUE
    /\ req_pc' = [req_pc EXCEPT ![r] = "gate"]
    /\ UNCHANGED <<running, sleeping, queue_tasks, idle, loaded, main_pc, sleeps>>

\* The predicate of condition_tasks.wait() after a wake-up
GateRecheck(r) ==
    /\ req_pc[r] = "gate" /\ r \notin cv
    /\ req_pc' = IF sleeping THEN req_pc ELSE [req_pc EXCEPT ![r] = "passed"]
    /\ cv' = IF sleeping THEN cv \cup {r} ELSE cv
    /\ UNCHANGED <<queueVars, loaded, main_pc, sleeps>>

\* The handler tokenizes its prompt with the model's vocabulary.
Tokenize(r) ==
    /\ req_pc[r] = "passed"
    /\ req_pc' = [req_pc EXCEPT ![r] = "tokenized"]
    /\ UNCHANGED <<queueVars, cv, loaded, main_pc, sleeps>>

\* server_queue::post()
Post(r) ==
    /\ req_pc[r] = "tokenized"
    /\ queue_tasks' = queue_tasks \cup {r}
    /\ idle' = FALSE
    /\ NotifyOne
    /\ req_pc' = [req_pc EXCEPT ![r] = "posted"]
    /\ UNCHANGED <<running, sleeping, req_stop_sleeping, loaded, main_pc, sleeps>>

RequestStep(r) ==
    GatePass(r) \/ GateAsk(r) \/ GateRecheck(r) \/ Tokenize(r) \/ Post(r)

-----------------------------------------------------------------------------
(* The main thread: start_loop(). *)

PopTask ==
    /\ main_pc = "loop" /\ running
    /\ \E r \in queue_tasks :
          /\ queue_tasks' = queue_tasks \ {r}
          /\ req_pc' = [req_pc EXCEPT ![r] = "answered"]
    /\ main_pc' = "process"
    /\ UNCHANGED <<running, sleeping, req_stop_sleeping, idle, cv, loaded, sleeps>>

\* callback_new_task() has run and the inner loop continues
Processed ==
    /\ main_pc = "process"
    /\ main_pc' = "loop"
    /\ UNCHANGED <<queueVars, cv, loaded, req_pc, sleeps>>

LoopEnd ==
    /\ main_pc = "loop" /\ (running => queue_tasks = {})
    /\ main_pc' = IF running THEN "update" ELSE "exit"
    /\ UNCHANGED <<queueVars, cv, loaded, req_pc, sleeps>>

\* callback_update_slots() has run: its time is not idle time
Updated ==
    /\ main_pc = "update"
    /\ idle' = FALSE
    /\ main_pc' = "check"
    /\ UNCHANGED <<running, sleeping, req_stop_sleeping, queue_tasks, cv, loaded, req_pc, sleeps>>

\* The wait loop: there is something to do ...
CheckBusy ==
    /\ main_pc = "check" /\ (~running \/ queue_tasks # {})
    /\ main_pc' = "loop"
    /\ UNCHANGED <<queueVars, cv, loaded, req_pc, sleeps>>

\* ... or the main thread waits for a task or for max_wait_time ...
CheckWait ==
    /\ main_pc = "check" /\ running /\ queue_tasks = {} /\ ~idle
    /\ main_pc' = "timed"
    /\ cv' = cv \cup {Main}
    /\ UNCHANGED <<queueVars, loaded, req_pc, sleeps>>

\* Mutant: the idle test comes before the test for tasks.
EnterSleep_OverTasks ==
    /\ main_pc = "check" /\ running /\ idle
    /\ sleeps < MaxSleeps
    /\ sleeping' = TRUE
    /\ loaded' = FALSE
    /\ req_stop_sleeping' = FALSE
    /\ main_pc' = "asleep"
    /\ cv' = cv \cup {Main}
    /\ sleeps' = sleeps + 1
    /\ UNCHANGED <<running, queue_tasks, idle, req_pc>>

\* Mutant: the model is not unloaded.
EnterSleep_KeepsModel ==
    /\ main_pc = "check" /\ running /\ queue_tasks = {} /\ idle
    /\ sleeps < MaxSleeps
    /\ sleeping' = TRUE
    /\ req_stop_sleeping' = FALSE
    /\ main_pc' = "asleep"
    /\ cv' = cv \cup {Main}
    /\ sleeps' = sleeps + 1
    /\ UNCHANGED <<running, queue_tasks, idle, loaded, req_pc>>

\* ... or the server has been idle for long enough and goes to sleep.
EnterSleep ==
    /\ main_pc = "check" /\ running /\ queue_tasks = {} /\ idle
    /\ sleeps < MaxSleeps
    /\ sleeping' = TRUE
    /\ loaded' = FALSE
    /\ req_stop_sleeping' = FALSE
    /\ main_pc' = "asleep"
    /\ cv' = cv \cup {Main}
    /\ sleeps' = sleeps + 1
    /\ UNCHANGED <<running, queue_tasks, idle, req_pc>>

\* wait_for() ends by a notification or by its timeout
TimedWaitEnd ==
    /\ main_pc = "timed"
    /\ main_pc' = IF queue_tasks # {} \/ ~running THEN "loop" ELSE "check"
    /\ cv' = cv \ {Main}
    /\ UNCHANGED <<queueVars, loaded, req_pc, sleeps>>

\* Mutant: a task ends the sleep as it ends the other wait, without a reload.
SleepOn_ServesTask ==
    /\ main_pc = "asleep" /\ Main \notin cv
    /\ running /\ ~req_stop_sleeping
    /\ main_pc' = IF queue_tasks # {} THEN "loop" ELSE main_pc
    /\ cv' = IF queue_tasks # {} THEN cv ELSE cv \cup {Main}
    /\ UNCHANGED <<queueVars, loaded, req_pc, sleeps>>

\* Woken during sleep and nobody asked for it: the predicate does not look at
\* queue_tasks.
SleepOn ==
    /\ main_pc = "asleep" /\ Main \notin cv
    /\ running /\ ~req_stop_sleeping
    /\ cv' = cv \cup {Main}
    /\ UNCHANGED <<queueVars, loaded, main_pc, req_pc, sleeps>>

\* Shut down during sleep: sleeping stays TRUE
SleepTerminated ==
    /\ main_pc = "asleep" /\ Main \notin cv
    /\ ~running
    /\ main_pc' = "loop"
    /\ UNCHANGED <<queueVars, cv, loaded, req_pc, sleeps>>

\* Mutant: a gate waiter is woken with notify_one() instead of notify_all().
ExitSleep_NotifiesOne ==
    /\ main_pc = "asleep" /\ Main \notin cv
    /\ running /\ req_stop_sleeping
    /\ req_stop_sleeping' = FALSE
    /\ loaded' = TRUE
    /\ sleeping' = FALSE
    /\ idle' = FALSE
    /\ NotifyOne
    /\ main_pc' = "loop"
    /\ UNCHANGED <<running, queue_tasks, req_pc, sleeps>>

\* Asked to stop sleeping: reload, then let the gate open
ExitSleep ==
    /\ main_pc = "asleep" /\ Main \notin cv
    /\ running /\ req_stop_sleeping
    /\ req_stop_sleeping' = FALSE
    /\ loaded' = TRUE
    /\ sleeping' = FALSE
    /\ idle' = FALSE
    /\ NotifyAll
    /\ main_pc' = "loop"
    /\ UNCHANGED <<running, queue_tasks, req_pc, sleeps>>

MainStep ==
    \/ PopTask \/ Processed \/ LoopEnd \/ Updated
    \/ CheckBusy \/ CheckWait \/ EnterSleep \/ TimedWaitEnd
    \/ SleepOn \/ SleepTerminated \/ ExitSleep

terminate ==
    /\ MayTerminate /\ running
    /\ running' = FALSE
    /\ NotifyAll
    /\ UNCHANGED <<sleeping, req_stop_sleeping, queue_tasks, idle, loaded, main_pc, req_pc, sleeps>>

\* The sleep r waited for is over, but r has not noticed yet.
Released(r) == req_pc[r] = "gate" /\ r \notin cv /\ ~sleeping

\* should_sleep() becomes true.
IdleExpires ==
    /\ ~idle
    /\ \A r \in Requests \ Laggards : ~Released(r)
    /\ idle' = TRUE
    /\ UNCHANGED <<running, sleeping, req_stop_sleeping, queue_tasks, cv, loaded, main_pc, req_pc, sleeps>>

\* A condition variable may wake a thread for no reason.
SpuriousWake ==
    /\ \E w \in cv : cv' = cv \ {w}
    /\ UNCHANGED <<queueVars, loaded, main_pc, req_pc, sleeps>>

Next ==
    \/ \E r \in Requests : RequestStep(r)
    \/ MainStep
    \/ terminate \/ IdleExpires \/ SpuriousWake

Spec == Init /\ [][Next]_vars

\* Both kinds of threads are scheduled; nothing has to be idle, to be shut down
\* or to wake up for no reason.
FairSpec == Spec /\ WF_vars(MainStep) /\ \A r \in Requests : WF_vars(RequestStep(r))

-----------------------------------------------------------------------------
(* Properties *)

\* Types; the model is loaded exactly while the server does not sleep, which is
\* what handle_sleeping_state() asserts, and the main thread is on the condition
\* variable only in its two waits.
TypeOK ==
    /\ running \in BOOLEAN /\ sleeping \in BOOLEAN
    /\ req_stop_sleeping \in BOOLEAN /\ idle \in BOOLEAN /\ loaded \in BOOLEAN
    /\ queue_tasks \in SUBSET Requests
    /\ cv \in SUBSET (Requests \cup {Main})
    /\ main_pc \in MainPcs
    /\ req_pc \in [Requests -> RequestPcs]
    /\ sleeps \in Nat
    /\ loaded <=> ~sleeping
    /\ Main \in cv => main_pc \in {"timed", "asleep"}
    /\ \A r \in Requests : r \in cv => req_pc[r] = "gate"
    /\ \A r \in Requests : r \in queue_tasks <=> req_pc[r] = "posted"

\* The main thread takes and processes tasks and updates slots only with the
\* model loaded, however sleeping, waking and shutting down interleave.
MainHasModel ==
    main_pc \in {"process", "update", "check", "timed"} => loaded

\* Once the server is awake nobody is left blocked at the gate: the waiters of a
\* sleep are released by its end.
NoForgottenWaiter ==
    ~sleeping => cv \subseteq {Main}

\* "only main thread is waiting on this": whenever the gate is about to wake the
\* sleeping main thread with notify_one(), no other thread can take the wake-up
\* (only a laggard of an earlier sleep could).
OnlyMainIsNotified ==
    sleeping /\ ~req_stop_sleeping /\ running => cv \subseteq {Main} \cup Laggards

\* Every request that comes to the gate is let through, unless the server is
\* shut down meanwhile.
GateOpens ==
    \A r \in Requests : req_pc[r] = "gate" ~> req_pc[r] # "gate" \/ ~running

\* A task that is queued while the server is awake, or while somebody has asked
\* it to wake up, is processed, unless the server is shut down: the server never
\* falls asleep over a task and a wake-up serves whatever waits.
AwakeServes ==
    \A r \in Requests :
        req_pc[r] = "posted" /\ (~sleeping \/ req_stop_sleeping)
            ~> req_pc[r] = "answered" \/ ~running

\* "Any new incoming task will automatically trigger the model to reload"
\* (tools/server/README.md): every posted task is processed, unless the server
\* is shut down.
PostedIsProcessed ==
    \A r \in Requests : req_pc[r] = "posted" ~> req_pc[r] = "answered" \/ ~running
=============================================================================
