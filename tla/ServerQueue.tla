---------------------------- MODULE ServerQueue ----------------------------
(***************************************************************************)
(* The request path of the inference server (tools/server): HTTP threads    *)
(* hand tasks to one main thread through server_queue, the main thread runs *)
(* them on a fixed set of slots, and results come back through              *)
(* server_response to the server_response_reader of the HTTP thread.        *)
(*                                                                         *)
(* Atomicity.  One action is one critical section of mutex_tasks or         *)
(* mutex_results (or one stretch of main-thread code between two of them),  *)
(* so every interleaving the two mutexes allow is explored.  The only       *)
(* critical section that is split is the loop of post() over cancel tasks:  *)
(* `lock` says which reader holds mutex_tasks meanwhile.                    *)
(*                                                                         *)
(* Slots are seen from the scheduler: which task a slot runs and whether it *)
(* still waits for its parent's prompt.  Tokens, prompts and timings are    *)
(* data; the sleeping state of the main loop is left out.                   *)
(***************************************************************************)
EXTENDS Integers, Sequences, FiniteSets

CONSTANTS
    Readers,        \* HTTP requests, one server_response_reader each
    Tasks,          \* task ids, child tasks included
    Slots,
    NoTask, NoSlot, NoReader,
    Owner,          \* Owner[t]: the reader that posts t
    Parent,         \* Parent[t]: the task whose n_cmpl > 1 created t, or NoTask
    Kind,           \* "completion", "slot_action" or "instant"
    IdSlot,         \* the slot a task asks for, or NoSlot
    Posts,          \* Posts[r]: the tasks given to post_tasks(), in order
    HighPriority,   \* readers that post their one task at the front (METRICS)
    EmptyPrompt,    \* completion tasks whose prompt has no token
    MayFail,        \* tasks that the main thread may answer with an error
    MayDisconnect,  \* readers whose client may go away
    MayAbort,       \* BOOLEAN: a decode may fail for all slots at once
    MayTerminate,   \* BOOLEAN: the server may be shut down
    MaxTokens       \* bound: rounds a task may run before it must end

Ids(r) == {t \in Tasks : Owner[t] = r}
Children(t) == {c \in Tasks : Parent[c] = t}

ASSUME ModelValuesAssumption ==
    /\ NoTask \notin Tasks
    /\ NoSlot \notin Slots
    /\ NoReader \notin Readers

ASSUME FinitenessAssumption == IsFiniteSet(Tasks) /\ IsFiniteSet(Slots)

ASSUME TaskAssumption ==
    /\ Owner \in [Tasks -> Readers]
    /\ Parent \in [Tasks -> Tasks \cup {NoTask}]
    /\ Kind \in [Tasks -> {"completion", "slot_action", "instant"}]
    /\ IdSlot \in [Tasks -> Slots \cup {NoSlot}]
    /\ \A t \in Tasks : Parent[t] # NoTask =>
          /\ Parent[Parent[t]] = NoTask
          /\ Owner[Parent[t]] = Owner[t]
          /\ Kind[t] = "completion" /\ Kind[Parent[t]] = "completion"
    /\ \A t \in Tasks : Kind[t] = "slot_action" => IdSlot[t] \in Slots

\* "n_cmpl" is limited to n_parallel (server-schema.cpp:62-65), so a parent and its
\* children fit into the slots.
ASSUME FitAssumption ==
    Slots # {} /\ \A t \in Tasks : Cardinality(Children(t)) + 1 <= Cardinality(Slots)

\* A reader posts each of its top-level tasks once; children travel inside.
ASSUME PostsAssumption ==
    /\ Posts \in [Readers -> Seq(Tasks)]
    /\ \A r \in Readers :
          /\ \A i \in 1..Len(Posts[r]) :
                Owner[Posts[r][i]] = r /\ Parent[Posts[r][i]] = NoTask
          /\ \A i, j \in 1..Len(Posts[r]) : Posts[r][i] = Posts[r][j] => i = j
          /\ r \in HighPriority => Len(Posts[r]) <= 1

ASSUME BoundAssumption ==
    /\ MaxTokens \in Nat
    /\ MayAbort \in BOOLEAN
    /\ MayTerminate \in BOOLEAN

VARIABLES
    queue_tasks,          \* std::deque<server_task>
    queue_tasks_deferred, \* std::deque<server_task>: ids of deferred tasks
    running,              \* server_queue::running
    lock,                 \* reader inside the cancel loop of post(), or NoReader
    waiting_task_ids,     \* server_response::waiting_task_ids
    queue_results,        \* server_response::queue_results, split by task id
    reader_pc,            \* where each HTTP thread is in its reader's life
    id_left,              \* ids the loop of stop() still has to go over
    received_count,       \* server_response_reader::received_count
    cancelled,            \* server_response_reader::cancelled
    answered,             \* history: the terminal result a reader took for a task
    main_pc,              \* where the main thread is
    cur,                  \* the task start_loop() popped and is processing
    slot_task,            \* server_slot::task
    slot_state,           \* server_slot::state
    todo,                 \* slots update_slots() has still to visit this round
    to_release,           \* slots whose release() is the next thing main does
    return_pc,            \* where main continues after these releases
    work                  \* rounds a task has run, bounded by MaxTokens

queueVars  == <<queue_tasks, queue_tasks_deferred, running, lock>>
resultVars == <<waiting_task_ids, queue_results>>
readerVars == <<reader_pc, id_left, received_count, cancelled, answered>>
slotVars   == <<slot_task, slot_state, work>>
roundVars  == <<todo, to_release, return_pc>>
mainVars   == <<main_pc, cur>>
vars == <<queueVars, resultVars, readerVars, slotVars, roundVars, mainVars>>

-----------------------------------------------------------------------------
(* Entries of the task queue. *)

TaskEntry(t) == [type |-> "task", id |-> t]
CancelEntry(t) == [type |-> "cancel", id |-> t]
NextResponse == [type |-> "next_response", id |-> NoTask]
NoEntry == [type |-> "none", id |-> NoTask]

Entries == [type : {"task", "cancel", "next_response", "none"},
            id : Tasks \cup {NoTask}]

ResultKinds == {"partial", "final", "error"}
Terminal == {"final", "error"}

ReaderPcs == {"new", "registered", "reading", "stopping",
              "clearing", "cancelling", "posting", "done"}
MainPcs == {"loop", "process", "update", "slots", "abort", "release", "wait", "exit"}

\* erase(remove_if(..., id == id_target)): ids are unique, so at most one entry
\* goes and the ones behind it move up by one place.
EraseIndex(q, k) == [i \in 1..(Len(q) - 1) |-> IF i < k THEN q[i] ELSE q[i + 1]]

Erase(q, e) ==
    IF \E k \in 1..Len(q) : q[k] = e
    THEN EraseIndex(q, CHOOSE k \in 1..Len(q) : q[k] = e)
    ELSE q

\* server_response::send(): dropped unless somebody waits for the id.
Send(t, kind) ==
    queue_results' = [queue_results EXCEPT ![t] =
                        IF t \in waiting_task_ids THEN Append(@, kind) ELSE @]

is_processing(s) == slot_task[s] # NoTask
IdleSlots == {s \in Slots : ~is_processing(s)}

\* get_available_slot(): the requested slot if it is free, else any free slot
\* (prompt similarity and least recent use only choose among the free ones).
AvailableSlots(t) ==
    {s \in IdleSlots : IdSlot[t] = NoSlot \/ s = IdSlot[t]}

\* The id_slot field pop_deferred_task() compares: slot actions keep theirs
\* in slot_action.id_slot, so the field is -1 for them.
IdSlotField(t) == IF Kind[t] = "completion" THEN IdSlot[t] ELSE NoSlot

has_next(r) == ~cancelled[r] /\ received_count[r] < Cardinality(Ids(r))

Init ==
    /\ queue_tasks = <<>> /\ queue_tasks_deferred = <<>>
    /\ running = TRUE /\ lock = NoReader
    /\ waiting_task_ids = {}
    /\ queue_results = [t \in Tasks |-> <<>>]
    /\ reader_pc = [r \in Readers |-> "new"]
    /\ id_left = [r \in Readers |-> {}]
    /\ received_count = [r \in Readers |-> 0]
    /\ cancelled = [r \in Readers |-> FALSE]
    /\ answered = [t \in Tasks |-> "no"]
    /\ main_pc = "loop" /\ cur = NoEntry
    /\ slot_task = [s \in Slots |-> NoTask]
    /\ slot_state = [s \in Slots |-> "idle"]
    /\ todo = {} /\ to_release = {} /\ return_pc = "loop"
    /\ work = [t \in Tasks |-> 0]

-----------------------------------------------------------------------------
(* HTTP threads: server_response_reader. *)

\* post_tasks(), first half: add_waiting_task_ids()
AddWaiting(r) ==
    /\ reader_pc[r] = "new"
    /\ waiting_task_ids' = waiting_task_ids \cup Ids(r)
    /\ reader_pc' = [reader_pc EXCEPT ![r] = "registered"]
    /\ UNCHANGED <<queueVars, queue_results, id_left, received_count, cancelled,
                   answered, slotVars, roundVars, mainVars>>

\* The entries of the tasks reader r posts
NewEntries(r) == [i \in 1..Len(Posts[r]) |-> TaskEntry(Posts[r][i])]

\* post_task() and post_tasks(), second half: server_queue::post()
PostTasks(r) ==
    /\ reader_pc[r] = "registered"
    /\ lock = NoReader
    /\ queue_tasks' = IF r \in HighPriority THEN NewEntries(r) \o queue_tasks
                                            ELSE queue_tasks \o NewEntries(r)
    /\ reader_pc' = [reader_pc EXCEPT ![r] = "reading"]
    /\ UNCHANGED <<queue_tasks_deferred, running, lock, resultVars, id_left,
                   received_count, cancelled, answered, slotVars, roundVars, mainVars>>

\* Mutant: an error does not make next() call stop().
RecvResult_GoesOn(r, t) ==
    /\ reader_pc[r] = "reading"
    /\ has_next(r)
    /\ Owner[t] = r
    /\ queue_results[t] # <<>>
    /\ LET kind == Head(queue_results[t]) IN
        /\ queue_results' = [queue_results EXCEPT ![t] = Tail(@)]
        /\ answered' = IF kind \in Terminal THEN [answered EXCEPT ![t] = kind]
                                            ELSE answered
        /\ received_count' = IF kind \in Terminal
                             THEN [received_count EXCEPT ![r] = @ + 1]
                             ELSE received_count
    /\ UNCHANGED <<queueVars, waiting_task_ids, reader_pc, id_left, cancelled,
                   slotVars, roundVars, mainVars>>

\* next(): recv_with_timeout() takes the first result of one of the ids; an
\* error makes next() call stop(), a terminal result is counted.
RecvResult(r, t) ==
    /\ reader_pc[r] = "reading"
    /\ has_next(r)
    /\ Owner[t] = r
    /\ queue_results[t] # <<>>
    /\ LET kind == Head(queue_results[t]) IN
        /\ queue_results' = [queue_results EXCEPT ![t] = Tail(@)]
        /\ answered' = IF kind \in Terminal THEN [answered EXCEPT ![t] = kind]
                                            ELSE answered
        /\ received_count' = IF kind = "final"
                             THEN [received_count EXCEPT ![r] = @ + 1]
                             ELSE received_count
        /\ reader_pc' = IF kind = "error"
                        THEN [reader_pc EXCEPT ![r] = "stopping"]
                        ELSE reader_pc
    /\ UNCHANGED <<queueVars, waiting_task_ids, id_left, cancelled,
                   slotVars, roundVars, mainVars>>

\* recv_with_timeout() timed out and should_stop() holds: the client is gone
\* and the handler destroys the reader, which calls stop().
Disconnect(r) ==
    /\ r \in MayDisconnect
    /\ reader_pc[r] = "reading"
    /\ has_next(r)
    /\ reader_pc' = [reader_pc EXCEPT ![r] = "stopping"]
    /\ UNCHANGED <<queueVars, resultVars, id_left, received_count, cancelled,
                   answered, slotVars, roundVars, mainVars>>

\* Every result was taken: the handler returns and destroys the reader.
AllReceived(r) ==
    /\ reader_pc[r] = "reading"
    /\ ~has_next(r)
    /\ reader_pc' = [reader_pc EXCEPT ![r] = "stopping"]
    /\ UNCHANGED <<queueVars, resultVars, id_left, received_count, cancelled,
                   answered, slotVars, roundVars, mainVars>>

\* stop(): remove_waiting_task_ids(), then the has_next() test
StopWaiting(r) ==
    /\ reader_pc[r] = "stopping"
    /\ waiting_task_ids' = waiting_task_ids \ Ids(r)
    /\ cancelled' = [cancelled EXCEPT ![r] = has_next(r) \/ @]
    /\ id_left' = [id_left EXCEPT ![r] = IF has_next(r) THEN Ids(r) ELSE {}]
    /\ reader_pc' = [reader_pc EXCEPT ![r] = IF has_next(r) THEN "clearing" ELSE "done"]
    /\ UNCHANGED <<queueVars, queue_results, received_count, answered,
                   slotVars, roundVars, mainVars>>

\* Mutant: remove_waiting_task_id() forgets the results already queued.
ClearResults_KeepsResults(r, t) ==
    /\ reader_pc[r] = "clearing"
    /\ t \in id_left[r]
    /\ waiting_task_ids' = waiting_task_ids \ {t}
    /\ id_left' = [id_left EXCEPT ![r] = @ \ {t}]
    /\ reader_pc' = IF id_left[r] = {t} THEN [reader_pc EXCEPT ![r] = "cancelling"]
                                        ELSE reader_pc
    /\ UNCHANGED <<queueVars, queue_results, received_count, cancelled, answered,
                   slotVars, roundVars, mainVars>>

\* stop(), loop over id_tasks: remove_waiting_task_id() also drops the results
ClearResults(r, t) ==
    /\ reader_pc[r] = "clearing"
    /\ t \in id_left[r]
    /\ waiting_task_ids' = waiting_task_ids \ {t}
    /\ queue_results' = [queue_results EXCEPT ![t] = <<>>]
    /\ id_left' = [id_left EXCEPT ![r] = @ \ {t}]
    /\ reader_pc' = IF id_left[r] = {t} THEN [reader_pc EXCEPT ![r] = "cancelling"]
                                        ELSE reader_pc
    /\ UNCHANGED <<queueVars, received_count, cancelled, answered,
                   slotVars, roundVars, mainVars>>

\* stop(): post(cancel_tasks, front = true) takes mutex_tasks ...
LockForCancel(r) ==
    /\ reader_pc[r] = "cancelling"
    /\ lock = NoReader
    /\ lock' = r
    /\ id_left' = [id_left EXCEPT ![r] = Ids(r)]
    /\ reader_pc' = [reader_pc EXCEPT ![r] = "posting"]
    /\ UNCHANGED <<queue_tasks, queue_tasks_deferred, running, resultVars,
                   received_count, cancelled, answered, slotVars, roundVars, mainVars>>

\* ... and for each cancel task runs cleanup_pending_task() and push_front()
PostCancel(r, t) ==
    /\ reader_pc[r] = "posting"
    /\ t \in id_left[r]
    /\ queue_tasks' = <<CancelEntry(t)>> \o Erase(queue_tasks, TaskEntry(t))
    /\ queue_tasks_deferred' = Erase(queue_tasks_deferred, t)
    /\ id_left' = [id_left EXCEPT ![r] = @ \ {t}]
    /\ lock' = IF id_left[r] = {t} THEN NoReader ELSE lock
    /\ reader_pc' = IF id_left[r] = {t} THEN [reader_pc EXCEPT ![r] = "done"]
                                        ELSE reader_pc
    /\ UNCHANGED <<running, resultVars, received_count, cancelled, answered,
                   slotVars, roundVars, mainVars>>

ReaderStep(r) ==
    \/ AddWaiting(r) \/ PostTasks(r)
    \/ \E t \in Tasks : RecvResult(r, t)
    \/ AllReceived(r)
    \/ StopWaiting(r)
    \/ \E t \in Tasks : ClearResults(r, t)
    \/ LockForCancel(r)
    \/ \E t \in Tasks : PostCancel(r, t)

-----------------------------------------------------------------------------
(* The main thread: server_queue::start_loop(). *)

PopTask ==
    /\ main_pc = "loop" /\ lock = NoReader /\ running
    /\ queue_tasks # <<>>
    /\ cur' = Head(queue_tasks)
    /\ queue_tasks' = Tail(queue_tasks)
    /\ main_pc' = "process"
    /\ UNCHANGED <<queue_tasks_deferred, running, lock, resultVars, readerVars,
                   slotVars, roundVars>>

\* The queue is empty: leave the inner loop for callback_update_slots()
QueueEmpty ==
    /\ main_pc = "loop" /\ lock = NoReader /\ running
    /\ queue_tasks = <<>>
    /\ main_pc' = "update"
    /\ UNCHANGED <<queueVars, resultVars, readerVars, slotVars, roundVars, cur>>

LoopExit ==
    /\ main_pc = "loop" /\ lock = NoReader /\ ~running
    /\ main_pc' = "exit"
    /\ UNCHANGED <<queueVars, resultVars, readerVars, slotVars, roundVars, cur>>

\* Waiting for new tasks ends when there is one or the server stops.
WaitEnd ==
    /\ main_pc = "wait" /\ lock = NoReader
    /\ queue_tasks # <<>> \/ ~running
    /\ main_pc' = "loop"
    /\ UNCHANGED <<queueVars, resultVars, readerVars, slotVars, roundVars, cur>>

terminate ==
    /\ MayTerminate /\ running /\ lock = NoReader
    /\ running' = FALSE
    /\ UNCHANGED <<queue_tasks, queue_tasks_deferred, lock, resultVars, readerVars,
                   slotVars, roundVars, mainVars>>

-----------------------------------------------------------------------------
(* process_single_task() *)

\* The popped entry is task t.
Processing(t) == main_pc = "process" /\ cur = TaskEntry(t)

BackToLoop == main_pc' = "loop" /\ cur' = NoEntry

\* queue_tasks.defer()
Defer(t) ==
    /\ lock = NoReader
    /\ queue_tasks_deferred' = Append(queue_tasks_deferred, t)
    /\ BackToLoop
    /\ UNCHANGED <<queue_tasks, running, lock, resultVars, readerVars, slotVars, roundVars>>

\* The task is answered on the spot and forgotten.
Answer(t, kind) ==
    /\ Send(t, kind)
    /\ BackToLoop
    /\ UNCHANGED <<queueVars, waiting_task_ids, readerVars, slotVars, roundVars>>

\* A completion with no usable slot, or with too few for its child tasks.
DeferCompletion(t) ==
    /\ Processing(t) /\ Kind[t] = "completion"
    /\ \/ AvailableSlots(t) = {}
       \/ Cardinality(IdleSlots) < Cardinality(Children(t)) + 1
    /\ Defer(t)

\* The ways to put the tasks of `ids` on free slots, one each.
Placements(ids) ==
    {g \in [ids -> IdleSlots] : \A a, b \in ids : g[a] = g[b] => a = b}

\* launch_slot_with_task() for every task in the domain of g: a child waits for
\* its parent's prompt, a top-level task is started.
Launch(g) ==
    /\ slot_task' = [s \in Slots |->
                       IF \E t \in DOMAIN g : g[t] = s
                       THEN CHOOSE t \in DOMAIN g : g[t] = s ELSE slot_task[s]]
    /\ slot_state' = [s \in Slots |->
                       IF \E t \in DOMAIN g : g[t] = s
                       THEN IF Parent[CHOOSE t \in DOMAIN g : g[t] = s] # NoTask
                            THEN "wait_other" ELSE "started"
                       ELSE slot_state[s]]
    /\ UNCHANGED work

LaunchCompletion(t) ==
    /\ Processing(t) /\ Kind[t] = "completion"
    /\ \E g \in Placements({t} \cup Children(t)) :
          /\ g[t] \in AvailableSlots(t)
          /\ Launch(g)
    /\ BackToLoop
    /\ UNCHANGED <<queueVars, resultVars, readerVars, roundVars>>

\* launch_slots_with_parent_task(): children are launched first; when task u (a
\* child or t itself) cannot be launched its error is sent, the children
\* launched so far are released and the task is dropped.
LaunchFails(t) ==
    /\ Processing(t) /\ Kind[t] = "completion"
    /\ AvailableSlots(t) # {}
    /\ Cardinality(IdleSlots) >= Cardinality(Children(t)) + 1
    /\ \E u \in ({t} \cup Children(t)) \cap MayFail :
       \E launched \in SUBSET (Children(t) \ {u}) :
       \E g \in Placements(launched) :
          /\ u = t => launched = Children(t)
          /\ Launch(g)
          /\ Send(u, "error")
          /\ to_release' = {g[c] : c \in launched}
    /\ return_pc' = "loop"
    /\ main_pc' = "release" /\ cur' = NoEntry
    /\ UNCHANGED <<queueVars, waiting_task_ids, readerVars, todo>>

\* Errors sent before any slot is looked at: tokenize_cli_input() and
\* check_slot_no_media().
RejectTask(t) ==
    /\ Processing(t) /\ t \in MayFail
    /\ Kind[t] # "instant"
    /\ Answer(t, "error")

\* SLOT_SAVE, SLOT_RESTORE, SLOT_ERASE
DeferSlotAction(t) ==
    /\ Processing(t) /\ Kind[t] = "slot_action"
    /\ is_processing(IdSlot[t])
    /\ Defer(t)

DoSlotAction(t) ==
    /\ Processing(t) /\ Kind[t] = "slot_action"
    /\ ~is_processing(IdSlot[t])
    /\ Answer(t, "final")

\* METRICS, CONTROL, GET_LORA, SET_LORA
DoInstant(t) ==
    /\ Processing(t) /\ Kind[t] = "instant"
    /\ Answer(t, "final")

ProcessNextResponse ==
    /\ main_pc = "process" /\ cur = NextResponse
    /\ BackToLoop
    /\ UNCHANGED <<queueVars, resultVars, readerVars, slotVars, roundVars>>

\* Mutant: CANCEL looks only at slots that already generate.
ProcessCancel_OnlyGenerating(t) ==
    /\ main_pc = "process" /\ cur = CancelEntry(t)
    /\ to_release' = {s \in Slots : slot_task[s] = t /\ slot_state[s] = "generating"}
    /\ return_pc' = "loop"
    /\ main_pc' = "release" /\ cur' = NoEntry
    /\ UNCHANGED <<queueVars, resultVars, readerVars, slotVars, todo>>

\* CANCEL: release the slot that runs the target, if there is one.
ProcessCancel(t) ==
    /\ main_pc = "process" /\ cur = CancelEntry(t)
    /\ to_release' = {s \in Slots : slot_task[s] = t}
    /\ return_pc' = "loop"
    /\ main_pc' = "release" /\ cur' = NoEntry
    /\ UNCHANGED <<queueVars, resultVars, readerVars, slotVars, todo>>

\* pop_deferred_task(): the first deferred task that asked for slot s, else the
\* first one, goes to the front of the queue.
PopDeferredIndex(s) ==
    IF \E i \in 1..Len(queue_tasks_deferred) : IdSlotField(queue_tasks_deferred[i]) = s
    THEN CHOOSE i \in 1..Len(queue_tasks_deferred) :
            /\ IdSlotField(queue_tasks_deferred[i]) = s
            /\ \A j \in 1..(i - 1) : IdSlotField(queue_tasks_deferred[j]) # s
    ELSE 1

\* Mutant: the deferred task is copied to the queue, not moved.
PopDeferredTask_Copies(s) ==
    /\ lock = NoReader
    /\ queue_tasks' = IF queue_tasks_deferred = <<>> THEN queue_tasks
                      ELSE <<TaskEntry(queue_tasks_deferred[PopDeferredIndex(s)])>> \o queue_tasks
    /\ UNCHANGED <<queue_tasks_deferred, running, lock>>

\* Mutant: only tasks that asked for the released slot come back.
PopDeferredTask_OnlySameSlot(s) ==
    /\ lock = NoReader
    /\ LET i == PopDeferredIndex(s) IN
       IF queue_tasks_deferred = <<>> \/ IdSlotField(queue_tasks_deferred[i]) # s
       THEN UNCHANGED <<queue_tasks, queue_tasks_deferred>>
       ELSE /\ queue_tasks' = <<TaskEntry(queue_tasks_deferred[i])>> \o queue_tasks
            /\ queue_tasks_deferred' = EraseIndex(queue_tasks_deferred, i)
    /\ UNCHANGED <<running, lock>>

PopDeferredTask(s) ==
    /\ lock = NoReader
    /\ IF queue_tasks_deferred = <<>>
       THEN UNCHANGED <<queue_tasks, queue_tasks_deferred>>
       ELSE LET i == PopDeferredIndex(s) IN
            /\ queue_tasks' = <<TaskEntry(queue_tasks_deferred[i])>> \o queue_tasks
            /\ queue_tasks_deferred' = EraseIndex(queue_tasks_deferred, i)
    /\ UNCHANGED <<running, lock>>

\* Mutant: release() drops the task but not the state.
Release_KeepsState(s) ==
    /\ main_pc = "release" /\ s \in to_release
    /\ slot_task' = [slot_task EXCEPT ![s] = NoTask]
    /\ to_release' = to_release \ {s}
    /\ PopDeferredTask(s)
    /\ UNCHANGED <<slot_state, resultVars, readerVars, work, todo, return_pc, mainVars>>

\* server_slot::release() of one of the slots main has to release
Release(s) ==
    /\ main_pc = "release" /\ s \in to_release
    /\ slot_task' = [slot_task EXCEPT ![s] = NoTask]
    /\ slot_state' = [slot_state EXCEPT ![s] = "idle"]
    /\ to_release' = to_release \ {s}
    /\ PopDeferredTask(s)
    /\ UNCHANGED <<resultVars, readerVars, work, todo, return_pc, mainVars>>

Released ==
    /\ main_pc = "release" /\ to_release = {}
    /\ main_pc' = return_pc
    /\ UNCHANGED <<queueVars, resultVars, readerVars, slotVars, roundVars, cur>>

-----------------------------------------------------------------------------
(* update_slots() *)

AllIdle ==
    /\ main_pc = "update" /\ IdleSlots = Slots
    /\ main_pc' = "wait"
    /\ UNCHANGED <<queueVars, resultVars, readerVars, slotVars, roundVars, cur>>

\* Slots pre_decode() may put in the batch of this round.
Batchable == {s \in Slots : slot_state[s] \in {"started", "generating"}}

\* NEXT_RESPONSE keeps the loop going; a round takes at least one of the
\* batchable slots (slots that cannot be batched together take turns).
UpdateSlots ==
    /\ main_pc = "update" /\ IdleSlots # Slots
    /\ lock = NoReader
    /\ queue_tasks' = Append(queue_tasks, NextResponse)
    /\ todo' \in SUBSET Batchable
    /\ Batchable # {} => todo' # {}
    /\ main_pc' = "slots"
    /\ UNCHANGED <<queue_tasks_deferred, running, lock, resultVars, readerVars,
                   slotVars, to_release, return_pc, cur>>

\* The round only moves slot s forward: part of a prompt, or a token that is
\* not the last; with streaming a partial result is sent.
SlotContinues(s) ==
    /\ main_pc = "slots" /\ s \in todo
    /\ work[slot_task[s]] < MaxTokens
    /\ work' = [work EXCEPT ![slot_task[s]] = @ + 1]
    /\ \/ Send(slot_task[s], "partial")
       \/ UNCHANGED queue_results
    /\ todo' = todo \ {s}
    /\ UNCHANGED <<queueVars, waiting_task_ids, readerVars, slot_task, slot_state,
                   to_release, return_pc, mainVars>>

\* Mutant: the children of a processed prompt are not activated.
PromptDone_ForgetsChildren(s) ==
    /\ main_pc = "slots" /\ s \in todo
    /\ slot_state[s] = "started" /\ slot_task[s] \notin EmptyPrompt
    /\ slot_state' = [slot_state EXCEPT ![s] = "generating"]
    /\ UNCHANGED <<queueVars, resultVars, readerVars, slot_task, work, roundVars, mainVars>>

\* The prompt of slot s is decoded: decode() activates the children that wait
\* for it, and post_decode() samples for all of them in this round.
PromptDone(s) ==
    /\ main_pc = "slots" /\ s \in todo
    /\ slot_state[s] = "started" /\ slot_task[s] \notin EmptyPrompt
    /\ LET ready == {c \in Slots : /\ slot_state[c] = "wait_other"
                                   /\ Parent[slot_task[c]] = slot_task[s]} IN
        /\ slot_state' = [c \in Slots |-> IF c = s \/ c \in ready THEN "generating"
                                                                  ELSE slot_state[c]]
        /\ todo' = todo \cup ready
    /\ UNCHANGED <<queueVars, resultVars, readerVars, slot_task, work,
                   to_release, return_pc, mainVars>>

\* Mutant: the terminal result is sent but the slot goes on.
EndSlot_NoRelease(s, kind) ==
    /\ Send(slot_task[s], kind)
    /\ to_release' = {}
    /\ return_pc' = main_pc
    /\ main_pc' = "release"
    /\ todo' = todo \ {s}
    /\ UNCHANGED <<queueVars, waiting_task_ids, readerVars, slotVars, cur>>

\* A terminal result is sent for slot s and the slot released.
EndSlot(s, kind) ==
    /\ Send(slot_task[s], kind)
    /\ to_release' = {s}
    /\ return_pc' = main_pc
    /\ main_pc' = "release"
    /\ todo' = todo \ {s}
    /\ UNCHANGED <<queueVars, waiting_task_ids, readerVars, slotVars, cur>>

\* Generation ends, or the prompt was empty and there is nothing to decode.
SlotFinishes(s) ==
    /\ main_pc = "slots" /\ s \in todo
    /\ \/ slot_state[s] = "generating"
       \/ slot_state[s] = "started" /\ slot_task[s] \in EmptyPrompt
    /\ EndSlot(s, "final")

SlotFails(s) ==
    /\ main_pc = "slots" /\ s \in todo
    /\ slot_task[s] \in MayFail
    /\ EndSlot(s, "error")

\* abort_all_slots(), and the error path of decode()
AbortAllSlots ==
    /\ MayAbort /\ main_pc = "slots"
    /\ main_pc' = "abort"
    /\ todo' = Slots \ IdleSlots
    /\ UNCHANGED <<queueVars, resultVars, readerVars, slotVars, to_release, return_pc, cur>>

AbortSlot(s) ==
    /\ main_pc = "abort" /\ s \in todo
    /\ EndSlot(s, "error")

RoundEnd ==
    /\ main_pc \in {"slots", "abort"} /\ todo = {}
    /\ main_pc' = "wait"
    /\ UNCHANGED <<queueVars, resultVars, readerVars, slotVars, roundVars, cur>>

-----------------------------------------------------------------------------
ProcessTask(t) ==
    \/ DeferCompletion(t) \/ LaunchCompletion(t) \/ LaunchFails(t) \/ RejectTask(t)
    \/ DeferSlotAction(t) \/ DoSlotAction(t) \/ DoInstant(t) \/ ProcessCancel(t)

SlotStep(s) ==
    \/ SlotContinues(s) \/ PromptDone(s) \/ SlotFinishes(s) \/ SlotFails(s)
    \/ AbortSlot(s) \/ Release(s)

MainStep ==
    \/ PopTask \/ QueueEmpty \/ LoopExit \/ WaitEnd
    \/ \E t \in Tasks : ProcessTask(t)
    \/ ProcessNextResponse
    \/ AllIdle \/ UpdateSlots \/ AbortAllSlots \/ RoundEnd \/ Released
    \/ \E s \in Slots : SlotStep(s)

Next ==
    \/ \E r \in Readers : ReaderStep(r) \/ Disconnect(r)
    \/ MainStep
    \/ terminate

Spec == Init /\ [][Next]_vars

\* The OS runs every thread that can run; clients need not ever go away and
\* nobody has to stop the server.
FairSpec == Spec /\ WF_vars(MainStep) /\ \A r \in Readers : WF_vars(ReaderStep(r))

-----------------------------------------------------------------------------
(* Properties *)

\* Types, and the pieces of state that are two views of one fact: a slot has a
\* task exactly while it is processing (release() asserts it), the main thread
\* holds a popped task only between pop and callback, mutex_tasks is held by the
\* reader inside the cancel loop of post(), and only slots that process something
\* are visited or released by a round.
TypeOK ==
    /\ queue_tasks \in Seq(Entries)
    /\ queue_tasks_deferred \in Seq(Tasks)
    /\ running \in BOOLEAN
    /\ lock \in Readers \cup {NoReader}
    /\ waiting_task_ids \in SUBSET Tasks
    /\ queue_results \in [Tasks -> Seq(ResultKinds)]
    /\ reader_pc \in [Readers -> ReaderPcs]
    /\ id_left \in [Readers -> SUBSET Tasks]
    /\ received_count \in [Readers -> Nat]
    /\ cancelled \in [Readers -> BOOLEAN]
    /\ answered \in [Tasks -> {"no"} \cup Terminal]
    /\ main_pc \in MainPcs
    /\ cur \in Entries
    /\ slot_task \in [Slots -> Tasks \cup {NoTask}]
    /\ slot_state \in [Slots -> {"idle", "wait_other", "started", "generating"}]
    /\ todo \in SUBSET Slots
    /\ to_release \in SUBSET Slots
    /\ return_pc \in {"loop", "slots", "abort"}
    /\ work \in [Tasks -> Nat]
    /\ \A s \in Slots : slot_state[s] = "idle" <=> slot_task[s] = NoTask
    /\ main_pc = "process" \/ cur = NoEntry
    /\ \A r \in Readers : reader_pc[r] = "posting" <=> lock = r
    /\ main_pc = "release" \/ to_release = {}
    /\ \A s \in todo \cup to_release : slot_task[s] # NoTask
    /\ todo \cap to_release = {}
    /\ \/ main_pc \in {"slots", "abort"}
       \/ main_pc = "release" /\ return_pc # "loop"
       \/ todo = {}

Occurs(e, q) == \E i \in 1..Len(q) : q[i] = e
AtMostOnce(e, q) == \A i, j \in 1..Len(q) : q[i] = e /\ q[j] = e => i = j

Queued(t) == Occurs(TaskEntry(t), queue_tasks)
Deferred(t) == Occurs(t, queue_tasks_deferred)
RunsOn(t, s) == slot_task[s] = t
Runs(t) == \E s \in Slots : RunsOn(t, s)

\* Not yet given a slot: in one of the queues or in the hands of the main thread.
Pending(t) == Queued(t) \/ Deferred(t) \/ Processing(t)

\* A task id is in at most one place at a time: once in queue_tasks, or once in
\* queue_tasks_deferred, or popped, or on one slot; and a child runs only once its
\* parent has left the queues.  post(), defer(), pop_deferred_task() and
\* launch_slot_with_task() move the task object and must neither copy nor lose it.
OnePlace ==
    /\ \A t \in Tasks :
          /\ AtMostOnce(TaskEntry(t), queue_tasks)
          /\ AtMostOnce(t, queue_tasks_deferred)
          /\ Queued(t) => ~Deferred(t) /\ ~Processing(t)
          /\ Deferred(t) => ~Processing(t)
          /\ Runs(t) => ~Pending(t)
          /\ Runs(t) /\ Parent[t] # NoTask => ~Pending(Parent[t])
    /\ \A x, y \in Slots : slot_task[x] # NoTask /\ slot_task[x] = slot_task[y] => x = y

HasTerminal(t) ==
    answered[t] # "no" \/ \E i \in 1..Len(queue_results[t]) : queue_results[t][i] \in Terminal

\* Nothing can send for t any more: it is nowhere in the pipeline except on a slot
\* that is being released.
Settled(t) ==
    /\ ~Pending(t)
    /\ Parent[t] # NoTask => ~Pending(Parent[t])
    /\ \A s \in Slots : RunsOn(t, s) => main_pc = "release" /\ s \in to_release

\* Once a terminal result (final or error) of a task was sent to its reader,
\* nothing follows it: no further result is queued and the task is settled.
\* This is what wait_for_all() asserts as "duplicate result received" and what
\* makes received_count a count of tasks.
AnswerOnce ==
    \A t \in Tasks :
        /\ answered[t] # "no" => queue_results[t] = <<>>
        /\ \A i \in 1..Len(queue_results[t]) :
              queue_results[t][i] \in Terminal => i = Len(queue_results[t])
        /\ HasTerminal(t) => Settled(t)

\* When stop() has returned, server_response keeps nothing for the reader: no id
\* waits and no result is left that nobody would ever take
\* (remove_waiting_task_id: "make sure to clean up all pending results").
NoLeakedResults ==
    \A r \in Readers : reader_pc[r] = "done" =>
        \A t \in Ids(r) : t \notin waiting_task_ids /\ queue_results[t] = <<>>

\* The next two predicates make AnswerOnce and NoLeakedResults inductive.
Posted(r) == reader_pc[r] \notin {"new", "registered"}

\* Only tasks some reader posted are in the pipeline, and children enter it with
\* their parent's launch.
TasksPosted ==
    \A t \in Tasks :
        /\ Pending(t) => Parent[t] = NoTask
        /\ Pending(t) \/ Runs(t) => Posted(Owner[t])

\* What each phase of a reader implies for its ids: results are there only while
\* the id waits or stop() has still to erase them, and the count is right.
ReaderPhases ==
    \A r \in Readers :
        /\ id_left[r] \subseteq Ids(r)
        /\ cancelled[r] => reader_pc[r] \in {"clearing", "cancelling", "posting", "done"}
        /\ received_count[r] = Cardinality({t \in Ids(r) : answered[t] = "final"})
        /\ \A t \in Ids(r) :
              /\ t \in waiting_task_ids => reader_pc[r] \in {"registered", "reading", "stopping"}
              /\ queue_results[t] # <<>> =>
                    t \in waiting_task_ids \/ (reader_pc[r] = "clearing" /\ t \in id_left[r])
              /\ ~Posted(r) => answered[t] = "no" /\ queue_results[t] = <<>>

\* The request of reader r as its handler sees it: open from the registration of
\* its ids until stop() has unregistered them.
RequestStatus(r) ==
    IF reader_pc[r] = "new" THEN "new"
    ELSE IF reader_pc[r] \in {"registered", "reading", "stopping"} THEN "open"
    ELSE "closed"

\* Results that stop() has still to erase belong to nobody any more.
Mailbox(t) == IF t \in waiting_task_ids THEN queue_results[t] ELSE <<>>

Request == INSTANCE ServerRequest WITH
    Requests <- Readers,
    status <- [r \in Readers |-> RequestStatus(r)],
    box <- [t \in Tasks |-> Mailbox(t)],
    answer <- answered

\* The two queues, the slots and the main thread together implement the promise
\* of server_response_reader (server-queue.h): whatever is deferred, cancelled,
\* aborted or shut down, a handler sees replies only while its request is open,
\* at most one terminal reply per task and nothing after it, takes nothing after
\* an error, and is closed only when it is complete, failed or left by its client.
ImplementsRequest == Request!RSpec

\* stop() was called before all results of reader r had arrived.
Withdrawn(r) == cancelled[r] \/ (reader_pc[r] = "stopping" /\ has_next(r))

\* Task t was answered with an error, belongs to a request that was given up, or was
\* an action on a slot, which is served without taking one.
GaveUp(t) ==
    \/ Withdrawn(Owner[t])
    \/ Occurs("error", queue_results[t])
    \/ Kind[t] = "slot_action" /\ HasTerminal(t)

\* A task is deferred "until one slot is available" (server-queue.h).  release() brings
\* back one deferred task only, so the others wait for that task to take a slot and
\* to release it in its turn.  This suffices unless some task gave up: while the main
\* thread sleeps on an empty queue with all slots idle, no task is deferred, or a
\* task failed, was cancelled or took no slot and left the others behind.
DeferredWaitForSlot ==
    main_pc = "wait" /\ queue_tasks = <<>> /\ queue_tasks_deferred # <<>>
        => IdleSlots # Slots \/ \E t \in Tasks : GaveUp(t)

\* Every request that was registered comes to an end: its results arrive, or it
\* is stopped, and stop() returns.
EveryRequestEnds ==
    \A r \in Readers : reader_pc[r] = "registered" ~> reader_pc[r] = "done"

\* A slot never stays with a task whose reader is gone: the cancel task, or the
\* end of the task itself, gives the slot back.
AbandonedSlotsFreed ==
    \A t \in Tasks : (reader_pc[Owner[t]] = "done" /\ Runs(t)) ~> ~Runs(t)

\* A child slot leaves SLOT_STATE_WAIT_OTHER: its parent's prompt activates it or
\* it is released.
ChildrenLeaveWait ==
    \A s \in Slots : slot_state[s] = "wait_other" ~> slot_state[s] # "wait_other"
=============================================================================
