# TLA+ verification of the inference server and its libraries

The repository is a fork of llama.cpp: a tensor library (`ggml/`), an inference library (`src/`, `common/`) and
tools on top, the largest of which is the HTTP server in `tools/server`.  This project models the parts whose
correctness depends on the order in which threads, requests, failures and crashes meet: the server's task queue, its
sleeping state and its resumable streams, the cells of the attention cache, the asynchronous log and the files of the
vector index.  It checks them with TLC on small instances and proves their central safety properties with TLAPS for instances of any size.

`PROJECT.json` holds the machine-readable side: components, runs, mutants, the map from definitions to source
lines, findings, hazards and theorems.

## 1. Inventory

### The request path (modelled: `ServerQueue`)

*Threads.* Every HTTP request runs on a worker thread of the HTTP library; one main thread runs
`server_queue::start_loop()` and owns the model, the slots and the batch.

| Component | State | Operations |
|---|---|---|
| `server_queue` | `queue_tasks`, `queue_tasks_deferred`, `running`, one mutex and condition variable | `post`, `defer`, `pop_deferred_task`, `cleanup_pending_task`, `start_loop`, `terminate`, sleeping |
| `server_response` | `waiting_task_ids`, `queue_results`, a second mutex | `add_waiting_task_ids`, `remove_waiting_task_id(s)`, `send`, `recv_with_timeout` |
| `server_response_reader` | its ids, `received_count`, `cancelled` | `post_tasks`, `next`, `wait_for_all`, `stop` (from the destructor) |
| `server_context_impl` | slots, the batch, `callback_on_release` | `process_single_task`, slot choice, launch, `update_slots`, `abort_all_slots` |
| `server_slot` | `state`, `task`, prompt, sampler | `release`, prompt processing, sampling, `copy_state_to` |

*Interaction.* A worker registers its task ids in `server_response`, posts the tasks, and polls for results.  The
main thread pops a task and either answers it, gives it a slot or defers it.  A slot that is released calls back
into `server_queue::pop_deferred_task()`, which moves one deferred task to the front of the queue.  A worker that
stops early unregisters its ids, erases their results and posts one CANCEL task per id, at the front of the queue.
A request for several completions of one prompt (`n_cmpl > 1`) is a parent task that carries its children; they
take a slot each and wait for the parent's prompt.

*What is hard.* Two mutexes that are never held together, with the life of a task split over both; a window in
which the main thread holds a task that is in no queue; wake-ups that depend on a slot being released; launches
that fail half way; clients that leave at any moment.

*Correctness.* A task is in one place at a time and is answered at most once; a reader that is gone leaves
nothing behind; deferred tasks come back; children are activated; every request ends.

### Resumable streams (modelled: `ServerStream`)

| Component | State | Operations |
|---|---|---|
| `stream_session` | byte ring, `prefix_dropped`, `done`, `cancelled`, `completed_ts` | `append`, `finalize`, `read_from`, `cancel` |
| `stream_session_manager` | map conversation -> session, GC thread | `create_or_replace`, `get`, `evict`, `evict_and_cancel`, `gc_loop`, `stop_gc` |
| `server_res_spipe`, `stream_pipe_producer` | the session of a POST | `set_req`, `set_next` (tee), `on_complete` (drain), destructor |
| GET and DELETE handlers | the session a GET holds and its offset | check of the offset, blocking read loop; evict and cancel |

*Interaction.* A POST with a conversation id installs a session and copies everything it streams into its ring;
when its client leaves, the worker goes on into the ring alone.  A GET replays the ring from an offset and blocks
for more; a DELETE, a newer POST of the conversation, the GC or the shutdown take the session out of the map and
finalize it after the map's mutex has been released.

*What is hard.* The ring moves while readers are between two reads; whoever removes a session from the map
finalizes it later; two requests of one conversation overlap; the shutdown order.

*Correctness.* Offsets keep naming the same bytes; no replay skips or repeats one; a removed session is finalized
and no reader waits for ever; at most one live session per conversation; the tail survives a disconnect.

### Cells of the attention cache (modelled: `KvCells`)

| Component | State | Operations |
|---|---|---|
| `llama_kv_cells` | `pos`, `seq`, `used`, `seq_pos`, `shift`, `has_shift` | `reset`, `reset_shift`, `rm`, `seq_rm`, `seq_keep`, `seq_add`, `pos_set`, `pos_add`, `pos_div`, `cp`, `set` |

*Interaction.* `llama_kv_cache` calls these methods cell by cell.  `prepare()` places the micro-batches on trial and
puts the cells back; `update()` rotates the keys of every cell by its shift and then forgets the shifts.

*What is hard.* The same facts in six containers, updated by hand in each method; a position may occur several times
in a sequence; a shift may empty a cell half way through; the key data follows later than the positions.  The header
says "TODO: add unit tests".

*Correctness.* Counts and used set agree with the cells; no empty or saved cell has a pending shift; the pending
shift is how far the position has moved.

### Sleeping (modelled: `ServerSleep`)

*State.* `sleeping`, `req_stop_sleeping`, `time_last_task` and `running` of `server_queue`, under `mutex_tasks`; the
model, which `on_sleeping_changed` destroys and loads again.

*Operations.* The gate `wait_until_no_sleep()`, which every request passes before it tokenizes; the timed wait of
`start_loop()`, the fall into sleep, its end and its end by shutdown.

*What is hard.* The main thread and any number of requests wait on one condition variable and are woken with
`notify_one()`; a request is between the gate and its post when the idle time passes.

*Correctness.* Nobody works without the model; every request gets through the gate; the wake-up reaches the main
thread; a task that is queued is processed.

### Asynchronous log (modelled: `CommonLog`)

*State.* A ring of entries with `head` and `tail`, `running`, the worker's snapshot, two condition variables.

*Operations.* `add()`, which blocks while the ring is full and discards while it is paused; the worker's loop with
`flush_queue()`; `pause()`, which pushes an end entry and joins the worker; `resume()`.

*What is hard.* The worker prints without the mutex; adders blocked on a full ring meet a pause; the end entry goes
into the same ring.

*Correctness.* Messages are printed once and in order; no slot is overwritten before it is printed; after a pause
everything accepted is out; nobody is blocked for ever.

### Vector index persistence (modelled: `VectorIndexLog`)

| Component | State | Operations |
|---|---|---|
| snapshot (`.tvim`) | the entries of the index | write to a temporary file, sync, rename, sync of the directory |
| delta log (`.tvid`) | header with the state it extends, records with the state they lead to | append, cut off a torn tail, empty, new header |
| handle (`ggml_vec_index`) | entries, `delta_log_reload_required`, `delta_log_rebase_*` | load, load with log, `add_logged`, `remove_logged`, `compact_delta`, free |

*Interaction.* Handles, in one process or several, share only the files; the lock of the log keeps their calls apart.
Loading replays the log on the snapshot from the record that leads to the snapshot's state.  A handle that is behind
replays what it misses before it mutates.

*What is hard.* Two files that are replaced one after the other; every write, truncation, rename and sync may fail, as
may the undo of a failed append; kills and power losses between any two of them; writers that are stale.

*Correctness.* A mutation that returned OK survives; snapshot and log always fit together; no update is applied to a
stale state; a handle that stays usable agrees with the files.

### Not modelled yet, worth modelling

* *Slot work* (`server-context.cpp`, `pre_decode`, `decode`, `post_decode`): prompt cache and checkpoints, context
  shift, batch limits, retry with smaller batches, speculative drafts.  Sequential, but with long state sequences.
* *Attention KV cache above the cells* (`src/llama-kv-cache.cpp`): slot search, micro-batches, streams, sliding
  windows.  `prepare()` restores the heads by position in the micro-batch (`v_heads_old[s]`), not by stream, and the
  purge of a sliding window removes cells that no save covers.
* *Router* (`tools/server/server-models.cpp`): child server processes, their states and the threads that watch them.
* *CPU thread pool* (`ggml/src/ggml-cpu/ggml-cpu.c`), *graph allocator* (`ggml-alloc.c`), *reasoning budget*.

### Out of scope

Numerical code (kernels, graphs, quantization, training, device backends), text processing (templates, parsers,
grammars, vocabularies), file formats and downloads, front ends, vendored code.  `PROJECT.json` lists each with
its reason.

## 2. Plan

Order of work, most important behaviour first:

1. `ServerQueue` and its proofs: done.
2. `ServerStream` and its proofs: done.
3. `KvCells` and its proofs: done.
4. `ServerRequest`, what the readers promise a handler, implemented by `ServerQueue`: done, with its proof.
5. `ServerSleep` and its proofs: done.
6. `CommonLog` and its proofs: done.
7. `VectorIndexLog` and its proofs: done.
8. `KvCache` on top of `KvCells`: slot search, `apply_ubatch`, `prepare` with its recovery stack, sequence operations
   over ranges, the purge of a sliding window; invariant: the positions of a sequence have no gaps, and a failed
   `prepare()` leaves no trace.
9. `ServerSlot`: what a slot does with its prompt inside one round; invariants between `prompt`, the KV memory
   and the batch.  It refines the slot states of `ServerQueue`.
10. The router and the thread pool.

Runs are few and each answers a question: one or two passing runs per module, and a violation run for three
disagreements between text and code.

## 3. Modules

| Module | Content |
|---|---|
| `ServerQueue` | queues, readers, main loop, slots as the scheduler sees them |
| `MCServerQueue` | four kinds of requests for TLC |
| `ServerQueue_proofs` | inductive invariant and theorems |
| `ServerRequest` | abstract specification of a request and its replies |
| `ServerRequest_proofs` | `ServerQueue` implements it |
| `ServerSleep` | sleep of the main thread, gate of the requests |
| `ServerSleep_proofs` | inductive invariant and theorems |
| `ServerStream` | ring, manager, POST, GET, DELETE, GC, shutdown |
| `MCServerStream` | up to two POSTs, two GETs and a DELETE for TLC |
| `ServerStream_proofs` | inductive invariant and theorems |
| `KvCells` | cells of the attention cache, one action per method |
| `MCKvCells` | two cells, two sequences, three positions for TLC |
| `KvCells_proofs` | inductive invariant and theorems |
| `CommonLog` | ring, adders, worker, pause and resume |
| `CommonLog_proofs` | inductive invariant and theorems |
| `VectorIndexLog` | snapshot, delta log, handles, failures and crashes |
| `MCVectorIndexLog` | symmetry for TLC |
| `VectorIndexLog_proofs` | inductive invariant and theorems |

### `ServerQueue`

One action is one critical section of `mutex_tasks` or `mutex_results`, or the main-thread code between two of
them.  The one exception is the loop of `post(vector)` over cancel tasks, which is several steps under the lock
(`lock` is its holder; every action that needs `mutex_tasks` requires it to be free).

| Code | Model |
|---|---|
| `post_tasks`, `next`, `stop` | `reader_pc`: new, registered, reading, stopping, clearing, cancelling, posting, done; actions `AddWaiting`, `PostTasks`, `RecvResult`, `Disconnect`, `AllReceived`, `StopWaiting`, `ClearResults`, `LockForCancel`, `PostCancel` |
| `start_loop` | `main_pc`; `PopTask`, `QueueEmpty`, `WaitEnd`, `LoopExit`, and `cur` for the task popped and not yet placed |
| `process_single_task` | `DeferCompletion`, `LaunchCompletion`, `LaunchFails`, `RejectTask`, `DeferSlotAction`, `DoSlotAction`, `DoInstant`, `ProcessCancel`, `ProcessNextResponse` |
| `update_slots` | `AllIdle`, `UpdateSlots`, then per slot `SlotContinues`, `PromptDone`, `SlotFinishes`, `SlotFails`; `AbortAllSlots`/`AbortSlot`; `RoundEnd` |
| `server_slot::release` and its callback | `Release`, `Released`, with `to_release` and `return_pc` for the code that called it |

Abstractions: task ids are model values, results keep only their kind (partial, final, error), a slot's prompt is
either empty or not, and the number of rounds a task runs is bounded by `MaxTokens`.  Which of several idle slots
is chosen (by similarity or age) is nondeterministic.  `answered` is a history variable.  The sleeping state is
left to `ServerSleep`: this model is the server with the idle timer off, its default.

### `ServerRequest`

Every task is a mailbox.  Replies come in while the request is open, a terminal reply is the last of its task, the
handler takes replies in order and nothing after an error, and a request is closed because it is complete, because it
failed or because its client left.  `ServerQueue` maps `status` to the phases of a reader (`RequestStatus`), `box` to
the results of the task in `queue_results` (`Mailbox`) and `answer` to the terminal results taken.

### `ServerSleep`

One action is one critical section of `mutex_tasks`; `cv` is the set of threads blocked on `condition_tasks`.
Spurious wake-ups are an action.  Time is one bit (`idle`).  A thread released at the gate takes the mutex within an
idle time, which is at least a second, unless it is listed in `Laggards`.  The task queue is a set of requests; what a
task does is in `ServerQueue`.

### `ServerStream`

One action is one critical section of `map_mu` or of a session's mutex, or one store to an atomic flag.  A POST
creates exactly one session, so sessions are named after their POST.  The bytes of a generation are numbered, so
the content of a ring is checked by its values.  A chunk is made (`NextChunk`, `LastChunk`) and buffered (`Write`)
in two steps, because a DELETE may come between them.  `held` is the session a thread took out of the map and has
still to finalize.  The TTL is the flag `expired`, set at any time after `done`.  The lookup handler only reads the
map and is not an action.  What ends a stream inside the HTTP library during its own shutdown is not modelled.

### `KvCells`

One action is one method call on one cell, under the precondition its asserts state.  `seq_pos[s][p] = 0` stands for
a key that is not in the map.  `base` is a history variable: the position to which the keys stored in a cell are
rotated.  `phase` follows `prepare()`: "trial" from `cp()` to `set()`, when only the calls of `apply_ubatch()` can
happen, and "restore" during the loop of `set()`, one cell per step.  The recovery stack of several micro-batches is
one save.  `ext` and the shift axes that move with it are left out.

### `CommonLog`

One action is one critical section of `mtx`, or the printing of one entry by the worker outside of it.  An entry is its
number in the order of arrival.  `pause()` and `resume()` are called by one thread (log.h calls them "not
thread-safe").  The setters, which bracket a change of formatting with both, are left out.

### `VectorIndexLog`

One action is one write, truncation, rename or sync of a call, or its failure; between them the process may be killed
(`Killed`) or the machine lose power (`PowerLoss`).  `pc` and `caller` are the call that holds the lock of the log.
`ggml_vec_index_load` and `ggml_vec_index_free` take no lock and may run on another handle during a call.
A file is the content processes see (`snap`, `log`) and the set of contents a power loss may leave (`snap_disk`,
`log_disk`, `log_entry` for the directory entry).

| Code | Model |
|---|---|
| `ggml_vec_index_load`, `_load_with_delta`, `_free` | `Load`, `LoadWithDelta`, `Free` |
| `validate_delta_header`, `replay_delta_log`, `delta_log_matches_index_unlocked` | `ResetTornHeader`, `ResetTornHeaderFails`, `Replays` with `Recovered` and `RebaseAfterReplay`, `Matches` |
| `_add_logged`, `_remove_logged`, `append_delta_record_locked` | `CatchUp`, `Mutate`, `Heal`, `Rebase`, `Write`, `Sync`, `MutationDone`, `Undo`, and a failing variant of each |
| `_compact_delta`, `ggml_vec_index_write_unlocked`, `write_empty_delta_log_unlocked` | `Compact`, `Rename`, `SnapDirSync`, `EmptyTheLog`, `WriteHeader`, `HeaderSync`, `CompactDone`, and a failing variant of each |

The state identity of an index, a hash over its entries, is the set of its entries (hash collisions are left out).
An append that is cut short leaves a prefix of it; a tail that the file system fills with zeros is left out, as are the
tail cache (taken to give what the scan gives), the formats v1 to v3, memory mapping, plain mutations of handles without
a log, and hard links.  `acked`, `doubt`, `adopted` and `rebased` are history variables: the state after the last
mutation that returned OK, the states of those that did not, whether a handle has read a record that may not be
durable, and whether the log was emptied for a snapshot that may not be.  `Alone`
names the ways to empty the log, compaction ("snapshot") and the rebase after a partial compaction ("rebase"), that
callers use only while no other handle is open, and during which they open none (`Permitted`, `Emptying`);
ggml-vector-index.h asks for "one evolving writer handle", which is stricter still.
Snapshot and log may lie in two directories, so the sync of one directory says nothing about the other file.

## 4. Runs

| Run | Bounds | Shows |
|---|---|---|
| `queue_parent` | parent with child, a request of two tasks (one for a fixed slot), 2 slots; a child and a task that may fail, a batch that may fail, a client that may leave, a shutdown | `TypeOK`, `OnePlace`, `AnswerOnce`, `NoLeakedResults`, `DeferredWaitForSlot`, `ImplementsRequest` |
| `queue_live` | parent with child, a request of two tasks (one for a fixed slot), a high-priority task, 2 slots, no errors | `EveryRequestEnds`, `ChildrenLeaveWait` |
| `queue_abandon` | parent with child and a slot action, prompts that may be empty, errors and disconnects, nothing to defer for want of slots | `AbandonedSlotsFreed` |
| `stream_ring` | a streaming POST, and one of its conversation that is not streamed or rejected; chunks of 1 and 3 bytes, an end with or without one, ring of 2, 4 bytes; a GET, a DELETE, expiry, shutdown | `TypeOK`, `RingIsSuffix`, `ReplayExact`, `TailKept`, `RunningIsResumable`, `RemovedIsFinalized`, `OneLiveSession`, `ShortOnlyIfLost` |
| `stream_live` | the same requests, generations of a byte, a GET, a DELETE, shutdown | `ReadersEnd`, `CancelledUnwinds` |
| `kv_cells` | 2 cells, 2 sequences, positions 0..2, shifts by -3, -1 and 1, division by 2 | `TypeOK`, `SeqPosExact`, `UsedExact`, `PendingShifts` |
| `sleep` | 3 requests, 3 sleeps, spurious wake-ups, shutdown | `TypeOK`, `MainHasModel`, `NoForgottenWaiter`, `OnlyMainIsNotified`, `GateOpens`, `AwakeServes` |
| `sleep_posted_task` | 2 requests, 1 sleep, no shutdown | violates `PostedIsProcessed` |
| `log` | 3 adders, ring of 3, 5 messages, 2 pauses | `TypeOK`, `PrintedInOrder`, `PausedIsFlushed`, `NoWriteUnderFlush`, `AddReturns`, `AcceptedIsPrinted` |
| `log_pause_full` | the same, 1 pause | violates `PauseReturns` |
| `vector_index` | 2 handles, 2 entries, logs of 3 records, 3 failing calls or crashes (`MaxMishaps`), the log is emptied by a sole handle | `TypeOK`, `NothingLost`, `RecoveryWorks`, `NoLostUpdate`, `HandleMatchesFiles` |
| `vector_index_stale` | 2 handles, 1 crash, any handle may empty the log | violates `NoLostUpdate` |

*Why the bounds are enough.*  Two slots and four tasks are the least in which a parent with its child fills the
server while two others are deferred, so that one is left when the other comes back and takes no slot; more tasks
repeat these situations.  A ring of two bytes with chunks of 1 and 3 and an empty last chunk meets every branch of
`append()`: empty, fitting, dropping, larger than the cap; with four bytes a replay can lose its offset.  Two POSTs of one
conversation are the least in which one can hit the other's session; conversations only share the GC and the
shutdown, which go over them one by one.  Two cells and two sequences are the least in which a position occurs twice
in one sequence and a cell is shared; shifts by -3 make any position negative.  Three sleeps let a request of the first
meet the third; the second sleep is the least in which a leftover waiter could exist.  A ring of three holds two
messages, so three adders fill it and block; two pauses let a resumed worker find what the first pause left.  Three
mishaps are a failing append, its failing undo and a power loss, or a crash during the recovery from a crash; with
four the result was the same.  Two records are the least in which a state recurs (an entry is added and removed), and
three let a handle that is behind catch up over it.  Deadlock
checking is off for the models that come to rest when every request has ended or every bound is reached, and on for
the cells.

*What properties leave out.*  Where the code has a case in which the plain statement fails, the property names the
case, and the run reaches it: a task that gave up (`DeferredWaitForSlot`), the evict by conversation id
(`RunningIsResumable`, `TailKept`), an offset that fell out of the ring (`ShortOnlyIfLost`), a session installed behind
`stop_gc()` (`ReadersEnd`), a worker in its prefill when the main loop ends (`CancelledUnwinds`), and for the vector
index what `rebased` and `adopted` record (`NothingLost`, `RecoveryWorks`).  Four properties hold only in instances
without the situation that breaks them: `EveryRequestEnds` without failures, `ChildrenLeaveWait` without empty prompts,
`AbandonedSlotsFreed` where no completion is deferred, and the properties of the vector index when `Alone` names both
ways to empty the log.  What happens otherwise is said below.

*Fairness.*  Weak fairness of the main thread and of every worker thread: each is an operating-system thread that
runs when it can.  In `ServerStream` a generation's `LastChunk` is fair (it ends by EOS or `max_tokens`).
Nothing is assumed of clients, the GC, the operator or the length of a generation; arrival of a request, a
disconnect, expiry and shutdown are never fair.  `SlotContinues` needs no fairness of its own, as it is bounded by
`MaxTokens`.  In `ServerSleep` the main thread and the requests are fair, the clock is not; in `CommonLog` the adders,
the worker and the thread that pauses are.  `VectorIndexLog` states no liveness.

### What the violation runs show

* *A task can be queued into a sleeping server* (`server-queue.cpp:184`).  A request passes the gate, the idle time
  ends, the server sleeps, and the task posted then does not end the sleep.
* *A pause can hang on a full ring* (`log.cpp:318`).  The end entry makes the full ring look empty to a worker that
  has no snapshot, and the join does not return.
* *A stale writer is not noticed after an interrupted compaction* (`ggml-vector-index-persistence.cpp:2406`).  The log
  is emptied before its new header is written; an empty log matches the state of any handle.  The same end is reached
  when callers compact alone but do not mutate alone (`Alone = {"snapshot"}`, found by the proof, confirmed by TLC with
  4 records and 2 mishaps): a partial compaction leaves a rebase pending at the state it wrote; a second handle loads
  and mutates; the first catches up, which does not drop the rebase (`:2689`); when the index is back in that state,
  the next append of the first handle empties the log, records the second handle needs included, and is cut short.

Further situations that the models reach, without a run of their own: each is named as an exception by the property
given, or makes it fail.

* *Deferred tasks can be stuck while all slots are idle* (`server-queue.cpp:94`; `server-queue.h:40` says "defer until
  one slot is available").  One release brings back one task; if it takes no slot (its launch fails, or it is an
  action on a slot), or is cancelled before its turn, the chain ends.  `DeferredWaitForSlot` says that nothing else
  ends it (`GaveUp`); `queue_parent` reaches it.
* *Children of an empty prompt wait for ever* (`server-context.cpp:3172`): `ChildrenLeaveWait`.
* *A failed request evicts the session of its successor* (`server-stream.cpp:639`): with two POSTs of which one is
  rejected, left early or not streamed, `on_complete()` evicts whatever the conversation id names.  The exception
  `MayBeEvicted` of `RunningIsResumable` and `TailKept`; `stream_ring` reaches it.
* *A slow replay ends early without an error* (`server-stream.cpp:489`; README-dev.md:139): `read_from()`
  reports OFFSET_LOST when the ring has moved past the reader, and the handler ends the response as if it were
  complete.  The exception of `ShortOnlyIfLost`; `stream_ring` reaches it.
* *A replay started during shutdown hangs* (`server.cpp:428`; README-dev.md:149 says that `stop_gc()` finalizes "so no
  reader ever hangs"): `clean_up()` empties the map before it stops the HTTP server, and nobody finalizes a session
  installed in between.  The exception `Stranded` of `ReadersEnd`; `stream_live` reaches it.
* *A stop does not reach a worker whose main loop has ended* (`server-context.cpp:4240`): the wait for the first result
  looks at the connection only.  The exception of `CancelledUnwinds`.
* *A division shifts the keys the wrong way* (`llama-kv-cells.h:560`): `pos_div()` adds old minus new to the shift,
  every other method new minus old.  Reached by `llama_memory_seq_div()`, used by the self-extend mode of
  `tools/completion`.  `ShiftIsDisplacement` fails in `kv_cells`.
* *A rebase may empty the log before the snapshot is durable* (`ggml-vector-index-persistence.cpp:2697`).  When the
  sync of the snapshot's directory failed (`E_PARTIAL_COMPACT`), or the process was killed before it, the next append
  empties the log because the snapshot that is seen includes its records; a power loss may still bring back the old
  snapshot.  `NothingLost` leaves this case out (`rebased`).
* *A compaction makes durable what its log does not have* (`:5145`).  A handle that reloads after a failed sync reads
  the record, and a compaction writes it into the snapshot without syncing the log; after a power loss the log does
  not reach the snapshot's state and loading fails.  `RecoveryWorks` leaves this case out (`adopted`).

Seen while modelling, not given a run: a cancel can miss its task (`server-queue.cpp:48`, `:152`), which between pop
and deferral is in no queue, is deferred after the cleanup and later run for nobody, possibly in a slot its reader
has given up, so `AbandonedSlotsFreed` is checked where no completion is deferred; a disconnect before the first token ends an attached generation
(`server-context.cpp:4240`), although README-dev.md:135 says only a DELETE does; the comment at
`server-stream.cpp:311` that a DELETE "does not interrupt the underlying generation" contradicts README-dev.md:137
and the code; `server-stream.cpp:218` says HTTP readers poll `is_cancelled()`, which the GET handler does not;
`stop_gc()` finalizes sessions without cancelling them, so a worker with an attached session still waits for
results after the main loop has ended.

## 5. Proofs

Checked by `tlapm` for any finite set of tasks, slots and cells and any sets of requests and sequences, under the
named assumptions of the modules: distinct model values, well-formed parent links, every task posted by its owner at
most once; natural chunk sizes and a positive cap; integer shifts and positive divisors.

**`ServerQueue_proofs`.**  `Inv` is `TypeOK /\ OnePlace /\ TasksPosted /\ AnswerOnce /\ ReaderPhases`.  `OnePlace`
is not inductive alone: a reader that posts must know that its task is not in the pipeline yet, which is
`TasksPosted`.  `AnswerOnce` needs `OnePlace` (a second copy could answer again) and that a child's only other
source is its parent.  `NoLeakedResults` follows from `ReaderPhases`, which says in which phase of `stop()` a
result may still be there.  Most steps only take places away from tasks (`Shrinks`), and one lemma covers them
all; posting, popping, deferring, bringing back and launching have a lemma each.

`DeferredWaitForSlot` needs `Waiting`: as long as no task gave up, what is deferred has somebody who brings it back, a
busy slot or a task that came back before it and has not had its turn (`Awaited`).  Each release brings back one task,
so the task brought back must take a slot and thereby cause the next release; it finds one, because no request asks for
more slots than there are (`FitAssumption`, the limit `n_cmpl <= n_parallel` of server-schema.cpp:62).  A task that fails,
is withdrawn by its reader, or is an action on a slot breaks the chain, and `GaveUpStays` says that it is then known for
good to have done so: its error is still queued, or its reader, which stops on an error, is stopping early or has
cancelled; the answer of a slot action is queued or was taken.  That
needs `ReaderEnds`, what a reader in a phase of `stop()` still has registered.  No condition on the requests is assumed.

Theorems: `TypeCorrect`, `InvCorrect`, `OnePlaceCorrect`, `AnswerOnceCorrect`, `NoLeakedResultsCorrect`,
`DeferredCorrect`.

**`ServerStream_proofs`.**  `Inv` is `TypeOK /\ RingIsSuffix /\ ReplayExact /\ OffsetsFollow /\
RemovedIsFinalized /\ SnapshotOnce`.  `ReplayExact` needs `OffsetsFollow` (the offset a GET keeps is the one after
its last byte) and `RingIsSuffix` (what is in the ring at an offset is the byte of that number).
`RemovedIsFinalized` needs that `stop_gc()` takes its snapshot once; `OneLiveSession` follows from it because the
map holds one session per conversation.

`Ends` says, for any requests, why a session can be done (`Excused`): it was cancelled, the server is going down, its
own POST ended, or another POST of the conversation that ended before its stream evicted it (`MayBeEvicted`).  It needs
that whoever is about to finalize a session has cancelled it before or is such a POST (`HeldOK`), and how each POST may
end (`OutcomeOK`).  `RunningIsResumable` and, with `RingIsSuffix`, `TailKept` follow for any requests.
`ShortOnlyIfLost` is proved for any ring and any generation: what a reader that has ended was missing stays behind the
dropped prefix (`PrefixGrows`), and a finished session takes no more bytes (`DrainedStep`).

Theorems: `TypeCorrect`, `InvCorrect`, `RingCorrect`, `ReplayCorrect`, `RemovedCorrect`, `OneLiveCorrect`, `EndsCorrect`,
`ResumableCorrect`, `TailCorrect`, `ShortCorrect`.

**`ServerRequest_proofs`.**  `RequestRefinement`: every step of `ServerQueue` is a step of `ServerRequest` or leaves its
variables alone.  Besides `Inv` it needs `Reasons`, which says why a reader is in a phase of `stop()`: it has all
results, it took an error, or its client left.

**`ServerSleep_proofs`.**  `Inv` adds `Asleep` (where the main thread is while the server sleeps) and `Quiet` (nobody is
still on the way out of the gate when the next sleep may begin) to the checked invariants; `OnlyMainIsNotified` is not
inductive without `Quiet`.  Theorems: `SleepTypes`, `MainHasModelCorrect`, `NoForgottenWaiterCorrect`,
`OnlyMainIsNotifiedCorrect`.

**`KvCells_proofs`.**  `Inv` is `TypeOK /\ SeqPosExact /\ UsedExact /\ PendingShifts`, for any finite set of cells.
Every method changes one cell; `OneCell` says what the counts must do then (lose what the cell was, gain what it has
become), by removing the cell from the set of holders of a position before and after.  `SeqPosExact` needs
`UsedExact` (an empty cell counts for no sequence when `pos_set()` or `set()` fills it), and a rollback needs
`PendingShifts` (a saved cell has no shift).  Theorems: `TypeCorrect`, `InvCorrect`, `SeqPosCorrect`, `UsedCorrect`,
`PendingCorrect`, and `ShiftCorrect`: without divisions `ShiftIsDisplacement` holds, from the stronger `Displaced`,
which also says where the keys of saved cells are.

**`CommonLog_proofs`.**  For any number of adders and any ring size.  `Inv` adds to the checked invariants where `tail`
is (`Extent`), what the slots between the worker's position and `tail` hold (`Contents`), that the slots the worker is
printing from are not given back before it takes the mutex again (`Reserved`), and where the worker is once it has met
the end entry (`Stopped`).  `PrintedInOrder` is not inductive without `Contents`, nor that without `Reserved`, which
keeps an adder from writing into the worker's snapshot.  The ring is full only with the end entry in it, which is the
case of the violation run.  Distances along the ring replace the modulus.  Theorems: `LogInvariant`, `LogTypes`,
`LogPrintsInOrder`, `LogPausedIsFlushed`, `LogNoWriteUnderFlush`.

**`VectorIndexLog_proofs`.**  For any finite set of entries and any number of handles, records and mishaps.  `Inv` is
`Types /\ (Sound \/ Unusable)`.  `Sound` says, at every step of every call:

* the log that is seen is a chain of records, each of which applies to the state before it; every snapshot a recovery
  may start from and every usable handle is on its way (`Current`), and its end is the acknowledged state or one in
  doubt.  Before a header is written nothing in the log fixes the state, so all of them must be equal to the snapshot;
* the same, a little weaker, of every log a power loss may leave (`Left`);
* a pending rebase is for the snapshot that is seen (`RebaseOK`);
* how far the call has come: what it has written, what it would go back to, what is durable (`CallerOK`, `AppendOK`,
  `CompactOK`).

`Unusable` is what a power loss may leave once a handle has built on something that was not durable (`adopted`,
`rebased`): nobody can load the log, catch up with it or append to it, so the pair stays as it is.  Steps that write the
log need only that what they write is `Current` (`LogWritten`); appends, complete or cut short, are (`CurrentAppend`),
and so is an emptied log when the only open handle holds the snapshot (`CurrentReset`).  A handle that is opened or
closed while another handle's call is under way leaves that call where it was (`AsideSound`).  That `replay_delta_log()`
accepts a chain from any state on its way is `ReplaysIsFits`, with the cardinalities of `TransitionValid`.

The theorems except `VectorTypes` assume `OneWriter`, that `Alone` names both ways to empty the log; without it
`NoLostUpdate` is false (section 4).  Theorems: `VectorTypes`, `VectorInvariant`, `VectorNothingLost`,
`VectorRecoveryWorks`, `VectorNoLostUpdate`, `VectorHandleMatchesFiles`.

*Only model-checked.*  The liveness properties (`EveryRequestEnds`, `AbandonedSlotsFreed`, `ChildrenLeaveWait`,
`ReadersEnd`, `CancelledUnwinds`, `GateOpens`, `AwakeServes`, `AddReturns`, `AcceptedIsPrinted`): liveness under fairness is out of the
prover's reach.  Every invariant and every action property of the runs is stated by a theorem; the ones that fail for
some values of the constants under the condition named above.
