----------------------------- MODULE CommonLog -----------------------------
(***************************************************************************)
(* The asynchronous log (common/log.cpp): threads add entries to a ring, a  *)
(* worker thread prints them, and pause() / resume() stop and restart the   *)
(* worker around every change of its settings and in flush.                 *)
(*                                                                         *)
(* The worker prints WITHOUT the mutex, from a snapshot of head and tail;   *)
(* adders must not touch the entries of the snapshot meanwhile.  pause()    *)
(* ends the worker with an end entry in the same ring and joins it.         *)
(*                                                                         *)
(* One action is one critical section of mtx, or the printing of one entry. *)
(* cv_new has one waiter, the worker; cv_full has the blocked adders; both  *)
(* are modelled as states a notification moves to the test of the           *)
(* predicate.  Messages are numbered in the order in which they enter the   *)
(* ring.  pause() and resume() are "not thread-safe" (log.h): one           *)
(* controller calls them.                                                   *)
(***************************************************************************)
EXTENDS Integers, Sequences

CONSTANTS
    Adders,         \* threads that log
    Capacity,       \* queue.size()
    MaxMessages,    \* bound: messages that enter the ring
    MaxPauses,      \* bound: calls of pause()
    End, Unset      \* contents of a slot besides messages

ASSUME LogAssumption ==
    /\ Capacity \in Nat /\ Capacity >= 2
    /\ MaxMessages \in Nat /\ MaxPauses \in Nat
    /\ End \notin Nat /\ Unset \notin Nat /\ End # Unset

Indices == 0..(Capacity - 1)

VARIABLES
    queue,          \* contents of the slots
    head, tail,
    running,
    adder_pc,       \* of each adder
    worker_pc,
    h, cached_tail, \* the worker's snapshot: next entry to print, end
    stop,           \* flush_queue() met the end entry
    ctl_pc,         \* the thread that pauses and resumes
    accepted,       \* history: number of messages that entered the ring
    printed,        \* history: what was printed
    pauses          \* calls of pause(), bounded by MaxPauses

ringVars == <<queue, head, tail, running>>
workerVars == <<worker_pc, h, cached_tail, stop>>
vars == <<ringVars, adder_pc, workerVars, ctl_pc, accepted, printed, pauses>>

\* Mutant: the index does not wrap.
Succ_NoWrap(i) == i + 1

\* (i + 1) % queue.size() for an index
Succ(i) == IF i + 1 = Capacity THEN 0 ELSE i + 1

is_full == Succ(tail) = head
is_empty == head = tail

\* The constructor ends with resume().
Init ==
    /\ queue = [i \in Indices |-> Unset]
    /\ head = 0 /\ tail = 0 /\ running = TRUE
    /\ adder_pc = [a \in Adders |-> "idle"]
    /\ worker_pc = "test" /\ h = 0 /\ cached_tail = 0 /\ stop = FALSE
    /\ ctl_pc = "on"
    /\ accepted = 0 /\ printed = <<>> /\ pauses = 0

\* cv_new.notify_one() and cv_full.notify_all()
WorkerNotified == IF worker_pc = "blocked" THEN "test" ELSE worker_pc
AddersNotified == [a \in Adders |-> IF adder_pc[a] = "blocked" THEN "test" ELSE adder_pc[a]]

-----------------------------------------------------------------------------
(* add() *)

StartAdd(a) ==
    /\ adder_pc[a] = "idle" /\ accepted < MaxMessages
    /\ adder_pc' = [adder_pc EXCEPT ![a] = "test"]
    /\ UNCHANGED <<ringVars, workerVars, ctl_pc, accepted, printed, pauses>>

\* The ring is full: wait on cv_full
AddBlocks(a) ==
    /\ adder_pc[a] = "test" /\ running /\ is_full
    /\ adder_pc' = [adder_pc EXCEPT ![a] = "blocked"]
    /\ UNCHANGED <<ringVars, workerVars, ctl_pc, accepted, printed, pauses>>

\* "discard messages while the worker thread is paused"
AddDiscards(a) ==
    /\ adder_pc[a] = "test" /\ ~running
    /\ adder_pc' = [adder_pc EXCEPT ![a] = "idle"]
    /\ UNCHANGED <<ringVars, workerVars, ctl_pc, accepted, printed, pauses>>

\* Mutant: cv_full is not waited for.
AddEntry_Overwrites(a) ==
    /\ adder_pc[a] = "test" /\ running
    /\ queue' = [queue EXCEPT ![tail] = accepted + 1]
    /\ tail' = Succ(tail)
    /\ accepted' = accepted + 1
    /\ worker_pc' = WorkerNotified
    /\ adder_pc' = [adder_pc EXCEPT ![a] = "idle"]
    /\ UNCHANGED <<head, running, h, cached_tail, stop, ctl_pc, printed, pauses>>

\* Mutant: the worker is not notified.
AddEntry_NoNotify(a) ==
    /\ adder_pc[a] = "test" /\ running /\ ~is_full
    /\ queue' = [queue EXCEPT ![tail] = accepted + 1]
    /\ tail' = Succ(tail)
    /\ accepted' = accepted + 1
    /\ adder_pc' = [adder_pc EXCEPT ![a] = "idle"]
    /\ UNCHANGED <<head, running, workerVars, ctl_pc, printed, pauses>>

AddEntry(a) ==
    /\ adder_pc[a] = "test" /\ running /\ ~is_full
    /\ queue' = [queue EXCEPT ![tail] = accepted + 1]
    /\ tail' = Succ(tail)
    /\ accepted' = accepted + 1
    /\ worker_pc' = WorkerNotified
    /\ adder_pc' = [adder_pc EXCEPT ![a] = "idle"]
    /\ UNCHANGED <<head, running, h, cached_tail, stop, ctl_pc, printed, pauses>>

-----------------------------------------------------------------------------
(* The worker thread of resume() *)

WorkerBlocks ==
    /\ worker_pc = "test" /\ is_empty
    /\ worker_pc' = "blocked"
    /\ UNCHANGED <<ringVars, adder_pc, h, cached_tail, stop, ctl_pc, accepted, printed, pauses>>

\* Snapshot of the ring; the mutex is dropped
WorkerSnapshot ==
    /\ worker_pc = "test" /\ ~is_empty
    /\ h' = head /\ cached_tail' = tail /\ stop' = FALSE
    /\ worker_pc' = "flush"
    /\ UNCHANGED <<ringVars, adder_pc, ctl_pc, accepted, printed, pauses>>

\* flush_queue(): one entry, without the mutex
FlushEntry ==
    /\ worker_pc = "flush" /\ h # cached_tail /\ ~stop
    /\ stop' = (queue[h] = End)
    /\ printed' = IF queue[h] = End THEN printed ELSE Append(printed, queue[h])
    /\ h' = Succ(h)
    /\ UNCHANGED <<ringVars, adder_pc, worker_pc, cached_tail, ctl_pc, accepted, pauses>>

\* Mutant: head becomes the current tail, not the end of what was printed.
FlushDone_SkipsToTail ==
    /\ worker_pc = "flush" /\ (h = cached_tail \/ stop)
    /\ head' = tail
    /\ adder_pc' = AddersNotified
    /\ worker_pc' = IF stop THEN "gone" ELSE "test"
    /\ UNCHANGED <<queue, tail, running, h, cached_tail, stop, ctl_pc, accepted, printed, pauses>>

\* The mutex is taken again: the printed entries are given back
FlushDone ==
    /\ worker_pc = "flush" /\ (h = cached_tail \/ stop)
    /\ head' = h
    /\ adder_pc' = AddersNotified
    /\ worker_pc' = IF stop THEN "gone" ELSE "test"
    /\ UNCHANGED <<queue, tail, running, h, cached_tail, stop, ctl_pc, accepted, printed, pauses>>

-----------------------------------------------------------------------------
(* pause() and resume(): set_file(), set_colors(), set_callback(), flush, and the *)
(* state notifications of a server child call one after the other.                *)

\* Mutant: pause() does not wake the adders.
Pause_LeavesAdders ==
    /\ ctl_pc = "on" /\ pauses < MaxPauses
    /\ running' = FALSE
    /\ queue' = [queue EXCEPT ![tail] = End]
    /\ tail' = Succ(tail)
    /\ worker_pc' = WorkerNotified
    /\ ctl_pc' = "joining" /\ pauses' = pauses + 1
    /\ UNCHANGED <<head, adder_pc, h, cached_tail, stop, accepted, printed>>

\* The end entry is pushed whether or not the ring has room for it
Pause ==
    /\ ctl_pc = "on" /\ pauses < MaxPauses
    /\ running' = FALSE
    /\ queue' = [queue EXCEPT ![tail] = End]
    /\ tail' = Succ(tail)
    /\ worker_pc' = WorkerNotified
    /\ adder_pc' = AddersNotified
    /\ ctl_pc' = "joining" /\ pauses' = pauses + 1
    /\ UNCHANGED <<head, h, cached_tail, stop, accepted, printed>>

\* Mutant: the worker is detached instead of joined.
Joined_Detached ==
    /\ ctl_pc = "joining"
    /\ ctl_pc' = "off"
    /\ UNCHANGED <<ringVars, adder_pc, workerVars, accepted, printed, pauses>>

\* thrd.join()
Joined ==
    /\ ctl_pc = "joining" /\ worker_pc = "gone"
    /\ ctl_pc' = "off"
    /\ UNCHANGED <<ringVars, adder_pc, workerVars, accepted, printed, pauses>>

Resume ==
    /\ ctl_pc = "off"
    /\ running' = TRUE
    /\ worker_pc' = "test" /\ stop' = FALSE
    /\ ctl_pc' = "on"
    /\ UNCHANGED <<queue, head, tail, adder_pc, h, cached_tail, accepted, printed, pauses>>

AdderStep(a) == AddBlocks(a) \/ AddDiscards(a) \/ AddEntry(a)
WorkerStep == WorkerBlocks \/ WorkerSnapshot \/ FlushEntry \/ FlushDone

Next ==
    \/ \E a \in Adders : StartAdd(a) \/ AdderStep(a)
    \/ WorkerStep
    \/ Pause \/ Joined \/ Resume

Spec == Init /\ [][Next]_vars

\* Threads that can run do; nobody has to log or to pause.
FairSpec ==
    /\ Spec
    /\ \A a \in Adders : WF_vars(AdderStep(a))
    /\ WF_vars(WorkerStep) /\ WF_vars(Joined \/ Resume)

-----------------------------------------------------------------------------
(* Properties *)

\* Types; adders run while the worker is paused only to discard, and a worker is
\* missing only between its end entry and resume().
TypeOK ==
    /\ queue \in [Indices -> Nat \cup {End, Unset}]
    /\ head \in Indices /\ tail \in Indices /\ h \in Indices /\ cached_tail \in Indices
    /\ running \in BOOLEAN /\ stop \in BOOLEAN
    /\ adder_pc \in [Adders -> {"idle", "test", "blocked"}]
    /\ worker_pc \in {"test", "blocked", "flush", "gone"}
    /\ ctl_pc \in {"on", "joining", "off"}
    /\ accepted \in Nat /\ pauses \in Nat
    /\ printed \in Seq(Nat)
    /\ running <=> ctl_pc = "on"
    /\ worker_pc = "gone" => ctl_pc # "on"
    /\ ctl_pc = "off" => worker_pc = "gone"

\* What is printed are the messages that entered the ring, in that order, each
\* once: no slot is reused before its message was printed, none is printed twice.
PrintedInOrder ==
    /\ Len(printed) <= accepted
    /\ \A i \in 1..Len(printed) : printed[i] = i

\* The slots the worker reads without the mutex, from h to the end of its
\* snapshot, are not written by anybody meanwhile (flush_queue()).
InSnapshot(i) ==
    IF h <= cached_tail THEN h <= i /\ i < cached_tail
                        ELSE h <= i \/ i < cached_tail

NoWriteUnderFlush ==
    [][worker_pc = "flush" => \A i \in Indices : InSnapshot(i) => queue'[i] = queue[i]]_vars

\* "flush all pending log messages" (log.h): when pause() has returned, every
\* message that entered the ring is printed.
PausedIsFlushed ==
    ctl_pc = "off" => Len(printed) = accepted

\* add() returns: a thread that logs is never blocked for ever, whether the ring
\* is full, is being flushed or is paused.
AddReturns ==
    \A a \in Adders : adder_pc[a] # "idle" ~> adder_pc[a] = "idle"

\* Every message that entered the ring is printed, unless the end entry of pause()
\* makes a full ring look empty.
AcceptedIsPrinted ==
    \A n \in 1..MaxMessages :
        accepted >= n ~> Len(printed) >= n \/ (ctl_pc = "joining" /\ is_empty)

\* "push an entry to signal the worker thread to stop" (pause() in log.cpp): the
\* worker sees the entry, and pause() returns.
PauseReturns == ctl_pc = "joining" ~> ctl_pc = "off"
=============================================================================
