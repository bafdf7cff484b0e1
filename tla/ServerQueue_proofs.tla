------------------------- MODULE ServerQueue_proofs -------------------------
(***************************************************************************)
(* Proofs about the request path.  The inductive invariant Inv is the       *)
(* conjunction of TypeOK, OnePlace, TasksPosted, AnswerOnce and             *)
(* ReaderPhases; most steps only take places away from tasks (Shrinks), and *)
(* the ones that give a task a new place have a lemma of their own.  The    *)
(* last section is about deferred tasks: who brings them back, and what it  *)
(* takes to leave one behind.                                               *)
(***************************************************************************)
EXTENDS ServerQueue, FiniteSetTheorems, WellFoundedInduction, TLAPS

-----------------------------------------------------------------------------
(* What the operations of the two deques do to the entries in them. *)

\* push_front() adds its entry and nothing else.
LEMMA PrependFacts ==
    ASSUME NEW S, NEW q \in Seq(S), NEW x \in S
    PROVE  /\ <<x>> \o q \in Seq(S)
           /\ \A e : Occurs(e, <<x>> \o q) <=> e = x \/ Occurs(e, q)
           /\ \A e : AtMostOnce(e, q) /\ (e = x => ~Occurs(e, q)) => AtMostOnce(e, <<x>> \o q)
<1> DEFINE p == <<x>> \o q
<1>1. p \in Seq(S) /\ Len(p) = Len(q) + 1 /\ Len(q) \in Nat
  OBVIOUS
<1>2. p[1] = x /\ \A i \in 1..Len(q) : p[i + 1] = q[i]
  OBVIOUS
<1>3. \A i \in 1..Len(p) : i # 1 => i - 1 \in 1..Len(q) /\ p[i] = q[i - 1]
  BY <1>1, <1>2
<1> HIDE DEF p
<1>4. ASSUME NEW e PROVE Occurs(e, p) <=> e = x \/ Occurs(e, q)
  <2>1. Occurs(e, p) => e = x \/ Occurs(e, q)
    BY <1>2, <1>3 DEF Occurs
  <2>2. ASSUME NEW i \in 1..Len(q), q[i] = e PROVE Occurs(e, p)
    <3>1. i + 1 \in 1..Len(p) /\ p[i + 1] = e
      BY <1>1, <1>2, <2>2
    <3> QED BY <3>1 DEF Occurs
  <2>3. e = x => Occurs(e, p)
    BY <1>1, <1>2 DEF Occurs
  <2> QED BY <2>1, <2>2, <2>3 DEF Occurs
<1>5. ASSUME NEW e, AtMostOnce(e, q), e = x => ~Occurs(e, q)
      PROVE  AtMostOnce(e, p)
  <2> SUFFICES ASSUME NEW i \in 1..Len(p), NEW j \in 1..Len(p), p[i] = e, p[j] = e
               PROVE  i = j
    BY DEF AtMostOnce
  <2>1. CASE i # 1 /\ j # 1
    <3>1. i - 1 = j - 1
      BY <2>1, <1>3, <1>5 DEF AtMostOnce
    <3> QED BY <3>1
  <2>2. CASE i = 1 /\ j # 1
    BY <2>2, <1>2, <1>3, <1>5 DEF Occurs
  <2>3. CASE i # 1 /\ j = 1
    BY <2>3, <1>2, <1>3, <1>5 DEF Occurs
  <2> QED BY <2>1, <2>2, <2>3
<1> QED BY <1>1, <1>4, <1>5 DEF p

\* push_back() adds its entry and nothing else.
LEMMA AppendFacts ==
    ASSUME NEW S, NEW q \in Seq(S), NEW x \in S
    PROVE  /\ Append(q, x) \in Seq(S)
           /\ \A e : Occurs(e, Append(q, x)) <=> e = x \/ Occurs(e, q)
           /\ \A e : AtMostOnce(e, q) /\ (e = x => ~Occurs(e, q)) => AtMostOnce(e, Append(q, x))
<1> DEFINE p == Append(q, x)
<1>1. p \in Seq(S) /\ Len(p) = Len(q) + 1 /\ p[Len(p)] = x /\ Len(q) \in Nat
  OBVIOUS
<1>2. \A i \in 1..Len(q) : p[i] = q[i]
  OBVIOUS
<1>4. ASSUME NEW e PROVE Occurs(e, p) <=> e = x \/ Occurs(e, q)
  BY <1>1, <1>2 DEF Occurs
<1>5. ASSUME NEW e, AtMostOnce(e, q), e = x => ~Occurs(e, q)
      PROVE  AtMostOnce(e, p)
  BY <1>1, <1>2, <1>5 DEF Occurs, AtMostOnce
<1> QED BY <1>1, <1>4, <1>5

\* Concatenation (a post of several tasks).
LEMMA ConcatFacts ==
    ASSUME NEW S, NEW q \in Seq(S), NEW n \in Seq(S)
    PROVE  /\ q \o n \in Seq(S)
           /\ \A e : Occurs(e, q \o n) <=> Occurs(e, q) \/ Occurs(e, n)
           /\ \A e : /\ AtMostOnce(e, q) /\ AtMostOnce(e, n)
                     /\ ~Occurs(e, q) \/ ~Occurs(e, n)
                     => AtMostOnce(e, q \o n)
<1> DEFINE p == q \o n
<1>1. p \in Seq(S) /\ Len(p) = Len(q) + Len(n) /\ Len(q) \in Nat /\ Len(n) \in Nat
  OBVIOUS
<1>2. /\ \A i \in 1..Len(q) : p[i] = q[i] /\ i \in 1..Len(p)
      /\ \A i \in 1..Len(n) : p[i + Len(q)] = n[i] /\ i + Len(q) \in 1..Len(p)
  BY <1>1
<1>3. \A i \in 1..Len(p) : i \in 1..Len(q) \/ (i - Len(q) \in 1..Len(n) /\ p[i] = n[i - Len(q)])
  BY <1>1
<1>4. ASSUME NEW e PROVE Occurs(e, p) <=> Occurs(e, q) \/ Occurs(e, n)
  <2>1. Occurs(e, p) => Occurs(e, q) \/ Occurs(e, n)
    BY <1>2, <1>3 DEF Occurs
  <2>2. Occurs(e, q) => Occurs(e, p)
    BY <1>2 DEF Occurs
  <2>3. Occurs(e, n) => Occurs(e, p)
    BY <1>2 DEF Occurs
  <2> QED BY <2>1, <2>2, <2>3
<1>5. ASSUME NEW e, AtMostOnce(e, q), AtMostOnce(e, n), ~Occurs(e, q) \/ ~Occurs(e, n)
      PROVE  AtMostOnce(e, p)
  <2> SUFFICES ASSUME NEW i \in 1..Len(p), NEW j \in 1..Len(p), p[i] = e, p[j] = e
               PROVE  i = j
    BY DEF AtMostOnce
  <2>1. CASE i \in 1..Len(q) /\ j \in 1..Len(q)
    BY <2>1, <1>2, <1>5 DEF AtMostOnce
  <2>2. CASE i \notin 1..Len(q) /\ j \notin 1..Len(q)
    <3>1. i - Len(q) = j - Len(q)
      BY <2>2, <1>3, <1>5 DEF AtMostOnce
    <3> QED BY <3>1, <1>1
  <2>3. CASE i \in 1..Len(q) /\ j \notin 1..Len(q)
    BY <2>3, <1>2, <1>3, <1>5 DEF Occurs
  <2>4. CASE i \notin 1..Len(q) /\ j \in 1..Len(q)
    BY <2>4, <1>2, <1>3, <1>5 DEF Occurs
  <2> QED BY <2>1, <2>2, <2>3, <2>4
<1> QED BY <1>1, <1>4, <1>5

\* pop_front() removes the first entry.
LEMMA TailFacts ==
    ASSUME NEW S, NEW q \in Seq(S), q # <<>>
    PROVE  /\ Head(q) \in S /\ Tail(q) \in Seq(S)
           /\ \A e : Occurs(e, q) <=> e = Head(q) \/ Occurs(e, Tail(q))
           /\ \A e : AtMostOnce(e, q) => AtMostOnce(e, Tail(q))
           /\ \A e : AtMostOnce(e, q) /\ e = Head(q) => ~Occurs(e, Tail(q))
<1> DEFINE p == Tail(q)
<1>1. /\ Head(q) \in S /\ p \in Seq(S) /\ Len(q) \in Nat /\ Len(q) # 0
      /\ Len(p) = Len(q) - 1 /\ Head(q) = q[1]
  OBVIOUS
<1>2. \A i \in 1..Len(p) : p[i] = q[i + 1] /\ i + 1 \in 1..Len(q)
  BY <1>1
<1>3. \A i \in 1..Len(q) : i # 1 => i - 1 \in 1..Len(p) /\ p[i - 1] = q[i]
  BY <1>1
<1>4. ASSUME NEW e PROVE Occurs(e, q) <=> e = Head(q) \/ Occurs(e, p)
  <2>1. Occurs(e, q) => e = Head(q) \/ Occurs(e, p)
    BY <1>1, <1>3 DEF Occurs
  <2>2. Occurs(e, p) => Occurs(e, q)
    BY <1>2 DEF Occurs
  <2>3. e = Head(q) => Occurs(e, q)
    BY <1>1 DEF Occurs
  <2> QED BY <2>1, <2>2, <2>3
<1>5. ASSUME NEW e, AtMostOnce(e, q) PROVE AtMostOnce(e, p)
  BY <1>1, <1>2, <1>5 DEF AtMostOnce
<1>6. ASSUME NEW e, AtMostOnce(e, q), e = Head(q) PROVE ~Occurs(e, p)
  BY <1>1, <1>2, <1>6 DEF AtMostOnce, Occurs
<1> QED BY <1>1, <1>4, <1>5, <1>6

\* erase() of one position keeps the others.
LEMMA EraseIndexFacts ==
    ASSUME NEW S, NEW q \in Seq(S), NEW k \in 1..Len(q)
    PROVE  /\ EraseIndex(q, k) \in Seq(S)
           /\ \A e : Occurs(e, EraseIndex(q, k)) => Occurs(e, q)
           /\ \A e : AtMostOnce(e, q) => AtMostOnce(e, EraseIndex(q, k))
           /\ \A e : AtMostOnce(e, q) /\ e = q[k] => ~Occurs(e, EraseIndex(q, k))
<1> DEFINE p == EraseIndex(q, k)
           at(i) == IF i < k THEN i ELSE i + 1
<1>1. Len(q) \in Nat /\ Len(q) - 1 \in Nat
  OBVIOUS
<1>2. \A i \in 1..(Len(q) - 1) : at(i) \in 1..Len(q) /\ p[i] = q[at(i)] /\ at(i) # k
  BY <1>1 DEF EraseIndex
<1>3. \A i \in 1..(Len(q) - 1) : q[at(i)] \in S
  BY <1>1, <1>2
<1>4. p \in [1..(Len(q) - 1) -> S]
  BY <1>1, <1>3 DEF EraseIndex
<1>5. p \in Seq(S) /\ Len(p) = Len(q) - 1
  BY <1>1, <1>4
<1>6. \A i, j \in 1..(Len(q) - 1) : at(i) = at(j) => i = j
  BY <1>1
<1> HIDE DEF p, at
<1>7. ASSUME NEW e PROVE Occurs(e, p) => Occurs(e, q)
  BY <1>2, <1>5 DEF Occurs
<1>8. ASSUME NEW e, AtMostOnce(e, q) PROVE AtMostOnce(e, p)
  BY <1>2, <1>5, <1>6, <1>8 DEF AtMostOnce
<1>9. ASSUME NEW e, AtMostOnce(e, q), e = q[k] PROVE ~Occurs(e, p)
  BY <1>2, <1>5, <1>9 DEF AtMostOnce, Occurs
<1> QED BY <1>5, <1>7, <1>8, <1>9 DEF p

\* cleanup_pending_task() leaves no entry of the target.
LEMMA EraseFacts ==
    ASSUME NEW S, NEW q \in Seq(S), NEW x
    PROVE  /\ Erase(q, x) \in Seq(S)
           /\ \A e : Occurs(e, Erase(q, x)) => Occurs(e, q)
           /\ \A e : AtMostOnce(e, q) => AtMostOnce(e, Erase(q, x))
           /\ AtMostOnce(x, q) => ~Occurs(x, Erase(q, x))
<1>1. CASE \E k \in 1..Len(q) : q[k] = x
  <2> DEFINE k == CHOOSE k \in 1..Len(q) : q[k] = x
  <2>1. k \in 1..Len(q) /\ q[k] = x
    BY <1>1
  <2>2. Erase(q, x) = EraseIndex(q, k)
    BY <1>1 DEF Erase
  <2> HIDE DEF k
  <2> QED BY <2>1, <2>2, EraseIndexFacts
<1>2. CASE ~ \E k \in 1..Len(q) : q[k] = x
  BY <1>2 DEF Erase, Occurs
<1> QED BY <1>1, <1>2

-----------------------------------------------------------------------------
(* Type correctness *)

\* The kinds of queue entries are told apart, and an entry determines its task.
LEMMA EntryTypes ==
    /\ \A t \in Tasks : TaskEntry(t) \in Entries /\ CancelEntry(t) \in Entries
    /\ NextResponse \in Entries /\ NoEntry \in Entries
    /\ \A t, u \in Tasks : TaskEntry(t) = TaskEntry(u) => t = u
    /\ \A t, u \in Tasks : TaskEntry(t) # CancelEntry(u)
    /\ \A t \in Tasks : TaskEntry(t) # NextResponse /\ TaskEntry(t) # NoEntry
    /\ \A t \in Tasks : CancelEntry(t) # NextResponse /\ CancelEntry(t) # NoEntry
BY DEF Entries, TaskEntry, CancelEntry, NextResponse, NoEntry

\* send() keeps the result queue a sequence of results for every id.
LEMMA SendType ==
    ASSUME TypeOK, NEW t \in Tasks, NEW kind \in ResultKinds, Send(t, kind)
    PROVE  queue_results' \in [Tasks -> Seq(ResultKinds)]
<1>1. queue_results[t] \in Seq(ResultKinds)
  BY DEF TypeOK
<1>2. Append(queue_results[t], kind) \in Seq(ResultKinds)
  BY <1>1
<1> QED BY <1>1, <1>2 DEF Send, TypeOK

\* What post() adds are queue entries.
LEMMA NewEntriesType ==
    ASSUME NEW r \in Readers PROVE NewEntries(r) \in Seq(Entries)
<1>1. Posts[r] \in Seq(Tasks)
  BY PostsAssumption
<1>2. \A i \in 1..Len(Posts[r]) : TaskEntry(Posts[r][i]) \in Entries
  BY <1>1, EntryTypes
<1> QED BY <1>1, <1>2 DEF NewEntries

\* pop_deferred_task() picks a position of the deferred deque.
LEMMA PopDeferredIndexType ==
    ASSUME TypeOK, NEW s \in Slots, queue_tasks_deferred # <<>>
    PROVE  PopDeferredIndex(s) \in 1..Len(queue_tasks_deferred)
<1> DEFINE d == queue_tasks_deferred
           P(i) == IdSlotField(d[i]) = s
<1>1. d \in Seq(Tasks) /\ Len(d) \in Nat /\ Len(d) # 0
  BY DEF TypeOK
<1>2. 1 \in 1..Len(d)
  BY <1>1
<1>3. CASE ~ \E i \in 1..Len(d) : P(i)
  BY <1>2, <1>3 DEF PopDeferredIndex
<1>4. CASE \E i \in 1..Len(d) : P(i)
  <2> DEFINE T == {i \in 1..Len(d) : P(i)}
  <2>1. T \subseteq Nat /\ T # {}
    BY <1>4
  <2>2. PICK i \in T : \A j \in T : ~(<<j, i>> \in OpToRel(<, Nat))
    BY <2>1, NatLessThanWellFounded, WFMin
  <2>3. \A j \in 1..(i - 1) : ~P(j)
    <3> SUFFICES ASSUME NEW j \in 1..(i - 1), P(j) PROVE FALSE
      OBVIOUS
    <3>1. j \in T /\ j \in Nat /\ i \in Nat /\ j < i
      BY <1>1, <2>1
    <3> QED BY <2>2, <3>1 DEF OpToRel
  <2> QED BY <1>4, <2>3 DEF PopDeferredIndex
<1> QED BY <1>3, <1>4

\* launch_slot_with_task() uses free slots only and changes no busy one.
LEMMA LaunchFacts ==
    ASSUME TypeOK, NEW ids \in SUBSET Tasks, NEW g \in Placements(ids), Launch(g)
    PROVE  /\ slot_task' \in [Slots -> Tasks \cup {NoTask}]
           /\ slot_state' \in [Slots -> {"idle", "wait_other", "started", "generating"}]
           /\ \A s \in Slots : slot_state'[s] = "idle" <=> slot_task'[s] = NoTask
           /\ \A t \in ids : g[t] \in Slots /\ slot_task[g[t]] = NoTask /\ slot_task'[g[t]] = t
           /\ \A s \in Slots : slot_task'[s] = slot_task[s]
                               \/ (slot_task[s] = NoTask /\ slot_task'[s] \in ids)
           /\ \A s \in Slots : slot_task[s] # NoTask => slot_task'[s] = slot_task[s]
<1>1. /\ DOMAIN g = ids
      /\ \A t \in ids : g[t] \in Slots /\ slot_task[g[t]] = NoTask
      /\ \A a, b \in ids : g[a] = g[b] => a = b
  BY DEF Placements, IdleSlots, is_processing
<1>2. ASSUME NEW s \in Slots, NEW t \in ids, g[t] = s
      PROVE  /\ slot_task'[s] = t
             /\ slot_state'[s] \in {"wait_other", "started"}
             /\ slot_task[s] = NoTask
  <2>1. (CHOOSE x \in DOMAIN g : g[x] = s) = t
    BY <1>1, <1>2
  <2> QED BY <1>1, <1>2, <2>1 DEF Launch
<1>3. ASSUME NEW s \in Slots, ~ \E t \in ids : g[t] = s
      PROVE  slot_task'[s] = slot_task[s] /\ slot_state'[s] = slot_state[s]
  BY <1>1, <1>3 DEF Launch
<1>4. ASSUME NEW s \in Slots
      PROVE  /\ slot_task'[s] \in Tasks \cup {NoTask}
             /\ slot_state'[s] \in {"idle", "wait_other", "started", "generating"}
             /\ slot_state'[s] = "idle" <=> slot_task'[s] = NoTask
             /\ slot_task'[s] = slot_task[s] \/ (slot_task[s] = NoTask /\ slot_task'[s] \in ids)
             /\ slot_task[s] # NoTask => slot_task'[s] = slot_task[s]
  <2>1. CASE \E t \in ids : g[t] = s
    BY <2>1, <1>2, ModelValuesAssumption
  <2>2. CASE ~ \E t \in ids : g[t] = s
    BY <2>2, <1>3 DEF TypeOK
  <2> QED BY <2>1, <2>2
<1>5. \A t \in ids : g[t] \in Slots /\ slot_task[g[t]] = NoTask /\ slot_task'[g[t]] = t
  BY <1>1, <1>2
<1>6. /\ slot_task' = [s \in Slots |-> slot_task'[s]]
      /\ slot_state' = [s \in Slots |-> slot_state'[s]]
  BY DEF Launch
<1>7. slot_task' \in [Slots -> Tasks \cup {NoTask}]
  BY <1>4, <1>6
<1>8. slot_state' \in [Slots -> {"idle", "wait_other", "started", "generating"}]
  BY <1>4, <1>6
<1> QED BY <1>4, <1>5, <1>7, <1>8

USE DEF queueVars, resultVars, readerVars, slotVars, roundVars, mainVars, vars

\* The type invariant is preserved by every step of an HTTP thread.
LEMMA ReaderTypeStep ==
    ASSUME TypeOK, NEW r \in Readers, ReaderStep(r) \/ Disconnect(r)
    PROVE  TypeOK'
<1> USE ModelValuesAssumption
<1>1. CASE AddWaiting(r)
  BY <1>1 DEF AddWaiting, TypeOK, ReaderPcs, Ids
<1>2. CASE PostTasks(r)
  <2>1. NewEntries(r) \in Seq(Entries) /\ queue_tasks \in Seq(Entries)
    BY NewEntriesType DEF TypeOK
  <2>2. queue_tasks' \in Seq(Entries)
    BY <1>2, <2>1 DEF PostTasks
  <2> QED BY <1>2, <2>2 DEF PostTasks, TypeOK, ReaderPcs
<1>3. ASSUME NEW t \in Tasks, RecvResult(r, t) PROVE TypeOK'
  <2>1. queue_results[t] \in Seq(ResultKinds) /\ queue_results[t] # <<>>
    BY <1>3 DEF RecvResult, TypeOK
  <2>2. Head(queue_results[t]) \in ResultKinds /\ Tail(queue_results[t]) \in Seq(ResultKinds)
    BY <2>1
  <2>3. queue_results' \in [Tasks -> Seq(ResultKinds)]
    BY <1>3, <2>2 DEF RecvResult, TypeOK
  <2> QED BY <1>3, <2>2, <2>3 DEF RecvResult, TypeOK, ReaderPcs, Terminal, ResultKinds
<1>4. CASE AllReceived(r)
  BY <1>4 DEF AllReceived, TypeOK, ReaderPcs
<1>5. CASE StopWaiting(r)
  <2>1. has_next(r) \in BOOLEAN
    BY DEF has_next
  <2> QED BY <1>5, <2>1 DEF StopWaiting, TypeOK, ReaderPcs, Ids
<1>6. ASSUME NEW t \in Tasks, ClearResults(r, t) PROVE TypeOK'
  <2>1. <<>> \in Seq(ResultKinds)
    OBVIOUS
  <2>2. queue_results' \in [Tasks -> Seq(ResultKinds)]
    BY <1>6, <2>1 DEF ClearResults, TypeOK
  <2> QED BY <1>6, <2>2 DEF ClearResults, TypeOK, ReaderPcs
<1>7. CASE LockForCancel(r)
  BY <1>7 DEF LockForCancel, TypeOK, ReaderPcs, Ids
<1>8. ASSUME NEW t \in Tasks, PostCancel(r, t) PROVE TypeOK'
  <2>1. /\ Erase(queue_tasks, TaskEntry(t)) \in Seq(Entries)
        /\ Erase(queue_tasks_deferred, t) \in Seq(Tasks)
    BY EraseFacts DEF TypeOK
  <2>2. queue_tasks' \in Seq(Entries)
    BY <1>8, <2>1, EntryTypes, PrependFacts DEF PostCancel
  <2> QED BY <1>8, <2>1, <2>2 DEF PostCancel, TypeOK, ReaderPcs
<1>9. CASE Disconnect(r)
  BY <1>9 DEF Disconnect, TypeOK, ReaderPcs
<1> QED BY <1>1, <1>2, <1>3, <1>4, <1>5, <1>6, <1>7, <1>8, <1>9 DEF ReaderStep

\* process_single_task() preserves the type invariant.
LEMMA ProcessTypeStep ==
    ASSUME TypeOK, NEW t \in Tasks, ProcessTask(t)
    PROVE  TypeOK'
<1> USE ModelValuesAssumption
<1>0. NoEntry \in Entries
  BY EntryTypes
<1>1. ASSUME Defer(t), main_pc = "process" PROVE TypeOK'
  <2>1. queue_tasks_deferred' \in Seq(Tasks)
    BY <1>1, AppendFacts DEF Defer, TypeOK
  <2> QED BY <1>0, <1>1, <2>1 DEF Defer, BackToLoop, TypeOK, MainPcs
<1>2. ASSUME NEW kind \in ResultKinds, Answer(t, kind), main_pc = "process" PROVE TypeOK'
  <2>1. queue_results' \in [Tasks -> Seq(ResultKinds)]
    BY <1>2, SendType DEF Answer
  <2> QED BY <1>0, <1>2, <2>1 DEF Answer, BackToLoop, TypeOK, MainPcs
<1>3. CASE DeferCompletion(t)
  BY <1>1, <1>3 DEF DeferCompletion, Processing
<1>4. CASE LaunchCompletion(t)
  <2>1. PICK g \in Placements({t} \cup Children(t)) : Launch(g)
    BY <1>4 DEF LaunchCompletion
  <2>2. {t} \cup Children(t) \in SUBSET Tasks
    BY DEF Children
  <2>3. /\ slot_task' \in [Slots -> Tasks \cup {NoTask}]
        /\ slot_state' \in [Slots -> {"idle", "wait_other", "started", "generating"}]
        /\ \A s \in Slots : slot_state'[s] = "idle" <=> slot_task'[s] = NoTask
        /\ \A s \in Slots : slot_task[s] # NoTask => slot_task'[s] = slot_task[s]
    BY <2>1, <2>2, LaunchFacts
  <2>4. work' = work
    BY <2>1 DEF Launch
  <2> QED BY <1>0, <1>4, <2>3, <2>4 DEF LaunchCompletion, Processing, BackToLoop, TypeOK, MainPcs
<1>5. CASE LaunchFails(t)
  <2>a. PICK u \in ({t} \cup Children(t)) \cap MayFail :
           \E launched \in SUBSET (Children(t) \ {u}) : \E g \in Placements(launched) :
              /\ Launch(g) /\ Send(u, "error")
              /\ to_release' = {g[c] : c \in launched}
    BY <1>5 DEF LaunchFails
  <2>b. PICK launched \in SUBSET (Children(t) \ {u}) : \E g \in Placements(launched) :
              /\ Launch(g) /\ Send(u, "error")
              /\ to_release' = {g[c] : c \in launched}
    BY <2>a
  <2>1. PICK g \in Placements(launched) :
              /\ Launch(g) /\ Send(u, "error")
              /\ to_release' = {g[c] : c \in launched}
    BY <2>b
  <2>2. launched \in SUBSET Tasks /\ u \in Tasks
    BY DEF Children
  <2>3. /\ slot_task' \in [Slots -> Tasks \cup {NoTask}]
        /\ slot_state' \in [Slots -> {"idle", "wait_other", "started", "generating"}]
        /\ \A s \in Slots : slot_state'[s] = "idle" <=> slot_task'[s] = NoTask
        /\ \A s \in Slots : slot_task[s] # NoTask => slot_task'[s] = slot_task[s]
        /\ \A c \in launched : g[c] \in Slots /\ slot_task'[g[c]] = c
    BY <2>1, <2>2, LaunchFacts
  <2>4. queue_results' \in [Tasks -> Seq(ResultKinds)]
    BY <2>1, <2>2, SendType DEF ResultKinds
  <2>5. work' = work /\ todo = {} /\ todo' = {}
    BY <1>5, <2>1 DEF Launch, LaunchFails, Processing, TypeOK
  <2>6. to_release' \in SUBSET Slots /\ \A s \in to_release' : slot_task'[s] # NoTask
    BY <2>1, <2>2, <2>3
  <2> QED BY <1>0, <1>5, <2>3, <2>4, <2>5, <2>6 DEF LaunchFails, Processing, TypeOK, MainPcs
<1>6. CASE RejectTask(t)
  BY <1>2, <1>6 DEF RejectTask, Processing, ResultKinds
<1>7. CASE DeferSlotAction(t)
  BY <1>1, <1>7 DEF DeferSlotAction, Processing
<1>8. CASE DoSlotAction(t)
  BY <1>2, <1>8 DEF DoSlotAction, Processing, ResultKinds
<1>9. CASE DoInstant(t)
  BY <1>2, <1>9 DEF DoInstant, Processing, ResultKinds
<1>10. CASE ProcessCancel(t)
  BY <1>0, <1>10 DEF ProcessCancel, TypeOK, MainPcs
<1> QED BY <1>3, <1>4, <1>5, <1>6, <1>7, <1>8, <1>9, <1>10 DEF ProcessTask

\* What pop_deferred_task() does to the two deques.
LEMMA PopDeferredFacts ==
    ASSUME TypeOK, NEW s \in Slots, PopDeferredTask(s)
    PROVE  /\ queue_tasks' \in Seq(Entries) /\ queue_tasks_deferred' \in Seq(Tasks)
           /\ running' = running /\ lock' = lock
           /\ \/ queue_tasks' = queue_tasks /\ queue_tasks_deferred' = queue_tasks_deferred
              \/ \E t \in Tasks :
                    /\ Occurs(t, queue_tasks_deferred)
                    /\ queue_tasks' = <<TaskEntry(t)>> \o queue_tasks
                    /\ \A e : Occurs(e, queue_tasks_deferred') => Occurs(e, queue_tasks_deferred)
                    /\ \A e : AtMostOnce(e, queue_tasks_deferred)
                              => AtMostOnce(e, queue_tasks_deferred')
                    /\ AtMostOnce(t, queue_tasks_deferred) => ~Occurs(t, queue_tasks_deferred')
<1>1. CASE queue_tasks_deferred = <<>>
  BY <1>1 DEF PopDeferredTask, TypeOK
<1>2. CASE queue_tasks_deferred # <<>>
  <2> DEFINE d == queue_tasks_deferred
             i == PopDeferredIndex(s)
             t == d[i]
  <2>1. d \in Seq(Tasks) /\ queue_tasks \in Seq(Entries) /\ i \in 1..Len(d)
    BY <1>2, PopDeferredIndexType DEF TypeOK
  <2> HIDE DEF i
  <2>2. t \in Tasks /\ Occurs(t, d)
    BY <2>1 DEF Occurs
  <2>3. queue_tasks' = <<TaskEntry(t)>> \o queue_tasks /\ queue_tasks_deferred' = EraseIndex(d, i)
    BY <1>2 DEF PopDeferredTask, i
  <2>4. queue_tasks' \in Seq(Entries)
    BY <2>1, <2>2, <2>3, EntryTypes, PrependFacts
  <2>5. /\ queue_tasks_deferred' \in Seq(Tasks)
        /\ \A e : Occurs(e, queue_tasks_deferred') => Occurs(e, d)
        /\ \A e : AtMostOnce(e, d) => AtMostOnce(e, queue_tasks_deferred')
        /\ AtMostOnce(t, d) => ~Occurs(t, queue_tasks_deferred')
    BY <2>1, <2>3, EraseIndexFacts
  <2>6. running' = running /\ lock' = lock
    BY DEF PopDeferredTask
  <2> QED BY <2>2, <2>3, <2>4, <2>5, <2>6
<1> QED BY <1>1, <1>2

\* The rounds of update_slots() preserve the type invariant.
LEMMA SlotTypeStep ==
    ASSUME TypeOK, NEW s \in Slots, SlotStep(s)
    PROVE  TypeOK'
<1> USE ModelValuesAssumption
<1>0. s \in todo => slot_task[s] \in Tasks /\ slot_state[s] # "idle" /\ s \notin to_release
  BY DEF TypeOK
<1>1. CASE SlotContinues(s)
  <2>1. queue_results' \in [Tasks -> Seq(ResultKinds)]
    <3>1. CASE UNCHANGED queue_results
      BY <3>1 DEF TypeOK
    <3>2. CASE Send(slot_task[s], "partial")
      BY <1>0, <1>1, <3>2, SendType DEF SlotContinues, ResultKinds
    <3> QED BY <1>1, <3>1, <3>2 DEF SlotContinues
  <2>2. work' \in [Tasks -> Nat]
    BY <1>0, <1>1 DEF SlotContinues, TypeOK
  <2> QED BY <1>1, <2>1, <2>2 DEF SlotContinues, TypeOK
<1>2. CASE PromptDone(s)
  <2> DEFINE ready == {c \in Slots : /\ slot_state[c] = "wait_other"
                                     /\ Parent[slot_task[c]] = slot_task[s]}
  <2>1. /\ slot_state' = [c \in Slots |-> IF c = s \/ c \in ready THEN "generating"
                                                                  ELSE slot_state[c]]
        /\ todo' = todo \cup ready /\ main_pc = "slots" /\ s \in todo
        /\ UNCHANGED <<queueVars, resultVars, readerVars, slot_task, work,
                       to_release, return_pc, mainVars>>
    BY <1>2 DEF PromptDone
  <2>2. slot_state' \in [Slots -> {"idle", "wait_other", "started", "generating"}]
    BY <2>1 DEF TypeOK
  <2>3. \A c \in Slots : slot_state'[c] = "idle" <=> slot_task'[c] = NoTask
    BY <1>0, <2>1 DEF TypeOK
  <2>4. todo' \in SUBSET Slots /\ \A c \in todo' : slot_task'[c] # NoTask
    BY <2>1 DEF TypeOK
  <2>5. to_release = {}
    BY <2>1 DEF TypeOK
  <2> QED BY <2>1, <2>2, <2>3, <2>4, <2>5 DEF TypeOK
<1>3. ASSUME NEW kind \in ResultKinds, EndSlot(s, kind), main_pc \in {"slots", "abort"}, s \in todo
      PROVE  TypeOK'
  <2>1. queue_results' \in [Tasks -> Seq(ResultKinds)]
    BY <1>0, <1>3, SendType DEF EndSlot
  <2> QED BY <1>0, <1>3, <2>1 DEF EndSlot, TypeOK, MainPcs
<1>4. CASE SlotFinishes(s)
  BY <1>3, <1>4 DEF SlotFinishes, ResultKinds
<1>5. CASE SlotFails(s)
  BY <1>3, <1>5 DEF SlotFails, ResultKinds
<1>6. CASE AbortSlot(s)
  BY <1>3, <1>6 DEF AbortSlot, ResultKinds
<1>7. CASE Release(s)
  <2>1. /\ queue_tasks' \in Seq(Entries) /\ queue_tasks_deferred' \in Seq(Tasks)
        /\ running' = running /\ lock' = lock
    BY <1>7, PopDeferredFacts DEF Release
  <2> QED BY <1>7, <2>1 DEF Release, TypeOK
<1> QED BY <1>1, <1>2, <1>4, <1>5, <1>6, <1>7 DEF SlotStep

\* Every step preserves the type invariant.
LEMMA TypeStep == TypeOK /\ [Next]_vars => TypeOK'
<1> SUFFICES ASSUME TypeOK, [Next]_vars PROVE TypeOK'
  OBVIOUS
<1>1. CASE UNCHANGED vars
  BY <1>1 DEF TypeOK
<1>2. ASSUME NEW r \in Readers, ReaderStep(r) \/ Disconnect(r) PROVE TypeOK'
  BY <1>2, ReaderTypeStep
<1>3. ASSUME NEW t \in Tasks, ProcessTask(t) PROVE TypeOK'
  BY <1>3, ProcessTypeStep
<1>4. ASSUME NEW s \in Slots, SlotStep(s) PROVE TypeOK'
  BY <1>4, SlotTypeStep
<1>5. CASE PopTask
  <2>1. Head(queue_tasks) \in Entries /\ Tail(queue_tasks) \in Seq(Entries)
    BY <1>5, TailFacts DEF PopTask, TypeOK
  <2> QED BY <1>5, <2>1 DEF PopTask, TypeOK, MainPcs
<1>6. CASE QueueEmpty \/ LoopExit \/ WaitEnd \/ AllIdle
  BY <1>6 DEF QueueEmpty, LoopExit, WaitEnd, AllIdle, TypeOK, MainPcs
<1>7. CASE ProcessNextResponse
  BY <1>7, EntryTypes DEF ProcessNextResponse, BackToLoop, TypeOK, MainPcs
<1>8. CASE UpdateSlots
  <2>1. queue_tasks' \in Seq(Entries)
    BY <1>8, EntryTypes, AppendFacts DEF UpdateSlots, TypeOK
  <2>2. todo' \in SUBSET Slots /\ (\A s \in todo' : slot_task[s] # NoTask) /\ to_release = {}
    BY <1>8 DEF UpdateSlots, Batchable, TypeOK
  <2> QED BY <1>8, <2>1, <2>2 DEF UpdateSlots, TypeOK, MainPcs
<1>9. CASE AbortAllSlots
  BY <1>9 DEF AbortAllSlots, IdleSlots, is_processing, TypeOK, MainPcs
<1>10. CASE RoundEnd
  BY <1>10 DEF RoundEnd, TypeOK, MainPcs
<1>11. CASE Released
  BY <1>11 DEF Released, TypeOK, MainPcs
<1>12. CASE terminate
  BY <1>12 DEF terminate, TypeOK
<1> QED BY <1>1, <1>2, <1>3, <1>4, <1>5, <1>6, <1>7, <1>8, <1>9, <1>10, <1>11, <1>12
        DEF Next, MainStep

\* The type invariant holds initially.
LEMMA TypeInit == Init => TypeOK
BY ModelValuesAssumption, EntryTypes
   DEF Init, TypeOK, ReaderPcs, MainPcs, NoEntry, Entries, ResultKinds, Terminal

\* The state of the queues, readers, main thread and slots keeps its types and
\* the links between its parts in every reachable state.
THEOREM TypeCorrect == Spec => []TypeOK
BY TypeInit, TypeStep, PTL DEF Spec

-----------------------------------------------------------------------------
(* The safety invariant *)

Inv == TypeOK /\ OnePlace /\ TasksPosted /\ AnswerOnce /\ ReaderPhases

\* No task gets a new place, though it may lose one.
Shrinks ==
    /\ \A t \in Tasks :
          /\ Queued(t)' => Queued(t)
          /\ Deferred(t)' => Deferred(t)
          /\ Processing(t)' => Processing(t)
          /\ AtMostOnce(TaskEntry(t), queue_tasks)'
          /\ AtMostOnce(t, queue_tasks_deferred)'
    /\ \A s \in Slots : slot_task'[s] = slot_task[s] \/ slot_task'[s] = NoTask

\* A slot that is being released is either still being released or has no task.
KeepsReleases ==
    \A s \in Slots : main_pc = "release" /\ s \in to_release /\ slot_task'[s] # NoTask
                        => main_pc' = "release" /\ s \in to_release'

\* The place of a task stays unique while places only shrink.
LEMMA ShrinkPlaces ==
    ASSUME TypeOK, OnePlace, TasksPosted, Shrinks, \A r \in Readers : Posted(r) => Posted(r)'
    PROVE  OnePlace' /\ TasksPosted'
<1> USE ModelValuesAssumption, TaskAssumption
<1>1. ASSUME NEW t \in Tasks PROVE (Pending(t)' => Pending(t)) /\ (Runs(t)' => Runs(t))
  BY DEF Shrinks, Pending, Runs, RunsOn
<1>2. OnePlace'
  <2>1. ASSUME NEW t \in Tasks
        PROVE  /\ Queued(t)' => ~Deferred(t)' /\ ~Processing(t)'
               /\ Deferred(t)' => ~Processing(t)'
               /\ Runs(t)' => ~Pending(t)'
               /\ Runs(t)' /\ Parent[t] # NoTask => ~Pending(Parent[t])'
    BY <1>1 DEF OnePlace, Shrinks
  <2>2. \A x, y \in Slots : slot_task'[x] # NoTask /\ slot_task'[x] = slot_task'[y] => x = y
    BY DEF OnePlace, Shrinks
  <2> QED BY <2>1, <2>2 DEF OnePlace, Shrinks
<1>3. TasksPosted'
  BY <1>1 DEF TasksPosted
<1> QED BY <1>2, <1>3

\* A task that is settled stays so while places only shrink.
LEMMA ShrinkSettled ==
    ASSUME Shrinks, KeepsReleases, NEW t \in Tasks, Settled(t)
    PROVE  Settled(t)'
<1> USE ModelValuesAssumption, TaskAssumption
<1>1. \A u \in Tasks : Pending(u)' => Pending(u)
  BY DEF Shrinks, Pending
<1>2. \A s \in Slots : RunsOn(t, s)' => main_pc' = "release" /\ s \in to_release'
  BY DEF Shrinks, KeepsReleases, Settled, RunsOn
<1> QED BY <1>1, <1>2 DEF Settled

\* Answers when no result is sent or taken.
LEMMA SameResults ==
    ASSUME AnswerOnce, \A t \in Tasks : HasTerminal(t) /\ Settled(t) => Settled(t)',
           UNCHANGED <<queue_results, answered>>
    PROVE  AnswerOnce'
BY DEF AnswerOnce, HasTerminal

\* Answers after server_response::send() of a result for u.
LEMMA SendAnswers ==
    ASSUME TypeOK, AnswerOnce,
           NEW u \in Tasks, NEW kind \in ResultKinds, Send(u, kind), ~HasTerminal(u),
           answered' = answered,
           \A t \in Tasks : HasTerminal(t) /\ Settled(t) => Settled(t)',
           kind \in Terminal => Settled(u)'
    PROVE  AnswerOnce'
<1>1. queue_results \in [Tasks -> Seq(ResultKinds)]
  BY DEF TypeOK
<1>2. \A t \in Tasks : t # u => queue_results'[t] = queue_results[t]
  BY <1>1 DEF Send
<1>3. queue_results'[u] = queue_results[u] \/ queue_results'[u] = Append(queue_results[u], kind)
  BY <1>1 DEF Send
<1>4. ASSUME NEW t \in Tasks, t # u
      PROVE  /\ answered'[t] # "no" => queue_results'[t] = <<>>
             /\ \A i \in 1..Len(queue_results'[t]) :
                   queue_results'[t][i] \in Terminal => i = Len(queue_results'[t])
             /\ HasTerminal(t)' => Settled(t)'
  BY <1>2, <1>4 DEF AnswerOnce, HasTerminal
<1>5. /\ answered[u] = "no"
      /\ \A i \in 1..Len(queue_results[u]) : queue_results[u][i] \notin Terminal
  BY DEF HasTerminal
<1>6. CASE queue_results'[u] = queue_results[u]
  BY <1>4, <1>5, <1>6 DEF AnswerOnce, HasTerminal
<1>7. CASE queue_results'[u] = Append(queue_results[u], kind)
  <2> DEFINE old == queue_results[u]
             new == queue_results'[u]
  <2>1. old \in Seq(ResultKinds) /\ Len(old) \in Nat
    BY <1>1
  <2>2. Len(new) = Len(old) + 1 /\ new[Len(new)] = kind
    BY <1>7, <2>1
  <2>3. \A i \in 1..Len(old) : new[i] = old[i]
    BY <1>7, <2>1
  <2> HIDE DEF old, new
  <2>4. \A i \in 1..Len(new) : i = Len(new) \/ new[i] \notin Terminal
    <3> SUFFICES ASSUME NEW i \in 1..Len(new), i # Len(new) PROVE new[i] \notin Terminal
      OBVIOUS
    <3>1. i \in 1..Len(old)
      BY <2>1, <2>2
    <3> QED BY <1>5, <2>3, <3>1 DEF old
  <2>5. HasTerminal(u)' => Settled(u)'
    <3> SUFFICES ASSUME HasTerminal(u)', kind \notin Terminal PROVE FALSE
      OBVIOUS
    <3>1. \E i \in 1..Len(new) : new[i] \in Terminal
      BY <1>5 DEF HasTerminal, new
    <3> QED BY <2>2, <2>4, <3>1
  <2> QED BY <1>4, <1>5, <2>4, <2>5 DEF AnswerOnce, new
<1> QED BY <1>3, <1>6, <1>7

\* Phases after a send for a task whose reader has posted.
LEMMA SendPhases ==
    ASSUME TypeOK, ReaderPhases, NEW u \in Tasks, NEW kind \in ResultKinds, Send(u, kind),
           Posted(Owner[u]), UNCHANGED <<waiting_task_ids, readerVars>>
    PROVE  ReaderPhases'
<1>1. queue_results \in [Tasks -> Seq(ResultKinds)]
  BY DEF TypeOK
<1>2. \A t \in Tasks : queue_results'[t] = queue_results[t] \/ (t = u /\ u \in waiting_task_ids)
  BY <1>1 DEF Send
<1>3. ASSUME NEW r \in Readers, NEW t \in Ids(r)
      PROVE  /\ queue_results'[t] # <<>> =>
                  t \in waiting_task_ids \/ (reader_pc[r] = "clearing" /\ t \in id_left[r])
             /\ ~Posted(r) => answered[t] = "no" /\ queue_results'[t] = <<>>
  <2>1. t \in Tasks /\ Owner[t] = r
    BY DEF Ids
  <2>2. CASE queue_results'[t] = queue_results[t]
    BY <2>2 DEF ReaderPhases
  <2>3. CASE t = u /\ u \in waiting_task_ids
    BY <2>1, <2>3
  <2> QED BY <1>2, <2>1, <2>2, <2>3
<1> QED BY <1>3 DEF ReaderPhases, Posted

\* Phases when neither a result nor a reader changes.
LEMMA SamePhases ==
    ASSUME ReaderPhases, UNCHANGED <<waiting_task_ids, queue_results, readerVars>>
    PROVE  ReaderPhases'
BY DEF ReaderPhases, Posted

\* Steps that move no task, send nothing and touch no reader.
LEMMA QuietStep ==
    ASSUME Inv, Shrinks, KeepsReleases, UNCHANGED <<resultVars, readerVars>>
    PROVE  OnePlace' /\ TasksPosted' /\ AnswerOnce' /\ ReaderPhases'
<1>1. OnePlace' /\ TasksPosted'
  BY ShrinkPlaces DEF Inv, Posted
<1>2. AnswerOnce'
  BY ShrinkSettled, SameResults DEF Inv
<1>3. ReaderPhases'
  BY SamePhases DEF Inv
<1> QED BY <1>1, <1>2, <1>3

\* Nothing moves when both deques, the popped task and the slots stay as they are.
LEMMA FrameShrinks ==
    ASSUME OnePlace, UNCHANGED <<queue_tasks, queue_tasks_deferred, slot_task>>,
           \A t \in Tasks : Processing(t)' => Processing(t)
    PROVE  Shrinks
BY DEF Shrinks, OnePlace, Queued, Deferred, Occurs, AtMostOnce

Rest == OnePlace /\ TasksPosted /\ AnswerOnce /\ ReaderPhases

\* Steps of the main thread that only move it on.
LEMMA MainQuiet ==
    ASSUME Inv,
           QueueEmpty \/ LoopExit \/ WaitEnd \/ AllIdle \/ RoundEnd \/ Released
           \/ AbortAllSlots \/ terminate \/ ProcessNextResponse
           \/ (\E t \in Tasks : ProcessCancel(t)) \/ (\E s \in Slots : PromptDone(s))
    PROVE  Rest'
<1>1. /\ UNCHANGED <<queue_tasks, queue_tasks_deferred, slot_task, resultVars, readerVars>>
      /\ main_pc' = "process" => main_pc = "process" /\ cur' = cur
      /\ main_pc = "release" => to_release = {} \/ (main_pc' = "release" /\ to_release' = to_release)
  BY EntryTypes
     DEF QueueEmpty, LoopExit, WaitEnd, AllIdle, RoundEnd, Released, AbortAllSlots, terminate,
         ProcessNextResponse, BackToLoop, ProcessCancel, PromptDone, Inv, TypeOK
<1>2. \A t \in Tasks : Processing(t)' => Processing(t)
  BY <1>1 DEF Processing
<1>3. Shrinks
  BY <1>1, <1>2, FrameShrinks DEF Inv
<1>4. KeepsReleases
  BY <1>1 DEF KeepsReleases
<1> QED BY <1>1, <1>3, <1>4, QuietStep DEF Rest

\* Posting NEXT_RESPONSE changes no task.
LEMMA UpdateSlotsStep ==
    ASSUME Inv, UpdateSlots
    PROVE  Rest'
<1>1. queue_tasks \in Seq(Entries) /\ NextResponse \in Entries
      /\ queue_tasks' = Append(queue_tasks, NextResponse)
  BY EntryTypes DEF Inv, TypeOK, UpdateSlots
<1>2. /\ \A e : Occurs(e, queue_tasks') <=> e = NextResponse \/ Occurs(e, queue_tasks)
      /\ \A e : AtMostOnce(e, queue_tasks) /\ (e = NextResponse => ~Occurs(e, queue_tasks))
                => AtMostOnce(e, queue_tasks')
  BY <1>1, AppendFacts
<1>3. Shrinks
  <2>1. ASSUME NEW t \in Tasks
        PROVE  /\ Queued(t)' => Queued(t)
               /\ AtMostOnce(TaskEntry(t), queue_tasks')
    BY <1>2, EntryTypes DEF Queued, Inv, OnePlace
  <2>2. ASSUME NEW t \in Tasks
        PROVE  /\ Deferred(t)' => Deferred(t)
               /\ Processing(t)' => Processing(t)
               /\ AtMostOnce(t, queue_tasks_deferred)'
    BY DEF UpdateSlots, Deferred, Processing, Inv, OnePlace, AtMostOnce, Occurs
  <2> QED BY <2>1, <2>2 DEF Shrinks, UpdateSlots, AtMostOnce
<1>4. KeepsReleases
  BY DEF UpdateSlots, KeepsReleases
<1> QED BY <1>3, <1>4, QuietStep DEF Rest, UpdateSlots

\* start_loop() pops a task: the task moves from the queue to the main thread.
LEMMA PopTaskStep ==
    ASSUME Inv, PopTask
    PROVE  Rest'
<1> USE ModelValuesAssumption, TaskAssumption
<1>1. /\ \A e : Occurs(e, queue_tasks) <=> e = Head(queue_tasks) \/ Occurs(e, queue_tasks')
      /\ \A e : AtMostOnce(e, queue_tasks) => AtMostOnce(e, queue_tasks')
      /\ \A e : AtMostOnce(e, queue_tasks) /\ e = Head(queue_tasks) => ~Occurs(e, queue_tasks')
  BY TailFacts DEF PopTask, Inv, TypeOK
<1>2. /\ UNCHANGED <<queue_tasks_deferred, slot_task, resultVars, readerVars, to_release>>
      /\ main_pc = "loop" /\ main_pc' = "process" /\ cur' = Head(queue_tasks)
  BY DEF PopTask
<1>3. ASSUME NEW t \in Tasks
      PROVE  /\ ~Processing(t) /\ (Processing(t)' <=> TaskEntry(t) = Head(queue_tasks))
             /\ Queued(t)' => Queued(t) /\ ~Processing(t)'
             /\ Processing(t)' => Queued(t)
             /\ Deferred(t)' <=> Deferred(t)
             /\ Runs(t)' <=> Runs(t)
             /\ AtMostOnce(TaskEntry(t), queue_tasks)'
             /\ AtMostOnce(t, queue_tasks_deferred)'
  <2>1. ~Processing(t) /\ (Processing(t)' <=> TaskEntry(t) = Head(queue_tasks))
    BY <1>2 DEF Processing
  <2>2. AtMostOnce(TaskEntry(t), queue_tasks) /\ AtMostOnce(t, queue_tasks_deferred)
    BY DEF Inv, OnePlace
  <2>3. /\ Queued(t)' => Queued(t) /\ TaskEntry(t) # Head(queue_tasks)
        /\ TaskEntry(t) = Head(queue_tasks) => Queued(t)
    BY <1>1, <2>2 DEF Queued
  <2>4. /\ Deferred(t)' <=> Deferred(t)
        /\ Runs(t)' <=> Runs(t)
        /\ AtMostOnce(t, queue_tasks_deferred)'
    BY <1>2, <2>2 DEF Deferred, Runs, RunsOn, Occurs, AtMostOnce
  <2>5. AtMostOnce(TaskEntry(t), queue_tasks')
    BY <1>1, <2>2
  <2> QED BY <2>1, <2>3, <2>4, <2>5 DEF AtMostOnce
<1>4. ASSUME NEW t \in Tasks PROVE Pending(t)' => Pending(t)
  BY <1>3 DEF Pending
<1>5. OnePlace'
  BY <1>2, <1>3, <1>4 DEF Inv, OnePlace
<1>6. TasksPosted'
  BY <1>2, <1>3, <1>4 DEF Inv, TasksPosted, Posted
<1>7. \A t \in Tasks : Settled(t) => Settled(t)'
  BY <1>2, <1>4 DEF Settled, RunsOn
<1>8. AnswerOnce' /\ ReaderPhases'
  BY <1>2, <1>7, SameResults, SamePhases DEF Inv
<1> QED BY <1>5, <1>6, <1>8 DEF Rest

\* defer(): the popped task moves to the deferred deque.
LEMMA DeferStep ==
    ASSUME Inv, NEW t \in Tasks, Processing(t), Defer(t)
    PROVE  Rest'
<1> USE ModelValuesAssumption, TaskAssumption
<1>1. /\ \A e : Occurs(e, queue_tasks_deferred') <=> e = t \/ Occurs(e, queue_tasks_deferred)
      /\ \A e : AtMostOnce(e, queue_tasks_deferred) /\ (e = t => ~Occurs(e, queue_tasks_deferred))
                => AtMostOnce(e, queue_tasks_deferred')
  BY AppendFacts DEF Defer, Inv, TypeOK
<1>2. /\ UNCHANGED <<queue_tasks, slot_task, resultVars, readerVars, to_release>>
      /\ main_pc = "process" /\ main_pc' = "loop"
  BY DEF Defer, BackToLoop, Processing
<1>3. \A u \in Tasks : ~Processing(u)' /\ (Processing(u) <=> u = t)
  BY <1>2, EntryTypes DEF Processing
<1>4. ~Deferred(t) /\ ~Queued(t)
  BY DEF Inv, OnePlace
<1>5. ASSUME NEW u \in Tasks
      PROVE  /\ Deferred(u)' <=> u = t \/ Deferred(u)
             /\ Queued(u)' <=> Queued(u)
             /\ Runs(u)' <=> Runs(u)
             /\ AtMostOnce(TaskEntry(u), queue_tasks)'
             /\ AtMostOnce(u, queue_tasks_deferred)'
  <2>1. Deferred(u)' <=> u = t \/ Deferred(u)
    BY <1>1 DEF Deferred
  <2>2. (Queued(u)' <=> Queued(u)) /\ (Runs(u)' <=> Runs(u))
    BY <1>2 DEF Queued, Runs, RunsOn, Occurs
  <2>3. AtMostOnce(TaskEntry(u), queue_tasks)'
    BY <1>2 DEF Inv, OnePlace, AtMostOnce
  <2>4. AtMostOnce(u, queue_tasks_deferred')
    BY <1>1, <1>4 DEF Inv, OnePlace, Deferred
  <2> QED BY <2>1, <2>2, <2>3, <2>4 DEF AtMostOnce
<1>6. ASSUME NEW u \in Tasks PROVE Pending(u)' <=> Pending(u)
  BY <1>3, <1>5 DEF Pending
<1>7. OnePlace'
  BY <1>2, <1>3, <1>4, <1>5, <1>6 DEF Inv, OnePlace
<1>8. TasksPosted'
  BY <1>2, <1>5, <1>6 DEF Inv, TasksPosted, Posted
<1>9. \A u \in Tasks : Settled(u) => Settled(u)'
  BY <1>2, <1>6 DEF Settled, RunsOn
<1>10. AnswerOnce' /\ ReaderPhases'
  BY <1>2, <1>9, SameResults, SamePhases DEF Inv
<1> QED BY <1>7, <1>8, <1>10 DEF Rest

\* A result is sent while no task moves to a new place.
LEMMA SendStep ==
    ASSUME Inv, Shrinks, KeepsReleases,
           NEW u \in Tasks, NEW kind \in ResultKinds, Send(u, kind), ~HasTerminal(u),
           Posted(Owner[u]), kind \in Terminal => Settled(u)',
           UNCHANGED <<waiting_task_ids, readerVars>>
    PROVE  Rest'
<1>1. OnePlace' /\ TasksPosted'
  BY ShrinkPlaces DEF Inv, Posted
<1>2. AnswerOnce'
  BY ShrinkSettled, SendAnswers DEF Inv
<1>3. ReaderPhases'
  BY SendPhases DEF Inv
<1> QED BY <1>1, <1>2, <1>3 DEF Rest

\* The popped task is answered and dropped.
LEMMA AnswerStep ==
    ASSUME Inv, NEW t \in Tasks, Processing(t), NEW kind \in ResultKinds, Answer(t, kind)
    PROVE  Rest'
<1> USE ModelValuesAssumption, TaskAssumption
<1>1. /\ UNCHANGED <<queueVars, waiting_task_ids, readerVars, slotVars, roundVars>>
      /\ main_pc = "process" /\ main_pc' = "loop" /\ Send(t, kind)
  BY DEF Answer, BackToLoop, Processing
<1>2. \A u \in Tasks : ~Processing(u)'
  BY <1>1 DEF Processing
<1>3. Shrinks
  BY <1>1, <1>2, FrameShrinks DEF Inv
<1>4. KeepsReleases
  BY <1>1 DEF KeepsReleases
<1>5. Pending(t) /\ Parent[t] = NoTask /\ Posted(Owner[t]) /\ ~Queued(t) /\ ~Deferred(t) /\ ~Runs(t)
  BY DEF Pending, Inv, TasksPosted, OnePlace
<1>6. ~HasTerminal(t)
  BY <1>5 DEF Inv, AnswerOnce, Settled
<1>7. Settled(t)'
  BY <1>1, <1>2, <1>5 DEF Settled, Pending, Runs, RunsOn, Queued, Deferred, Occurs
<1> QED BY <1>1, <1>3, <1>4, <1>5, <1>6, <1>7, SendStep

\* The tasks of `ids` go on slots while the popped task leaves the main thread.
LEMMA LaunchPlaces ==
    ASSUME Inv, NEW t \in Tasks, Processing(t),
           NEW ids \in SUBSET ({t} \cup Children(t)), NEW g \in Placements(ids), Launch(g),
           UNCHANGED <<queueVars, readerVars>>, main_pc' # "process"
    PROVE  /\ OnePlace' /\ TasksPosted'
           /\ \A u \in Tasks : Pending(u)' => Pending(u) /\ u # t
           /\ \A u \in Tasks : \A s \in Slots : RunsOn(u, s)' => RunsOn(u, s) \/ u \in ids
           /\ \A u \in {t} \cup Children(t) : ~HasTerminal(u) /\ ~Runs(u) /\ Posted(Owner[u])
           /\ \A u \in Tasks : HasTerminal(u) /\ Settled(u) => Settled(u)'
<1> USE ModelValuesAssumption, TaskAssumption
<1>1. ids \in SUBSET Tasks /\ Children(t) \in SUBSET Tasks
  BY DEF Children
<1>2. /\ \A c \in ids : g[c] \in Slots /\ slot_task[g[c]] = NoTask /\ slot_task'[g[c]] = c
      /\ \A s \in Slots : slot_task'[s] = slot_task[s]
                          \/ (slot_task[s] = NoTask /\ slot_task'[s] \in ids)
      /\ \A a, b \in ids : g[a] = g[b] => a = b
      /\ \A s \in Slots : slot_task'[s] \in ids /\ slot_task[s] = NoTask => \E c \in ids : g[c] = s
  <2>1. DOMAIN g = ids /\ \A a, b \in ids : g[a] = g[b] => a = b
    BY DEF Placements
  <2>2. ASSUME NEW s \in Slots, slot_task'[s] \in ids, slot_task[s] = NoTask
        PROVE  \E c \in ids : g[c] = s
    BY <1>1, <2>1, <2>2 DEF Launch
  <2> QED BY <1>1, <2>1, <2>2, LaunchFacts DEF Inv
<1>3. Pending(t) /\ Parent[t] = NoTask /\ Posted(Owner[t]) /\ ~Queued(t) /\ ~Deferred(t) /\ ~Runs(t)
  BY DEF Pending, Inv, TasksPosted, OnePlace
<1>4. ASSUME NEW u \in {t} \cup Children(t)
      PROVE  ~HasTerminal(u) /\ ~Runs(u) /\ Posted(Owner[u]) /\ (u = t \/ Parent[u] = t)
  <2>1. u = t \/ (u \in Tasks /\ Parent[u] = t)
    BY DEF Children
  <2>2. CASE u = t
    BY <1>3, <2>2 DEF Inv, AnswerOnce, Settled
  <2>3. CASE u \in Tasks /\ Parent[u] = t
    <3>1. ~Runs(u)
      BY <1>3, <2>3 DEF Inv, OnePlace
    <3>2. ~HasTerminal(u)
      BY <1>3, <2>3 DEF Inv, AnswerOnce, Settled
    <3>3. Owner[u] = Owner[t]
      BY <2>3
    <3> QED BY <1>3, <2>3, <3>1, <3>2, <3>3
  <2> QED BY <2>1, <2>2, <2>3
<1>5. ASSUME NEW u \in Tasks
      PROVE  /\ ~Processing(u)' /\ (Queued(u)' <=> Queued(u)) /\ (Deferred(u)' <=> Deferred(u))
             /\ AtMostOnce(TaskEntry(u), queue_tasks)' /\ AtMostOnce(u, queue_tasks_deferred)'
  BY DEF Processing, Queued, Deferred, Occurs, AtMostOnce, Inv, OnePlace
<1>6. ASSUME NEW u \in Tasks PROVE Pending(u)' => Pending(u) /\ u # t
  BY <1>3, <1>5 DEF Pending
<1>7. ASSUME NEW u \in Tasks, NEW s \in Slots, RunsOn(u, s)'
      PROVE  RunsOn(u, s) \/ u \in ids
  BY <1>2, <1>7 DEF RunsOn
<1>8. ASSUME NEW u \in Tasks, Runs(u)' PROVE Runs(u) \/ u \in ids
  BY <1>7, <1>8 DEF Runs
<1>9. \A u \in ids : ~Pending(u)' /\ (Parent[u] # NoTask => ~Pending(Parent[u])')
  <2> SUFFICES ASSUME NEW u \in ids
               PROVE  ~Pending(u)' /\ (Parent[u] # NoTask => ~Pending(Parent[u])')
    OBVIOUS
  <2>1. u \in Tasks /\ (u = t \/ Parent[u] = t)
    BY <1>1, <1>4
  <2>2. CASE u = t
    BY <1>3, <1>6, <2>1, <2>2
  <2>3. CASE Parent[u] = t
    <3>1. ~Pending(u)
      BY <2>1, <2>3 DEF Inv, TasksPosted
    <3> QED BY <1>6, <2>1, <2>3, <3>1
  <2> QED BY <2>1, <2>2, <2>3
<1>10. \A x, y \in Slots : slot_task'[x] # NoTask /\ slot_task'[x] = slot_task'[y] => x = y
  <2> SUFFICES ASSUME NEW x \in Slots, NEW y \in Slots, slot_task'[x] # NoTask,
                      slot_task'[x] = slot_task'[y]
               PROVE  x = y
    OBVIOUS
  <2>1. CASE slot_task'[x] = slot_task[x] /\ slot_task'[y] = slot_task[y]
    BY <2>1 DEF Inv, OnePlace
  <2>2. CASE slot_task[x] = NoTask /\ slot_task'[x] \in ids
    <3>1. ~Runs(slot_task'[x])
      BY <1>4, <2>2
    <3>2. slot_task[y] = NoTask
      BY <1>1, <1>2, <2>2, <3>1 DEF Runs, RunsOn
    <3>3. PICK c \in ids, d \in ids : g[c] = x /\ g[d] = y
      BY <1>2, <2>2, <3>2
    <3> QED BY <1>2, <3>3
  <2>3. CASE slot_task[y] = NoTask /\ slot_task'[y] \in ids
    <3>1. ~Runs(slot_task'[y])
      BY <1>4, <2>3
    <3>2. slot_task[x] = NoTask
      BY <1>1, <1>2, <2>3, <3>1 DEF Runs, RunsOn
    <3>3. PICK c \in ids, d \in ids : g[c] = x /\ g[d] = y
      BY <1>2, <2>3, <3>2
    <3> QED BY <1>2, <3>3
  <2> QED BY <1>2, <2>1, <2>2, <2>3
<1>11. OnePlace'
  <2>1. ASSUME NEW u \in Tasks
        PROVE  /\ Queued(u)' => ~Deferred(u)' /\ ~Processing(u)'
               /\ Deferred(u)' => ~Processing(u)'
               /\ Runs(u)' => ~Pending(u)'
               /\ Runs(u)' /\ Parent[u] # NoTask => ~Pending(Parent[u])'
    <3>1. Queued(u)' => ~Deferred(u)' /\ ~Processing(u)'
      BY <1>5 DEF Inv, OnePlace
    <3>2. Runs(u) => ~Pending(u)' /\ (Parent[u] # NoTask => ~Pending(Parent[u])')
      BY <1>6 DEF Inv, OnePlace
    <3> QED BY <1>5, <1>8, <1>9, <3>1, <3>2
  <2> QED BY <1>5, <1>10, <2>1 DEF OnePlace
<1>12. TasksPosted'
  BY <1>1, <1>4, <1>6, <1>8 DEF Inv, TasksPosted, Posted
<1>13. ASSUME NEW u \in Tasks, HasTerminal(u), Settled(u) PROVE Settled(u)'
  <2>1. u \notin ids
    BY <1>4, <1>13
  <2>2. \A s \in Slots : ~RunsOn(u, s)
    BY <1>13 DEF Settled, Processing
  <2> QED BY <1>6, <1>7, <1>13, <2>1, <2>2 DEF Settled
<1> QED BY <1>4, <1>6, <1>7, <1>11, <1>12, <1>13

\* A completion is launched, or its launch fails and is answered with an error.
LEMMA LaunchStep ==
    ASSUME Inv, NEW t \in Tasks, LaunchCompletion(t) \/ LaunchFails(t)
    PROVE  Rest'
<1> USE ModelValuesAssumption, TaskAssumption
<1>1. CASE LaunchCompletion(t)
  <2>1. PICK g \in Placements({t} \cup Children(t)) : Launch(g)
    BY <1>1 DEF LaunchCompletion
  <2>2. /\ Processing(t) /\ main_pc' # "process"
        /\ UNCHANGED <<queueVars, resultVars, readerVars>>
    BY <1>1 DEF LaunchCompletion, BackToLoop
  <2>3. /\ OnePlace' /\ TasksPosted'
        /\ \A u \in Tasks : HasTerminal(u) /\ Settled(u) => Settled(u)'
    BY <2>1, <2>2, LaunchPlaces
  <2>4. AnswerOnce' /\ ReaderPhases'
    BY <2>2, <2>3, SameResults, SamePhases DEF Inv
  <2> QED BY <2>3, <2>4 DEF Rest
<1>2. CASE LaunchFails(t)
  <2>a. PICK u \in ({t} \cup Children(t)) \cap MayFail :
           \E launched \in SUBSET (Children(t) \ {u}) : \E g \in Placements(launched) :
              Launch(g) /\ Send(u, "error")
    BY <1>2 DEF LaunchFails
  <2>b. PICK launched \in SUBSET (Children(t) \ {u}) :
           \E g \in Placements(launched) : Launch(g) /\ Send(u, "error")
    BY <2>a
  <2>1. PICK g \in Placements(launched) : Launch(g) /\ Send(u, "error")
    BY <2>b
  <2>2. /\ Processing(t) /\ main_pc' # "process"
        /\ UNCHANGED <<queueVars, waiting_task_ids, readerVars>>
    BY <1>2 DEF LaunchFails
  <2>3. /\ u \in Tasks /\ u \in {t} \cup Children(t) /\ u \notin launched
        /\ launched \in SUBSET ({t} \cup Children(t))
        /\ u = t \/ Parent[u] = t
    BY DEF Children
  <2>4. /\ OnePlace' /\ TasksPosted'
        /\ \A v \in Tasks : Pending(v)' => Pending(v) /\ v # t
        /\ \A v \in Tasks : \A s \in Slots : RunsOn(v, s)' => RunsOn(v, s) \/ v \in launched
        /\ ~HasTerminal(u) /\ ~Runs(u) /\ Posted(Owner[u])
        /\ \A v \in Tasks : HasTerminal(v) /\ Settled(v) => Settled(v)'
    BY <2>1, <2>2, <2>3, LaunchPlaces
  <2>5. Parent[t] = NoTask /\ ~Pending(u)' /\ (Parent[u] # NoTask => Parent[u] = t)
    <3>1. Pending(t) /\ Parent[t] = NoTask
      BY <2>2 DEF Pending, Inv, TasksPosted
    <3>2. u # t => ~Pending(u)
      BY <2>3 DEF Inv, TasksPosted
    <3> QED BY <2>3, <2>4, <3>1, <3>2
  <2>6. Settled(u)'
    BY <2>3, <2>4, <2>5 DEF Settled, Runs
  <2>7. AnswerOnce'
    BY <2>1, <2>2, <2>3, <2>4, <2>6, SendAnswers DEF Inv, ResultKinds
  <2>8. ReaderPhases'
    BY <2>1, <2>2, <2>3, <2>4, SendPhases DEF Inv, ResultKinds
  <2> QED BY <2>4, <2>7, <2>8 DEF Rest
<1> QED BY <1>1, <1>2

\* process_single_task() preserves the invariant.
LEMMA ProcessStep ==
    ASSUME Inv, NEW t \in Tasks, ProcessTask(t)
    PROVE  Rest'
<1>1. CASE DeferCompletion(t) \/ DeferSlotAction(t)
  BY <1>1, DeferStep DEF DeferCompletion, DeferSlotAction
<1>2. CASE RejectTask(t) \/ DoSlotAction(t) \/ DoInstant(t)
  BY <1>2, AnswerStep DEF RejectTask, DoSlotAction, DoInstant, ResultKinds
<1>3. CASE LaunchCompletion(t) \/ LaunchFails(t)
  BY <1>3, LaunchStep
<1>4. CASE ProcessCancel(t)
  BY <1>4, MainQuiet
<1> QED BY <1>1, <1>2, <1>3, <1>4 DEF ProcessTask

\* What is known of a slot the round visits: its task has not been answered.
LEMMA VisitedSlot ==
    ASSUME Inv, NEW s \in todo, main_pc \in {"slots", "abort"}
    PROVE  /\ s \in Slots /\ slot_task[s] \in Tasks
           /\ ~HasTerminal(slot_task[s]) /\ Posted(Owner[slot_task[s]])
<1>1. s \in Slots /\ slot_task[s] \in Tasks
  BY DEF Inv, TypeOK
<1>2. Runs(slot_task[s]) /\ RunsOn(slot_task[s], s)
  BY <1>1 DEF Runs, RunsOn
<1> QED BY <1>1, <1>2 DEF Inv, AnswerOnce, Settled, TasksPosted

\* A terminal result is sent for a visited slot, which is then released.
LEMMA EndSlotStep ==
    ASSUME Inv, NEW s \in todo, main_pc \in {"slots", "abort"},
           NEW kind \in ResultKinds, EndSlot(s, kind)
    PROVE  Rest'
<1> USE ModelValuesAssumption, TaskAssumption
<1>0. PICK u \in Tasks : u = slot_task[s]
  BY VisitedSlot
<1>1. s \in Slots /\ u \in Tasks /\ ~HasTerminal(u) /\ Posted(Owner[u])
  BY <1>0, VisitedSlot
<1>2. /\ UNCHANGED <<queueVars, waiting_task_ids, readerVars, slotVars>>
      /\ main_pc' = "release" /\ to_release' = {s} /\ Send(u, kind)
  BY <1>0 DEF EndSlot
<1>3. \A t \in Tasks : ~Processing(t) /\ ~Processing(t)'
  BY <1>2 DEF Processing
<1>4. Shrinks
  BY <1>2, <1>3, FrameShrinks DEF Inv
<1>5. KeepsReleases
  BY DEF KeepsReleases
<1>6. Runs(u) /\ \A x \in Slots : RunsOn(u, x) => x = s
  BY <1>0, <1>1, ModelValuesAssumption DEF Runs, RunsOn, Inv, OnePlace
<1>7. ~Pending(u) /\ (Parent[u] # NoTask => ~Pending(Parent[u]))
  BY <1>1, <1>6 DEF Inv, OnePlace
<1>8. \A v \in Tasks : Pending(v)' => Pending(v)
  BY <1>4 DEF Shrinks, Pending
<1>9. Settled(u)'
  <2>1. \A x \in Slots : RunsOn(u, x)' => x = s
    BY <1>2, <1>6 DEF RunsOn
  <2>2. ~Pending(u)' /\ (Parent[u] # NoTask => ~Pending(Parent[u])')
    BY <1>1, <1>7, <1>8
  <2> QED BY <1>2, <2>1, <2>2 DEF Settled
<1> QED BY <1>1, <1>2, <1>4, <1>5, <1>9, SendStep

\* A visited slot moves on, perhaps with a partial result.
LEMMA ContinueStep ==
    ASSUME Inv, NEW s \in Slots, SlotContinues(s)
    PROVE  Rest'
<1>1. s \in todo /\ main_pc = "slots" /\ main_pc' = "slots"
      /\ UNCHANGED <<queueVars, waiting_task_ids, readerVars, slot_task>>
  BY DEF SlotContinues
<1>2. slot_task[s] \in Tasks /\ ~HasTerminal(slot_task[s]) /\ Posted(Owner[slot_task[s]])
  BY <1>1, VisitedSlot
<1>3. \A t \in Tasks : ~Processing(t)'
  BY <1>1 DEF Processing
<1>4. Shrinks
  BY <1>1, <1>3, FrameShrinks DEF Inv
<1>5. KeepsReleases
  BY <1>1 DEF KeepsReleases
<1>6. CASE UNCHANGED queue_results
  BY <1>1, <1>4, <1>5, <1>6, QuietStep DEF Rest
<1>7. CASE Send(slot_task[s], "partial")
  <2>1. "partial" \in ResultKinds /\ "partial" \notin Terminal
    BY DEF ResultKinds, Terminal
  <2> QED BY <1>1, <1>2, <1>4, <1>5, <1>7, <2>1, SendStep
<1> QED BY <1>6, <1>7 DEF SlotContinues

\* release() frees a slot and brings back a deferred task.
LEMMA ReleaseStep ==
    ASSUME Inv, NEW s \in Slots, Release(s)
    PROVE  Rest'
<1> USE ModelValuesAssumption, TaskAssumption
<1>1. /\ UNCHANGED <<resultVars, readerVars, mainVars>>
      /\ main_pc = "release" /\ s \in to_release /\ to_release' = to_release \ {s}
      /\ slot_task' = [slot_task EXCEPT ![s] = NoTask]
  BY DEF Release
<1>2. \A x \in Slots : (slot_task'[x] = slot_task[x] /\ x # s) \/ slot_task'[x] = NoTask
  BY <1>1 DEF Inv, TypeOK
<1>3. \A u \in Tasks : (Processing(u)' <=> Processing(u)) /\ ~Processing(u)
  BY <1>1 DEF Processing
<1>4. KeepsReleases
  BY <1>1, <1>2 DEF KeepsReleases
<1>5. CASE queue_tasks' = queue_tasks /\ queue_tasks_deferred' = queue_tasks_deferred
  <2>1. Shrinks
    BY <1>2, <1>3, <1>5 DEF Shrinks, Inv, OnePlace, Queued, Deferred, Occurs, AtMostOnce
  <2> QED BY <1>1, <1>4, <2>1, QuietStep DEF Rest
<1>6. ASSUME NEW t \in Tasks,
             Occurs(t, queue_tasks_deferred),
             queue_tasks' = <<TaskEntry(t)>> \o queue_tasks,
             \A e : Occurs(e, queue_tasks_deferred') => Occurs(e, queue_tasks_deferred),
             \A e : AtMostOnce(e, queue_tasks_deferred) => AtMostOnce(e, queue_tasks_deferred'),
             AtMostOnce(t, queue_tasks_deferred) => ~Occurs(t, queue_tasks_deferred')
      PROVE  Rest'
  <2>1. Deferred(t) /\ ~Queued(t) /\ ~Runs(t) /\ AtMostOnce(t, queue_tasks_deferred)
    BY <1>6 DEF Deferred, Inv, OnePlace, Pending
  <2>2. /\ \A e : Occurs(e, queue_tasks') <=> e = TaskEntry(t) \/ Occurs(e, queue_tasks)
        /\ \A e : AtMostOnce(e, queue_tasks) /\ (e = TaskEntry(t) => ~Occurs(e, queue_tasks))
                  => AtMostOnce(e, queue_tasks')
    BY <1>6, EntryTypes, PrependFacts DEF Inv, TypeOK
  <2>3. ASSUME NEW u \in Tasks
        PROVE  /\ Queued(u)' <=> u = t \/ Queued(u)
               /\ Deferred(u)' => Deferred(u) /\ u # t
               /\ AtMostOnce(TaskEntry(u), queue_tasks)' /\ AtMostOnce(u, queue_tasks_deferred)'
    <3>1. Queued(u)' <=> u = t \/ Queued(u)
      BY <2>2, EntryTypes DEF Queued
    <3>2. Deferred(u)' => Deferred(u) /\ u # t
      BY <1>6, <2>1 DEF Deferred
    <3>3. AtMostOnce(TaskEntry(u), queue_tasks')
      BY <2>1, <2>2, EntryTypes DEF Inv, OnePlace, Queued
    <3>4. AtMostOnce(u, queue_tasks_deferred')
      BY <1>6 DEF Inv, OnePlace
    <3> QED BY <3>1, <3>2, <3>3, <3>4 DEF AtMostOnce
  <2>4. ASSUME NEW u \in Tasks PROVE (Pending(u)' => Pending(u)) /\ (Runs(u)' => Runs(u))
    <3>1. Pending(u)' => Pending(u)
      BY <1>3, <2>1, <2>3 DEF Pending
    <3>2. Runs(u)' => Runs(u)
      BY <1>2 DEF Runs, RunsOn
    <3> QED BY <3>1, <3>2
  <2>5. OnePlace'
    <3>1. ASSUME NEW u \in Tasks
          PROVE  /\ Queued(u)' => ~Deferred(u)' /\ ~Processing(u)'
                 /\ Deferred(u)' => ~Processing(u)'
                 /\ Runs(u)' => ~Pending(u)'
                 /\ Runs(u)' /\ Parent[u] # NoTask => ~Pending(Parent[u])'
      BY <1>3, <2>3, <2>4 DEF Inv, OnePlace
    <3>2. \A x, y \in Slots : slot_task'[x] # NoTask /\ slot_task'[x] = slot_task'[y] => x = y
      BY <1>2 DEF Inv, OnePlace
    <3> QED BY <2>3, <3>1, <3>2 DEF OnePlace
  <2>6. TasksPosted'
    BY <1>1, <2>4 DEF Inv, TasksPosted, Posted
  <2>7. ASSUME NEW u \in Tasks, Settled(u) PROVE Settled(u)'
    <3>1. ~Pending(u)' /\ (Parent[u] # NoTask => ~Pending(Parent[u])')
      BY <2>4, <2>7 DEF Settled
    <3>2. \A x \in Slots : RunsOn(u, x)' => main_pc' = "release" /\ x \in to_release'
      BY <1>1, <1>2, <2>7 DEF Settled, RunsOn
    <3> QED BY <3>1, <3>2 DEF Settled
  <2>8. AnswerOnce' /\ ReaderPhases'
    BY <1>1, <2>7, SameResults, SamePhases DEF Inv
  <2> QED BY <2>5, <2>6, <2>8 DEF Rest
<1>7. PopDeferredTask(s)
  BY DEF Release
<1> QED BY <1>5, <1>6, <1>7, PopDeferredFacts DEF Inv

\* The rounds of update_slots() preserve the invariant.
LEMMA SlotInvStep ==
    ASSUME Inv, NEW s \in Slots, SlotStep(s)
    PROVE  Rest'
<1>1. CASE SlotContinues(s)
  BY <1>1, ContinueStep
<1>2. CASE PromptDone(s)
  BY <1>2, MainQuiet
<1>3. CASE SlotFinishes(s)
  BY <1>3, EndSlotStep DEF SlotFinishes, ResultKinds
<1>4. CASE SlotFails(s)
  BY <1>4, EndSlotStep DEF SlotFails, ResultKinds
<1>5. CASE AbortSlot(s)
  BY <1>5, EndSlotStep DEF AbortSlot, ResultKinds
<1>6. CASE Release(s)
  BY <1>6, ReleaseStep
<1> QED BY <1>1, <1>2, <1>3, <1>4, <1>5, <1>6 DEF SlotStep

\* Every step of the main thread preserves the invariant.
LEMMA MainInvStep ==
    ASSUME Inv, MainStep
    PROVE  Rest'
<1>1. ASSUME NEW t \in Tasks, ProcessTask(t) PROVE Rest'
  BY <1>1, ProcessStep
<1>2. ASSUME NEW s \in Slots, SlotStep(s) PROVE Rest'
  BY <1>2, SlotInvStep
<1>3. CASE PopTask
  BY <1>3, PopTaskStep
<1>4. CASE UpdateSlots
  BY <1>4, UpdateSlotsStep
<1>5. CASE QueueEmpty \/ LoopExit \/ WaitEnd \/ AllIdle \/ RoundEnd \/ Released
           \/ AbortAllSlots \/ ProcessNextResponse
  BY <1>5, MainQuiet
<1> QED BY <1>1, <1>2, <1>3, <1>4, <1>5 DEF MainStep

-----------------------------------------------------------------------------
(* Steps of the HTTP threads. *)

\* A reader's step that leaves both deques alone moves no task.
LEMMA ReaderFrame ==
    ASSUME Inv, UNCHANGED <<queue_tasks, queue_tasks_deferred, slotVars, roundVars, mainVars>>,
           \A r \in Readers : Posted(r) => Posted(r)'
    PROVE  /\ OnePlace' /\ TasksPosted'
           /\ \A t \in Tasks : Settled(t) => Settled(t)'
<1>1. \A t \in Tasks : Processing(t)' => Processing(t)
  BY DEF Processing
<1>2. Shrinks
  BY <1>1, FrameShrinks DEF Inv
<1>3. KeepsReleases
  BY DEF KeepsReleases
<1> QED BY <1>2, <1>3, ShrinkPlaces, ShrinkSettled DEF Inv

\* post_tasks(): the reader's ids start waiting.
LEMMA AddWaitingStep ==
    ASSUME Inv, NEW r \in Readers, AddWaiting(r)
    PROVE  Rest'
<1>1. /\ reader_pc[r] = "new" /\ reader_pc' = [reader_pc EXCEPT ![r] = "registered"]
      /\ waiting_task_ids' = waiting_task_ids \cup Ids(r)
      /\ UNCHANGED <<queueVars, queue_results, id_left, received_count, cancelled, answered,
                     slotVars, roundVars, mainVars>>
  BY DEF AddWaiting
<1>2. \A x \in Readers : (Posted(x)' <=> Posted(x)) /\ (x # r => reader_pc'[x] = reader_pc[x])
      /\ reader_pc'[r] = "registered"
  BY <1>1 DEF Posted, Inv, TypeOK
<1>3. OnePlace' /\ TasksPosted' /\ \A t \in Tasks : Settled(t) => Settled(t)'
  BY <1>1, <1>2, ReaderFrame
<1>4. AnswerOnce'
  BY <1>1, <1>3, SameResults DEF Inv
<1>5. ReaderPhases'
  <2> SUFFICES ASSUME NEW x \in Readers
               PROVE  /\ id_left[x] \subseteq Ids(x)
                      /\ cancelled[x] => reader_pc'[x] \in {"clearing", "cancelling", "posting", "done"}
                      /\ received_count[x] = Cardinality({t \in Ids(x) : answered[t] = "final"})
                      /\ \A t \in Ids(x) :
                           /\ t \in waiting_task_ids' => reader_pc'[x] \in {"registered", "reading", "stopping"}
                           /\ queue_results[t] # <<>> =>
                                 t \in waiting_task_ids' \/ (reader_pc'[x] = "clearing" /\ t \in id_left[x])
                           /\ ~Posted(x)' => answered[t] = "no" /\ queue_results[t] = <<>>
    BY <1>1 DEF ReaderPhases
  <2>1. CASE x = r
    BY <1>1, <1>2, <2>1 DEF Inv, ReaderPhases, Posted
  <2>2. CASE x # r
    <3>1. Ids(x) \cap Ids(r) = {}
      BY <2>2 DEF Ids
    <3> QED BY <1>1, <1>2, <2>2, <3>1 DEF Inv, ReaderPhases
  <2> QED BY <2>1, <2>2
<1> QED BY <1>3, <1>4, <1>5 DEF Rest

\* The part of ReaderPhases about one reader.
PhaseOf(r) ==
    /\ id_left[r] \subseteq Ids(r)
    /\ cancelled[r] => reader_pc[r] \in {"clearing", "cancelling", "posting", "done"}
    /\ received_count[r] = Cardinality({t \in Ids(r) : answered[t] = "final"})
    /\ \A t \in Ids(r) :
          /\ t \in waiting_task_ids => reader_pc[r] \in {"registered", "reading", "stopping"}
          /\ queue_results[t] # <<>> =>
                t \in waiting_task_ids \/ (reader_pc[r] = "clearing" /\ t \in id_left[r])
          /\ ~Posted(r) => answered[t] = "no" /\ queue_results[t] = <<>>

\* A step of reader r leaves the phases of the other readers alone.
LEMMA OtherPhases ==
    ASSUME ReaderPhases, NEW r \in Readers,
           \A x \in Readers : x # r =>
               /\ reader_pc'[x] = reader_pc[x] /\ id_left'[x] = id_left[x]
               /\ cancelled'[x] = cancelled[x] /\ received_count'[x] = received_count[x],
           \A t \in Tasks : Owner[t] # r =>
               /\ answered'[t] = answered[t] /\ queue_results'[t] = queue_results[t]
               /\ t \in waiting_task_ids' <=> t \in waiting_task_ids,
           PhaseOf(r)'
    PROVE  ReaderPhases'
<1>1. ASSUME NEW x \in Readers PROVE PhaseOf(x)'
  <2>1. CASE x = r
    BY <2>1
  <2>2. CASE x # r
    <3>1. PhaseOf(x)
      BY DEF ReaderPhases, PhaseOf
    <3>2. \A t \in Ids(x) : /\ answered'[t] = answered[t] /\ queue_results'[t] = queue_results[t]
                            /\ t \in waiting_task_ids' <=> t \in waiting_task_ids
      BY <2>2 DEF Ids
    <3>3. {t \in Ids(x) : answered'[t] = "final"} = {t \in Ids(x) : answered[t] = "final"}
      BY <3>2
    <3>4. Posted(x)' <=> Posted(x)
      BY <2>2 DEF Posted
    <3> QED BY <2>2, <3>1, <3>2, <3>3, <3>4 DEF PhaseOf
  <2> QED BY <2>1, <2>2
<1> QED BY <1>1 DEF ReaderPhases, PhaseOf

\* post(): the tasks of r enter the queue; none of them was anywhere before.
LEMMA PostTasksStep ==
    ASSUME Inv, NEW r \in Readers, PostTasks(r)
    PROVE  Rest'
<1> USE ModelValuesAssumption, TaskAssumption
<1> DEFINE n == NewEntries(r)
<1>1. /\ reader_pc[r] = "registered" /\ reader_pc' = [reader_pc EXCEPT ![r] = "reading"]
      /\ UNCHANGED <<queue_tasks_deferred, resultVars, id_left, received_count, cancelled,
                     answered, slotVars, roundVars, mainVars>>
      /\ queue_tasks' = n \o queue_tasks \/ queue_tasks' = queue_tasks \o n
  BY DEF PostTasks
<1>2. /\ \A x \in Readers : x # r => reader_pc'[x] = reader_pc[x]
      /\ reader_pc'[r] = "reading" /\ ~Posted(r) /\ Posted(r)'
      /\ \A x \in Readers : Posted(x)' <=> x = r \/ Posted(x)
  BY <1>1 DEF Posted, Inv, TypeOK
<1>3. n \in Seq(Entries) /\ queue_tasks \in Seq(Entries)
  BY NewEntriesType DEF Inv, TypeOK
<1>4. ASSUME NEW t \in Tasks
      PROVE  /\ Occurs(TaskEntry(t), n) => Owner[t] = r /\ Parent[t] = NoTask
             /\ AtMostOnce(TaskEntry(t), n)
  <2>1. Posts[r] \in Seq(Tasks) /\ Len(Posts[r]) \in Nat
    BY PostsAssumption
  <2>2. n = [i \in 1..Len(Posts[r]) |-> TaskEntry(Posts[r][i])] /\ Len(n) = Len(Posts[r])
    BY <2>1 DEF NewEntries
  <2>3. \A i \in 1..Len(n) : n[i] = TaskEntry(Posts[r][i]) /\ Posts[r][i] \in Tasks
    BY <2>1, <2>2
  <2> HIDE DEF n
  <2>4. \A i \in 1..Len(n) : n[i] = TaskEntry(t) => Posts[r][i] = t
    BY <2>3, EntryTypes
  <2>5. /\ \A i \in 1..Len(n) : Owner[Posts[r][i]] = r /\ Parent[Posts[r][i]] = NoTask
        /\ \A i, j \in 1..Len(n) : Posts[r][i] = Posts[r][j] => i = j
    BY <2>2, PostsAssumption
  <2>6. Occurs(TaskEntry(t), n) => Owner[t] = r /\ Parent[t] = NoTask
    BY <2>4, <2>5 DEF Occurs
  <2>7. AtMostOnce(TaskEntry(t), n)
    BY <2>4, <2>5 DEF AtMostOnce
  <2> QED BY <2>6, <2>7
<1>5. ASSUME NEW t \in Tasks, Owner[t] = r
      PROVE  /\ ~Pending(t) /\ ~Runs(t) /\ ~HasTerminal(t)
  <2>1. ~Pending(t) /\ ~Runs(t)
    BY <1>2, <1>5 DEF Inv, TasksPosted
  <2>2. t \in Ids(r)
    BY <1>5 DEF Ids
  <2>3. PhaseOf(r)
    BY DEF Inv, ReaderPhases, PhaseOf
  <2>4. answered[t] = "no" /\ queue_results[t] = <<>> /\ Len(queue_results[t]) = 0
    BY <1>2, <2>2, <2>3 DEF PhaseOf
  <2> QED BY <2>1, <2>4 DEF HasTerminal
<1> HIDE DEF n
<1>6. ASSUME NEW t \in Tasks
      PROVE  /\ Queued(t)' => Queued(t) \/ (Owner[t] = r /\ Parent[t] = NoTask)
             /\ AtMostOnce(TaskEntry(t), queue_tasks')
  <2>1. ~Occurs(TaskEntry(t), n) \/ ~Occurs(TaskEntry(t), queue_tasks)
    BY <1>4, <1>5 DEF Pending, Queued
  <2>2. AtMostOnce(TaskEntry(t), queue_tasks) /\ AtMostOnce(TaskEntry(t), n)
    BY <1>4 DEF Inv, OnePlace
  <2>3. CASE queue_tasks' = n \o queue_tasks
    <3>1. /\ \A e : Occurs(e, queue_tasks') <=> Occurs(e, n) \/ Occurs(e, queue_tasks)
          /\ \A e : /\ AtMostOnce(e, n) /\ AtMostOnce(e, queue_tasks)
                    /\ ~Occurs(e, n) \/ ~Occurs(e, queue_tasks)
                    => AtMostOnce(e, queue_tasks')
      BY <1>3, <2>3, ConcatFacts
    <3> QED BY <1>4, <2>1, <2>2, <3>1 DEF Queued
  <2>4. CASE queue_tasks' = queue_tasks \o n
    <3>1. /\ \A e : Occurs(e, queue_tasks') <=> Occurs(e, queue_tasks) \/ Occurs(e, n)
          /\ \A e : /\ AtMostOnce(e, queue_tasks) /\ AtMostOnce(e, n)
                    /\ ~Occurs(e, queue_tasks) \/ ~Occurs(e, n)
                    => AtMostOnce(e, queue_tasks')
      BY <1>3, <2>4, ConcatFacts
    <3> QED BY <1>4, <2>1, <2>2, <3>1 DEF Queued
  <2> QED BY <1>1, <2>3, <2>4
<1>7. ASSUME NEW t \in Tasks
      PROVE  /\ Deferred(t)' <=> Deferred(t)
             /\ Processing(t)' <=> Processing(t)
             /\ Runs(t)' <=> Runs(t)
             /\ AtMostOnce(t, queue_tasks_deferred)'
  BY <1>1 DEF Deferred, Processing, Runs, RunsOn, Occurs, AtMostOnce, Inv, OnePlace
<1>8. ASSUME NEW t \in Tasks
      PROVE  Pending(t)' => Pending(t) \/ (Owner[t] = r /\ Parent[t] = NoTask)
  BY <1>6, <1>7 DEF Pending
<1>9. OnePlace'
  <2>1. ASSUME NEW t \in Tasks
        PROVE  /\ Queued(t)' => ~Deferred(t)' /\ ~Processing(t)'
               /\ Deferred(t)' => ~Processing(t)'
               /\ Runs(t)' => ~Pending(t)'
               /\ Runs(t)' /\ Parent[t] # NoTask => ~Pending(Parent[t])'
    <3>1. CASE Owner[t] = r
      BY <1>5, <1>7, <3>1 DEF Pending
    <3>2. CASE Owner[t] # r
      <4>1. Queued(t)' => Queued(t)
        BY <1>6, <3>2
      <4>2. Pending(t)' => Pending(t)
        BY <1>8, <3>2
      <4>3. Parent[t] # NoTask => (Pending(Parent[t])' => Pending(Parent[t]))
        BY <1>8, <3>2
      <4> QED BY <1>7, <4>1, <4>2, <4>3 DEF Inv, OnePlace
    <3> QED BY <3>1, <3>2
  <2>2. \A x, y \in Slots : slot_task'[x] # NoTask /\ slot_task'[x] = slot_task'[y] => x = y
    BY <1>1 DEF Inv, OnePlace
  <2> QED BY <1>6, <1>7, <2>1, <2>2 DEF OnePlace, AtMostOnce
<1>10. TasksPosted'
  BY <1>2, <1>7, <1>8 DEF Inv, TasksPosted
<1>11. ASSUME NEW t \in Tasks, HasTerminal(t), Settled(t) PROVE Settled(t)'
  <2>1. Owner[t] # r
    BY <1>5, <1>11
  <2>2. ~Pending(t)' /\ (Parent[t] # NoTask => ~Pending(Parent[t])')
    BY <1>8, <1>11, <2>1 DEF Settled
  <2> QED BY <1>1, <1>11, <2>2 DEF Settled, RunsOn
<1>12. AnswerOnce'
  BY <1>1, <1>11, SameResults DEF Inv
<1>13. ReaderPhases'
  <2>1. PhaseOf(r)
    BY DEF Inv, ReaderPhases, PhaseOf
  <2>2. PhaseOf(r)'
    BY <1>1, <1>2, <2>1 DEF PhaseOf
  <2> QED BY <1>1, <1>2, <2>2, OtherPhases DEF Inv
<1> QED BY <1>9, <1>10, <1>12, <1>13 DEF Rest

\* The handler leaves the reading loop: nothing but its phase changes.
LEMMA LeaveStep ==
    ASSUME Inv, NEW r \in Readers, Disconnect(r) \/ AllReceived(r)
    PROVE  Rest'
<1>1. /\ reader_pc[r] = "reading" /\ reader_pc' = [reader_pc EXCEPT ![r] = "stopping"]
      /\ UNCHANGED <<queueVars, resultVars, id_left, received_count, cancelled, answered,
                     slotVars, roundVars, mainVars>>
  BY DEF Disconnect, AllReceived
<1>2. /\ \A x \in Readers : x # r => reader_pc'[x] = reader_pc[x]
      /\ reader_pc'[r] = "stopping" /\ \A x \in Readers : Posted(x)' <=> Posted(x)
  BY <1>1 DEF Posted, Inv, TypeOK
<1>3. OnePlace' /\ TasksPosted' /\ \A t \in Tasks : Settled(t) => Settled(t)'
  BY <1>1, <1>2, ReaderFrame
<1>4. AnswerOnce'
  BY <1>1, <1>3, SameResults DEF Inv
<1>5. PhaseOf(r)
  BY DEF Inv, ReaderPhases, PhaseOf
<1>6. PhaseOf(r)'
  BY <1>1, <1>2, <1>5 DEF PhaseOf
<1>7. ReaderPhases'
  BY <1>1, <1>2, <1>6, OtherPhases DEF Inv
<1> QED BY <1>3, <1>4, <1>7 DEF Rest

\* next(): a result is taken; a terminal one is the last of its task.
LEMMA RecvStep ==
    ASSUME Inv, NEW r \in Readers, NEW t \in Tasks, RecvResult(r, t)
    PROVE  Rest'
<1> DEFINE q == queue_results[t]
           kind == Head(q)
           rest == Tail(q)
<1>1. /\ reader_pc[r] = "reading" /\ Owner[t] = r /\ q # <<>>
      /\ queue_results' = [queue_results EXCEPT ![t] = Tail(q)]
      /\ answered' = IF kind \in Terminal THEN [answered EXCEPT ![t] = kind] ELSE answered
      /\ received_count' = IF kind = "final" THEN [received_count EXCEPT ![r] = @ + 1]
                                             ELSE received_count
      /\ reader_pc' = IF kind = "error" THEN [reader_pc EXCEPT ![r] = "stopping"] ELSE reader_pc
      /\ UNCHANGED <<queueVars, waiting_task_ids, id_left, cancelled, slotVars, roundVars, mainVars>>
  BY DEF RecvResult
<1>2. /\ q \in Seq(ResultKinds) /\ queue_results \in [Tasks -> Seq(ResultKinds)]
      /\ answered \in [Tasks -> {"no"} \cup Terminal]
      /\ reader_pc \in [Readers -> ReaderPcs] /\ received_count \in [Readers -> Nat]
  BY DEF Inv, TypeOK
<1>3. /\ Len(q) \in Nat /\ Len(q) # 0 /\ kind = q[1] /\ kind \in ResultKinds
      /\ rest \in Seq(ResultKinds) /\ Len(rest) = Len(q) - 1
      /\ \A i \in 1..Len(rest) : rest[i] = q[i + 1] /\ i + 1 \in 1..Len(q)
  BY <1>1, <1>2
<1>4. /\ queue_results'[t] = rest
      /\ \A u \in Tasks : u # t => queue_results'[u] = queue_results[u] /\ answered'[u] = answered[u]
      /\ answered'[t] = (IF kind \in Terminal THEN kind ELSE answered[t])
      /\ \A x \in Readers : x # r => /\ reader_pc'[x] = reader_pc[x]
                                     /\ received_count'[x] = received_count[x]
      /\ reader_pc'[r] \in {"reading", "stopping"}
      /\ received_count'[r] = (IF kind = "final" THEN received_count[r] + 1 ELSE received_count[r])
  BY <1>1, <1>2
<1>5. /\ answered[t] = "no"
      /\ \A i \in 1..Len(q) : q[i] \in Terminal => i = Len(q)
      /\ HasTerminal(t) => Settled(t)
  BY <1>1 DEF Inv, AnswerOnce
<1>6. \A x \in Readers : Posted(x)' <=> Posted(x)
  BY <1>1, <1>4 DEF Posted
<1>7. OnePlace' /\ TasksPosted' /\ \A u \in Tasks : Settled(u) => Settled(u)'
  BY <1>1, <1>6, ReaderFrame
<1> HIDE DEF q, kind, rest
<1>8. kind \in Terminal => Len(rest) = 0
  BY <1>3, <1>5
<1>9. HasTerminal(t)' => HasTerminal(t)
  <2>1. kind \in Terminal => HasTerminal(t)
    BY <1>3 DEF HasTerminal, q
  <2>2. ASSUME NEW i \in 1..Len(rest), rest[i] \in Terminal PROVE HasTerminal(t)
    BY <1>3, <2>2 DEF HasTerminal, q
  <2> QED BY <1>4, <1>5, <2>1, <2>2 DEF HasTerminal
<1>10. AnswerOnce'
  <2>1. /\ answered'[t] # "no" => queue_results'[t] = <<>>
        /\ \A i \in 1..Len(queue_results'[t]) :
              queue_results'[t][i] \in Terminal => i = Len(queue_results'[t])
        /\ HasTerminal(t)' => Settled(t)'
    <3>1. answered'[t] # "no" => queue_results'[t] = <<>>
      BY <1>3, <1>4, <1>5, <1>8
    <3>2. \A i \in 1..Len(rest) : rest[i] \in Terminal => i = Len(rest)
      BY <1>3, <1>5
    <3> QED BY <1>4, <1>5, <1>7, <1>9, <3>1, <3>2
  <2>2. ASSUME NEW u \in Tasks, u # t
        PROVE  /\ answered'[u] # "no" => queue_results'[u] = <<>>
               /\ \A i \in 1..Len(queue_results'[u]) :
                     queue_results'[u][i] \in Terminal => i = Len(queue_results'[u])
               /\ HasTerminal(u)' => Settled(u)'
    BY <1>4, <1>7, <2>2 DEF Inv, AnswerOnce, HasTerminal
  <2> QED BY <2>1, <2>2 DEF AnswerOnce
<1>11. PhaseOf(r)
  BY DEF Inv, ReaderPhases, PhaseOf
<1>12. received_count'[r] = Cardinality({u \in Ids(r) : answered'[u] = "final"})
  <2> DEFINE F == {u \in Ids(r) : answered[u] = "final"}
             G == {u \in Ids(r) : answered'[u] = "final"}
  <2>1. IsFiniteSet(F)
    <3>1. F \subseteq Tasks
      BY DEF Ids
    <3> QED BY <3>1, FinitenessAssumption, FS_Subset
  <2>2. t \in Ids(r) /\ t \notin F /\ Ids(r) \subseteq Tasks
    BY <1>1, <1>5 DEF Ids
  <2>3. CASE kind = "final"
    <3>1. G = F \cup {t}
      BY <1>4, <2>2, <2>3 DEF Terminal
    <3>2. Cardinality(G) = Cardinality(F) + 1
      BY <2>1, <2>2, <3>1, FS_AddElement
    <3> QED BY <1>4, <1>11, <2>3, <3>2 DEF PhaseOf
  <2>4. CASE kind # "final"
    <3>1. G = F
      BY <1>4, <2>2, <2>4
    <3> QED BY <1>4, <1>11, <2>4, <3>1 DEF PhaseOf
  <2> QED BY <2>3, <2>4
<1>13. PhaseOf(r)'
  <2>1. \A u \in Ids(r) : queue_results'[u] # <<>> => queue_results[u] # <<>>
    BY <1>1, <1>4 DEF Ids, q
  <2>2. ~cancelled[r] /\ Posted(r)'
    BY <1>1, <1>4, <1>11 DEF PhaseOf, Posted
  <2> QED BY <1>1, <1>4, <1>11, <1>12, <2>1, <2>2 DEF PhaseOf
<1>14. ReaderPhases'
  BY <1>1, <1>4, <1>13, OtherPhases DEF Inv
<1> QED BY <1>7, <1>10, <1>14 DEF Rest

\* stop(): when no result is missing, none is left in the queue either.
LEMMA StopWaitingStep ==
    ASSUME Inv, NEW r \in Readers, StopWaiting(r)
    PROVE  Rest'
<1>1. /\ reader_pc[r] = "stopping" /\ waiting_task_ids' = waiting_task_ids \ Ids(r)
      /\ cancelled' = [cancelled EXCEPT ![r] = has_next(r) \/ @]
      /\ id_left' = [id_left EXCEPT ![r] = IF has_next(r) THEN Ids(r) ELSE {}]
      /\ reader_pc' = [reader_pc EXCEPT ![r] = IF has_next(r) THEN "clearing" ELSE "done"]
      /\ UNCHANGED <<queueVars, queue_results, received_count, answered, slotVars, roundVars, mainVars>>
  BY DEF StopWaiting
<1>2. /\ \A x \in Readers : x # r => /\ reader_pc'[x] = reader_pc[x] /\ id_left'[x] = id_left[x]
                                     /\ cancelled'[x] = cancelled[x]
      /\ reader_pc'[r] = (IF has_next(r) THEN "clearing" ELSE "done")
      /\ id_left'[r] = (IF has_next(r) THEN Ids(r) ELSE {})
      /\ \A t \in Ids(r) : t \notin waiting_task_ids'
      /\ \A t \in Tasks : Owner[t] # r => (t \in waiting_task_ids' <=> t \in waiting_task_ids)
  BY <1>1 DEF Inv, TypeOK, Ids
<1>3. \A x \in Readers : Posted(x)' <=> Posted(x)
  BY <1>1, <1>2 DEF Posted
<1>4. OnePlace' /\ TasksPosted' /\ \A u \in Tasks : Settled(u) => Settled(u)'
  BY <1>1, <1>3, ReaderFrame
<1>5. AnswerOnce'
  BY <1>1, <1>4, SameResults DEF Inv
<1>6. PhaseOf(r)
  BY DEF Inv, ReaderPhases, PhaseOf
<1>7. ~has_next(r) => \A t \in Ids(r) : queue_results[t] = <<>>
  <2> SUFFICES ASSUME ~has_next(r), NEW t \in Ids(r) PROVE queue_results[t] = <<>>
    OBVIOUS
  <2> DEFINE F == {u \in Ids(r) : answered[u] = "final"}
  <2>1. ~cancelled[r] /\ received_count[r] = Cardinality(F)
    BY <1>1, <1>6 DEF PhaseOf
  <2>2. IsFiniteSet(Ids(r)) /\ Ids(r) \subseteq Tasks
    BY FinitenessAssumption, FS_Subset DEF Ids
  <2>3. F \subseteq Ids(r)
    OBVIOUS
  <2>4. /\ IsFiniteSet(F) /\ Cardinality(F) <= Cardinality(Ids(r))
        /\ Cardinality(F) = Cardinality(Ids(r)) => F = Ids(r)
    BY <2>2, <2>3, FS_Subset
  <2>5. Cardinality(F) \in Nat /\ Cardinality(Ids(r)) \in Nat
    BY <2>2, <2>4, FS_CardinalityType
  <2> HIDE DEF F
  <2>6. ~(Cardinality(F) < Cardinality(Ids(r)))
    BY <2>1 DEF has_next
  <2>7. F = Ids(r)
    BY <2>4, <2>5, <2>6
  <2>8. answered[t] = "final" /\ t \in Tasks
    BY <2>2, <2>7 DEF F
  <2> QED BY <2>8 DEF Inv, AnswerOnce
<1>8. PhaseOf(r)'
  BY <1>1, <1>2, <1>3, <1>6, <1>7 DEF PhaseOf, Posted
<1>9. ReaderPhases'
  BY <1>1, <1>2, <1>8, OtherPhases DEF Inv
<1> QED BY <1>4, <1>5, <1>9 DEF Rest

\* stop(): the results of one id are erased.
LEMMA ClearStep ==
    ASSUME Inv, NEW r \in Readers, NEW t \in Tasks, ClearResults(r, t)
    PROVE  Rest'
<1>1. /\ reader_pc[r] = "clearing" /\ t \in id_left[r]
      /\ waiting_task_ids' = waiting_task_ids \ {t}
      /\ queue_results' = [queue_results EXCEPT ![t] = <<>>]
      /\ id_left' = [id_left EXCEPT ![r] = @ \ {t}]
      /\ reader_pc' = IF id_left[r] = {t} THEN [reader_pc EXCEPT ![r] = "cancelling"] ELSE reader_pc
      /\ UNCHANGED <<queueVars, received_count, cancelled, answered, slotVars, roundVars, mainVars>>
  BY DEF ClearResults
<1>2. PhaseOf(r)
  BY DEF Inv, ReaderPhases, PhaseOf
<1>3. t \in Ids(r) /\ Owner[t] = r
  BY <1>1, <1>2 DEF PhaseOf, Ids
<1>4. /\ \A x \in Readers : x # r => reader_pc'[x] = reader_pc[x] /\ id_left'[x] = id_left[x]
      /\ id_left'[r] = id_left[r] \ {t}
      /\ reader_pc'[r] = (IF id_left[r] = {t} THEN "cancelling" ELSE "clearing")
      /\ queue_results'[t] = <<>>
      /\ \A u \in Tasks : u # t => queue_results'[u] = queue_results[u]
  BY <1>1 DEF Inv, TypeOK
<1>5. \A x \in Readers : Posted(x)' <=> Posted(x)
  BY <1>1, <1>4 DEF Posted
<1>6. OnePlace' /\ TasksPosted' /\ \A u \in Tasks : Settled(u) => Settled(u)'
  BY <1>1, <1>5, ReaderFrame
<1>7. AnswerOnce'
  <2>1. Len(queue_results'[t]) = 0
    BY <1>4
  <2>2. /\ answered'[t] # "no" => queue_results'[t] = <<>>
        /\ \A i \in 1..Len(queue_results'[t]) :
              queue_results'[t][i] \in Terminal => i = Len(queue_results'[t])
        /\ HasTerminal(t)' => Settled(t)'
    BY <1>1, <1>4, <1>6, <2>1 DEF Inv, AnswerOnce, HasTerminal
  <2>3. ASSUME NEW u \in Tasks, u # t
        PROVE  /\ answered'[u] # "no" => queue_results'[u] = <<>>
               /\ \A i \in 1..Len(queue_results'[u]) :
                     queue_results'[u][i] \in Terminal => i = Len(queue_results'[u])
               /\ HasTerminal(u)' => Settled(u)'
    BY <1>1, <1>4, <1>6, <2>3 DEF Inv, AnswerOnce, HasTerminal
  <2> QED BY <2>2, <2>3 DEF AnswerOnce
<1>8. PhaseOf(r)'
  <2>1. \A u \in Ids(r) : u \notin waiting_task_ids'
    BY <1>1, <1>2 DEF PhaseOf
  <2>2. \A u \in Ids(r) : queue_results'[u] # <<>> => u \in id_left[r] /\ u # t
    BY <1>1, <1>2, <1>4 DEF PhaseOf, Ids
  <2>3. id_left'[r] \subseteq Ids(r) /\ Posted(r)'
    BY <1>1, <1>2, <1>4 DEF PhaseOf, Posted
  <2> QED BY <1>1, <1>2, <1>4, <2>1, <2>2, <2>3 DEF PhaseOf
<1>9. ReaderPhases'
  BY <1>1, <1>3, <1>4, <1>8, OtherPhases DEF Inv
<1> QED BY <1>6, <1>7, <1>9 DEF Rest

\* stop() takes mutex_tasks for the cancel tasks.
LEMMA LockStep ==
    ASSUME Inv, NEW r \in Readers, LockForCancel(r)
    PROVE  Rest'
<1>1. /\ reader_pc[r] = "cancelling"
      /\ id_left' = [id_left EXCEPT ![r] = Ids(r)]
      /\ reader_pc' = [reader_pc EXCEPT ![r] = "posting"]
      /\ UNCHANGED <<queue_tasks, queue_tasks_deferred, running, resultVars, received_count,
                     cancelled, answered, slotVars, roundVars, mainVars>>
  BY DEF LockForCancel
<1>2. /\ \A x \in Readers : x # r => reader_pc'[x] = reader_pc[x] /\ id_left'[x] = id_left[x]
      /\ id_left'[r] = Ids(r) /\ reader_pc'[r] = "posting"
  BY <1>1 DEF Inv, TypeOK
<1>3. \A x \in Readers : Posted(x)' <=> Posted(x)
  BY <1>1, <1>2 DEF Posted
<1>4. OnePlace' /\ TasksPosted' /\ \A u \in Tasks : Settled(u) => Settled(u)'
  BY <1>1, <1>3, ReaderFrame
<1>5. AnswerOnce'
  BY <1>1, <1>4, SameResults DEF Inv
<1>6. PhaseOf(r)
  BY DEF Inv, ReaderPhases, PhaseOf
<1>7. PhaseOf(r)'
  BY <1>1, <1>2, <1>6 DEF PhaseOf, Posted
<1>8. ReaderPhases'
  BY <1>1, <1>2, <1>7, OtherPhases DEF Inv
<1> QED BY <1>4, <1>5, <1>8 DEF Rest

\* post() of one cancel task: the target leaves both deques.
LEMMA PostCancelStep ==
    ASSUME Inv, NEW r \in Readers, NEW t \in Tasks, PostCancel(r, t)
    PROVE  Rest'
<1>1. /\ reader_pc[r] = "posting" /\ t \in id_left[r]
      /\ queue_tasks' = <<CancelEntry(t)>> \o Erase(queue_tasks, TaskEntry(t))
      /\ queue_tasks_deferred' = Erase(queue_tasks_deferred, t)
      /\ id_left' = [id_left EXCEPT ![r] = @ \ {t}]
      /\ reader_pc' = IF id_left[r] = {t} THEN [reader_pc EXCEPT ![r] = "done"] ELSE reader_pc
      /\ UNCHANGED <<running, resultVars, received_count, cancelled, answered, slotVars,
                     roundVars, mainVars>>
  BY DEF PostCancel
<1>2. /\ \A x \in Readers : x # r => reader_pc'[x] = reader_pc[x] /\ id_left'[x] = id_left[x]
      /\ id_left'[r] = id_left[r] \ {t} /\ reader_pc'[r] \in {"posting", "done"}
  BY <1>1 DEF Inv, TypeOK
<1>3. \A x \in Readers : Posted(x)' <=> Posted(x)
  BY <1>1, <1>2 DEF Posted
<1>4. Shrinks
  <2> DEFINE e1 == Erase(queue_tasks, TaskEntry(t))
  <2>1. /\ e1 \in Seq(Entries)
        /\ \A e : Occurs(e, e1) => Occurs(e, queue_tasks)
        /\ \A e : AtMostOnce(e, queue_tasks) => AtMostOnce(e, e1)
    BY EraseFacts DEF Inv, TypeOK
  <2>2. /\ \A e : Occurs(e, queue_tasks_deferred') => Occurs(e, queue_tasks_deferred)
        /\ \A e : AtMostOnce(e, queue_tasks_deferred) => AtMostOnce(e, queue_tasks_deferred')
    BY <1>1, EraseFacts DEF Inv, TypeOK
  <2> HIDE DEF e1
  <2>3. /\ \A e : Occurs(e, queue_tasks') <=> e = CancelEntry(t) \/ Occurs(e, e1)
        /\ \A e : AtMostOnce(e, e1) /\ (e = CancelEntry(t) => ~Occurs(e, e1))
                  => AtMostOnce(e, queue_tasks')
    BY <1>1, <2>1, EntryTypes, PrependFacts DEF e1
  <2>4. ASSUME NEW u \in Tasks
        PROVE  (Queued(u)' => Queued(u)) /\ AtMostOnce(TaskEntry(u), queue_tasks')
    BY <2>1, <2>3, EntryTypes DEF Queued, Inv, OnePlace
  <2>5. ASSUME NEW u \in Tasks
        PROVE  /\ Deferred(u)' => Deferred(u)
               /\ AtMostOnce(u, queue_tasks_deferred')
               /\ Processing(u)' => Processing(u)
    BY <1>1, <2>2 DEF Deferred, Processing, Inv, OnePlace
  <2> QED BY <1>1, <2>4, <2>5 DEF Shrinks, AtMostOnce
<1>5. KeepsReleases
  BY <1>1 DEF KeepsReleases
<1>6. OnePlace' /\ TasksPosted'
  BY <1>3, <1>4, ShrinkPlaces DEF Inv
<1>7. AnswerOnce'
  BY <1>1, <1>4, <1>5, ShrinkSettled, SameResults DEF Inv
<1>8. PhaseOf(r)
  BY DEF Inv, ReaderPhases, PhaseOf
<1>9. PhaseOf(r)'
  BY <1>1, <1>2, <1>8 DEF PhaseOf, Posted
<1>10. ReaderPhases'
  BY <1>1, <1>2, <1>9, OtherPhases DEF Inv
<1> QED BY <1>6, <1>7, <1>10 DEF Rest

\* The invariant holds initially.
LEMMA InvInit == Init => Inv
<1> SUFFICES ASSUME Init PROVE Inv
  OBVIOUS
<1>1. TypeOK
  BY TypeInit
<1>2. \A t \in Tasks : ~Queued(t) /\ ~Deferred(t) /\ ~Processing(t)
  BY DEF Init, Queued, Deferred, Processing, Occurs
<1>3. \A t \in Tasks : ~Pending(t) /\ ~Runs(t)
  BY <1>2, ModelValuesAssumption DEF Init, Pending, Runs, RunsOn
<1>4. OnePlace
  BY <1>2, <1>3 DEF Init, OnePlace, AtMostOnce
<1>5. TasksPosted
  BY <1>3 DEF TasksPosted
<1>6. \A t \in Tasks : ~HasTerminal(t) /\ Len(queue_results[t]) = 0 /\ answered[t] = "no"
  BY DEF Init, HasTerminal
<1>7. AnswerOnce
  BY <1>6 DEF AnswerOnce
<1>8. ReaderPhases
  <2>1. \A r \in Readers : {t \in Ids(r) : answered[t] = "final"} = {}
    BY <1>6 DEF Ids
  <2> QED BY <2>1, FS_EmptySet DEF Init, ReaderPhases, Ids, Posted
<1> QED BY <1>1, <1>4, <1>5, <1>7, <1>8 DEF Inv

\* Every step of the specification preserves the invariant.
LEMMA InvStep == Inv /\ [Next]_vars => Inv'
<1> SUFFICES ASSUME Inv, [Next]_vars PROVE Inv'
  OBVIOUS
<1>1. TypeOK'
  BY TypeStep DEF Inv
<1>2. Rest'
  <2>1. ASSUME NEW r \in Readers, ReaderStep(r) \/ Disconnect(r) PROVE Rest'
    BY <2>1, AddWaitingStep, PostTasksStep, RecvStep, LeaveStep, StopWaitingStep, ClearStep,
       LockStep, PostCancelStep DEF ReaderStep
  <2>2. CASE MainStep
    BY <2>2, MainInvStep
  <2>3. CASE terminate
    BY <2>3, MainQuiet
  <2>4. CASE UNCHANGED vars
    BY <2>4, FrameShrinks, QuietStep DEF Inv, Rest, KeepsReleases, Processing
  <2> QED BY <2>1, <2>2, <2>3, <2>4 DEF Next
<1> QED BY <1>1, <1>2 DEF Inv, Rest

\* The inductive invariant holds in every reachable state, for every number of
\* readers, tasks and slots.
THEOREM InvCorrect == Spec => []Inv
BY InvInit, InvStep, PTL DEF Spec

\* Moving task objects between the deques, the main thread and the slots never
\* copies one: a task id is in at most one place.
THEOREM OnePlaceCorrect == Spec => []OnePlace
<1>1. Inv => OnePlace
  BY DEF Inv
<1> QED BY <1>1, InvCorrect, PTL

\* No result follows the terminal result of a task, so wait_for_all() never sees
\* a duplicate and received_count counts tasks.
THEOREM AnswerOnceCorrect == Spec => []AnswerOnce
<1>1. Inv => AnswerOnce
  BY DEF Inv
<1> QED BY <1>1, InvCorrect, PTL

\* After stop() nothing is left in server_response for the reader.
THEOREM NoLeakedResultsCorrect == Spec => []NoLeakedResults
<1>1. Inv => NoLeakedResults
  BY DEF Inv, ReaderPhases, NoLeakedResults
<1> QED BY <1>1, InvCorrect, PTL

-----------------------------------------------------------------------------
(* Deferred tasks *)

SomeGaveUp == \E t \in Tasks : GaveUp(t)

\* How stop() ends: a reader that posts cancel tasks is cancelled, one that is done has
\* nothing to receive, and the ids of an open request are registered.
EndOf(r) ==
    /\ reader_pc[r] \in {"clearing", "cancelling", "posting"} => cancelled[r]
    /\ reader_pc[r] = "done" => ~has_next(r)
    /\ reader_pc[r] \in {"registered", "reading", "stopping"} => Ids(r) \subseteq waiting_task_ids

ReaderEnds == \A r \in Readers : EndOf(r)

DeferredKinds == \A t \in Tasks : Deferred(t) => Kind[t] # "instant"

\* What is deferred has somebody who brings it back: a busy slot, or a task that came back
\* before it and has not had its turn.
Awaited ==
    queue_tasks_deferred # <<>> =>
        \/ \E s \in Slots : slot_task[s] # NoTask
        \/ \E t \in Tasks : Kind[t] # "instant" /\ (Queued(t) \/ Processing(t))

Waiting == ReaderEnds /\ DeferredKinds /\ (Awaited \/ SomeGaveUp)

\* Every result the main thread sends goes to a task that has not ended.
LEMMA MainReplies ==
    ASSUME Inv, MainStep \/ terminate
    PROVE  /\ UNCHANGED <<waiting_task_ids, readerVars>>
           /\ \/ UNCHANGED queue_results
              \/ \E u \in Tasks, kind \in ResultKinds : Send(u, kind) /\ ~HasTerminal(u)
<1> DEFINE Frame == UNCHANGED <<waiting_task_ids, readerVars>>
           Replies == \E u \in Tasks, kind \in ResultKinds : Send(u, kind) /\ ~HasTerminal(u)
           Goal == Frame /\ (UNCHANGED queue_results \/ Replies)
<1> USE TaskAssumption
<1>0. {"final", "error", "partial"} \subseteq ResultKinds
  BY DEF ResultKinds
<1>1. ASSUME NEW t \in Tasks, ProcessTask(t) PROVE Goal
  <2>1. CASE DeferCompletion(t) \/ DeferSlotAction(t) \/ LaunchCompletion(t) \/ ProcessCancel(t)
    BY <2>1 DEF DeferCompletion, DeferSlotAction, Defer, LaunchCompletion, ProcessCancel, resultVars
  <2>2. CASE RejectTask(t) \/ DoSlotAction(t) \/ DoInstant(t)
    <3>1. Processing(t) /\ Frame /\ (Send(t, "error") \/ Send(t, "final"))
      BY <2>2 DEF RejectTask, DoSlotAction, DoInstant, Answer
    <3>2. ~HasTerminal(t)
      BY <3>1 DEF Inv, AnswerOnce, Settled, Pending
    <3> QED BY <1>0, <3>1, <3>2
  <2>3. CASE LaunchFails(t)
    <3>1. Frame /\ Processing(t)
      BY <2>3 DEF LaunchFails
    <3>2. PICK u \in {t} \cup Children(t) : Send(u, "error")
      BY <2>3 DEF LaunchFails
    <3>3. u \in Tasks /\ (u = t \/ Parent[u] = t)
      BY <3>2 DEF Children
    <3>4. t # NoTask
      BY ModelValuesAssumption
    <3>5. ~HasTerminal(u)
      BY <3>1, <3>3, <3>4 DEF Inv, AnswerOnce, Settled, Pending
    <3> QED BY <1>0, <3>1, <3>2, <3>3, <3>5
  <2> QED BY <1>1, <2>1, <2>2, <2>3 DEF ProcessTask
<1>2. ASSUME NEW s \in Slots, SlotStep(s) PROVE Goal
  <2>1. CASE PromptDone(s)
    BY <2>1 DEF PromptDone, resultVars
  <2>2. CASE Release(s)
    BY <2>2 DEF Release, resultVars
  <2>3. CASE SlotContinues(s)
    <3>1. s \in todo /\ main_pc = "slots" /\ Frame
      BY <2>3 DEF SlotContinues
    <3>2. slot_task[s] \in Tasks /\ ~HasTerminal(slot_task[s])
      BY <3>1, VisitedSlot
    <3> QED BY <1>0, <2>3, <3>1, <3>2 DEF SlotContinues
  <2>4. CASE SlotFinishes(s) \/ SlotFails(s) \/ AbortSlot(s)
    <3>1. /\ s \in todo /\ main_pc \in {"slots", "abort"} /\ Frame
          /\ Send(slot_task[s], "final") \/ Send(slot_task[s], "error")
      BY <2>4 DEF SlotFinishes, SlotFails, AbortSlot, EndSlot
    <3>2. slot_task[s] \in Tasks /\ ~HasTerminal(slot_task[s])
      BY <3>1, VisitedSlot
    <3> QED BY <1>0, <3>1, <3>2
  <2> QED BY <1>2, <2>1, <2>2, <2>3, <2>4 DEF SlotStep
<1>3. CASE PopTask \/ UpdateSlots \/ QueueEmpty \/ LoopExit \/ WaitEnd \/ AllIdle \/ RoundEnd
           \/ Released \/ AbortAllSlots \/ ProcessNextResponse \/ terminate
  BY <1>3 DEF PopTask, UpdateSlots, QueueEmpty, LoopExit, WaitEnd, AllIdle, RoundEnd,
              Released, AbortAllSlots, ProcessNextResponse, terminate, resultVars
<1> QED BY <1>1, <1>2, <1>3 DEF MainStep

\* Every result of the reader was taken: all its tasks are final.
LEMMA AllFinal ==
    ASSUME Inv, NEW r \in Readers, ~cancelled[r], ~has_next(r)
    PROVE  \A t \in Ids(r) : answered[t] = "final"
<1> DEFINE F == {u \in Ids(r) : answered[u] = "final"}
<1>1. received_count[r] = Cardinality(F)
  BY DEF Inv, ReaderPhases
<1>2. IsFiniteSet(Ids(r))
  BY FinitenessAssumption, FS_Subset DEF Ids
<1>3. F \subseteq Ids(r)
  OBVIOUS
<1>4. /\ IsFiniteSet(F) /\ Cardinality(F) <= Cardinality(Ids(r))
      /\ Cardinality(F) = Cardinality(Ids(r)) => F = Ids(r)
  BY <1>2, <1>3, FS_Subset
<1>5. Cardinality(F) \in Nat /\ Cardinality(Ids(r)) \in Nat
  BY <1>2, <1>4, FS_CardinalityType
<1> HIDE DEF F
<1>6. ~(Cardinality(F) < Cardinality(Ids(r)))
  BY <1>1 DEF has_next
<1>7. F = Ids(r)
  BY <1>4, <1>5, <1>6
<1> QED BY <1>7 DEF F

\* A step of one reader leaves the others alone.
LEMMA ReaderAlone ==
    ASSUME Inv, NEW r \in Readers, ReaderStep(r) \/ Disconnect(r), NEW x \in Readers, x # r
    PROVE  /\ reader_pc'[x] = reader_pc[x] /\ cancelled'[x] = cancelled[x]
           /\ received_count'[x] = received_count[x]
           /\ \A t \in Ids(x) : t \in waiting_task_ids => t \in waiting_task_ids'
<1>0. /\ reader_pc \in [Readers -> ReaderPcs] /\ cancelled \in [Readers -> BOOLEAN]
      /\ received_count \in [Readers -> Nat]
  BY DEF Inv, TypeOK
<1>1. /\ reader_pc'[x] = reader_pc[x] /\ cancelled'[x] = cancelled[x]
      /\ received_count'[x] = received_count[x]
  BY <1>0 DEF ReaderStep, Disconnect, AddWaiting, PostTasks, RecvResult, AllReceived, StopWaiting,
          ClearResults, LockForCancel, PostCancel
<1>2. id_left[r] \subseteq Ids(r)
  BY DEF Inv, ReaderPhases
<1>3. \A t \in Ids(x) : t \notin Ids(r)
  BY DEF Ids
<1>4. \A t \in Ids(x) : t \in waiting_task_ids => t \in waiting_task_ids'
  BY <1>2, <1>3 DEF ReaderStep, Disconnect, AddWaiting, PostTasks, RecvResult, AllReceived, StopWaiting,
          ClearResults, LockForCancel, PostCancel, resultVars
<1> QED BY <1>1, <1>4

\* The readers' part of Waiting.
LEMMA ReaderEndsStep == Inv /\ ReaderEnds /\ [Next]_vars => ReaderEnds'
<1> SUFFICES ASSUME Inv, ReaderEnds, [Next]_vars PROVE ReaderEnds'
  OBVIOUS
<1>1. ASSUME UNCHANGED <<waiting_task_ids, readerVars>> PROVE ReaderEnds'
  <2>1. UNCHANGED <<waiting_task_ids, reader_pc, cancelled, received_count>>
    BY <1>1 DEF readerVars
  <2>2. ASSUME NEW x \in Readers PROVE EndOf(x)'
    <3>1. EndOf(x)
      BY DEF ReaderEnds
    <3> QED BY <2>1, <3>1 DEF EndOf, has_next, Ids
  <2> QED BY <2>2 DEF ReaderEnds
<1>2. ASSUME NEW r \in Readers, ReaderStep(r) \/ Disconnect(r) PROVE ReaderEnds'
  <2>0. /\ reader_pc \in [Readers -> ReaderPcs] /\ cancelled \in [Readers -> BOOLEAN]
        /\ received_count \in [Readers -> Nat]
    BY DEF Inv, TypeOK
  <2>1. ASSUME NEW x \in Readers, x # r PROVE EndOf(x)'
    <3>1. EndOf(x)
      BY DEF ReaderEnds
    <3> QED BY <1>2, <2>1, <3>1, ReaderAlone DEF EndOf, has_next, Ids
  <2>2. EndOf(r)
    BY DEF ReaderEnds
  <2>3. ASSUME AddWaiting(r) PROVE EndOf(r)'
    BY <2>0, <2>3 DEF AddWaiting, EndOf, Ids
  <2>4. ASSUME PostTasks(r) \/ AllReceived(r) \/ Disconnect(r) PROVE EndOf(r)'
    BY <2>0, <2>2, <2>4 DEF PostTasks, AllReceived, Disconnect, EndOf, Ids, resultVars
  <2>5. ASSUME NEW t \in Tasks, RecvResult(r, t) PROVE EndOf(r)'
    <3>1. /\ reader_pc[r] = "reading" /\ reader_pc'[r] \in {"reading", "stopping"}
          /\ UNCHANGED waiting_task_ids
      BY <2>0, <2>5 DEF RecvResult
    <3> QED BY <2>2, <3>1 DEF EndOf, Ids
  <2>6. ASSUME StopWaiting(r) PROVE EndOf(r)'
    <3>1. CASE has_next(r)
      BY <2>0, <2>6, <3>1 DEF StopWaiting, EndOf
    <3>2. CASE ~has_next(r)
      <4>1. /\ reader_pc'[r] = "done" /\ received_count' = received_count
            /\ cancelled'[r] = cancelled[r]
        BY <2>0, <2>6, <3>2 DEF StopWaiting
      <4>2. ~has_next(r)'
        BY <3>2, <4>1 DEF has_next, Ids
      <4> QED BY <4>1, <4>2 DEF EndOf
    <3> QED BY <3>1, <3>2
  <2>7. ASSUME NEW t \in Tasks, ClearResults(r, t) PROVE EndOf(r)'
    BY <2>0, <2>2, <2>7 DEF ClearResults, EndOf
  <2>8. ASSUME LockForCancel(r) PROVE EndOf(r)'
    BY <2>0, <2>2, <2>8 DEF LockForCancel, EndOf
  <2>9. ASSUME NEW t \in Tasks, PostCancel(r, t) PROVE EndOf(r)'
    <3>1. reader_pc'[r] \in {"posting", "done"} /\ cancelled'[r]
      BY <2>0, <2>2, <2>9 DEF PostCancel, EndOf
    <3> QED BY <3>1 DEF EndOf, has_next
  <2>10. EndOf(r)'
    BY <1>2, <2>3, <2>4, <2>5, <2>6, <2>7, <2>8, <2>9 DEF ReaderStep
  <2> QED BY <2>1, <2>10 DEF ReaderEnds
<1>3. CASE MainStep \/ terminate
  BY <1>1, <1>3, MainReplies
<1>4. CASE UNCHANGED vars
  BY <1>1, <1>4 DEF vars, resultVars
<1> QED BY <1>2, <1>3, <1>4 DEF Next

\* A terminal result among the queued ones.
LEMMA TerminalOccurs ==
    ASSUME NEW q
    PROVE  (\E i \in 1..Len(q) : q[i] \in Terminal) <=> Occurs("final", q) \/ Occurs("error", q)
BY DEF Terminal, Occurs

\* Nobody takes back that a task gave up: errors and results of slot actions stay queued
\* until the reader has taken them, and stop() erases them only for a cancelled request.
LEMMA GaveUpStays ==
    ASSUME Inv, ReaderEnds, [Next]_vars, NEW t \in Tasks, GaveUp(t)
    PROVE  GaveUp(t)'
<1> DEFINE q == queue_results[t]
<1>0. /\ Owner[t] \in Readers /\ queue_results \in [Tasks -> Seq(ResultKinds)]
      /\ answered \in [Tasks -> {"no"} \cup Terminal]
      /\ reader_pc \in [Readers -> ReaderPcs] /\ cancelled \in [Readers -> BOOLEAN]
      /\ received_count \in [Readers -> Nat]
  BY TaskAssumption DEF Inv, TypeOK
<1>1. ASSUME Withdrawn(Owner[t]) => Withdrawn(Owner[t])',
             \A e : Occurs(e, q) => Occurs(e, queue_results'[t]),
             answered[t] # "no" => answered'[t] # "no"
      PROVE  GaveUp(t)'
  <2>1. HasTerminal(t) => HasTerminal(t)'
    BY <1>1, TerminalOccurs DEF HasTerminal
  <2> QED BY <1>1, <2>1 DEF GaveUp
<1>2. CASE MainStep \/ terminate
  <2>1. UNCHANGED readerVars
    BY <1>2, MainReplies
  <2>2. \A e : Occurs(e, q) => Occurs(e, queue_results'[t])
    <3>1. ASSUME UNCHANGED queue_results
          PROVE  \A e : Occurs(e, q) => Occurs(e, queue_results'[t])
      <4>1. queue_results'[t] = q
        BY <3>1
      <4> HIDE DEF q
      <4> QED BY <4>1, Zenon
    <3>2. ASSUME NEW u \in Tasks, NEW kind \in ResultKinds, Send(u, kind)
          PROVE  \A e : Occurs(e, q) => Occurs(e, queue_results'[t])
      <4>1. queue_results'[t] = q \/ queue_results'[t] = Append(q, kind)
        BY <1>0, <3>2 DEF Send
      <4>2. q \in Seq(ResultKinds)
        BY <1>0
      <4> HIDE DEF q
      <4>3. CASE queue_results'[t] = q
        BY <4>3, Zenon
      <4>4. CASE queue_results'[t] = Append(q, kind)
        <5>1. \A e : Occurs(e, q) => Occurs(e, Append(q, kind))
          BY <4>2, AppendFacts
        <5> QED BY <4>4, <5>1, Zenon
      <4> QED BY <4>1, <4>3, <4>4
    <3> QED BY <1>2, <3>1, <3>2, MainReplies
  <2>3. Withdrawn(Owner[t]) => Withdrawn(Owner[t])'
    BY <2>1 DEF Withdrawn, has_next, Ids, readerVars
  <2> QED BY <1>1, <2>1, <2>2, <2>3 DEF readerVars
<1>3. CASE UNCHANGED vars
  <2>1. UNCHANGED readerVars /\ UNCHANGED queue_results
    BY <1>3 DEF vars, resultVars
  <2>2. Withdrawn(Owner[t]) => Withdrawn(Owner[t])'
    BY <2>1 DEF Withdrawn, has_next, Ids, readerVars
  <2> QED BY <1>1, <2>1, <2>2 DEF readerVars
<1>4. ASSUME NEW r \in Readers, ReaderStep(r) \/ Disconnect(r) PROVE GaveUp(t)'
  <2>1. Withdrawn(Owner[t]) => Withdrawn(Owner[t])'
    <3>1. CASE Owner[t] # r
      <4>1. PICK x \in Readers : x = Owner[t]
        BY <1>0
      <4>2. Withdrawn(x) => Withdrawn(x)'
        BY <1>4, <3>1, <4>1, ReaderAlone DEF Withdrawn, has_next, Ids
      <4> QED BY <4>1, <4>2
    <3>2. CASE Owner[t] = r
      <4>1. cancelled[r] => cancelled'[r]
        BY <1>0, <1>4 DEF ReaderStep, Disconnect, AddWaiting, PostTasks, RecvResult, AllReceived, StopWaiting,
                ClearResults, LockForCancel, PostCancel
      <4>2. reader_pc[r] = "stopping" => StopWaiting(r)
        BY <1>4 DEF ReaderStep, Disconnect, AddWaiting, PostTasks, RecvResult, AllReceived,
                ClearResults, LockForCancel, PostCancel
      <4>3. StopWaiting(r) /\ has_next(r) => cancelled'[r]
        BY <1>0 DEF StopWaiting
      <4> QED BY <3>2, <4>1, <4>2, <4>3 DEF Withdrawn
    <3> QED BY <3>1, <3>2
  <2>2. CASE UNCHANGED <<queue_results, answered>>
    BY <1>1, <2>1, <2>2
  <2>3. ASSUME NEW u \in Tasks, RecvResult(r, u) PROVE GaveUp(t)'
    <3>1. CASE u # t
      <4>1. queue_results'[t] = q /\ answered'[t] = answered[t]
        BY <1>0, <2>3, <3>1 DEF RecvResult
      <4> QED BY <1>1, <2>1, <4>1
    <3>2. CASE u = t
      <4>1. /\ q # <<>> /\ queue_results'[t] = Tail(q) /\ Owner[t] = r
            /\ Head(q) \in Terminal => answered'[t] = Head(q)
            /\ Head(q) \notin Terminal => answered'[t] = answered[t]
            /\ has_next(r) /\ cancelled' = cancelled
            /\ Head(q) = "error" => reader_pc'[r] = "stopping" /\ received_count' = received_count
        BY <1>0, <2>3, <3>2 DEF RecvResult
      <4>2. q \in Seq(ResultKinds)
        BY <1>0
      <4>3. \A e : Occurs(e, q) <=> e = Head(q) \/ Occurs(e, queue_results'[t])
        BY <4>1, <4>2, TailFacts
      <4>4. CASE Head(q) = "error"
        <5>1. has_next(r)'
          BY <4>1, <4>4 DEF has_next, Ids
        <5> QED BY <4>1, <4>4, <5>1 DEF GaveUp, Withdrawn
      <4>5. CASE Head(q) = "final"
        <5>1. answered'[t] # "no"
          BY <4>1, <4>5 DEF Terminal
        <5>2. Occurs("error", q) => Occurs("error", queue_results'[t])
          BY <4>3, <4>5
        <5> QED BY <2>1, <5>1, <5>2 DEF GaveUp, HasTerminal
      <4>6. CASE Head(q) \notin Terminal
        <5>1. Occurs("error", q) => Occurs("error", queue_results'[t])
          BY <4>3, <4>6 DEF Terminal
        <5>2. Occurs("final", q) => Occurs("final", queue_results'[t])
          BY <4>3, <4>6 DEF Terminal
        <5>3. HasTerminal(t) => HasTerminal(t)'
          BY <4>1, <4>6, <5>1, <5>2, TerminalOccurs DEF HasTerminal
        <5> QED BY <2>1, <5>1, <5>3 DEF GaveUp
      <4> QED BY <4>4, <4>5, <4>6 DEF Terminal
    <3> QED BY <3>1, <3>2
  <2>4. ASSUME NEW u \in Tasks, ClearResults(r, u) PROVE GaveUp(t)'
    <3>1. CASE u # t
      <4>1. queue_results'[t] = q /\ answered'[t] = answered[t]
        BY <1>0, <2>4, <3>1 DEF ClearResults
      <4> QED BY <1>1, <2>1, <4>1
    <3>2. CASE u = t
      <4>1. t \in id_left[r] /\ reader_pc[r] = "clearing" /\ cancelled' = cancelled
        BY <2>4, <3>2 DEF ClearResults
      <4>2. Owner[t] = r
        BY <4>1 DEF Inv, ReaderPhases, Ids
      <4>3. cancelled'[r]
        BY <4>1 DEF ReaderEnds, EndOf
      <4> QED BY <4>2, <4>3 DEF GaveUp, Withdrawn
    <3> QED BY <3>1, <3>2
  <2>5. UNCHANGED <<queue_results, answered>> \/ \E u \in Tasks : RecvResult(r, u) \/ ClearResults(r, u)
    BY <1>4 DEF ReaderStep, Disconnect, AddWaiting, PostTasks, AllReceived, StopWaiting,
            LockForCancel, PostCancel, resultVars
  <2> QED BY <2>2, <2>3, <2>4, <2>5
<1> QED BY <1>2, <1>3, <1>4 DEF Next

\* An answer to a task that has not run reaches its reader, or the request was given up.
LEMMA TerminalSent ==
    ASSUME Inv, ReaderEnds, NEW t \in Tasks, Pending(t), NEW u \in {t} \cup Children(t),
           NEW kind \in Terminal, Send(u, kind), UNCHANGED readerVars,
           kind = "error" \/ Kind[u] = "slot_action"
    PROVE  SomeGaveUp'
<1>0. u \in Tasks /\ Owner[u] = Owner[t] /\ Owner[u] \in Readers
  <2>1. u \in Tasks /\ Owner[t] \in Readers
    BY TaskAssumption DEF Children
  <2>2. CASE u = t
    BY <2>1, <2>2
  <2>3. CASE u # t
    <3>1. Parent[u] = t /\ t # NoTask
      BY <2>3, ModelValuesAssumption DEF Children
    <3> QED BY <2>1, <3>1, TaskAssumption
  <2> QED BY <2>2, <2>3
<1>1. CASE u \in waiting_task_ids
  <2>1. queue_results[u] \in Seq(ResultKinds) /\ kind \in ResultKinds
        /\ queue_results \in [Tasks -> Seq(ResultKinds)]
    BY <1>0 DEF Inv, TypeOK, Terminal, ResultKinds
  <2>2. queue_results'[u] = Append(queue_results[u], kind)
    BY <1>0, <1>1, <2>1 DEF Send
  <2>3. Occurs(kind, queue_results'[u])
    BY <2>1, <2>2, AppendFacts
  <2>4. HasTerminal(u)'
    BY <2>3, TerminalOccurs DEF HasTerminal, Terminal
  <2>5. GaveUp(u)'
    BY <2>3, <2>4 DEF GaveUp
  <2> QED BY <1>0, <2>5 DEF SomeGaveUp
<1>2. CASE u \notin waiting_task_ids
  <2>1. PICK r \in Readers : r = Owner[u]
    BY <1>0
  <2>2. u \in Ids(r) /\ t \in Ids(r)
    BY <1>0, <2>1 DEF Ids
  <2>3. reader_pc[r] \in ReaderPcs \ {"new", "registered", "reading", "stopping"}
    <3>1. Posted(r) /\ reader_pc[r] \in ReaderPcs
      BY <1>0, <2>1 DEF Inv, TasksPosted, TypeOK
    <3>2. EndOf(r)
      BY DEF ReaderEnds
    <3> QED BY <1>2, <2>2, <3>1, <3>2 DEF Posted, EndOf
  <2>4. cancelled[r]
    <3> SUFFICES ASSUME ~cancelled[r] PROVE FALSE
      OBVIOUS
    <3>1. ~has_next(r)
      BY <2>3 DEF ReaderEnds, EndOf, ReaderPcs
    <3>2. answered[t] = "final"
      BY <2>2, <3>1, AllFinal
    <3>3. Settled(t)
      BY <3>2 DEF Inv, AnswerOnce, HasTerminal
    <3> QED BY <3>3 DEF Settled
  <2>5. Withdrawn(Owner[u])'
    BY <2>1, <2>4 DEF Withdrawn, readerVars
  <2> QED BY <1>0, <2>5 DEF SomeGaveUp, GaveUp
<1> QED BY <1>1, <1>2

\* A step that moves no task.
LEMMA MainFrame ==
    ASSUME DeferredKinds, UNCHANGED <<queue_tasks, queue_tasks_deferred, slot_task>>,
           \A t \in Tasks : Kind[t] # "instant" /\ Processing(t) => Processing(t)'
    PROVE  DeferredKinds' /\ (Awaited => Awaited')
<1>1. \A t \in Tasks : (Queued(t)' <=> Queued(t)) /\ (Deferred(t)' <=> Deferred(t))
  BY DEF Queued, Deferred, Occurs
<1> QED BY <1>1 DEF Awaited, DeferredKinds

\* A task that has its turn takes a slot, is deferred because some slot is busy, or is
\* answered without one.
LEMMA ProcessAwaited ==
    ASSUME Inv, ReaderEnds, DeferredKinds, NEW t \in Tasks, ProcessTask(t)
    PROVE  DeferredKinds' /\ (Awaited => Awaited' \/ SomeGaveUp')
<1>0. \A u \in Tasks : Processing(t) => (Processing(u) <=> u = t)
  BY EntryTypes DEF Processing
<1>1. CASE DeferCompletion(t) \/ DeferSlotAction(t)
  <2>1. /\ Processing(t) /\ Kind[t] # "instant" /\ UNCHANGED slot_task
        /\ queue_tasks_deferred' = Append(queue_tasks_deferred, t)
    BY <1>1 DEF DeferCompletion, DeferSlotAction, Defer, BackToLoop, slotVars
  <2>2. \E s \in Slots : slot_task[s] # NoTask
    <3>1. CASE DeferSlotAction(t)
      BY <3>1, TaskAssumption DEF DeferSlotAction, is_processing
    <3>2. CASE DeferCompletion(t)
      <4> SUFFICES ASSUME \A s \in Slots : slot_task[s] = NoTask PROVE FALSE
        OBVIOUS
      <4>1. IdleSlots = Slots
        BY DEF IdleSlots, is_processing
      <4>2. AvailableSlots(t) # {}
        <5>1. IdSlot[t] \in Slots \cup {NoSlot} /\ Slots # {}
          BY TaskAssumption, FitAssumption
        <5> QED BY <4>1, <5>1 DEF AvailableSlots
      <4>3. Cardinality(Slots) < Cardinality(Children(t)) + 1
        BY <3>2, <4>1, <4>2 DEF DeferCompletion
      <4>4. Cardinality(Children(t)) + 1 <= Cardinality(Slots)
        BY FitAssumption
      <4>5. Cardinality(Slots) \in Nat /\ Cardinality(Children(t)) \in Nat
        <5>1. Children(t) \subseteq Tasks
          BY DEF Children
        <5> QED BY <5>1, FinitenessAssumption, FS_Subset, FS_CardinalityType
      <4> QED BY <4>3, <4>4, <4>5
    <3> QED BY <1>1, <3>1, <3>2
  <2>3. \A e : Occurs(e, queue_tasks_deferred') <=> e = t \/ Occurs(e, queue_tasks_deferred)
    BY <2>1, AppendFacts DEF Inv, TypeOK
  <2>4. DeferredKinds'
    BY <2>1, <2>3 DEF DeferredKinds, Deferred
  <2> QED BY <2>1, <2>2, <2>4 DEF Awaited
<1>2. ASSUME UNCHANGED queue_tasks_deferred PROVE DeferredKinds'
  BY <1>2 DEF DeferredKinds, Deferred, Occurs
<1>3. CASE LaunchCompletion(t)
  <2>1. UNCHANGED queue_tasks_deferred
    BY <1>3 DEF LaunchCompletion, queueVars
  <2> DEFINE ids == {t} \cup Children(t)
  <2>2. PICK g \in Placements(ids) : Launch(g)
    BY <1>3 DEF LaunchCompletion
  <2>3. ids \in SUBSET Tasks /\ t \in ids
    BY DEF Children
  <2> HIDE DEF ids
  <2>4. g[t] \in Slots /\ slot_task'[g[t]] = t
    BY <2>2, <2>3, LaunchFacts DEF Inv
  <2>5. \E s \in Slots : slot_task'[s] # NoTask
    BY <2>4, ModelValuesAssumption
  <2> QED BY <1>2, <2>1, <2>5 DEF Awaited
<1>4. CASE DoInstant(t)
  <2>1. /\ UNCHANGED <<queue_tasks, queue_tasks_deferred, slot_task>>
        /\ Processing(t) /\ Kind[t] = "instant"
    BY <1>4 DEF DoInstant, Answer, queueVars, slotVars
  <2>2. \A u \in Tasks : Kind[u] # "instant" => ~Processing(u)
    BY <1>0, <2>1
  <2> QED BY <2>1, <2>2, MainFrame
<1>5. CASE ProcessCancel(t)
  <2>1. /\ UNCHANGED <<queue_tasks, queue_tasks_deferred, slot_task>>
        /\ cur = CancelEntry(t)
    BY <1>5 DEF ProcessCancel, queueVars, slotVars
  <2>2. \A u \in Tasks : ~Processing(u)
    BY <2>1, EntryTypes DEF Processing
  <2> QED BY <2>1, <2>2, MainFrame
<1>6. CASE LaunchFails(t)
  <2>1. PICK u \in {t} \cup Children(t) : Send(u, "error")
    BY <1>6 DEF LaunchFails
  <2>2. Pending(t) /\ UNCHANGED readerVars /\ UNCHANGED queue_tasks_deferred
    BY <1>6 DEF LaunchFails, Pending, queueVars
  <2>3. "error" \in Terminal
    BY DEF Terminal
  <2> QED BY <1>2, <2>1, <2>2, <2>3, TerminalSent
<1>7. CASE RejectTask(t) \/ DoSlotAction(t)
  <2>1. PICK kind \in Terminal : Send(t, kind) /\ (kind = "error" \/ Kind[t] = "slot_action")
    BY <1>7 DEF RejectTask, DoSlotAction, Answer, Terminal
  <2>2. Pending(t) /\ UNCHANGED readerVars /\ UNCHANGED queue_tasks_deferred
    BY <1>7 DEF RejectTask, DoSlotAction, Answer, Pending, queueVars
  <2>3. t \in {t} \cup Children(t)
    OBVIOUS
  <2> QED BY <1>2, <2>1, <2>2, <2>3, TerminalSent
<1> QED BY <1>1, <1>3, <1>4, <1>5, <1>6, <1>7 DEF ProcessTask

\* release() frees a slot only against the task it brings back.
LEMMA ReleaseAwaited ==
    ASSUME Inv, DeferredKinds, NEW s \in Slots, Release(s)
    PROVE  DeferredKinds' /\ Awaited'
<1>1. PopDeferredTask(s)
  BY DEF Release
<1>2. CASE queue_tasks_deferred = <<>>
  <2>1. queue_tasks_deferred' = <<>>
    BY <1>1, <1>2 DEF PopDeferredTask
  <2> QED BY <2>1 DEF Awaited, DeferredKinds, Deferred, Occurs
<1>3. CASE queue_tasks_deferred # <<>>
  <2> DEFINE i == PopDeferredIndex(s)
  <2>1. i \in 1..Len(queue_tasks_deferred)
    BY <1>3, PopDeferredIndexType DEF Inv
  <2>2. /\ queue_tasks' = <<TaskEntry(queue_tasks_deferred[i])>> \o queue_tasks
        /\ queue_tasks_deferred' = EraseIndex(queue_tasks_deferred, i)
    BY <1>1, <1>3 DEF PopDeferredTask
  <2> HIDE DEF i
  <2>3. queue_tasks_deferred \in Seq(Tasks) /\ queue_tasks \in Seq(Entries)
    BY DEF Inv, TypeOK
  <2>4. PICK t \in Tasks : t = queue_tasks_deferred[i]
    BY <2>1, <2>3
  <2>5. Kind[t] # "instant"
    BY <2>1, <2>4 DEF DeferredKinds, Deferred, Occurs
  <2>6. Queued(t)'
    BY <2>2, <2>3, <2>4, EntryTypes, PrependFacts DEF Queued
  <2>7. \A e : Occurs(e, queue_tasks_deferred') => Occurs(e, queue_tasks_deferred)
    BY <2>1, <2>2, <2>3, EraseIndexFacts
  <2>8. DeferredKinds'
    BY <2>7 DEF DeferredKinds, Deferred
  <2> QED BY <2>5, <2>6, <2>8 DEF Awaited
<1> QED BY <1>2, <1>3

\* The other steps of the main thread.
LEMMA MainAwaited ==
    ASSUME Inv, ReaderEnds, DeferredKinds, MainStep \/ terminate
    PROVE  DeferredKinds' /\ (Awaited => Awaited' \/ SomeGaveUp')
<1> DEFINE Kept == DeferredKinds' /\ (Awaited => Awaited' \/ SomeGaveUp')
<1>1. CASE PopTask
  <2>1. /\ \A e : Occurs(e, queue_tasks) <=> e = Head(queue_tasks) \/ Occurs(e, queue_tasks')
    BY <1>1, TailFacts DEF PopTask, Inv, TypeOK
  <2>2. /\ UNCHANGED <<queue_tasks_deferred, slot_task>>
        /\ main_pc = "loop" /\ main_pc' = "process" /\ cur' = Head(queue_tasks)
    BY <1>1 DEF PopTask
  <2>3. \A t \in Tasks : /\ Queued(t) <=> Queued(t)' \/ Processing(t)'
                         /\ ~Processing(t)
                         /\ Deferred(t)' <=> Deferred(t)
    BY <2>1, <2>2 DEF Queued, Processing, Deferred, Occurs
  <2> QED BY <2>2, <2>3 DEF Awaited, DeferredKinds
<1>2. CASE UpdateSlots
  <2>1. /\ queue_tasks' = Append(queue_tasks, NextResponse) /\ main_pc = "update"
        /\ UNCHANGED <<queue_tasks_deferred, slot_task>>
    BY <1>2 DEF UpdateSlots
  <2>2. \A e : Occurs(e, queue_tasks') <=> e = NextResponse \/ Occurs(e, queue_tasks)
    BY <2>1, AppendFacts, EntryTypes DEF Inv, TypeOK
  <2>3. \A t \in Tasks : /\ Queued(t) => Queued(t)'
                         /\ ~Processing(t)
                         /\ Deferred(t)' <=> Deferred(t)
    BY <2>1, <2>2, EntryTypes DEF Queued, Processing, Deferred, Occurs
  <2> QED BY <2>1, <2>3 DEF Awaited, DeferredKinds
<1>3. CASE QueueEmpty \/ LoopExit \/ WaitEnd \/ AllIdle \/ RoundEnd \/ Released
           \/ AbortAllSlots \/ terminate \/ ProcessNextResponse
  <2>1. UNCHANGED <<queue_tasks, queue_tasks_deferred, slot_task>>
    BY <1>3 DEF QueueEmpty, LoopExit, WaitEnd, AllIdle, RoundEnd, Released, AbortAllSlots, terminate,
            ProcessNextResponse
  <2>2. UNCHANGED <<main_pc, cur>> \/ main_pc # "process" \/ cur = NextResponse
    BY <1>3 DEF QueueEmpty, LoopExit, WaitEnd, AllIdle, RoundEnd, Released, AbortAllSlots, terminate,
            ProcessNextResponse, mainVars
  <2>3. \A t \in Tasks : Processing(t) => Processing(t)'
    BY <2>2, EntryTypes DEF Processing
  <2> QED BY <2>1, <2>3, MainFrame
<1>4. ASSUME NEW s \in Slots, SlotContinues(s) \/ PromptDone(s) \/ SlotFinishes(s) \/ SlotFails(s) \/ AbortSlot(s)
      PROVE  Kept
  <2>1. UNCHANGED <<queue_tasks, queue_tasks_deferred, slot_task>> /\ main_pc # "process"
    BY <1>4 DEF SlotContinues, PromptDone, SlotFinishes, SlotFails, AbortSlot, EndSlot
  <2>2. \A t \in Tasks : ~Processing(t)
    BY <2>1 DEF Processing
  <2> QED BY <2>1, <2>2, MainFrame
<1>5. ASSUME NEW s \in Slots, SlotStep(s) PROVE Kept
  BY <1>4, <1>5, ReleaseAwaited DEF SlotStep
<1>6. ASSUME NEW t \in Tasks, ProcessTask(t) PROVE Kept
  BY <1>6, ProcessAwaited
<1> QED BY <1>1, <1>2, <1>3, <1>5, <1>6 DEF MainStep

\* Steps of the HTTP threads: posted tasks only add to the queue, and a cancel task takes
\* away only what was given up.
LEMMA ReaderAwaited ==
    ASSUME Inv, ReaderEnds, DeferredKinds, NEW r \in Readers, ReaderStep(r) \/ Disconnect(r), [Next]_vars
    PROVE  DeferredKinds' /\ (Awaited => Awaited' \/ SomeGaveUp')
<1>1. CASE UNCHANGED <<queue_tasks, queue_tasks_deferred, slot_task, main_pc, cur>>
  <2>1. \A u \in Tasks : Processing(u) => Processing(u)'
    BY <1>1 DEF Processing
  <2> QED BY <1>1, <2>1, MainFrame
<1>2. ASSUME NEW t \in Tasks, PostCancel(r, t)
      PROVE  DeferredKinds' /\ (Awaited => Awaited' \/ SomeGaveUp')
  <2>1. /\ t \in id_left[r] /\ reader_pc[r] = "posting"
        /\ queue_tasks_deferred' = Erase(queue_tasks_deferred, t)
    BY <1>2 DEF PostCancel
  <2>2. Owner[t] = r /\ cancelled[r]
    BY <2>1 DEF Inv, ReaderPhases, Ids, ReaderEnds, EndOf
  <2>3. GaveUp(t)
    BY <2>2 DEF GaveUp, Withdrawn
  <2>4. SomeGaveUp'
    BY <2>3, GaveUpStays DEF SomeGaveUp
  <2>5. \A e : Occurs(e, queue_tasks_deferred') => Occurs(e, queue_tasks_deferred)
    BY <2>1, EraseFacts DEF Inv, TypeOK
  <2> QED BY <2>4, <2>5 DEF DeferredKinds, Deferred
<1>3. CASE PostTasks(r)
  <2> DEFINE n == NewEntries(r)
  <2>1. /\ queue_tasks' = n \o queue_tasks \/ queue_tasks' = queue_tasks \o n
        /\ UNCHANGED <<queue_tasks_deferred, slot_task, main_pc, cur>>
    BY <1>3 DEF PostTasks
  <2>2. n \in Seq(Entries) /\ queue_tasks \in Seq(Entries)
    BY NewEntriesType DEF Inv, TypeOK
  <2> HIDE DEF n
  <2>3. \A e : Occurs(e, queue_tasks) => Occurs(e, queue_tasks')
    <3>1. CASE queue_tasks' = n \o queue_tasks
      BY <2>2, <3>1, ConcatFacts
    <3>2. CASE queue_tasks' = queue_tasks \o n
      BY <2>2, <3>2, ConcatFacts
    <3> QED BY <2>1, <3>1, <3>2
  <2>4. \A u \in Tasks : /\ Queued(u) => Queued(u)'
                         /\ Deferred(u)' <=> Deferred(u)
                         /\ Processing(u)' <=> Processing(u)
    BY <2>1, <2>3 DEF Queued, Deferred, Occurs, Processing
  <2> QED BY <2>1, <2>4 DEF Awaited, DeferredKinds
<1>4. \/ UNCHANGED <<queue_tasks, queue_tasks_deferred, slot_task, main_pc, cur>>
      \/ PostTasks(r) \/ \E t \in Tasks : PostCancel(r, t)
  BY DEF ReaderStep, Disconnect, AddWaiting, RecvResult, AllReceived, StopWaiting, ClearResults, LockForCancel
<1> QED BY <1>1, <1>2, <1>3, <1>4

\* For any requests, failures, cancellations and aborts: with all slots idle and nothing
\* queued, no task is deferred, or some task failed, was cancelled or took no slot.  As
\* long as none does, the one task a release() brings back is enough.
THEOREM DeferredCorrect == Spec => []DeferredWaitForSlot
<1>1. Init => Waiting
  <2> SUFFICES ASSUME Init PROVE Waiting
    OBVIOUS
  <2>1. ReaderEnds
    BY DEF Init, ReaderEnds, EndOf
  <2>2. DeferredKinds /\ Awaited
    BY DEF Init, DeferredKinds, Deferred, Occurs, Awaited
  <2> QED BY <2>1, <2>2 DEF Waiting
<1>2. Inv /\ Waiting /\ [Next]_vars => Waiting'
  <2> SUFFICES ASSUME Inv, ReaderEnds, DeferredKinds, Awaited \/ SomeGaveUp, [Next]_vars PROVE Waiting'
    BY DEF Waiting
  <2>1. ReaderEnds'
    BY ReaderEndsStep
  <2>2. SomeGaveUp => SomeGaveUp'
    BY GaveUpStays DEF SomeGaveUp
  <2>3. CASE UNCHANGED vars
    <3>1. UNCHANGED <<queue_tasks, queue_tasks_deferred, slot_task, main_pc, cur>>
      BY <2>3 DEF vars, queueVars, slotVars, mainVars
    <3>2. \A t \in Tasks : Processing(t) => Processing(t)'
      BY <3>1 DEF Processing
    <3> QED BY <2>1, <2>2, <3>1, <3>2, MainFrame DEF Waiting
  <2>4. (DeferredKinds' /\ (Awaited => Awaited' \/ SomeGaveUp')) \/ UNCHANGED vars
    BY MainAwaited, ReaderAwaited DEF Next
  <2> QED BY <2>1, <2>2, <2>3, <2>4 DEF Waiting
<1>3. Waiting => DeferredWaitForSlot
  <2> SUFFICES ASSUME Waiting, main_pc = "wait", queue_tasks = <<>>, queue_tasks_deferred # <<>>
               PROVE  IdleSlots # Slots \/ SomeGaveUp
    BY DEF DeferredWaitForSlot, SomeGaveUp
  <2>1. \A t \in Tasks : ~Queued(t) /\ ~Processing(t)
    BY DEF Queued, Occurs, Processing
  <2> QED BY <2>1 DEF Waiting, Awaited, IdleSlots, is_processing
<1> QED BY <1>1, <1>2, <1>3, InvCorrect, PTL DEF Spec
=============================================================================
