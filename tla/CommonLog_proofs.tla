-------------------------- MODULE CommonLog_proofs --------------------------
(***************************************************************************)
(* Proofs about the asynchronous log, for any number of adders, any ring    *)
(* size, and any number of messages and pauses.                             *)
(*                                                                         *)
(* The worker reads from Start on; Count entries are still to be read.  Inv *)
(* says that tail is Count slots further, what these slots hold (Contents), *)
(* and that the slots between head and Start are not given back yet         *)
(* (Reserved).  Distances along the ring replace the modulus.               *)
(***************************************************************************)
EXTENDS CommonLog, TLAPS

\* Steps from slot i forward to slot j
Dist(i, j) == IF i <= j THEN j - i ELSE j - i + Capacity

\* The end entry is in the ring and was not read yet
EndPending == ctl_pc = "joining" /\ ~stop

Start == IF worker_pc = "flush" THEN h ELSE head
Count == accepted - Len(printed) + (IF EndPending THEN 1 ELSE 0)

\* Where the worker is when it has met the end entry
Stopped ==
    /\ worker_pc = "gone" => stop
    /\ stop => /\ worker_pc \in {"flush", "gone"}
               /\ ctl_pc # "on"
               /\ Len(printed) = accepted

\* Only the end entry of a pause can close the ring: then tail is back at Start.
Extent ==
    /\ Count \in 0..Capacity
    /\ Count = Capacity => EndPending
    /\ IF Count = Capacity THEN Start = tail ELSE Dist(Start, tail) = Count

Contents ==
    \A i \in Indices :
        Dist(Start, i) < Count =>
            queue[i] = IF EndPending /\ Dist(Start, i) = Count - 1
                       THEN End ELSE Len(printed) + Dist(Start, i) + 1

\* What the worker prints without the mutex is part of the ring, and what it has
\* printed meanwhile is still counted in.
Reserved ==
    worker_pc = "flush" =>
        /\ Dist(h, cached_tail) <= Count
        /\ Dist(head, h) + Count <= (IF EndPending THEN Capacity ELSE Capacity - 1)

Inv ==
    /\ TypeOK /\ Stopped /\ Extent /\ Contents /\ Reserved
    /\ PrintedInOrder

-----------------------------------------------------------------------------
(* Slots *)

\* Distances are smaller than the ring.
LEMMA DistRange ==
    ASSUME NEW i \in Indices, NEW j \in Indices
    PROVE  /\ Dist(i, j) \in Nat /\ Dist(i, j) <= Capacity - 1
           /\ Dist(i, j) = 0 <=> i = j
BY LogAssumption DEF Dist, Indices

\* Moving forward by one slot.
LEMMA SuccDist ==
    ASSUME NEW i \in Indices, NEW j \in Indices
    PROVE  /\ Succ(i) \in Indices
           /\ i # j => Dist(Succ(i), j) = Dist(i, j) - 1
           /\ Dist(i, j) < Capacity - 1 => Dist(i, Succ(j)) = Dist(i, j) + 1
           /\ Dist(i, j) = Capacity - 1 => Succ(j) = i
           /\ Dist(Succ(i), i) = Capacity - 1
BY LogAssumption DEF Succ, Dist, Indices

\* A slot is determined by its distance.
LEMMA DistInjective ==
    ASSUME NEW i \in Indices, NEW j \in Indices, NEW k \in Indices, Dist(i, j) = Dist(i, k)
    PROVE  j = k
BY LogAssumption DEF Dist, Indices

\* Distances add up unless they go around the ring.
LEMMA DistAdd ==
    ASSUME NEW i \in Indices, NEW j \in Indices, NEW k \in Indices,
           Dist(i, j) + Dist(j, k) <= Capacity - 1
    PROVE  Dist(i, k) = Dist(i, j) + Dist(j, k)
BY LogAssumption DEF Dist, Indices

\* The slots of a snapshot are those closer to h than its end.
LEMMA SnapshotDist ==
    ASSUME h \in Indices, cached_tail \in Indices, NEW i \in Indices
    PROVE  InSnapshot(i) <=> Dist(h, i) < Dist(h, cached_tail)
BY LogAssumption DEF InSnapshot, Dist, Indices

-----------------------------------------------------------------------------
(* The invariant *)

\* The constructor's state.
LEMMA InvInit == Init => Inv
<1> SUFFICES ASSUME Init PROVE Inv
  OBVIOUS
<1>1. TypeOK
  BY LogAssumption DEF Init, TypeOK, Indices
<1>2. Count = 0 /\ Start = 0 /\ ~EndPending
  <2>1. ~EndPending
    BY DEF Init, EndPending
  <2>2. Len(printed) = 0 /\ accepted = 0 /\ Start = 0
    BY DEF Init, Start
  <2> QED
    BY <2>1, <2>2 DEF Count
<1>3. Stopped /\ Reserved
  BY DEF Init, Stopped, Reserved
<1>4. Extent
  BY <1>2, LogAssumption DEF Init, Extent, Dist
<1>5. Contents
  BY <1>2, DistRange, LogAssumption DEF Contents, Indices
<1>6. PrintedInOrder
  BY DEF Init, PrintedInOrder
<1> QED
  BY <1>1, <1>3, <1>4, <1>5, <1>6 DEF Inv

\* The parts of Inv about the ring, for a step that moves neither end of it.
LEMMA RingStays ==
    ASSUME Inv, UNCHANGED <<queue, tail, accepted, printed>>,
           Start' = Start, EndPending' = EndPending
    PROVE  Extent' /\ Contents' /\ PrintedInOrder' /\ Count' = Count
<1>1. Count' = Count
  BY DEF Count
<1>2. Extent'
  BY <1>1 DEF Inv, Extent
<1>3. Contents'
  BY <1>1 DEF Inv, Contents
<1>4. PrintedInOrder'
  BY DEF Inv, PrintedInOrder
<1> QED
  BY <1>1, <1>2, <1>3, <1>4

\* Steps that only move adders, let the worker wait or end a join.
LEMMA IdleInv ==
    ASSUME Inv,
           \/ \E a \in Adders : StartAdd(a) \/ AddBlocks(a) \/ AddDiscards(a)
           \/ WorkerBlocks \/ Joined
    PROVE  Inv'
<1>1. TypeOK'
  BY DEF Inv, TypeOK, StartAdd, AddBlocks, AddDiscards, WorkerBlocks, Joined, ringVars, workerVars
<1>2. UNCHANGED <<queue, head, tail, h, cached_tail, stop, accepted, printed>>
  BY DEF StartAdd, AddBlocks, AddDiscards, WorkerBlocks, Joined, ringVars, workerVars
<1>3. /\ worker_pc' = "flush" <=> worker_pc = "flush"
      /\ worker_pc' = "gone" <=> worker_pc = "gone"
      /\ ctl_pc' = "on" <=> ctl_pc = "on"
  BY DEF StartAdd, AddBlocks, AddDiscards, WorkerBlocks, Joined, ringVars, workerVars
<1>4. Stopped'
  BY <1>1, <1>2, <1>3 DEF Inv, TypeOK, Stopped
<1>5. EndPending' = EndPending
  <2>1. CASE Joined
    BY <2>1 DEF Joined, workerVars, EndPending, Inv, Stopped
  <2>2. CASE ctl_pc' = ctl_pc
    BY <1>2, <2>2 DEF EndPending
  <2> QED
    BY <2>1, <2>2 DEF StartAdd, AddBlocks, AddDiscards, WorkerBlocks
<1>6. Start' = Start
  BY <1>2, <1>3 DEF Start
<1>7. Extent' /\ Contents' /\ PrintedInOrder' /\ Count' = Count
  BY <1>2, <1>5, <1>6, RingStays
<1>8. Reserved'
  BY <1>2, <1>3, <1>5, <1>7 DEF Inv, Reserved
<1> QED
  BY <1>1, <1>4, <1>7, <1>8 DEF Inv

\* Something is pushed at tail while the worker is not paused: a message by add(), the
\* end entry by pause().
LEMMA PushRing ==
    ASSUME Inv, ctl_pc = "on", NEW e,
           queue' = [queue EXCEPT ![tail] = e], tail' = Succ(tail),
           UNCHANGED <<head, h, cached_tail, stop, printed>>,
           worker_pc' = WorkerNotified,
           Count' = Count + 1,
           \/ ~EndPending' /\ e = accepted + 1 /\ Succ(tail) # head /\ accepted' = accepted + 1
           \/ EndPending' /\ e = End /\ accepted' = accepted
    PROVE  Extent' /\ Contents' /\ Reserved' /\ PrintedInOrder'
<1>1. /\ head \in Indices /\ tail \in Indices /\ h \in Indices /\ cached_tail \in Indices
      /\ queue \in [Indices -> Nat \cup {End, Unset}]
      /\ Len(printed) \in Nat /\ accepted \in Nat
  BY DEF Inv, TypeOK
<1>2. ~EndPending /\ Count = accepted - Len(printed)
  BY <1>1 DEF EndPending, Count
<1>3. /\ Start \in Indices /\ Start' = Start
      /\ worker_pc' = "flush" <=> worker_pc = "flush"
  BY <1>1 DEF Start, WorkerNotified
<1>4. Count \in 0..(Capacity - 1) /\ Dist(Start, tail) = Count
  BY <1>2, LogAssumption DEF Inv, Extent
<1>5. \A i \in Indices : Dist(Start, i) < Count => queue[i] = Len(printed) + Dist(Start, i) + 1
  BY <1>2 DEF Inv, Contents
<1>6. Succ(tail) # head => Dist(head, tail) < Capacity - 1
  <2>1. Dist(head, tail) = Capacity - 1 => Succ(tail) = head
    BY <1>1, SuccDist
  <2>2. Dist(head, tail) \in Nat /\ Dist(head, tail) <= Capacity - 1
    BY <1>1, DistRange
  <2> QED
    BY <2>1, <2>2, LogAssumption
<1>7. worker_pc = "flush" =>
        /\ Dist(head, h) + Count <= Capacity - 1
        /\ Dist(head, tail) = Dist(head, h) + Count
        /\ Dist(h, cached_tail) <= Count
  <2> SUFFICES ASSUME worker_pc = "flush"
               PROVE  /\ Dist(head, h) + Count <= Capacity - 1
                      /\ Dist(head, tail) = Dist(head, h) + Count
                      /\ Dist(h, cached_tail) <= Count
    OBVIOUS
  <2>1. Dist(head, h) + Count <= Capacity - 1 /\ Dist(h, cached_tail) <= Count
    BY <1>2 DEF Inv, Reserved
  <2>2. Dist(h, tail) = Count
    BY <1>4 DEF Start
  <2> QED
    BY <1>1, <2>1, <2>2, DistAdd
<1>8. worker_pc # "flush" => Dist(head, tail) = Count
  BY <1>4 DEF Start
<1>9. Succ(tail) # head =>
        /\ Count + 1 < Capacity
        /\ worker_pc = "flush" => Dist(head, h) + Count + 1 <= Capacity - 1
  <2>1. Dist(head, h) \in Nat
    BY <1>1, DistRange
  <2> QED
    BY <1>4, <1>6, <1>7, <1>8, <2>1, LogAssumption
<1>10. Extent'
  <2>1. Count' \in 0..Capacity
    BY <1>4, LogAssumption
  <2>2. Count' = Capacity => EndPending'
    BY <1>4, <1>9, LogAssumption
  <2>3. CASE Count + 1 = Capacity
    <3>1. Start' = tail'
      BY <1>1, <1>3, <1>4, <2>3, SuccDist, LogAssumption
    <3> QED
      BY <2>1, <2>2, <2>3, <3>1 DEF Extent
  <2>4. CASE Count + 1 # Capacity
    <3>1. Dist(Start', tail') = Count + 1
      <4>1. Dist(Start, tail) < Capacity - 1 => Dist(Start, Succ(tail)) = Dist(Start, tail) + 1
        BY <1>1, <1>3, SuccDist
      <4> QED
        BY <1>3, <1>4, <2>4, <4>1, LogAssumption
    <3>2. Dist(Start, tail)' = Count'
      BY <3>1 DEF Dist
    <3> QED
      BY <2>1, <2>2, <2>4, <3>2 DEF Extent
  <2> QED
    BY <2>3, <2>4
<1>11. Contents'
  <2> SUFFICES ASSUME NEW i \in Indices, Dist(Start, i) < Count + 1
               PROVE  queue'[i] = IF EndPending' /\ Dist(Start, i) = Count
                                  THEN End ELSE Len(printed) + Dist(Start, i) + 1
    BY <1>3, <1>4 DEF Contents, Dist
  <2>0. Dist(Start, i) \in Nat
    BY <1>3, DistRange
  <2>1. CASE i = tail
    <3>1. queue'[i] = e /\ Dist(Start, i) = Count
      BY <1>1, <1>4, <2>1
    <3>2. ~EndPending' => e = Len(printed) + Count + 1
      BY <1>1, <1>2
    <3>3. EndPending' => e = End
      BY LogAssumption
    <3> QED
      BY <3>1, <3>2, <3>3
  <2>2. CASE i # tail
    <3>1. Dist(Start, i) # Count
      BY <1>1, <1>3, <1>4, <2>2, DistInjective
    <3>2. queue'[i] = queue[i]
      BY <1>1, <2>2
    <3>3. queue[i] = Len(printed) + Dist(Start, i) + 1
      BY <1>4, <1>5, <2>0, <3>1
    <3> QED
      BY <3>1, <3>2, <3>3
  <2> QED
    BY <2>1, <2>2
<1>12. Reserved'
  <2> SUFFICES ASSUME worker_pc = "flush"
               PROVE  /\ Dist(h, cached_tail) <= Count + 1
                      /\ Dist(head, h) + Count + 1 <= (IF EndPending' THEN Capacity ELSE Capacity - 1)
    <3>1. Dist(h, cached_tail)' = Dist(h, cached_tail) /\ Dist(head, h)' = Dist(head, h)
      BY DEF Dist
    <3>2. Dist(head, h) \in Nat
      BY <1>1, DistRange
    <3> QED
      BY <1>3, <1>4, <3>1, <3>2 DEF Reserved
  <2>1. Dist(h, cached_tail) \in Nat /\ Dist(head, h) \in Nat
    BY <1>1, DistRange
  <2>2. Dist(h, cached_tail) <= Count + 1 /\ Dist(head, h) + Count + 1 <= Capacity
    BY <1>4, <1>7, <2>1, LogAssumption
  <2>3. ~EndPending' => Dist(head, h) + Count + 1 <= Capacity - 1
    BY <1>9
  <2> QED
    BY <2>2, <2>3
<1>13. PrintedInOrder'
  <2>1. Len(printed) <= accepted'
    BY <1>1 DEF Inv, PrintedInOrder
  <2> QED
    BY <2>1 DEF Inv, PrintedInOrder
<1> QED
  BY <1>10, <1>11, <1>12, <1>13

\* add() enters a message in the ring.
LEMMA AddEntryInv ==
    ASSUME Inv, NEW a \in Adders, AddEntry(a)
    PROVE  Inv'
<1>1. ctl_pc = "on" /\ ctl_pc' = "on"
  BY DEF AddEntry, Inv, TypeOK
<1>2. ~stop /\ worker_pc # "gone"
  BY <1>1 DEF Inv, TypeOK, Stopped
<1>3. worker_pc' = WorkerNotified /\ WorkerNotified \in {"test", "blocked", "flush"}
  BY <1>2 DEF AddEntry, WorkerNotified, Inv, TypeOK
<1>4. TypeOK'
  <2>1. Succ(tail) \in Indices /\ accepted + 1 \in Nat
    BY SuccDist DEF Inv, TypeOK
  <2>2. queue' \in [Indices -> Nat \cup {End, Unset}] /\ tail' \in Indices /\ accepted' \in Nat
    BY <2>1 DEF AddEntry, Inv, TypeOK
  <2>3. adder_pc' \in [Adders -> {"idle", "test", "blocked"}]
    BY DEF AddEntry, Inv, TypeOK
  <2> QED
    BY <1>1, <1>3, <2>2, <2>3 DEF AddEntry, Inv, TypeOK
<1>5. ~EndPending /\ ~EndPending'
  BY <1>1 DEF EndPending
<1>6. Count' = Count + 1
  <2>1. Len(printed) \in Nat /\ accepted \in Nat /\ accepted' = accepted + 1 /\ printed' = printed
    BY DEF AddEntry, Inv, TypeOK
  <2> QED
    BY <1>5, <2>1 DEF Count
<1>7. Stopped'
  BY <1>2, <1>3 DEF AddEntry, Stopped
<1>8. Extent' /\ Contents' /\ Reserved' /\ PrintedInOrder'
  <2>1. /\ queue' = [queue EXCEPT ![tail] = accepted + 1] /\ tail' = Succ(tail)
        /\ UNCHANGED <<head, h, cached_tail, stop, printed>> /\ worker_pc' = WorkerNotified
        /\ Succ(tail) # head /\ accepted' = accepted + 1
    BY DEF AddEntry, is_full
  <2> QED
    BY <1>1, <1>5, <1>6, <2>1, PushRing
<1> QED
  BY <1>4, <1>7, <1>8 DEF Inv

\* pause() pushes the end entry, into a full ring too.
LEMMA PauseInv ==
    ASSUME Inv, Pause
    PROVE  Inv'
<1>1. ctl_pc = "on" /\ ctl_pc' = "joining"
  BY DEF Pause
<1>2. ~stop /\ worker_pc # "gone"
  BY <1>1 DEF Inv, TypeOK, Stopped
<1>3. worker_pc' = WorkerNotified /\ WorkerNotified \in {"test", "blocked", "flush"}
  BY <1>2 DEF Pause, WorkerNotified, Inv, TypeOK
<1>4. TypeOK'
  <2>1. Succ(tail) \in Indices
    BY SuccDist DEF Inv, TypeOK
  <2>2. queue' \in [Indices -> Nat \cup {End, Unset}] /\ tail' \in Indices
    BY <2>1 DEF Pause, Inv, TypeOK
  <2>3. adder_pc' \in [Adders -> {"idle", "test", "blocked"}]
    BY DEF Pause, AddersNotified, Inv, TypeOK
  <2>4. running' \in BOOLEAN /\ ~running'
    BY DEF Pause
  <2>5. pauses' \in Nat
    BY DEF Pause, Inv, TypeOK
  <2>6. /\ head' \in Indices /\ h' \in Indices /\ cached_tail' \in Indices /\ stop' \in BOOLEAN
        /\ accepted' \in Nat /\ printed' \in Seq(Nat)
    BY DEF Pause, Inv, TypeOK
  <2> QED
    BY <1>1, <1>3, <2>2, <2>3, <2>4, <2>5, <2>6 DEF TypeOK
<1>5. ~EndPending /\ EndPending'
  BY <1>1, <1>2 DEF EndPending, Pause
<1>6. Count' = Count + 1
  <2>1. Len(printed) \in Nat /\ accepted \in Nat /\ accepted' = accepted /\ printed' = printed
    BY DEF Pause, Inv, TypeOK
  <2> QED
    BY <1>5, <2>1 DEF Count
<1>7. Stopped'
  BY <1>2, <1>3 DEF Pause, Stopped
<1>8. Extent' /\ Contents' /\ Reserved' /\ PrintedInOrder'
  <2>1. /\ queue' = [queue EXCEPT ![tail] = End] /\ tail' = Succ(tail)
        /\ UNCHANGED <<head, h, cached_tail, stop, printed>> /\ worker_pc' = WorkerNotified
        /\ accepted' = accepted
    BY DEF Pause
  <2> QED
    BY <1>1, <1>5, <1>6, <2>1, PushRing
<1> QED
  BY <1>4, <1>7, <1>8 DEF Inv

\* The worker takes its snapshot: all entries of the ring.
LEMMA SnapshotInv ==
    ASSUME Inv, WorkerSnapshot
    PROVE  Inv'
<1>1. ~stop /\ ~stop'
  BY DEF WorkerSnapshot, Inv, Stopped
<1>2. TypeOK'
  BY <1>1 DEF WorkerSnapshot, Inv, TypeOK, ringVars
<1>3. Stopped'
  BY <1>1 DEF WorkerSnapshot, Stopped
<1>4. EndPending' = EndPending
  BY <1>1 DEF WorkerSnapshot, EndPending
<1>5. Start = head /\ Start' = head
  BY DEF WorkerSnapshot, Start
<1>6. Extent' /\ Contents' /\ PrintedInOrder' /\ Count' = Count
  BY <1>4, <1>5, RingStays DEF WorkerSnapshot, ringVars
<1>7. Reserved'
  <2>1. head # tail /\ head \in Indices /\ tail \in Indices
    BY DEF WorkerSnapshot, is_empty, Inv, TypeOK
  <2>2. Count # Capacity /\ Dist(head, tail) = Count
    BY <1>5, <2>1 DEF Inv, Extent
  <2>3. Count \in Nat /\ Count <= Capacity - 1
    BY <2>2, LogAssumption DEF Inv, Extent
  <2>4. Dist(h, cached_tail)' = Count
    BY <2>2 DEF WorkerSnapshot, Dist
  <2>5. Dist(head, h)' = 0
    BY <2>1 DEF WorkerSnapshot, ringVars, Dist, Indices
  <2> QED
    BY <1>6, <2>3, <2>4, <2>5, LogAssumption DEF Reserved
<1> QED
  BY <1>2, <1>3, <1>6, <1>7 DEF Inv

\* The printed entries are given back, and the worker waits again or ends.
LEMMA FlushDoneInv ==
    ASSUME Inv, FlushDone
    PROVE  Inv'
<1>1. /\ worker_pc' # "flush" /\ head' = h
      /\ stop' = stop /\ ctl_pc' = ctl_pc
      /\ UNCHANGED <<queue, tail, accepted, printed>>
  BY DEF FlushDone
<1>2. /\ stop => worker_pc' = "gone"
      /\ ~stop => worker_pc' = "test"
  BY DEF FlushDone
<1>3. Stopped'
  BY <1>1, <1>2 DEF Inv, Stopped, TypeOK
<1>4. adder_pc' \in [Adders -> {"idle", "test", "blocked"}]
  BY DEF FlushDone, AddersNotified, Inv, TypeOK
<1>5. ctl_pc # "off" /\ (stop => ctl_pc # "on")
  BY DEF FlushDone, Inv, TypeOK, Stopped
<1>6. TypeOK'
  <2>1. worker_pc' \in {"test", "gone"} /\ (worker_pc' = "gone" => stop)
    BY <1>2
  <2>2. (running <=> ctl_pc = "on")'
    BY DEF FlushDone, Inv, TypeOK
  <2> QED
    BY <1>1, <1>4, <1>5, <2>1, <2>2 DEF FlushDone, Inv, TypeOK
<1>7. EndPending' = EndPending /\ Start' = Start
  BY <1>1 DEF FlushDone, EndPending, Start
<1>8. Extent' /\ Contents' /\ PrintedInOrder' /\ Count' = Count
  BY <1>1, <1>7, RingStays
<1>9. Reserved'
  BY <1>1 DEF Reserved
<1> QED
  BY <1>3, <1>6, <1>8, <1>9 DEF Inv

\* resume() starts a worker on an empty ring.
LEMMA ResumeInv ==
    ASSUME Inv, Resume
    PROVE  Inv'
<1>1. worker_pc = "gone" /\ stop /\ ctl_pc = "off"
  BY DEF Resume, Inv, TypeOK, Stopped
<1>2. worker_pc' = "test" /\ ~stop' /\ ctl_pc' = "on" /\ running'
  BY DEF Resume
<1>3. Stopped'
  BY <1>2 DEF Stopped
<1>4. TypeOK'
  <2>1. running' \in BOOLEAN /\ stop' \in BOOLEAN
    BY DEF Resume
  <2> QED
    BY <1>2, <2>1 DEF Resume, Inv, TypeOK
<1>5. EndPending' = EndPending /\ Start' = Start
  BY <1>1, <1>2 DEF Resume, EndPending, Start
<1>6. Extent' /\ Contents' /\ PrintedInOrder'
  BY <1>5, RingStays DEF Resume
<1>7. Reserved'
  BY <1>2 DEF Reserved
<1> QED
  BY <1>3, <1>4, <1>6, <1>7 DEF Inv

\* What the worker finds at h: the oldest message, or the end entry if nothing else is left.
LEMMA NextEntry ==
    ASSUME Inv, FlushEntry
    PROVE  /\ Count >= 1 /\ Count \in Nat
           /\ IF EndPending /\ Count = 1 THEN queue[h] = End
              ELSE queue[h] = Len(printed) + 1 /\ queue[h] # End /\ Len(printed) < accepted
<1>1. /\ h \in Indices /\ cached_tail \in Indices /\ h # cached_tail
      /\ Len(printed) \in Nat /\ accepted \in Nat
  BY DEF FlushEntry, Inv, TypeOK
<1>2. Dist(h, cached_tail) \in Nat /\ Dist(h, cached_tail) # 0 /\ Dist(h, cached_tail) <= Count
  BY <1>1, DistRange DEF FlushEntry, Inv, Reserved
<1>3. Count \in Nat /\ Count >= 1
  BY <1>2, LogAssumption DEF Inv, Extent
<1>4. Start = h /\ Dist(h, h) = 0
  BY <1>1, DistRange DEF FlushEntry, Start
<1>5. queue[h] = IF EndPending /\ 0 = Count - 1 THEN End ELSE Len(printed) + 0 + 1
  BY <1>1, <1>3, <1>4 DEF Inv, Contents
<1>6. ~(EndPending /\ Count = 1) => Len(printed) < accepted
  BY <1>1, <1>3 DEF Count
<1>7. Len(printed) + 1 # End
  BY <1>1, LogAssumption
<1> QED
  BY <1>1, <1>3, <1>5, <1>6, <1>7

\* flush_queue() reads one entry: a message is printed in its turn, and after the end
\* entry there is nothing left.
LEMMA FlushEntryInv ==
    ASSUME Inv, FlushEntry
    PROVE  Inv'
<1>1. /\ head \in Indices /\ tail \in Indices /\ h \in Indices /\ cached_tail \in Indices
      /\ Len(printed) \in Nat /\ accepted \in Nat /\ printed \in Seq(Nat)
      /\ worker_pc = "flush" /\ h # cached_tail /\ ~stop
  BY DEF FlushEntry, Inv, TypeOK
<1>2. /\ UNCHANGED <<queue, head, tail, cached_tail, worker_pc, ctl_pc, accepted>>
      /\ h' = Succ(h) /\ Succ(h) \in Indices
  BY <1>1, SuccDist DEF FlushEntry, ringVars
<1>3. Count \in Nat /\ Count >= 1 /\ Count <= Capacity /\ (~EndPending => Count <= Capacity - 1)
  BY NextEntry, LogAssumption DEF Inv, Extent
<1>4. Start = h /\ Start' = Succ(h)
  BY <1>1, <1>2 DEF Start
<1>5. /\ IF EndPending /\ Count = 1
         THEN stop' /\ printed' = printed
         ELSE /\ ~stop' /\ printed' = Append(printed, Len(printed) + 1)
              /\ Len(printed) < accepted
      /\ stop' \in BOOLEAN
  <2>1. CASE EndPending /\ Count = 1
    BY <2>1, NextEntry DEF FlushEntry
  <2>2. CASE ~(EndPending /\ Count = 1)
    BY <2>2, NextEntry DEF FlushEntry
  <2> QED
    BY <2>1, <2>2
<1>6. printed' \in Seq(Nat) /\ (~stop' => Len(printed') = Len(printed) + 1)
  BY <1>1, <1>5
<1>7. IF stop' THEN ~EndPending' ELSE EndPending' = EndPending
  BY <1>1, <1>2, <1>5 DEF EndPending
<1>8. Count' = Count - 1
  <2>1. CASE EndPending /\ Count = 1
    <3>1. ~EndPending' /\ printed' = printed /\ accepted' = accepted
      BY <1>2, <1>5, <1>7, <2>1
    <3> QED
      BY <1>1, <2>1, <3>1 DEF Count
  <2>2. CASE ~(EndPending /\ Count = 1)
    <3>1. EndPending' = EndPending /\ Len(printed') = Len(printed) + 1 /\ accepted' = accepted
      BY <1>2, <1>5, <1>6, <1>7, <2>2
    <3>2. CASE EndPending
      BY <1>1, <3>1, <3>2 DEF Count
    <3>3. CASE ~EndPending
      BY <1>1, <3>1, <3>3 DEF Count
    <3> QED
      BY <3>2, <3>3
  <2> QED
    BY <2>1, <2>2
<1>9. stop' => Len(printed') = accepted'
  <2> SUFFICES ASSUME stop' PROVE Len(printed') = accepted'
    OBVIOUS
  <2>1. EndPending /\ Count = 1 /\ printed' = printed
    BY <1>5
  <2> QED
    BY <1>1, <1>2, <2>1 DEF Count
<1>10. TypeOK'
  BY <1>1, <1>2, <1>5, <1>6 DEF FlushEntry, ringVars, Inv, TypeOK
<1>11. Stopped'
  <2>1. stop' => ctl_pc' # "on"
    BY <1>2, <1>5 DEF EndPending
  <2> QED
    BY <1>1, <1>2, <1>9, <2>1 DEF Stopped
<1>12. Dist(Start, tail)' = Count' /\ Count' # Capacity
  <2>1. Dist(Start, tail)' = Dist(Succ(h), tail)
    BY <1>2, <1>4 DEF Dist
  <2>2. CASE Count = Capacity
    <3>1. tail = h
      BY <1>4, <2>2 DEF Inv, Extent
    <3>2. Dist(Succ(h), h) = Capacity - 1
      BY <1>1, SuccDist
    <3> QED
      BY <1>8, <2>1, <2>2, <3>1, <3>2, LogAssumption
  <2>3. CASE Count # Capacity
    <3>1. Dist(h, tail) = Count
      BY <1>4, <2>3 DEF Inv, Extent
    <3>2. h # tail
      BY <1>1, <1>3, <3>1, DistRange
    <3>3. Dist(Succ(h), tail) = Dist(h, tail) - 1
      BY <1>1, <3>2, SuccDist
    <3> QED
      BY <1>3, <1>8, <2>1, <3>1, <3>3, LogAssumption
  <2> QED
    BY <2>2, <2>3
<1>13. Extent'
  BY <1>3, <1>8, <1>12, LogAssumption DEF Extent
<1>14. Contents'
  <2> SUFFICES ASSUME NEW i \in Indices, Dist(Succ(h), i) < Count - 1
               PROVE  queue[i] = IF EndPending' /\ Dist(Succ(h), i) = Count - 2
                                 THEN End ELSE Len(printed') + Dist(Succ(h), i) + 1
    <3>1. Count' - 1 = Count - 2
      BY <1>3, <1>8
    <3> QED
      BY <1>2, <1>4, <1>8, <3>1 DEF Contents, Dist
  <2>1. Dist(Succ(h), i) \in Nat /\ Dist(h, i) \in Nat
    BY <1>1, <1>2, DistRange
  <2>2. Count # 1 /\ ~stop'
    BY <1>3, <1>5, <2>1
  <2>3. i # h
    BY <1>1, <1>3, SuccDist, LogAssumption
  <2>4. Dist(Succ(h), i) = Dist(h, i) - 1
    BY <1>1, <2>3, SuccDist
  <2>5. queue[i] = IF EndPending /\ Dist(h, i) = Count - 1 THEN End ELSE Len(printed) + Dist(h, i) + 1
    BY <1>3, <1>4, <2>1, <2>4 DEF Inv, Contents
  <2>6. EndPending' = EndPending /\ Len(printed') = Len(printed) + 1
    BY <1>6, <1>7, <2>2
  <2>7. Dist(Succ(h), i) = Count - 2 <=> Dist(h, i) = Count - 1
    BY <1>3, <2>1, <2>4
  <2>8. Len(printed') + Dist(Succ(h), i) + 1 = Len(printed) + Dist(h, i) + 1
    BY <1>1, <2>1, <2>4, <2>6
  <2> QED
    BY <2>5, <2>6, <2>7, <2>8
<1>15. Reserved'
  <2>1. Dist(h, cached_tail) \in Nat /\ Dist(head, h) \in Nat /\ Dist(head, h) <= Capacity - 1
    BY <1>1, DistRange
  <2>2. Dist(h, cached_tail)' = Dist(h, cached_tail) - 1
    <3>1. Dist(h, cached_tail)' = Dist(Succ(h), cached_tail)
      BY <1>2 DEF Dist
    <3>2. Dist(Succ(h), cached_tail) = Dist(h, cached_tail) - 1
      BY <1>1, SuccDist
    <3> QED
      BY <3>1, <3>2
  <2>3. Dist(head, h)' = Dist(head, Succ(h))
    BY <1>2 DEF Dist
  <2>4. Dist(head, Succ(h)) \in Nat /\ Dist(head, Succ(h)) <= Capacity - 1
    BY <1>1, <1>2, DistRange
  <2>5. Dist(head, Succ(h)) <= Dist(head, h) + 1
    <3>1. CASE Dist(head, h) < Capacity - 1
      <4>1. Dist(head, Succ(h)) = Dist(head, h) + 1
        BY <1>1, <3>1, SuccDist
      <4> QED
        BY <2>1, <4>1
    <3>2. CASE Dist(head, h) = Capacity - 1
      <4>1. Dist(head, Succ(h)) <= Dist(head, h)
        BY <2>4, <3>2
      <4> QED
        BY <2>1, <2>4, <4>1
    <3> QED
      BY <2>1, <3>1, <3>2, LogAssumption
  <2>6. /\ Dist(h, cached_tail) <= Count
        /\ Dist(head, h) + Count <= (IF EndPending THEN Capacity ELSE Capacity - 1)
    BY <1>1 DEF Inv, Reserved
  <2>7. Dist(h, cached_tail)' <= Count'
    BY <1>3, <1>8, <2>1, <2>2, <2>6
  <2>8. CASE stop'
    <3>1. Count = 1
      BY <1>5, <2>8
    <3>2. Dist(head, h)' + Count' <= Capacity - 1
      BY <1>8, <2>3, <2>4, <3>1, LogAssumption
    <3> QED
      BY <1>7, <2>7, <2>8, <3>2 DEF Reserved
  <2>9. CASE ~stop'
    <3>1. Dist(head, h)' + Count' <= Dist(head, h) + Count
      BY <1>3, <1>8, <2>1, <2>3, <2>4, <2>5
    <3>2. EndPending' = EndPending
      BY <1>7, <2>9
    <3>3. Dist(head, h)' + Count' <= (IF EndPending' THEN Capacity ELSE Capacity - 1)
      BY <1>3, <1>8, <2>1, <2>3, <2>4, <2>6, <3>1, <3>2, LogAssumption
    <3> QED
      BY <2>7, <3>3 DEF Reserved
  <2> QED
    BY <1>5, <2>8, <2>9
<1>16. PrintedInOrder'
  <2>1. CASE stop'
    BY <1>2, <1>5, <2>1 DEF Inv, PrintedInOrder
  <2>2. CASE ~stop'
    <3>1. printed' = Append(printed, Len(printed) + 1) /\ Len(printed) < accepted
      BY <1>5, <2>2
    <3>2. Len(printed') <= accepted'
      BY <1>1, <1>2, <3>1
    <3>3. \A i \in 1..Len(printed') : printed'[i] = i
      BY <1>1, <3>1 DEF Inv, PrintedInOrder
    <3> QED
      BY <3>2, <3>3 DEF PrintedInOrder
  <2> QED
    BY <1>5, <2>1, <2>2
<1> QED
  BY <1>10, <1>11, <1>13, <1>14, <1>15, <1>16 DEF Inv

\* Every step keeps the invariant.
LEMMA InvStep == Inv /\ [Next]_vars => Inv'
<1> SUFFICES ASSUME Inv, [Next]_vars PROVE Inv'
  OBVIOUS
<1>1. CASE \/ \E a \in Adders : StartAdd(a) \/ AddBlocks(a) \/ AddDiscards(a)
           \/ WorkerBlocks \/ Joined
  BY <1>1, IdleInv
<1>2. ASSUME NEW a \in Adders, AddEntry(a) PROVE Inv'
  BY <1>2, AddEntryInv
<1>3. CASE WorkerSnapshot
  BY <1>3, SnapshotInv
<1>4. CASE FlushEntry
  BY <1>4, FlushEntryInv
<1>5. CASE FlushDone
  BY <1>5, FlushDoneInv
<1>6. CASE Pause
  BY <1>6, PauseInv
<1>7. CASE Resume
  BY <1>7, ResumeInv
<1>8. CASE UNCHANGED vars
  <2>1. TypeOK' /\ Stopped' /\ Reserved'
    BY <1>8 DEF vars, ringVars, workerVars, Inv, TypeOK, Stopped, Reserved, Dist, Count, EndPending
  <2>2. Extent' /\ Contents' /\ PrintedInOrder'
    BY <1>8, RingStays DEF vars, ringVars, workerVars, Start, EndPending
  <2> QED
    BY <2>1, <2>2 DEF Inv
<1> QED
  BY <1>1, <1>2, <1>3, <1>4, <1>5, <1>6, <1>7, <1>8 DEF Next, AdderStep, WorkerStep

\* The ring always holds exactly what is still to be printed, in order, from Start on.
THEOREM LogInvariant == Spec => []Inv
<1>1. Init => Inv
  BY InvInit
<1>2. Inv /\ [Next]_vars => Inv'
  BY InvStep
<1> QED
  BY <1>1, <1>2, PTL DEF Spec

\* The types of the log's state (common_log).
THEOREM LogTypes == Spec => []TypeOK
<1>1. Inv => TypeOK
  BY DEF Inv
<1> QED
  BY <1>1, LogInvariant, PTL

\* Messages are printed in the order in which add() took them, none twice and none
\* skipped, whatever the size of the ring.
THEOREM LogPrintsInOrder == Spec => []PrintedInOrder
<1>1. Inv => PrintedInOrder
  BY DEF Inv
<1> QED
  BY <1>1, LogInvariant, PTL

\* When pause() has returned, everything add() took is printed.
THEOREM LogPausedIsFlushed == Spec => []PausedIsFlushed
<1>1. Inv => PausedIsFlushed
  BY DEF Inv, TypeOK, Stopped, PausedIsFlushed
<1> QED
  BY <1>1, LogInvariant, PTL

-----------------------------------------------------------------------------
(* The worker reads without the mutex *)

\* The slot behind the ring's entries is not one the worker is going to read.
LEMMA TailOutside ==
    ASSUME Inv, ctl_pc = "on", worker_pc = "flush"
    PROVE  ~InSnapshot(tail)
<1>1. h \in Indices /\ cached_tail \in Indices /\ tail \in Indices
  BY DEF Inv, TypeOK
<1>2. Start = h /\ ~EndPending
  BY DEF Start, EndPending
<1>3. Dist(h, tail) = Count /\ Count \in Nat
  BY <1>2, LogAssumption DEF Inv, Extent
<1>4. Dist(h, cached_tail) <= Count
  BY DEF Inv, Reserved
<1>5. Dist(h, cached_tail) \in Nat
  BY <1>1, DistRange
<1>6. ~(Dist(h, tail) < Dist(h, cached_tail))
  BY <1>3, <1>4, <1>5
<1> QED
  BY <1>1, <1>6, SnapshotDist

\* While flush_queue() reads its snapshot without the mutex, neither add() nor pause()
\* writes a slot of it.
THEOREM LogNoWriteUnderFlush == Spec => NoWriteUnderFlush
<1> DEFINE Kept == worker_pc = "flush" => \A i \in Indices : InSnapshot(i) => queue'[i] = queue[i]
<1>1. Inv /\ [Next]_vars => [Kept]_vars
  <2> SUFFICES ASSUME Inv, Next, worker_pc = "flush", NEW i \in Indices, InSnapshot(i)
               PROVE  queue'[i] = queue[i]
    BY DEF vars
  <2>1. CASE queue' = queue
    BY <2>1
  <2>2. ASSUME ctl_pc = "on", NEW e, queue' = [queue EXCEPT ![tail] = e] PROVE queue'[i] = queue[i]
    <3>1. i # tail
      BY <2>2, TailOutside
    <3> QED
      BY <2>2, <3>1 DEF Inv, TypeOK
  <2>3. ASSUME NEW a \in Adders, AddEntry(a) PROVE queue'[i] = queue[i]
    BY <2>2, <2>3 DEF AddEntry, Inv, TypeOK
  <2>4. CASE Pause
    BY <2>2, <2>4 DEF Pause
  <2> QED
    BY <2>1, <2>3, <2>4 DEF Next, AdderStep, WorkerStep, StartAdd, AddBlocks, AddDiscards,
       WorkerBlocks, WorkerSnapshot, FlushEntry, FlushDone, Joined, Resume, ringVars
<1> QED
  BY <1>1, LogInvariant, PTL DEF Spec, NoWriteUnderFlush
=============================================================================
