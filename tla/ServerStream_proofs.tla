------------------------ MODULE ServerStream_proofs ------------------------
(***************************************************************************)
(* Proofs about resumable streaming, for any number of requests and        *)
(* conversations, any chunk sizes and any cap.  The inductive invariant     *)
(* Inv adds to the four properties what makes them inductive: the offset a  *)
(* GET keeps (OffsetsFollow) and that stop_gc() is run once                 *)
(* (SnapshotOnce).  Ends says why a session can be done; RunningIsResumable *)
(* and TailKept follow from it where nobody evicts the session of another   *)
(* POST.                                                                   *)
(***************************************************************************)
EXTENDS ServerStream, TLAPS

\* stop_gc() has nothing to finalize before it empties the map.
SnapshotOnce == server \in {"up", "loop_ended"} => snapshot = {}

Inv ==
    /\ TypeOK
    /\ RingIsSuffix
    /\ ReplayExact /\ OffsetsFollow
    /\ RemovedIsFinalized /\ SnapshotOnce

-----------------------------------------------------------------------------
(* The byte sequences. *)

\* erase() at the front of a vector keeps the rest, shifted.
LEMMA DropFacts ==
    ASSUME NEW q \in Seq(Nat), NEW n \in 0..Len(q)
    PROVE  /\ Drop(q, n) \in Seq(Nat)
           /\ Len(Drop(q, n)) = Len(q) - n
           /\ \A i \in 1..(Len(q) - n) : Drop(q, n)[i] = q[i + n]
<1> DEFINE m == Len(q) - n
<1>1. m \in Nat /\ Len(q) \in Nat
  OBVIOUS
<1>2. \A i \in 1..m : i + n \in 1..Len(q) /\ q[i + n] \in Nat
  BY <1>1
<1>3. Drop(q, n) = [i \in 1..m |-> q[i + n]]
  BY DEF Drop
<1> HIDE DEF m
<1>4. Drop(q, n) \in [1..m -> Nat]
  BY <1>2, <1>3
<1>5. Drop(q, n) \in Seq(Nat) /\ Len(Drop(q, n)) = m
  BY <1>1, <1>4
<1> QED BY <1>3, <1>5 DEF m

\* The chunk a generation puts out continues its numbering.
LEMMA ChunkFacts ==
    ASSUME NEW from \in Nat, NEW n \in Nat
    PROVE  /\ Chunk(from, n) \in Seq(Nat)
           /\ Len(Chunk(from, n)) = n
           /\ \A i \in 1..n : Chunk(from, n)[i] = from + i
<1>1. Chunk(from, n) \in [1..n -> Nat]
  BY DEF Chunk
<1>2. Chunk(from, n) \in Seq(Nat) /\ Len(Chunk(from, n)) = n
  BY <1>1
<1> QED BY <1>2 DEF Chunk

\* Appending to a vector.
LEMMA ConcatFacts ==
    ASSUME NEW q \in Seq(Nat), NEW r \in Seq(Nat)
    PROVE  /\ q \o r \in Seq(Nat)
           /\ Len(q \o r) = Len(q) + Len(r)
           /\ \A i \in 1..Len(q) : (q \o r)[i] = q[i]
           /\ \A i \in (Len(q) + 1)..(Len(q) + Len(r)) : (q \o r)[i] = r[i - Len(q)]
OBVIOUS

\* Offsets before and after `dropped` of `size` bytes are dropped.
LEMMA OffsetArithmetic ==
    ASSUME NEW before \in Nat, NEW size \in Nat, NEW dropped \in 0..size, NEW i \in Int
    PROVE  /\ (before + dropped) + ((size - dropped) + i) = (before + size) + i
           /\ (before + size) + (i - (size - dropped)) = (before + dropped) + i
OBVIOUS

\* stream_session::append() keeps the ring an unbroken run that ends where the new
\* bytes end, at most CapBytes long, whichever of its three branches is taken.
LEMMA AppendFacts ==
    ASSUME NEW s \in Producers, NEW data \in Seq(Nat),
           buffer \in [Producers -> Seq(Nat)], prefix_dropped \in [Producers -> Nat],
           done \in [Producers -> BOOLEAN],
           append(s, data)
    PROVE  /\ buffer' \in [Producers -> Seq(Nat)]
           /\ prefix_dropped' \in [Producers -> Nat]
           /\ \A t \in Producers : t # s => buffer'[t] = buffer[t] /\ prefix_dropped'[t] = prefix_dropped[t]
           /\ done[s] => buffer'[s] = buffer[s] /\ prefix_dropped'[s] = prefix_dropped[s]
           /\ /\ ~done[s]
              /\ Len(buffer[s]) <= CapBytes
              /\ \A i \in 1..Len(buffer[s]) : buffer[s][i] = prefix_dropped[s] + i
              /\ \A i \in 1..Len(data) : data[i] = logical_end(s) + i
              => /\ Len(buffer'[s]) <= CapBytes
                 /\ \A i \in 1..Len(buffer'[s]) : buffer'[s][i] = prefix_dropped'[s] + i
                 /\ prefix_dropped'[s] + Len(buffer'[s]) = logical_end(s) + Len(data)
<1> DEFINE len == Len(data)  b == buffer[s]  d == prefix_dropped[s]
<1>1. len \in Nat /\ b \in Seq(Nat) /\ Len(b) \in Nat /\ d \in Nat /\ CapBytes \in Nat
  BY ConstantsAssumption
<1>0. logical_end(s) = d + Len(b)
  BY DEF logical_end
<1>2. CASE len = 0 \/ done[s]
  <2>1. buffer' = buffer /\ prefix_dropped' = prefix_dropped
    BY <1>2 DEF append
  <2> QED BY <2>1, <1>1, <1>2 DEF logical_end
<1>3. CASE ~(len = 0 \/ done[s]) /\ len >= CapBytes
  <2> DEFINE skip == len - CapBytes
  <2>1. skip \in 0..len
    BY <1>1, <1>3
  <2>2. /\ buffer' = [buffer EXCEPT ![s] = Drop(data, skip)]
        /\ prefix_dropped' = [prefix_dropped EXCEPT ![s] = d + Len(b) + skip]
    BY <1>3 DEF append
  <2>3. /\ Drop(data, skip) \in Seq(Nat) /\ Len(Drop(data, skip)) = CapBytes
        /\ \A i \in 1..CapBytes : Drop(data, skip)[i] = data[i + skip] /\ i + skip \in 1..len
    <3>1. /\ Drop(data, skip) \in Seq(Nat) /\ Len(Drop(data, skip)) = len - skip
          /\ \A i \in 1..(len - skip) : Drop(data, skip)[i] = data[i + skip]
      BY <2>1, DropFacts
    <3>2. len - skip = CapBytes /\ \A i \in 1..CapBytes : i + skip \in 1..len
      BY <2>1, <1>1
    <3> QED BY <3>1, <3>2
  <2>4. buffer'[s] = Drop(data, skip) /\ prefix_dropped'[s] = d + Len(b) + skip
    BY <2>2
  <2>5. ASSUME \A i \in 1..Len(data) : data[i] = logical_end(s) + i
        PROVE  \A i \in 1..Len(buffer'[s]) : buffer'[s][i] = prefix_dropped'[s] + i
    <3> SUFFICES ASSUME NEW i \in 1..CapBytes PROVE Drop(data, skip)[i] = d + Len(b) + skip + i
      BY <2>3, <2>4
    <3>1. data[i + skip] = d + Len(b) + (i + skip)
      BY <2>3, <2>5 DEF logical_end
    <3> QED BY <3>1, <2>3, <2>1, <1>1
  <2>6. buffer' \in [Producers -> Seq(Nat)] /\ prefix_dropped' \in [Producers -> Nat]
    BY <2>2, <2>3, <2>1, <1>1
  <2>7. \A t \in Producers : t # s => buffer'[t] = buffer[t] /\ prefix_dropped'[t] = prefix_dropped[t]
    BY <2>2
  <2>8. prefix_dropped'[s] + Len(buffer'[s]) = logical_end(s) + Len(data)
    <3>1. d + Len(b) + (len - CapBytes) + CapBytes = d + Len(b) + len
      BY <1>1
    <3> QED BY <3>1, <2>3, <2>4, <1>0
  <2> HIDE DEF skip
  <2> QED BY <2>3, <2>4, <2>5, <2>6, <2>7, <2>8, <1>3, <1>1
<1>4. CASE ~(len = 0 \/ done[s]) /\ ~(len >= CapBytes)
  <2> DEFINE needed == Len(b) + len
             to_drop == IF needed > CapBytes THEN needed - CapBytes ELSE 0
             kept == Drop(b, to_drop)
  <2>1. /\ buffer' = [buffer EXCEPT ![s] = kept \o data]
        /\ prefix_dropped' = [prefix_dropped EXCEPT ![s] = d + to_drop]
    BY <1>4 DEF append
  <2>2. /\ to_drop \in 0..Len(b)
        /\ Len(b) - to_drop + len <= CapBytes \/ Len(b) > CapBytes
        /\ Len(b) - to_drop \in Nat
    BY <1>1, <1>4
  <2> HIDE DEF to_drop
  <2>3. /\ kept \in Seq(Nat) /\ Len(kept) = Len(b) - to_drop
        /\ \A i \in 1..(Len(b) - to_drop) : kept[i] = b[i + to_drop]
    BY <2>2, <1>1, DropFacts
  <2> HIDE DEF kept
  <2>4. /\ kept \o data \in Seq(Nat) /\ Len(kept \o data) = Len(kept) + len
        /\ \A i \in 1..Len(kept) : (kept \o data)[i] = kept[i]
        /\ \A i \in (Len(kept) + 1)..(Len(kept) + len) : (kept \o data)[i] = data[i - Len(kept)]
    BY <2>3, ConcatFacts
  <2>5. buffer'[s] = kept \o data /\ prefix_dropped'[s] = d + to_drop
    BY <2>1
  <2>6. buffer' \in [Producers -> Seq(Nat)] /\ prefix_dropped' \in [Producers -> Nat]
    BY <2>1, <2>2, <2>4, <1>1
  <2>7. \A t \in Producers : t # s => buffer'[t] = buffer[t] /\ prefix_dropped'[t] = prefix_dropped[t]
    BY <2>1
  <2>8. prefix_dropped'[s] + Len(buffer'[s]) = logical_end(s) + Len(data)
    <3>1. (d + to_drop) + ((Len(b) - to_drop) + len) = (d + Len(b)) + len
      BY <2>2, <1>1, OffsetArithmetic
    <3> QED BY <3>1, <2>3, <2>4, <2>5, <1>0
  <2>9. Len(b) <= CapBytes => Len(buffer'[s]) <= CapBytes
    BY <2>2, <2>3, <2>4, <2>5, <1>1
  <2>10. ASSUME \A i \in 1..Len(b) : b[i] = d + i,
                \A i \in 1..Len(data) : data[i] = logical_end(s) + i
         PROVE  \A i \in 1..Len(buffer'[s]) : buffer'[s][i] = prefix_dropped'[s] + i
    <3> SUFFICES ASSUME NEW i \in 1..(Len(kept) + len)
                 PROVE  (kept \o data)[i] = d + to_drop + i
      BY <2>4, <2>5
    <3>1. CASE i \in 1..Len(kept)
      <4>1. i + to_drop \in 1..Len(b)
        BY <3>1, <2>2, <2>3, <1>1
      <4>2. b[i + to_drop] = d + (i + to_drop)
        BY <4>1, <2>10
      <4> QED BY <4>2, <3>1, <2>2, <2>3, <2>4, <1>1
    <3>2. CASE i \notin 1..Len(kept)
      <4>1. i - Len(kept) \in 1..len /\ i \in (Len(kept) + 1)..(Len(kept) + len)
        BY <3>2, <2>2, <2>3, <1>1
      <4>2. data[i - Len(kept)] = d + Len(b) + (i - Len(kept))
        BY <4>1, <2>10 DEF logical_end
      <4>3. i \in Int
        BY <2>2, <2>3, <1>1
      <4>4. (d + Len(b)) + (i - (Len(b) - to_drop)) = (d + to_drop) + i
        BY <4>3, <2>2, <1>1, OffsetArithmetic
      <4> QED BY <4>1, <4>2, <4>4, <2>3, <2>4
    <3> QED BY <3>1, <3>2
  <2> QED BY <2>6, <2>7, <2>8, <2>9, <2>10, <1>4
<1> QED BY <1>2, <1>3, <1>4

-----------------------------------------------------------------------------
(* Types *)

\* TypeOK in three parts: the shared state, the state of the threads, and the links.
SharedTypes ==
    /\ sessions \in [Convs -> Producers \cup {None}]
    /\ buffer \in [Producers -> Seq(Nat)]
    /\ prefix_dropped \in [Producers -> Nat]
    /\ done \in [Producers -> BOOLEAN]
    /\ cancelled \in [Producers -> BOOLEAN]
    /\ expired \in [Producers -> BOOLEAN]
    /\ server \in {"up", "loop_ended", "cleared", "http_stopped"}
    /\ snapshot \in SUBSET Producers

ThreadTypes ==
    /\ pc \in [Requests -> ProducerPcs \cup {"check", "reading", "refused"}]
    /\ held \in [Requests -> Producers \cup {None}]
    /\ alive \in [Requests -> BOOLEAN]
    /\ chunk \in [Producers -> Nat]
    /\ produced \in [Producers -> Nat]
    /\ outcome \in [Producers -> {"none", "finished", "cancelled", "rejected", "disconnected"}]
    /\ source \in [Consumers -> Producers \cup {None}]
    /\ offset \in [Consumers -> Nat]
    /\ got \in [Consumers -> Seq(Nat)]

Links ==
    /\ \A x \in Requests : held[x] # None <=> pc[x] \in {"cancel", "finalize"}
    /\ \A c \in Consumers : pc[c] \in {"check", "reading"} => source[c] # None
    /\ \A v \in Convs : sessions[v] # None => Conv[sessions[v]] = v /\ pc[sessions[v]] # "new"
    /\ \A p \in Producers : expired[p] => done[p]

\* The three parts are TypeOK.
LEMMA TypeParts == TypeOK <=> SharedTypes /\ ThreadTypes /\ Links
BY DEF TypeOK, SharedTypes, ThreadTypes, Links

\* Types hold in the initial state.
LEMMA TypeInit == Init => TypeOK
BY ConstantsAssumption DEF Init, TypeOK, Requests, ProducerPcs

\* A thread that neither takes nor gives up a session keeps the links.
LEMMA QuietLinks ==
    ASSUME SharedTypes, ThreadTypes, Links,
           NEW x \in Requests, NEW l, Goto(x, l),
           pc[x] \notin {"cancel", "finalize"}, l \notin {"new", "cancel", "finalize"},
           x \in Consumers /\ l \in {"check", "reading"} => source'[x] # None,
           \A c \in Consumers : c # x => source'[c] = source[c],
           UNCHANGED <<sessions, held, expired>>,
           \A p \in Producers : done[p] => done'[p]
    PROVE  Links'
<1> USE DEF Requests
<1>1. \A y \in Requests : pc'[y] = IF y = x THEN l ELSE pc[y]
  BY DEF Goto, ThreadTypes
<1>2. \A y \in Requests : held'[y] # None <=> pc'[y] \in {"cancel", "finalize"}
  BY <1>1 DEF Links
<1>3. \A c \in Consumers : pc'[c] \in {"check", "reading"} => source'[c] # None
  BY <1>1 DEF Links
<1>4. \A v \in Convs : sessions'[v] # None => Conv[sessions'[v]] = v /\ pc'[sessions'[v]] # "new"
  <2> SUFFICES ASSUME NEW v \in Convs, sessions[v] # None
               PROVE  Conv[sessions[v]] = v /\ pc'[sessions[v]] # "new"
    OBVIOUS
  <2>1. sessions[v] \in Requests /\ Conv[sessions[v]] = v /\ pc[sessions[v]] # "new"
    BY DEF Links, SharedTypes
  <2> QED BY <2>1, <1>1
<1>5. \A p \in Producers : expired'[p] => done'[p]
  BY DEF Links
<1> QED BY <1>2, <1>3, <1>4, <1>5 DEF Links

\* Every step keeps the types and the links between a thread's place and what it holds.
LEMMA TypeStep == TypeOK /\ [Next]_vars => TypeOK'
<1> SUFFICES ASSUME TypeOK, [Next]_vars PROVE TypeOK'
  OBVIOUS
<1>0. SharedTypes /\ ThreadTypes /\ Links
  BY TypeParts
<1> SUFFICES (SharedTypes /\ ThreadTypes /\ Links)'
  BY DEF TypeOK, SharedTypes, ThreadTypes, Links
<1> USE ConstantsAssumption, DisjointAssumption
    DEF Requests, ProducerPcs, Goto, ringVars, producerVars, consumerVars, serverVars
<1>1. ASSUME NEW p \in Producers, SetReq(p)
      PROVE  (SharedTypes /\ ThreadTypes /\ Links)'
  <2>1. SharedTypes'
    BY <1>1, <1>0 DEF SharedTypes, ThreadTypes, Links, SetReq
  <2>2. ThreadTypes'
    BY <1>1, <1>0 DEF SharedTypes, ThreadTypes, SetReq
  <2>3. Links'
    BY <1>1, <1>0 DEF SharedTypes, ThreadTypes, Links, SetReq
  <2> QED BY <2>1, <2>2, <2>3
<1>2. ASSUME NEW x \in Producers \cup Stops, CancelHeld(x)
      PROVE  (SharedTypes /\ ThreadTypes /\ Links)'
  <2>1. SharedTypes'
    BY <1>2, <1>0 DEF SharedTypes, ThreadTypes, Links, CancelHeld, cancel
  <2>2. ThreadTypes'
    BY <1>2, <1>0 DEF SharedTypes, ThreadTypes, CancelHeld, cancel
  <2>3. Links'
    BY <1>2, <1>0 DEF SharedTypes, ThreadTypes, Links, CancelHeld, cancel
  <2> QED BY <2>1, <2>2, <2>3
<1>3. ASSUME NEW x \in Producers \cup Stops, FinalizeHeld(x)
      PROVE  (SharedTypes /\ ThreadTypes /\ Links)'
  <2>1. SharedTypes'
    BY <1>3, <1>0 DEF SharedTypes, ThreadTypes, Links, FinalizeHeld, finalize, AfterFinalize
  <2>2. ThreadTypes'
    BY <1>3, <1>0 DEF SharedTypes, ThreadTypes, FinalizeHeld, finalize, AfterFinalize
  <2>3. Links'
    BY <1>3, <1>0 DEF SharedTypes, ThreadTypes, Links, FinalizeHeld, finalize, AfterFinalize
  <2> QED BY <2>1, <2>2, <2>3
<1>4. ASSUME NEW p \in Producers, EndsUnstreamed(p)
      PROVE  (SharedTypes /\ ThreadTypes /\ Links)'
  <2>1. SharedTypes'
    BY <1>4, <1>0 DEF SharedTypes, ThreadTypes, Links, EndsUnstreamed
  <2>2. ThreadTypes'
    BY <1>4, <1>0 DEF SharedTypes, ThreadTypes, EndsUnstreamed
  <2>3. Links'
    BY <1>4, <1>0, QuietLinks DEF EndsUnstreamed, SharedTypes, Links
  <2> QED BY <2>1, <2>2, <2>3
<1>5. ASSUME NEW p \in Producers, Evict(p)
      PROVE  (SharedTypes /\ ThreadTypes /\ Links)'
  <2>1. SharedTypes'
    BY <1>5, <1>0 DEF SharedTypes, ThreadTypes, Links, Evict
  <2>2. ThreadTypes'
    BY <1>5, <1>0 DEF SharedTypes, ThreadTypes, Evict
  <2>3. Links'
    BY <1>5, <1>0 DEF SharedTypes, ThreadTypes, Links, Evict
  <2> QED BY <2>1, <2>2, <2>3
<1>6. ASSUME NEW p \in Producers, FirstResult(p)
      PROVE  (SharedTypes /\ ThreadTypes /\ Links)'
  <2>1. SharedTypes'
    BY <1>6, <1>0 DEF SharedTypes, ThreadTypes, Links, FirstResult
  <2>2. ThreadTypes'
    BY <1>6, <1>0 DEF SharedTypes, ThreadTypes, FirstResult
  <2>3. Links'
    BY <1>6, <1>0, QuietLinks DEF FirstResult, SharedTypes, Links
  <2> QED BY <2>1, <2>2, <2>3
<1>7. ASSUME NEW p \in Producers, NextChunk(p)
      PROVE  (SharedTypes /\ ThreadTypes /\ Links)'
  <2>1. SharedTypes'
    BY <1>7, <1>0 DEF SharedTypes, ThreadTypes, Links, NextChunk
  <2>2. ThreadTypes'
    BY <1>7, <1>0 DEF SharedTypes, ThreadTypes, NextChunk
  <2>3. Links'
    BY <1>7, <1>0, QuietLinks DEF NextChunk, SharedTypes, Links
  <2> QED BY <2>1, <2>2, <2>3
<1>8. ASSUME NEW p \in Producers, LastChunk(p)
      PROVE  (SharedTypes /\ ThreadTypes /\ Links)'
  <2>1. SharedTypes'
    BY <1>8, <1>0 DEF SharedTypes, ThreadTypes, Links, LastChunk
  <2>2. ThreadTypes'
    BY <1>8, <1>0 DEF SharedTypes, ThreadTypes, LastChunk
  <2>3. Links'
    BY <1>8, <1>0, QuietLinks DEF LastChunk, SharedTypes, Links
  <2> QED BY <2>1, <2>2, <2>3
<1>9. ASSUME NEW p \in Producers, Write(p)
      PROVE  (SharedTypes /\ ThreadTypes /\ Links)'
  <2>1. Chunk(produced[p], chunk[p]) \in Seq(Nat)
    BY ChunkFacts DEF TypeOK
  <2>2. buffer' \in [Producers -> Seq(Nat)] /\ prefix_dropped' \in [Producers -> Nat]
    BY <1>9, <2>1, AppendFacts DEF TypeOK, Write
  <2>3. AfterWrite[pc[p]] \in {"streaming", "draining", "destroy"} /\ pc[p] \notin {"cancel", "finalize", "new"}
    BY <1>9 DEF Write, AfterWrite
  <2>4. SharedTypes'
    BY <1>9, <1>0, <2>2 DEF SharedTypes, Write
  <2>5. ThreadTypes'
    BY <1>9, <1>0, <2>3 DEF ThreadTypes, Write
  <2>6. Links'
    BY <1>9, <1>0, <2>3, QuietLinks DEF Write
  <2> QED BY <2>4, <2>5, <2>6
<1>10. ASSUME NEW p \in Producers, PeerDropped(p)
      PROVE  (SharedTypes /\ ThreadTypes /\ Links)'
  <2>1. SharedTypes'
    BY <1>10, <1>0 DEF SharedTypes, ThreadTypes, Links, PeerDropped
  <2>2. ThreadTypes'
    BY <1>10, <1>0 DEF SharedTypes, ThreadTypes, PeerDropped
  <2>3. Links'
    BY <1>10, <1>0, QuietLinks DEF PeerDropped, SharedTypes, Links
  <2> QED BY <2>1, <2>2, <2>3
<1>11. ASSUME NEW p \in Producers, StreamCancelled(p)
      PROVE  (SharedTypes /\ ThreadTypes /\ Links)'
  <2>1. SharedTypes'
    BY <1>11, <1>0 DEF SharedTypes, ThreadTypes, Links, StreamCancelled
  <2>2. ThreadTypes'
    BY <1>11, <1>0 DEF SharedTypes, ThreadTypes, StreamCancelled
  <2>3. Links'
    BY <1>11, <1>0, QuietLinks DEF StreamCancelled, SharedTypes, Links
  <2> QED BY <2>1, <2>2, <2>3
<1>12. ASSUME NEW p \in Producers, Destroy(p)
      PROVE  (SharedTypes /\ ThreadTypes /\ Links)'
  <2>1. SharedTypes'
    BY <1>12, <1>0 DEF SharedTypes, ThreadTypes, Links, Destroy, finalize
  <2>2. ThreadTypes'
    BY <1>12, <1>0 DEF SharedTypes, ThreadTypes, Destroy, finalize
  <2>3. Links'
    BY <1>12, <1>0, QuietLinks DEF Destroy, SharedTypes, Links, finalize
  <2> QED BY <2>1, <2>2, <2>3
<1>13. ASSUME NEW c \in Consumers, Open(c)
      PROVE  (SharedTypes /\ ThreadTypes /\ Links)'
  <2>1. SharedTypes'
    BY <1>13, <1>0 DEF SharedTypes, ThreadTypes, Links, Open
  <2>2. ThreadTypes'
    BY <1>13, <1>0 DEF SharedTypes, ThreadTypes, Open
  <2>3. Links'
    <3>1. source'[c] = sessions[Conv[c]]
      BY <1>13, <1>0 DEF ThreadTypes, Open
    <3>2. \A y \in Consumers : y # c => source'[y] = source[y]
      BY <1>13, <1>0 DEF ThreadTypes, Open
    <3>3. /\ Goto(c, IF sessions[Conv[c]] = None THEN "refused" ELSE "check")
          /\ pc[c] = "new" /\ UNCHANGED <<sessions, held, expired, done>>
      BY <1>13 DEF Open
    <3>4. CASE sessions[Conv[c]] = None
      <4>1. Goto(c, "refused")
        BY <3>3, <3>4
      <4> QED BY <4>1, <3>2, <3>3, <1>0, QuietLinks
    <3>5. CASE sessions[Conv[c]] # None
      <4>1. Goto(c, "check") /\ source'[c] # None
        BY <3>1, <3>3, <3>5
      <4> QED BY <4>1, <3>2, <3>3, <1>0, QuietLinks
    <3> QED BY <3>4, <3>5
  <2> QED BY <2>1, <2>2, <2>3
<1>14. ASSUME NEW c \in Consumers, CheckOffset(c)
      PROVE  (SharedTypes /\ ThreadTypes /\ Links)'
  <2>1. SharedTypes'
    BY <1>14, <1>0 DEF SharedTypes, ThreadTypes, Links, CheckOffset
  <2>2. ThreadTypes'
    BY <1>14, <1>0 DEF SharedTypes, ThreadTypes, CheckOffset
  <2>3. Links'
    BY <1>14, <1>0, QuietLinks DEF CheckOffset, SharedTypes, Links
  <2> QED BY <2>1, <2>2, <2>3
<1>15. ASSUME NEW c \in Consumers, ReadChunk(c)
      PROVE  (SharedTypes /\ ThreadTypes /\ Links)'
  <2>1. SharedTypes'
    BY <1>15, <1>0 DEF SharedTypes, ThreadTypes, Links, ReadChunk
  <2>2. ThreadTypes'
    <3> DEFINE src == source[c]  n == offset[c] - prefix_dropped[src]
    <3>1. src \in Producers
      BY <1>15, <1>0 DEF ThreadTypes, Links, ReadChunk
    <3>2. n \in 0..Len(buffer[src]) /\ buffer[src] \in Seq(Nat) /\ logical_end(src) \in Nat
      BY <1>15, <1>0, <3>1 DEF ThreadTypes, SharedTypes, ReadChunk, logical_end
    <3>3. Drop(buffer[src], n) \in Seq(Nat)
      BY <3>2, DropFacts
    <3>4. got[c] \o Drop(buffer[src], n) \in Seq(Nat)
      BY <3>3, <1>0, ConcatFacts DEF ThreadTypes
    <3>5. /\ got' = [got EXCEPT ![c] = @ \o Drop(buffer[src], n)]
          /\ offset' = [offset EXCEPT ![c] = logical_end(src)]
      BY <1>15 DEF ReadChunk
    <3> HIDE DEF src, n
    <3> QED BY <3>2, <3>4, <3>5, <1>0, <1>15 DEF ThreadTypes, ReadChunk
  <2>3. Links'
    BY <1>15, <1>0 DEF SharedTypes, ThreadTypes, Links, ReadChunk
  <2> QED BY <2>1, <2>2, <2>3
<1>16. ASSUME NEW c \in Consumers, ReadEnds(c)
      PROVE  (SharedTypes /\ ThreadTypes /\ Links)'
  <2>1. SharedTypes'
    BY <1>16, <1>0 DEF SharedTypes, ThreadTypes, Links, ReadEnds
  <2>2. ThreadTypes'
    BY <1>16, <1>0 DEF SharedTypes, ThreadTypes, ReadEnds
  <2>3. Links'
    BY <1>16, <1>0, QuietLinks DEF ReadEnds, SharedTypes, Links
  <2> QED BY <2>1, <2>2, <2>3
<1>17. ASSUME NEW d \in Stops, Delete(d)
      PROVE  (SharedTypes /\ ThreadTypes /\ Links)'
  <2>1. SharedTypes'
    BY <1>17, <1>0 DEF SharedTypes, ThreadTypes, Links, Delete
  <2>2. ThreadTypes'
    BY <1>17, <1>0 DEF SharedTypes, ThreadTypes, Delete
  <2>3. Links'
    BY <1>17, <1>0 DEF SharedTypes, ThreadTypes, Links, Delete
  <2> QED BY <2>1, <2>2, <2>3
<1>18. ASSUME NEW x \in Requests, Leave(x)
      PROVE  (SharedTypes /\ ThreadTypes /\ Links)'
  <2>1. SharedTypes'
    BY <1>18, <1>0 DEF SharedTypes, ThreadTypes, Links, Leave
  <2>2. ThreadTypes'
    BY <1>18, <1>0 DEF SharedTypes, ThreadTypes, Leave
  <2>3. Links'
    BY <1>18, <1>0 DEF SharedTypes, ThreadTypes, Links, Leave
  <2> QED BY <2>1, <2>2, <2>3
<1>19. ASSUME NEW p \in Producers, Expire(p)
      PROVE  (SharedTypes /\ ThreadTypes /\ Links)'
  <2>1. SharedTypes'
    BY <1>19, <1>0 DEF SharedTypes, ThreadTypes, Links, Expire
  <2>2. ThreadTypes'
    BY <1>19, <1>0 DEF SharedTypes, ThreadTypes, Expire
  <2>3. Links'
    BY <1>19, <1>0 DEF SharedTypes, ThreadTypes, Links, Expire
  <2> QED BY <2>1, <2>2, <2>3
<1>20. CASE GcTick
  <2>1. SharedTypes'
    BY <1>20, <1>0 DEF SharedTypes, ThreadTypes, Links, GcTick
  <2>2. ThreadTypes'
    BY <1>20, <1>0 DEF SharedTypes, ThreadTypes, GcTick
  <2>3. Links'
    BY <1>20, <1>0 DEF SharedTypes, ThreadTypes, Links, GcTick
  <2> QED BY <2>1, <2>2, <2>3
<1>21. CASE LoopEnds
  <2>1. SharedTypes'
    BY <1>21, <1>0 DEF SharedTypes, ThreadTypes, Links, LoopEnds
  <2>2. ThreadTypes'
    BY <1>21, <1>0 DEF SharedTypes, ThreadTypes, LoopEnds
  <2>3. Links'
    BY <1>21, <1>0 DEF SharedTypes, ThreadTypes, Links, LoopEnds
  <2> QED BY <2>1, <2>2, <2>3
<1>22. CASE StopGc
  <2>1. SharedTypes'
    BY <1>22, <1>0 DEF SharedTypes, ThreadTypes, Links, StopGc
  <2>2. ThreadTypes'
    BY <1>22, <1>0 DEF SharedTypes, ThreadTypes, StopGc
  <2>3. Links'
    BY <1>22, <1>0 DEF SharedTypes, ThreadTypes, Links, StopGc
  <2> QED BY <2>1, <2>2, <2>3
<1>23. ASSUME NEW s \in Producers, FinalizeSnapshot(s)
      PROVE  (SharedTypes /\ ThreadTypes /\ Links)'
  <2>1. SharedTypes'
    BY <1>23, <1>0 DEF SharedTypes, ThreadTypes, Links, FinalizeSnapshot, finalize
  <2>2. ThreadTypes'
    BY <1>23, <1>0 DEF SharedTypes, ThreadTypes, FinalizeSnapshot, finalize
  <2>3. Links'
    BY <1>23, <1>0 DEF SharedTypes, ThreadTypes, Links, FinalizeSnapshot, finalize
  <2> QED BY <2>1, <2>2, <2>3
<1>24. CASE HttpStop
  <2>1. SharedTypes'
    BY <1>24, <1>0 DEF SharedTypes, ThreadTypes, Links, HttpStop
  <2>2. ThreadTypes'
    BY <1>24, <1>0 DEF SharedTypes, ThreadTypes, HttpStop
  <2>3. Links'
    BY <1>24, <1>0 DEF SharedTypes, ThreadTypes, Links, HttpStop
  <2> QED BY <2>1, <2>2, <2>3
<1>25. CASE UNCHANGED vars
  <2>1. SharedTypes'
    BY <1>25, <1>0 DEF SharedTypes, ThreadTypes, Links, vars
  <2>2. ThreadTypes'
    BY <1>25, <1>0 DEF SharedTypes, ThreadTypes, vars
  <2>3. Links'
    BY <1>25, <1>0 DEF SharedTypes, ThreadTypes, Links, vars
  <2> QED BY <2>1, <2>2, <2>3
<1> QED
  BY <1>1, <1>2, <1>3, <1>4, <1>5, <1>6, <1>7, <1>8, <1>9, <1>10, <1>11, <1>12, <1>13, <1>14,
     <1>15, <1>16, <1>17, <1>18, <1>19, <1>20, <1>21, <1>22, <1>23, <1>24, <1>25
     DEF Next, ProducerStep, ControlStep, ConsumerStep, StopStep, ShutdownStep

-----------------------------------------------------------------------------
(* The ring *)

\* Only a write touches the bytes of a ring, and no step reopens a session.
LEMMA OnlyWrite ==
    ASSUME TypeOK, [Next]_vars
    PROVE  \/ \E p \in Producers : Write(p)
           \/ /\ UNCHANGED <<buffer, prefix_dropped, produced>>
              /\ \A p \in Producers : done[p] => done'[p]
<1> DEFINE Frame == /\ UNCHANGED <<buffer, prefix_dropped, produced>>
                    /\ \A p \in Producers : done[p] => done'[p]
<1> USE DEF ringVars, producerVars, consumerVars, serverVars
<1>1. ASSUME NEW p \in Producers, SetReq(p) \/ Expire(p) PROVE Frame
  BY <1>1 DEF SetReq, Expire
<1>2. ASSUME NEW x \in Requests, Leave(x) \/ CancelHeld(x) PROVE Frame
  BY <1>2 DEF Leave, CancelHeld
<1>3. ASSUME NEW x \in Requests, FinalizeHeld(x) PROVE Frame
  BY <1>3 DEF FinalizeHeld, finalize, TypeOK
<1>4. ASSUME NEW p \in Producers, EndsUnstreamed(p) \/ Evict(p) \/ FirstResult(p) \/ PeerDropped(p)
      PROVE  Frame
  BY <1>4 DEF EndsUnstreamed, Evict, FirstResult, PeerDropped
<1>5. ASSUME NEW p \in Producers, StreamCancelled(p) \/ NextChunk(p) \/ LastChunk(p) PROVE Frame
  BY <1>5 DEF StreamCancelled, NextChunk, LastChunk
<1>6. ASSUME NEW p \in Producers, Destroy(p) PROVE Frame
  BY <1>6 DEF Destroy, finalize, TypeOK
<1>7. ASSUME NEW c \in Consumers, Open(c) \/ CheckOffset(c) \/ ReadChunk(c) \/ ReadEnds(c) PROVE Frame
  BY <1>7 DEF Open, CheckOffset, ReadChunk, ReadEnds
<1>8. ASSUME NEW d \in Stops, Delete(d) PROVE Frame
  BY <1>8 DEF Delete
<1>9. ASSUME GcTick \/ LoopEnds \/ StopGc \/ HttpStop PROVE Frame
  BY <1>9 DEF GcTick, LoopEnds, StopGc, HttpStop
<1>10. ASSUME NEW s \in Producers, FinalizeSnapshot(s) PROVE Frame
  BY <1>10 DEF FinalizeSnapshot, finalize, TypeOK
<1>11. ASSUME UNCHANGED vars PROVE Frame
  BY <1>11 DEF vars
<1> HIDE DEF Frame
<1>12. (\E p \in Producers : Write(p)) \/ Frame
  <2>1. ASSUME NEW p \in Producers, SetReq(p) \/ ProducerStep(p) \/ Expire(p)
        PROVE  Write(p) \/ Frame
    <3>1. p \in Requests
      BY DEF Requests
    <3> QED BY <2>1, <3>1, <1>1, <1>2, <1>3, <1>4, <1>5, <1>6 DEF ProducerStep, ControlStep
  <2>2. ASSUME NEW c \in Consumers, Open(c) \/ ConsumerStep(c) PROVE Frame
    BY <2>2, <1>7 DEF ConsumerStep
  <2>3. ASSUME NEW d \in Stops, Delete(d) \/ StopStep(d) PROVE Frame
    <3>1. d \in Requests
      BY DEF Requests
    <3> QED BY <2>3, <3>1, <1>2, <1>3, <1>8 DEF StopStep
  <2>4. ASSUME ShutdownStep PROVE Frame
    BY <2>4, <1>9, <1>10 DEF ShutdownStep
  <2> QED BY <2>1, <2>2, <2>3, <2>4, <1>2, <1>9, <1>11 DEF Next
<1> QED BY <1>12 DEF Frame

\* The ring stays an unbroken run of the generation.
LEMMA RingStep == TypeOK /\ RingIsSuffix /\ [Next]_vars => RingIsSuffix'
<1> SUFFICES ASSUME TypeOK, RingIsSuffix, [Next]_vars PROVE RingIsSuffix'
  OBVIOUS
<1>1. CASE /\ UNCHANGED <<buffer, prefix_dropped, produced>>
           /\ \A p \in Producers : done[p] => done'[p]
  BY <1>1 DEF RingIsSuffix, logical_end
<1>2. ASSUME NEW p \in Producers, Write(p) PROVE RingIsSuffix'
  <2> DEFINE data == Chunk(produced[p], chunk[p])
  <2>1. /\ data \in Seq(Nat) /\ Len(data) = chunk[p]
        /\ \A i \in 1..Len(data) : data[i] = produced[p] + i
    <3>1. produced[p] \in Nat /\ chunk[p] \in Nat
      BY DEF TypeOK
    <3> QED BY <3>1, ChunkFacts
  <2>2. append(p, data) /\ done' = done /\ produced' = [produced EXCEPT ![p] = @ + chunk[p]]
    BY <1>2 DEF Write
  <2> HIDE DEF data
  <2>3. /\ \A t \in Producers : t # p => buffer'[t] = buffer[t] /\ prefix_dropped'[t] = prefix_dropped[t]
        /\ done[p] => buffer'[p] = buffer[p] /\ prefix_dropped'[p] = prefix_dropped[p]
        /\ /\ ~done[p]
           /\ Len(buffer[p]) <= CapBytes
           /\ \A i \in 1..Len(buffer[p]) : buffer[p][i] = prefix_dropped[p] + i
           /\ \A i \in 1..Len(data) : data[i] = logical_end(p) + i
           => /\ Len(buffer'[p]) <= CapBytes
              /\ \A i \in 1..Len(buffer'[p]) : buffer'[p][i] = prefix_dropped'[p] + i
              /\ prefix_dropped'[p] + Len(buffer'[p]) = logical_end(p) + Len(data)
    BY <2>1, <2>2, AppendFacts, ZenonT(60) DEF TypeOK
  <2>4. \A t \in Producers : t # p => produced'[t] = produced[t]
    BY <2>2 DEF TypeOK
  <2>5. produced'[p] = produced[p] + chunk[p]
    BY <2>2 DEF TypeOK
  <2> SUFFICES ASSUME NEW s \in Producers
               PROVE  /\ Len(buffer'[s]) <= CapBytes
                      /\ \A i \in 1..Len(buffer'[s]) : buffer'[s][i] = prefix_dropped'[s] + i
                      /\ ~done'[s] => prefix_dropped'[s] + Len(buffer'[s]) = produced'[s]
    BY DEF RingIsSuffix, logical_end
  <2>6. CASE s # p
    BY <2>2, <2>3, <2>4, <2>6 DEF RingIsSuffix, logical_end
  <2>7. CASE s = p /\ done[p]
    BY <2>2, <2>3, <2>7 DEF RingIsSuffix
  <2>8. CASE s = p /\ ~done[p]
    <3>1. logical_end(p) = produced[p]
      BY <2>8 DEF RingIsSuffix
    <3> QED BY <3>1, <2>1, <2>3, <2>5, <2>8 DEF RingIsSuffix
  <2> QED BY <2>6, <2>7, <2>8
<1> QED BY <1>1, <1>2, OnlyWrite

-----------------------------------------------------------------------------
(* Replays *)

\* Only a GET's own steps move the GET.
LEMMA OnlyConsumer ==
    ASSUME TypeOK, [Next]_vars
    PROVE  \/ \E c \in Consumers : Open(c) \/ CheckOffset(c) \/ ReadChunk(c) \/ ReadEnds(c)
           \/ /\ UNCHANGED <<offset, got>>
              /\ \A c \in Consumers : pc'[c] = pc[c]
<1> DEFINE Frame == /\ UNCHANGED <<offset, got>>
                    /\ \A c \in Consumers : pc'[c] = pc[c]
<1> USE DisjointAssumption DEF ringVars, producerVars, consumerVars, serverVars, Goto
<1>1. ASSUME NEW p \in Producers, SetReq(p) \/ Expire(p) \/ Write(p) PROVE Frame
  BY <1>1 DEF SetReq, Expire, Write, TypeOK, Requests
<1>2. ASSUME NEW x \in Requests, Leave(x) PROVE Frame
  BY <1>2 DEF Leave
<1>3. ASSUME NEW x \in Producers \cup Stops, CancelHeld(x) \/ FinalizeHeld(x) PROVE Frame
  BY <1>3 DEF FinalizeHeld, CancelHeld, TypeOK, Requests
<1>4. ASSUME NEW p \in Producers, EndsUnstreamed(p) \/ Evict(p) \/ FirstResult(p) \/ PeerDropped(p)
      PROVE  Frame
  BY <1>4 DEF EndsUnstreamed, Evict, FirstResult, PeerDropped, TypeOK, Requests
<1>5. ASSUME NEW p \in Producers, StreamCancelled(p) \/ NextChunk(p) \/ LastChunk(p) \/ Destroy(p)
      PROVE  Frame
  BY <1>5 DEF StreamCancelled, NextChunk, LastChunk, Destroy, TypeOK, Requests
<1>6. ASSUME NEW d \in Stops, Delete(d) PROVE Frame
  BY <1>6 DEF Delete, TypeOK, Requests
<1>7. ASSUME GcTick \/ LoopEnds \/ StopGc \/ HttpStop PROVE Frame
  BY <1>7 DEF GcTick, LoopEnds, StopGc, HttpStop
<1>8. ASSUME NEW s \in Producers, FinalizeSnapshot(s) PROVE Frame
  BY <1>8 DEF FinalizeSnapshot
<1>9. ASSUME UNCHANGED vars PROVE Frame
  BY <1>9 DEF vars
<1> HIDE DEF Frame
<1>10. (\E c \in Consumers : Open(c) \/ CheckOffset(c) \/ ReadChunk(c) \/ ReadEnds(c)) \/ Frame
  <2>1. ASSUME NEW p \in Producers, SetReq(p) \/ ProducerStep(p) \/ Expire(p) PROVE Frame
    BY <2>1, <1>1, <1>3, <1>4, <1>5 DEF ProducerStep, ControlStep
  <2>2. ASSUME NEW d \in Stops, Delete(d) \/ StopStep(d) PROVE Frame
    BY <2>2, <1>3, <1>6 DEF StopStep
  <2>3. ASSUME ShutdownStep PROVE Frame
    BY <2>3, <1>7, <1>8 DEF ShutdownStep
  <2> QED BY <2>1, <2>2, <2>3, <1>2, <1>7, <1>9 DEF Next, ConsumerStep
<1> QED BY <1>10 DEF Frame

Replay == ReplayExact /\ OffsetsFollow

\* A read continues a replay exactly where it stopped.
LEMMA ReadStep ==
    ASSUME TypeOK, RingIsSuffix, Replay, NEW c \in Consumers, ReadChunk(c)
    PROVE  Replay'
<1> DEFINE s == source[c]  n == offset[c] - prefix_dropped[s]
           b == buffer[s]  g == got[c]  new == Drop(b, n)
<1>1. s \in Producers /\ pc[c] = "reading" /\ pc' = pc
  BY DEF ReadChunk, TypeOK, ringVars
<1>2. /\ b \in Seq(Nat) /\ g \in Seq(Nat) /\ prefix_dropped[s] \in Nat /\ offset[c] \in Nat
      /\ From[c] \in Nat
  BY <1>1, ConstantsAssumption DEF TypeOK
<1>3. n \in 0..Len(b) /\ offset[c] = prefix_dropped[s] + n
  BY <1>1, <1>2 DEF ReadChunk, logical_end
<1>4. offset[c] = From[c] + Len(g)
  BY <1>1 DEF Replay, OffsetsFollow
<1>5. /\ got' = [got EXCEPT ![c] = g \o new]
      /\ offset' = [offset EXCEPT ![c] = prefix_dropped[s] + Len(b)]
  BY DEF ReadChunk, logical_end
<1> HIDE DEF n
<1>6. /\ new \in Seq(Nat) /\ Len(new) = Len(b) - n
      /\ \A i \in 1..(Len(b) - n) : new[i] = b[i + n]
  BY <1>2, <1>3, DropFacts
<1> HIDE DEF new
<1>7. /\ Len(g \o new) = Len(g) + Len(new)
      /\ \A i \in 1..Len(g) : (g \o new)[i] = g[i]
      /\ \A i \in (Len(g) + 1)..(Len(g) + Len(new)) : (g \o new)[i] = new[i - Len(g)]
  BY <1>2, <1>6, ConcatFacts
<1>8. \A i \in 1..Len(b) : b[i] = prefix_dropped[s] + i
  BY <1>1 DEF RingIsSuffix
<1>9. \A i \in 1..Len(g) : g[i] = From[c] + i
  BY DEF Replay, ReplayExact
<1>0. /\ prefix_dropped[s] + Len(b) = From[c] + (Len(g) + (Len(b) - n))
      /\ \A i \in 1..(Len(g) + (Len(b) - n)) : i \notin 1..Len(g) =>
            /\ i - Len(g) \in 1..(Len(b) - n)
            /\ i \in (Len(g) + 1)..(Len(g) + (Len(b) - n))
            /\ (i - Len(g)) + n \in 1..Len(b)
            /\ prefix_dropped[s] + ((i - Len(g)) + n) = From[c] + i
  <2>1. Len(g) \in Nat /\ Len(b) \in Nat /\ prefix_dropped[s] + n = From[c] + Len(g)
    BY <1>2, <1>3, <1>4
  <2> DEFINE lg == Len(g)  lb == Len(b)  dropped == prefix_dropped[s]  from == From[c]
  <2>2. /\ lg \in Nat /\ lb \in Nat /\ dropped \in Nat /\ from \in Nat
        /\ n \in 0..lb /\ dropped + n = from + lg
    BY <2>1, <1>2, <1>3
  <2> HIDE DEF lg, lb, dropped, from
  <2>3. /\ dropped + lb = from + (lg + (lb - n))
        /\ \A i \in 1..(lg + (lb - n)) : i \notin 1..lg =>
              /\ i - lg \in 1..(lb - n)
              /\ i \in (lg + 1)..(lg + (lb - n))
              /\ (i - lg) + n \in 1..lb
              /\ dropped + ((i - lg) + n) = from + i
    BY <2>2
  <2> QED BY <2>3 DEF lg, lb, dropped, from
<1>10. \A i \in 1..Len(g \o new) : (g \o new)[i] = From[c] + i
  <2> SUFFICES ASSUME NEW i \in 1..(Len(g) + Len(new)) PROVE (g \o new)[i] = From[c] + i
    BY <1>7
  <2>1. CASE i \in 1..Len(g)
    BY <2>1, <1>7, <1>9
  <2>2. CASE i \notin 1..Len(g)
    <3> DEFINE j == i - Len(g)
    <3>1. j \in 1..(Len(b) - n) /\ i \in (Len(g) + 1)..(Len(g) + Len(new)) /\ j + n \in 1..Len(b)
      BY <2>2, <1>0, <1>6
    <3>2. (g \o new)[i] = b[j + n]
      BY <3>1, <1>6, <1>7
    <3>3. b[j + n] = prefix_dropped[s] + (j + n)
      BY <3>1, <1>8
    <3>4. prefix_dropped[s] + (j + n) = From[c] + i
      BY <2>2, <1>0, <1>6
    <3> QED BY <3>2, <3>3, <3>4
  <2> QED BY <2>1, <2>2
<1>11. prefix_dropped[s] + Len(b) = From[c] + Len(g \o new)
  BY <1>0, <1>6, <1>7
<1>12. /\ got'[c] = g \o new /\ offset'[c] = prefix_dropped[s] + Len(b)
       /\ \A y \in Consumers : y # c => got'[y] = got[y] /\ offset'[y] = offset[y]
  BY <1>5, SMTT(30) DEF TypeOK
<1>13. ReplayExact'
  BY <1>10, <1>12 DEF Replay, ReplayExact
<1>14. OffsetsFollow'
  BY <1>1, <1>11, <1>12 DEF Replay, OffsetsFollow
<1> QED BY <1>13, <1>14 DEF Replay

\* Every step keeps the replays exact.
LEMMA ReplayStep == TypeOK /\ RingIsSuffix /\ Replay /\ [Next]_vars => Replay'
<1> SUFFICES ASSUME TypeOK, RingIsSuffix, Replay, [Next]_vars PROVE Replay'
  OBVIOUS
<1>1. CASE UNCHANGED <<offset, got>> /\ \A c \in Consumers : pc'[c] = pc[c]
  BY <1>1 DEF Replay, ReplayExact, OffsetsFollow
<1>2. ASSUME NEW c \in Consumers, Open(c) \/ ReadEnds(c) PROVE Replay'
  BY <1>2, SMTT(30) DEF Open, ReadEnds, Goto, Replay, ReplayExact, OffsetsFollow, TypeOK, Requests, consumerVars
<1>3. ASSUME NEW c \in Consumers, CheckOffset(c) PROVE Replay'
  <2>1. got' = got /\ got[c] = <<>> /\ offset'[c] = From[c] /\ From[c] \in Nat
    BY <1>3, ConstantsAssumption, ZenonT(60) DEF CheckOffset, Replay, OffsetsFollow, TypeOK
  <2>2. \A y \in Consumers : y # c => pc'[y] = pc[y] /\ offset'[y] = offset[y]
    BY <1>3 DEF CheckOffset, Goto, TypeOK, Requests
  <2>3. pc'[c] \in {"refused", "reading"}
    BY <1>3 DEF CheckOffset, Goto, TypeOK, Requests
  <2>4. Len(got[c]) = 0
    BY <2>1
  <2> QED BY <2>1, <2>2, <2>3, <2>4 DEF Replay, ReplayExact, OffsetsFollow
<1> QED BY <1>1, <1>2, <1>3, OnlyConsumer, ReadStep

-----------------------------------------------------------------------------
(* The map of sessions *)

Removed == RemovedIsFinalized /\ SnapshotOnce

\* Somebody answers for the end of session s.
Accounted(s) ==
    \/ pc[s] = "new" \/ sessions[Conv[s]] = s \/ done[s]
    \/ s \in snapshot
    \/ \E x \in Requests : held[x] = s

\* A step that takes nothing out of the map, gives up no session and starts no POST
\* leaves every session accounted for.
LEMMA QuietRemoved ==
    ASSUME Removed, UNCHANGED <<sessions, held, snapshot>>,
           \A p \in Producers : pc'[p] = "new" <=> pc[p] = "new",
           \A p \in Producers : done[p] => done'[p],
           server' \in {"up", "loop_ended"} => server \in {"up", "loop_ended"}
    PROVE  Removed'
BY DEF Removed, RemovedIsFinalized, SnapshotOnce

\* set_req(), evict() and evict_and_cancel(): the thread x takes what the map holds for
\* its conversation and has to end it; y, x's own session or nothing, takes its place.
LEMMA TakeRemoved ==
    ASSUME TypeOK, Removed, NEW x \in Requests, NEW y, held[x] = None,
           held' = [held EXCEPT ![x] = sessions[Conv[x]]],
           sessions' = [sessions EXCEPT ![Conv[x]] = y],
           \A p \in Producers : pc'[p] = "new" => pc[p] = "new",
           \A p \in Producers : pc[p] = "new" /\ pc'[p] # "new" => p = y /\ Conv[p] = Conv[x],
           UNCHANGED <<done, snapshot, server>>
    PROVE  Removed'
<1>1. Conv[x] \in Convs /\ \A p \in Producers : Conv[p] \in Convs
  BY ConstantsAssumption DEF Requests
<1>2. /\ held'[x] = sessions[Conv[x]] /\ \A z \in Requests : z # x => held'[z] = held[z]
      /\ sessions'[Conv[x]] = y /\ \A v \in Convs : v # Conv[x] => sessions'[v] = sessions[v]
  BY <1>1 DEF TypeOK
<1>3. ASSUME NEW s \in Producers PROVE Accounted(s)'
  <2>1. Accounted(s)
    BY DEF Removed, RemovedIsFinalized, Accounted
  <2>2. CASE pc[s] = "new"
    BY <2>2, <1>2 DEF Accounted
  <2>3. CASE sessions[Conv[s]] = s
    BY <2>3, <1>1, <1>2 DEF Accounted
  <2>4. CASE done[s] \/ s \in snapshot
    BY <2>4 DEF Accounted
  <2>5. ASSUME NEW z \in Requests, held[z] = s PROVE Accounted(s)'
    <3>1. z # x
      BY <2>5, ConstantsAssumption
    <3> QED BY <3>1, <2>5, <1>2 DEF Accounted
  <2> QED BY <2>1, <2>2, <2>3, <2>4, <2>5 DEF Accounted
<1> QED BY <1>3 DEF Removed, RemovedIsFinalized, SnapshotOnce, Accounted

\* Every step keeps the removed sessions accounted for.
LEMMA RemovedStep == TypeOK /\ Removed /\ [Next]_vars => Removed'
<1> SUFFICES ASSUME TypeOK, Removed, [Next]_vars PROVE Removed'
  OBVIOUS
<1> USE ConstantsAssumption, DisjointAssumption
    DEF Requests, Goto, ringVars, producerVars, consumerVars, serverVars
<1>1. ASSUME NEW p \in Producers, SetReq(p) PROVE Removed'
  <2>1. held[p] = None
    BY <1>1 DEF SetReq, TypeOK
  <2>2. \A q \in Producers : q # p => pc'[q] = pc[q]
    BY <1>1 DEF SetReq, TypeOK
  <2>3. pc'[p] # "new"
    BY <1>1 DEF SetReq, TypeOK
  <2> QED BY <1>1, <2>1, <2>2, <2>3, TakeRemoved, ZenonT(60) DEF SetReq
<1>2. ASSUME NEW x \in Producers \cup Stops, CancelHeld(x) PROVE Removed'
  BY <1>2, QuietRemoved DEF CancelHeld, TypeOK
<1>3. ASSUME NEW x \in Producers \cup Stops, FinalizeHeld(x) PROVE Removed'
  <2>1. done' = [done EXCEPT ![held[x]] = TRUE] /\ held' = [held EXCEPT ![x] = None]
    BY <1>3 DEF FinalizeHeld, finalize
  <2>2. held[x] \in Producers
    BY <1>3 DEF FinalizeHeld, TypeOK
  <2>3. \A s \in Producers : done'[s] <=> done[s] \/ s = held[x]
    BY <2>1, <2>2 DEF TypeOK
  <2>4. \A z \in Requests : z # x => held'[z] = held[z]
    BY <2>1 DEF TypeOK
  <2>5. \A s \in Producers : pc'[s] = "new" <=> pc[s] = "new"
    BY <1>3 DEF FinalizeHeld, AfterFinalize, TypeOK
  <2>6. UNCHANGED <<sessions, snapshot, server>>
    BY <1>3 DEF FinalizeHeld
  <2> QED BY <2>3, <2>4, <2>5, <2>6 DEF Removed, RemovedIsFinalized, SnapshotOnce
<1>4. ASSUME NEW p \in Producers, EndsUnstreamed(p) PROVE Removed'
  BY <1>4, QuietRemoved DEF EndsUnstreamed, TypeOK
<1>5. ASSUME NEW p \in Producers, Evict(p) PROVE Removed'
  <2>1. held[p] = None
    BY <1>5 DEF Evict, TypeOK
  <2>2. \A q \in Producers : pc'[q] = "new" <=> pc[q] = "new"
    BY <1>5 DEF Evict, TypeOK
  <2> QED BY <1>5, <2>1, <2>2, TakeRemoved DEF Evict
<1>6. ASSUME NEW p \in Producers, FirstResult(p) \/ PeerDropped(p) \/ StreamCancelled(p) PROVE Removed'
  BY <1>6, QuietRemoved DEF FirstResult, PeerDropped, StreamCancelled, TypeOK
<1>7. ASSUME NEW p \in Producers, NextChunk(p) \/ LastChunk(p) PROVE Removed'
  BY <1>7, QuietRemoved DEF NextChunk, LastChunk, TypeOK
<1>8. ASSUME NEW p \in Producers, Write(p) PROVE Removed'
  <2>1. \A q \in Producers : pc'[q] = "new" <=> pc[q] = "new"
    BY <1>8 DEF Write, AfterWrite, TypeOK
  <2> QED BY <1>8, <2>1, QuietRemoved DEF Write
<1>9. ASSUME NEW p \in Producers, Destroy(p) PROVE Removed'
  BY <1>9, QuietRemoved DEF Destroy, finalize, TypeOK
<1>10. ASSUME NEW c \in Consumers, Open(c) \/ CheckOffset(c) \/ ReadChunk(c) \/ ReadEnds(c)
       PROVE  Removed'
  <2>1. \A q \in Producers : pc'[q] = pc[q]
    BY <1>10 DEF Open, CheckOffset, ReadChunk, ReadEnds, TypeOK
  <2> QED BY <1>10, <2>1, QuietRemoved DEF Open, CheckOffset, ReadChunk, ReadEnds
<1>11. ASSUME NEW d \in Stops, Delete(d) PROVE Removed'
  <2>1. held[d] = None
    BY <1>11 DEF Delete, TypeOK
  <2>2. \A q \in Producers : pc'[q] = pc[q]
    BY <1>11 DEF Delete, TypeOK
  <2> QED BY <1>11, <2>1, <2>2, TakeRemoved DEF Delete
<1>12. ASSUME NEW x \in Requests, Leave(x) PROVE Removed'
  BY <1>12, QuietRemoved DEF Leave
<1>13. ASSUME NEW p \in Producers, Expire(p) PROVE Removed'
  BY <1>13, QuietRemoved DEF Expire
<1>14. CASE GcTick
  BY <1>14 DEF GcTick, TypeOK, Removed, RemovedIsFinalized, SnapshotOnce
<1>15. CASE LoopEnds \/ HttpStop
  BY <1>15, QuietRemoved DEF LoopEnds, HttpStop
<1>16. CASE StopGc
  <2>1. /\ snapshot = {} /\ snapshot' = {sessions[v] : v \in Convs} \ {None}
        /\ server' = "cleared" /\ UNCHANGED <<pc, held, done>>
    BY <1>16 DEF StopGc, Removed, SnapshotOnce
  <2>2. ASSUME NEW s \in Producers, sessions[Conv[s]] = s PROVE s \in snapshot'
    <3>1. Conv[s] \in Convs /\ s # None
      OBVIOUS
    <3> QED BY <3>1, <2>1, <2>2
  <2>3. SnapshotOnce'
    BY <2>1 DEF SnapshotOnce
  <2> QED BY <2>1, <2>2, <2>3 DEF Removed, RemovedIsFinalized
<1>17. ASSUME NEW s \in Producers, FinalizeSnapshot(s) PROVE Removed'
  BY <1>17 DEF FinalizeSnapshot, finalize, TypeOK, Removed, RemovedIsFinalized, SnapshotOnce
<1>18. CASE UNCHANGED vars
  BY <1>18, QuietRemoved DEF vars
<1> QED
  BY <1>1, <1>2, <1>3, <1>4, <1>5, <1>6, <1>7, <1>8, <1>9, <1>10, <1>11, <1>12, <1>13, <1>14,
     <1>15, <1>16, <1>17, <1>18
     DEF Next, ProducerStep, ControlStep, ConsumerStep, StopStep, ShutdownStep

-----------------------------------------------------------------------------
(* The invariant and what follows from it *)

\* The inductive invariant holds initially.
LEMMA InvInit == Init => Inv
<1> SUFFICES ASSUME Init PROVE Inv
  OBVIOUS
<1>1. TypeOK
  BY TypeInit
<1>2. RingIsSuffix /\ ReplayExact /\ OffsetsFollow
  BY ConstantsAssumption DEF Init, RingIsSuffix, ReplayExact, OffsetsFollow, logical_end, Requests
<1>3. RemovedIsFinalized /\ SnapshotOnce
  BY DEF Init, RemovedIsFinalized, SnapshotOnce, Requests
<1> QED BY <1>1, <1>2, <1>3 DEF Inv

\* Types, and what the place of each thread implies, in every reachable state.
THEOREM TypeCorrect == Spec => []TypeOK
BY TypeInit, TypeStep, PTL DEF Spec

\* The inductive invariant holds in every reachable state.
THEOREM InvCorrect == Spec => []Inv
<1>1. Inv /\ [Next]_vars => Inv'
  BY TypeStep, RingStep, ReplayStep, RemovedStep DEF Inv, Replay, Removed
<1> QED BY <1>1, InvInit, PTL DEF Spec

\* Whatever the sizes of the chunks and of the cap, the ring of an open session is the
\* unbroken end of its generation, and prefix_dropped counts what is gone.
THEOREM RingCorrect == Spec => []RingIsSuffix
<1>1. Inv => RingIsSuffix
  BY DEF Inv
<1> QED BY <1>1, InvCorrect, PTL

\* A GET never receives a byte twice, out of order or with a gap, whatever the writer,
\* stop requests, replacing requests, the GC and the shutdown do between its reads.
THEOREM ReplayCorrect == Spec => []ReplayExact
<1>1. Inv => ReplayExact
  BY DEF Inv
<1> QED BY <1>1, InvCorrect, PTL

\* No session is lost from the map without somebody who finalizes it.
THEOREM RemovedCorrect == Spec => []RemovedIsFinalized
<1>1. Inv => RemovedIsFinalized
  BY DEF Inv
<1> QED BY <1>1, InvCorrect, PTL

\* One conversation has at most one live session that nobody is about to end.
THEOREM OneLiveCorrect == Spec => []OneLiveSession
<1>1. Inv => OneLiveSession
  BY DEF Inv, RemovedIsFinalized, OneLiveSession
<1> QED BY <1>1, InvCorrect, PTL

-----------------------------------------------------------------------------
(* Who ends a session *)

OutcomeOK ==
    /\ \A x \in Requests : ~alive[x] => x \in MayLeave
    /\ \A p \in Producers :
          /\ outcome[p] = "rejected" => p \in MayFail
          /\ outcome[p] = "disconnected" => p \in MayLeave
          /\ pc[p] \in {"new", "cancel", "prefill", "streaming", "draining", "tee", "drain_write"}
                => outcome[p] = "none"
          /\ pc[p] = "evict" => Unstreamed(p)
          /\ pc[p] = "finalize" => outcome[p] = "none" \/ Unstreamed(p)

\* Who is about to finalize a session has cancelled it before, or evicts.
HeldOK ==
    \A x \in Requests :
        pc[x] = "finalize" =>
            cancelled[held[x]] \/ (x \in Producers /\ Unstreamed(x) /\ Conv[held[x]] = Conv[x])

\* Why a session is done.  Its own POST finalizes it when it evicts, before the response
\* is destroyed, and otherwise when the response is destroyed.
Excused(p) ==
    \/ cancelled[p] \/ server # "up" \/ MayBeEvicted(p)
    \/ pc[p] = "end" \/ (pc[p] = "destroy" /\ Unstreamed(p))

DoneOK == \A p \in Producers : done[p] => Excused(p)

Ends == OutcomeOK /\ HeldOK /\ DoneOK


\* What no step takes back: a cancellation, the shutdown, the end of a POST and its outcome.
LEMMA Monotone ==
    ASSUME TypeOK, OutcomeOK, [Next]_vars
    PROVE  /\ \A p \in Producers :
                 /\ cancelled[p] => cancelled'[p]
                 /\ pc[p] = "destroy" => pc'[p] \in {"destroy", "end"}
                 /\ pc[p] = "end" => pc'[p] = "end"
                 /\ outcome[p] # "none" => outcome'[p] = outcome[p]
           /\ server' = "up" => server = "up"
<1> DEFINE Kept == /\ \A p \in Producers :
                         /\ cancelled[p] => cancelled'[p]
                         /\ pc[p] = "destroy" => pc'[p] \in {"destroy", "end"}
                         /\ pc[p] = "end" => pc'[p] = "end"
                         /\ outcome[p] # "none" => outcome'[p] = outcome[p]
                   /\ server' = "up" => server = "up"
<1>0. Requests = Producers \cup Consumers \cup Stops
  BY DEF Requests
<1> USE DisjointAssumption DEF Goto, ringVars, producerVars, consumerVars, serverVars
<1>1. ASSUME NEW p \in Producers, SetReq(p) \/ Evict(p) \/ FirstResult(p) \/ PeerDropped(p) PROVE Kept
  BY <1>0, <1>1 DEF SetReq, Evict, FirstResult, PeerDropped, TypeOK
<1>2. ASSUME NEW p \in Producers, EndsUnstreamed(p) \/ StreamCancelled(p) \/ LastChunk(p) PROVE Kept
  <2>1. pc[p] \in {"prefill", "streaming", "draining"} /\ outcome[p] = "none"
    BY <1>0, <1>2 DEF EndsUnstreamed, StreamCancelled, LastChunk, OutcomeOK
  <2>2. /\ UNCHANGED <<cancelled, server>> /\ \A q \in Producers \ {p} : outcome'[q] = outcome[q]
        /\ \A q \in Producers \ {p} : pc'[q] = pc[q]
    BY <1>0, <1>2 DEF EndsUnstreamed, StreamCancelled, LastChunk, TypeOK
  <2> QED BY <2>1, <2>2
<1>3. ASSUME NEW p \in Producers, NextChunk(p) \/ Write(p) \/ Destroy(p) \/ Expire(p) PROVE Kept
  BY <1>0, <1>3 DEF NextChunk, Write, AfterWrite, Destroy, Expire, TypeOK
<1>4. ASSUME NEW x \in Producers \cup Stops, CancelHeld(x) PROVE Kept
  BY <1>0, <1>4 DEF CancelHeld, cancel, TypeOK
<1>5. ASSUME NEW x \in Producers \cup Stops, FinalizeHeld(x) PROVE Kept
  BY <1>0, <1>5 DEF FinalizeHeld, TypeOK
<1>6. ASSUME NEW c \in Consumers, Open(c) \/ CheckOffset(c) \/ ReadChunk(c) \/ ReadEnds(c) PROVE Kept
  BY <1>0, <1>6 DEF Open, CheckOffset, ReadChunk, ReadEnds, TypeOK
<1>7. ASSUME NEW d \in Stops, Delete(d) PROVE Kept
  BY <1>0, <1>7 DEF Delete, TypeOK
<1>8. ASSUME NEW x \in Requests, Leave(x) PROVE Kept
  BY <1>0, <1>8 DEF Leave
<1>9. ASSUME GcTick \/ LoopEnds \/ StopGc \/ HttpStop PROVE Kept
  BY <1>0, <1>9 DEF GcTick, LoopEnds, StopGc, HttpStop
<1>10. ASSUME NEW s \in Producers, FinalizeSnapshot(s) PROVE Kept
  BY <1>0, <1>10 DEF FinalizeSnapshot
<1>11. ASSUME UNCHANGED vars PROVE Kept
  BY <1>0, <1>11 DEF vars
<1> HIDE DEF Kept
<1>12. Kept
  <2>1. ASSUME NEW p \in Producers, SetReq(p) \/ ProducerStep(p) \/ Expire(p) PROVE Kept
    BY <2>1, <1>1, <1>2, <1>3, <1>4, <1>5 DEF ProducerStep, ControlStep
  <2>2. ASSUME NEW c \in Consumers, Open(c) \/ ConsumerStep(c) PROVE Kept
    BY <2>2, <1>6 DEF ConsumerStep
  <2>3. ASSUME NEW d \in Stops, Delete(d) \/ StopStep(d) PROVE Kept
    BY <2>3, <1>4, <1>5, <1>7 DEF StopStep
  <2>4. ASSUME ShutdownStep PROVE Kept
    BY <2>4, <1>9, <1>10 DEF ShutdownStep
  <2> QED BY <2>1, <2>2, <2>3, <2>4, <1>8, <1>9, <1>11 DEF Next
<1> QED BY <1>12 DEF Kept

\* So an excuse stays one.
LEMMA ExcusedStays ==
    ASSUME TypeOK, OutcomeOK, [Next]_vars, NEW p \in Producers
    PROVE  /\ Unstreamed(p) => Unstreamed(p)'
           /\ MayBeEvicted(p) => MayBeEvicted(p)'
           /\ Excused(p) => Excused(p)'
<1>1. \A q \in Producers : Unstreamed(q) => Unstreamed(q)'
  BY Monotone DEF Unstreamed
<1>2. MayBeEvicted(p) => MayBeEvicted(p)'
  BY <1>1, Monotone DEF MayBeEvicted
<1> QED BY <1>1, <1>2, Monotone DEF Excused

\* How a POST can end.
LEMMA OutcomeStep == TypeOK /\ OutcomeOK /\ [Next]_vars => OutcomeOK'
<1> SUFFICES ASSUME TypeOK, OutcomeOK, [Next]_vars PROVE OutcomeOK'
  OBVIOUS
<1> USE ConstantsAssumption, DisjointAssumption
    DEF Requests, Goto, ringVars, producerVars, consumerVars, serverVars
<1>1. ASSUME UNCHANGED <<alive, outcome>>, NEW p \in Producers, \A q \in Producers \ {p} : pc'[q] = pc[q],
             pc'[p] \in {"new", "cancel", "prefill", "streaming", "draining", "tee", "drain_write"}
                => outcome[p] = "none",
             pc'[p] = "evict" => Unstreamed(p),
             pc'[p] = "finalize" => outcome[p] = "none" \/ Unstreamed(p)
      PROVE  OutcomeOK'
  BY <1>1 DEF OutcomeOK, Unstreamed
<1>2. ASSUME UNCHANGED <<alive, outcome>>, \A q \in Producers : pc'[q] = pc[q] PROVE OutcomeOK'
  BY <1>2 DEF OutcomeOK, Unstreamed
<1>3. ASSUME NEW p \in Producers, SetReq(p) \/ FirstResult(p) \/ PeerDropped(p) \/ NextChunk(p) PROVE OutcomeOK'
  <2>1. outcome[p] = "none"
    BY <1>3 DEF SetReq, FirstResult, PeerDropped, NextChunk, OutcomeOK
  <2>2. UNCHANGED <<alive, outcome>> /\ \A q \in Producers \ {p} : pc'[q] = pc[q]
    BY <1>3 DEF SetReq, FirstResult, PeerDropped, NextChunk, TypeOK
  <2>3. pc'[p] # "evict"
    BY <1>3 DEF SetReq, FirstResult, PeerDropped, NextChunk, TypeOK
  <2> QED BY <1>1, <2>1, <2>2, <2>3
<1>4. ASSUME NEW p \in Producers, Evict(p) PROVE OutcomeOK'
  <2>1. /\ Unstreamed(p) /\ UNCHANGED <<alive, outcome>> /\ \A q \in Producers \ {p} : pc'[q] = pc[q]
        /\ pc'[p] \in {"destroy", "finalize"}
    BY <1>4 DEF Evict, OutcomeOK, TypeOK
  <2> QED BY <1>1, <2>1
<1>5. ASSUME NEW p \in Producers, Write(p) PROVE OutcomeOK'
  <2>1. /\ UNCHANGED <<alive, outcome>> /\ \A q \in Producers \ {p} : pc'[q] = pc[q]
        /\ \/ pc[p] \in {"tee", "drain_write"} /\ pc'[p] \in {"streaming", "draining"}
           \/ pc'[p] = "destroy"
    BY <1>5 DEF Write, AfterWrite, TypeOK
  <2>2. pc[p] \in {"tee", "drain_write"} => outcome[p] = "none"
    BY DEF OutcomeOK
  <2> QED BY <1>1, <2>1, <2>2
<1>6. ASSUME NEW p \in Producers, Destroy(p) PROVE OutcomeOK'
  <2>1. /\ UNCHANGED <<alive, outcome>> /\ \A q \in Producers \ {p} : pc'[q] = pc[q]
        /\ pc'[p] = "end"
    BY <1>6 DEF Destroy, TypeOK
  <2> QED BY <1>1, <2>1
<1>7. ASSUME NEW p \in Producers, EndsUnstreamed(p) PROVE OutcomeOK'
  <2>1. /\ alive' = alive /\ pc'[p] = "evict"
        /\ \A q \in Producers \ {p} : pc'[q] = pc[q] /\ outcome'[q] = outcome[q]
    BY <1>7 DEF EndsUnstreamed, TypeOK
  <2>2. \/ p \in MayFail /\ outcome'[p] = "rejected"
        \/ Mode[p] = "plain" /\ outcome'[p] = "finished"
        \/ ~alive[p] /\ outcome'[p] = "disconnected"
    BY <1>7 DEF EndsUnstreamed, TypeOK
  <2>3. ~alive[p] => p \in MayLeave
    BY DEF OutcomeOK
  <2> QED BY <2>1, <2>2, <2>3 DEF OutcomeOK, Unstreamed
<1>8. ASSUME NEW p \in Producers, StreamCancelled(p) \/ LastChunk(p) PROVE OutcomeOK'
  <2>1. /\ alive' = alive /\ pc'[p] \in {"destroy", "last_write"} /\ outcome'[p] \in {"cancelled", "finished"}
        /\ \A q \in Producers \ {p} : pc'[q] = pc[q] /\ outcome'[q] = outcome[q]
    BY <1>8 DEF StreamCancelled, LastChunk, TypeOK
  <2> QED BY <2>1 DEF OutcomeOK, Unstreamed
<1>9. ASSUME NEW x \in Producers \cup Stops, CancelHeld(x) PROVE OutcomeOK'
  <2>1. /\ UNCHANGED <<alive, outcome>> /\ pc[x] = "cancel" /\ pc'[x] = "finalize"
        /\ \A q \in Producers \ {x} : pc'[q] = pc[q]
    BY <1>9 DEF CancelHeld, TypeOK
  <2>2. CASE x \in Producers
    <3>1. outcome[x] = "none"
      BY <2>1, <2>2 DEF OutcomeOK
    <3> QED BY <1>1, <2>1, <2>2, <3>1
  <2>3. CASE x \in Stops
    BY <1>2, <2>1, <2>3
  <2> QED BY <2>2, <2>3
<1>10. ASSUME NEW x \in Producers \cup Stops, FinalizeHeld(x) PROVE OutcomeOK'
  <2>1. /\ UNCHANGED <<alive, outcome>> /\ pc'[x] = AfterFinalize(x)
        /\ \A q \in Producers \ {x} : pc'[q] = pc[q]
    BY <1>10 DEF FinalizeHeld, TypeOK
  <2>2. CASE x \in Producers
    <3>1. pc'[x] = IF outcome[x] = "none" THEN "prefill" ELSE "destroy"
      BY <2>1, <2>2 DEF AfterFinalize
    <3> QED BY <1>1, <2>1, <2>2, <3>1
  <2>3. CASE x \in Stops
    BY <1>2, <2>1, <2>3
  <2> QED BY <2>2, <2>3
<1>11. ASSUME NEW c \in Consumers, Open(c) \/ CheckOffset(c) \/ ReadChunk(c) \/ ReadEnds(c) PROVE OutcomeOK'
  <2>1. UNCHANGED <<alive, outcome>> /\ \A q \in Producers : pc'[q] = pc[q]
    BY <1>11 DEF Open, CheckOffset, ReadChunk, ReadEnds, TypeOK
  <2> QED BY <1>2, <2>1
<1>12. ASSUME NEW d \in Stops, Delete(d) PROVE OutcomeOK'
  <2>1. UNCHANGED <<alive, outcome>> /\ \A q \in Producers : pc'[q] = pc[q]
    BY <1>12 DEF Delete, TypeOK
  <2> QED BY <1>2, <2>1
<1>13. ASSUME NEW x \in Requests, Leave(x) PROVE OutcomeOK'
  <2>1. /\ UNCHANGED <<pc, outcome>> /\ x \in MayLeave /\ \A y \in Requests \ {x} : alive'[y] = alive[y]
    BY <1>13 DEF Leave, TypeOK
  <2> QED BY <2>1 DEF OutcomeOK, Unstreamed
<1>14. ASSUME NEW p \in Producers, Expire(p) \/ FinalizeSnapshot(p) PROVE OutcomeOK'
  BY <1>2, <1>14 DEF Expire, FinalizeSnapshot
<1>15. CASE GcTick \/ LoopEnds \/ StopGc \/ HttpStop
  BY <1>2, <1>15 DEF GcTick, LoopEnds, StopGc, HttpStop
<1>16. CASE UNCHANGED vars
  BY <1>2, <1>16 DEF vars
<1> QED
  BY <1>3, <1>4, <1>5, <1>6, <1>7, <1>8, <1>9, <1>10, <1>11, <1>12, <1>13, <1>14, <1>15, <1>16
     DEF Next, ProducerStep, ControlStep, ConsumerStep, StopStep, ShutdownStep

\* Who is about to finalize a session keeps its reason.
LEMMA HeldStep == TypeOK /\ OutcomeOK /\ HeldOK /\ [Next]_vars => HeldOK'
<1> SUFFICES ASSUME TypeOK, OutcomeOK, HeldOK, [Next]_vars PROVE HeldOK'
  OBVIOUS
<1>0. Requests = Producers \cup Consumers \cup Stops
  BY DEF Requests
<1> DEFINE Quiet(x) == pc'[x] = "finalize" => pc[x] = "finalize" /\ held'[x] = held[x]
           Reason(x) == pc'[x] = "finalize" =>
               \/ cancelled'[held'[x]]
               \/ x \in Producers /\ Unstreamed(x)' /\ Conv[held'[x]] = Conv[x]
<1>1. ASSUME NEW x \in Requests, Quiet(x) PROVE Reason(x)
  <2> SUFFICES ASSUME pc'[x] = "finalize" PROVE Reason(x)
    OBVIOUS
  <2>1. pc[x] = "finalize" /\ held'[x] = held[x]
    BY <1>1
  <2>2. held[x] \in Producers
    BY <2>1 DEF TypeOK
  <2>3. cancelled[held[x]] \/ (x \in Producers /\ Unstreamed(x) /\ Conv[held[x]] = Conv[x])
    BY <2>1 DEF HeldOK
  <2>4. CASE cancelled[held[x]]
    <3>1. cancelled'[held[x]]
      BY <2>2, <2>4, Monotone
    <3> QED BY <2>1, <3>1
  <2>5. CASE x \in Producers /\ Unstreamed(x) /\ Conv[held[x]] = Conv[x]
    <3>1. Unstreamed(x)'
      BY <2>5, ExcusedStays
    <3> QED BY <2>1, <2>5, <3>1
  <2> QED BY <2>3, <2>4, <2>5
<1>2. ASSUME \A x \in Requests : Reason(x) PROVE HeldOK'
  BY <1>2 DEF HeldOK
<1> HIDE DEF Reason
<1>3. ASSUME \A x \in Requests : Quiet(x) PROVE HeldOK'
  BY <1>1, <1>2, <1>3
<1>4. ASSUME NEW x \in Producers \cup Stops, CancelHeld(x) PROVE HeldOK'
  <2>1. held' = held /\ held[x] \in Producers /\ cancelled' = [cancelled EXCEPT ![held[x]] = TRUE]
    BY <1>0, <1>4 DEF CancelHeld, cancel, TypeOK
  <2>2. \A y \in Requests \ {x} : pc'[y] = pc[y]
    BY <1>0, <1>4 DEF CancelHeld, Goto, TypeOK
  <2>3. Reason(x)
    <3>1. cancelled'[held[x]]
      BY <2>1 DEF TypeOK
    <3> QED BY <2>1, <3>1 DEF Reason
  <2>4. \A y \in Requests \ {x} : Quiet(y)
    BY <2>1, <2>2
  <2> HIDE DEF Quiet
  <2> QED BY <1>1, <1>2, <2>3, <2>4
<1>5. ASSUME NEW p \in Producers, Evict(p) PROVE HeldOK'
  <2>1. \A y \in Requests \ {p} : pc'[y] = pc[y] /\ held'[y] = held[y]
    BY <1>0, <1>5 DEF Evict, Goto, TypeOK
  <2>2. Reason(p)
    <3>1. Conv[p] \in Convs
      BY <1>0, ConstantsAssumption
    <3>2. /\ held'[p] = sessions[Conv[p]]
          /\ pc'[p] = IF sessions[Conv[p]] = None THEN "destroy" ELSE "finalize"
      BY <1>0, <1>5 DEF Evict, Goto, TypeOK
    <3>3. sessions[Conv[p]] # None => Conv[sessions[Conv[p]]] = Conv[p]
      BY <3>1 DEF TypeOK
    <3>4. Unstreamed(p)
      BY <1>5 DEF Evict, OutcomeOK
    <3>5. Unstreamed(p)'
      BY <3>4, ExcusedStays
    <3> QED BY <3>2, <3>3, <3>5 DEF Reason
  <2>3. \A y \in Requests \ {p} : Quiet(y)
    BY <2>1
  <2> HIDE DEF Quiet
  <2> QED BY <1>1, <1>2, <2>2, <2>3
<1> DEFINE AllQuiet == \A x \in Requests : Quiet(x)
<1> USE DEF Goto, ringVars, producerVars, consumerVars, serverVars
<1>6. ASSUME NEW p \in Producers, SetReq(p) PROVE AllQuiet
  BY <1>0, <1>6 DEF SetReq, TypeOK
<1>7. ASSUME NEW p \in Producers, EndsUnstreamed(p) \/ FirstResult(p) \/ PeerDropped(p) PROVE AllQuiet
  BY <1>0, <1>7 DEF EndsUnstreamed, FirstResult, PeerDropped, TypeOK
<1>8. ASSUME NEW p \in Producers, StreamCancelled(p) \/ NextChunk(p) \/ LastChunk(p) PROVE AllQuiet
  BY <1>0, <1>8 DEF StreamCancelled, NextChunk, LastChunk, TypeOK
<1>9. ASSUME NEW p \in Producers, Write(p) \/ Destroy(p) \/ Expire(p) PROVE AllQuiet
  BY <1>0, <1>9 DEF Write, AfterWrite, Destroy, Expire, TypeOK
<1>10. ASSUME NEW x \in Producers \cup Stops, FinalizeHeld(x) PROVE AllQuiet
  BY <1>0, <1>10 DEF FinalizeHeld, AfterFinalize, TypeOK
<1>11. ASSUME NEW c \in Consumers, Open(c) \/ CheckOffset(c) \/ ReadChunk(c) \/ ReadEnds(c) PROVE AllQuiet
  BY <1>0, <1>11 DEF Open, CheckOffset, ReadChunk, ReadEnds, TypeOK
<1>12. ASSUME NEW d \in Stops, Delete(d) PROVE AllQuiet
  BY <1>0, <1>12 DEF Delete, TypeOK
<1>13. ASSUME NEW x \in Requests, Leave(x) PROVE AllQuiet
  BY <1>13 DEF Leave
<1>14. ASSUME NEW s \in Producers, FinalizeSnapshot(s) PROVE AllQuiet
  BY <1>14 DEF FinalizeSnapshot
<1>15. CASE GcTick \/ LoopEnds \/ StopGc \/ HttpStop
  <2>1. AllQuiet
    BY <1>15 DEF GcTick, LoopEnds, StopGc, HttpStop
  <2> QED BY <1>3, <2>1
<1>16. CASE UNCHANGED vars
  <2>1. AllQuiet
    BY <1>16 DEF vars
  <2> QED BY <1>3, <2>1
<1>17. AllQuiet => HeldOK'
  BY <1>3
<1> HIDE DEF AllQuiet
<1>18. ASSUME NEW p \in Producers, SetReq(p) \/ ProducerStep(p) \/ Expire(p) PROVE HeldOK'
  BY <1>18, <1>4, <1>5, <1>6, <1>7, <1>8, <1>9, <1>10, <1>17 DEF ProducerStep, ControlStep
<1>19. ASSUME NEW c \in Consumers, Open(c) \/ ConsumerStep(c) PROVE HeldOK'
  BY <1>19, <1>11, <1>17 DEF ConsumerStep
<1>20. ASSUME NEW d \in Stops, Delete(d) \/ StopStep(d) PROVE HeldOK'
  BY <1>20, <1>4, <1>10, <1>12, <1>17 DEF StopStep
<1>21. ASSUME ShutdownStep PROVE HeldOK'
  BY <1>21, <1>14, <1>15, <1>17 DEF ShutdownStep
<1> QED BY <1>18, <1>19, <1>20, <1>21, <1>13, <1>15, <1>16, <1>17 DEF Next

\* Three steps finalize a session.
LEMMA OnlyFinalize ==
    ASSUME TypeOK, [Next]_vars
    PROVE  \/ \A p \in Producers : done'[p] = done[p]
           \/ \E x \in Producers \cup Stops : FinalizeHeld(x)
           \/ \E p \in Producers : Destroy(p) \/ FinalizeSnapshot(p)
<1> DEFINE Frame == done' = done
<1> USE DEF ringVars, producerVars, consumerVars, serverVars
<1>1. ASSUME NEW p \in Producers, SetReq(p) \/ Expire(p) \/ Write(p) PROVE Frame
  BY <1>1 DEF SetReq, Expire, Write
<1>2. ASSUME NEW x \in Requests, Leave(x) PROVE Frame
  BY <1>2 DEF Leave
<1>3. ASSUME NEW x \in Producers \cup Stops, CancelHeld(x) PROVE Frame
  BY <1>3 DEF CancelHeld
<1>4. ASSUME NEW p \in Producers, EndsUnstreamed(p) \/ Evict(p) \/ FirstResult(p) \/ PeerDropped(p)
      PROVE  Frame
  BY <1>4 DEF EndsUnstreamed, Evict, FirstResult, PeerDropped
<1>5. ASSUME NEW p \in Producers, StreamCancelled(p) \/ NextChunk(p) \/ LastChunk(p) PROVE Frame
  BY <1>5 DEF StreamCancelled, NextChunk, LastChunk
<1>6. ASSUME NEW c \in Consumers, Open(c) \/ ConsumerStep(c) PROVE Frame
  BY <1>6 DEF ConsumerStep, Open, CheckOffset, ReadChunk, ReadEnds
<1>7. ASSUME NEW d \in Stops, Delete(d) PROVE Frame
  BY <1>7 DEF Delete
<1>8. ASSUME GcTick \/ LoopEnds \/ StopGc \/ HttpStop PROVE Frame
  BY <1>8 DEF GcTick, LoopEnds, StopGc, HttpStop
<1>9. ASSUME UNCHANGED vars PROVE Frame
  BY <1>9 DEF vars
<1>10. Frame => \A p \in Producers : done'[p] = done[p]
  OBVIOUS
<1> HIDE DEF Frame
<1>11. ASSUME NEW p \in Producers, SetReq(p) \/ ProducerStep(p) \/ Expire(p)
       PROVE  Frame \/ FinalizeHeld(p) \/ Destroy(p)
  BY <1>11, <1>1, <1>3, <1>4, <1>5 DEF ProducerStep, ControlStep
<1>12. ASSUME NEW d \in Stops, Delete(d) \/ StopStep(d) PROVE Frame \/ FinalizeHeld(d)
  BY <1>12, <1>3, <1>7 DEF StopStep
<1>13. ASSUME ShutdownStep PROVE Frame \/ \E s \in Producers : FinalizeSnapshot(s)
  BY <1>13, <1>8 DEF ShutdownStep
<1> QED BY <1>2, <1>6, <1>8, <1>9, <1>10, <1>11, <1>12, <1>13, ZenonT(60) DEF Next

\* A session is finalized for one of the reasons of Excused, which stays one.
LEMMA DoneStep == TypeOK /\ Ends /\ [Next]_vars => DoneOK'
<1> SUFFICES ASSUME TypeOK, OutcomeOK, HeldOK, DoneOK, [Next]_vars, NEW p \in Producers, done'[p]
             PROVE  Excused(p)'
  BY DEF Ends, DoneOK
<1>0. Requests = Producers \cup Consumers \cup Stops
  BY DEF Requests
<1>1. CASE done[p]
  BY <1>1, ExcusedStays DEF DoneOK
<1>2. ASSUME NEW x \in Producers \cup Stops, FinalizeHeld(x), ~done[p] PROVE Excused(p)'
  <2>1. held[x] = p /\ pc[x] = "finalize"
    BY <1>0, <1>2 DEF FinalizeHeld, finalize, TypeOK
  <2>2. cancelled[p] \/ (x \in Producers /\ Unstreamed(x) /\ Conv[p] = Conv[x])
    BY <1>0, <2>1 DEF HeldOK
  <2>3. CASE cancelled[p]
    BY <2>3, ExcusedStays DEF Excused
  <2>4. CASE x \in Producers /\ x # p /\ Unstreamed(x) /\ Conv[p] = Conv[x]
    <3>1. outcome[x] # "none"
      BY <2>4 DEF Unstreamed
    <3>2. pc'[x] = "destroy"
      BY <1>0, <1>2, <2>4, <3>1 DEF FinalizeHeld, AfterFinalize, Goto, TypeOK
    <3>3. Unstreamed(x)'
      BY <2>4, ExcusedStays
    <3> QED BY <2>4, <3>2, <3>3 DEF Excused, MayBeEvicted
  <2>5. CASE x = p /\ Unstreamed(p)
    <3>1. outcome[p] # "none"
      BY <2>5 DEF Unstreamed
    <3>2. pc'[p] = "destroy"
      BY <1>0, <1>2, <2>5, <3>1 DEF FinalizeHeld, AfterFinalize, Goto, TypeOK
    <3>3. Unstreamed(p)'
      BY <2>5, ExcusedStays
    <3> QED BY <3>2, <3>3 DEF Excused
  <2> QED BY <2>2, <2>3, <2>4, <2>5
<1>3. ASSUME NEW q \in Producers, Destroy(q), ~done[p] PROVE Excused(p)'
  <2>1. q = p
    BY <1>3 DEF Destroy, finalize, TypeOK
  <2>2. pc'[p] = "end"
    BY <1>0, <1>3, <2>1 DEF Destroy, Goto, TypeOK
  <2> QED BY <2>2 DEF Excused
<1>4. ASSUME NEW q \in Producers, FinalizeSnapshot(q) PROVE Excused(p)'
  BY <1>4 DEF FinalizeSnapshot, Excused
<1>5. CASE \A q \in Producers : done'[q] = done[q]
  <2>1. done[p]
    BY <1>5
  <2> QED BY <1>1, <2>1
<1> QED BY <1>1, <1>2, <1>3, <1>4, <1>5, OnlyFinalize

\* Nothing has ended at the start.
LEMMA EndsInit == Init => Ends
<1> SUFFICES ASSUME Init PROVE Ends
  OBVIOUS
<1>1. OutcomeOK
  BY DEF Init, OutcomeOK, Requests
<1>2. HeldOK
  BY DEF Init, HeldOK, Requests
<1>3. DoneOK
  BY DEF Init, DoneOK
<1> QED BY <1>1, <1>2, <1>3 DEF Ends

\* Every session that is done has been cancelled, shut down, evicted by another POST of
\* its conversation that ended before its stream, or ended by its own POST.
THEOREM EndsCorrect == Spec => []Ends
<1>1. TypeOK /\ Ends /\ [Next]_vars => Ends'
  BY OutcomeStep, HeldStep, DoneStep DEF Ends
<1> QED BY <1>1, EndsInit, TypeCorrect, PTL DEF Spec

\* A session is finalized under a running generation only after a stop, a replacing POST or
\* a shutdown, or by another POST of the conversation that ended before its stream.
THEOREM ResumableCorrect == Spec => []RunningIsResumable
<1>1. Ends => RunningIsResumable
  BY DEF Ends, DoneOK, Excused, RunningIsResumable
<1> QED BY <1>1, EndsCorrect, PTL

\* Otherwise the ring holds the end of the generation, whenever the client left.
THEOREM TailCorrect == Spec => []TailKept
<1>1. Inv /\ Ends => TailKept
  <2> SUFFICES ASSUME Inv, Ends, NEW p \in Producers, pc[p] = "destroy", outcome[p] = "finished",
                      Mode[p] = "stream"
               PROVE  logical_end(p) = produced[p] \/ cancelled[p] \/ server # "up" \/ MayBeEvicted(p)
    BY DEF TailKept
  <2>1. ~Unstreamed(p)
    BY DEF Unstreamed
  <2>2. CASE done[p]
    BY <2>1, <2>2 DEF Ends, DoneOK, Excused
  <2>3. CASE ~done[p]
    BY <2>3 DEF Inv, RingIsSuffix
  <2> QED BY <2>2, <2>3
<1> QED BY <1>1, EndsCorrect, InvCorrect, PTL

-----------------------------------------------------------------------------
(* Why a replay ends *)

\* A replay that ended although its client stayed has read a finished session to its end,
\* or was overtaken by the ring.
Drained ==
    \A c \in Consumers :
        pc[c] = "end" /\ alive[c] =>
            /\ source[c] \in Producers
            /\ \/ done[source[c]] /\ offset[c] >= logical_end(source[c])
               \/ offset[c] < prefix_dropped[source[c]]

\* What a thread of a POST or of a DELETE, the GC and the shutdown leave alone of a GET.
LEMMA ConsumerFrame ==
    ASSUME TypeOK, [Next]_vars
    PROVE  \A c \in Consumers :
              \/ Open(c) \/ CheckOffset(c) \/ ReadChunk(c) \/ ReadEnds(c)
              \/ /\ pc'[c] = pc[c] /\ source'[c] = source[c] /\ offset'[c] = offset[c]
                 /\ alive'[c] => alive[c]
<1> SUFFICES ASSUME NEW c \in Consumers
             PROVE  \/ Open(c) \/ CheckOffset(c) \/ ReadChunk(c) \/ ReadEnds(c)
                    \/ /\ pc'[c] = pc[c] /\ source'[c] = source[c] /\ offset'[c] = offset[c]
                       /\ alive'[c] => alive[c]
  OBVIOUS
<1> DEFINE Frame == /\ pc'[c] = pc[c] /\ source'[c] = source[c] /\ offset'[c] = offset[c]
                    /\ alive'[c] => alive[c]
<1>0. Requests = Producers \cup Consumers \cup Stops
  BY DEF Requests
<1> USE DisjointAssumption DEF ringVars, producerVars, consumerVars, serverVars, Goto
<1>1. ASSUME NEW p \in Producers, SetReq(p) \/ Expire(p) \/ Write(p) PROVE Frame
  BY <1>0, <1>1 DEF SetReq, Expire, Write, TypeOK
<1>2. ASSUME NEW x \in Requests, Leave(x) PROVE Frame
  BY <1>0, <1>2 DEF Leave, TypeOK
<1>3. ASSUME NEW x \in Producers \cup Stops, CancelHeld(x) \/ FinalizeHeld(x) PROVE Frame
  BY <1>0, <1>3 DEF FinalizeHeld, CancelHeld, TypeOK
<1>4. ASSUME NEW p \in Producers, EndsUnstreamed(p) \/ Evict(p) \/ FirstResult(p) \/ PeerDropped(p)
      PROVE  Frame
  BY <1>0, <1>4 DEF EndsUnstreamed, Evict, FirstResult, PeerDropped, TypeOK
<1>5. ASSUME NEW p \in Producers, StreamCancelled(p) \/ NextChunk(p) \/ LastChunk(p) \/ Destroy(p)
      PROVE  Frame
  BY <1>0, <1>5 DEF StreamCancelled, NextChunk, LastChunk, Destroy, TypeOK
<1>6. ASSUME NEW d \in Stops, Delete(d) PROVE Frame
  BY <1>0, <1>6 DEF Delete, TypeOK
<1>7. ASSUME GcTick \/ LoopEnds \/ StopGc \/ HttpStop PROVE Frame
  BY <1>7 DEF GcTick, LoopEnds, StopGc, HttpStop
<1>8. ASSUME NEW s \in Producers, FinalizeSnapshot(s) PROVE Frame
  BY <1>8 DEF FinalizeSnapshot
<1>9. ASSUME UNCHANGED vars PROVE Frame
  BY <1>9 DEF vars
<1>10. ASSUME NEW d \in Consumers, d # c, Open(d) \/ CheckOffset(d) \/ ReadChunk(d) \/ ReadEnds(d)
       PROVE  Frame
  BY <1>0, <1>10 DEF Open, CheckOffset, ReadChunk, ReadEnds, TypeOK
<1> HIDE DEF Frame
<1>11. ASSUME NEW p \in Producers, SetReq(p) \/ ProducerStep(p) \/ Expire(p) PROVE Frame
  BY <1>11, <1>1, <1>3, <1>4, <1>5 DEF ProducerStep, ControlStep
<1>12. ASSUME NEW d \in Stops, Delete(d) \/ StopStep(d) PROVE Frame
  BY <1>12, <1>3, <1>6 DEF StopStep
<1>13. ASSUME ShutdownStep PROVE Frame
  BY <1>13, <1>7, <1>8 DEF ShutdownStep
<1>14. ASSUME NEW d \in Consumers, Open(d) \/ ConsumerStep(d)
       PROVE  Open(c) \/ CheckOffset(c) \/ ReadChunk(c) \/ ReadEnds(c) \/ Frame
  BY <1>14, <1>10 DEF ConsumerStep
<1>15. Open(c) \/ CheckOffset(c) \/ ReadChunk(c) \/ ReadEnds(c) \/ Frame
  BY <1>2, <1>7, <1>9, <1>11, <1>12, <1>13, <1>14 DEF Next
<1> QED BY <1>15 DEF Frame

\* No session is reopened, and nothing enters a session that is done.
LEMMA DoneIsFinal ==
    ASSUME TypeOK, [Next]_vars, NEW p \in Producers, done[p]
    PROVE  done'[p] /\ logical_end(p)' = logical_end(p)
<1>1. ASSUME NEW q \in Producers, Write(q)
      PROVE  done'[p] /\ buffer'[p] = buffer[p] /\ prefix_dropped'[p] = prefix_dropped[p]
  <2> DEFINE data == Chunk(produced[q], chunk[q])
  <2>1. data \in Seq(Nat)
    <3>1. produced[q] \in Nat /\ chunk[q] \in Nat
      BY DEF TypeOK
    <3> QED BY <3>1, ChunkFacts
  <2>2. append(q, data) /\ done' = done
    BY <1>1 DEF Write
  <2> HIDE DEF data
  <2>3. /\ \A t \in Producers : t # q => buffer'[t] = buffer[t] /\ prefix_dropped'[t] = prefix_dropped[t]
        /\ done[q] => buffer'[q] = buffer[q] /\ prefix_dropped'[q] = prefix_dropped[q]
    BY <2>1, <2>2, AppendFacts, ZenonT(60) DEF TypeOK
  <2> QED BY <2>2, <2>3
<1>2. CASE /\ UNCHANGED <<buffer, prefix_dropped, produced>>
           /\ \A q \in Producers : done[q] => done'[q]
  BY <1>2 DEF logical_end
<1>3. ASSUME NEW q \in Producers, Write(q) PROVE done'[p] /\ logical_end(p)' = logical_end(p)
  BY <1>1, <1>3 DEF logical_end
<1> QED BY <1>2, <1>3, OnlyWrite

\* The start of a ring only moves forward.
LEMMA PrefixGrows ==
    ASSUME TypeOK, [Next]_vars, NEW p \in Producers
    PROVE  prefix_dropped'[p] >= prefix_dropped[p]
<1>0. prefix_dropped[p] \in Nat
  BY DEF TypeOK
<1>1. ASSUME NEW q \in Producers, Write(q) PROVE prefix_dropped'[p] >= prefix_dropped[p]
  <2> DEFINE data == Chunk(produced[q], chunk[q])
  <2>1. data \in Seq(Nat)
    <3>1. produced[q] \in Nat /\ chunk[q] \in Nat
      BY DEF TypeOK
    <3> QED BY <3>1, ChunkFacts
  <2>2. append(q, data)
    BY <1>1 DEF Write
  <2> HIDE DEF data
  <2>3. Len(data) \in Nat /\ Len(buffer[q]) \in Nat /\ CapBytes \in Nat
        /\ buffer[q] \in Seq(Nat) /\ prefix_dropped[q] \in Nat
    BY <2>1, ConstantsAssumption DEF TypeOK
  <2>4. \/ prefix_dropped' = prefix_dropped
        \/ \E n \in Nat : prefix_dropped' = [prefix_dropped EXCEPT ![q] = prefix_dropped[q] + n]
    <3> DEFINE skip == Len(buffer[q]) + (Len(data) - CapBytes)
               needed == Len(buffer[q]) + Len(data)
               to_drop == IF needed > CapBytes THEN needed - CapBytes ELSE 0
    <3>1. CASE Len(data) = 0 \/ done[q]
      BY <2>2, <3>1 DEF append
    <3>2. CASE ~(Len(data) = 0 \/ done[q]) /\ Len(data) >= CapBytes
      <4> DEFINE total == prefix_dropped[q] + Len(buffer[q]) + (Len(data) - CapBytes)
      <4>1. total = prefix_dropped[q] + skip /\ skip \in Nat
        BY <2>3, <3>2
      <4>2. prefix_dropped' = [prefix_dropped EXCEPT ![q] = total]
        BY <2>2, <3>2, Zenon DEF append
      <4> HIDE DEF skip, total
      <4> QED BY <4>1, <4>2
    <3>3. CASE ~(Len(data) = 0 \/ done[q]) /\ ~(Len(data) >= CapBytes)
      <4>1. to_drop \in Nat
        BY <2>3, <3>3
      <4>2. prefix_dropped' = [prefix_dropped EXCEPT ![q] = prefix_dropped[q] + to_drop]
        BY <2>2, <3>3, Zenon DEF append
      <4> HIDE DEF to_drop
      <4> QED BY <4>1, <4>2
    <3> QED BY <3>1, <3>2, <3>3
  <2>5. CASE prefix_dropped' = prefix_dropped
    BY <1>0, <2>5
  <2>6. ASSUME NEW n \in Nat, prefix_dropped' = [prefix_dropped EXCEPT ![q] = prefix_dropped[q] + n]
        PROVE  prefix_dropped'[p] >= prefix_dropped[p]
    <3>1. prefix_dropped \in [Producers -> Nat]
      BY DEF TypeOK
    <3> QED BY <1>0, <2>6, <3>1
  <2> QED BY <2>4, <2>5, <2>6
<1>2. CASE UNCHANGED <<buffer, prefix_dropped, produced>>
  BY <1>0, <1>2
<1> QED BY <1>1, <1>2, OnlyWrite

\* A replay ends by itself only at the end of a finished session or behind the ring's start.
LEMMA DrainedStep ==
    ASSUME TypeOK, Drained, [Next]_vars
    PROVE  Drained'
<1> SUFFICES ASSUME NEW c \in Consumers, pc'[c] = "end", alive'[c]
             PROVE  \E s \in Producers :
                       /\ source'[c] = s
                       /\ \/ done'[s] /\ offset'[c] >= prefix_dropped'[s] + Len(buffer'[s])
                          \/ offset'[c] < prefix_dropped'[s]
  BY DEF Drained, logical_end
<1>0. c \in Requests
  BY DEF Requests
<1> USE DEF Goto, ringVars, producerVars, consumerVars, serverVars
<1>1. CASE /\ pc'[c] = pc[c] /\ source'[c] = source[c] /\ offset'[c] = offset[c]
           /\ alive'[c] => alive[c]
  <2>1. /\ source[c] \in Producers
        /\ (done[source[c]] /\ offset[c] >= logical_end(source[c])) \/ offset[c] < prefix_dropped[source[c]]
    BY <1>1 DEF Drained
  <2>2. PICK s \in Producers : s = source[c]
    BY <2>1
  <2>3. CASE done[s] /\ offset[c] >= logical_end(s)
    <3>1. done'[s] /\ logical_end(s)' = logical_end(s)
      BY <2>3, DoneIsFinal
    <3> QED BY <1>1, <2>2, <2>3, <3>1 DEF logical_end
  <2>4. CASE offset[c] < prefix_dropped[s]
    <3>1. prefix_dropped[s] \in Nat /\ prefix_dropped'[s] \in Nat /\ offset[c] \in Nat
      BY TypeStep DEF TypeOK
    <3>2. offset[c] < prefix_dropped'[s]
      BY <2>4, <3>1, PrefixGrows
    <3> QED BY <1>1, <2>2, <3>2
  <2> QED BY <2>1, <2>2, <2>3, <2>4
<1>2. CASE ReadEnds(c)
  <2>1. /\ pc[c] = "reading" /\ alive' = alive /\ source' = source /\ offset' = offset
        /\ buffer' = buffer /\ prefix_dropped' = prefix_dropped /\ done' = done
    BY <1>2 DEF ReadEnds
  <2>2. source[c] \in Producers
    BY <1>0, <2>1 DEF TypeOK
  <2>3. (offset[c] >= logical_end(source[c]) /\ done[source[c]]) \/ offset[c] < prefix_dropped[source[c]]
    BY <1>2, <2>1 DEF ReadEnds
  <2> QED BY <2>1, <2>2, <2>3 DEF logical_end
<1>3. CASE Open(c)
  BY <1>0, <1>3 DEF Open, TypeOK
<1>4. CASE CheckOffset(c)
  BY <1>0, <1>4 DEF CheckOffset, TypeOK
<1>5. CASE ReadChunk(c)
  BY <1>0, <1>5 DEF ReadChunk
<1> QED BY <1>1, <1>2, <1>3, <1>4, <1>5, ConsumerFrame

\* A replay whose client stayed ends only at the end of a finished session, or because the
\* ring dropped the bytes it was to read next.
THEOREM ShortCorrect == Spec => []ShortOnlyIfLost
<1>1. Init => Drained
  BY DEF Init, Drained, Requests
<1>2. TypeOK /\ Drained /\ [Next]_vars => Drained'
  BY DrainedStep
<1>3. Drained => ShortOnlyIfLost
  BY DEF Drained, ShortOnlyIfLost
<1> QED BY <1>1, <1>2, <1>3, TypeCorrect, PTL DEF Spec
=============================================================================
