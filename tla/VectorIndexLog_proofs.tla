------------------------ MODULE VectorIndexLog_proofs ------------------------
(***************************************************************************)
(* Proofs about the persistence of the vector index, for any set of entries, *)
(* any number of handles, records and mishaps.                               *)
(*                                                                         *)
(* Either snapshot and log fit together (Sound), or a power loss has left a   *)
(* pair that does not fit, which nobody can change any more (Unusable).       *)
(***************************************************************************)
EXTENDS VectorIndexLog, FiniteSetTheorems, TLAPS

\* A record that applies to state s and leads to the state it carries
GoodRecord(s, r) ==
    /\ r.op \in {"add", "remove"} /\ r.items # {}
    /\ r.op = "remove" => Cardinality(r.items) = 1
    /\ Applicable(s, r) /\ r.state = Outcome(s, r)

Chain(l) ==
    /\ WellFormed(l)
    /\ \A j \in 1..Len(l.recs) : GoodRecord(StateAt(l, j - 1), l.recs[j])

\* State s is on the way of log l
Fits(s, l) == l.base = NoState \/ \E i \in 0..Len(l.recs) : StateAt(l, i) = s

Expected == {acked} \cup doubt

\* Handles that may mutate, and the snapshots a recovery may start from
Usable(w) == index[w] # NoState /\ ~reload_required[w]
Held == {index[w] : w \in {v \in Writers : Usable(v)}}
Known == {snap} \cup (IF rebased THEN {} ELSE snap_disk)

\* Once a header is written it fixes the state; until then all must agree on the snapshot.
Agrees(s, l) == IF l.base = NoState THEN s = snap ELSE Fits(s, l)

\* What holds of the log that processes see, and of one that is taken back to
Current(l) ==
    /\ Chain(l)
    /\ Recovered(snap, l) \in Expected
    /\ \A s \in {snap} \cup Known \cup Held : Agrees(s, l)

\* What holds of a log that a power loss may leave
Left(l) ==
    /\ Chain(l)
    /\ \A s \in Known : Recovered(s, l) \in Expected
    /\ ~adopted => \A s \in Known \cup Held : Fits(s, l)

\* No other handle is open
Sole(w) == \A v \in Writers \ {w} : index[v] = NoState

UpToDate(l) == l.base # NoState => LastState(l) = index[caller]

CompactPcs == {"snapshot", "snapdir", "empty", "header", "headersync", "headerdir"}

\* The call in progress: its handle and what it is about
CallerOK ==
    /\ Usable(caller) /\ index[caller] \in Expected /\ record.state \in Expected
    /\ IF record.op = "compact" THEN record.state = index[caller] /\ Sole(caller)
                                ELSE GoodRecord(index[caller], record)
    /\ pc # "heal" => (record.op = "compact" <=> pc \in CompactPcs)

\* Appending: the log as it was, and what has been written
AppendOK ==
    /\ pc \in {"heal", "rebase", "write"} => UpToDate(log)
    /\ pc = "heal" => log.base # NoState /\ (RebaseDue(caller, log) => Sole(caller))
    /\ pc = "rebase" => RebaseDue(caller, log) /\ Sole(caller)
    /\ pc = "write" => ~log.torn
    /\ pc \in {"sync", "logdir", "undo"} => Current(old) /\ UpToDate(old) /\ ~old.torn
    /\ pc \in {"sync", "logdir"} \/ (pc = "undo" /\ failed # "data") =>
          log = Appended(old, index[caller], record)
    /\ pc = "undo" => log \in CutShort(old, index[caller]) \cup {Appended(old, index[caller], record)}
    /\ pc = "logdir" \/ (pc = "undo" /\ failed # "data") => log_disk = {log}

\* Compacting: the snapshot is the handle's state, then durable, then the log is reset
CompactOK ==
    /\ pc \in {"snapshot", "snapdir", "empty"} => UpToDate(log)
    /\ pc \in CompactPcs \ {"snapshot"} => snap = record.state
    /\ pc \in CompactPcs \ {"snapshot", "snapdir"} => snap_disk = {snap}
    /\ pc = "header" => log = EmptyLog
    /\ pc \in {"headersync", "headerdir"} => log = NewLog(record.state)
    /\ pc = "headerdir" => log_disk = {log}

\* A pending rebase is for the snapshot
RebaseOK ==
    \A w \in Writers :
        /\ index[w] = NoState => rebase[w] = NoState
        /\ \/ rebase[w] \in {NoState, snap}
           \/ w = caller /\ pc \in CompactPcs \ {"snapshot"}

Sound ==
    /\ Current(log)
    /\ \A l \in LogAfterCrash : Left(l)
    /\ RebaseOK
    /\ pc # "idle" => CallerOK /\ AppendOK /\ CompactOK

Unusable ==
    /\ ~Fits(snap, log) /\ Chain(log)
    /\ pc = "idle" /\ snap_disk = {snap} /\ log_disk = {log} /\ log_entry
    /\ \A w \in Writers : index[w] \in {NoState, snap} /\ rebase[w] = NoState
    /\ adopted \/ rebased

\* A call in progress has an open handle.
Types == TypeOK /\ (pc # "idle" => index[caller] \in States)

Inv == Types /\ (Sound \/ Unusable)

\* The rule of docs/vector-index.md, "Use one evolving writer handle for a given snapshot
\* and delta path pair", as far as the theorems need it.
OneWriter == {"snapshot", "rebase"} \subseteq Alone

-----------------------------------------------------------------------------
(* Logs *)

\* NoState is not a state.
LEMMA StatesReal ==
    NoState \notin States
BY VectorAssumption DEF States

\* The fields of a log.
LEMMA LogFields ==
    ASSUME NEW l \in Logs
    PROVE  /\ l.base \in States \cup {NoState} /\ l.recs \in Seq(Records)
           /\ l.torn \in BOOLEAN /\ Len(l.recs) \in Nat
BY DEF Logs

\* The states of a chain are states.
LEMMA StateAtType ==
    ASSUME NEW l, WellFormed(l), l.base # NoState, NEW i \in 0..Len(l.recs)
    PROVE  StateAt(l, i) \in States
<1>1. l.recs \in Seq(Records) /\ l.base \in States
  BY LogFields DEF WellFormed
<1>2. CASE i = 0
  BY <1>1, <1>2 DEF StateAt
<1>3. CASE i # 0
  <2>1. i \in 1..Len(l.recs) /\ l.recs[i] \in Records
    BY <1>1, <1>3
  <2> QED
    BY <1>3, <2>1 DEF StateAt, Records
<1> QED
  BY <1>2, <1>3

LEMMA LastStateType ==
    ASSUME NEW l, WellFormed(l), l.base # NoState
    PROVE  LastState(l) \in States
<1>1. Len(l.recs) \in 0..Len(l.recs)
  BY LogFields DEF WellFormed
<1> QED
  BY <1>1, StateAtType DEF LastState

\* The torn tail of a log does not count.
LEMMA SameStates ==
    ASSUME NEW l, NEW m \in Logs, m.base = l.base, m.recs = l.recs
    PROVE  /\ WellFormed(l) => WellFormed(m)
           /\ Chain(l) => Chain(m)
           /\ LastState(m) = LastState(l)
           /\ \A s : /\ Fits(s, m) <=> Fits(s, l)
                     /\ Recovered(s, m) = Recovered(s, l)
                     /\ Agrees(s, m) <=> Agrees(s, l)
BY DEF WellFormed, Chain, StateAt, LastState, Fits, Recovered, Agrees

LEMMA HealedTorn ==
    ASSUME NEW l \in Logs
    PROVE  /\ Healed(l) \in Logs /\ Healed(l).base = l.base /\ Healed(l).recs = l.recs /\ ~Healed(l).torn
           /\ Torn(l) \in Logs /\ Torn(l).base = l.base /\ Torn(l).recs = l.recs /\ Torn(l).torn
BY DEF Healed, Torn, Logs

\* Logs without records.
LEMMA EmptyLogs ==
    ASSUME NEW l \in {EmptyLog, TornHeader}
    PROVE  /\ l.base = NoState /\ l.recs = <<>> /\ Chain(l)
           /\ \A s : Fits(s, l) /\ Recovered(s, l) = s /\ (Agrees(s, l) <=> s = snap)
<1>1. l.base = NoState /\ l.recs = <<>> /\ l \in Logs
  <2>1. CASE l = EmptyLog
    BY <2>1 DEF EmptyLog, Logs
  <2>2. CASE l = TornHeader
    BY <2>2 DEF TornHeader, Logs
  <2> QED
    BY <2>1, <2>2
<1>2. Chain(l)
  BY <1>1 DEF Chain, WellFormed
<1> QED
  BY <1>1, <1>2 DEF Fits, Recovered, Agrees

LEMMA NewLogs ==
    ASSUME NEW s \in States
    PROVE  /\ NewLog(s).base = s /\ NewLog(s).recs = <<>> /\ ~NewLog(s).torn /\ s # NoState
           /\ Chain(NewLog(s)) /\ LastState(NewLog(s)) = s
           /\ \A t : /\ Fits(t, NewLog(s)) <=> t = s
                     /\ Recovered(t, NewLog(s)) = s
                     /\ Agrees(t, NewLog(s)) <=> t = s
<1>0. s # NoState
  BY StatesReal
<1>1. NewLog(s).base = s /\ NewLog(s).recs = <<>> /\ ~NewLog(s).torn /\ NewLog(s) \in Logs
  BY DEF NewLog, EmptyLog, Logs
<1>2. Chain(NewLog(s))
  BY <1>0, <1>1 DEF Chain, WellFormed
<1>3. LastState(NewLog(s)) = s
  BY <1>1 DEF LastState, StateAt
<1>4. \A t : Fits(t, NewLog(s)) <=> t = s
  BY <1>0, <1>1 DEF Fits, StateAt
<1> QED
  BY <1>0, <1>1, <1>2, <1>3, <1>4 DEF Recovered, Agrees

\* A header is written if there is none.
LEMMA StartedLog ==
    ASSUME NEW l, Chain(l), NEW s \in States
    PROVE  /\ Started(l, s) = IF l.base = NoState THEN NewLog(s) ELSE l
           /\ Chain(Started(l, s)) /\ Started(l, s) \in Logs /\ Started(l, s).base # NoState
           /\ Started(l, s).torn => l.torn
           /\ Started(Started(l, s), s) = Started(l, s)
<1>1. l \in Logs /\ NewLog(s) \in Logs
  BY NewLogs DEF Chain, WellFormed
<1>2. CASE l.base = NoState
  BY <1>1, <1>2, NewLogs DEF Started
<1>3. CASE l.base # NoState
  BY <1>1, <1>3, NewLogs DEF Started
<1> QED
  BY <1>2, <1>3 DEF Started

\* One more record.
LEMMA AppendedLog ==
    ASSUME NEW l, Chain(l), l.base # NoState, NEW s,
           NEW r \in Records, GoodRecord(LastState(l), r)
    PROVE  /\ Chain(Appended(l, s, r)) /\ Appended(l, s, r).base = l.base
           /\ LastState(Appended(l, s, r)) = r.state
           /\ Appended(l, s, r).torn = l.torn
           /\ \A t : Fits(t, l) => Fits(t, Appended(l, s, r))
           /\ Fits(r.state, Appended(l, s, r))
<1> DEFINE m == Appended(l, s, r)
<1>1. l \in Logs /\ l.recs \in Seq(Records) /\ Len(l.recs) \in Nat
  BY LogFields DEF Chain, WellFormed
<1>2. m \in Logs /\ m.base = l.base /\ m.recs = Append(l.recs, r) /\ m.torn = l.torn
  BY <1>1 DEF Appended, Started, Logs
<1> HIDE DEF m
<1>3. Len(m.recs) = Len(l.recs) + 1 /\ m.recs[Len(l.recs) + 1] = r
  BY <1>1, <1>2
<1>4. \A i \in 1..Len(l.recs) : m.recs[i] = l.recs[i]
  BY <1>1, <1>2
<1>5. \A i \in 0..Len(l.recs) : StateAt(m, i) = StateAt(l, i)
  BY <1>1, <1>2, <1>4 DEF StateAt
<1>6. StateAt(m, Len(m.recs)) = r.state
  BY <1>1, <1>3 DEF StateAt
<1>7. ASSUME NEW j \in 1..Len(m.recs) PROVE GoodRecord(StateAt(m, j - 1), m.recs[j])
  <2>1. CASE j \in 1..Len(l.recs)
    <3>1. StateAt(m, j - 1) = StateAt(l, j - 1) /\ m.recs[j] = l.recs[j]
      BY <1>1, <1>4, <1>5, <2>1
    <3> QED
      BY <2>1, <3>1 DEF Chain
  <2>2. CASE j = Len(l.recs) + 1
    <3>1. StateAt(m, j - 1) = LastState(l) /\ m.recs[j] = r
      BY <1>1, <1>3, <1>5, <2>2 DEF LastState
    <3> QED
      BY <3>1
  <2> QED
    BY <1>1, <1>3, <1>7, <2>1, <2>2
<1>8. Chain(m)
  BY <1>2, <1>7 DEF Chain, WellFormed
<1>9. \A t : Fits(t, l) => Fits(t, m)
  BY <1>1, <1>2, <1>3, <1>5 DEF Fits
<1>10. Fits(r.state, m)
  BY <1>1, <1>3, <1>6 DEF Fits
<1> QED
  BY <1>2, <1>6, <1>8, <1>9, <1>10 DEF LastState, m

\* delta_state_transition_valid() accepts what a good record does.
LEMMA GoodTransition ==
    ASSUME NEW s \in States, NEW r \in Records, GoodRecord(s, r)
    PROVE  TransitionValid(s, r)
<1>1. /\ IsFiniteSet(s) /\ IsFiniteSet(r.items) /\ IsFiniteSet(r.state)
      /\ s \subseteq Items /\ r.items \subseteq Items
  BY FS_Subset, VectorAssumption DEF States, Records
<1>2. CASE r.op = "add"
  <2>1. r.items \cap s = {} /\ r.state = s \cup r.items /\ r.items # {}
    BY <1>2 DEF GoodRecord, Applicable, Outcome
  <2>2. r.state # s
    BY <2>1
  <2>3. Cardinality(s \cup r.items) = Cardinality(s) + Cardinality(r.items) - Cardinality(s \cap r.items)
    BY <1>1, FS_Union
  <2>4. Cardinality(s \cap r.items) = 0
    <3>1. s \cap r.items = {}
      BY <2>1
    <3> QED
      BY <3>1, FS_EmptySet
  <2>5. Cardinality(s) \in Nat /\ Cardinality(r.items) \in Nat
    BY <1>1, FS_CardinalityType
  <2>6. Cardinality(r.state) = Cardinality(s) + Cardinality(r.items)
    BY <2>1, <2>3, <2>4, <2>5
  <2> QED
    BY <1>2, <2>2, <2>6 DEF TransitionValid
<1>3. CASE r.op = "remove"
  <2>1. r.items \subseteq s /\ r.state = s \ r.items /\ r.items # {} /\ Cardinality(r.items) = 1
    BY <1>3 DEF GoodRecord, Applicable, Outcome
  <2>2. r.state # s
    BY <2>1
  <2>3. PICK x : r.items = {x}
    BY <1>1, <2>1, FS_Singleton
  <2>4. x \in s /\ r.state = s \ {x}
    BY <2>1, <2>3
  <2>5. Cardinality(s \ {x}) = Cardinality(s) - 1
    BY <1>1, <2>4, FS_RemoveElement
  <2>6. Cardinality(s) \in Nat
    BY <1>1, FS_CardinalityType
  <2>7. Cardinality(s) = Cardinality(r.state) + 1
    BY <2>4, <2>5, <2>6
  <2> QED
    BY <1>3, <2>1, <2>2, <2>7 DEF TransitionValid
<1> QED
  BY <1>2, <1>3 DEF GoodRecord

\* replay_delta_log() accepts a chain on a state that is on its way.
LEMMA ReplaysIsFits ==
    ASSUME NEW l, Chain(l), NEW s
    PROVE  Replays(s, l) <=> Fits(s, l)
<1>1. CASE l.base = NoState
  BY <1>1 DEF Replays, Fits
<1>2. CASE l.base # NoState
  <2>1. Replays(s, l) => Fits(s, l)
    BY <1>2 DEF Replays, Fits
  <2>2. ASSUME Fits(s, l) PROVE Replays(s, l)
    <3>1. \E i \in 0..Len(l.recs) : StateAt(l, i) = s
      BY <1>2, <2>2 DEF Fits
    <3>2. ASSUME NEW j \in 1..Len(l.recs)
          PROVE  /\ TransitionValid(StateAt(l, j - 1), l.recs[j])
                 /\ Applicable(StateAt(l, j - 1), l.recs[j])
                 /\ l.recs[j].state = Outcome(StateAt(l, j - 1), l.recs[j])
      <4>1. GoodRecord(StateAt(l, j - 1), l.recs[j])
        BY <3>2 DEF Chain
      <4>2. l.recs \in Seq(Records) /\ l.recs[j] \in Records /\ j - 1 \in 0..Len(l.recs)
        BY <3>2, LogFields DEF Chain, WellFormed
      <4>3. StateAt(l, j - 1) \in States
        BY <1>2, <4>2, StateAtType DEF Chain
      <4>4. TransitionValid(StateAt(l, j - 1), l.recs[j])
        BY <4>1, <4>2, <4>3, GoodTransition
      <4> QED
        BY <4>1, <4>4 DEF GoodRecord
    <3> QED
      BY <3>1, <3>2 DEF Replays
  <2> QED
    BY <2>1, <2>2
<1> QED
  BY <1>1, <1>2

-----------------------------------------------------------------------------
(* Types *)

\* Every log the calls write is well formed.
LEMMA WellFormedLogs ==
    /\ WellFormed(EmptyLog) /\ WellFormed(TornHeader)
    /\ \A s \in States : WellFormed(NewLog(s))
    /\ \A l : WellFormed(l) =>
          /\ WellFormed(Healed(l))
          /\ \A s \in States :
                /\ \A m \in CutShort(l, s) : WellFormed(m)
                /\ \A r \in Records : WellFormed(Appended(l, s, r))
<1>1. WellFormed(EmptyLog) /\ WellFormed(TornHeader)
  BY EmptyLogs DEF Chain
<1>2. \A s \in States : WellFormed(NewLog(s))
  BY NewLogs DEF Chain
<1>3. ASSUME NEW l, WellFormed(l) PROVE WellFormed(Healed(l)) /\ WellFormed(Torn(l))
  BY <1>3, HealedTorn DEF WellFormed
<1>4. ASSUME NEW l, WellFormed(l), NEW s \in States
      PROVE  WellFormed(Started(l, s)) /\ Started(l, s).base # NoState
  BY <1>2, <1>4, NewLogs DEF Started
<1>5. ASSUME NEW l, WellFormed(l), NEW s \in States, NEW m \in CutShort(l, s)
      PROVE  WellFormed(m)
  <2>1. WellFormed(Started(l, s)) /\ WellFormed(Torn(Started(l, s)))
    BY <1>3, <1>4, <1>5
  <2> QED
    BY <1>1, <1>5, <2>1 DEF CutShort
<1>6. ASSUME NEW l, WellFormed(l), NEW s \in States, NEW r \in Records
      PROVE  WellFormed(Appended(l, s, r))
  <2> DEFINE m == Started(l, s)
  <2>1. m \in Logs /\ m.base # NoState
    BY <1>4, <1>6 DEF WellFormed
  <2> HIDE DEF m
  <2>2. [m EXCEPT !.recs = Append(@, r)] \in Logs /\ [m EXCEPT !.recs = Append(@, r)].base = m.base
    BY <2>1 DEF Logs
  <2> QED
    BY <2>1, <2>2 DEF Appended, WellFormed, m
<1> QED
  BY <1>1, <1>2, <1>3, <1>5, <1>6

LogTypes == log \in log_disk /\ \A l \in log_disk : WellFormed(l)
OtherTypes ==
    /\ snap \in States /\ snap_disk \subseteq States /\ snap \in snap_disk /\ log_entry \in BOOLEAN
    /\ index \in [Writers -> States \cup {NoState}]
    /\ rebase \in [Writers -> States \cup {NoState}]
    /\ pc \in {"idle", "heal", "rebase", "write", "sync", "logdir", "undo",
               "snapshot", "snapdir", "empty", "header", "headersync", "headerdir"}
    /\ caller \in Writers /\ record \in Records /\ WellFormed(old)
    /\ failed \in {"none", "data", "close", "dir"}
    /\ acked \in States /\ doubt \subseteq States
    /\ mishaps \in Nat
FlagTypes == reload_required \in [Writers -> BOOLEAN] /\ {adopted, rebased} \subseteq BOOLEAN

LEMMA TypeParts == TypeOK <=> LogTypes /\ OtherTypes /\ FlagTypes
BY DEF TypeOK, LogTypes, OtherTypes, FlagTypes

LEMMA TypesInit == Init => Types
<1> SUFFICES ASSUME Init PROVE Types
  OBVIOUS
<1>1. LogTypes
  BY WellFormedLogs DEF Init, LogTypes
<1>2. OtherTypes
  <2>1. record \in Records
    BY DEF Init, Records, States
  <2>2. snap \in States /\ snap_disk \subseteq States /\ acked \in States
    BY DEF Init, States
  <2> QED
    BY <2>1, <2>2, WellFormedLogs DEF Init, OtherTypes
<1>3. FlagTypes
  BY DEF Init, FlagTypes
<1> QED
  BY <1>1, <1>2, <1>3, TypeParts DEF Types, Init

\* Every step keeps the logs well formed.
LEMMA LogTypesStep ==
    ASSUME Types, Next
    PROVE  LogTypes'
<1> USE DEF LogTypes
<1>1. /\ log \in log_disk /\ \A l \in log_disk : WellFormed(l)
      /\ WellFormed(log) /\ WellFormed(old) /\ record \in Records /\ record.state \in States
      /\ pc # "idle" => index[caller] \in States
  BY DEF Types, TypeOK, Records
<1>2. ASSUME NEW w \in Writers,
             Load(w) \/ LoadWithDelta(w) \/ Free(w) \/ CatchUp(w) \/ Mutate(w) \/ Compact(w)
      PROVE  LogTypes'
  BY <1>1, <1>2 DEF Load, LoadWithDelta, Free, CatchUp, Mutate, Compact, Begin, files
<1>3. ASSUME NEW w \in Writers, ResetTornHeader(w) \/ ResetTornHeaderFails(w) PROVE LogTypes'
  BY <1>1, <1>3, WellFormedLogs DEF ResetTornHeader, ResetTornHeaderFails, Truncate, TruncateFails
<1>4. CASE \/ SyncFails \/ MutationDone \/ LogDirFails \/ Rename \/ SnapshotFails \/ SnapDirSync
           \/ SnapDirFails \/ CompactDone \/ HeaderDirFails
  BY <1>1, <1>4 DEF SyncFails, MutationDone, LogDirFails, Rename, SnapshotFails, SnapDirSync,
     SnapDirFails, CompactDone, HeaderDirFails, LogDirSynced, files
<1>5. CASE Heal \/ HealFails
  BY <1>1, <1>5, WellFormedLogs DEF Heal, HealFails, Truncate, TruncateFails
<1>6. CASE Rebase \/ RebaseFails
  BY <1>1, <1>6, WellFormedLogs DEF Rebase, RebaseFails, Truncate, TruncateFails
<1>7. CASE Write
  BY <1>1, <1>7, WellFormedLogs DEF Write
<1>8. CASE WriteFails
  BY <1>1, <1>8, WellFormedLogs DEF WriteFails
<1>9. CASE Sync \/ HeaderSync
  BY <1>1, <1>9 DEF Sync, HeaderSync
<1>10. CASE Undo \/ UndoFails
  BY <1>1, <1>10 DEF Undo, UndoFails, Truncate, TruncateFails
<1>11. CASE EmptyTheLog \/ EmptyFails
  BY <1>1, <1>11, WellFormedLogs DEF EmptyTheLog, EmptyFails, Truncate, TruncateFails
<1>12. CASE WriteHeader
  BY <1>1, <1>12, WellFormedLogs DEF WriteHeader
<1>13. CASE HeaderFails
  BY <1>1, <1>13, WellFormedLogs DEF HeaderFails, Truncate
<1>14. CASE Killed
  BY <1>1, <1>14, WellFormedLogs DEF Killed
<1>15. CASE PowerLoss
  BY <1>1, <1>15, WellFormedLogs DEF PowerLoss
<1> QED
  BY <1>2, <1>3, <1>4, <1>5, <1>6, <1>7, <1>8, <1>9, <1>10, <1>11, <1>12, <1>13, <1>14, <1>15
  DEF Next, AppendStep, CompactStep

\* What a recovery gives is a state.
LEMMA RecoveredType ==
    ASSUME NEW s \in States, NEW l, WellFormed(l)
    PROVE  /\ Recovered(s, l) \in States
           /\ RebaseAfterReplay(s, l) \in {s, NoState}
BY LastStateType DEF Recovered, RebaseAfterReplay

OpenCaller == pc # "idle" => index[caller] \in States

\* Every step keeps the other types, and closes the handle of a call only with the call.
LEMMA OtherTypesStep ==
    ASSUME Types, Next
    PROVE  OtherTypes' /\ OpenCaller'
<1> USE DEF OtherTypes, OpenCaller
<1>1. OtherTypes /\ OpenCaller /\ WellFormed(log) /\ log \in log_disk
  BY TypeParts DEF Types, LogTypes
<1>2. record.state \in States
  BY <1>1 DEF Records
<1>3. ASSUME NEW w \in Writers,
             Load(w) \/ Free(w) \/ ResetTornHeader(w) \/ ResetTornHeaderFails(w)
      PROVE  OtherTypes' /\ OpenCaller'
  <2>1. CASE Load(w)
    <3>1. pc # "idle" => caller # w
      BY <1>1, <2>1, StatesReal DEF Load
    <3> QED
      BY <1>1, <2>1, <3>1 DEF Load, Opened, files, callVars, history
  <2>2. CASE Free(w)
    BY <1>1, <2>2 DEF Free, Opened, files, callVars, history
  <2>3. CASE ResetTornHeader(w) \/ ResetTornHeaderFails(w)
    BY <1>1, <2>3 DEF ResetTornHeader, ResetTornHeaderFails, Mishap, callVars, history, handles
  <2> QED
    BY <1>3, <2>1, <2>2, <2>3
<1>4. ASSUME NEW w \in Writers, LoadWithDelta(w)
      PROVE  OtherTypes' /\ OpenCaller'
  <2>1. Recovered(snap, log) \in States /\ RebaseAfterReplay(snap, log) \in States \cup {NoState}
    BY <1>1, RecoveredType
  <2> QED
    BY <1>1, <1>4, <2>1 DEF LoadWithDelta, Opened, files, callVars
<1>5. ASSUME NEW w \in Writers, CatchUp(w)
      PROVE  OtherTypes' /\ OpenCaller'
  <2>1. LastState(log) \in States
    BY <1>1, <1>5, LastStateType DEF CatchUp, Matches
  <2> QED
    BY <1>1, <1>5, <2>1 DEF CatchUp, files, callVars
<1>6. ASSUME NEW w \in Writers, NEW op \in {"add", "remove", "compact"}, NEW items \in States,
             NEW s \in States, Begin(w, op, items, s), doubt' \subseteq States
      PROVE  OtherTypes' /\ OpenCaller'
  <2>1. [op |-> op, items |-> items, state |-> s] \in Records
    BY DEF Records
  <2>2. pc' \in {"heal", "snapshot", "rebase", "write"}
    BY <1>6 DEF Begin, AfterHeal
  <2>3. index[w] \in States
    BY <1>1, <1>6 DEF Begin
  <2> QED
    BY <1>1, <1>6, <2>1, <2>2, <2>3 DEF Begin, files, handles
<1>7. ASSUME NEW w \in Writers, Mutate(w)
      PROVE  OtherTypes' /\ OpenCaller'
  <2>1. PICK op \in {"add", "remove"}, items \in SUBSET Items :
           /\ index[w] # NoState
           /\ Begin(w, op, items, Outcome(index[w], [op |-> op, items |-> items]))
           /\ doubt' = doubt \cup {Outcome(index[w], [op |-> op, items |-> items])}
    BY <1>7 DEF Mutate
  <2>2. Outcome(index[w], [op |-> op, items |-> items]) \in States
    BY <1>1, <2>1 DEF Outcome, States
  <2> QED
    <3>1. items \in States /\ doubt' \subseteq States
      BY <1>1, <2>1, <2>2 DEF States
    <3> HIDE DEF OtherTypes, OpenCaller
    <3> QED
      BY <1>6, <2>1, <2>2, <3>1
<1>8. ASSUME NEW w \in Writers, Compact(w)
      PROVE  OtherTypes' /\ OpenCaller'
  <2>1. Begin(w, "compact", {}, index[w]) /\ doubt' = doubt /\ index[w] \in States
    BY <1>1, <1>8 DEF Compact, Begin
  <2>2. {} \in States
    BY DEF States
  <2>3. doubt' \subseteq States
    BY <1>1, <2>1
  <2> HIDE DEF OtherTypes, OpenCaller
  <2> QED
    BY <1>6, <2>1, <2>2, <2>3
<1>9. CASE Heal \/ HealFails
  BY <1>1, <1>9 DEF Heal, HealFails, Mishap, AfterHeal, handles, history
<1>10. CASE Rebase \/ RebaseFails
  BY <1>1, <1>10 DEF Rebase, RebaseFails, Mishap, handles
<1>11. CASE Write \/ WriteFails \/ Sync \/ SyncFails \/ LogDirFails \/ Undo
  BY <1>1, <1>11 DEF Write, WriteFails, Sync, SyncFails, LogDirFails, Undo, Mishap, handles, history, files
<1>12. CASE MutationDone \/ CompactDone
  BY <1>1, <1>2, <1>12 DEF MutationDone, CompactDone, LogDirSynced
<1>13. CASE UndoFails
  <2>1. index' \in [Writers -> States \cup {NoState}]
    BY <1>1, <1>2, <1>13 DEF UndoFails
  <2> QED
    BY <1>1, <1>13, <2>1 DEF UndoFails, Mishap, history
<1>14. CASE Rename \/ SnapDirSync
  BY <1>1, <1>2, <1>14 DEF Rename, SnapDirSync, handles, history
<1>15. CASE SnapshotFails \/ SnapDirFails \/ EmptyFails \/ HeaderFails \/ HeaderDirFails
  BY <1>1, <1>2, <1>15 DEF SnapshotFails, SnapDirFails, EmptyFails, HeaderFails, HeaderDirFails,
     Partial, Mishap, files, handles, history
<1>16. CASE EmptyTheLog \/ WriteHeader \/ HeaderSync
  BY <1>1, <1>16 DEF EmptyTheLog, WriteHeader, HeaderSync, handles, history
<1>17. CASE Killed
  BY <1>1, <1>17 DEF Killed, Opened, Mishap, history
<1>18. CASE PowerLoss
  <2>1. snap' \in States /\ WellFormed(log')
    BY <1>1, <1>18, WellFormedLogs DEF PowerLoss, Types, TypeOK
  <2>2. Recovered(snap', log') \in States
    BY <2>1, RecoveredType
  <2>3. acked' \in States
    BY <1>1, <1>18, <2>2 DEF PowerLoss
  <2> QED
    <3>0. mishaps' \in Nat
      <4>1. mishaps \in Nat /\ mishaps' = mishaps + 1
        BY <1>1, <1>18 DEF PowerLoss, Mishap
      <4> HIDE DEF OtherTypes
      <4> QED
        BY <4>1
    <3>1. log_entry' \in BOOLEAN
      BY <1>18 DEF PowerLoss
    <3>2. /\ index' \in [Writers -> States \cup {NoState}] /\ rebase' \in [Writers -> States \cup {NoState}]
          /\ doubt' \subseteq States /\ pc' = "idle"
      BY <1>18 DEF PowerLoss
    <3>3. snap_disk' \subseteq States /\ snap' \in snap_disk'
      BY <1>18, <2>1 DEF PowerLoss
    <3>4. UNCHANGED <<caller, record, old, failed>>
      BY <1>18 DEF PowerLoss
    <3> QED
      BY <1>1, <2>1, <2>3, <3>0, <3>1, <3>2, <3>3, <3>4
<1> QED
  BY <1>3, <1>4, <1>5, <1>7, <1>8, <1>9, <1>10, <1>11, <1>12, <1>13, <1>14, <1>15, <1>16, <1>17, <1>18
  DEF Next, AppendStep, CompactStep

\* Every step keeps the Boolean state Boolean.
LEMMA FlagTypesStep ==
    ASSUME Types, Next
    PROVE  FlagTypes'
<1>1. reload_required \in [Writers -> BOOLEAN] /\ adopted \in BOOLEAN /\ rebased \in BOOLEAN /\ caller \in Writers
  BY DEF Types, TypeOK
<1>2. reload_required' \in [Writers -> BOOLEAN]
  <2>1. CASE \/ \E w \in Writers : Load(w) \/ LoadWithDelta(w) \/ Free(w)
             \/ Killed \/ PowerLoss
    BY <1>1, <2>1 DEF Load, LoadWithDelta, Free, Killed, PowerLoss, Opened
  <2>2. CASE UndoFails
    BY <1>1, <2>2 DEF UndoFails
  <2>3. ASSUME NEW w \in Writers, \/ ResetTornHeader(w) \/ ResetTornHeaderFails(w)
                                  \/ CatchUp(w) \/ Mutate(w) \/ Compact(w)
        PROVE  reload_required' = reload_required
    BY <2>3 DEF ResetTornHeader, ResetTornHeaderFails, CatchUp, Mutate, Compact, Begin, handles
  <2>4. CASE AppendStep /\ ~UndoFails
    <3>1. reload_required' = reload_required
      BY <2>4 DEF AppendStep, Heal, HealFails, Rebase, RebaseFails, Write, WriteFails, Sync, SyncFails,
         MutationDone, LogDirFails, Undo, handles
    <3> QED
      BY <1>1, <3>1
  <2>5. CASE CompactStep
    <3>1. reload_required' = reload_required
      BY <2>5 DEF CompactStep, Rename, SnapshotFails, SnapDirSync, SnapDirFails, EmptyTheLog, EmptyFails,
         WriteHeader, HeaderSync, HeaderFails, CompactDone, HeaderDirFails, Partial, handles
    <3> QED
      BY <1>1, <3>1
  <2> QED
    BY <1>1, <2>1, <2>2, <2>3, <2>4, <2>5 DEF Next
<1>3. adopted' \in BOOLEAN
  <2>1. CASE \/ \E w \in Writers : LoadWithDelta(w) \/ CatchUp(w)
             \/ MutationDone \/ CompactDone \/ PowerLoss
    BY <1>1, <2>1 DEF LoadWithDelta, CatchUp, Adopt, MutationDone, CompactDone, PowerLoss
  <2>2. ASSUME NEW w \in Writers, \/ Load(w) \/ Free(w) \/ ResetTornHeader(w) \/ ResetTornHeaderFails(w)
                                  \/ Mutate(w) \/ Compact(w)
        PROVE  adopted' = adopted
    BY <2>2 DEF Load, Free, ResetTornHeader, ResetTornHeaderFails, Mutate, Compact, Begin, history
  <2>3. CASE AppendStep /\ ~MutationDone
    <3>1. adopted' = adopted
      BY <2>3 DEF AppendStep, Heal, HealFails, Rebase, RebaseFails, Write, WriteFails, Sync, SyncFails,
         LogDirFails, Undo, UndoFails, history
    <3> QED
      BY <1>1, <3>1
  <2>4. CASE Killed \/ (CompactStep /\ ~CompactDone)
    <3>1. adopted' = adopted
      BY <2>4 DEF Killed, CompactStep, Rename, SnapshotFails, SnapDirSync, SnapDirFails, EmptyTheLog, EmptyFails,
         WriteHeader, HeaderSync, HeaderFails, HeaderDirFails, Partial, history
    <3> QED
      BY <1>1, <3>1
  <2> QED
    BY <1>1, <2>1, <2>2, <2>3, <2>4 DEF Next
<1>4. rebased' \in BOOLEAN
  <2>1. CASE Rebase \/ RebaseFails \/ SnapDirSync \/ PowerLoss
    BY <1>1, <2>1 DEF Rebase, RebaseFails, SnapDirSync, PowerLoss
  <2>2. ASSUME NEW w \in Writers, \/ Load(w) \/ LoadWithDelta(w) \/ Free(w) \/ ResetTornHeader(w)
                                  \/ ResetTornHeaderFails(w) \/ CatchUp(w) \/ Mutate(w) \/ Compact(w)
        PROVE  rebased' = rebased
    BY <2>2 DEF Load, LoadWithDelta, Free, ResetTornHeader, ResetTornHeaderFails, CatchUp, Mutate, Compact, Begin, history
  <2>3. CASE AppendStep /\ ~Rebase /\ ~RebaseFails
    <3>1. rebased' = rebased
      BY <2>3 DEF AppendStep, Heal, HealFails, Write, WriteFails, Sync, SyncFails,
         MutationDone, LogDirFails, Undo, UndoFails, history
    <3> QED
      BY <1>1, <3>1
  <2>4. CASE Killed \/ (CompactStep /\ ~SnapDirSync)
    <3>1. rebased' = rebased
      BY <2>4 DEF Killed, CompactStep, Rename, SnapshotFails, SnapDirFails, EmptyTheLog, EmptyFails,
         WriteHeader, HeaderSync, HeaderFails, CompactDone, HeaderDirFails, Partial, history
    <3> QED
      BY <1>1, <3>1
  <2> QED
    BY <1>1, <2>1, <2>2, <2>3, <2>4 DEF Next
<1> QED
  BY <1>2, <1>3, <1>4 DEF FlagTypes

LEMMA TypesStep == Types /\ [Next]_vars => Types'
<1> SUFFICES ASSUME Types, [Next]_vars PROVE Types'
  OBVIOUS
<1>1. CASE Next
  <2>1. LogTypes' /\ OtherTypes' /\ FlagTypes' /\ OpenCaller'
    BY <1>1, LogTypesStep, OtherTypesStep, FlagTypesStep
  <2>2. TypeOK'
    BY <2>1, TypeParts DEF TypeOK, LogTypes, OtherTypes, FlagTypes
  <2> QED
    BY <2>1, <2>2 DEF Types, OpenCaller
<1>2. CASE UNCHANGED vars
  BY <1>2 DEF Types, TypeOK, vars, files, handles, callVars, history
<1> QED
  BY <1>1, <1>2

\* The types of the files, of the handles and of the call in progress; every log the
\* power may leave has a header before its records.
THEOREM VectorTypes == Spec => []TypeOK
<1>1. Init => Types
  BY TypesInit
<1>2. Types /\ [Next]_vars => Types'
  BY TypesStep
<1>3. Types => TypeOK
  BY DEF Types
<1> QED
  BY <1>1, <1>2, <1>3, PTL DEF Spec

-----------------------------------------------------------------------------
(* Snapshot and log fit together *)

\* What holds of the log that is seen is enough for one that a power loss leaves.
LEMMA CurrentLeft ==
    ASSUME NEW l, Current(l)
    PROVE  Left(l)
<1>1. Chain(l) /\ Recovered(snap, l) \in Expected /\ \A s \in Known \cup Held : Agrees(s, l)
  BY DEF Current
<1>2. CASE l.base = NoState
  <2>1. \A s \in Known \cup Held : s = snap /\ Fits(s, l)
    BY <1>1, <1>2 DEF Agrees, Fits
  <2> QED
    BY <1>1, <2>1 DEF Left
<1>3. CASE l.base # NoState
  <2>1. \A s \in Known \cup Held : Recovered(s, l) = Recovered(snap, l) /\ Fits(s, l)
    BY <1>1, <1>3 DEF Agrees, Recovered
  <2> QED
    BY <1>1, <2>1 DEF Left
<1> QED
  BY <1>2, <1>3

\* The same after a step.
LEMMA CurrentLeftNext == (\A l : Current(l) => Left(l))'
<1>1. \A l : Current(l) => Left(l)
  BY CurrentLeft
<1> QED
  BY <1>1, PTL

\* Steps that write the log, and open, close or move handles, with the same snapshot.
LEMMA FilesSound ==
    ASSUME Sound, UNCHANGED <<snap, snap_disk, log_entry, acked, doubt, rebased>>,
           adopted => adopted',
           NEW m, log' = m, Current(m),
           \A l \in log_disk' : l \in log_disk \/ Current(l),
           \A s \in Held' : \/ s \in Held \cup {snap}
                            \/ Agrees(s, m) /\ (~adopted' => \A l \in LogAfterCrash' : Fits(s, l))
    PROVE  Current(log)' /\ (\A l \in LogAfterCrash : Left(l))'
<1>1. Expected' = Expected /\ Known' = Known
  BY DEF Expected, Known
<1>2. \A s \in {snap} \cup Known \cup Held' : Agrees(s, m)
  BY DEF Current
<1>3. Current(log)'
  BY <1>1, <1>2 DEF Current, Agrees, Chain, WellFormed, Recovered, Fits, StateAt, LastState
<1>4. ASSUME NEW l \in LogAfterCrash' PROVE Left(l)'
  <2>1. Left(l)
    <3>1. CASE l \in LogAfterCrash
      BY <3>1 DEF Sound
    <3>2. CASE l \notin LogAfterCrash
      BY <1>4, <3>2, CurrentLeft DEF LogAfterCrash
    <3> QED
      BY <3>1, <3>2
  <2>2. snap \in Known
    BY DEF Known
  <2>3. ~adopted' => \A s \in Known \cup Held' : Fits(s, l)
    BY <1>4, <2>1, <2>2 DEF Left
  <2> QED
    BY <1>1, <2>1, <2>3 DEF Left
<1> QED
  BY <1>3, <1>4

\* Steps that only write the log.
LEMMA LogWritten ==
    ASSUME Sound, UNCHANGED <<snap, snap_disk, log_entry, index, reload_required, acked, doubt, adopted, rebased>>,
           NEW m, log' = m, Current(m),
           \A l \in log_disk' : l \in log_disk \/ Current(l)
    PROVE  Current(log)' /\ (\A l \in LogAfterCrash : Left(l))'
<1>1. Held' = Held
  BY DEF Held, Usable
<1> QED
  BY <1>1, FilesSound

\* A log that differs only in its torn tail.
LEMMA CurrentSame ==
    ASSUME NEW l, NEW m \in Logs, Current(l), m.base = l.base, m.recs = l.recs
    PROVE  Current(m)
BY SameStates DEF Current

\* Before there is a header everybody agrees on the snapshot.
LEMMA CurrentEmpty ==
    ASSUME NEW l, Current(l), l.base = NoState
    PROVE  /\ snap \in Expected
           /\ \A s \in {snap} \cup Known \cup Held : s = snap
           /\ Current(EmptyLog) /\ Current(TornHeader)
<1>1. snap \in Expected
  BY DEF Current, Recovered
<1>2. \A s \in {snap} \cup Known \cup Held : s = snap
  BY DEF Current, Agrees
<1>3. ASSUME NEW m \in {EmptyLog, TornHeader} PROVE Current(m)
  BY <1>1, <1>2, EmptyLogs DEF Current
<1> QED
  BY <1>1, <1>2, <1>3

\* The handle whose call is in progress is one of those that must agree.
LEMMA CallerHeld ==
    ASSUME Types, Usable(caller)
    PROVE  index[caller] \in Held /\ index[caller] \in States
<1>1. caller \in Writers
  BY DEF Types, TypeOK
<1>2. index[caller] \in States
  BY <1>1 DEF Types, TypeOK, Usable
<1> QED
  BY <1>1, <1>2 DEF Held

\* An append to a log that ends where the handle is, complete or cut short.
LEMMA CurrentAppend ==
    ASSUME Types, Usable(caller), index[caller] \in Expected, NEW l, Current(l), UpToDate(l)
    PROVE  /\ \A m \in CutShort(l, index[caller]) : Current(m) /\ UpToDate(m)
           /\ GoodRecord(index[caller], record) /\ record.state \in Expected =>
                 /\ Current(Appended(l, index[caller], record))
                 /\ LastState(Appended(l, index[caller], record)) = record.state
                 /\ Appended(l, index[caller], record).base # NoState
                 /\ Appended(l, index[caller], record).torn => l.torn
<1> DEFINE c == index[caller]
           d == Started(l, c)
<1>1. c \in Held /\ c \in States
  BY CallerHeld
<1>2. Chain(l)
  BY DEF Current
<1>3. /\ d = IF l.base = NoState THEN NewLog(c) ELSE l
      /\ Chain(d) /\ d \in Logs /\ d.base # NoState
      /\ d.torn => l.torn
      /\ Started(d, c) = d
  BY <1>1, <1>2, StartedLog
<1>4. Current(d) /\ LastState(d) = c
  <2>1. CASE l.base = NoState
    <3>1. d = NewLog(c) /\ \A s \in {snap} \cup Known \cup Held : s = c
      BY <1>1, <1>3, <2>1, CurrentEmpty
    <3>2. /\ Chain(NewLog(c)) /\ LastState(NewLog(c)) = c
          /\ \A t : Recovered(t, NewLog(c)) = c /\ (t = c => Agrees(t, NewLog(c)))
      BY <1>1, NewLogs
    <3> QED
      BY <3>1, <3>2 DEF Current
  <2>2. CASE l.base # NoState
    BY <1>3, <2>2 DEF UpToDate
  <2> QED
    BY <2>1, <2>2
<1>5. Torn(d) \in Logs /\ Torn(d).base = d.base /\ Torn(d).recs = d.recs
  BY <1>3, HealedTorn
<1>6. Current(Torn(d)) /\ LastState(Torn(d)) = c
  BY <1>4, <1>5, CurrentSame, SameStates
<1>7. ASSUME NEW m \in CutShort(l, c) PROVE Current(m) /\ UpToDate(m)
  <2>1. CASE m \in {l, d, Torn(d)}
    BY <1>4, <1>6, <2>1 DEF UpToDate
  <2>2. CASE m = TornHeader /\ l.base = NoState
    BY <2>2, CurrentEmpty, EmptyLogs DEF UpToDate
  <2> QED
    BY <1>7, <2>1, <2>2 DEF CutShort
<1>8. ASSUME GoodRecord(c, record), record.state \in Expected
      PROVE  LET a == Appended(l, c, record)
             IN  Current(a) /\ LastState(a) = record.state /\ a.base # NoState /\ (a.torn => l.torn)
  <2> DEFINE a == Appended(l, c, record)
  <2>1. a = Appended(d, c, record)
    BY <1>3 DEF Appended
  <2>2. record \in Records
    BY DEF Types, TypeOK
  <2>3. /\ Chain(a) /\ a.base = d.base /\ LastState(a) = record.state
        /\ a.torn = d.torn /\ \A t : Fits(t, d) => Fits(t, a)
    BY <1>3, <1>4, <1>8, <2>1, <2>2, AppendedLog
  <2> HIDE DEF a
  <2>4. \A s \in {snap} \cup Known \cup Held : Agrees(s, a)
    BY <1>3, <1>4, <2>3 DEF Current, Agrees
  <2>5. Recovered(snap, a) \in Expected
    BY <1>3, <1>8, <2>3 DEF Recovered
  <2>6. Current(a) /\ LastState(a) = record.state /\ a.base # NoState /\ (a.torn => l.torn)
    BY <1>3, <2>3, <2>4, <2>5 DEF Current
  <2> QED
    BY <2>6 DEF a
<1> QED
  BY <1>7, <1>8

\* A record changes the state.
LEMMA RecordChanges ==
    ASSUME Types, Usable(caller), GoodRecord(index[caller], record)
    PROVE  record.state # index[caller]
BY CallerHeld, GoodTransition DEF TransitionValid, Types, TypeOK

\* The log is emptied for a snapshot that holds what the only open handle holds.
LEMMA CurrentReset ==
    ASSUME Types, Sole(caller), index[caller] = snap, snap \in Expected, rebased \/ snap_disk = {snap}
    PROVE  Current(EmptyLog) /\ Current(TornHeader) /\ Current(NewLog(snap))
<1>1. \A s \in {snap} \cup Known \cup Held : s = snap
  BY DEF Known, Held, Usable, Sole
<1>2. ASSUME NEW m \in {EmptyLog, TornHeader} PROVE Current(m)
  BY <1>1, EmptyLogs DEF Current
<1>3. snap \in States
  BY DEF Types, TypeOK
<1>4. Current(NewLog(snap))
  BY <1>1, <1>3, NewLogs DEF Current
<1> QED
  BY <1>2, <1>4

-----------------------------------------------------------------------------
(* The steps of an append *)

\* The caller's handle and record while the call goes on.
LEMMA CallerStays ==
    ASSUME CallerOK, UNCHANGED <<index, reload_required, acked, doubt, record, caller>>,
           pc' # "heal" => (record.op = "compact" <=> pc' \in CompactPcs)
    PROVE  CallerOK'
<1>1. Usable(caller)' /\ Expected' = Expected /\ (Sole(caller) => Sole(caller)')
  BY DEF CallerOK, Usable, Expected, Sole
<1>2. GoodRecord(index[caller], record) => GoodRecord(index[caller], record)'
  BY DEF GoodRecord, Applicable, Outcome
<1> QED
  BY <1>1, <1>2 DEF CallerOK, CompactPcs

\* The handles' pending rebases while no snapshot is written.
LEMMA RebaseStays ==
    ASSUME RebaseOK, UNCHANGED <<index, rebase, snap, caller>>,
           pc \notin CompactPcs \ {"snapshot"} \/ pc' \in CompactPcs \ {"snapshot"}
    PROVE  RebaseOK'
BY DEF RebaseOK, CompactPcs

\* A torn tail is cut off.
LEMMA HealSound ==
    ASSUME Types, Sound, Heal
    PROVE  Sound'
<1>1. CallerOK /\ AppendOK /\ log.base # NoState /\ UpToDate(log) /\ (RebaseDue(caller, log) => Sole(caller))
  BY DEF Heal, Sound, AppendOK
<1>2. /\ log \in Logs /\ Current(log)
      /\ Healed(log) \in Logs /\ Healed(log).base = log.base /\ Healed(log).recs = log.recs /\ ~Healed(log).torn
  BY HealedTorn DEF Sound, Current, Chain, WellFormed
<1>3. Current(Healed(log)) /\ LastState(Healed(log)) = LastState(log)
  BY <1>2, CurrentSame, SameStates
<1>4. /\ log' = Healed(log) /\ log_disk' = {Healed(log)}
      /\ UNCHANGED <<snap, snap_disk, log_entry, index, reload_required, rebase, acked, doubt, adopted, rebased,
                     caller, record>>
  BY DEF Heal, Truncate, handles, history
<1>5. Current(log)' /\ (\A l \in LogAfterCrash : Left(l))'
  BY <1>3, <1>4, LogWritten
<1>6. /\ pc = "heal" /\ pc' \in {"snapshot", "rebase", "write"}
      /\ record.op = "compact" <=> pc' = "snapshot"
      /\ pc' = "rebase" => RebaseDue(caller, log)
  BY DEF Heal, AfterHeal
<1>7. RebaseOK'
  BY <1>4, <1>6, RebaseStays DEF Sound, CompactPcs
<1>8. CallerOK'
  BY <1>1, <1>4, <1>6, CallerStays DEF CompactPcs
<1>9. UpToDate(log)'
  BY <1>1, <1>2, <1>3, <1>4 DEF UpToDate, LastState, StateAt
<1>10. pc' = "rebase" => RebaseDue(caller, log)' /\ Sole(caller)'
  BY <1>1, <1>2, <1>4, <1>6 DEF RebaseDue, Sole
<1>11. AppendOK'
  BY <1>2, <1>4, <1>6, <1>9, <1>10 DEF AppendOK
<1>12. CompactOK'
  BY <1>6, <1>9 DEF CompactOK, CompactPcs
<1> QED
  BY <1>5, <1>7, <1>8, <1>11, <1>12 DEF Sound

\* The truncation of a torn tail fails.
LEMMA HealFailsSound ==
    ASSUME Types, Sound, HealFails
    PROVE  Sound'
<1>1. /\ log \in Logs /\ Current(log)
      /\ Healed(log) \in Logs /\ Healed(log).base = log.base /\ Healed(log).recs = log.recs
  BY HealedTorn DEF Sound, Current, Chain, WellFormed
<1>2. Current(Healed(log))
  BY <1>1, CurrentSame
<1>3. /\ log' \in {log, Healed(log)} /\ \A l \in log_disk' : l \in log_disk \/ l = Healed(log)
      /\ UNCHANGED <<snap, snap_disk, log_entry, index, reload_required, rebase, acked, doubt, adopted, rebased,
                     caller, record>>
      /\ pc = "heal" /\ pc' = "idle"
  BY DEF HealFails, TruncateFails, handles, history
<1>4. Current(log)' /\ (\A l \in LogAfterCrash : Left(l))'
  <2>1. PICK m : m = log' /\ Current(m)
    BY <1>1, <1>2, <1>3
  <2> QED
    BY <1>2, <1>3, <2>1, LogWritten
<1>5. RebaseOK'
  BY <1>3, RebaseStays DEF Sound, CompactPcs
<1> QED
  BY <1>3, <1>4, <1>5 DEF Sound

\* The record is written, or part of it.
LEMMA WriteSound ==
    ASSUME Types, Sound, Write \/ WriteFails
    PROVE  Sound'
<1> DEFINE a == Appended(log, index[caller], record)
           cut == CutShort(log, index[caller])
<1>1. CallerOK /\ AppendOK /\ Current(log) /\ pc = "write" /\ UpToDate(log) /\ ~log.torn
  BY DEF Write, WriteFails, Sound, AppendOK
<1>2. Usable(caller) /\ GoodRecord(index[caller], record) /\ index[caller] \in Expected /\ record.state \in Expected
  BY <1>1 DEF CallerOK, CompactPcs
<1>3. (\A m \in cut : Current(m)) /\ Current(a)
  BY <1>1, <1>2, CurrentAppend
<1>4. /\ old' = log
      /\ log' \in cut \cup {a} /\ \A l \in log_disk' : l \in log_disk \/ l \in cut \cup {a}
      /\ UNCHANGED <<snap, snap_disk, log_entry, index, reload_required, rebase, acked, doubt, adopted, rebased,
                     caller, record>>
      /\ \/ pc' = "sync" /\ log' = a
         \/ pc' = "undo" /\ failed' = "data"
  BY DEF Write, WriteFails, handles, history
<1> HIDE DEF a, cut
<1>5. Current(log)' /\ (\A l \in LogAfterCrash : Left(l))'
  <2>1. PICK m : m = log' /\ Current(m)
    BY <1>3, <1>4
  <2>2. \A l \in log_disk' : l \in log_disk \/ Current(l)
    BY <1>3, <1>4
  <2> QED
    BY <1>4, <2>1, <2>2, LogWritten
<1>6. RebaseOK'
  BY <1>1, <1>4, RebaseStays DEF Sound, CompactPcs
<1>7. CallerOK'
  BY <1>1, <1>4, CallerStays DEF CallerOK, CompactPcs
<1>8. Current(old)' /\ UpToDate(old)' /\ ~old'.torn
  <2>1. Expected' = Expected /\ Known' = Known /\ Held' = Held
    BY <1>4 DEF Expected, Known, Held, Usable
  <2>2. Current(old)'
    BY <1>1, <1>4, <2>1 DEF Current, Agrees, Chain, WellFormed, Recovered, Fits, StateAt, LastState
  <2> QED
    BY <1>1, <1>4, <2>2 DEF UpToDate, LastState, StateAt
<1>9. /\ Appended(old, index[caller], record)' = a
      /\ CutShort(old, index[caller])' = cut
  BY <1>4 DEF a, cut, Appended, Started, CutShort, Torn, NewLog, TornHeader
<1>10. AppendOK'
  BY <1>4, <1>8, <1>9 DEF AppendOK
<1>11. CompactOK'
  BY <1>4 DEF CompactOK, CompactPcs
<1> QED
  BY <1>5, <1>6, <1>7, <1>10, <1>11 DEF Sound

\* The record is synced, or the sync, the close or the sync of the directory fails.
LEMMA SyncSound ==
    ASSUME Types, Sound, Sync \/ SyncFails \/ LogDirFails
    PROVE  Sound'
<1>1. CallerOK /\ AppendOK /\ Current(log) /\ Current(old) /\ UpToDate(old) /\ ~old.torn
  BY DEF Sync, SyncFails, LogDirFails, Sound, AppendOK
<1>2. /\ UNCHANGED <<log, old, snap, snap_disk, log_entry, index, reload_required, rebase, acked, doubt, adopted,
                     rebased, caller, record>>
      /\ \/ pc = "sync" /\ pc' = "logdir" /\ log_disk' = {log}
         \/ pc = "sync" /\ pc' = "undo" /\ failed' = "data" /\ log_disk' = log_disk
         \/ pc = "logdir" /\ pc' = "undo" /\ failed' \in {"close", "dir"} /\ log_disk' = log_disk
  BY DEF Sync, SyncFails, LogDirFails, files, handles, history
<1>3. Current(log)' /\ (\A l \in LogAfterCrash : Left(l))'
  BY <1>1, <1>2, LogWritten
<1>4. RebaseOK'
  BY <1>2, RebaseStays DEF Sound, CompactPcs
<1>5. CallerOK'
  BY <1>1, <1>2, CallerStays DEF CallerOK, CompactPcs
<1>6. Current(old)' /\ UpToDate(old)' /\ ~old'.torn
  <2>1. Expected' = Expected /\ Known' = Known /\ Held' = Held
    BY <1>2 DEF Expected, Known, Held, Usable
  <2>2. Current(old)'
    BY <1>1, <1>2, <2>1 DEF Current, Agrees, Chain, WellFormed, Recovered, Fits, StateAt, LastState
  <2> QED
    BY <1>1, <1>2, <2>2 DEF UpToDate, LastState, StateAt
<1>7. /\ Appended(old, index[caller], record)' = Appended(old, index[caller], record)
      /\ CutShort(old, index[caller])' = CutShort(old, index[caller])
  BY <1>2 DEF Appended, Started, CutShort, Torn, NewLog, TornHeader
<1>8. log = Appended(old, index[caller], record) /\ (pc = "logdir" => log_disk = {log})
  BY <1>1, <1>2 DEF AppendOK
<1>9. AppendOK'
  <2>1. log' = Appended(old, index[caller], record)'
    BY <1>2, <1>7, <1>8
  <2>2. pc' = "logdir" \/ (pc' = "undo" /\ failed' # "data") => log_disk' = {log'}
    BY <1>2, <1>8
  <2> QED
    BY <1>2, <1>6, <2>1, <2>2 DEF AppendOK
<1>10. CompactOK'
  BY <1>2 DEF CompactOK, CompactPcs
<1> QED
  BY <1>3, <1>4, <1>5, <1>9, <1>10 DEF Sound

\* The record is taken back.
LEMMA UndoSound ==
    ASSUME Types, Sound, Undo
    PROVE  Sound'
<1>1. Current(old) /\ pc = "undo" /\ pc' = "idle"
  BY DEF Undo, Sound, AppendOK
<1>2. /\ log' = old /\ log_disk' = {old}
      /\ UNCHANGED <<snap, snap_disk, log_entry, index, reload_required, rebase, acked, doubt, adopted, rebased,
                     caller, record>>
  BY DEF Undo, Truncate, handles, history
<1>3. Current(log)' /\ (\A l \in LogAfterCrash : Left(l))'
  BY <1>1, <1>2, LogWritten
<1>4. RebaseOK'
  BY <1>1, <1>2, RebaseStays DEF Sound, CompactPcs
<1> QED
  BY <1>1, <1>3, <1>4 DEF Sound

\* The record cannot be taken back.
LEMMA UndoFailsSound ==
    ASSUME Types, Sound, UndoFails
    PROVE  Sound'
<1> DEFINE a == Appended(old, index[caller], record)
           complete == log'.base # NoState /\ ~log'.torn /\ LastState(log') = record.state
<1>1. /\ CallerOK /\ AppendOK /\ Current(log) /\ Current(old) /\ UpToDate(old)
      /\ pc = "undo" /\ pc' = "idle" /\ caller \in Writers
  BY DEF UndoFails, Sound, AppendOK, Types, TypeOK
<1>2. Usable(caller) /\ GoodRecord(index[caller], record) /\ index[caller] \in Expected /\ record.state \in Expected
  BY <1>1 DEF CallerOK, CompactPcs
<1>3. /\ UNCHANGED <<snap, snap_disk, log_entry, rebase, acked, doubt, adopted, rebased, caller>>
      /\ index' = [index EXCEPT ![caller] = IF complete THEN record.state ELSE @]
      /\ reload_required' = [reload_required EXCEPT ![caller] = failed = "dir" \/ (complete /\ failed = "data")]
      /\ \/ UNCHANGED <<log, log_disk>>
         \/ log' = old /\ log_disk' = log_disk \cup {old}
  BY DEF UndoFails, TruncateFails, history
<1>4. record.state # index[caller]
  BY <1>2, RecordChanges
<1>5. log' = log \/ log' = old
  BY <1>3
<1>6. log \in CutShort(old, index[caller]) \cup {a}
  BY <1>1 DEF AppendOK
<1>7. complete => log' = a /\ log = a
  <2>1. \A m \in CutShort(old, index[caller]) : UpToDate(m)
    BY <1>1, <1>2, CurrentAppend
  <2> QED
    BY <1>1, <1>4, <1>5, <1>6, <2>1 DEF UpToDate
<1>8. /\ \A w \in Writers \ {caller} : index'[w] = index[w] /\ (reload_required'[w] <=> reload_required[w])
      /\ reload_required'[caller] <=> failed = "dir" \/ (complete /\ failed = "data")
      /\ index'[caller] = IF complete THEN record.state ELSE index[caller]
  BY <1>1, <1>3 DEF Types, TypeOK
<1>9. Current(log') /\ \A l \in log_disk' : l \in log_disk \/ Current(l)
  BY <1>1, <1>3
<1>10. ASSUME NEW s \in Held'
       PROVE  \/ s \in Held
              \/ Agrees(s, log') /\ \A l \in LogAfterCrash' : Fits(s, l)
  <2>1. PICK w \in Writers : s = index'[w] /\ index'[w] # NoState /\ ~reload_required'[w]
    BY DEF Held, Usable
  <2>2. CASE w # caller
    BY <1>8, <2>1, <2>2 DEF Held, Usable
  <2>3. CASE w = caller /\ ~complete
    BY <1>2, <1>8, <2>1, <2>3, CallerHeld
  <2>4. CASE w = caller /\ complete
    <3>1. failed # "data" /\ s = record.state
      BY <1>8, <2>1, <2>4
    <3>2. log_disk = {log} /\ log = a /\ log' = a
      BY <1>1, <1>7, <2>4, <3>1 DEF AppendOK
    <3>3. log_disk' = {a}
      <4>1. old # a
        <5>1. a.base # NoState /\ LastState(a) = record.state
          BY <1>1, <1>2, CurrentAppend
        <5> QED
          BY <1>1, <1>4, <5>1 DEF UpToDate
      <4> QED
        BY <1>3, <3>2, <4>1
    <3>4. a.base # NoState /\ Fits(record.state, a)
      <4>1. Chain(a) /\ a.base # NoState /\ LastState(a) = record.state
        BY <1>1, <1>2, CurrentAppend DEF Current
      <4>2. Len(a.recs) \in 0..Len(a.recs)
        BY <4>1, LogFields DEF Chain, WellFormed
      <4> QED
        BY <4>1, <4>2 DEF Fits, LastState
    <3> QED
      BY <3>1, <3>2, <3>3, <3>4, EmptyLogs DEF LogAfterCrash, Agrees
  <2> QED
    BY <2>2, <2>3, <2>4
<1>11. Current(log)' /\ (\A l \in LogAfterCrash : Left(l))'
  <2>1. PICK m : m = log'
    OBVIOUS
  <2> HIDE DEF a, complete
  <2> QED
    BY <1>3, <1>9, <1>10, <2>1, FilesSound
<1>12. RebaseOK'
  <2>0. record.state # NoState
    BY StatesReal DEF Types, TypeOK, Records
  <2>1. \A w \in Writers : index'[w] = NoState => index[w] = NoState
    <3> HIDE DEF complete
    <3> QED
      BY <1>2, <1>8, <2>0 DEF Usable
  <2> QED
    BY <1>1, <1>3, <2>1 DEF Sound, RebaseOK, CompactPcs
<1> QED
  BY <1>1, <1>11, <1>12 DEF Sound

\* The mutation is durable.
LEMMA MutationDoneSound ==
    ASSUME Types, Sound, MutationDone
    PROVE  Sound'
<1>1. /\ CallerOK /\ AppendOK /\ Current(log) /\ Current(old) /\ UpToDate(old)
      /\ pc = "logdir" /\ pc' = "idle" /\ caller \in Writers
  BY DEF MutationDone, Sound, AppendOK, Types, TypeOK
<1>2. Usable(caller) /\ GoodRecord(index[caller], record) /\ index[caller] \in Expected /\ record.state \in Expected
  BY <1>1 DEF CallerOK, CompactPcs
<1>3. log = Appended(old, index[caller], record) /\ log_disk = {log}
  BY <1>1 DEF AppendOK
<1>4. log.base # NoState /\ LastState(log) = record.state
  BY <1>1, <1>2, <1>3, CurrentAppend
<1>5. /\ UNCHANGED <<snap, snap_disk, log, log_disk, rebase, reload_required, rebased, caller>>
      /\ log_entry' = TRUE /\ acked' = record.state /\ doubt' = {} /\ adopted' = FALSE
      /\ index' = [index EXCEPT ![caller] = record.state]
  BY DEF MutationDone, LogDirSynced
<1>6. LogAfterCrash' = {log} /\ Expected' = {record.state} /\ Known' = Known
  BY <1>3, <1>5 DEF LogAfterCrash, Expected, Known
<1>7. Held' \subseteq Held \cup {record.state}
  <2>1. \A w \in Writers : index'[w] \in {index[w], record.state} /\ reload_required'[w] = reload_required[w]
    BY <1>5 DEF Types, TypeOK
  <2>2. ASSUME NEW w \in Writers, index'[w] # NoState, ~reload_required'[w] PROVE index'[w] \in Held \cup {record.state}
    BY <2>1, <2>2 DEF Held, Usable
  <2> QED
    BY <2>2 DEF Held, Usable
<1>8. Fits(record.state, log)
  <2>1. Len(log.recs) \in 0..Len(log.recs)
    BY <1>1, LogFields DEF Current, Chain, WellFormed
  <2> QED
    BY <1>4, <2>1 DEF Fits, LastState
<1>9. Current(log)'
  <2>1. \A s \in {snap} \cup Known \cup Held' : Fits(s, log)
    BY <1>1, <1>4, <1>7, <1>8 DEF Current, Agrees
  <2>2. Recovered(snap, log)' = record.state
    BY <1>4, <1>5 DEF Recovered, LastState, StateAt
  <2>3. Chain(log)'
    BY <1>1, <1>5 DEF Current, Chain, WellFormed, StateAt
  <2>4. \A s \in {snap'} \cup Known' \cup Held' : Agrees(s, log)'
    BY <1>4, <1>5, <1>6, <2>1 DEF Agrees, Fits, StateAt
  <2> QED
    BY <1>6, <2>2, <2>3, <2>4 DEF Current
<1>10. (\A l \in LogAfterCrash : Left(l))'
  BY <1>5, <1>6, <1>9, CurrentLeftNext
<1>11. RebaseOK'
  <2>1. record.state # NoState
    BY StatesReal DEF Types, TypeOK, Records
  <2>2. \A w \in Writers : index'[w] = NoState => index[w] = NoState
    BY <1>5, <2>1 DEF Types, TypeOK
  <2> QED
    BY <1>1, <1>5, <2>2 DEF Sound, RebaseOK, CompactPcs
<1> QED
  BY <1>1, <1>9, <1>10, <1>11 DEF Sound

\* The only open handle holds the snapshot, which is all a recovery may start from: the
\* log may be emptied.
LEMMA OnlySnapshot ==
    ASSUME Sound, Sole(caller), index[caller] = snap, snap \in Expected,
           UNCHANGED <<snap, log_entry, index, reload_required, acked, doubt, adopted>>,
           Known' = {snap}, log' \in {log, EmptyLog}, \A l \in log_disk' : l \in log_disk \/ l = EmptyLog
    PROVE  Current(log)' /\ (\A l \in LogAfterCrash : Left(l))'
<1>1. Expected' = Expected /\ Known' \subseteq Known /\ Held' = Held
  BY DEF Expected, Known, Held, Usable
<1>2. \A s \in {snap} \cup Known' \cup Held : s = snap
  BY DEF Held, Usable, Sole
<1>3. PICK m : m = log'
  OBVIOUS
<1>4. Chain(m) /\ Recovered(snap, m) \in Expected /\ Agrees(snap, m)
  <2>1. CASE m = log
    BY <2>1 DEF Sound, Current
  <2>2. CASE m = EmptyLog
    BY <2>2, EmptyLogs
  <2> QED
    BY <1>3, <2>1, <2>2
<1>5. Current(log)'
  BY <1>1, <1>2, <1>3, <1>4 DEF Current, Agrees, Chain, WellFormed, Recovered, Fits, StateAt, LastState
<1>6. ASSUME NEW l \in LogAfterCrash' PROVE Left(l)'
  <2>1. Chain(l) /\ Recovered(snap, l) \in Expected /\ (~adopted => Fits(snap, l))
    <3>1. CASE l \in LogAfterCrash
      BY <3>1 DEF Sound, Left, Known
    <3>2. CASE l = EmptyLog
      BY <3>2, EmptyLogs
    <3> QED
      BY <1>6, <3>1, <3>2 DEF LogAfterCrash
  <2> QED
    BY <1>1, <1>2, <2>1 DEF Left
<1> QED
  BY <1>5, <1>6

\* The log is emptied for a snapshot that already has its records, or that fails.
LEMMA RebaseSound ==
    ASSUME Types, Sound, Rebase \/ RebaseFails
    PROVE  Sound'
<1>1. /\ CallerOK /\ RebaseDue(caller, log) /\ Sole(caller) /\ pc = "rebase" /\ caller \in Writers
      /\ RebaseOK
  BY DEF Rebase, RebaseFails, Sound, AppendOK, Types, TypeOK
<1>2. Usable(caller) /\ index[caller] \in Expected /\ record.op # "compact"
  BY <1>1 DEF CallerOK, CompactPcs
<1>3. index[caller] = snap
  BY <1>1, <1>2 DEF RebaseOK, RebaseDue, Usable, CompactPcs
<1>4. /\ UNCHANGED <<snap, snap_disk, log_entry, index, reload_required, acked, doubt, adopted, caller, record>>
      /\ log' \in {log, EmptyLog} /\ \A l \in log_disk' : l \in log_disk \/ l = EmptyLog
  BY DEF Rebase, RebaseFails, Truncate, TruncateFails, handles
<1>5. Known' = {snap}
  <2>1. rebased' <=> (rebased \/ snap_disk # {snap})
    BY DEF Rebase, RebaseFails
  <2> QED
    BY <1>4, <2>1 DEF Known
<1>6. Current(log)' /\ (\A l \in LogAfterCrash : Left(l))'
  BY <1>1, <1>2, <1>3, <1>4, <1>5, OnlySnapshot
<1>7. CASE Rebase
  <2>1. pc' = "write" /\ log' = EmptyLog /\ rebase' = [rebase EXCEPT ![caller] = NoState]
    BY <1>7 DEF Rebase, Truncate
  <2>2. log'.base = NoState /\ ~log'.torn
    BY <2>1 DEF EmptyLog
  <2>3. RebaseOK'
    BY <1>1, <1>4, <2>1 DEF RebaseOK, CompactPcs, Types, TypeOK
  <2>4. CallerOK'
    BY <1>1, <1>2, <1>4, <2>1, CallerStays DEF CompactPcs
  <2>5. AppendOK'
    BY <2>1, <2>2 DEF AppendOK, UpToDate
  <2>6. CompactOK'
    BY <2>1 DEF CompactOK, CompactPcs
  <2> QED
    BY <1>6, <2>3, <2>4, <2>5, <2>6 DEF Sound
<1>8. CASE RebaseFails
  <2>1. pc' = "idle" /\ rebase' = rebase
    BY <1>8 DEF RebaseFails, handles
  <2>2. RebaseOK'
    BY <1>1, <1>4, <2>1, RebaseStays DEF CompactPcs
  <2> QED
    BY <1>6, <2>1, <2>2 DEF Sound
<1> QED
  BY <1>7, <1>8

-----------------------------------------------------------------------------
(* The steps of a compaction *)

\* What a compaction holds all along.
LEMMA Compacting ==
    ASSUME Types, Sound, pc \in CompactPcs
    PROVE  /\ CallerOK /\ AppendOK /\ CompactOK /\ RebaseOK /\ Current(log)
           /\ record.op = "compact" /\ record.state = index[caller] /\ record.state \in Expected
           /\ record.state \in States /\ index[caller] \in Held
           /\ Sole(caller) /\ Usable(caller) /\ caller \in Writers /\ pc # "idle"
<1>1. pc # "idle" /\ pc # "heal"
  BY DEF CompactPcs
<1>2. CallerOK /\ AppendOK /\ CompactOK /\ RebaseOK /\ Current(log)
  BY <1>1 DEF Sound
<1>3. /\ record.op = "compact" /\ record.state = index[caller] /\ record.state \in Expected
      /\ Sole(caller) /\ Usable(caller)
  BY <1>1, <1>2 DEF CallerOK
<1> QED
  BY <1>1, <1>2, <1>3, CallerHeld DEF Types, TypeOK

\* The compaction goes on.
LEMMA CompactGoesOn ==
    ASSUME Types, Sound, pc \in CompactPcs, pc' \in CompactPcs \ {"snapshot"},
           UNCHANGED <<handles, acked, doubt, record, caller>>
    PROVE  RebaseOK' /\ CallerOK' /\ AppendOK'
<1>1. /\ CallerOK /\ RebaseOK /\ Sole(caller) /\ record.op = "compact"
      /\ UNCHANGED <<index, rebase, reload_required>>
  BY Compacting DEF handles
<1>2. CallerOK'
  BY <1>1, CallerStays
<1>3. AppendOK'
  BY DEF AppendOK, CompactPcs
<1>4. RebaseOK'
  BY <1>1 DEF RebaseOK, Sole
<1> QED
  BY <1>2, <1>3, <1>4

\* The snapshot is replaced.
LEMMA RenameSound ==
    ASSUME Types, Sound, Rename
    PROVE  Sound'
<1> DEFINE c == index[caller]
<1>1. pc = "snapshot" /\ pc' = "snapdir" /\ pc \in CompactPcs /\ pc' \in CompactPcs \ {"snapshot"}
  BY DEF Rename, CompactPcs
<1>2. /\ CompactOK /\ Current(log) /\ record.state = c /\ c \in Expected
      /\ Sole(caller) /\ c \in Held /\ caller \in Writers /\ Usable(caller)
  BY <1>1, Compacting
<1>3. /\ snap' = c /\ snap_disk' = snap_disk \cup {c}
      /\ UNCHANGED <<log, log_disk, log_entry, handles, index, reload_required, rebase, caller, record,
                     acked, doubt, adopted, rebased>>
  BY <1>2 DEF Rename, handles, history
<1>4. /\ Expected' = Expected /\ Known' \subseteq Known \cup {c} /\ Held' = Held /\ LogAfterCrash' = LogAfterCrash
      /\ snap \in Known
  BY <1>3 DEF Expected, Known, Held, Usable, LogAfterCrash
<1>5. RebaseOK' /\ CallerOK' /\ AppendOK'
  BY <1>1, <1>3, CompactGoesOn
<1>6. Current(log)'
  <2>1. Chain(log) /\ \A s \in Known \cup Held : Agrees(s, log)
    BY <1>2 DEF Current
  <2>2. Recovered(c, log) \in Expected
    BY <1>2 DEF Current, Recovered
  <2>3. \A s \in Known \cup Held : Agrees(s, log)'
    <3>1. CASE log.base = NoState
      BY <1>2, <1>3, <2>1, <3>1 DEF Agrees
    <3>2. CASE log.base # NoState
      BY <1>3, <2>1, <3>2 DEF Agrees, Fits, StateAt
    <3> QED
      BY <3>1, <3>2
  <2>4. Chain(log)' /\ Recovered(snap, log)' = Recovered(c, log)
    BY <1>3, <2>1 DEF Chain, WellFormed, StateAt, Recovered, LastState
  <2>5. {snap'} \cup Known' \cup Held' \subseteq Known \cup Held
    BY <1>2, <1>3, <1>4
  <2> HIDE DEF c
  <2> QED
    BY <1>4, <2>2, <2>3, <2>4, <2>5 DEF Current
<1>7. ASSUME NEW l \in LogAfterCrash PROVE Left(l)'
  <2>1. Left(l)
    BY DEF Sound
  <2>2. Recovered(c, l) \in Expected
    <3>1. Recovered(snap, l) \in Expected
      BY <1>4, <2>1 DEF Left
    <3> QED
      BY <1>2, <3>1 DEF Recovered
  <2>3. ~adopted => \A s \in Known' \cup Held' : Fits(s, l)
    BY <1>2, <1>4, <2>1 DEF Left
  <2> HIDE DEF c
  <2> QED
    BY <1>3, <1>4, <2>1, <2>2, <2>3 DEF Left
<1>8. UpToDate(log)'
  BY <1>1, <1>2, <1>3 DEF CompactOK, UpToDate, LastState, StateAt
<1>9. CompactOK'
  BY <1>1, <1>2, <1>3, <1>8 DEF CompactOK
<1>10. (\A l \in LogAfterCrash : Left(l))'
  BY <1>4, <1>7
<1> QED
  BY <1>5, <1>6, <1>9, <1>10 DEF Sound

\* The new snapshot's entry is durable.
LEMMA SnapDirSyncSound ==
    ASSUME Types, Sound, SnapDirSync
    PROVE  Sound'
<1>1. pc = "snapdir" /\ pc' = "empty" /\ pc \in CompactPcs /\ pc' \in CompactPcs \ {"snapshot"}
  BY DEF SnapDirSync, CompactPcs
<1>2. /\ CompactOK /\ record.state = index[caller] /\ record.state \in Expected /\ Sole(caller)
  BY <1>1, Compacting
<1>3. /\ snap_disk' = {snap} /\ ~rebased'
      /\ UNCHANGED <<snap, log, log_disk, log_entry, handles, index, reload_required, rebase, caller, record,
                     acked, doubt, adopted>>
  BY DEF SnapDirSync, handles
<1>4. snap = record.state /\ UpToDate(log)
  BY <1>1, <1>2 DEF CompactOK, CompactPcs
<1>5. Known' = {snap}
  BY <1>3 DEF Known
<1>6. Current(log)' /\ (\A l \in LogAfterCrash : Left(l))'
  BY <1>2, <1>3, <1>4, <1>5, OnlySnapshot
<1>7. RebaseOK' /\ CallerOK' /\ AppendOK'
  BY <1>1, <1>3, CompactGoesOn
<1>8. UpToDate(log)'
  BY <1>3, <1>4 DEF UpToDate, LastState, StateAt
<1>9. CompactOK'
  BY <1>1, <1>3, <1>4, <1>8 DEF CompactOK
<1> QED
  BY <1>6, <1>7, <1>9 DEF Sound

\* Once the snapshot is durable, the log is emptied and gets its header.
LEMMA ResetLogs ==
    ASSUME Types, Sound, pc \in {"empty", "header", "headersync", "headerdir"}
    PROVE  /\ snap = record.state /\ snap_disk = {snap}
           /\ Current(EmptyLog) /\ Current(TornHeader) /\ Current(NewLog(record.state))
<1>1. pc \in CompactPcs
  BY DEF CompactPcs
<1>2. CompactOK /\ record.state = index[caller] /\ record.state \in Expected /\ Sole(caller)
  BY <1>1, Compacting
<1>3. snap = record.state /\ snap_disk = {snap}
  BY <1>1, <1>2 DEF CompactOK
<1> QED
  BY <1>2, <1>3, CurrentReset

LEMMA ResetSound ==
    ASSUME Types, Sound, EmptyTheLog \/ WriteHeader \/ HeaderSync
    PROVE  Sound'
<1>1. /\ pc \in CompactPcs /\ pc' \in CompactPcs \ {"snapshot"}
      /\ pc \in {"empty", "header", "headersync", "headerdir"}
  BY DEF EmptyTheLog, WriteHeader, HeaderSync, CompactPcs
<1>2. /\ snap = record.state /\ snap_disk = {snap}
      /\ Current(EmptyLog) /\ Current(TornHeader) /\ Current(NewLog(record.state))
  BY <1>1, ResetLogs
<1>3. CompactOK /\ Current(log)
  BY <1>1, Compacting
<1>4. UNCHANGED <<snap, snap_disk, log_entry, handles, index, reload_required, rebase, caller, record,
                  acked, doubt, adopted, rebased>>
  BY DEF EmptyTheLog, WriteHeader, HeaderSync, handles, history
<1>5. /\ log' \in {log, EmptyLog, NewLog(record.state)}
      /\ \A l \in log_disk' : l \in log_disk \cup {log, EmptyLog, TornHeader, NewLog(record.state)}
  BY DEF EmptyTheLog, WriteHeader, HeaderSync, Truncate
<1>6. PICK m : m = log'
  OBVIOUS
<1>7. Current(log)' /\ (\A l \in LogAfterCrash : Left(l))'
  <2>1. Current(m) /\ \A l \in log_disk' : l \in log_disk \/ Current(l)
    BY <1>2, <1>3, <1>5, <1>6
  <2> QED
    BY <1>4, <1>6, <2>1, LogWritten
<1>8. RebaseOK' /\ CallerOK' /\ AppendOK'
  BY <1>1, <1>4, CompactGoesOn
<1>9. CompactOK'
  <2>1. CASE EmptyTheLog
    BY <1>2, <1>4, <2>1 DEF CompactOK, EmptyTheLog, Truncate, EmptyLog
  <2>2. CASE WriteHeader
    BY <1>2, <1>4, <2>2 DEF CompactOK, WriteHeader, NewLog
  <2>3. CASE HeaderSync
    <3>1. log = NewLog(record.state)
      BY <1>3, <2>3 DEF CompactOK, HeaderSync
    <3> QED
      BY <1>2, <1>4, <2>3, <3>1 DEF CompactOK, HeaderSync, NewLog
  <2> QED
    BY <2>1, <2>2, <2>3
<1> QED
  BY <1>7, <1>8, <1>9 DEF Sound

\* The compaction fails half way, with E_PARTIAL_COMPACT.
LEMMA PartialSound ==
    ASSUME Types, Sound, pc \in CompactPcs, snap = record.state, Partial,
           UNCHANGED <<snap, snap_disk, log_entry>>,
           NEW m, log' = m, Current(m), \A l \in log_disk' : l \in log_disk \/ Current(l)
    PROVE  Sound'
<1>1. /\ RebaseOK /\ record.state = index[caller] /\ Sole(caller) /\ Usable(caller) /\ caller \in Writers
  BY Compacting
<1>2. /\ UNCHANGED <<index, reload_required, caller, record, acked, doubt, adopted, rebased>>
      /\ rebase' = [rebase EXCEPT ![caller] = record.state] /\ pc' = "idle"
  BY DEF Partial, history
<1>3. Current(log)' /\ (\A l \in LogAfterCrash : Left(l))'
  BY <1>2, LogWritten
<1>4. RebaseOK'
  <2>1. /\ rebase'[caller] = snap /\ index[caller] # NoState
        /\ \A w \in Writers \ {caller} : rebase'[w] = rebase[w] /\ index[w] = NoState
    BY <1>1, <1>2 DEF Sole, Usable, Types, TypeOK
  <2> QED
    BY <1>1, <1>2, <2>1 DEF RebaseOK
<1> QED
  BY <1>2, <1>3, <1>4 DEF Sound

LEMMA CompactFailsSound ==
    ASSUME Types, Sound, SnapshotFails \/ SnapDirFails \/ EmptyFails \/ HeaderFails \/ HeaderDirFails
    PROVE  Sound'
<1>1. pc \in CompactPcs
  BY DEF SnapshotFails, SnapDirFails, EmptyFails, HeaderFails, HeaderDirFails, CompactPcs
<1>2. CompactOK /\ Current(log) /\ RebaseOK
  BY <1>1, Compacting
<1>3. CASE SnapshotFails /\ ~(snap = record.state /\ Partial)
  <2>1. pc = "snapshot" /\ pc' = "idle" /\ UNCHANGED <<files, handles, caller, record, old, failed, history>>
    BY <1>3 DEF SnapshotFails
  <2>2. UNCHANGED <<snap, snap_disk, log, log_disk, log_entry, index, reload_required, rebase,
                    acked, doubt, adopted, rebased, caller>>
    BY <2>1 DEF files, handles, history
  <2>3. Current(log)' /\ (\A l \in LogAfterCrash : Left(l))'
    BY <1>2, <2>2, LogWritten
  <2>4. RebaseOK'
    BY <1>2, <2>1, <2>2, RebaseStays
  <2> QED
    BY <2>1, <2>3, <2>4 DEF Sound
<1>4. CASE snap = record.state /\ Partial /\ UNCHANGED files
  <2>1. UNCHANGED <<snap, snap_disk, log, log_disk, log_entry>>
    BY <1>4 DEF files
  <2> QED
    BY <1>1, <1>2, <1>4, <2>1, PartialSound
<1>5. CASE EmptyFails \/ HeaderFails
  <2>1. /\ pc \in {"empty", "header", "headersync", "headerdir"} /\ Partial
        /\ UNCHANGED <<snap, snap_disk, log_entry>>
    BY <1>5 DEF EmptyFails, HeaderFails
  <2>2. /\ snap = record.state
        /\ Current(EmptyLog) /\ Current(TornHeader) /\ Current(NewLog(record.state))
    BY <2>1, ResetLogs
  <2>3. /\ log' \in {log, EmptyLog, TornHeader, NewLog(record.state)}
        /\ \A l \in log_disk' : l \in log_disk \cup {EmptyLog, TornHeader, NewLog(record.state)}
    BY <1>5 DEF EmptyFails, HeaderFails, Truncate, TruncateFails
  <2>4. PICK m : m = log'
    OBVIOUS
  <2>5. Current(m) /\ \A l \in log_disk' : l \in log_disk \/ Current(l)
    BY <1>2, <2>2, <2>3, <2>4
  <2> QED
    BY <1>1, <2>1, <2>2, <2>4, <2>5, PartialSound
<1>6. CASE SnapDirFails \/ HeaderDirFails
  <2>1. Partial /\ UNCHANGED files /\ pc \in {"snapdir", "headerdir"}
    BY <1>6 DEF SnapDirFails, HeaderDirFails
  <2>2. snap = record.state
    BY <1>2, <2>1 DEF CompactOK, CompactPcs
  <2> QED
    BY <1>4, <2>1, <2>2
<1>7. CASE SnapshotFails /\ snap = record.state /\ Partial
  BY <1>4, <1>7 DEF SnapshotFails
<1> QED
  BY <1>3, <1>5, <1>6, <1>7

\* The compaction is complete.
LEMMA CompactDoneSound ==
    ASSUME Types, Sound, CompactDone
    PROVE  Sound'
<1>1. pc = "headerdir" /\ pc' = "idle" /\ pc \in CompactPcs
  BY DEF CompactDone, CompactPcs
<1>2. /\ CompactOK /\ RebaseOK /\ record.state = index[caller] /\ Sole(caller) /\ Usable(caller)
      /\ caller \in Writers /\ record.state \in States
  BY <1>1, Compacting
<1>3. /\ snap = record.state /\ snap_disk = {snap} /\ log = NewLog(record.state) /\ log_disk = {log}
  BY <1>1, <1>2 DEF CompactOK, CompactPcs
<1>4. /\ UNCHANGED <<snap, snap_disk, log, log_disk, index, reload_required, rebased, caller>>
      /\ log_entry' = TRUE /\ acked' = record.state /\ doubt' = {}
      /\ rebase' = [rebase EXCEPT ![caller] = NoState]
  BY DEF CompactDone, LogDirSynced
<1>5. LogAfterCrash' = {log} /\ Expected' = {record.state} /\ Known' = {record.state}
  BY <1>3, <1>4 DEF LogAfterCrash, Expected, Known
<1>6. \A s \in Held' : s = record.state
  BY <1>2, <1>4 DEF Held, Usable, Sole
<1>7. Current(log)'
  <2>1. /\ Chain(log) /\ Recovered(snap, log) = record.state /\ log.base # NoState
        /\ Fits(record.state, log)
    BY <1>2, <1>3, NewLogs
  <2> QED
    BY <1>3, <1>4, <1>5, <1>6, <2>1
    DEF Current, Agrees, Chain, WellFormed, Recovered, Fits, StateAt, LastState
<1>8. (\A l \in LogAfterCrash : Left(l))'
  BY <1>4, <1>5, <1>7, CurrentLeftNext
<1>9. RebaseOK'
  <2>1. /\ rebase'[caller] = NoState
        /\ \A w \in Writers \ {caller} : rebase'[w] = rebase[w] /\ index[w] = NoState
    BY <1>2, <1>4 DEF Sole, Types, TypeOK
  <2> QED
    BY <1>2, <1>4, <2>1 DEF RebaseOK
<1> QED
  BY <1>1, <1>7, <1>8, <1>9 DEF Sound

-----------------------------------------------------------------------------
(* Opening, closing and catching up *)

\* A log ends in a state on its way.
LEMMA LastFits ==
    ASSUME NEW l, WellFormed(l), l.base # NoState
    PROVE  Fits(LastState(l), l)
<1>1. Len(l.recs) \in 0..Len(l.recs)
  BY LogFields DEF WellFormed
<1> QED
  BY <1>1 DEF Fits, LastState

\* Handles are opened on the snapshot or on what the files hold, while no call is in
\* progress.
LEMMA OpenSound ==
    ASSUME Types, Sound, pc = "idle", NEW w \in Writers,
           Load(w) \/ LoadWithDelta(w) \/ Free(w) \/ CatchUp(w)
    PROVE  Sound'
<1> DEFINE r == Recovered(snap, log)
<1>1. /\ Current(log) /\ RebaseOK /\ WellFormed(log) /\ snap \in States
  BY DEF Sound, Current, Chain, Types, TypeOK
<1>2. r \in States /\ RebaseAfterReplay(snap, log) \in {snap, NoState} /\ r # NoState
  BY <1>1, RecoveredType, StatesReal
<1>3. r = IF log.base = NoState THEN snap ELSE LastState(log)
  BY DEF Recovered
<1>4. Agrees(r, log) /\ Fits(r, log)
  BY <1>1, <1>3, LastFits DEF Agrees, Fits
<1> HIDE DEF r
<1>5. /\ UNCHANGED <<snap, snap_disk, log, log_disk, log_entry, acked, doubt, rebased, caller, pc>> /\ pc = "idle"
  BY DEF Load, LoadWithDelta, Free, CatchUp, files, callVars, history
<1>6. /\ adopted => adopted'
      /\ index'[w] = r /\ ~adopted' => LogAfterCrash = {log} \/ index'[w] = snap
  <2>1. CASE Load(w) \/ Free(w)
    <3>1. adopted' = adopted /\ index'[w] \in {snap, NoState}
      BY <2>1 DEF Load, Free, Opened, history, Types, TypeOK
    <3> QED
      BY <1>2, <3>1
  <2>2. CASE LoadWithDelta(w) \/ CatchUp(w)
    BY <2>2 DEF LoadWithDelta, CatchUp, Adopt
  <2> QED
    BY <2>1, <2>2
<1>7. /\ \A v \in Writers \ {w} : /\ index'[v] = index[v] /\ rebase'[v] = rebase[v]
                                  /\ reload_required'[v] = reload_required[v]
      /\ index'[w] \in {NoState, snap, r}
  BY <1>1, <1>2, <1>3 DEF Load, LoadWithDelta, Free, CatchUp, Opened, Matches, Types, TypeOK, r
<1>8. /\ index'[w] = NoState => rebase'[w] = NoState
      /\ rebase'[w] \in {NoState, snap}
  <2>1. rebase[w] \in {NoState, snap}
    BY <1>1, <1>5 DEF RebaseOK, CompactPcs
  <2>2. CASE Load(w) \/ Free(w)
    BY <2>2 DEF Load, Free, Opened, Types, TypeOK
  <2>3. CASE LoadWithDelta(w)
    BY <1>2, <2>3 DEF LoadWithDelta, Opened, Types, TypeOK, r
  <2>4. CASE CatchUp(w)
    <3>1. index'[w] = LastState(log) /\ log.base # NoState /\ rebase' = rebase
      BY <2>4 DEF CatchUp, Matches, Types, TypeOK
    <3> QED
      BY <1>2, <1>3, <2>1, <3>1
  <2> QED
    BY <2>2, <2>3, <2>4
<1>9. ASSUME NEW s \in Held'
      PROVE  \/ s \in Held \cup {snap}
             \/ Agrees(s, log) /\ (~adopted' => \A l \in LogAfterCrash' : Fits(s, l))
  <2>1. PICK v \in Writers : s = index'[v] /\ index'[v] # NoState /\ ~reload_required'[v]
    BY DEF Held, Usable
  <2>2. CASE v # w
    BY <1>7, <2>1, <2>2 DEF Held, Usable
  <2>3. CASE v = w /\ s = r /\ s # snap
    <3>1. LogAfterCrash' = LogAfterCrash
      BY <1>5 DEF LogAfterCrash
    <3> QED
      BY <1>4, <1>6, <2>1, <2>3, <3>1
  <2> QED
    BY <1>7, <2>1, <2>2, <2>3
<1>10. Current(log)' /\ (\A l \in LogAfterCrash : Left(l))'
  BY <1>1, <1>5, <1>6, <1>9, FilesSound
<1>11. RebaseOK'
  <2>1. \A v \in Writers \ {w} : /\ index[v] = NoState => rebase[v] = NoState
                                 /\ rebase[v] \in {NoState, snap}
    BY <1>1, <1>5 DEF RebaseOK, CompactPcs
  <2> QED
    BY <1>5, <1>7, <1>8, <2>1 DEF RebaseOK
<1> QED
  BY <1>5, <1>10, <1>11 DEF Sound

\* During a call another handle is opened on the snapshot, with which everybody agrees, or
\* is closed.  Callers that empty the log are alone and stay so.
LEMMA AsideSound ==
    ASSUME OneWriter, Types, Sound, pc # "idle", NEW w \in Writers, Load(w) \/ Free(w)
    PROVE  Sound'
<1>1. /\ UNCHANGED <<snap, snap_disk, log, log_disk, log_entry, acked, doubt, adopted, rebased,
                     pc, caller, record, old, failed>>
      /\ CallerOK /\ AppendOK /\ CompactOK /\ RebaseOK /\ Current(log) /\ snap \in States
  BY DEF Load, Free, files, callVars, history, Sound, Types, TypeOK
<1>2. w # caller /\ caller \in Writers
  BY StatesReal DEF Load, Free, Types, TypeOK
<1>3. /\ \A v \in Writers \ {w} : /\ index'[v] = index[v] /\ rebase'[v] = rebase[v]
                                  /\ reload_required'[v] = reload_required[v]
      /\ index'[w] \in {snap, NoState} /\ rebase'[w] = NoState
      /\ Free(w) => index'[w] = NoState
  BY DEF Load, Free, Opened, Types, TypeOK
<1>4. /\ index'[caller] = index[caller] /\ rebase'[caller] = rebase[caller]
      /\ reload_required'[caller] = reload_required[caller]
  BY <1>2, <1>3
<1>5. Held' \subseteq Held \cup {snap} /\ Expected' = Expected /\ Known' = Known
  BY <1>1, <1>3 DEF Held, Usable, Expected, Known
<1>6. Current(log)' /\ (\A l \in LogAfterCrash : Left(l))'
  BY <1>1, <1>5, FilesSound
<1>7. RebaseOK'
  BY <1>1, <1>2, <1>3 DEF RebaseOK
<1>8. Emptying \in {"snapshot", "rebase"} /\ Sole(caller) => Sole(caller)'
  <2>1. CASE Free(w)
    BY <1>1, <1>3, <2>1 DEF Sole
  <2>2. CASE Load(w)
    BY <2>2 DEF Load, OneWriter
  <2> QED
    BY <2>1, <2>2
<1>9. /\ record.op = "compact" => Emptying = "snapshot"
      /\ pc = "rebase" => record.op = "compact" \/ Emptying = "rebase"
      /\ pc = "heal" /\ RebaseDue(caller, log) => Emptying \in {"snapshot", "rebase"}
  BY DEF Emptying, AfterHeal
<1>10. CallerOK'
  <2>1. Usable(caller)' /\ (record.op = "compact" /\ Sole(caller) => Sole(caller)')
    BY <1>1, <1>4, <1>8, <1>9 DEF CallerOK, Usable
  <2>2. GoodRecord(index[caller], record) => GoodRecord(index[caller], record)'
    BY <1>1, <1>4 DEF GoodRecord, Applicable, Outcome
  <2> QED
    BY <1>1, <1>4, <1>5, <2>1, <2>2 DEF CallerOK, CompactPcs
<1>11. /\ UpToDate(log)' <=> UpToDate(log)
       /\ UpToDate(old)' <=> UpToDate(old)
       /\ RebaseDue(caller, log)' <=> RebaseDue(caller, log)
       /\ Appended(old, index[caller], record)' = Appended(old, index[caller], record)
       /\ CutShort(old, index[caller])' = CutShort(old, index[caller])
  BY <1>1, <1>4 DEF UpToDate, LastState, StateAt, RebaseDue, Appended, Started, CutShort, Torn, NewLog, TornHeader
<1>12. Current(old) => Current(old)'
  BY <1>1, <1>5 DEF Current, Agrees, Chain, WellFormed, Recovered, Fits, StateAt, LastState
<1>13. AppendOK'
  BY <1>1, <1>8, <1>9, <1>11, <1>12 DEF AppendOK
<1>14. CompactOK'
  BY <1>1, <1>11 DEF CompactOK, EmptyLog, NewLog
<1> QED
  BY <1>6, <1>7, <1>10, <1>13, <1>14 DEF Sound

\* A header cut short is removed, or that fails.
LEMMA ResetTornSound ==
    ASSUME Types, Sound, NEW w \in Writers, ResetTornHeader(w) \/ ResetTornHeaderFails(w)
    PROVE  Sound'
<1>1. /\ log = TornHeader /\ log' \in {TornHeader, EmptyLog} /\ pc = "idle"
      /\ \A l \in log_disk' : l \in log_disk \/ l = EmptyLog
      /\ UNCHANGED <<snap, snap_disk, log_entry, index, reload_required, rebase, acked, doubt, adopted, rebased,
                     caller, pc>>
  BY DEF ResetTornHeader, ResetTornHeaderFails, Truncate, TruncateFails, handles, callVars, history
<1>2. Current(EmptyLog) /\ Current(TornHeader)
  <2>1. Current(log) /\ log.base = NoState
    BY <1>1, EmptyLogs DEF Sound
  <2> QED
    BY <2>1, CurrentEmpty
<1>3. Current(log)' /\ (\A l \in LogAfterCrash : Left(l))'
  <2>1. PICK m : m = log'
    OBVIOUS
  <2>2. Current(m)
    BY <1>1, <1>2, <2>1
  <2> QED
    BY <1>1, <1>2, <2>1, <2>2, LogWritten
<1>4. RebaseOK'
  BY <1>1, RebaseStays DEF Sound, CompactPcs
<1> QED
  BY <1>1, <1>3, <1>4 DEF Sound

-----------------------------------------------------------------------------
(* A call begins *)

\* A handle that the log matches, and what the call is about.  The callers empty the log
\* only while no other handle is open.
LEMMA BeginSound ==
    ASSUME OneWriter, Types, Sound, NEW w \in Writers,
           NEW op \in {"add", "remove", "compact"}, NEW items, NEW s, Begin(w, op, items, s),
           doubt \subseteq doubt', s \in Expected',
           op = "compact" => s = index[w],
           op # "compact" => GoodRecord(index[w], [op |-> op, items |-> items, state |-> s])
    PROVE  Sound'
<1>1. /\ Current(log) /\ RebaseOK /\ WellFormed(log) /\ index[w] \in States
  BY DEF Sound, Current, Chain, Types, TypeOK, Begin
<1>2. /\ UNCHANGED <<snap, snap_disk, log, log_disk, log_entry, index, reload_required, rebase, acked, adopted, rebased>>
      /\ pc = "idle" /\ Usable(w) /\ Matches(w) /\ log # TornHeader /\ Permitted(w, AfterHeal(w, log, op))
      /\ caller' = w /\ record' = [op |-> op, items |-> items, state |-> s]
      /\ pc' = IF log.torn THEN "heal" ELSE AfterHeal(w, log, op)
  BY DEF Begin, Usable, files, handles
<1>3. /\ Expected \subseteq Expected' /\ Known' = Known /\ Held' = Held /\ LogAfterCrash' = LogAfterCrash
      /\ index[w] \in Held
  BY <1>2 DEF Expected, Known, Held, Usable, LogAfterCrash
<1>4. Current(log)'
  BY <1>1, <1>2, <1>3 DEF Current, Agrees, Chain, WellFormed, Recovered, Fits, StateAt, LastState
<1>5. (\A l \in LogAfterCrash : Left(l))'
  <2>1. \A l \in LogAfterCrash : Left(l)
    BY DEF Sound
  <2> QED
    BY <1>2, <1>3, <2>1 DEF Left
<1>6. RebaseOK'
  BY <1>1, <1>2 DEF RebaseOK, CompactPcs
<1>7. index[w] \in Expected'
  <2>1. Recovered(snap, log) \in Expected' /\ Agrees(index[w], log)
    BY <1>1, <1>3 DEF Current
  <2> QED
    BY <1>2, <2>1 DEF Recovered, Agrees, Matches
<1>8. /\ record'.op = op /\ record'.state = s /\ index'[caller'] = index[w]
      /\ op # "compact" => GoodRecord(index[w], record')
  BY <1>2
<1>9. /\ AfterHeal(w, log, op) \in {"snapshot", "rebase", "write"}
      /\ AfterHeal(w, log, op) = "snapshot" <=> op = "compact"
      /\ AfterHeal(w, log, op) = "rebase" <=> op # "compact" /\ RebaseDue(w, log)
  BY DEF AfterHeal
<1>10. op = "compact" \/ RebaseDue(w, log) => Sole(caller)'
  BY <1>2, <1>9 DEF Permitted, Sole, OneWriter
<1>11. CallerOK'
  <2>1. Usable(caller)'
    BY <1>2 DEF Usable
  <2>2. op # "compact" => GoodRecord(index[caller], record)'
    BY <1>2, <1>8 DEF GoodRecord, Applicable, Outcome
  <2>3. pc' # "heal" => (op = "compact" <=> pc' \in CompactPcs)
    BY <1>2, <1>9 DEF CompactPcs
  <2> QED
    BY <1>7, <1>8, <1>10, <2>1, <2>2, <2>3 DEF CallerOK
<1>12. UpToDate(log)'
  BY <1>2 DEF Matches, UpToDate, LastState, StateAt
<1>13. log.torn => log.base # NoState
  <2>1. ASSUME log.torn, log.base = NoState PROVE log = TornHeader
    BY <1>1, <2>1 DEF WellFormed, Logs, TornHeader
  <2> QED
    BY <1>2, <2>1
<1>14. RebaseDue(caller, log)' <=> RebaseDue(w, log)
  BY <1>2 DEF RebaseDue
<1>15. AppendOK'
  <2>1. pc' \in {"heal", "snapshot", "rebase", "write"} /\ (pc' = "heal" <=> log.torn)
    BY <1>2, <1>9
  <2>2. pc' = "rebase" => op # "compact" /\ RebaseDue(w, log)
    BY <1>2, <1>9
  <2> QED
    BY <1>2, <1>10, <1>12, <1>13, <1>14, <2>1, <2>2 DEF AppendOK
<1>16. CompactOK'
  BY <1>2, <1>9, <1>12 DEF CompactOK, CompactPcs
<1> QED
  BY <1>4, <1>5, <1>6, <1>11, <1>15, <1>16 DEF Sound

LEMMA MutateSound ==
    ASSUME OneWriter, Types, Sound, NEW w \in Writers, Mutate(w)
    PROVE  Sound'
<1>1. PICK op \in {"add", "remove"}, items \in SUBSET Items :
         LET r == [op |-> op, items |-> items]  s == Outcome(index[w], r)
         IN  /\ items # {} /\ (op = "remove" => Cardinality(items) = 1)
             /\ Applicable(index[w], r)
             /\ Begin(w, op, items, s) /\ doubt' = doubt \cup {s}
  BY DEF Mutate
<1> DEFINE s == Outcome(index[w], [op |-> op, items |-> items])
<1>2. GoodRecord(index[w], [op |-> op, items |-> items, state |-> s])
  BY <1>1 DEF GoodRecord, Applicable, Outcome
<1>3. doubt \subseteq doubt' /\ s \in Expected' /\ op \in {"add", "remove", "compact"} /\ op # "compact"
      /\ Begin(w, op, items, s)
  BY <1>1 DEF Expected
<1> HIDE DEF s
<1> QED
  BY <1>2, <1>3, BeginSound

LEMMA CompactSound ==
    ASSUME OneWriter, Types, Sound, NEW w \in Writers, Compact(w)
    PROVE  Sound'
<1>1. Begin(w, "compact", {}, index[w]) /\ doubt' = doubt /\ acked' = acked
  BY DEF Compact, Begin
<1>2. index[w] \in Expected
  <2>1. /\ Current(log) /\ Usable(w) /\ Matches(w)
    BY <1>1 DEF Sound, Begin, Usable
  <2>2. Recovered(snap, log) \in Expected /\ Agrees(index[w], log)
    BY <2>1 DEF Current, Held
  <2> QED
    BY <2>1, <2>2 DEF Recovered, Agrees, Matches
<1>3. index[w] \in Expected'
  BY <1>1, <1>2 DEF Expected
<1>4. PICK op : op = "compact"
  OBVIOUS
<1> QED
  BY <1>1, <1>3, <1>4, BeginSound

-----------------------------------------------------------------------------
(* Crashes *)

\* The caller is killed; what it was writing may be cut short.
LEMMA KilledSound ==
    ASSUME Types, Sound, Killed
    PROVE  Sound'
<1>1. pc # "idle" /\ CallerOK /\ AppendOK /\ CompactOK /\ Current(log) /\ RebaseOK /\ caller \in Writers
  BY DEF Killed, Sound, Types, TypeOK
<1>2. Usable(caller) /\ index[caller] \in Expected
  BY <1>1 DEF CallerOK
<1>3. pc = "write" => \A m \in CutShort(log, index[caller]) : Current(m)
  BY <1>1, <1>2, CurrentAppend DEF AppendOK
<1>4. pc = "header" => Current(TornHeader)
  BY ResetLogs
<1>5. PICK m : log' = m /\ log_disk' = log_disk \cup {m} /\ Current(m)
  BY <1>1, <1>3, <1>4 DEF Killed
<1>6. /\ UNCHANGED <<snap, snap_disk, log_entry, acked, doubt, adopted, rebased, caller>> /\ pc' = "idle"
      /\ index'[caller] = NoState /\ rebase'[caller] = NoState
      /\ \A w \in Writers \ {caller} : /\ index'[w] = index[w] /\ rebase'[w] = rebase[w]
                                       /\ reload_required'[w] = reload_required[w]
  BY DEF Killed, Opened, history, Types, TypeOK
<1>7. Held' \subseteq Held
  <2>1. ASSUME NEW s \in Held' PROVE s \in Held
    <3>1. PICK v \in Writers : s = index'[v] /\ index'[v] # NoState /\ ~reload_required'[v]
      BY <2>1 DEF Held, Usable
    <3> QED
      BY <1>6, <3>1 DEF Held, Usable
  <2> QED
    BY <2>1
<1>8. Current(log)' /\ (\A l \in LogAfterCrash : Left(l))'
  BY <1>5, <1>6, <1>7, FilesSound
<1>9. RebaseOK'
  BY <1>1, <1>6 DEF RebaseOK
<1> QED
  BY <1>6, <1>8, <1>9 DEF Sound

\* What a power loss leaves can be recovered, or is not usable because somebody has
\* built on what was not durable.
LEMMA PowerLossSound ==
    ASSUME Types, Sound, PowerLoss
    PROVE  Sound' \/ Unusable'
<1>1. PICK m, p : m = log' /\ p = snap'
  OBVIOUS
<1>2. /\ p \in snap_disk /\ snap_disk' = {p} /\ log_disk' = {m}
      /\ m \in LogAfterCrash /\ (m # EmptyLog => log_entry') /\ LogAfterCrash' = {m}
  BY <1>1 DEF PowerLoss, LogAfterCrash
<1>3. Left(m) /\ Chain(m)
  BY <1>2 DEF Sound, Left
<1>4. /\ \A w \in Writers : index'[w] = NoState /\ rebase'[w] = NoState
      /\ pc' = "idle" /\ doubt' = {}
  BY DEF PowerLoss
<1>5. Held' = {} /\ RebaseOK'
  BY <1>4 DEF Held, Usable, RebaseOK
<1>6. CASE Replays(p, m)
  <2>1. acked' = Recovered(p, m) /\ ~rebased'
    BY <1>1, <1>6 DEF PowerLoss
  <2>2. Fits(p, m)
    BY <1>3, <1>6, ReplaysIsFits
  <2>3. Known' = {p} /\ Expected' = {Recovered(p, m)}
    BY <1>1, <1>2, <1>4, <2>1 DEF Known, Expected
  <2>4. Current(log)'
    BY <1>1, <1>3, <1>5, <2>2, <2>3 DEF Current, Agrees, Chain, WellFormed, Recovered, Fits, StateAt, LastState
  <2>5. (\A l \in LogAfterCrash : Left(l))'
    BY <1>1, <1>2, <2>4, CurrentLeftNext
  <2> QED
    BY <1>4, <1>5, <2>4, <2>5 DEF Sound
<1>7. CASE ~Replays(p, m)
  <2>1. ~Fits(p, m)
    BY <1>3, <1>7, ReplaysIsFits
  <2>2. adopted \/ rebased
    BY <1>2, <1>3, <2>1 DEF Left, Known
  <2>3. adopted' \/ rebased'
    BY <1>1, <1>7, <2>2 DEF PowerLoss
  <2>4. log_entry'
    BY <1>2, <2>1, EmptyLogs
  <2>5. ~Fits(snap, log)' /\ Chain(log)'
    BY <1>1, <1>3, <2>1 DEF Fits, Chain, WellFormed, StateAt
  <2> QED
    BY <1>1, <1>2, <1>4, <2>3, <2>4, <2>5 DEF Unusable
<1> QED
  BY <1>6, <1>7

\* Nobody changes a pair that does not fit: it cannot be loaded with its log, and no
\* handle on the snapshot alone matches or catches up with the log.
LEMMA UnusableStays ==
    ASSUME Types, Unusable, Next
    PROVE  Unusable'
<1>1. /\ ~Fits(snap, log) /\ Chain(log) /\ WellFormed(log)
      /\ pc = "idle" /\ snap_disk = {snap} /\ log_disk = {log} /\ log_entry
      /\ \A w \in Writers : index[w] \in {NoState, snap} /\ rebase[w] = NoState
      /\ adopted \/ rebased
  BY DEF Unusable, Chain
<1>2. log.base # NoState /\ ~Replays(snap, log) /\ LastState(log) # snap /\ log # TornHeader
  <2>1. log.base # NoState
    BY <1>1 DEF Fits
  <2>2. ~Replays(snap, log)
    BY <1>1, ReplaysIsFits
  <2>3. LastState(log) # snap
    BY <1>1, <2>1, LastFits
  <2> QED
    BY <2>1, <2>2, <2>3, EmptyLogs
<1>3. ASSUME NEW w \in Writers, index[w] # NoState PROVE ~Matches(w) /\ ~Replays(index[w], log)
  BY <1>1, <1>2, <1>3 DEF Matches
<1>4. ASSUME NEW w \in Writers
      PROVE  /\ ~LoadWithDelta(w) /\ ~ResetTornHeader(w) /\ ~ResetTornHeaderFails(w)
             /\ ~CatchUp(w) /\ ~Mutate(w) /\ ~Compact(w)
  BY <1>2, <1>3 DEF LoadWithDelta, ResetTornHeader, ResetTornHeaderFails, CatchUp, Mutate, Compact, Begin
<1>5. ~AppendStep /\ ~CompactStep /\ ~Killed
  BY <1>1 DEF AppendStep, CompactStep, Killed, Heal, HealFails, Rebase, RebaseFails, Write, WriteFails,
     Sync, SyncFails, MutationDone, LogDirFails, Undo, UndoFails, Rename, SnapshotFails, SnapDirSync,
     SnapDirFails, EmptyTheLog, EmptyFails, WriteHeader, HeaderSync, HeaderFails, CompactDone, HeaderDirFails
<1>6. ASSUME UNCHANGED <<snap, snap_disk, log, log_disk, log_entry>>, pc' = "idle", adopted' \/ rebased',
             \A w \in Writers : index'[w] \in {NoState, snap} /\ rebase'[w] = NoState
      PROVE  Unusable'
  BY <1>1, <1>6 DEF Unusable, Fits, Chain, WellFormed, StateAt
<1>7. ASSUME NEW w \in Writers, Load(w) \/ Free(w) PROVE Unusable'
  <2>1. /\ UNCHANGED <<snap, snap_disk, log, log_disk, log_entry, adopted, rebased>> /\ pc' = "idle"
    BY <1>1, <1>7 DEF Load, Free, files, callVars, history
  <2>2. \A v \in Writers : index'[v] \in {NoState, snap} /\ rebase'[v] = NoState
    BY <1>1, <1>7 DEF Load, Free, Opened, Types, TypeOK
  <2> QED
    BY <1>1, <1>6, <2>1, <2>2
<1>8. CASE PowerLoss
  <2>1. snap' = snap /\ snap_disk' = {snap} /\ log' = log /\ log_disk' = {log} /\ log_entry' = TRUE /\ pc' = "idle"
    BY <1>1, <1>8 DEF PowerLoss
  <2>2. adopted' \/ rebased'
    BY <1>1, <1>2, <1>8, <2>1 DEF PowerLoss
  <2>3. \A v \in Writers : index'[v] = NoState /\ rebase'[v] = NoState
    BY <1>8 DEF PowerLoss
  <2>4. log_entry = TRUE
    BY <1>1 DEF Types, TypeOK
  <2> QED
    BY <1>1, <1>6, <2>1, <2>2, <2>3, <2>4
<1> QED
  BY <1>4, <1>5, <1>7, <1>8 DEF Next

-----------------------------------------------------------------------------
(* The inductive invariant *)

LEMMA SoundInit == Init => Sound
<1> SUFFICES ASSUME Init PROVE Sound
  OBVIOUS
<1>1. /\ snap = {} /\ snap_disk = {{}} /\ log = EmptyLog /\ LogAfterCrash = {EmptyLog}
      /\ acked = {} /\ ~rebased /\ pc = "idle"
      /\ \A w \in Writers : index[w] = NoState /\ rebase[w] = NoState
  BY DEF Init, LogAfterCrash
<1>2. Held = {} /\ Known = {snap} /\ snap \in Expected
  BY <1>1 DEF Held, Usable, Known, Expected
<1>3. Current(EmptyLog)
  BY <1>2, EmptyLogs DEF Current
<1>4. RebaseOK
  BY <1>1 DEF RebaseOK
<1> QED
  BY <1>1, <1>3, <1>4, CurrentLeft DEF Sound

\* Nothing changes.
LEMMA StutterSound ==
    ASSUME Inv, UNCHANGED vars
    PROVE  Sound' \/ Unusable'
<1>1. UNCHANGED <<snap, snap_disk, log, log_disk, log_entry, index, reload_required, rebase, pc, caller, record,
                  old, failed, acked, doubt, adopted, rebased>>
  BY DEF vars, files, handles, callVars, history
<1>2. CASE Sound
  <2>1. Current(log) /\ RebaseOK
    BY <1>2 DEF Sound
  <2>2. Current(log)' /\ (\A l \in LogAfterCrash : Left(l))'
    BY <1>1, <1>2, <2>1, LogWritten
  <2>3. RebaseOK'
    BY <1>1, <2>1 DEF RebaseOK
  <2>4. ASSUME pc # "idle" PROVE (CallerOK /\ AppendOK /\ CompactOK)'
    <3>1. CallerOK /\ AppendOK /\ CompactOK
      BY <1>2, <2>4 DEF Sound
    <3>2. CallerOK'
      BY <1>1, <3>1, CallerStays DEF CallerOK
    <3>3. /\ UpToDate(log)' <=> UpToDate(log)
          /\ UpToDate(old)' <=> UpToDate(old)
          /\ RebaseDue(caller, log)' <=> RebaseDue(caller, log)
          /\ Sole(caller)' <=> Sole(caller)
          /\ Appended(old, index[caller], record)' = Appended(old, index[caller], record)
          /\ CutShort(old, index[caller])' = CutShort(old, index[caller])
      BY <1>1 DEF UpToDate, LastState, StateAt, RebaseDue, Sole, Appended, Started, CutShort, Torn, NewLog, TornHeader
    <3>4. Current(old) => Current(old)'
      <4>1. Expected' = Expected /\ Known' = Known /\ Held' = Held
        BY <1>1 DEF Expected, Known, Held, Usable
      <4> QED
        BY <1>1, <4>1 DEF Current, Agrees, Chain, WellFormed, Recovered, Fits, StateAt, LastState
    <3>5. AppendOK'
      BY <1>1, <3>1, <3>3, <3>4 DEF AppendOK
    <3>6. CompactOK'
      BY <1>1, <3>1, <3>3 DEF CompactOK, EmptyLog, NewLog
    <3> QED
      BY <3>2, <3>5, <3>6
  <2> QED
    BY <1>1, <2>2, <2>3, <2>4 DEF Sound
<1>3. CASE Unusable
  BY <1>1, <1>3 DEF Unusable, Fits, Chain, WellFormed, StateAt
<1> QED
  BY <1>2, <1>3 DEF Inv

LEMMA SoundStep ==
    ASSUME OneWriter, Types, Sound, Next
    PROVE  Sound' \/ Unusable'
<1>1. ASSUME NEW w \in Writers, Load(w) \/ LoadWithDelta(w) \/ Free(w) \/ CatchUp(w) PROVE Sound'
  <2>1. pc = "idle" \/ Load(w) \/ Free(w)
    BY <1>1 DEF LoadWithDelta, CatchUp
  <2> QED
    BY <1>1, <2>1, OpenSound, AsideSound
<1>2. ASSUME NEW w \in Writers, ResetTornHeader(w) \/ ResetTornHeaderFails(w) PROVE Sound'
  BY <1>2, ResetTornSound
<1>3. ASSUME NEW w \in Writers, Mutate(w) PROVE Sound'
  BY <1>3, MutateSound
<1>4. ASSUME NEW w \in Writers, Compact(w) PROVE Sound'
  BY <1>4, CompactSound
<1>5. CASE AppendStep
  BY <1>5, HealSound, HealFailsSound, RebaseSound, WriteSound, SyncSound, UndoSound, UndoFailsSound,
     MutationDoneSound DEF AppendStep
<1>6. CASE CompactStep
  BY <1>6, RenameSound, SnapDirSyncSound, ResetSound, CompactFailsSound, CompactDoneSound DEF CompactStep
<1>7. CASE Killed
  BY <1>7, KilledSound
<1>8. CASE PowerLoss
  BY <1>8, PowerLossSound
<1> QED
  BY <1>1, <1>2, <1>3, <1>4, <1>5, <1>6, <1>7, <1>8 DEF Next

LEMMA InvStep ==
    ASSUME OneWriter
    PROVE  Inv /\ [Next]_vars => Inv'
<1> SUFFICES ASSUME Inv, [Next]_vars PROVE Inv'
  OBVIOUS
<1>1. Types'
  BY TypesStep DEF Inv
<1>2. Sound' \/ Unusable'
  BY SoundStep, UnusableStays, StutterSound DEF Inv
<1> QED
  BY <1>1, <1>2 DEF Inv

\* Snapshot and log fit together in every reachable state, as processes see them and as
\* a power loss may leave them, or a power loss has left a pair that nobody can change.
THEOREM VectorInvariant ==
    ASSUME OneWriter
    PROVE  Spec => []Inv
<1>1. Init => Inv
  BY TypesInit, SoundInit DEF Inv
<1>2. Inv /\ [Next]_vars => Inv'
  BY InvStep
<1> QED
  BY <1>1, <1>2, PTL DEF Spec

\* A recovery that succeeds after a power loss gives the state of the last mutation that
\* returned OK, or of one that did not return OK since (append_delta_record()).
THEOREM VectorNothingLost ==
    ASSUME OneWriter
    PROVE  Spec => []NothingLost
<1>1. Inv => NothingLost
  <2> SUFFICES ASSUME Inv, ~rebased, NEW s \in snap_disk, NEW l \in LogAfterCrash, Replays(s, l)
               PROVE  Recovered(s, l) \in Expected
    BY DEF NothingLost, Expected
  <2>1. CASE Sound
    BY <2>1 DEF Sound, Left, Known
  <2>2. CASE Unusable
    BY <2>2, ReplaysIsFits DEF Unusable, LogAfterCrash
  <2> QED
    BY <2>1, <2>2 DEF Inv
<1> QED
  BY <1>1, VectorInvariant, PTL

\* Whatever a power loss leaves of snapshot and log fits together, unless a handle has
\* built on a record or a snapshot that was not yet durable.
THEOREM VectorRecoveryWorks ==
    ASSUME OneWriter
    PROVE  Spec => []RecoveryWorks
<1>1. Inv => RecoveryWorks
  <2> SUFFICES ASSUME Inv, ~adopted, ~rebased, NEW s \in snap_disk, NEW l \in LogAfterCrash
               PROVE  Replays(s, l)
    BY DEF RecoveryWorks
  <2>1. Sound
    BY DEF Inv, Unusable
  <2>2. Left(l) /\ s \in Known
    BY <2>1 DEF Sound, Known
  <2> QED
    BY <2>2, ReplaysIsFits DEF Left
<1> QED
  BY <1>1, VectorInvariant, PTL

\* A mutation that returns OK was applied to the state the earlier ones have led to.
THEOREM VectorNoLostUpdate ==
    ASSUME OneWriter
    PROVE  Spec => NoLostUpdate
<1> DEFINE Built == MutationDone =>
               \E s \in {acked} \cup doubt : Applicable(s, record) /\ acked' = Outcome(s, record)
<1>1. Inv /\ [Next]_vars => [Built]_vars
  <2> SUFFICES ASSUME Inv, MutationDone
               PROVE  \E s \in {acked} \cup doubt : Applicable(s, record) /\ acked' = Outcome(s, record)
    OBVIOUS
  <2>1. pc = "logdir" /\ acked' = record.state
    BY DEF MutationDone
  <2>2. CallerOK
    BY <2>1 DEF Inv, Sound, Unusable
  <2>3. index[caller] \in Expected /\ GoodRecord(index[caller], record)
    BY <2>1, <2>2 DEF CallerOK, CompactPcs
  <2> QED
    BY <2>1, <2>3 DEF GoodRecord, Expected
<1> QED
  BY <1>1, VectorInvariant, PTL DEF Spec, NoLostUpdate

\* A handle that agrees with a log that ends where it is holds what the files hold.
LEMMA HandleHas ==
    ASSUME Types, Usable(caller), NEW l, Current(l), UpToDate(l)
    PROVE  Replays(snap, l) /\ Recovered(snap, l) = index[caller]
<1>1. Chain(l) /\ Agrees(snap, l) /\ Agrees(index[caller], l)
  BY CallerHeld DEF Current
<1>2. Replays(snap, l)
  BY <1>1, ReplaysIsFits DEF Agrees, Fits
<1> QED
  BY <1>1, <1>2 DEF Agrees, Recovered, UpToDate

\* An append ends, or one of its steps fails.
LEMMA AppendEnds ==
    ASSUME Types, Sound, AppendStep, pc' = "idle"
    PROVE  Replays(snap', log') /\ Recovered(snap', log') = index'[caller]
<1>1. /\ pc # "idle" /\ CallerOK /\ AppendOK /\ Current(log) /\ RebaseOK /\ caller \in Writers
      /\ snap' = snap
  BY DEF Sound, Types, TypeOK, AppendStep, Heal, HealFails, Rebase, RebaseFails, Write, WriteFails, Sync, SyncFails,
     MutationDone, LogDirFails, LogDirSynced, Undo, UndoFails, files
<1>2. Usable(caller) /\ index[caller] \in Expected
  BY <1>1 DEF CallerOK
<1>3. CASE HealFails
  <2>1. UpToDate(log) /\ log \in Logs /\ index' = index
    BY <1>1, <1>3 DEF AppendOK, HealFails, handles, Current, Chain, WellFormed
  <2>2. Current(Healed(log)) /\ UpToDate(Healed(log))
    BY <1>1, <2>1, HealedTorn, CurrentSame, SameStates DEF UpToDate
  <2>3. log' \in {log, Healed(log)}
    BY <1>3 DEF HealFails, TruncateFails
  <2> QED
    BY <1>1, <1>2, <2>1, <2>2, <2>3, HandleHas
<1>4. CASE RebaseFails
  <2>1. UpToDate(log) /\ RebaseDue(caller, log) /\ index' = index /\ pc = "rebase"
    BY <1>1, <1>4 DEF AppendOK, RebaseFails, handles
  <2>2. index[caller] = snap
    BY <1>1, <1>2, <2>1 DEF RebaseOK, RebaseDue, Usable, CompactPcs
  <2>3. CASE log' = log
    BY <1>1, <1>2, <2>1, <2>3, HandleHas
  <2>4. CASE log' = EmptyLog
    BY <1>1, <2>1, <2>2, <2>4, EmptyLogs DEF Replays, Recovered
  <2> QED
    BY <1>4, <2>3, <2>4 DEF RebaseFails, TruncateFails
<1>5. CASE MutationDone
  <2>1. Current(old) /\ UpToDate(old) /\ log = Appended(old, index[caller], record) /\ record.op # "compact"
    BY <1>1, <1>5 DEF AppendOK, MutationDone, CallerOK, CompactPcs
  <2>2. GoodRecord(index[caller], record) /\ record.state \in Expected
    BY <1>1, <2>1 DEF CallerOK
  <2>3. LastState(log) = record.state /\ log.base # NoState
    BY <1>2, <2>1, <2>2, CurrentAppend
  <2>4. log' = log /\ index'[caller] = record.state
    BY <1>1, <1>5 DEF MutationDone, LogDirSynced, Types, TypeOK
  <2>5. Replays(snap, log)
    BY <1>1, <2>3, ReplaysIsFits DEF Current, Agrees
  <2> QED
    BY <1>1, <2>3, <2>4, <2>5 DEF Recovered
<1>6. CASE Undo
  <2>1. Current(old) /\ UpToDate(old) /\ log' = old /\ index' = index
    BY <1>1, <1>6 DEF AppendOK, Undo, Truncate, handles
  <2> QED
    BY <1>1, <1>2, <2>1, HandleHas
<1>7. CASE UndoFails
  <2> DEFINE a == Appended(old, index[caller], record)
             cut == CutShort(old, index[caller])
             complete == log'.base # NoState /\ ~log'.torn /\ LastState(log') = record.state
  <2>1. /\ Current(old) /\ UpToDate(old) /\ ~old.torn /\ record.op # "compact"
        /\ log \in cut \cup {a} /\ log' \in {log, old}
        /\ index'[caller] = IF complete THEN record.state ELSE index[caller]
    BY <1>1, <1>7 DEF AppendOK, UndoFails, TruncateFails, CallerOK, CompactPcs, Types, TypeOK
  <2>2. GoodRecord(index[caller], record) /\ record.state \in Expected
    BY <1>1, <2>1 DEF CallerOK
  <2>3. /\ \A m \in cut : Current(m) /\ UpToDate(m)
        /\ Current(a) /\ LastState(a) = record.state /\ a.base # NoState /\ (a.torn => old.torn)
    BY <1>2, <2>1, <2>2, CurrentAppend
  <2>4. old \in cut
    BY DEF CutShort
  <2>5. PICK m : m = log' /\ m \in cut \cup {a}
    BY <2>1, <2>4
  <2> HIDE DEF a, cut
  <2>6. CASE complete
    <3>1. Current(m) /\ m.base # NoState
      BY <2>3, <2>5, <2>6
    <3>2. Replays(snap, m)
      BY <3>1, ReplaysIsFits DEF Current, Agrees
    <3> QED
      BY <1>1, <2>1, <2>5, <2>6, <3>1, <3>2 DEF Recovered
  <2>7. CASE ~complete
    <3>1. m \in cut
      BY <2>1, <2>3, <2>5, <2>7
    <3>2. index'[caller] = index[caller]
      BY <2>1, <2>7
    <3> QED
      BY <1>1, <1>2, <2>3, <2>5, <3>1, <3>2, HandleHas
  <2> QED
    BY <2>6, <2>7
<1> QED
  BY <1>1, <1>3, <1>4, <1>5, <1>6, <1>7
  DEF AppendStep, Heal, AfterHeal, Rebase, Write, WriteFails, Sync, SyncFails, LogDirFails

\* A compaction ends, or one of its steps fails.
LEMMA CompactEnds ==
    ASSUME Types, Sound, CompactStep, pc' = "idle"
    PROVE  Replays(snap', log') /\ Recovered(snap', log') = index'[caller]
<1>1. /\ pc \in CompactPcs
      /\ SnapshotFails \/ SnapDirFails \/ EmptyFails \/ HeaderFails \/ HeaderDirFails \/ CompactDone
  BY DEF CompactStep, Rename, SnapshotFails, SnapDirSync, SnapDirFails, EmptyTheLog, EmptyFails, WriteHeader,
     HeaderSync, HeaderFails, CompactDone, HeaderDirFails, CompactPcs
<1>2. CompactOK /\ Current(log) /\ Usable(caller) /\ record.state = index[caller] /\ record.state \in States
  BY <1>1, Compacting
<1>3. snap' = snap /\ index' = index
  BY <1>1 DEF SnapshotFails, SnapDirFails, EmptyFails, HeaderFails, HeaderDirFails, CompactDone, LogDirSynced,
     Partial, files, handles
<1>4. UpToDate(EmptyLog) /\ UpToDate(TornHeader) /\ UpToDate(NewLog(record.state))
  BY <1>2, EmptyLogs, NewLogs DEF UpToDate
<1>5. CASE pc \in {"snapshot", "snapdir"}
  <2>1. log' = log /\ UpToDate(log)
    BY <1>1, <1>2, <1>5 DEF SnapshotFails, SnapDirFails, EmptyFails, HeaderFails, HeaderDirFails, CompactDone,
       files, CompactOK
  <2> QED
    BY <1>2, <1>3, <2>1, HandleHas
<1>6. CASE pc \in {"empty", "header", "headersync", "headerdir"}
  <2>1. Current(EmptyLog) /\ Current(TornHeader) /\ Current(NewLog(record.state))
    BY <1>6, ResetLogs
  <2>2. UpToDate(log)
    <3>1. CASE pc = "empty"
      BY <1>2, <3>1 DEF CompactOK
    <3>2. CASE pc # "empty"
      BY <1>2, <1>4, <1>6, <3>2 DEF CompactOK
    <3> QED
      BY <3>1, <3>2
  <2>3. log' \in {log, EmptyLog, TornHeader, NewLog(record.state)}
    BY <1>1, <1>6 DEF SnapshotFails, SnapDirFails, EmptyFails, HeaderFails, HeaderDirFails, CompactDone,
       LogDirSynced, Truncate, TruncateFails, files
  <2>4. PICK m : m = log' /\ Current(m) /\ UpToDate(m)
    BY <1>2, <1>4, <2>1, <2>2, <2>3
  <2> QED
    BY <1>2, <1>3, <2>4, HandleHas
<1> QED
  BY <1>1, <1>5, <1>6 DEF CompactPcs

\* However a call ends, with success or with an error half way, its handle holds what
\* snapshot and log hold.
THEOREM VectorHandleMatchesFiles ==
    ASSUME OneWriter
    PROVE  Spec => HandleMatchesFiles
<1> DEFINE Same == pc # "idle" /\ pc' = "idle" /\ index'[caller] # NoState
                      => Replays(snap', log') /\ Recovered(snap', log') = index'[caller]
<1>1. Inv /\ [Next]_vars => [Same]_vars
  <2> SUFFICES ASSUME Inv, Next, pc # "idle", pc' = "idle", index'[caller] # NoState
               PROVE  Replays(snap', log') /\ Recovered(snap', log') = index'[caller]
    OBVIOUS
  <2>1. Types /\ Sound /\ caller \in Writers
    BY DEF Inv, Unusable, Types, TypeOK
  <2>2. ~Killed /\ ~PowerLoss
    BY <2>1 DEF Killed, PowerLoss, Opened, Types, TypeOK
  <2>3. AppendStep \/ CompactStep
    <3>1. ASSUME NEW w \in Writers
          PROVE  /\ ~Load(w) /\ ~LoadWithDelta(w) /\ ~Free(w) /\ ~ResetTornHeader(w)
                 /\ ~ResetTornHeaderFails(w) /\ ~CatchUp(w) /\ ~Mutate(w) /\ ~Compact(w)
      BY DEF Load, LoadWithDelta, Free, ResetTornHeader, ResetTornHeaderFails, CatchUp, Mutate, Compact, Begin,
         callVars
    <3> QED
      BY <2>2, <3>1 DEF Next
  <2>4. CASE AppendStep
    BY <2>1, <2>4, AppendEnds
  <2>5. CASE CompactStep
    BY <2>1, <2>5, CompactEnds
  <2> QED
    BY <2>3, <2>4, <2>5
<1> QED
  BY <1>1, VectorInvariant, PTL DEF Spec, HandleMatchesFiles
=============================================================================
