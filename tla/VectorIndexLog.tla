--------------------------- MODULE VectorIndexLog ---------------------------
(***************************************************************************)
(* Persistence of the vector index (ggml-vector-index-persistence.cpp and    *)
(* the logged mutations of ggml-vector-index.cpp): a snapshot file that is   *)
(* replaced by rename, and a delta log whose header names the state it       *)
(* extends and whose records carry the state they lead to.                   *)
(*                                                                         *)
(* A call on the log holds its exclusive lock from its first look at the     *)
(* files to its end, so one such call is in progress at a time; each of its  *)
(* steps is one write, truncation, rename or sync.  Every such step may      *)
(* fail, the calling process may be killed before it, and the machine may    *)
(* lose power.                                                              *)
(*                                                                         *)
(* A file has the content processes see and the set of contents a power loss *)
(* may leave; a sync makes the two agree.  The entries of the two files in    *)
(* their directories are synced separately: the directories may differ.       *)
(* An append that is cut short leaves a prefix of it.  A missing log and an   *)
(* empty one are read alike.                                                  *)
(* The state identity of an index (DeltaStateWide, a hash over its entries)  *)
(* is the set of its entries.                                               *)
(***************************************************************************)
EXTENDS Integers, Sequences, FiniteSets

CONSTANTS
    Items,          \* entries: an id with its vector
    Writers,        \* handles on the pair of files
    NoState,        \* no index state
    Alone,          \* ways to empty the log that callers use only while no other handle is open
    MaxRecords,     \* bound: records in the log
    MaxMishaps      \* bound: failing system calls, kills and power losses

ASSUME VectorAssumption ==
    /\ IsFiniteSet(Items)
    /\ \A s \in SUBSET Items : s # NoState
    /\ Alone \subseteq {"snapshot", "rebase"}
    /\ {MaxRecords, MaxMishaps} \subseteq Nat

VARIABLES
    snap, snap_disk,    \* the snapshot: as seen, as a power loss may leave it
    log, log_disk,      \* the log, likewise
    log_entry,          \* the log's directory entry is durable
    index,              \* of each handle: its entries, or NoState if it is closed
    reload_required, rebase,    \* delta_log_reload_required, delta_log_rebase_*
    pc, caller,         \* next step of the call in progress
    record,             \* what the call does: operation, entries, resulting state
    old, failed,        \* append: the log to go back to; what went wrong
    acked,              \* history: state after the last mutation that succeeded
    doubt,              \* history: states of mutations that did not return OK
    adopted,            \* history: a handle has read a record that may not be durable
    rebased,            \* history: the log was emptied for a snapshot that may not be durable
    mishaps             \* bounded by MaxMishaps

files == <<snap, snap_disk, log, log_disk, log_entry>>
handles == <<index, reload_required, rebase>>
callVars == <<pc, caller, record, old, failed>>
history == <<acked, doubt, adopted, rebased>>
vars == <<files, handles, callVars, history, mishaps>>

-----------------------------------------------------------------------------
(* Logs *)

EmptyLog == [base |-> NoState, recs |-> <<>>, torn |-> FALSE]
TornHeader == [base |-> NoState, recs |-> <<>>, torn |-> TRUE]
NewLog(s) == [base |-> s, recs |-> <<>>, torn |-> FALSE]
Torn(l) == [l EXCEPT !.torn = TRUE]
Healed(l) == [l EXCEPT !.torn = FALSE]

\* State after the first i records
StateAt(l, i) == IF i = 0 THEN l.base ELSE l.recs[i].state
LastState(l) == StateAt(l, Len(l.recs))

Applicable(s, r) == IF r.op = "add" THEN r.items \cap s = {} ELSE r.items \subseteq s
Outcome(s, r) == IF r.op = "add" THEN s \cup r.items ELSE s \ r.items

\* delta_state_transition_valid()
TransitionValid(s, r) ==
    /\ r.state # s
    /\ r.op = "add" => Cardinality(r.state) = Cardinality(s) + Cardinality(r.items)
    /\ r.op = "remove" => Cardinality(r.items) = 1 /\ Cardinality(s) = Cardinality(r.state) + 1

\* replay_delta_log() on an index in state s: the records from the first occurrence
\* of s on are applied, and each must lead to the state it carries.
Replays(s, l) ==
    l.base # NoState =>
        /\ \E i \in 0..Len(l.recs) : StateAt(l, i) = s
        /\ \A j \in 1..Len(l.recs) :
              LET before == StateAt(l, j - 1)  r == l.recs[j]
              IN  /\ TransitionValid(before, r)
                  /\ (\E i \in 0..(j - 1) : StateAt(l, i) = s)
                        => Applicable(before, r) /\ r.state = Outcome(before, r)

Recovered(s, l) == IF l.base = NoState THEN s ELSE LastState(l)

\* The replay found the snapshot's state only at the end of a log that starts elsewhere.
RebaseAfterReplay(s, l) ==
    IF l.base # NoState /\ \A i \in 0..(Len(l.recs) - 1) : StateAt(l, i) # s
    THEN IF l.base = s THEN NoState ELSE s
    ELSE NoState

\* delta_log_matches_index_unlocked(): an empty log matches every state.
Matches(w) == log.base # NoState => LastState(log) = index[w]

\* What a power loss may leave of the log
LogAfterCrash == log_disk \cup (IF log_entry THEN {} ELSE {EmptyLog})

\* Mutant: no header in front of the first record.
Started_NoHeader(l, s) == l

\* A record appended by a handle in state s; an empty log gets its header first.
Started(l, s) == IF l.base = NoState THEN NewLog(s) ELSE l
Appended(l, s, r) == [Started(l, s) EXCEPT !.recs = Append(@, r)]

\* What an append that is cut short may leave
CutShort(l, s) ==
    {l, Started(l, s), Torn(Started(l, s))} \cup (IF l.base = NoState THEN {TornHeader} ELSE {})

-----------------------------------------------------------------------------
Init ==
    /\ snap = {} /\ snap_disk = {{}}
    /\ log = EmptyLog /\ log_disk = {EmptyLog} /\ log_entry = FALSE
    /\ index = [w \in Writers |-> NoState]
    /\ reload_required = [w \in Writers |-> FALSE]
    /\ rebase = [w \in Writers |-> NoState]
    /\ pc = "idle" /\ caller \in Writers
    /\ record = [op |-> "compact", items |-> {}, state |-> {}]
    /\ old = EmptyLog /\ failed = "none"
    /\ acked = {} /\ doubt = {} /\ adopted = FALSE /\ rebased = FALSE
    /\ mishaps = 0

Opened(w, s, rb) ==
    /\ index' = [index EXCEPT ![w] = s]
    /\ reload_required' = [reload_required EXCEPT ![w] = FALSE]
    /\ rebase' = [rebase EXCEPT ![w] = rb]

Adopt == adopted' = (adopted \/ LogAfterCrash # {log})

Mishap == mishaps < MaxMishaps /\ mishaps' = mishaps + 1

\* truncate_data_file(): truncation and sync
Truncate(l) == log' = l /\ log_disk' = {l}
\* It fails before the truncation or in the sync
TruncateFails(l) ==
    \/ UNCHANGED <<log, log_disk>>
    \/ log' = l /\ log_disk' = log_disk \cup {l}

-----------------------------------------------------------------------------
(* The callers *)

\* The snapshot already includes this log's records
RebaseDue(w, l) == l.base # NoState /\ rebase[w] = index[w] /\ l.base # index[w]

\* Where append_delta_record_locked() and compact_delta() go once the tail is whole
AfterHeal(w, l, op) ==
    IF op = "compact" THEN "snapshot" ELSE IF RebaseDue(w, l) THEN "rebase" ELSE "write"

\* "Use one evolving writer handle" (docs/vector-index.md): what the callers keep of it.
Permitted(w, step) == step \in Alone => \A v \in Writers \ {w} : index[v] = NoState

\* The way in which the call in progress empties the log, if it does
Emptying ==
    IF pc = "heal" THEN AfterHeal(caller, log, record.op)
    ELSE IF pc # "idle" /\ record.op = "compact" THEN "snapshot" ELSE pc

-----------------------------------------------------------------------------
(* Opening, closing and catching up *)

\* ggml_vec_index_load(): the snapshot alone.  It takes no lock and may run during a call
\* on another handle, as far as the callers keep the rule.
Load(w) ==
    /\ index[w] = NoState /\ Emptying \notin Alone
    /\ Opened(w, snap, NoState)
    /\ UNCHANGED <<files, callVars, history, mishaps>>

LoadWithDelta(w) ==
    /\ pc = "idle" /\ index[w] = NoState /\ Replays(snap, log)
    /\ Opened(w, Recovered(snap, log), RebaseAfterReplay(snap, log))
    /\ Adopt
    /\ UNCHANGED <<files, callVars, acked, doubt, rebased, mishaps>>

\* ggml_vec_index_free() takes no lock either; the caller sees to it that the handle is
\* not in use.
Free(w) ==
    /\ index[w] # NoState /\ (pc # "idle" => w # caller)
    /\ Opened(w, NoState, NoState)
    /\ UNCHANGED <<files, callVars, history, mishaps>>

\* A logged mutation or compaction finds a header cut short: validate_delta_header()
\* empties the log.
ResetTornHeader(w) ==
    /\ pc = "idle" /\ index[w] # NoState /\ ~reload_required[w]
    /\ log = TornHeader
    /\ Truncate(EmptyLog)
    /\ UNCHANGED <<snap, snap_disk, log_entry, handles, callVars, history, mishaps>>

ResetTornHeaderFails(w) ==
    /\ pc = "idle" /\ index[w] # NoState /\ ~reload_required[w]
    /\ log = TornHeader /\ Mishap
    /\ TruncateFails(EmptyLog)
    /\ UNCHANGED <<snap, snap_disk, log_entry, handles, callVars, history>>

\* A logged mutation of a handle behind the log replays what it misses
\* (replay_delta_log_unlocked()); this stays even if the mutation is then refused.
CatchUp(w) ==
    /\ pc = "idle" /\ index[w] # NoState /\ ~reload_required[w]
    /\ log # TornHeader /\ ~Matches(w) /\ Replays(index[w], log)
    /\ index' = [index EXCEPT ![w] = LastState(log)]
    /\ Adopt
    /\ UNCHANGED <<files, reload_required, rebase, callVars, acked, doubt, rebased, mishaps>>

-----------------------------------------------------------------------------
(* ggml_vec_index_add_logged() and ggml_vec_index_remove_logged() *)

Begin(w, op, items, s) ==
    /\ pc = "idle" /\ index[w] # NoState /\ ~reload_required[w]
    /\ log # TornHeader /\ Matches(w)
    /\ Permitted(w, AfterHeal(w, log, op))
    /\ caller' = w
    /\ record' = [op |-> op, items |-> items, state |-> s]
    /\ pc' = IF log.torn THEN "heal" ELSE AfterHeal(w, log, op)
    /\ failed' = "none"
    /\ UNCHANGED <<files, handles, old, acked, adopted, rebased, mishaps>>

\* Mutant: the handle's state is not compared with the log's.
Mutate_Unchecked(w) ==
    \E op \in {"add", "remove"}, items \in SUBSET Items :
        LET r == [op |-> op, items |-> items]  s == Outcome(index[w], r)
        IN  /\ items # {} /\ (op = "remove" => Cardinality(items) = 1)
            /\ pc = "idle" /\ index[w] # NoState /\ ~reload_required[w]
            /\ Applicable(index[w], r) /\ Len(log.recs) < MaxRecords
            /\ log # TornHeader /\ Permitted(w, AfterHeal(w, log, op))
            /\ caller' = w
            /\ record' = [op |-> op, items |-> items, state |-> s]
            /\ pc' = IF log.torn THEN "heal" ELSE AfterHeal(w, log, op)
            /\ failed' = "none"
            /\ doubt' = doubt \cup {s}
            /\ UNCHANGED <<files, handles, old, acked, adopted, rebased, mishaps>>

Mutate(w) ==
    \E op \in {"add", "remove"}, items \in SUBSET Items :
        LET r == [op |-> op, items |-> items]  s == Outcome(index[w], r)
        IN  /\ items # {} /\ (op = "remove" => Cardinality(items) = 1)
            /\ pc = "idle" /\ index[w] # NoState
            /\ Applicable(index[w], r) /\ Len(log.recs) < MaxRecords
            /\ Begin(w, op, items, s)
            /\ doubt' = doubt \cup {s}

\* The torn tail is cut off
Heal ==
    /\ pc = "heal"
    /\ Truncate(Healed(log))
    /\ pc' = AfterHeal(caller, log, record.op)
    /\ UNCHANGED <<snap, snap_disk, log_entry, handles, caller, record, old, failed, history, mishaps>>

HealFails ==
    /\ pc = "heal" /\ Mishap
    /\ TruncateFails(Healed(log))
    /\ pc' = "idle"
    /\ UNCHANGED <<snap, snap_disk, log_entry, handles, caller, record, old, failed, history>>

Rebase ==
    /\ pc = "rebase"
    /\ Truncate(EmptyLog)
    /\ rebase' = [rebase EXCEPT ![caller] = NoState]
    /\ rebased' = (rebased \/ snap_disk # {snap})
    /\ pc' = "write"
    /\ UNCHANGED <<snap, snap_disk, log_entry, index, reload_required, caller, record, old, failed,
                   acked, doubt, adopted, mishaps>>

RebaseFails ==
    /\ pc = "rebase" /\ Mishap
    /\ TruncateFails(EmptyLog)
    /\ rebased' = (rebased \/ snap_disk # {snap})
    /\ pc' = "idle"
    /\ UNCHANGED <<snap, snap_disk, log_entry, handles, caller, record, old, failed, acked, doubt, adopted>>

Write ==
    /\ pc = "write"
    /\ old' = log
    /\ log' = Appended(log, index[caller], record)
    /\ log_disk' = log_disk \cup CutShort(log, index[caller]) \cup {log'}
    /\ pc' = "sync"
    /\ UNCHANGED <<snap, snap_disk, log_entry, handles, caller, record, failed, history, mishaps>>

WriteFails ==
    /\ pc = "write" /\ Mishap
    /\ old' = log
    /\ log' \in CutShort(log, index[caller])
    /\ log_disk' = log_disk \cup CutShort(log, index[caller])
    /\ pc' = "undo" /\ failed' = "data"
    /\ UNCHANGED <<snap, snap_disk, log_entry, handles, caller, record, history>>

\* Mutant: fflush() without fsync().
Sync_FlushOnly ==
    /\ pc = "sync"
    /\ pc' = "logdir"
    /\ UNCHANGED <<files, handles, caller, record, old, failed, history, mishaps>>

\* flush_and_sync()
Sync ==
    /\ pc = "sync"
    /\ log_disk' = {log}
    /\ pc' = "logdir"
    /\ UNCHANGED <<snap, snap_disk, log, log_entry, handles, caller, record, old, failed, history, mishaps>>

SyncFails ==
    /\ pc = "sync" /\ Mishap
    /\ pc' = "undo" /\ failed' = "data"
    /\ UNCHANGED <<files, handles, caller, record, old, history>>

\* fsync_parent_dir() of the log
LogDirSynced == log_entry' = TRUE /\ UNCHANGED <<snap, snap_disk, log, log_disk>>

\* The mutation is durable: GGML_VEC_INDEX_OK
MutationDone ==
    /\ pc = "logdir"
    /\ LogDirSynced
    /\ index' = [index EXCEPT ![caller] = record.state]
    /\ acked' = record.state /\ doubt' = {} /\ adopted' = FALSE
    /\ pc' = "idle"
    /\ UNCHANGED <<reload_required, rebase, caller, record, old, failed, rebased, mishaps>>

\* fclose(), or the sync of the directory
LogDirFails ==
    /\ pc = "logdir" /\ Mishap
    /\ failed' \in {"close", "dir"}
    /\ pc' = "undo"
    /\ UNCHANGED <<files, handles, caller, record, old, history>>

\* The record is taken back: GGML_VEC_INDEX_E_IO
Undo ==
    /\ pc = "undo"
    /\ Truncate(old)
    /\ pc' = "idle"
    /\ UNCHANGED <<snap, snap_disk, log_entry, handles, caller, record, old, failed, history, mishaps>>

\* Mutant: the mutation is rolled back in memory whatever is left of the record.
UndoFails_RollsBack ==
    /\ pc = "undo" /\ Mishap
    /\ TruncateFails(old)
    /\ reload_required' = [reload_required EXCEPT ![caller] = failed = "dir"]
    /\ pc' = "idle"
    /\ UNCHANGED <<snap, snap_disk, log_entry, index, rebase, caller, record, old, failed, history>>

\* It cannot be taken back.  A record that can be replayed counts, and the handle has
\* to reload unless the record is known to be durable.
UndoFails ==
    /\ pc = "undo" /\ Mishap
    /\ TruncateFails(old)
    /\ LET complete == log'.base # NoState /\ ~log'.torn /\ LastState(log') = record.state
       IN  /\ index' = [index EXCEPT ![caller] = IF complete THEN record.state ELSE @]
           /\ reload_required' = [reload_required EXCEPT
                 ![caller] = failed = "dir" \/ (complete /\ failed = "data")]
    /\ pc' = "idle"
    /\ UNCHANGED <<snap, snap_disk, log_entry, rebase, caller, record, old, failed, history>>

-----------------------------------------------------------------------------
(* ggml_vec_index_compact_delta() *)

Compact(w) ==
    /\ Begin(w, "compact", {}, index[w])
    /\ UNCHANGED doubt

\* The snapshot is replaced, or may be, but the log is not: E_PARTIAL_COMPACT
Partial ==
    /\ rebase' = [rebase EXCEPT ![caller] = record.state]
    /\ pc' = "idle"
    /\ UNCHANGED <<index, reload_required, caller, record, old, failed, history>>

\* The temporary file is written and synced, then renamed
Rename ==
    /\ pc = "snapshot"
    /\ snap' = record.state
    /\ snap_disk' = snap_disk \cup {record.state}
    /\ pc' = "snapdir"
    /\ UNCHANGED <<log, log_disk, log_entry, handles, caller, record, old, failed, history, mishaps>>

\* Mutant: the status of the snapshot is ignored.
SnapshotFails_GoesOn ==
    /\ pc = "snapshot" /\ Mishap
    /\ pc' = "empty"
    /\ UNCHANGED <<files, handles, caller, record, old, failed, history>>

\* It fails before the rename.  After an I/O error what counts is whether the file
\* holds this state anyway.
SnapshotFails ==
    /\ pc = "snapshot" /\ Mishap
    /\ \/ snap = record.state /\ Partial
       \/ pc' = "idle" /\ UNCHANGED <<handles, caller, record, old, failed, history>>
    /\ UNCHANGED files

SnapDirSync ==
    /\ pc = "snapdir"
    /\ snap_disk' = {snap} /\ rebased' = FALSE
    /\ pc' = "empty"
    /\ UNCHANGED <<snap, log, log_disk, log_entry, handles, caller, record, old, failed,
                   acked, doubt, adopted, mishaps>>

SnapDirFails ==
    /\ pc = "snapdir" /\ Mishap
    /\ Partial
    /\ UNCHANGED files

\* write_empty_delta_log_unlocked()
EmptyTheLog ==
    /\ pc = "empty"
    /\ Truncate(EmptyLog)
    /\ pc' = "header"
    /\ UNCHANGED <<snap, snap_disk, log_entry, handles, caller, record, old, failed, history, mishaps>>

EmptyFails ==
    /\ pc = "empty" /\ Mishap
    /\ TruncateFails(EmptyLog)
    /\ Partial
    /\ UNCHANGED <<snap, snap_disk, log_entry>>

WriteHeader ==
    /\ pc = "header"
    /\ log' = NewLog(record.state)
    /\ log_disk' = log_disk \cup {TornHeader, log'}
    /\ pc' = "headersync"
    /\ UNCHANGED <<snap, snap_disk, log_entry, handles, caller, record, old, failed, history, mishaps>>

HeaderSync ==
    /\ pc = "headersync"
    /\ log_disk' = {log}
    /\ pc' = "headerdir"
    /\ UNCHANGED <<snap, snap_disk, log, log_entry, handles, caller, record, old, failed, history, mishaps>>

\* Write, sync or close fail: the log is emptied if that works
HeaderFails ==
    /\ pc \in {"header", "headersync"} /\ Mishap
    /\ \/ Truncate(EmptyLog)
       \/ /\ log' \in {EmptyLog, TornHeader, NewLog(record.state)}
          /\ log_disk' = log_disk \cup {EmptyLog, TornHeader, NewLog(record.state)}
    /\ Partial
    /\ UNCHANGED <<snap, snap_disk, log_entry>>

CompactDone ==
    /\ pc = "headerdir"
    /\ LogDirSynced
    /\ rebase' = [rebase EXCEPT ![caller] = NoState]
    /\ acked' = record.state /\ doubt' = {} /\ adopted' = FALSE
    /\ pc' = "idle"
    /\ UNCHANGED <<index, reload_required, caller, record, old, failed, rebased, mishaps>>

HeaderDirFails ==
    /\ pc = "headerdir" /\ Mishap
    /\ Partial
    /\ UNCHANGED files

-----------------------------------------------------------------------------
(* Crashes *)

\* The calling process is killed; what it was writing may be cut short.
Killed ==
    /\ pc # "idle" /\ Mishap
    /\ log' \in (IF pc = "write" THEN CutShort(log, index[caller]) ELSE {log})
                \cup (IF pc = "header" THEN {TornHeader} ELSE {})
    /\ log_disk' = log_disk \cup {log'}
    /\ Opened(caller, NoState, NoState)
    /\ pc' = "idle"
    /\ UNCHANGED <<snap, snap_disk, log_entry, caller, record, old, failed, history>>

\* What recovery finds is what counts from then on.
PowerLoss ==
    /\ Mishap
    /\ snap' \in snap_disk /\ snap_disk' = {snap'}
    /\ \/ log' \in log_disk /\ log_entry' = TRUE
       \/ ~log_entry /\ log' = EmptyLog /\ log_entry' = FALSE
    /\ log_disk' = {log'}
    /\ index' = [w \in Writers |-> NoState]
    /\ reload_required' = [w \in Writers |-> FALSE]
    /\ rebase' = [w \in Writers |-> NoState]
    /\ pc' = "idle"
    /\ acked' = IF Replays(snap', log') THEN Recovered(snap', log') ELSE acked
    /\ doubt' = {}
    /\ adopted' = (adopted /\ ~Replays(snap', log'))
    /\ rebased' = (rebased /\ ~Replays(snap', log'))
    /\ UNCHANGED <<caller, record, old, failed>>

-----------------------------------------------------------------------------
AppendStep ==
    \/ Heal \/ HealFails \/ Rebase \/ RebaseFails \/ Write \/ WriteFails
    \/ Sync \/ SyncFails \/ MutationDone \/ LogDirFails \/ Undo \/ UndoFails

CompactStep ==
    \/ Rename \/ SnapshotFails \/ SnapDirSync \/ SnapDirFails \/ EmptyTheLog \/ EmptyFails
    \/ WriteHeader \/ HeaderSync \/ HeaderFails \/ CompactDone \/ HeaderDirFails

Next ==
    \/ \E w \in Writers :
          \/ Load(w) \/ LoadWithDelta(w) \/ Free(w)
          \/ ResetTornHeader(w) \/ ResetTornHeaderFails(w) \/ CatchUp(w)
          \/ Mutate(w) \/ Compact(w)
    \/ AppendStep \/ CompactStep
    \/ Killed \/ PowerLoss

Spec == Init /\ [][Next]_vars

-----------------------------------------------------------------------------
(* Properties *)

States == SUBSET Items
Records == [op : {"add", "remove", "compact"}, items : States, state : States]
Logs == [base : States \cup {NoState}, recs : Seq(Records), torn : BOOLEAN]

\* A log has a header before it has records
WellFormed(l) == l \in Logs /\ (l.base = NoState => l.recs = <<>>)

\* Types; what a power loss may leave includes what is seen; every log is well formed.
TypeOK ==
    /\ snap \in States /\ snap_disk \subseteq States /\ snap \in snap_disk
    /\ log \in log_disk /\ log_entry \in BOOLEAN
    /\ \A l \in log_disk : WellFormed(l)
    /\ index \in [Writers -> States \cup {NoState}]
    /\ reload_required \in [Writers -> BOOLEAN]
    /\ rebase \in [Writers -> States \cup {NoState}]
    /\ pc \in {"idle", "heal", "rebase", "write", "sync", "logdir", "undo",
               "snapshot", "snapdir", "empty", "header", "headersync", "headerdir"}
    /\ caller \in Writers /\ record \in Records /\ WellFormed(old)
    /\ failed \in {"none", "data", "close", "dir"}
    /\ acked \in States /\ doubt \subseteq States /\ {adopted, rebased} \subseteq BOOLEAN
    /\ mishaps \in Nat

\* "append a durable v4 delta record" (ggml-vector-index.h): whenever the power fails, a
\* recovery that succeeds gives the state after the last mutation that returned OK, or
\* that of one that was still running or returned an error; unless the log was emptied
\* for a snapshot that was not yet durable.
NothingLost ==
    ~rebased => \A s \in snap_disk, l \in LogAfterCrash :
                    Replays(s, l) => Recovered(s, l) \in {acked} \cup doubt

\* Whenever the power fails, snapshot and log fit together, unless a handle has built
\* on a record or on a snapshot that was not yet durable.
RecoveryWorks ==
    ~adopted /\ ~rebased => \A s \in snap_disk, l \in LogAfterCrash : Replays(s, l)

\* "State identities and file locking prevent stale or concurrent writers from silently
\* producing a divergent index" (docs/vector-index.md): a mutation that returns OK was
\* applied to the state the earlier ones have led to.
NoLostUpdate ==
    [][MutationDone =>
          \E s \in {acked} \cup doubt : Applicable(s, record) /\ acked' = Outcome(s, record)]_vars

\* However a call ends, with success or with an error half way, the handle holds what
\* the files hold.
HandleMatchesFiles ==
    [][pc # "idle" /\ pc' = "idle" /\ index'[caller] # NoState
          => Replays(snap', log') /\ Recovered(snap', log') = index'[caller]]_vars
=============================================================================
