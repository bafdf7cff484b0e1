------------------------------ MODULE KvCells ------------------------------
(***************************************************************************)
(* The bookkeeping of the attention cache (src/llama-kv-cells.h): which     *)
(* position and which sequences each cell holds, the set of used cells, how *)
(* often a position occurs in a sequence, and the shift of positions that   *)
(* the key data still has to follow.  The same facts are kept in several    *)
(* containers, which every method updates by hand.                          *)
(*                                                                         *)
(* One action is one method call on one cell, under the precondition its    *)
(* asserts state; the cache (llama-kv-cache.cpp) calls them in loops.  cp() *)
(* and set() are the trial placement of llama_kv_cache::prepare(): between  *)
(* them only what apply_ubatch() calls can happen.                          *)
(*                                                                         *)
(* The recovery stack of several micro-batches is one save here: a cell     *)
(* that is saved twice ends as it was saved first.                          *)
(*                                                                         *)
(* Left out: ext (the 2D position and token of a cell) and the axes of the  *)
(* shift that only move together with it.                                   *)
(***************************************************************************)
EXTENDS Integers, FiniteSets

CONSTANTS
    Cells,      \* indices of the cells
    Seqs,       \* sequence ids
    MaxPos,     \* bound: the largest position
    Deltas,     \* what pos_add() is called with
    Divisors    \* what pos_div() is called with

Positions == 0..MaxPos

ASSUME KvConstantsAssumption ==
    /\ IsFiniteSet(Cells)
    /\ MaxPos \in Nat
    /\ Deltas \subseteq Int
    /\ Divisors \subseteq Nat \ {0}

VARIABLES
    pos,        \* position of each cell, -1 when it is empty
    seq,        \* the sequences in each cell
    used,       \* indices of used cells
    seq_pos,    \* seq_pos[s][p]: occurrences of p in s, 0 for a key not in the map
    shift,      \* shift of pos that the key data has not followed yet
    has_shift,
    base,       \* history: the position the keys stored in a cell are rotated to
    phase,      \* "free", "trial" or "restore": where prepare() is
    idxs,       \* cells of cp() that set() has still to restore
    old_pos, old_seq  \* what cp() saved

savedVars == <<phase, idxs, old_pos, old_seq>>
vars == <<pos, seq, used, seq_pos, shift, has_shift, base, savedVars>>

-----------------------------------------------------------------------------
(* Helpers on seq_pos. *)

\* Mutant: the key is erased although the position occurs again in the sequence.
seq_pos_dec_ErasesKey(m, p) == [m EXCEPT ![p] = 0]

seq_pos_dec(m, p) == [m EXCEPT ![p] = @ - 1]
seq_pos_inc(m, p) == [m EXCEPT ![p] = @ + 1]

\* take the sequences S of a cell at position p out of the counts
seq_pos_rm(counts, S, p) ==
    [s \in Seqs |-> IF s \in S THEN seq_pos_dec(counts[s], p) ELSE counts[s]]

\* count the sequences S of a cell at position p
seq_pos_add(counts, S, p) ==
    [s \in Seqs |-> IF s \in S THEN seq_pos_inc(counts[s], p) ELSE counts[s]]

\* Mutant: the pending shift survives the cell.
ClearCell_KeepsShift(i) ==
    /\ pos' = [pos EXCEPT ![i] = -1]
    /\ seq' = [seq EXCEPT ![i] = {}]
    /\ used' = used \ {i}
    /\ UNCHANGED <<shift, base>>

\* Mutant: the cell stays in the set of used cells.
ClearCell_StaysUsed(i) ==
    /\ pos' = [pos EXCEPT ![i] = -1]
    /\ seq' = [seq EXCEPT ![i] = {}]
    /\ shift' = [shift EXCEPT ![i] = 0]
    /\ UNCHANGED <<used, base>>

\* pos[i] = -1; seq[i].reset(); shift[i].reset(); used.erase(i)
ClearCell(i) ==
    /\ pos' = [pos EXCEPT ![i] = -1]
    /\ seq' = [seq EXCEPT ![i] = {}]
    /\ shift' = [shift EXCEPT ![i] = 0]
    /\ used' = used \ {i}
    /\ UNCHANGED base

-----------------------------------------------------------------------------
Init ==
    /\ pos = [i \in Cells |-> -1]
    /\ seq = [i \in Cells |-> {}]
    /\ used = {}
    /\ seq_pos = [s \in Seqs |-> [p \in Positions |-> 0]]
    /\ shift = [i \in Cells |-> 0]
    /\ has_shift = FALSE
    /\ base = [i \in Cells |-> -1]
    /\ phase = "free" /\ idxs = {}
    /\ old_pos = [i \in Cells |-> -1]
    /\ old_seq = [i \in Cells |-> {}]

reset ==
    /\ phase = "free"
    /\ pos' = [i \in Cells |-> -1]
    /\ seq' = [i \in Cells |-> {}]
    /\ shift' = [i \in Cells |-> 0]
    /\ has_shift' = FALSE
    /\ used' = {}
    /\ seq_pos' = [s \in Seqs |-> [p \in Positions |-> 0]]
    /\ UNCHANGED <<base, savedVars>>

\* Bound: repeated divisions make shift and base grow without limit.
InBound(x) == x \in -MaxPos..MaxPos

\* llama_kv_cache::update(): the keys of every cell are rotated by its shift, then
\* reset_shift() forgets the shifts.
reset_shift ==
    /\ phase = "free" /\ has_shift
    /\ \A i \in Cells : InBound(base[i] + shift[i])
    /\ base' = [i \in Cells |-> base[i] + shift[i]]
    /\ shift' = [i \in Cells |-> 0]
    /\ has_shift' = FALSE
    /\ UNCHANGED <<pos, seq, used, seq_pos, savedVars>>

\* What apply_ubatch() overwrites is one of the cells prepare() has saved.
Writable(i) == phase = "free" \/ (phase = "trial" /\ i \in idxs)

rm(i) ==
    /\ Writable(i) /\ pos[i] # -1
    /\ seq_pos' = seq_pos_rm(seq_pos, seq[i], pos[i])
    /\ ClearCell(i)
    /\ UNCHANGED <<has_shift, savedVars>>

\* The cell becomes empty with its last sequence.  Purges any cell, saved or not.
seq_rm(i, s) ==
    /\ phase # "restore" /\ pos[i] # -1 /\ s \in seq[i]
    /\ seq_pos' = [seq_pos EXCEPT ![s] = seq_pos_dec(@, pos[i])]
    /\ IF seq[i] = {s}
       THEN ClearCell(i)
       ELSE /\ seq' = [seq EXCEPT ![i] = @ \ {s}]
            /\ UNCHANGED <<pos, shift, used, base>>
    /\ UNCHANGED <<has_shift, savedVars>>

\* Only s remains in the cell; without s the cell becomes empty.
seq_keep(i, s) ==
    /\ phase = "free" /\ seq[i] # {}
    /\ IF s \in seq[i]
       THEN /\ seq_pos' = seq_pos_add(seq_pos_rm(seq_pos, seq[i], pos[i]), {s}, pos[i])
            /\ seq' = [seq EXCEPT ![i] = {s}]
            /\ UNCHANGED <<pos, shift, used, base>>
       ELSE /\ seq_pos' = seq_pos_rm(seq_pos, seq[i], pos[i])
            /\ ClearCell(i)
    /\ UNCHANGED <<has_shift, savedVars>>

seq_add(i, s) ==
    /\ Writable(i) /\ pos[i] # -1 /\ s \notin seq[i]
    /\ seq' = [seq EXCEPT ![i] = @ \cup {s}]
    /\ seq_pos' = [seq_pos EXCEPT ![s] = seq_pos_inc(@, pos[i])]
    /\ UNCHANGED <<pos, used, shift, has_shift, base, savedVars>>

\* The keys of the cell are computed for p by the batch that follows, and by none in a
\* trial placement.
pos_set(i, p) ==
    /\ Writable(i) /\ pos[i] = -1
    /\ pos' = [pos EXCEPT ![i] = p]
    /\ used' = used \cup {i}
    /\ base' = IF phase = "free" THEN [base EXCEPT ![i] = p] ELSE base
    /\ UNCHANGED <<seq, seq_pos, shift, has_shift, savedVars>>

\* Mutant: a negative position is kept.
pos_add_GoesNegative(i, d) ==
    /\ phase = "free" /\ pos[i] # -1
    /\ pos[i] + d <= MaxPos
    /\ has_shift' = TRUE
    /\ seq_pos' = seq_pos_rm(seq_pos, seq[i], pos[i])
    /\ pos' = [pos EXCEPT ![i] = @ + d]
    /\ shift' = [shift EXCEPT ![i] = @ + d]
    /\ UNCHANGED <<seq, used, base, savedVars>>

\* pos_shift(): a cell whose position would be negative becomes empty.
pos_add(i, d) ==
    /\ phase = "free" /\ pos[i] # -1
    /\ pos[i] + d <= MaxPos
    /\ has_shift' = TRUE
    /\ LET counts == seq_pos_rm(seq_pos, seq[i], pos[i]) IN
       IF pos[i] + d < 0
       THEN /\ seq_pos' = counts
            /\ ClearCell(i)
       ELSE /\ seq_pos' = seq_pos_add(counts, seq[i], pos[i] + d)
            /\ pos' = [pos EXCEPT ![i] = @ + d]
            /\ shift' = [shift EXCEPT ![i] = @ + d]
            /\ InBound(shift[i] + d)
            /\ UNCHANGED <<seq, used, base>>
    /\ UNCHANGED savedVars

pos_div(i, d) ==
    /\ phase = "free" /\ pos[i] # -1
    /\ has_shift' = TRUE
    /\ LET p == pos[i] \div d IN
       /\ seq_pos' = seq_pos_add(seq_pos_rm(seq_pos, seq[i], pos[i]), seq[i], p)
       /\ pos' = [pos EXCEPT ![i] = p]
       /\ shift' = [shift EXCEPT ![i] = @ + (pos[i] - p)]
       /\ InBound(shift[i] + (pos[i] - p))
    /\ UNCHANGED <<seq, used, base, savedVars>>

-----------------------------------------------------------------------------
(* Trial placement. *)

\* cp(idxs): "assert(shift[idx].is_zero())"
cp(I) ==
    /\ phase = "free" /\ I # {}
    /\ \A i \in I : shift[i] = 0
    /\ phase' = "trial" /\ idxs' = I
    /\ old_pos' = [i \in Cells |-> IF i \in I THEN pos[i] ELSE -1]
    /\ old_seq' = [i \in Cells |-> IF i \in I THEN seq[i] ELSE {}]
    /\ UNCHANGED <<pos, seq, used, seq_pos, shift, has_shift, base>>

set ==
    /\ phase = "trial"
    /\ phase' = "restore"
    /\ UNCHANGED <<pos, seq, used, seq_pos, shift, has_shift, base, idxs, old_pos, old_seq>>

\* The counts of set(idxs, other) for one cell.
RestoreCounts(i) ==
    LET without == IF pos[i] # -1 THEN seq_pos_rm(seq_pos, seq[i], pos[i]) ELSE seq_pos IN
    IF old_pos[i] # -1 THEN seq_pos_add(without, old_seq[i], old_pos[i]) ELSE without

\* One turn of the loop of set().
RestoreCell(i) ==
    /\ phase = "restore" /\ i \in idxs
    /\ used' = IF pos[i] = -1 /\ old_pos[i] # -1 THEN used \cup {i}
               ELSE IF pos[i] # -1 /\ old_pos[i] = -1 THEN used \ {i}
               ELSE used
    /\ seq_pos' = RestoreCounts(i)
    /\ pos' = [pos EXCEPT ![i] = old_pos[i]]
    /\ seq' = [seq EXCEPT ![i] = old_seq[i]]
    /\ idxs' = idxs \ {i}
    /\ phase' = IF idxs = {i} THEN "free" ELSE "restore"
    /\ old_pos' = [old_pos EXCEPT ![i] = -1]
    /\ old_seq' = [old_seq EXCEPT ![i] = {}]
    /\ UNCHANGED <<shift, has_shift, base>>

Next ==
    \/ reset \/ reset_shift \/ set
    \/ \E i \in Cells :
          \/ rm(i) \/ RestoreCell(i)
          \/ \E s \in Seqs : seq_rm(i, s) \/ seq_keep(i, s) \/ seq_add(i, s)
          \/ \E p \in Positions : pos_set(i, p)
          \/ \E d \in Deltas : pos_add(i, d)
          \/ \E d \in Divisors : pos_div(i, d)
    \/ \E I \in SUBSET Cells : cp(I)

Spec == Init /\ [][Next]_vars

-----------------------------------------------------------------------------
(* Properties *)

TypeOK ==
    /\ pos \in [Cells -> Positions \cup {-1}]
    /\ seq \in [Cells -> SUBSET Seqs]
    /\ used \in SUBSET Cells
    /\ seq_pos \in [Seqs -> [Positions -> Nat]]
    /\ shift \in [Cells -> Int]
    /\ has_shift \in BOOLEAN
    /\ base \in [Cells -> Int]
    /\ phase \in {"free", "trial", "restore"}
    /\ idxs \in SUBSET Cells
    /\ phase = "free" <=> idxs = {}
    /\ old_pos \in [Cells -> Positions \cup {-1}]
    /\ old_seq \in [Cells -> SUBSET Seqs]
    /\ \A i \in Cells : old_pos[i] = -1 => old_seq[i] = {}

\* The cells of s that hold position p.
Holders(s, p) == {i \in Cells : pos[i] = p /\ s \in seq[i]}

\* "the set seq_pos[s][p] tells us how many times the position p is currently present
\* for sequence s": the counts from which seq_pos_min() and seq_pos_max() are read
\* agree with the cells after any mix of removals, shifts, divisions and rollbacks,
\* positions that occur twice included.
SeqPosExact ==
    \A s \in Seqs, p \in Positions : seq_pos[s][p] = Cardinality(Holders(s, p))

\* "set of indices of used cells (i.e. pos[i] != -1, ...": the set that bounds the cells
\* attention looks at is exact, and an empty cell belongs to no sequence, so that
\* pos_set() may reuse it.
UsedExact ==
    /\ used = {i \in Cells : pos[i] # -1}
    /\ \A i \in Cells : pos[i] = -1 => seq[i] = {}

\* A cell that waits for its keys to be rotated is not empty, is noticed by
\* llama_kv_cache::init_update() (has_shift), and is never one that prepare() saved
\* ("assert(shift[idx].is_zero())" in cp() and set()).
PendingShifts ==
    \A i \in Cells : shift[i] # 0 => has_shift /\ pos[i] # -1 /\ i \notin idxs

\* "this array accumulates any applied shifts to the pos array since the last
\* reset_shift() call": rotating the keys of a cell by its shift brings them to its
\* position, after a rollback too.
ShiftIsDisplacement ==
    phase = "free" => \A i \in Cells : pos[i] # -1 => pos[i] = base[i] + shift[i]
=============================================================================
