--------------------------- MODULE KvCells_proofs ---------------------------
(***************************************************************************)
(* Proofs about the cells of the attention cache, for any number of cells,  *)
(* sequences and positions.  Every method changes one cell: lemma OneCell   *)
(* says what seq_pos must do then, and each method is shown to do it.       *)
(***************************************************************************)
EXTENDS KvCells, FiniteSetTheorems, TLAPS

Counts == [Seqs -> [Positions -> Int]]

\* What a cell at position q with sequences S contributes to the count of p in s.
Unit(S, q, s, p) == IF q = p /\ s \in S THEN 1 ELSE 0

Inv == TypeOK /\ SeqPosExact /\ UsedExact /\ PendingShifts

-----------------------------------------------------------------------------
(* What the helpers do to a count. *)

\* seq_pos_rm() takes the cell out of the counts and touches no other.
LEMMA RmCounts ==
    ASSUME NEW c \in Counts, NEW S \in SUBSET Seqs, NEW q \in Positions
    PROVE  /\ seq_pos_rm(c, S, q) \in Counts
           /\ \A s \in Seqs, p \in Positions :
                 seq_pos_rm(c, S, q)[s][p] = c[s][p] - Unit(S, q, s, p)
<1>1. ASSUME NEW s \in Seqs
      PROVE  /\ seq_pos_dec(c[s], q) \in [Positions -> Int]
             /\ \A p \in Positions : seq_pos_dec(c[s], q)[p] = IF p = q THEN c[s][p] - 1 ELSE c[s][p]
  BY DEF seq_pos_dec, Counts
<1> QED BY <1>1 DEF seq_pos_rm, Unit, Counts

\* seq_pos_add() counts the cell and touches no other.
LEMMA AddCounts ==
    ASSUME NEW c \in Counts, NEW S \in SUBSET Seqs, NEW q \in Positions
    PROVE  /\ seq_pos_add(c, S, q) \in Counts
           /\ \A s \in Seqs, p \in Positions :
                 seq_pos_add(c, S, q)[s][p] = c[s][p] + Unit(S, q, s, p)
<1>1. ASSUME NEW s \in Seqs
      PROVE  /\ seq_pos_inc(c[s], q) \in [Positions -> Int]
             /\ \A p \in Positions : seq_pos_inc(c[s], q)[p] = IF p = q THEN c[s][p] + 1 ELSE c[s][p]
  BY DEF seq_pos_inc, Counts
<1> QED BY <1>1 DEF seq_pos_add, Unit, Counts

\* When one cell changes, seq_pos stays exact if it loses what the cell was and gains
\* what it has become.
LEMMA OneCell ==
    ASSUME TypeOK, SeqPosExact, NEW i \in Cells,
           \A j \in Cells \ {i} : pos'[j] = pos[j] /\ seq'[j] = seq[j],
           seq_pos' \in Counts,
           \A s \in Seqs, p \in Positions :
              seq_pos'[s][p] = seq_pos[s][p] - Unit(seq[i], pos[i], s, p)
                                             + Unit(seq'[i], pos'[i], s, p)
    PROVE  SeqPosExact' /\ seq_pos' \in [Seqs -> [Positions -> Nat]]
<1>1. ASSUME NEW s \in Seqs, NEW p \in Positions
      PROVE  seq_pos'[s][p] = Cardinality(Holders(s, p)') /\ seq_pos'[s][p] \in Nat
  <2> DEFINE H == Holders(s, p)
             G == Holders(s, p)'
  <2>1. H \in SUBSET Cells /\ G \in SUBSET Cells
    BY DEF Holders
  <2>2. IsFiniteSet(H) /\ IsFiniteSet(G)
    BY <2>1, FS_Subset, KvConstantsAssumption
  <2>3. H \ {i} = G \ {i}
    BY DEF Holders
  <2>4. Cardinality(H) \in Nat /\ Cardinality(G) \in Nat
    BY <2>2, FS_CardinalityType
  <2>5. Cardinality(H \ {i}) = IF i \in H THEN Cardinality(H) - 1 ELSE Cardinality(H)
    BY <2>2, FS_RemoveElement
  <2>6. Cardinality(G \ {i}) = IF i \in G THEN Cardinality(G) - 1 ELSE Cardinality(G)
    BY <2>2, FS_RemoveElement
  <2>7. (i \in H <=> pos[i] = p /\ s \in seq[i]) /\ (i \in G <=> pos'[i] = p /\ s \in seq'[i])
    BY DEF Holders
  <2>8. seq_pos[s][p] = Cardinality(H)
    BY DEF SeqPosExact
  <2>9. seq_pos'[s][p] = Cardinality(H) - (IF i \in H THEN 1 ELSE 0) + (IF i \in G THEN 1 ELSE 0)
    BY <2>7, <2>8 DEF Unit
  <2> HIDE DEF H, G
  <2>a. Cardinality(H \ {i}) = Cardinality(G \ {i})
    BY <2>3
  <2>10. seq_pos'[s][p] = Cardinality(G)
    BY <2>a, <2>4, <2>5, <2>6, <2>9
  <2> QED BY <2>4, <2>10 DEF G
<1> QED BY <1>1 DEF SeqPosExact, Counts

\* The counts of a typed state are counts.
LEMMA CountsType ==
    ASSUME TypeOK
    PROVE  seq_pos \in Counts
BY DEF TypeOK, Counts

\* A method that leaves prepare() where it is only has to type its own containers.
LEMMA SavedType ==
    ASSUME TypeOK, UNCHANGED savedVars,
           pos' \in [Cells -> Positions \cup {-1}],
           seq' \in [Cells -> SUBSET Seqs],
           used' \in SUBSET Cells,
           seq_pos' \in [Seqs -> [Positions -> Nat]],
           shift' \in [Cells -> Int],
           has_shift' \in BOOLEAN,
           base' \in [Cells -> Int]
    PROVE  TypeOK'
BY DEF TypeOK, savedVars

-----------------------------------------------------------------------------
(* One lemma per kind of method. *)

\* A cell that becomes empty: every method that ends with ClearCell().
LEMMA Cleared ==
    ASSUME Inv, NEW i \in Cells, pos[i] # -1, ClearCell(i),
           seq_pos' = seq_pos_rm(seq_pos, seq[i], pos[i]),
           has_shift' \in {has_shift, TRUE}, UNCHANGED savedVars
    PROVE  Inv'
<1> USE DEF Inv
<1>1. pos[i] \in Positions /\ seq[i] \in SUBSET Seqs
  BY DEF TypeOK
<1>2. /\ seq_pos' \in Counts
      /\ \A s \in Seqs, p \in Positions :
            seq_pos'[s][p] = seq_pos[s][p] - Unit(seq[i], pos[i], s, p)
  BY <1>1, RmCounts, CountsType
<1>3. pos'[i] = -1 /\ seq'[i] = {} /\ shift'[i] = 0
  BY DEF ClearCell, TypeOK
<1>4. \A s \in Seqs, p \in Positions : Unit(seq'[i], pos'[i], s, p) = 0
  BY <1>3 DEF Unit
<1>5. \A j \in Cells \ {i} : pos'[j] = pos[j] /\ seq'[j] = seq[j] /\ shift'[j] = shift[j]
  BY DEF ClearCell, TypeOK
<1>6. \A s \in Seqs, p \in Positions :
         seq_pos[s][p] \in Int /\ Unit(seq[i], pos[i], s, p) \in Int
  BY DEF TypeOK, Unit
<1>7. SeqPosExact' /\ seq_pos' \in [Seqs -> [Positions -> Nat]]
  BY <1>2, <1>4, <1>5, <1>6, OneCell
<1>8. TypeOK'
  <2>1. /\ pos' \in [Cells -> Positions \cup {-1}]
        /\ seq' \in [Cells -> SUBSET Seqs]
        /\ used' \in SUBSET Cells
        /\ shift' \in [Cells -> Int]
        /\ base' \in [Cells -> Int]
    BY DEF TypeOK, ClearCell
  <2>2. has_shift' \in BOOLEAN
    BY DEF TypeOK
  <2> QED BY <1>7, <2>1, <2>2, SavedType
<1>9. UsedExact'
  <2>1. used' = {j \in Cells : pos'[j] # -1}
    BY <1>3, <1>5 DEF UsedExact, ClearCell
  <2> QED BY <2>1, <1>3, <1>5 DEF UsedExact
<1>10. PendingShifts'
  BY <1>3, <1>5 DEF PendingShifts, savedVars, TypeOK
<1> QED BY <1>7, <1>8, <1>9, <1>10

\* A step that adds d to a shift sets has_shift, and happens outside of prepare().
Noticed(d) == (d = 0 /\ has_shift' = has_shift) \/ (has_shift' = TRUE /\ phase = "free")

\* A cell that changes its position or its sequences and stays used.
LEMMA Changed ==
    ASSUME Inv, NEW i \in Cells, NEW q \in Positions, NEW S \in SUBSET Seqs,
           NEW d \in Int,
           pos[i] # -1,
           pos' = [pos EXCEPT ![i] = q], seq' = [seq EXCEPT ![i] = S],
           shift' = [shift EXCEPT ![i] = @ + d],
           Noticed(d),
           seq_pos' \in Counts,
           \A s \in Seqs, p \in Positions :
              seq_pos'[s][p] = seq_pos[s][p] - Unit(seq[i], pos[i], s, p) + Unit(S, q, s, p),
           UNCHANGED <<used, base, savedVars>>
    PROVE  Inv'
<1> USE DEF Inv
<1>1. pos'[i] = q /\ seq'[i] = S /\ shift'[i] = shift[i] + d
  BY DEF TypeOK
<1>2. \A j \in Cells \ {i} : pos'[j] = pos[j] /\ seq'[j] = seq[j] /\ shift'[j] = shift[j]
  BY DEF TypeOK
<1>3. SeqPosExact' /\ seq_pos' \in [Seqs -> [Positions -> Nat]]
  BY <1>1, <1>2, OneCell
<1>4. TypeOK'
  <2>1. /\ pos' \in [Cells -> Positions \cup {-1}]
        /\ seq' \in [Cells -> SUBSET Seqs]
        /\ used' \in SUBSET Cells
        /\ shift' \in [Cells -> Int]
        /\ base' \in [Cells -> Int]
    BY DEF TypeOK
  <2>2. has_shift' \in BOOLEAN
    BY DEF TypeOK, Noticed
  <2> QED BY <1>3, <2>1, <2>2, SavedType
<1>5. q # -1
  BY KvConstantsAssumption DEF Positions
<1>6. UsedExact'
  BY <1>1, <1>2, <1>5 DEF UsedExact
<1>7. PendingShifts'
  <2>1. CASE d = 0 /\ has_shift' = has_shift
    <3>1. \A j \in Cells : shift'[j] = shift[j]
      BY <2>1, <1>1, <1>2 DEF TypeOK
    <3> QED BY <2>1, <3>1, <1>1, <1>2, <1>5 DEF PendingShifts, savedVars
  <2>2. CASE has_shift' = TRUE /\ phase = "free"
    BY <2>2, <1>1, <1>2, <1>5 DEF PendingShifts, savedVars, TypeOK
  <2> QED BY <2>1, <2>2 DEF Noticed
<1> QED BY <1>3, <1>4, <1>6, <1>7

\* A cell that is taken into use, or put back, by a step that may move prepare() on.
LEMMA Replaced ==
    ASSUME Inv, NEW i \in Cells, NEW q \in Positions \cup {-1}, NEW S \in SUBSET Seqs,
           q = -1 => S = {},
           pos' = [pos EXCEPT ![i] = q], seq' = [seq EXCEPT ![i] = S],
           used' = IF q = -1 THEN used \ {i} ELSE used \cup {i},
           shift[i] = 0, UNCHANGED <<shift, has_shift>>,
           idxs' \in SUBSET idxs,
           seq_pos' \in Counts,
           \A s \in Seqs, p \in Positions :
              seq_pos'[s][p] = seq_pos[s][p] - Unit(seq[i], pos[i], s, p) + Unit(S, q, s, p)
    PROVE  /\ SeqPosExact' /\ UsedExact' /\ PendingShifts'
           /\ pos' \in [Cells -> Positions \cup {-1}]
           /\ seq' \in [Cells -> SUBSET Seqs]
           /\ used' \in SUBSET Cells
           /\ seq_pos' \in [Seqs -> [Positions -> Nat]]
<1> USE DEF Inv
<1>1. pos'[i] = q /\ seq'[i] = S
  BY DEF TypeOK
<1>2. \A j \in Cells \ {i} : pos'[j] = pos[j] /\ seq'[j] = seq[j]
  BY DEF TypeOK
<1>3. SeqPosExact' /\ seq_pos' \in [Seqs -> [Positions -> Nat]]
  BY <1>1, <1>2, OneCell
<1>4. /\ pos' \in [Cells -> Positions \cup {-1}]
      /\ seq' \in [Cells -> SUBSET Seqs]
      /\ used' \in SUBSET Cells
  BY DEF TypeOK
<1>5. UsedExact'
  BY <1>1, <1>2 DEF UsedExact
<1>6. PendingShifts'
  BY <1>1, <1>2 DEF PendingShifts
<1> QED BY <1>3, <1>4, <1>5, <1>6

\* A cell whose sequences change and nothing else.
LEMMA Resequenced ==
    ASSUME Inv, NEW i \in Cells, NEW S \in SUBSET Seqs,
           pos[i] # -1,
           seq' = [seq EXCEPT ![i] = S],
           UNCHANGED <<pos, used, shift, has_shift, base, savedVars>>,
           seq_pos' \in Counts,
           \A s \in Seqs, p \in Positions :
              seq_pos'[s][p] = seq_pos[s][p] - Unit(seq[i], pos[i], s, p) + Unit(S, pos[i], s, p)
    PROVE  Inv'
<1>1. pos[i] \in Positions
  BY DEF Inv, TypeOK
<1>2. pos' = [pos EXCEPT ![i] = pos[i]] /\ shift' = [shift EXCEPT ![i] = @ + 0]
  BY DEF Inv, TypeOK
<1>3. 0 \in Int /\ Noticed(0)
  BY DEF Noticed
<1>4. UNCHANGED <<used, base, savedVars>>
  OBVIOUS
<1> QED BY <1>1, <1>2, <1>3, <1>4, Changed, ZenonT(60)

-----------------------------------------------------------------------------
(* One lemma per method. *)

\* Counts that are all zero are exact when every cell is empty.
LEMMA EmptyCounts ==
    ASSUME \A i \in Cells : seq[i] = {},
           seq_pos = [s \in Seqs |-> [p \in Positions |-> 0]]
    PROVE  SeqPosExact
<1>1. \A s \in Seqs, p \in Positions : Holders(s, p) = {}
  BY DEF Holders
<1> QED BY <1>1, FS_EmptySet DEF SeqPosExact

\* resize() establishes the invariant.
LEMMA InitInv ==
    ASSUME Init
    PROVE  Inv
<1>1. SeqPosExact
  BY EmptyCounts DEF Init
<1>2. TypeOK
  <2>1. /\ pos \in [Cells -> Positions \cup {-1}]
        /\ seq \in [Cells -> SUBSET Seqs]
        /\ used \in SUBSET Cells
        /\ seq_pos \in [Seqs -> [Positions -> Nat]]
        /\ shift \in [Cells -> Int]
        /\ base \in [Cells -> Int]
    BY DEF Init
  <2>2. has_shift \in BOOLEAN
    BY DEF Init
  <2>3. /\ old_pos \in [Cells -> Positions \cup {-1}]
        /\ old_seq \in [Cells -> SUBSET Seqs]
        /\ \A i \in Cells : old_pos[i] = -1 => old_seq[i] = {}
        /\ phase = "free" /\ idxs = {}
    BY DEF Init
  <2> QED BY <2>1, <2>2, <2>3 DEF TypeOK
<1>3. UsedExact /\ PendingShifts
  BY DEF Init, UsedExact, PendingShifts
<1> QED BY <1>1, <1>2, <1>3 DEF Inv

\* reset() empties every container.
LEMMA ResetStep ==
    ASSUME Inv, reset
    PROVE  Inv'
<1>1. SeqPosExact'
  <2>1. \A s \in Seqs, p \in Positions : Holders(s, p)' = {}
    BY DEF Holders, reset
  <2> QED BY <2>1, FS_EmptySet DEF SeqPosExact, reset
<1>2. TypeOK'
  <2>1. /\ pos' \in [Cells -> Positions \cup {-1}]
        /\ seq' \in [Cells -> SUBSET Seqs]
        /\ used' \in SUBSET Cells
        /\ seq_pos' \in [Seqs -> [Positions -> Nat]]
        /\ shift' \in [Cells -> Int]
        /\ base' \in [Cells -> Int]
    BY DEF reset, Inv, TypeOK
  <2>2. has_shift' \in BOOLEAN /\ UNCHANGED savedVars
    BY DEF reset
  <2> QED BY <2>1, <2>2, SavedType DEF Inv
<1>3. UsedExact' /\ PendingShifts'
  BY DEF reset, UsedExact, PendingShifts
<1> QED BY <1>1, <1>2, <1>3 DEF Inv

\* reset_shift() forgets the shifts and touches no other container.
LEMMA ResetShiftStep ==
    ASSUME Inv, reset_shift
    PROVE  Inv'
<1>1. SeqPosExact'
  BY DEF Inv, reset_shift, SeqPosExact, Holders
<1>2. TypeOK'
  <2>1. /\ pos' \in [Cells -> Positions \cup {-1}]
        /\ seq' \in [Cells -> SUBSET Seqs]
        /\ used' \in SUBSET Cells
        /\ seq_pos' \in [Seqs -> [Positions -> Nat]]
        /\ shift' \in [Cells -> Int]
        /\ base' \in [Cells -> Int]
    BY DEF reset_shift, Inv, TypeOK
  <2>2. has_shift' \in BOOLEAN /\ UNCHANGED savedVars
    BY DEF reset_shift
  <2> QED BY <2>1, <2>2, SavedType DEF Inv
<1>3. UsedExact' /\ PendingShifts'
  BY DEF reset_shift, Inv, UsedExact, PendingShifts
<1> QED BY <1>1, <1>2, <1>3 DEF Inv

\* rm() empties the cell.
LEMMA RmStep ==
    ASSUME Inv, NEW i \in Cells, rm(i)
    PROVE  Inv'
BY Cleared DEF rm

\* seq_rm() takes one sequence out; the last one empties the cell.
LEMMA SeqRmStep ==
    ASSUME Inv, NEW i \in Cells, NEW s \in Seqs, seq_rm(i, s)
    PROVE  Inv'
<1> USE DEF Inv
<1>1. pos[i] \in Positions /\ seq[i] \in SUBSET Seqs /\ seq_pos \in Counts
  BY CountsType DEF TypeOK, seq_rm
<1>2. seq_pos' = seq_pos_rm(seq_pos, {s}, pos[i])
  BY <1>1 DEF seq_rm, seq_pos_rm, Counts
<1>3. CASE seq[i] = {s}
  BY <1>2, <1>3, Cleared DEF seq_rm
<1>4. CASE seq[i] # {s}
  <2>1. /\ seq_pos' \in Counts
        /\ \A t \in Seqs, p \in Positions :
              seq_pos'[t][p] = seq_pos[t][p] - Unit({s}, pos[i], t, p)
    BY <1>1, <1>2, RmCounts, ZenonT(60)
  <2>2. ASSUME NEW t \in Seqs, NEW p \in Positions
        PROVE  seq_pos'[t][p] = seq_pos[t][p] - Unit(seq[i], pos[i], t, p)
                                              + Unit(seq[i] \ {s}, pos[i], t, p)
    <3>1. s \in seq[i] /\ seq_pos[t][p] \in Int
      BY DEF seq_rm, TypeOK
    <3> QED BY <2>1, <3>1 DEF Unit
  <2>3. /\ pos[i] # -1
        /\ seq' = [seq EXCEPT ![i] = seq[i] \ {s}]
        /\ UNCHANGED <<pos, used, shift, has_shift, base, savedVars>>
    BY <1>4 DEF seq_rm
  <2>4. seq[i] \ {s} \in SUBSET Seqs
    BY <1>1
  <2> HIDE DEF Inv
  <2> QED BY <2>1, <2>2, <2>3, <2>4, Resequenced
<1> QED BY <1>3, <1>4

\* seq_keep() leaves one sequence, or empties the cell.
LEMMA SeqKeepStep ==
    ASSUME Inv, NEW i \in Cells, NEW s \in Seqs, seq_keep(i, s)
    PROVE  Inv'
<1> USE DEF Inv
<1>1. pos[i] \in Positions /\ seq[i] \in SUBSET Seqs /\ seq_pos \in Counts /\ pos[i] # -1
  BY CountsType DEF TypeOK, seq_keep, UsedExact
<1>2. CASE s \notin seq[i]
  BY <1>1, <1>2, Cleared DEF seq_keep
<1>3. CASE s \in seq[i]
  <2> DEFINE c == seq_pos_rm(seq_pos, seq[i], pos[i])
  <2>0. {s} \in SUBSET Seqs
    OBVIOUS
  <2>1. /\ c \in Counts
        /\ \A t \in Seqs, p \in Positions :
              c[t][p] = seq_pos[t][p] - Unit(seq[i], pos[i], t, p)
    BY <1>1, RmCounts
  <2>2. seq_pos' = seq_pos_add(c, {s}, pos[i])
    BY <1>3 DEF seq_keep
  <2>3. /\ seq_pos' \in Counts
        /\ \A t \in Seqs, p \in Positions : seq_pos'[t][p] = c[t][p] + Unit({s}, pos[i], t, p)
    <3> HIDE DEF c, Inv
    <3> QED BY <1>1, <2>0, <2>1, <2>2, AddCounts, ZenonT(60)
  <2>4. \A t \in Seqs, p \in Positions :
           seq_pos'[t][p] = seq_pos[t][p] - Unit(seq[i], pos[i], t, p) + Unit({s}, pos[i], t, p)
    BY <2>1, <2>3
  <2>5. /\ seq' = [seq EXCEPT ![i] = {s}]
        /\ UNCHANGED <<pos, used, shift, has_shift, base, savedVars>>
    BY <1>3 DEF seq_keep
  <2> HIDE DEF Inv
  <2> QED BY <1>1, <2>0, <2>3, <2>4, <2>5, Resequenced
<1> QED BY <1>2, <1>3

\* seq_add() counts one more sequence at the position of the cell.
LEMMA SeqAddStep ==
    ASSUME Inv, NEW i \in Cells, NEW s \in Seqs, seq_add(i, s)
    PROVE  Inv'
<1> USE DEF Inv
<1>1. pos[i] \in Positions /\ seq[i] \in SUBSET Seqs /\ seq_pos \in Counts /\ pos[i] # -1
  BY CountsType DEF TypeOK, seq_add
<1>2. seq_pos' = seq_pos_add(seq_pos, {s}, pos[i])
  BY <1>1 DEF seq_add, seq_pos_add, Counts
<1>3. /\ seq_pos' \in Counts
      /\ \A t \in Seqs, p \in Positions :
            seq_pos'[t][p] = seq_pos[t][p] + Unit({s}, pos[i], t, p)
  BY <1>1, <1>2, AddCounts, ZenonT(60)
<1>4. ASSUME NEW t \in Seqs, NEW p \in Positions
      PROVE  seq_pos'[t][p] = seq_pos[t][p] - Unit(seq[i], pos[i], t, p)
                                            + Unit(seq[i] \cup {s}, pos[i], t, p)
  <2>1. s \notin seq[i] /\ seq_pos[t][p] \in Int
    BY DEF seq_add, TypeOK
  <2> QED BY <1>3, <2>1 DEF Unit
<1>5. /\ seq' = [seq EXCEPT ![i] = seq[i] \cup {s}]
      /\ UNCHANGED <<pos, used, shift, has_shift, base, savedVars>>
  BY DEF seq_add
<1>6. seq[i] \cup {s} \in SUBSET Seqs
  BY <1>1
<1> HIDE DEF Inv
<1> QED BY <1>1, <1>3, <1>4, <1>5, <1>6, Resequenced

\* pos_set() takes an empty cell, which counts for no sequence yet.
LEMMA PosSetStep ==
    ASSUME Inv, NEW i \in Cells, NEW q \in Positions, pos_set(i, q)
    PROVE  Inv'
<1>1. /\ pos[i] = -1 /\ seq[i] = {} /\ q # -1
      /\ pos' = [pos EXCEPT ![i] = q] /\ seq' = [seq EXCEPT ![i] = {}]
  BY KvConstantsAssumption DEF pos_set, Inv, UsedExact, TypeOK, Positions
<1>a. {} \in SUBSET Seqs /\ q \in Positions \cup {-1} /\ (q = -1 => {} = {})
  OBVIOUS
<1>2. used' = (IF q = -1 THEN used \ {i} ELSE used \cup {i})
  BY <1>1 DEF pos_set
<1>3. shift[i] = 0
  BY <1>1 DEF Inv, PendingShifts
<1>4. seq_pos' \in Counts
  BY CountsType DEF pos_set, Inv
<1>5. ASSUME NEW s \in Seqs, NEW p \in Positions
      PROVE  seq_pos'[s][p] = seq_pos[s][p] - Unit(seq[i], pos[i], s, p) + Unit({}, q, s, p)
  <2>1. seq_pos[s][p] \in Int /\ seq_pos' = seq_pos
    BY DEF pos_set, Inv, TypeOK
  <2> QED BY <2>1, <1>1 DEF Unit
<1>6. UNCHANGED <<shift, has_shift, savedVars>> /\ idxs' \in SUBSET idxs
  BY DEF pos_set, savedVars
<1>7. /\ SeqPosExact' /\ UsedExact' /\ PendingShifts'
      /\ pos' \in [Cells -> Positions \cup {-1}]
      /\ seq' \in [Cells -> SUBSET Seqs]
      /\ used' \in SUBSET Cells
      /\ seq_pos' \in [Seqs -> [Positions -> Nat]]
  BY <1>1, <1>a, <1>2, <1>3, <1>4, <1>5, <1>6, Replaced
<1>8. shift' \in [Cells -> Int] /\ base' \in [Cells -> Int]
  BY KvConstantsAssumption DEF pos_set, Inv, TypeOK, Positions
<1>9. has_shift' \in BOOLEAN
  BY <1>6 DEF Inv, TypeOK
<1> QED BY <1>6, <1>7, <1>8, <1>9, SavedType DEF Inv

\* A cell that moves to q: pos_add() and pos_div().
LEMMA Moved ==
    ASSUME Inv, NEW i \in Cells, NEW q \in Positions, NEW d \in Int,
           pos[i] # -1, phase = "free", has_shift' = TRUE,
           seq_pos' = seq_pos_add(seq_pos_rm(seq_pos, seq[i], pos[i]), seq[i], q),
           pos' = [pos EXCEPT ![i] = q],
           shift' = [shift EXCEPT ![i] = @ + d],
           UNCHANGED <<seq, used, base, savedVars>>
    PROVE  Inv'
<1>1. pos[i] \in Positions /\ seq[i] \in SUBSET Seqs /\ seq_pos \in Counts
  BY CountsType DEF Inv, TypeOK
<1> DEFINE c == seq_pos_rm(seq_pos, seq[i], pos[i])
<1>2. /\ c \in Counts
      /\ \A s \in Seqs, p \in Positions :
            c[s][p] = seq_pos[s][p] - Unit(seq[i], pos[i], s, p)
  BY <1>1, RmCounts
<1>3. seq_pos' = seq_pos_add(c, seq[i], q)
  OBVIOUS
<1> HIDE DEF c
<1>4. /\ seq_pos' \in Counts
      /\ \A s \in Seqs, p \in Positions : seq_pos'[s][p] = c[s][p] + Unit(seq[i], q, s, p)
  BY <1>1, <1>2, <1>3, AddCounts
<1>5. \A s \in Seqs, p \in Positions :
         seq_pos'[s][p] = seq_pos[s][p] - Unit(seq[i], pos[i], s, p) + Unit(seq[i], q, s, p)
  BY <1>2, <1>4
<1>6. seq' = [seq EXCEPT ![i] = seq[i]]
  BY DEF Inv, TypeOK
<1>7. Noticed(d) /\ UNCHANGED <<used, base, savedVars>>
  BY DEF Noticed
<1> QED BY <1>1, <1>4, <1>5, <1>6, <1>7, Changed, ZenonT(60)

\* pos_add() moves the cell, or empties it when the position becomes negative.
LEMMA PosAddStep ==
    ASSUME Inv, NEW i \in Cells, NEW d \in Deltas, pos_add(i, d)
    PROVE  Inv'
<1>1. pos[i] \in Positions /\ d \in Int /\ MaxPos \in Nat /\ pos[i] # -1
  BY KvConstantsAssumption DEF pos_add, Inv, TypeOK
<1>2. CASE pos[i] + d < 0
  <2>1. seq_pos' = seq_pos_rm(seq_pos, seq[i], pos[i]) /\ ClearCell(i)
    BY <1>2 DEF pos_add
  <2>2. has_shift' = TRUE /\ UNCHANGED savedVars
    BY DEF pos_add
  <2> QED BY <1>1, <2>1, <2>2, Cleared
<1>3. CASE ~(pos[i] + d < 0)
  <2>1. pos[i] + d \in Positions
    BY <1>1, <1>3 DEF pos_add, Positions
  <2>2. /\ seq_pos' = seq_pos_add(seq_pos_rm(seq_pos, seq[i], pos[i]), seq[i], pos[i] + d)
        /\ pos' = [pos EXCEPT ![i] = pos[i] + d]
        /\ shift' = [shift EXCEPT ![i] = @ + d]
        /\ UNCHANGED <<seq, used, base, savedVars>>
    BY <1>3 DEF pos_add
  <2>3. has_shift' = TRUE /\ phase = "free"
    BY DEF pos_add
  <2> QED BY <1>1, <2>1, <2>2, <2>3, Moved
<1> QED BY <1>2, <1>3

\* pos_div() moves the cell; the quotient is a position again.
LEMMA PosDivStep ==
    ASSUME Inv, NEW i \in Cells, NEW d \in Divisors, pos_div(i, d)
    PROVE  Inv'
<1>1. pos[i] \in Positions /\ d \in Nat \ {0} /\ MaxPos \in Nat /\ pos[i] # -1
  BY KvConstantsAssumption DEF pos_div, Inv, TypeOK
<1> DEFINE q == pos[i] \div d
<1>2. q \in Positions /\ pos[i] - q \in Int
  BY <1>1 DEF Positions
<1>3. /\ seq_pos' = seq_pos_add(seq_pos_rm(seq_pos, seq[i], pos[i]), seq[i], q)
      /\ pos' = [pos EXCEPT ![i] = q]
      /\ shift' = [shift EXCEPT ![i] = @ + (pos[i] - q)]
      /\ UNCHANGED <<seq, used, base, savedVars>>
  BY DEF pos_div
<1>4. has_shift' = TRUE /\ phase = "free"
  BY DEF pos_div
<1> HIDE DEF q
<1> QED BY <1>1, <1>2, <1>3, <1>4, Moved

\* cp() saves cells without a pending shift.
LEMMA CpStep ==
    ASSUME Inv, NEW I \in SUBSET Cells, cp(I)
    PROVE  Inv'
<1>1. TypeOK'
  <2>1. /\ old_pos' \in [Cells -> Positions \cup {-1}]
        /\ old_seq' \in [Cells -> SUBSET Seqs]
        /\ phase' = "trial" /\ idxs' = I /\ I # {}
    BY DEF cp, Inv, TypeOK
  <2>2. \A i \in Cells : old_pos'[i] = -1 => old_seq'[i] = {}
    BY DEF cp, Inv, UsedExact
  <2>3. has_shift' \in BOOLEAN
    BY DEF cp, Inv, TypeOK
  <2> QED BY <2>1, <2>2, <2>3 DEF cp, Inv, TypeOK
<1>2. SeqPosExact'
  BY DEF cp, Inv, SeqPosExact, Holders
<1>3. UsedExact'
  BY DEF cp, Inv, UsedExact
<1>4. PendingShifts'
  BY DEF cp, Inv, PendingShifts
<1> QED BY <1>1, <1>2, <1>3, <1>4 DEF Inv

\* The start of set().
LEMMA SetStep ==
    ASSUME Inv, set
    PROVE  Inv'
<1>1. TypeOK'
  BY DEF set, Inv, TypeOK
<1>2. SeqPosExact' /\ UsedExact' /\ PendingShifts'
  BY DEF set, Inv, SeqPosExact, Holders, UsedExact, PendingShifts
<1> QED BY <1>1, <1>2 DEF Inv

\* set() puts one saved cell back, used or empty before and after.
LEMMA RestoreStep ==
    ASSUME Inv, NEW i \in Cells, RestoreCell(i)
    PROVE  Inv'
<1> DEFINE c == IF pos[i] # -1 THEN seq_pos_rm(seq_pos, seq[i], pos[i]) ELSE seq_pos
           q == old_pos[i]
           S == old_seq[i]
<1>1. /\ q \in Positions \cup {-1} /\ S \in SUBSET Seqs /\ (q = -1 => S = {})
      /\ pos[i] \in Positions \cup {-1} /\ seq[i] \in SUBSET Seqs /\ (pos[i] = -1 => seq[i] = {})
      /\ i \in idxs
  BY DEF Inv, TypeOK, UsedExact, RestoreCell
<1>2. seq_pos \in Counts /\ \A s \in Seqs, p \in Positions : seq_pos[s][p] \in Int
  BY CountsType DEF Inv, Counts
<1>3. /\ c \in Counts
      /\ \A s \in Seqs, p \in Positions :
            c[s][p] = seq_pos[s][p] - Unit(seq[i], pos[i], s, p)
  <2>1. CASE pos[i] # -1
    BY <1>1, <1>2, <2>1, RmCounts
  <2>2. CASE pos[i] = -1
    <3>1. \A s \in Seqs, p \in Positions : Unit(seq[i], pos[i], s, p) = 0
      BY <1>1, <2>2 DEF Unit
    <3> QED BY <1>2, <2>2, <3>1
  <2> QED BY <2>1, <2>2
<1>4. seq_pos' = IF q # -1 THEN seq_pos_add(c, S, q) ELSE c
  BY DEF RestoreCell, RestoreCounts
<1> HIDE DEF c
<1>5. /\ seq_pos' \in Counts
      /\ \A s \in Seqs, p \in Positions : seq_pos'[s][p] = c[s][p] + Unit(S, q, s, p)
  <2>1. CASE q # -1
    BY <1>1, <1>3, <1>4, <2>1, AddCounts
  <2>2. CASE q = -1
    <3>1. \A s \in Seqs, p \in Positions : Unit(S, q, s, p) = 0
      BY <1>1, <2>2 DEF Unit
    <3>2. \A s \in Seqs, p \in Positions : c[s][p] \in Int
      BY <1>3 DEF Counts
    <3> QED BY <1>3, <1>4, <2>2, <3>1, <3>2
  <2> QED BY <2>1, <2>2
<1>6. \A s \in Seqs, p \in Positions :
         seq_pos'[s][p] = seq_pos[s][p] - Unit(seq[i], pos[i], s, p) + Unit(S, q, s, p)
  BY <1>3, <1>5
<1>7. pos' = [pos EXCEPT ![i] = q] /\ seq' = [seq EXCEPT ![i] = S]
  BY DEF RestoreCell
<1>8. used' = IF q = -1 THEN used \ {i} ELSE used \cup {i}
  BY DEF RestoreCell, Inv, UsedExact
<1>9. shift[i] = 0
  BY <1>1 DEF Inv, PendingShifts
<1>10. UNCHANGED <<shift, has_shift>> /\ idxs' \in SUBSET idxs
  BY DEF RestoreCell
<1>11. TypeOK /\ base' = base
  BY DEF Inv, RestoreCell
<1>12. /\ idxs' = idxs \ {i} /\ phase' = IF idxs = {i} THEN "free" ELSE "restore"
       /\ old_pos' = [old_pos EXCEPT ![i] = -1] /\ old_seq' = [old_seq EXCEPT ![i] = {}]
  BY DEF RestoreCell
<1> HIDE DEF q, S
<1>13. /\ SeqPosExact' /\ UsedExact' /\ PendingShifts'
       /\ pos' \in [Cells -> Positions \cup {-1}]
       /\ seq' \in [Cells -> SUBSET Seqs]
       /\ used' \in SUBSET Cells
       /\ seq_pos' \in [Seqs -> [Positions -> Nat]]
  BY <1>1, <1>5, <1>6, <1>7, <1>8, <1>9, <1>10, Replaced
<1>14. TypeOK'
  <2>1. shift' \in [Cells -> Int] /\ base' \in [Cells -> Int]
    BY <1>1, <1>10, <1>11, KvConstantsAssumption DEF TypeOK, Positions
  <2>2. has_shift' \in BOOLEAN
    BY <1>10, <1>11 DEF TypeOK
  <2>3. /\ old_pos' \in [Cells -> Positions \cup {-1}]
        /\ old_seq' \in [Cells -> SUBSET Seqs]
        /\ \A j \in Cells : old_pos'[j] = -1 => old_seq'[j] = {}
    BY <1>11, <1>12 DEF TypeOK
  <2>4. /\ phase' \in {"free", "trial", "restore"} /\ idxs' \in SUBSET Cells
        /\ phase' = "free" <=> idxs' = {}
    BY <1>1, <1>11, <1>12 DEF TypeOK
  <2> QED BY <1>13, <2>1, <2>2, <2>3, <2>4 DEF TypeOK
<1> QED BY <1>13, <1>14 DEF Inv

-----------------------------------------------------------------------------
\* Every step preserves the invariant.
LEMMA NextInv ==
    ASSUME Inv, [Next]_vars
    PROVE  Inv'
<1>1. CASE reset
  BY <1>1, ResetStep
<1>2. CASE reset_shift
  BY <1>2, ResetShiftStep
<1>3. CASE set
  BY <1>3, SetStep
<1>4. ASSUME NEW i \in Cells, rm(i) \/ RestoreCell(i)
      PROVE  Inv'
  BY <1>4, RmStep, RestoreStep
<1>5. ASSUME NEW i \in Cells, NEW s \in Seqs, seq_rm(i, s) \/ seq_keep(i, s) \/ seq_add(i, s)
      PROVE  Inv'
  BY <1>5, SeqRmStep, SeqKeepStep, SeqAddStep
<1>6. ASSUME NEW i \in Cells, NEW p \in Positions, pos_set(i, p)
      PROVE  Inv'
  BY <1>6, PosSetStep
<1>7. ASSUME NEW i \in Cells, NEW d \in Deltas, pos_add(i, d)
      PROVE  Inv'
  BY <1>7, PosAddStep
<1>8. ASSUME NEW i \in Cells, NEW d \in Divisors, pos_div(i, d)
      PROVE  Inv'
  BY <1>8, PosDivStep
<1>9. ASSUME NEW I \in SUBSET Cells, cp(I)
      PROVE  Inv'
  BY <1>9, CpStep
<1>10. CASE UNCHANGED vars
  <2>1. /\ UNCHANGED <<pos, seq, used, seq_pos, shift, has_shift, base>>
        /\ UNCHANGED <<phase, idxs, old_pos, old_seq>>
    BY <1>10 DEF vars, savedVars
  <2>2. TypeOK'
    BY <2>1 DEF Inv, TypeOK
  <2>3. SeqPosExact' /\ UsedExact' /\ PendingShifts'
    BY <2>1 DEF Inv, SeqPosExact, Holders, UsedExact, PendingShifts
  <2> QED BY <2>2, <2>3 DEF Inv
<1> QED BY <1>1, <1>2, <1>3, <1>4, <1>5, <1>6, <1>7, <1>8, <1>9, <1>10 DEF Next

\* The four invariants below hold together; none is inductive without the others.
THEOREM InvCorrect == Spec => []Inv
BY InitInv, NextInv, PTL DEF Spec

\* Every container of llama_kv_cells keeps its type, and no cell ever has a negative
\* position other than -1.
THEOREM TypeCorrect == Spec => []TypeOK
BY InvCorrect, PTL DEF Inv

\* seq_pos counts the cells exactly, whatever methods are called in whatever order,
\* the rollback of prepare() included.
THEOREM SeqPosCorrect == Spec => []SeqPosExact
BY InvCorrect, PTL DEF Inv

\* used is the set of the cells with a position, and the others belong to no sequence.
THEOREM UsedCorrect == Spec => []UsedExact
BY InvCorrect, PTL DEF Inv

\* No pending shift is left on an empty cell, unnoticed, or on a saved cell.
THEOREM PendingCorrect == Spec => []PendingShifts
BY InvCorrect, PTL DEF Inv

-----------------------------------------------------------------------------
(* Shifts without divisions. *)

\* ShiftIsDisplacement, and what prepare() has to find again for the cells it saved.
Displaced ==
    \A i \in Cells :
       /\ i \notin idxs /\ pos[i] # -1 => pos[i] = base[i] + shift[i]
       /\ i \in idxs /\ old_pos[i] # -1 => old_pos[i] = base[i]

\* A cell that becomes empty, or has its sequences changed, keeps the others displaced.
LEMMA DisplacedRemoval ==
    ASSUME Inv, Displaced, NEW i \in Cells,
           ClearCell(i) \/ UNCHANGED <<pos, shift, base>>,
           UNCHANGED savedVars
    PROVE  Displaced'
<1>1. CASE ClearCell(i)
  <2>1. pos'[i] = -1
    BY <1>1 DEF ClearCell, Inv, TypeOK
  <2>2. \A j \in Cells \ {i} : pos'[j] = pos[j] /\ shift'[j] = shift[j]
    BY <1>1 DEF ClearCell, Inv, TypeOK
  <2>3. UNCHANGED <<base, idxs, old_pos>>
    BY <1>1 DEF ClearCell, savedVars
  <2> QED BY <2>1, <2>2, <2>3 DEF Displaced
<1>2. CASE UNCHANGED <<pos, shift, base>>
  BY <1>2 DEF Displaced, savedVars
<1> QED BY <1>1, <1>2

\* pos_set() computes keys for the new position, or belongs to a trial.
LEMMA DisplacedPosSet ==
    ASSUME Inv, Displaced, NEW i \in Cells, NEW q \in Positions, pos_set(i, q)
    PROVE  Displaced'
<1>1. shift[i] = 0 /\ UNCHANGED <<shift, idxs, old_pos>>
  BY DEF pos_set, savedVars, Inv, PendingShifts
<1>2. CASE phase = "free"
  <2>1. pos'[i] = q /\ base'[i] = q /\ q = q + 0 /\ idxs = {}
    BY <1>2, KvConstantsAssumption DEF pos_set, Inv, TypeOK, Positions
  <2>2. \A j \in Cells \ {i} : pos'[j] = pos[j] /\ base'[j] = base[j]
    BY <1>2 DEF pos_set, Inv, TypeOK
  <2> QED BY <1>1, <2>1, <2>2 DEF Displaced
<1>3. CASE phase # "free"
  <2>1. i \in idxs /\ base' = base
    BY <1>3 DEF pos_set, Writable
  <2>2. \A j \in Cells \ {i} : pos'[j] = pos[j]
    BY DEF pos_set, Inv, TypeOK
  <2> QED BY <1>1, <2>1, <2>2 DEF Displaced
<1> QED BY <1>2, <1>3

\* pos_add() moves position and shift by the same amount.
LEMMA DisplacedPosAdd ==
    ASSUME Inv, Displaced, NEW i \in Cells, NEW d \in Deltas, pos_add(i, d)
    PROVE  Displaced'
<1>1. CASE pos[i] + d < 0
  <2>1. ClearCell(i) /\ UNCHANGED savedVars
    BY <1>1 DEF pos_add
  <2> QED BY <2>1, DisplacedRemoval
<1>2. CASE ~(pos[i] + d < 0)
  <2>1. pos'[i] = pos[i] + d /\ shift'[i] = shift[i] + d
    BY <1>2 DEF pos_add, Inv, TypeOK
  <2>2. \A j \in Cells \ {i} : pos'[j] = pos[j] /\ shift'[j] = shift[j]
    BY <1>2 DEF pos_add, Inv, TypeOK
  <2>3. idxs = {} /\ idxs' = {} /\ base' = base /\ pos[i] # -1
    BY <1>2 DEF pos_add, savedVars, Inv, TypeOK
  <2>4. pos[i] \in Int /\ base[i] \in Int /\ shift[i] \in Int /\ d \in Int
    BY KvConstantsAssumption DEF Inv, TypeOK, Positions
  <2>5. pos'[i] = base'[i] + shift'[i]
    BY <2>1, <2>3, <2>4 DEF Displaced
  <2> QED BY <2>2, <2>3, <2>5 DEF Displaced
<1> QED BY <1>1, <1>2

\* A saved cell comes back to the keys it still has.
LEMMA DisplacedRestore ==
    ASSUME Inv, Displaced, NEW i \in Cells, RestoreCell(i)
    PROVE  Displaced'
<1>1. i \in idxs /\ shift[i] = 0 /\ UNCHANGED <<shift, base>>
  BY DEF RestoreCell, Inv, PendingShifts
<1>2. pos'[i] = old_pos[i] /\ idxs' = idxs \ {i}
  BY DEF RestoreCell, Inv, TypeOK
<1>3. \A j \in Cells \ {i} : pos'[j] = pos[j] /\ old_pos'[j] = old_pos[j]
  BY DEF RestoreCell, Inv, TypeOK
<1>4. base[i] \in Int
  BY DEF Inv, TypeOK
<1> QED BY <1>1, <1>2, <1>3, <1>4 DEF Displaced

\* Every step but pos_div() keeps the shifts equal to the displacements.
LEMMA NextDisplaced ==
    ASSUME Inv, Displaced, [Next]_vars, Divisors = {}
    PROVE  Displaced'
<1>1. CASE reset
  <2>1. idxs' = {} /\ \A i \in Cells : pos'[i] = -1
    BY <1>1 DEF reset, savedVars, Inv, TypeOK
  <2> QED BY <2>1 DEF Displaced
<1>2. CASE reset_shift
  <2>1. \A i \in Cells : base'[i] = base[i] + shift[i] /\ shift'[i] = 0
    BY <1>2 DEF reset_shift
  <2>2. idxs = {} /\ idxs' = {} /\ pos' = pos
    BY <1>2 DEF reset_shift, savedVars, Inv, TypeOK
  <2>3. \A i \in Cells : base[i] + shift[i] \in Int
    BY DEF Inv, TypeOK
  <2> QED BY <2>1, <2>2, <2>3 DEF Displaced
<1>3. CASE set
  BY <1>3 DEF set, Displaced
<1>4. ASSUME NEW i \in Cells, rm(i)
      PROVE  Displaced'
  BY <1>4, DisplacedRemoval DEF rm
<1>5. ASSUME NEW i \in Cells, RestoreCell(i)
      PROVE  Displaced'
  BY <1>5, DisplacedRestore
<1>6. ASSUME NEW i \in Cells, NEW s \in Seqs, seq_rm(i, s)
      PROVE  Displaced'
  <2>1. (ClearCell(i) \/ UNCHANGED <<pos, shift, base>>) /\ UNCHANGED savedVars
    BY <1>6 DEF seq_rm
  <2> QED BY <2>1, DisplacedRemoval
<1>7. ASSUME NEW i \in Cells, NEW s \in Seqs, seq_keep(i, s)
      PROVE  Displaced'
  <2>1. (ClearCell(i) \/ UNCHANGED <<pos, shift, base>>) /\ UNCHANGED savedVars
    BY <1>7 DEF seq_keep
  <2> QED BY <2>1, DisplacedRemoval
<1>8. ASSUME NEW i \in Cells, NEW s \in Seqs, seq_add(i, s)
      PROVE  Displaced'
  BY <1>8 DEF seq_add, savedVars, Displaced
<1>9. ASSUME NEW i \in Cells, NEW p \in Positions, pos_set(i, p)
      PROVE  Displaced'
  BY <1>9, DisplacedPosSet
<1>10. ASSUME NEW i \in Cells, NEW d \in Deltas, pos_add(i, d)
      PROVE  Displaced'
  BY <1>10, DisplacedPosAdd
<1>11. ASSUME NEW I \in SUBSET Cells, cp(I)
      PROVE  Displaced'
  <2>1. idxs = {} /\ idxs' = I /\ UNCHANGED <<pos, shift, base>>
    BY <1>11 DEF cp, Inv, TypeOK
  <2>2. \A i \in I : old_pos'[i] = pos[i] /\ shift[i] = 0 /\ base[i] \in Int
    BY <1>11 DEF cp, Inv, TypeOK
  <2> QED BY <2>1, <2>2 DEF Displaced
<1>12. CASE UNCHANGED vars
  BY <1>12 DEF vars, savedVars, Displaced
<1> QED BY <1>1, <1>2, <1>3, <1>4, <1>5, <1>6, <1>7, <1>8, <1>9, <1>10, <1>11, <1>12 DEF Next

\* Without pos_div() the pending shift of a cell is exactly how far its position has
\* moved away from its keys: division is the only method that breaks it.
THEOREM ShiftCorrect ==
    ASSUME Divisors = {}
    PROVE  Spec => []ShiftIsDisplacement
<1>1. Init => Displaced
  BY DEF Init, Displaced
<1>2. Inv /\ Displaced /\ [Next]_vars => Displaced'
  BY NextDisplaced
<1>3. Inv /\ Displaced => ShiftIsDisplacement
  BY DEF Inv, TypeOK, Displaced, ShiftIsDisplacement
<1> QED BY <1>1, <1>2, <1>3, InvCorrect, PTL DEF Spec
=============================================================================
