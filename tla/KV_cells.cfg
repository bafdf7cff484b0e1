SPECIFICATION Spec
CONSTANTS
    Cells = {0, 1}
    Seqs = {s0, s1}
    s0 = s0  s1 = s1
    MaxPos = 2
    Deltas <- MCDeltas
    Divisors = {2}
INVARIANTS TypeOK SeqPosExact UsedExact PendingShifts
