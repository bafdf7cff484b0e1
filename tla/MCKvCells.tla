----------------------------- MODULE MCKvCells -----------------------------
(* Two cells, two sequences and the positions 0..MaxPos; shifts in both        *)
(* directions, among them one that makes any position negative.                *)
EXTENDS KvCells

CONSTANTS s0, s1

MCDeltas == {-MaxPos - 1, -1, 1}
============================================================================
