-------------------------- MODULE MCServerStream --------------------------
(* Instances of ServerStream for TLC: up to two POSTs, two GETs and a *)
(* DELETE, all of one conversation.                                        *)
EXTENDS ServerStream

CONSTANTS p1, p2, g1, g2, d1, v1,
          Mode2         \* the mode of p2, which the configurations vary

MCMode == [p \in Producers |-> IF p = p2 THEN Mode2 ELSE "stream"]
MCConv == [x \in Producers \cup Consumers \cup Stops |-> v1]
MCFrom == [c \in Consumers |-> IF c = g1 THEN 0 ELSE 1]
============================================================================
