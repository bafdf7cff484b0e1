--------------------------- MODULE MCServerQueue ---------------------------
(* Small sets of requests for TLC.  A configuration picks some of them:        *)
(*   r1 asks for two completions of one prompt: parent p with child c;         *)
(*   r2 sends two prompts in one request: t, and u which wants slot s1;        *)
(*   r3 acts on slot s1 (a: save, restore or erase);                           *)
(*   r4 asks for something the main thread answers at once (m: metrics).       *)
EXTENDS ServerQueue

CONSTANTS r1, r2, r3, r4, p, c, t, u, a, m, s1

MCOwner == [x \in Tasks |-> CASE x \in {p, c} -> r1
                              [] x \in {t, u} -> r2
                              [] x = a -> r3
                              [] x = m -> r4]
MCParent == [x \in Tasks |-> IF x = c THEN p ELSE NoTask]
MCKind == [x \in Tasks |-> CASE x = a -> "slot_action"
                             [] x = m -> "instant"
                             [] OTHER -> "completion"]
MCIdSlot == [x \in Tasks |-> IF x \in {u, a} THEN s1 ELSE NoSlot]
MCPosts == [r \in Readers |-> SelectSeq(<<p, t, u, a, m>>,
                                LAMBDA x : x \in Tasks /\ MCOwner[x] = r)]
=============================================================================
