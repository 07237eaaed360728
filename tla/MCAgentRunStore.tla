--------------------------- MODULE MCAgentRunStore ---------------------------
(* Instances of AgentRunStore for TLC. *)
EXTENDS AgentRunStore, TLC

CONSTANTS r1, r2, r3, k1, k2, k3, p1, p2, l1

\* Both lanes present one owner label: the reuse fencing tokens exist for.
MCLabelOf == [p \in Lanes |-> l1]

MCStamps == {1, 2}

Symmetry == Permutations(Runs) \cup Permutations(Keys)
=============================================================================
