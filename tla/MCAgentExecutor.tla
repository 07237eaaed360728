--------------------------- MODULE MCAgentExecutor ---------------------------
(* Two processes over one conversation.  The first run may be started twice;   *)
(* a second one is there to be ahead of it, behind it or taken on by it.       *)
EXTENDS AgentExecutor, TLC

CONSTANTS r1, r2, k1, k2, p1, p2, l1, l2

MCStamps == {0}
TwoProcesses == (p1 :> l1) @@ (p2 :> l2)
MCTickets == (r1 :> 2) @@ (r2 :> 0)
MCRevisions == (r1 :> 2) @@ (r2 :> 0)

\* Runs and keys are interchangeable, so r1 names the run that is admitted first
\* and k1 its key; its priority is relative to that of the second.
InOrder ==
  /\ receipt[k1] \in {None, r1} /\ receipt[k2] \in {None, r2}
  /\ state[r2] # "absent" => state[r1] # "absent"
  /\ ~admission[r1].priority
  /\ admission[r2].arrived <= 3

=============================================================================
