------------------------ MODULE MCRuntimeAdmission ------------------------
(* One runtime and one key: the hosts that the runs consider. *)
EXTENDS RuntimeAdmission, TLC

CONSTANTS s1, s2, s3, r1, r2, r3, t1, self, here

MCRunOf   == (s1 :> r1) @@ (s2 :> r2) @@ (s3 :> r3)
MCTwinOf  == [s \in Elsewhere |-> t1]
MCStamps  == 0 .. 3
MCLabelOf == self :> here

\* Three submissions coalesce, runs are interrupted, and close() has a budget.
Coalescing ==
  [keys |-> {s1, s2, s3}, elsewhere |-> {}, coalescing |-> TRUE, policies |-> {"queue"},
   recovers |-> FALSE, interrupts |-> TRUE, lossy |-> FALSE, budgeted |-> TRUE]

\* recover() among ordinary and urgent submissions; close() has no budget.
Urgency ==
  [keys |-> {s1, s2}, elsewhere |-> {}, coalescing |-> FALSE,
   policies |-> {"supersede", "interrupt-next"},
   recovers |-> TRUE, interrupts |-> FALSE, lossy |-> FALSE, budgeted |-> FALSE]

\* recover() among submissions one of which another process has admitted, over a store
\* that throws; what waits may be taken on.
AfterCrash ==
  [keys |-> {s1, s2}, elsewhere |-> {s1}, coalescing |-> FALSE, policies |-> {"inject"},
   recovers |-> TRUE, interrupts |-> FALSE, lossy |-> TRUE, budgeted |-> FALSE]

\* Three submissions coalesce, one is a duplicate, over a store that throws.
Lossy ==
  [keys |-> {s1, s2, s3}, elsewhere |-> {s2}, coalescing |-> TRUE, policies |-> {"queue"},
   recovers |-> FALSE, interrupts |-> FALSE, lossy |-> TRUE, budgeted |-> FALSE]

\* Waiting inputs are taken on by the run in flight: coalesced ones as a whole.
Injecting ==
  [keys |-> {s1, s2, s3}, elsewhere |-> {}, coalescing |-> TRUE, policies |-> {"inject"},
   recovers |-> FALSE, interrupts |-> FALSE, lossy |-> FALSE, budgeted |-> TRUE]

SafetyHosts == {Coalescing, Urgency, AfterCrash, Injecting}
\* One input waits while another is answered, over a store that throws.
TakenOn ==
  [keys |-> {s1, s3}, elsewhere |-> {}, coalescing |-> FALSE, policies |-> {"inject"},
   recovers |-> FALSE, interrupts |-> TRUE, lossy |-> TRUE, budgeted |-> FALSE]

\* recover() resumes runs behind the active one, and close() has a budget: without one
\* the close, the recovery and the run would wait for each other.
Resuming ==
  [keys |-> {s1, s2}, elsewhere |-> {}, coalescing |-> FALSE, policies |-> {"queue"},
   recovers |-> TRUE, interrupts |-> FALSE, lossy |-> FALSE, budgeted |-> TRUE]

LiveHosts   == {Lossy, TakenOn, Resuming}
=============================================================================
