-------------------------- MODULE ConversationTurns --------------------------
(***************************************************************************)
(* What the run store promises the runtimes of one conversation.           *)
(*                                                                         *)
(* Runs are turns.  One turn at a time is open; while it is open it is     *)
(* leased, released by a recovery and leased again, until it is settled.   *)
(* Every admitted input has one carrier, the turn that answers it; a turn  *)
(* that completes may take over the inputs of turns still waiting, whole.  *)
(* Nothing is said of revisions, owners, versions, drafts or order.        *)
(***************************************************************************)
EXTENDS Naturals

CONSTANTS Runs, Keys, None

VARIABLES
  open,     \* the turn that has started and is not settled, or None
  held,     \* whether an executor holds the lease of the open turn
  leases,   \* [Runs -> leases granted so far]
  settled,  \* the turns that ended
  carrier   \* [Keys -> the turn that carries the input, or None]

turnVars == <<open, held, leases, settled, carrier>>

Init ==
  /\ open = None
  /\ held = FALSE
  /\ leases = [r \in Runs |-> 0]
  /\ settled = {}
  /\ carrier = [k \in Keys |-> None]

Waiting(r) == r \notin settled /\ \E k \in Keys : carrier[k] = r

\* An input goes to a turn nobody is executing, a new one or one that waits.
Admit(k, r) ==
  /\ carrier[k] = None
  /\ r \notin settled /\ ~(held /\ open = r)
  /\ carrier' = [carrier EXCEPT ![k] = r]
  /\ UNCHANGED <<open, held, leases, settled>>

Grant(r) ==
  /\ ~held /\ open \in {None, r}
  /\ Waiting(r)
  /\ open' = r /\ held' = TRUE
  /\ leases' = [leases EXCEPT ![r] = @ + 1]
  /\ UNCHANGED <<settled, carrier>>

Release ==
  /\ held
  /\ held' = FALSE
  /\ UNCHANGED <<open, leases, settled, carrier>>

\* Given up without an answer, by the executor or by a recovery.
Drop(r) ==
  /\ Waiting(r)
  /\ settled' = settled \cup {r}
  /\ open' = IF open = r THEN None ELSE open
  /\ held' = (held /\ open # r)
  /\ UNCHANGED <<leases, carrier>>

\* The executor ends the open turn and takes over the turns in others.
Settle(others) ==
  /\ held
  /\ \A r \in others : Waiting(r) /\ r # open
  /\ settled' = settled \cup others \cup {open}
  /\ carrier' = [k \in Keys |-> IF carrier[k] \in others THEN open ELSE carrier[k]]
  /\ open' = None /\ held' = FALSE
  /\ UNCHANGED leases

Next ==
  \/ \E k \in Keys, r \in Runs : Admit(k, r)
  \/ \E r \in Runs : Grant(r) \/ Drop(r)
  \/ Release
  \/ \E others \in SUBSET Runs : Settle(others)

Spec == Init /\ [][Next]_turnVars

=============================================================================
