-------------------------- MODULE MCTelegramUpdates --------------------------
(* One intake and two updates of one chat, with a call of sweep() at any   *)
(* time, or with a fault; one update, with both; two intakes and one.      *)
EXTENDS TelegramUpdates
CONSTANTS p1, p2, chat
MCUpdates == 1..2
OneChat == [u \in MCUpdates |-> chat]
MCSites == {<<{p1}, {1, 2}, [calls |-> 3, sweeps |-> 1, faults |-> 0]>>,
            <<{p1}, {1, 2}, [calls |-> 3, sweeps |-> 0, faults |-> 1]>>,
            <<{p1}, {1}, [calls |-> 3, sweeps |-> 1, faults |-> 1]>>,
            <<{p1, p2}, {1}, [calls |-> 3, sweeps |-> 0, faults |-> 1]>>}
===============================================================================
