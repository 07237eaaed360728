-------------------------- MODULE MCStepDurability --------------------------
(* One name, a step, an effect, a sleep or a wait. *)
EXTENDS StepDurability

CONSTANTS n1, c1, c2, d1, d2, v1, v2

EachKind == {[n \in {n1} |-> k] : k \in {"step", "effect", "sleep", "wait"}}
=============================================================================
