--------------------------- MODULE MCPhaseLimiter ---------------------------
(* PhaseLimiter for TLC: four credits compete for limits of one to three,  *)
(* so a credit waits behind another and a new phase starts over its        *)
(* predecessor's slots; in other runs sessions are released while they are *)
(* in flight, or limits are ramped or off and waits are cancelled.         *)
EXTENDS PhaseLimiter, TLC

CONSTANTS a, b, c, d

MCTasks == {a, b, c, d}
Symmetry == Permutations(Tasks)

MCSetups ==
  {[limits |-> {1, 3}, ramps |-> {}, cancels |-> FALSE, trees |-> FALSE],
   [limits |-> {2}, ramps |-> {}, cancels |-> FALSE, trees |-> TRUE],
   [limits |-> {1, Unlimited}, ramps |-> {1, 2}, cancels |-> TRUE, trees |-> FALSE]}
=============================================================================
