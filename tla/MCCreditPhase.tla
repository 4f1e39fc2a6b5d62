--------------------------- MODULE MCCreditPhase ----------------------------
(* CreditPhase for TLC: with more sessions than slots and conversations of *)
(* up to two turns, continuations queue up behind a busy prefill slot.     *)
(* One phase has a duration, loses credits and may be cancelled; no timeout*)
(* helps the other, which counts its sessions.                             *)
EXTENDS CreditPhase

MCPlans ==
  {[requests |-> 5, sessions |-> None, timed |-> TRUE, cancels |-> TRUE, lossy |-> TRUE],
   [requests |-> 5, sessions |-> 3, timed |-> FALSE, cancels |-> FALSE, lossy |-> FALSE]}
=============================================================================
