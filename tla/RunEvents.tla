----------------------------- MODULE RunEvents ------------------------------
(***************************************************************************)
(* What the TimingManager tells the other services about the phases of a   *)
(* run: each phase starts, ends sending and completes, in this order and   *)
(* once; a phase starts when those before it have ended sending, one that  *)
(* is not seamless when the one before it is complete; and                 *)
(* CREDITS_COMPLETE follows once.  It is the last message of a run that    *)
(* nobody cancels and in which nothing fails.  In any other run phases may *)
(* be left out, and a phase may complete late or never.                    *)
(***************************************************************************)
EXTENDS Naturals

VARIABLES
  count,      \* phases of the run
  seamless,   \* the phases that do not wait for the one before to complete
  stage,      \* what was last published about each phase
  over,       \* CREDITS_COMPLETE has been published
  disturbed   \* the run was cancelled, or something failed

vars == <<count, seamless, stage, over, disturbed>>

Phases == DOMAIN stage

Init ==
  /\ \A p \in Phases : stage[p] = "new"
  /\ ~over /\ ~disturbed

(* publish_phase_start                                                     *)
Start(p) ==
  /\ p <= count /\ stage[p] = "new" /\ ~over
  /\ \A q \in Phases :
       /\ q < p => stage[q] \in {"sent", "complete"}
       /\ q = p - 1 => p \in seamless \/ disturbed \/ stage[q] = "complete"
  /\ stage' = [stage EXCEPT ![p] = "started"]
  /\ UNCHANGED <<count, seamless, over, disturbed>>

(* publish_phase_sending_complete                                          *)
Sent(p) ==
  /\ stage[p] = "started" /\ ~over
  /\ stage' = [stage EXCEPT ![p] = "sent"]
  /\ UNCHANGED <<count, seamless, over, disturbed>>

(* publish_phase_complete                                                  *)
Complete(p) ==
  /\ stage[p] = "sent"
  /\ over => disturbed
  /\ stage' = [stage EXCEPT ![p] = "complete"]
  /\ UNCHANGED <<count, seamless, over, disturbed>>

(* publish_credits_complete                                                *)
Over ==
  /\ ~over
  /\ \A p \in 1 .. count : stage[p] # "started" /\ (disturbed \/ stage[p] = "complete")
  /\ over' = TRUE
  /\ UNCHANGED <<count, seamless, stage, disturbed>>

Disturb ==
  /\ ~disturbed
  /\ disturbed' = TRUE
  /\ UNCHANGED <<count, seamless, stage, over>>

Next ==
  \/ \E p \in Phases : Start(p) \/ Sent(p) \/ Complete(p)
  \/ Over
  \/ Disturb

Spec == Init /\ [][Next]_vars
=============================================================================
