--------------------------- MODULE PhaseContract ----------------------------
(***************************************************************************)
(* What a credit phase promises to the orchestrator that starts the next   *)
(* phase and to the records manager that waits for one record per request: *)
(* credits go out only while the phase is started, every credit comes back *)
(* at most once, and from the moment the phase completes both counts are   *)
(* final.  A phase may be given up with credits still out.                 *)
(***************************************************************************)
EXTENDS Naturals

VARIABLES
  stage,   \* PhaseLifecycle.state
  sent,    \* the credits sent
  back     \* the credits returned or cancelled

vars == <<stage, sent, back>>

Init == stage = "created" /\ sent = 0 /\ back = 0

Start == stage = "created" /\ stage' = "started" /\ UNCHANGED <<sent, back>>

Send == stage = "started" /\ sent' = sent + 1 /\ UNCHANGED <<stage, back>>

Return ==
  /\ stage # "complete"
  /\ back < sent
  /\ back' = back + 1
  /\ UNCHANGED <<stage, sent>>

StopSending ==
  stage = "started" /\ stage' = "sending_complete" /\ UNCHANGED <<sent, back>>

Complete ==
  stage = "sending_complete" /\ stage' = "complete" /\ UNCHANGED <<sent, back>>

Next == Start \/ Send \/ Return \/ StopSending \/ Complete

Spec == Init /\ [][Next]_vars
=============================================================================
