------------------------ MODULE MCPhaseOrchestrator -------------------------
(* PhaseOrchestrator instantiated for TLC: three phases, all the ways to   *)
(* overlap them, with and without durations and a profiler; every two of   *)
(* the things that may happen meet.                                        *)
EXTENDS PhaseOrchestrator

MCPlans ==
  [seamless : SUBSET (2 .. NumPhases), timed : {{}, {1}, Phases}, profiled : BOOLEAN,
   may : {{"cancelled", "failing"}, {"cancelled", "node"}, {"failing", "node"}}]
=============================================================================
