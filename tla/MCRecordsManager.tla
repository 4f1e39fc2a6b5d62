-------------------------- MODULE MCRecordsManager --------------------------
(* RecordsManager instantiated for TLC by MCRecordsManager.cfg: every two  *)
(* of the things that may happen to a run meet in one of the runs; a       *)
(* second phase overlaps the first.                                        *)
EXTENDS RecordsManager

Kind(phases, requests, may) ==
  [phases |-> phases, seamless |-> {2}, requests |-> requests, may |-> may]

MCRuns ==
  {Kind(2, 1, {"kubernetes", "raising"}), Kind(2, 1, {"failing"}), Kind(2, 1, {"cancelled"}),
   Kind(1, 2, {"kubernetes"}), Kind(1, 2, {"failing"}),
   Kind(1, 1, {"kubernetes", "cancelled"}), Kind(1, 1, {"kubernetes", "failing"}),
   Kind(1, 1, {"failing", "cancelled"}), Kind(1, 1, {"failing", "raising"}),
   Kind(1, 1, {"cancelled", "raising"}), Kind(2, 1, {"broken"})}
=============================================================================
