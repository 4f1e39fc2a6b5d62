-------------------------- MODULE MCWorkerCredits ---------------------------
(* WorkerCredits instantiated for TLC: three credits, whose frames meet in   *)
(* the backlog, and outages longer and shorter than the retries.             *)
EXTENDS WorkerCredits

CONSTANTS c1, c2, c3

MCCredits == {c1, c2, c3}
=============================================================================
