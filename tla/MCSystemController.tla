-------------------------- MODULE MCSystemController ------------------------
(* SystemController for TLC: the two services that a run cannot do without *)
(* and an optional producer, which leaves the publishing of its results to *)
(* the RecordsManager.                                                     *)
EXTENDS SystemController

CONSTANTS timing, records, gpu, profile, telemetry

MCOwner == [d \in Domains |-> IF d = profile THEN records ELSE gpu]
MCPublisher == [d \in Domains |-> records]

(* Two deaths; a death and an impatient user; a command that is refused; a *)
(* watchdog that may be wrong; results that cannot be finalized.           *)
Good == [startFails |-> FALSE, exportFails |-> FALSE, inferred |-> FALSE,
         deaths |-> 0, signals |-> 0]
MCPlans == {[Good EXCEPT !.deaths = 2],
            [Good EXCEPT !.deaths = 1, !.signals = 2],
            [Good EXCEPT !.startFails = TRUE, !.signals = 1],
            [Good EXCEPT !.inferred = TRUE, !.deaths = 1],
            [Good EXCEPT !.exportFails = TRUE]}
ExportFails == {p \in MCPlans : p.exportFails}
=============================================================================
