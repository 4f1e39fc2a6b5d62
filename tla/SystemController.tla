-------------------------- MODULE SystemController --------------------------
(***************************************************************************)
(* The SystemController brings the services up, starts the benchmark, and  *)
(* ends the run: when every result domain has joined, when a service it    *)
(* cannot do without is gone, or when the user says so.  Three tasks may   *)
(* get there at once: the start sequence, the handlers of messages, the    *)
(* heartbeat watchdog and signals, and the task that cancels the run.  The *)
(* stop of the controller is the exit of the program; a second call of     *)
(* stop() kills it with whatever the first had left to export.             *)
(***************************************************************************)
EXTENDS Naturals, FiniteSets

CONSTANTS
  Services,    \* the services that are started
  Required,    \* required_services: those the run cannot do without
  Timing,      \* the service that runs the benchmark
  Records,     \* the service that aggregates the records
  Domains,     \* the result domains that are switched on
  Profile,     \* the domain of the inference results
  Owner,       \* the service that registers for a domain
  Publisher,   \* the service that publishes the results of a domain
  Plans        \* what may go wrong in a run

ASSUME SystemControllerAssumption ==
  /\ Required \subseteq Services
  /\ {Timing, Records} \subseteq Required
  /\ Profile \in Domains
  /\ Owner \in [Domains -> Services] /\ Publisher \in [Domains -> Services]
  /\ Owner[Profile] = Records /\ Publisher[Profile] = Records
  /\ Plans \subseteq [startFails : BOOLEAN, exportFails : BOOLEAN, inferred : BOOLEAN,
                      deaths : Nat, signals : Nat]

VARIABLES
  plan,       \* the faults of this run: a command is refused, the results
              \* cannot be finalized, the watchdog may only guess; and, as
              \* bounds, how many services die and how often Ctrl+C is hit
  declined,   \* the domains whose owner will report that it has nothing
  life,       \* the process of each service
  known,      \* service_id_map
  loud,       \* the services whose SERVICE_ERROR is on its way
  required,   \* ResultJoinCoordinator._required
  completed,  \* ResultJoinCoordinator._completed
  evicted,    \* ResultJoinCoordinator._evicted
  results,    \* the result message of each domain
  bench,      \* the benchmark, up to its CREDITS_COMPLETE
  start,      \* _start_services: where it is
  system,     \* _system_state
  errors,     \* _exit_errors: who is to blame
  cancelled,  \* _was_cancelled
  triggered,  \* _shutdown_triggered
  stopper,    \* a task that is to call stop(), and why
  stop,       \* the lifecycle of the controller
  signals     \* how often the user pressed Ctrl+C

barrier == <<required, completed, evicted>>
world == <<declined, life, loud, results, bench, signals>>
ending == <<errors, cancelled, triggered, stopper, stop, system>>
state == <<known, start, barrier, world, ending>>
vars == <<plan, state>>

States == <<"initializing", "configuring", "ready", "profiling", "processing",
            "stopping", "shutdown">>
Rank(s) == CHOOSE i \in DOMAIN States : States[i] = s

(* _set_system_state *)
Forward(s) == IF Rank(s) < Rank(system) THEN system ELSE s

Owned(s) == {d \in Domains : Owner[d] = s}
WindingDown == system \in {"stopping", "shutdown"}

Init ==
  /\ plan \in Plans
  /\ declined \in SUBSET {d \in Domains : Owner[d] \notin Required}
  /\ life = [s \in Services |-> "new"]
  /\ known = {} /\ loud = {}
  /\ required = {} /\ completed = {} /\ evicted = {}
  /\ results = [d \in Domains |-> "none"]
  /\ bench = "on"
  /\ start = "registering" /\ system = "initializing"
  /\ errors = {} /\ cancelled = FALSE /\ triggered = FALSE
  /\ stopper = "none" /\ stop = "no" /\ signals = 0

-----------------------------------------------------------------------------
(* The ways to the end.                                                    *)

(* Mutant: nothing remembers that a stop is under way.                     *)
CancelProfilingAgain ==
  /\ cancelled' = TRUE
  /\ system' = Forward("stopping")
  /\ triggered' = triggered
  /\ stopper' = IF triggered THEN stopper ELSE "cancel"
  /\ UNCHANGED stop

(* _cancel_profiling up to its wait for the RecordsManager, which is       *)
(* bounded.  Only the task that triggers the shutdown calls stop().        *)
CancelProfiling ==
  /\ cancelled' = TRUE
  /\ system' = Forward("stopping")
  /\ triggered' = TRUE
  /\ stopper' = IF triggered THEN stopper ELSE "cancel"
  /\ UNCHANGED stop

(* Mutant: an empty barrier is ready in any state.                         *)
ReleasedEarly(req, com) == ~triggered /\ req \subseteq com

(* _check_and_trigger_shutdown: not before the benchmark, and once.        *)
Released(req, com) ==
  /\ system \notin {"initializing", "configuring", "ready"}
  /\ ~triggered
  /\ req \subseteq com

CheckShutdown(req, com) ==
  /\ IF Released(req, com)
     THEN triggered' = TRUE /\ stopper' = "barrier" /\ system' = Forward("stopping")
     ELSE UNCHANGED <<triggered, stopper, system>>
  /\ UNCHANGED <<cancelled, stop>>

(* BaseService.stop *)
CallStop ==
  /\ stop' = IF stop = "no" THEN "stopping" ELSE "killed"
  /\ system' = "shutdown"

StopIsCalled ==
  /\ stopper # "none"
  /\ CallStop
  /\ stopper' = "none"
  /\ UNCHANGED <<known, start, barrier, world, errors, cancelled, triggered>>

(* _fail: the start sequence stops the controller, unless it is stopping.  *)
StartFails ==
  /\ start' = "failed"
  /\ errors' = errors \cup {"start"}
  /\ IF stop = "no" THEN CallStop ELSE UNCHANGED <<stop, system>>
  /\ UNCHANGED <<known, barrier, world, cancelled, triggered, stopper>>

(* _stop_system_controller: services are shut down, results exported.      *)
Exit ==
  /\ stop = "stopping" /\ stop' = "exited"
  /\ UNCHANGED <<known, start, barrier, world, errors, cancelled, triggered, stopper, system>>

(* _handle_signal *)
Signal ==
  /\ signals < plan.signals /\ signals' = signals + 1
  /\ IF cancelled
     THEN stop' = "killed" /\ UNCHANGED <<cancelled, triggered, stopper, system>>
     ELSE CancelProfiling
  /\ UNCHANGED <<known, start, barrier, declined, life, loud, results, bench, errors>>

-----------------------------------------------------------------------------
(* The start sequence.                                                     *)

(* _on_registration: a service registers as it comes up, and again if the  *)
(* controller, which had dropped it, gets a heartbeat of it.               *)
Register(s) ==
  /\ s \notin known
  /\ life[s] = "new" \/ (life[s] = "up" /\ plan.inferred)
  /\ life' = [life EXCEPT ![s] = "up"]
  /\ known' = known \cup {s}
  /\ required' = required \cup Owned(s)
  /\ UNCHANGED <<completed, evicted, declined, loud, results, bench, signals, start, ending>>

(* Every service that is not dead has registered, or the run is stopping.  *)
AllRegistered ==
  /\ start = "registering"
  /\ stop # "no" \/ \A s \in Services : s \in known \/ life[s] = "stillborn"
  /\ \A s \in Required : s \in known \/ stop # "no"
  /\ start' = "configuring" /\ system' = Forward("configuring")
  /\ UNCHANGED <<known, barrier, world, errors, cancelled, triggered, stopper, stop>>

(* While services are waited for, each poll looks whether a required one   *)
(* is dead, registered or not.                                             *)
RequiredDied ==
  /\ start = "registering" /\ stop = "no"
  /\ known # Services
  /\ \E s \in Required : life[s] \in {"stillborn", "down"}
  /\ StartFails

(* PROFILE_CONFIGURE was answered by all; PROFILE_START goes out.          *)
Configured ==
  /\ start = "configuring"
  /\ start' = "starting" /\ system' = Forward("ready")
  /\ UNCHANGED <<known, barrier, world, errors, cancelled, triggered, stopper, stop>>

(* A service rejects a command of the sequence or does not answer.         *)
CommandFails ==
  /\ start \in {"configuring", "starting"}
  /\ plan.startFails \/ \E s \in known : life[s] = "down"
  /\ StartFails

(* Mutant: what was ready before is not noticed.                           *)
ProfilingNoRecheck ==
  /\ start = "starting"
  /\ start' = "running"
  /\ system' = Forward("profiling")
  /\ UNCHANGED <<known, barrier, world, errors, cancelled, triggered, stopper, stop>>

(* PROFILE_START was answered by all.  The barrier, ignored until now, is  *)
(* looked at once more.                                                    *)
Profiling ==
  /\ start = "starting"
  /\ start' = "running"
  /\ IF ~triggered /\ required \subseteq completed
     THEN triggered' = TRUE /\ stopper' = "barrier" /\ system' = Forward("stopping")
     ELSE system' = Forward("profiling") /\ UNCHANGED <<triggered, stopper>>
  /\ UNCHANGED <<known, barrier, world, errors, cancelled, stop>>

-----------------------------------------------------------------------------
(* Messages.                                                               *)

Begun == start \in {"starting", "running"}

(* Every request of the run has been dealt with, however it ended.         *)
BenchmarkEnds ==
  /\ Begun /\ bench = "on" /\ life[Timing] = "up"
  /\ bench' = "over"
  /\ UNCHANGED <<declined, life, loud, results, signals, known, start, barrier, ending>>

CreditsComplete ==
  /\ bench = "over" /\ bench' = "told"
  /\ system' = Forward("processing")
  /\ UNCHANGED <<declined, life, loud, results, signals, known, start, barrier, errors,
                 cancelled, triggered, stopper, stop>>

(* A service publishes the results of a domain; the RecordsManager first   *)
(* those of the requests.                                                  *)
Publish(d) ==
  /\ bench # "on" /\ results[d] = "none" /\ life[Publisher[d]] = "up"
  /\ Publisher[d] = Records /\ d # Profile => results[Profile] # "none"
  /\ results' = [results EXCEPT ![d] = "sent"]
  /\ UNCHANGED <<declined, life, loud, bench, signals, known, start, barrier, ending>>

(* _publish_terminal_failure_result: the RecordsManager fails to finalize  *)
(* and publishes nothing but the failure.                                  *)
FinalizationFails ==
  /\ plan.exportFails
  /\ bench # "on" /\ results[Profile] = "none" /\ life[Records] = "up"
  /\ results' = [d \in Domains |-> IF d = Profile THEN "failed"
                                   ELSE IF Publisher[d] = Records THEN "never" ELSE results[d]]
  /\ UNCHANGED <<declined, life, loud, bench, signals, known, start, barrier, ending>>

(* The handlers of the result messages: complete_domain.                   *)
ResultArrives(d) ==
  /\ results[d] \in {"sent", "failed"}
  /\ results' = [results EXCEPT ![d] = "handled"]
  /\ errors' = errors \cup (IF results[d] = "failed" THEN {Publisher[d]} ELSE {})
  /\ completed' = completed \cup ({d} \cap required)
  /\ CheckShutdown(required, completed')
  /\ UNCHANGED <<required, evicted, declined, life, loud, bench, signals, known, start>>

(* TELEMETRY_STATUS, SERVER_METRICS_STATUS: the owner has nothing to give. *)
StatusArrives(d) ==
  /\ d \in declined \cap required /\ start # "registering"
  /\ required' = required \ {d} /\ completed' = completed \ {d}
  /\ CheckShutdown(required', completed')
  /\ UNCHANGED <<evicted, errors, world, known, start>>

(* SERVICE_ERROR, which a service publishes as it dies: who is unknown     *)
(* counts as required.                                                     *)
ServiceError(s) ==
  /\ s \in loud /\ \A d \in Domains : Publisher[d] = s => results[d] \notin {"sent", "failed"}
  /\ loud' = loud \ {s}
  /\ errors' = errors \cup {s}
  /\ required' = required \ Owned(s) /\ completed' = completed \ Owned(s)
  /\ IF (s \in Required \/ s \notin known) /\ ~WindingDown
     THEN CancelProfiling
     ELSE CheckShutdown(required', completed')
  /\ UNCHANGED <<evicted, declined, life, results, bench, signals, known, start>>

-----------------------------------------------------------------------------
(* Death, and how it is noticed.                                           *)

Dead == {s \in Services : life[s] \in {"down", "stillborn"}}

Dies(s) ==
  /\ s \notin Dead /\ Cardinality(Dead) < plan.deaths
  /\ life' = [life EXCEPT ![s] = IF @ = "new" THEN "stillborn" ELSE "down"]
  /\ loud' \in {loud, loud \cup (IF life[s] = "up" THEN {s} ELSE {})}
  /\ UNCHANGED <<declined, results, bench, signals, known, start, barrier, ending>>

(* Mutant: a producer that is gone is let off without a word.              *)
BlameNobody(s, wasPending) == IF s \in Required THEN {s} ELSE {}

(* Whom _on_service_reaped enters into the exit errors: a producer that    *)
(* still owed a result, and a required service that produces none.         *)
Blame(s, wasPending) ==
  IF required \cap Owned(s) # {} THEN (IF wasPending THEN {s} ELSE {})
                                 ELSE {s} \cap Required

(* _on_service_reaped: the watchdog found s silent twice.  Its verdict is  *)
(* right where it can ask the process, a guess where it cannot.            *)
Reaped(s) ==
  LET produces == required \cap Owned(s) # {}
      owes == (required \cap Owned(s)) \ completed # {} IN
  /\ s \in known /\ start # "registering"
  /\ life[s] = "down" \/ plan.inferred
  /\ evicted' = evicted \cup (IF owes THEN {s} ELSE {})
  /\ required' = required \ Owned(s) /\ completed' = completed \ Owned(s)
  /\ known' = known \ {s}
  /\ errors' = errors \cup Blame(s, s \in evicted')
  /\ IF s \in Required /\ (~produces \/ s \in evicted') /\ ~WindingDown
     THEN CancelProfiling
     ELSE IF produces THEN CheckShutdown(required', completed')
     ELSE UNCHANGED <<cancelled, triggered, stopper, stop, system>>
  /\ UNCHANGED <<world, start>>

-----------------------------------------------------------------------------
Startup == AllRegistered \/ RequiredDied \/ Configured \/ Profiling
Arrival(d) == Publish(d) \/ ResultArrives(d) \/ StatusArrives(d)

Next ==
  /\ stop \in {"no", "stopping"}
  /\ \/ Startup \/ CommandFails
     \/ \E s \in Services : Register(s) \/ Dies(s) \/ ServiceError(s) \/ Reaped(s)
     \/ \E d \in Domains : Arrival(d)
     \/ BenchmarkEnds \/ CreditsComplete \/ FinalizationFails
     \/ StopIsCalled \/ Exit \/ Signal
  /\ UNCHANGED plan

Spec == Init /\ [][Next]_vars

(* Services come up, answer and publish, the benchmark ends, a death is    *)
(* noticed, and a stop once begun is completed.                            *)
Fairness ==
  /\ WF_state(stop \in {"no", "stopping"} /\ (Startup \/ CommandFails))
  /\ \A s \in Services :
       /\ WF_state(stop \in {"no", "stopping"} /\ life[s] = "new" /\ Register(s))
       /\ WF_state(stop \in {"no", "stopping"} /\ life[s] = "down" /\ Reaped(s))
       /\ WF_state(stop \in {"no", "stopping"} /\ ServiceError(s))
  /\ \A d \in Domains : WF_state(stop \in {"no", "stopping"} /\ Arrival(d))
  /\ WF_state(stop \in {"no", "stopping"} /\ BenchmarkEnds)
  /\ WF_state(stop \in {"no", "stopping"} /\ StopIsCalled)
  /\ WF_state(Exit)

FairSpec == Spec /\ Fairness

-----------------------------------------------------------------------------
(* Every variable has its type.                                            *)
TypeOK ==
  /\ declined \subseteq Domains
  /\ life \in [Services -> {"new", "up", "down", "stillborn"}]
  /\ known \cup loud \cup evicted \subseteq Services
  /\ completed \subseteq required /\ required \subseteq Domains
  /\ results \in [Domains -> {"none", "sent", "failed", "never", "handled"}]
  /\ bench \in {"on", "over", "told"}
  /\ start \in {"registering", "configuring", "starting", "running", "failed"}
  /\ system \in {States[i] : i \in DOMAIN States}
  /\ errors \subseteq Services \cup {"start"}
  /\ {cancelled, triggered} \subseteq BOOLEAN
  /\ stopper \in {"none", "cancel", "barrier"}
  /\ stop \in {"no", "stopping", "exited", "killed"}
  /\ signals \in 0 .. plan.signals

(* The exit code is 0 and the run was not cancelled: the results of every  *)
(* domain that joined are there.  However its producer vanished, a domain  *)
(* that is missing shows in the exit code.                                 *)
ZeroMeansWhole ==
  /\ TypeOK
  /\ stop = "exited" /\ errors = {} /\ ~cancelled =>
       \A d \in Domains \ declined :
         results[d] = "handled" \/ life[Owner[d]] = "stillborn"

(* The barrier does not open over the results of a producer that is still  *)
(* to come up, or lives and is registered: whatever the deaths, refusals   *)
(* and early readiness of the others, as long as the run is not stopping.  *)
SurvivorsAreHeard ==
  [][stop = "no" /\ stopper = "none" /\ stopper' = "barrier" =>
       \A d \in Domains \ declined :
         life'[Owner[d]] = "new" \/ (life'[Owner[d]] = "up" /\ Owner[d] \in known')
           => results'[d] = "handled"]_vars

(* "This prevents the race condition that causes SIGKILL": unless the      *)
(* start sequence failed or the user pressed Ctrl+C, stop() is called      *)
(* once.  The first Ctrl+C counts: after an automatic cancel it kills.     *)
StopsOnce == stop = "killed" => start = "failed" \/ signals > 0

(* A domain whose owner lives and whose publisher died too soon.           *)
Orphaned == \E d \in required \ completed : d # Profile /\ life[Owner[d]] = "up" /\ life[Publisher[d]] = "down"

(* The controller is never stranded: with a watchdog that knows the dead   *)
(* and a RecordsManager that can finalize, every run ends, unless the      *)
(* RecordsManager dies between the results of the requests and those it    *)
(* publishes for others.                                                   *)
EveryRunEnds ==
  ~plan.inferred /\ ~plan.exportFails ~> stop \in {"exited", "killed"} \/ Orphaned

(* _finalize_and_process_results: a failure comes "back out as a published *)
(* terminal failure result", lest it "hangs the run forever".              *)
FailedExportEnds == plan.exportFails /\ results[Profile] = "failed" ~> stop \in {"exited", "killed"}
=============================================================================
