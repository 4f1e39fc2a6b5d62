------------------------- MODULE PhaseOrchestrator --------------------------
(***************************************************************************)
(* The PhaseOrchestrator runs the phases of a benchmark one after another. *)
(* A phase whose successor is seamless is left behind when all its credits *)
(* are sent: a detached task of its runner waits for their returns while   *)
(* the next phase sends.  A PROFILE_CANCEL and the failure of a phase      *)
(* cancel the runners that are active; a control node that fails fails the *)
(* run, at the exit of every runner active then; the server's profiler is  *)
(* on while a profiling phase owns it.                                     *)
(*                                                                         *)
(* How a phase sends its credits and counts them back is CreditPhase; here *)
(* it ends sending, and the last credit returns, at any time.              *)
(***************************************************************************)
EXTENDS Naturals, FiniteSets

CONSTANTS
  NumPhases,   \* phases of the run
  Plans        \* the runs to look at: see PhaseOrchestratorAssumption

ASSUME PhaseOrchestratorAssumption ==
  /\ NumPhases \in Nat \ {0}
  /\ Plans \subseteq [seamless : SUBSET (2 .. NumPhases),   \* phases that do not wait
                      timed : SUBSET (1 .. NumPhases),      \* phases with a duration
                      profiled : BOOLEAN,                   \* the server has a profiler
                      may : SUBSET {"cancelled", "failing", "node"}]

Phases == 1 .. NumPhases

(* Who calls cancel(): the PROFILE_CANCEL command, _execute_phases itself. *)
Cancellers == {"command", "failure"}

VARIABLES
  plan,       \* the run
  main,       \* where _execute_phases stands
  pos,        \* the phase it is at
  at,         \* where the run() of each phase's runner stands
  wait,       \* where each detached return wait stands
  called,     \* runners whose _on_return_wait_complete has been called
  due,        \* runners whose waits the barrier at the end awaits
  swept,      \* runners that were cancelled
  active,     \* _active_runners
  error,      \* runners with a fatal error of a control node
  seamlessError, \* _seamless_phase_error is set
  cancel,     \* where the two callers of cancel() stand
  owners,     \* _server_profiler_owners
  stops,      \* _deferred_profiler_stops
  profiling,  \* the server profiles
  nodeFailed, \* a control node has failed
  stage, over \* the messages published: see RunEvents

control == <<main, pos>>
runners == <<at, wait, called, swept, active>>
errors == <<error, seamlessError, nodeFailed>>
profiler == <<owners, stops, profiling>>
messages == <<stage, over>>
vars == <<plan, control, runners, due, errors, cancel, profiler, messages>>

Init ==
  /\ plan \in Plans
  /\ main = "loop" /\ pos = 1
  /\ at = [p \in Phases |-> "none"]
  /\ wait = [p \in Phases |-> "none"]
  /\ called = {} /\ due = {} /\ swept = {} /\ active = {}
  /\ error = {} /\ seamlessError = FALSE /\ nodeFailed = FALSE
  /\ cancel = [command |-> "idle", failure |-> "idle"]
  /\ owners = {} /\ stops = {} /\ profiling = FALSE
  /\ stage = [p \in Phases |-> "new"] /\ over = FALSE

-----------------------------------------------------------------------------
(* seamless_to_next, and profiler_will_defer_stop                          *)
LeftBehind(p) == p < NumPhases /\ p + 1 \in plan.seamless
Deferred(p) == plan.profiled /\ LeftBehind(p)

Go(p, where) == at' = [at EXCEPT ![p] = where]
Tell(p, what) == stage' = [stage EXCEPT ![p] = what]

(* Mutant: whoever leaves turns the profiler off.                          *)
GiveUpProfilerAtOnce(p) == owners' = owners \ {p} /\ profiling' = FALSE

(* _stop_server_profiler_for_runner: the last owner turns it off.          *)
GiveUpProfiler(p) ==
  /\ owners' = owners \ {p}
  /\ profiling' = (profiling /\ ~(p \in owners /\ owners = {p}))

(* The loop head: the runner is active; the first owner of the profiler    *)
(* awaits its start.                                                       *)
Begin(p) ==
  /\ main = "loop" /\ pos = p /\ at[p] = "none"
  /\ active' = active \cup {p}
  /\ \/ /\ plan.profiled /\ owners = {}
        /\ Go(p, "starting") /\ UNCHANGED owners
     \/ /\ ~(plan.profiled /\ owners = {})
        /\ owners' = IF plan.profiled THEN owners \cup {p} ELSE owners
        /\ Go(p, "setup")
  /\ UNCHANGED <<plan, control, wait, called, due, swept, errors, cancel, stops,
                 profiling, messages>>

ProfilerStarted(p) ==
  /\ at[p] = "starting"
  /\ \/ owners' = owners \cup {p} /\ profiling' = TRUE /\ Go(p, "setup")
     \/ "failing" \in plan.may /\ Go(p, "failed") /\ UNCHANGED <<owners, profiling>>
  /\ UNCHANGED <<plan, control, wait, called, due, swept, active, errors, cancel,
                 stops, messages>>

(* _run_strategy up to the strategy's start: setup_phase, wait_for_workers *)
SetUp(p) ==
  /\ at[p] = "setup"
  /\ \/ Go(p, "sending") /\ Tell(p, "started")
     \/ "failing" \in plan.may /\ Go(p, "raising") /\ UNCHANGED stage
  /\ UNCHANGED <<plan, control, wait, called, due, swept, active, errors, cancel,
                 profiler, over>>

(* _wait_for_sending_complete, ended by the last credit or the timeout; an *)
(* exception of the strategy is only looked for if there is no timeout.    *)
SendingEnds(p) ==
  /\ at[p] = "sending"
  /\ \/ Go(p, "sent")
     \/ "failing" \in plan.may /\ p \notin plan.timed \cup swept /\ Go(p, "raising")
  /\ Tell(p, "sent")
  /\ UNCHANGED <<plan, control, wait, called, due, swept, active, errors, cancel,
                 profiler, over>>

(* The rest of _run_strategy, from the flag _was_cancelled on, and the     *)
(* finally of run() if it returns.                                         *)
LeaveOrWait(p) ==
  /\ at[p] = "sent"
  /\ Go(p, IF p \in swept \/ LeftBehind(p) THEN "returned" ELSE "waiting")
  /\ wait' = IF p \notin swept /\ LeftBehind(p) THEN [wait EXCEPT ![p] = "waiting"]
                                                ELSE wait
  /\ UNCHANGED <<plan, control, called, due, swept, active, errors, cancel, profiler,
                 messages>>

(* _wait_for_returning_complete in the foreground, and what follows it.    *)
LastReturn(p) ==
  /\ at[p] = "waiting"
  /\ Go(p, "closing")
  /\ UNCHANGED <<plan, control, wait, called, due, swept, active, errors, cancel,
                 profiler, messages>>

CompleteInForeground(p) ==
  /\ at[p] = "closing"
  /\ Tell(p, "complete")
  /\ Go(p, IF p \in error THEN "raising" ELSE "returned")
  /\ UNCHANGED <<plan, control, wait, called, due, swept, active, errors, cancel, profiler,
                 over>>

(* _publish_phase_failure_lifecycle: what was not published yet is.        *)
PublishMissing(p) ==
  /\ at[p] = "raising"
  /\ swept' = swept \cup {p}
  /\ stage[p] # "complete"
  /\ Tell(p, CASE stage[p] = "new" -> "started" [] stage[p] = "started" -> "sent"
               [] stage[p] = "sent" -> "complete")
  /\ UNCHANGED <<plan, control, at, wait, called, due, active, errors, cancel,
                 profiler, over>>

Raise(p) ==
  /\ at[p] = "raising" /\ stage[p] = "complete"
  /\ swept' = swept \cup {p}
  /\ Go(p, "raised")
  /\ UNCHANGED <<plan, control, wait, called, due, active, errors, cancel, profiler,
                 messages>>

(* The finally of run_phase_with_server_profiler: the profiler of a phase  *)
(* left behind is only stopped here if the phase failed.                   *)
LeaveProfiler(p) ==
  /\ at[p] \in {"returned", "raised"}
  /\ Go(p, IF at[p] = "returned" THEN "left" ELSE "failed")
  /\ IF at[p] = "returned" /\ Deferred(p) THEN UNCHANGED <<owners, profiling>>
                                         ELSE GiveUpProfiler(p)
  /\ UNCHANGED <<plan, control, wait, called, due, swept, active, errors, cancel,
                 stops, messages>>

(* Mutant: a runner that is no longer active is waited for.                *)
NextPhaseIfActive(p) ==
  /\ main = "loop" /\ pos = p /\ at[p] = "left"
  /\ LeftBehind(p) \/ p \in active
  /\ active' = IF LeftBehind(p) THEN active ELSE active \ {p}
  /\ pos' = IF p = NumPhases THEN p ELSE p + 1
  /\ main' = IF p = NumPhases THEN "barrier" ELSE "loop"
  /\ due' = IF p = NumPhases THEN active \ {p} ELSE due
  /\ UNCHANGED <<plan, at, wait, called, swept, errors, cancel, profiler, messages>>

(* The end of the loop's body.  remove() raises if the list was cleared.   *)
NextPhase(p) ==
  /\ main = "loop" /\ pos = p /\ at[p] = "left"
  /\ \/ /\ LeftBehind(p) \/ p \in active
        /\ active' = IF LeftBehind(p) THEN active ELSE active \ {p}
        /\ pos' = IF p = NumPhases THEN p ELSE p + 1
        /\ main' = IF p = NumPhases THEN "barrier" ELSE "loop"
        /\ due' = IF p = NumPhases THEN active \ {p} ELSE due
     \/ /\ ~LeftBehind(p) /\ p \notin active
        /\ main' = "raise"
        /\ UNCHANGED <<active, pos, due>>
  /\ UNCHANGED <<plan, at, wait, called, swept, errors, cancel, profiler, messages>>

(* except Exception: the orchestrator cancels itself and raises.           *)
PhaseFailed(p) ==
  /\ main = "loop" /\ at[p] = "failed" /\ pos = p
  /\ main' = "failing"
  /\ cancel' = [cancel EXCEPT !["failure"] = "called"]
  /\ UNCHANGED <<plan, pos, runners, due, errors, profiler, messages>>

-----------------------------------------------------------------------------
(* The detached return wait of a runner.                                   *)

LastReturnBehind(p) ==
  /\ wait[p] = "waiting"
  /\ wait' = [wait EXCEPT ![p] = "closing"]
  /\ UNCHANGED <<plan, control, at, called, due, swept, active, errors, cancel,
                 profiler, messages>>

(* The finally of _wait_for_returning_complete publishes, if the task was  *)
(* cancelled before it, too.                                               *)
CompleteBehind(p) ==
  /\ wait[p] \in {"closing", "cutting"}
  /\ wait' = [wait EXCEPT ![p] = IF @ = "closing" THEN "closed" ELSE "cut"]
  /\ Tell(p, "complete")
  /\ UNCHANGED <<plan, control, at, called, due, swept, active, errors, cancel,
                 profiler, over>>

(* Mutant: the runner leaves the list, its error goes with it.             *)
ReturnWaitCompleteSilently(p) ==
  /\ wait[p] \in {"closed", "cut"} /\ p \notin called
  /\ called' = called \cup {p}
  /\ active' = active \ {p}
  /\ stops' = IF Deferred(p) THEN stops \cup {p} ELSE stops
  /\ UNCHANGED <<plan, control, at, wait, due, swept, errors, cancel, owners,
                 profiling, messages>>

(* _on_return_wait_complete, and the callbacks the orchestrator gave it    *)
ReturnWaitComplete(p) ==
  /\ wait[p] \in {"closed", "cut"} /\ p \notin called
  /\ called' = called \cup {p}
  /\ seamlessError' = (seamlessError \/ p \in error)
  /\ active' = active \ {p}
  /\ stops' = IF Deferred(p) THEN stops \cup {p} ELSE stops
  /\ UNCHANGED <<plan, control, at, wait, due, swept, error, nodeFailed, cancel,
                 owners, profiling, messages>>

DeferredStop(p) ==
  /\ p \in stops
  /\ stops' = stops \ {p}
  /\ GiveUpProfiler(p)
  /\ UNCHANGED <<plan, control, runners, due, errors, cancel, messages>>

-----------------------------------------------------------------------------
(* cancel() after cancel_all_credits: every active runner is cancelled.  A *)
(* detached wait that has not started ends at once; one that has returned  *)
(* already is cut short before it publishes.                               *)
WaitsAfterSweep ==
  {w \in [Phases -> {"none", "waiting", "closing", "closed", "cutting", "cut"}] :
     \A p \in Phases :
       w[p] \in IF p \notin active THEN {wait[p]}
               ELSE CASE wait[p] = "waiting" -> {"cutting", "cut"}
                      [] wait[p] = "closing" -> {"cut"}
                      [] OTHER -> {wait[p]}}

Sweep(who) ==
  /\ cancel[who] = "called"
  /\ cancel' = [cancel EXCEPT ![who] = "done"]
  /\ swept' = swept \cup active
  /\ wait' \in WaitsAfterSweep
  /\ active' = {}
  /\ owners' = {} /\ profiling' = (profiling /\ owners = {})
  /\ UNCHANGED <<plan, control, at, called, due, errors, stops, messages>>

(* PROFILE_CANCEL arrives while the orchestrator runs.                     *)
CancelCommand ==
  /\ "cancelled" \in plan.may /\ cancel["command"] = "idle" /\ ~over
  /\ cancel' = [cancel EXCEPT !["command"] = "called"]
  /\ UNCHANGED <<plan, control, runners, due, errors, profiler, messages>>

(* A request-free node fails: _record_control_fatal_error.  It belongs to  *)
(* a phase whose credits are not all back.                                 *)
NodeFails ==
  /\ "node" \in plan.may /\ ~nodeFailed
  /\ \E p \in Phases : at[p] \in {"sending", "sent", "waiting"} \/ wait[p] = "waiting"
  /\ nodeFailed' = TRUE
  /\ error' = IF active # {} THEN active
              ELSE {p \in Phases : at[p] # "none" /\ \A q \in Phases : q > p => at[q] = "none"}
  /\ UNCHANGED <<plan, control, runners, due, seamlessError, cancel, profiler, messages>>

-----------------------------------------------------------------------------
(* Mutant: the detached waits are not awaited.                             *)
BarrierSkipped ==
  /\ main = "barrier"
  /\ main' = "draining"
  /\ seamlessError' = (seamlessError \/ due \cap error # {})
  /\ UNCHANGED <<plan, pos, runners, due, error, nodeFailed, cancel, profiler, messages>>

(* _await_outstanding_seamless_waits; the await of a task that was         *)
(* cancelled meanwhile raises CancelledError.                              *)
Barrier ==
  /\ main = "barrier"
  /\ \A p \in due : wait[p] \in {"closed", "cut"}
  /\ main' = IF \E p \in due : wait[p] = "cut" THEN "interrupted" ELSE "draining"
  /\ seamlessError' = (seamlessError \/ due \cap error # {})
  /\ UNCHANGED <<plan, pos, runners, due, error, nodeFailed, cancel, profiler, messages>>

(* _drain_deferred_profiler_stops, and the error captured meanwhile        *)
Drain ==
  /\ main = "draining" /\ stops = {}
  /\ owners' = {} /\ profiling' = (profiling /\ owners = {})
  /\ main' = IF seamlessError THEN "failing" ELSE "finish"
  /\ cancel' = IF seamlessError THEN [cancel EXCEPT !["failure"] = "called"] ELSE cancel
  /\ UNCHANGED <<plan, pos, runners, due, errors, stops, messages>>

SelfCancelled ==
  /\ main = "failing" /\ cancel["failure"] = "done"
  /\ main' = "raise"
  /\ UNCHANGED <<plan, pos, runners, due, errors, cancel, profiler, messages>>

(* The finally of _start_orchestrator, and the state it leaves behind.     *)
CreditsComplete ==
  /\ main \in {"finish", "raise", "interrupted"}
  /\ main' = CASE main = "finish" -> "finished" [] main = "raise" -> "failed"
             [] main = "interrupted" -> "cancelled"
  /\ over' = TRUE
  /\ UNCHANGED <<plan, pos, runners, due, errors, cancel, profiler, stage>>

-----------------------------------------------------------------------------
Runner(p) ==
  \/ ProfilerStarted(p) \/ SetUp(p) \/ LeaveOrWait(p) \/ LastReturn(p)
  \/ CompleteInForeground(p) \/ PublishMissing(p) \/ Raise(p) \/ LeaveProfiler(p)

ReturnWait(p) ==
  LastReturnBehind(p) \/ CompleteBehind(p) \/ ReturnWaitComplete(p) \/ DeferredStop(p)

Main ==
  \/ \E p \in Phases : Begin(p) \/ NextPhase(p) \/ PhaseFailed(p)
  \/ Barrier \/ Drain \/ SelfCancelled \/ CreditsComplete

Next ==
  \/ \E p \in Phases : Runner(p) \/ SendingEnds(p) \/ ReturnWait(p)
  \/ Main \/ CancelCommand \/ NodeFails
  \/ \E who \in Cancellers : Sweep(who)

Spec == Init /\ [][Next]_vars

(* The event loop runs every task that does not wait; a phase ends sending *)
(* and its credits return, unless it was cancelled while it was sending    *)
(* and has no duration: then nothing but a late return may end it.         *)
Fairness ==
  /\ WF_vars(Main)
  /\ \A p \in Phases :
       /\ WF_vars(Runner(p)) /\ WF_vars(ReturnWait(p))
       /\ WF_vars((p \in plan.timed \/ p \notin swept) /\ SendingEnds(p))
  /\ \A who \in Cancellers : WF_vars(Sweep(who))

FairSpec == Spec /\ Fairness

-----------------------------------------------------------------------------
(* Every variable has its type.                                            *)
TypeOK ==
  /\ plan \in Plans
  /\ main \in {"loop", "barrier", "draining", "failing", "finish", "raise", "interrupted",
              "finished", "failed", "cancelled"}
  /\ pos \in Phases
  /\ at \in [Phases -> {"none", "starting", "setup", "sending", "sent", "waiting", "closing",
                        "raising", "returned", "raised", "left", "failed"}]
  /\ wait \in [Phases -> {"none", "waiting", "closing", "closed", "cutting", "cut"}]
  /\ {called, due, swept, active, error, owners, stops} \subseteq SUBSET Phases
  /\ {seamlessError, nodeFailed, profiling, over} \subseteq BOOLEAN
  /\ cancel \in [Cancellers -> {"idle", "called", "done"}]
  /\ stage \in [Phases -> {"new", "started", "sent", "complete"}]

(* The messages keep the contract the other services rely on, whatever is  *)
(* cancelled or fails: in particular CREDITS_COMPLETE comes last if        *)
(* nothing does, although phases complete in tasks nobody awaits, and a    *)
(* phase that is not seamless starts when its predecessor is complete.     *)
Disturbed == \/ \E who \in Cancellers : cancel[who] # "idle"
             \/ main \in {"raise", "failed"}
KeepsOrder ==
  INSTANCE RunEvents WITH count <- NumPhases, seamless <- plan.seamless,
                          disturbed <- Disturbed
KeepsContract == KeepsOrder!Spec

(* A control node that fails fails the run: its error reaches the exit of  *)
(* the orchestrator by one of the three ways it can take.                  *)
NodeFailureFailsRun ==
  main = "finished" /\ nodeFailed => cancel["command"] # "idle"

(* The profiler is on exactly while a phase owns it: nothing turns it off  *)
(* under the next phase.  Once the run is over it is off, on every path:   *)
(* phases left behind, failures, cancels before and after the last phase.  *)
ProfilerMatchesOwners ==
  /\ TypeOK
  /\ profiling <=> owners # {}
  /\ main \in {"finished", "failed", "cancelled"} => ~profiling

(* The run ends, unless a phase was cancelled while it sent without a      *)
(* duration.                                                               *)
Hung == \E p \in Phases : at[p] = "sending" /\ p \in swept /\ p \notin plan.timed
RunEnds == <>(main \in {"finished", "failed", "cancelled"} \/ Hung)

(* A cancel by the user leaves the orchestrator stopped, not failed.       *)
CancelIsNoFailure ==
  main = "failed" => nodeFailed \/ "failing" \in plan.may
=============================================================================
