--------------------------- MODULE RecordsManager ---------------------------
(***************************************************************************)
(* The RecordsManager: it counts one record per completed request, learns  *)
(* from the TimingManager how many requests each profiling phase completed *)
(* and that no further phase follows, and publishes one result for the run.*)
(* Bus messages and records arrive on different sockets and every one is   *)
(* handled by a task of its own, so their handlers interleave at each      *)
(* await.  Three tasks may process the results: the one started when all   *)
(* records are in, the handler of a PROFILE_CANCEL command, and the        *)
(* manager's own cancellation after too many failed requests.              *)
(*                                                                         *)
(* Warm-up, which is completed phase by phase and yields no result, the    *)
(* dataset gate, telemetry and everything a result contains but its        *)
(* completeness and its number of records are left out.                    *)
(***************************************************************************)
EXTENDS Integers, Sequences, FiniteSets, SequencesExt

CONSTANTS
  NumPhases,     \* profiling phases of the run
  MaxRequests,   \* requests a phase completes at most
  MaxLag,        \* messages of the TimingManager not handled yet, at most
  GraceFloor,    \* records of a phase below which its failures never abort the run
  MaxFailed,     \* --failed-request-threshold, in percent
  Runs,          \* the kinds of run: its phases and requests, what may happen
  None           \* Python's None

(* What a result says of the run.                                          *)
Results == [complete : BOOLEAN, cancelled : BOOLEAN, counted : 0 .. NumPhases * MaxRequests]

(* Who calls _process_results: the task that finalizes a run with all its  *)
(* records, the PROFILE_CANCEL command, the manager's own abort.           *)
Callers == {"natural", "command", "abort"}

ASSUME RecordsManagerAssumption ==
  /\ {NumPhases, MaxLag, GraceFloor} \subseteq Nat \ {0}
  /\ {MaxRequests, MaxFailed} \subseteq Nat
  /\ Runs \subseteq [phases : 1 .. NumPhases, seamless : SUBSET (1 .. NumPhases),
                     requests : 0 .. MaxRequests,
                     may : SUBSET {"kubernetes", "cancelled", "failing", "raising", "broken"}]
  /\ None \notin Nat \cup Callers \cup Results

Phases == 1 .. NumPhases
Outcomes == {"good", "bad"}

VARIABLES
  (* The TimingManager, the workers and the controller, as far as they show *)
  run,         \* the kind of run: it may be a Kubernetes run, be cancelled,
               \* have failing requests or failing phases ("broken"), raise
               \* when its results are processed
  stage,       \* what the TimingManager has published about each phase
  completed,   \* requests of each phase that came back completed
  bus,         \* messages of the TimingManager, in order
  arriving,    \* records on their way or being dispatched, per phase and outcome
  over,        \* CREDITS_COMPLETE has been published
  halt,        \* PROFILE_CANCEL for the TimingManager: "no", "sent" or "heard";
               \* "broken" if a phase failed instead
  (* The RecordsManager *)
  tracker,     \* _phase_trackers: counts, final count and flags of each phase
  closing,     \* CREDIT_PHASE_COMPLETE handlers between their two halves
  complete,    \* PROFILING is in _complete_credit_phases
  creditsOver, \* _credits_complete_received
  handled,     \* PROFILING is in _all_records_received_phases
  stalled,     \* _incomplete_reason is set
  aborting,    \* _failed_request_abort_triggered, and where its request stands
  caller,      \* where each caller of _process_results stands
  asCancelled, \* the cancelled argument of each caller
  lock,        \* who holds _process_results_lock
  cached,      \* _processed_results[PROFILING]
  published    \* the ProcessRecordsResultMessages sent

env == <<run, stage, completed, bus, arriving, over, halt>>
books == <<tracker, closing, complete, creditsOver>>
results == <<caller, asCancelled, lock, cached, published>>
vars == <<env, books, handled, stalled, aborting, results>>

-----------------------------------------------------------------------------
(* The sum of f over the phases: n numbers the first f[p] things of p.      *)
Total(f) == Cardinality({x \in Phases \X (1 .. MaxRequests) : x[2] <= f[x[1]]})

Records(t, p) == t[p].good + t[p].bad
RecordsOfAll(t) == Total([p \in Phases |-> Records(t, p)])

(* A phase tracker exists once a message or a record of its phase came.    *)
Known(t) == {p \in Phases : t[p].known}

NewTracker == [known |-> FALSE, good |-> 0, bad |-> 0, final |-> None,
               cancelled |-> FALSE, sentAll |-> FALSE]

Init ==
  /\ run \in Runs
  /\ stage = [p \in Phases |-> "new"]
  /\ completed = [p \in Phases |-> 0]
  /\ bus = <<>>
  /\ arriving = [p \in Phases |-> [o \in Outcomes |-> 0]]
  /\ over = FALSE
  /\ halt = "no"
  /\ tracker = [p \in Phases |-> NewTracker]
  /\ closing = {}
  /\ complete = FALSE /\ creditsOver = FALSE
  /\ handled = FALSE
  /\ stalled = FALSE
  /\ aborting = "armed"
  /\ caller = [c \in Callers |-> "idle"]
  /\ asCancelled = [c \in Callers |-> c # "natural"]
  /\ lock = None
  /\ cached = None
  /\ published = <<>>

-----------------------------------------------------------------------------
(* The TimingManager and the workers.                                      *)

(* The phases of the run keep the contract that the PhaseOrchestrator is   *)
(* checked to implement.                                                   *)
Disturbed == halt \in {"heard", "broken"}
Timing ==
  INSTANCE RunEvents WITH count <- run.phases, seamless <- run.seamless,
                          disturbed <- Disturbed

(* CreditPhaseStats on the bus: final_requests_completed is None until the *)
(* phase is complete; was_cancelled may be set once a cancel was heard or  *)
(* something failed.                                                       *)
Publish(m) == Len(bus) < MaxLag /\ bus' = Append(bus, m)

PublishStats(p, kind, final) ==
  \E c \in {FALSE, Disturbed} :
    Publish([kind |-> kind, phase |-> p, final |-> final, cancelled |-> c])

StartPhase(p) ==
  /\ UNCHANGED <<run, completed, arriving, halt>>
  /\ Timing!Start(p) /\ PublishStats(p, "progress", None)

(* A request comes back completed; its record takes another way.  A record *)
(* is only ever lost with the pod of a Kubernetes run.                     *)
RequestCompletes(p, o) ==
  /\ stage[p] \in {"started", "sent"}
  /\ completed[p] < run.requests
  /\ o = "bad" => "failing" \in run.may
  /\ completed' = [completed EXCEPT ![p] = @ + 1]
  /\ \/ arriving' = [arriving EXCEPT ![p][o] = @ + 1]
     \/ "kubernetes" \in run.may /\ UNCHANGED arriving
  /\ UNCHANGED <<run, stage, bus, over, halt>>

PhaseSent(p) ==
  /\ UNCHANGED <<run, completed, arriving, halt>>
  /\ Timing!Sent(p) /\ PublishStats(p, "progress", None)

PhaseCompletes(p) ==
  /\ UNCHANGED <<run, completed, arriving, halt>>
  /\ Timing!Complete(p) /\ PublishStats(p, "complete", completed[p])

CreditsComplete ==
  /\ UNCHANGED <<run, completed, arriving, halt>>
  /\ Timing!Over /\ Publish([kind |-> "over"])

(* PROFILE_CANCEL reaches the orchestrator, or one of its phases fails.    *)
TimingManagerHears ==
  /\ halt = "sent" \/ (halt = "no" /\ "broken" \in run.may)
  /\ halt' = IF halt = "sent" THEN "heard" ELSE "broken"
  /\ UNCHANGED <<run, stage, completed, bus, arriving, over>>

TimingManager ==
  /\ \/ \E p \in Phases : \/ StartPhase(p) \/ PhaseSent(p) \/ PhaseCompletes(p)
                          \/ \E o \in Outcomes : RequestCompletes(p, o)
     \/ CreditsComplete
     \/ TimingManagerHears
  /\ UNCHANGED <<books, handled, stalled, aborting, results>>

-----------------------------------------------------------------------------
(* Mutant: a phase that has not reported its final count does not hold up  *)
(* the others.                                                             *)
ReceivedSome(t) ==
  /\ \A p \in Known(t) : t[p].final # None => Records(t, p) >= t[p].final
  /\ \E p \in Known(t) : t[p].final # None /\ ~t[p].sentAll

(* check_and_set_all_records_received_for_phase, the test, in trackers t   *)
ReceivedAll(t) ==
  /\ \A p \in Known(t) : t[p].final # None /\ Records(t, p) >= t[p].final
  /\ \E p \in Known(t) : ~t[p].sentAll

(* and the flags it sets                                                   *)
MarkSent(t) == [p \in Phases |-> [t[p] EXCEPT !.sentAll = @ \/ t[p].known]]

(* _handle_all_records_received_once, the callers being as in calls        *)
HandleAllReceivedOnce(calls) ==
  /\ handled' = TRUE
  /\ caller' = IF handled THEN calls ELSE [calls EXCEPT !["natural"] = "announcing"]

(* _can_finalize_phase for PROFILING                                       *)
CanFinalize == creditsOver

(* The check that ends a handler which leaves the trackers t, the callers  *)
(* calls and which may finalize if may holds.                              *)
CheckAllReceived(may, t, calls) ==
  IF may /\ ReceivedAll(t)
  THEN tracker' = MarkSent(t) /\ HandleAllReceivedOnce(calls)
  ELSE tracker' = t /\ caller' = calls /\ UNCHANGED handled

-----------------------------------------------------------------------------
(* update_phase_info                                                       *)
UpdatePhaseInfo(m) ==
  [tracker EXCEPT ![m.phase].known = TRUE, ![m.phase].final = m.final,
                  ![m.phase].cancelled = m.cancelled]

(* _on_credit_phase_start/_progress/_sending_complete; the first half of   *)
(* _on_credit_phase_complete, up to the await of _dispatch_record.         *)
OnPhaseStats ==
  /\ bus # <<>> /\ Head(bus).kind \in {"progress", "complete"}
  /\ bus' = Tail(bus)
  /\ tracker' = UpdatePhaseInfo(Head(bus))
  /\ closing' = IF Head(bus).kind = "complete" THEN closing \cup {Head(bus).phase}
                                                ELSE closing
  /\ UNCHANGED <<run, stage, completed, arriving, over, halt, complete, creditsOver,
                 handled, stalled, aborting, results>>

(* Mutant: the phase-complete handler leaves the check to the records.     *)
CloseWithoutCheck(p) ==
  /\ p \in closing
  /\ closing' = closing \ {p}
  /\ complete' = TRUE
  /\ UNCHANGED <<env, tracker, creditsOver, handled, stalled, aborting, results>>

(* _on_credit_phase_complete after the await                               *)
OnPhaseComplete(p) ==
  /\ p \in closing
  /\ closing' = closing \ {p}
  /\ complete' = TRUE
  /\ CheckAllReceived(CanFinalize, tracker, caller)
  /\ UNCHANGED <<env, creditsOver, stalled, aborting, asCancelled, lock, cached, published>>

(* Mutant: the last phase-complete handler is relied upon for the check.   *)
OnCreditsCompleteSilently ==
  /\ bus # <<>> /\ Head(bus).kind = "over"
  /\ bus' = Tail(bus)
  /\ creditsOver' = TRUE
  /\ UNCHANGED <<run, stage, completed, arriving, over, halt, tracker, closing,
                 complete, handled, stalled, aborting, results>>

(* _on_credits_complete                                                    *)
OnCreditsComplete ==
  /\ bus # <<>> /\ Head(bus).kind = "over"
  /\ bus' = Tail(bus)
  /\ creditsOver' = TRUE
  /\ CheckAllReceived(complete, tracker, caller)
  /\ UNCHANGED <<run, stage, completed, arriving, over, halt, closing, complete,
                 stalled, aborting, asCancelled, lock, cached, published>>

-----------------------------------------------------------------------------
(* _maybe_trigger_failed_request_abort: the phase failed too often.        *)
TooManyFailed(t, p) ==
  /\ Records(t, p) >= GraceFloor
  /\ t[p].bad * 100 > MaxFailed * Records(t, p)

(* update_from_request                                                     *)
Counted(p, o) == [tracker EXCEPT ![p].known = TRUE, ![p][o] = @ + 1]

(* _on_records after its awaits: the record is counted, in the tracker the *)
(* first one creates; the first excess of failures asks the controller for *)
(* PROFILE_CANCEL before the check is made.                                *)
OnRecord(p, o) ==
  LET t == Counted(p, o) IN
  /\ arriving[p][o] > 0
  /\ arriving' = [arriving EXCEPT ![p][o] = @ - 1]
  /\ \/ /\ aborting = "armed" /\ TooManyFailed(t, p)
        /\ aborting' = "asking"
        /\ tracker' = t
        /\ UNCHANGED <<handled, caller>>
     \/ /\ ~(aborting = "armed" /\ TooManyFailed(t, p))
        /\ CheckAllReceived(complete /\ CanFinalize, t, caller)
        /\ UNCHANGED aborting
  /\ UNCHANGED <<run, stage, completed, bus, over, halt, closing, complete,
                 creditsOver, stalled, asCancelled, lock, cached, published>>

(* mark_phase_cancelled                                                    *)
MarkCancelled(t) == [p \in Phases |-> [t[p] EXCEPT !.cancelled = @ \/ t[p].known]]

(* The controller answers the request of the abort and relays the cancel   *)
(* to the others; _self_cancel_and_finalize starts here.                   *)
AbortRequested ==
  /\ aborting = "asking" /\ aborting' = "asked"
  /\ halt' = IF halt = "no" THEN "sent" ELSE halt
  /\ CheckAllReceived(complete /\ CanFinalize, tracker, [caller EXCEPT !["abort"] = "called"])
  /\ UNCHANGED <<run, stage, completed, bus, arriving, over, closing, complete,
                 creditsOver, stalled, asCancelled, lock, cached, published>>

(* The request fails: the next record over the threshold tries again.      *)
AbortNotRequested ==
  /\ aborting = "asking" /\ aborting' = "armed"
  /\ CheckAllReceived(complete /\ CanFinalize, tracker, caller)
  /\ UNCHANGED <<env, closing, complete, creditsOver, stalled, asCancelled, lock, cached,
                 published>>

(* _watch_for_record_stall has seen no progress for its timeout.           *)
RecordStall ==
  /\ "kubernetes" \in run.may /\ creditsOver /\ ~handled
  /\ stalled' = TRUE
  /\ HandleAllReceivedOnce(caller)
  /\ UNCHANGED <<env, books, aborting, asCancelled, lock, cached, published>>

(* The controller cancels the run: the user pressed Ctrl+C or another      *)
(* service asked for it.                                                   *)
UserCancels ==
  /\ "cancelled" \in run.may /\ caller["command"] = "idle"
  /\ halt' = IF halt = "no" THEN "sent" ELSE halt
  /\ caller' = [caller EXCEPT !["command"] = "called"]
  /\ UNCHANGED <<run, stage, completed, bus, arriving, over, books, handled, stalled,
                 aborting, asCancelled, lock, cached, published>>

-----------------------------------------------------------------------------
Go(c, where) == caller' = [caller EXCEPT ![c] = where]

(* _handle_all_records_received starts the task that finalizes the run.    *)
Announced ==
  /\ caller["natural"] = "announcing"
  /\ Go("natural", "relaying")
  /\ asCancelled' = [asCancelled EXCEPT !["natural"] = \E p \in Phases : tracker[p].cancelled]
  /\ UNCHANGED <<env, books, handled, stalled, aborting, lock, cached, published>>

(* _finalize_and_process_results_impl: PROFILE_COMPLETE was answered, or   *)
(* timed out, or its transport raised.                                     *)
Relayed ==
  /\ caller["natural"] = "relaying"
  /\ Go("natural", "queued") \/ ("raising" \in run.may /\ Go("natural", "failed"))
  /\ UNCHANGED <<env, books, handled, stalled, aborting, asCancelled, lock, cached, published>>

(* _on_profile_cancel_command                                              *)
OnProfileCancel(c) ==
  /\ caller[c] = "called"
  /\ tracker' = MarkCancelled(tracker)
  /\ Go(c, "queued")
  /\ UNCHANGED <<env, closing, complete, creditsOver, handled, stalled, aborting, asCancelled,
                 lock, cached, published>>

(* Mutant: the lock is taken, but no result is looked up.                  *)
ProcessAgain(c) ==
  /\ caller[c] = "queued" /\ lock = None
  /\ lock' = c /\ Go(c, "inside")
  /\ UNCHANGED <<env, books, handled, stalled, aborting, asCancelled, cached, published>>

(* _process_results from the acquired lock on                              *)
ProcessResults(c) ==
  /\ caller[c] = "queued" /\ lock = None
  /\ \/ cached # None /\ Go(c, "over") /\ UNCHANGED lock
     \/ cached = None /\ lock' = c /\ Go(c, "inside")
  /\ UNCHANGED <<env, books, handled, stalled, aborting, asCancelled, cached, published>>

ResultOf(c) ==
  [complete |-> ~asCancelled[c] /\ ~stalled, cancelled |-> asCancelled[c],
   counted |-> RecordsOfAll(tracker)]

FailedResult(c) == [complete |-> FALSE, cancelled |-> asCancelled[c], counted |-> 0]

(* _process_results_impl publishes,                                        *)
PublishResult(c) ==
  /\ caller[c] = "inside"
  /\ published' = Append(published, ResultOf(c))
  /\ Go(c, "published")
  /\ UNCHANGED <<env, books, handled, stalled, aborting, asCancelled, lock, cached>>

(* and _process_results keeps what it returned.                            *)
KeepResult(c) ==
  /\ caller[c] = "published"
  /\ cached' = Last(published)
  /\ lock' = None
  /\ Go(c, "over")
  /\ UNCHANGED <<env, books, handled, stalled, aborting, asCancelled, published>>

(* Something raises before the result is published.  A command is answered *)
(* with an error, the other two callers report the failure.                *)
ProcessingRaises(c) ==
  /\ "raising" \in run.may /\ caller[c] = "inside"
  /\ lock' = None
  /\ Go(c, IF c = "command" THEN "refused" ELSE "failed")
  /\ UNCHANGED <<env, books, handled, stalled, aborting, asCancelled, cached, published>>

(* _publish_terminal_failure_result, under the lock                        *)
ReportFailure(c) ==
  /\ caller[c] = "failed" /\ lock = None
  /\ \/ cached # None /\ Go(c, "over") /\ UNCHANGED cached
     \/ cached = None /\ cached' = FailedResult(c) /\ Go(c, "reporting")
  /\ UNCHANGED <<env, books, handled, stalled, aborting, asCancelled, lock, published>>

(* and after it.                                                           *)
PublishFailure(c) ==
  /\ caller[c] = "reporting"
  /\ published' = Append(published, cached)
  /\ Go(c, "over")
  /\ UNCHANGED <<env, books, handled, stalled, aborting, asCancelled, lock, cached>>

Caller(c) ==
  \/ OnProfileCancel(c) \/ ProcessResults(c) \/ PublishResult(c) \/ KeepResult(c)
  \/ ReportFailure(c) \/ PublishFailure(c)

Handler ==
  \/ OnPhaseStats \/ OnCreditsComplete
  \/ \E p \in Phases : OnPhaseComplete(p) \/ \E o \in Outcomes : OnRecord(p, o)
  \/ AbortRequested \/ Announced \/ Relayed
  \/ \E c \in Callers : Caller(c)

Next ==
  \/ TimingManager \/ Handler \/ AbortNotRequested \/ RecordStall \/ UserCancels
  \/ \E c \in Callers : ProcessingRaises(c)

Spec == Init /\ [][Next]_vars

(* The event loop runs every task that is not waiting, requests of the     *)
(* controller are answered, the stall watchdog is periodic, and the        *)
(* TimingManager ends its phases if it is not disturbed (RunEnds of        *)
(* PhaseOrchestrator).                                                     *)
Fairness ==
  /\ WF_vars(Handler) /\ WF_vars(~Disturbed /\ TimingManager) /\ WF_vars(RecordStall)
  /\ \A p \in Phases : WF_vars(OnPhaseComplete(p))
  /\ \A c \in Callers : WF_vars(Caller(c))
  /\ WF_vars(AbortRequested \/ AbortNotRequested)

FairSpec == Spec /\ Fairness

-----------------------------------------------------------------------------
(* Every variable has its type.                                            *)
TypeOK ==
  /\ run \in Runs
  /\ stage \in [Phases -> {"new", "started", "sent", "complete"}]
  /\ completed \in [Phases -> 0 .. MaxRequests]
  /\ arriving \in [Phases -> [Outcomes -> 0 .. MaxRequests]]
  /\ over \in BOOLEAN /\ halt \in {"no", "sent", "heard", "broken"}
  /\ \A p \in Phases :
       tracker[p] \in [known : BOOLEAN, good : 0 .. MaxRequests, bad : 0 .. MaxRequests,
                       final : {None} \cup 0 .. MaxRequests, cancelled : BOOLEAN,
                       sentAll : BOOLEAN]
  /\ closing \subseteq Phases
  /\ {complete, creditsOver, handled, stalled} \subseteq BOOLEAN
  /\ aborting \in {"armed", "asking", "asked"}
  /\ caller \in [Callers -> {"idle", "called", "announcing", "relaying", "queued", "inside",
                             "published", "failed", "reporting", "refused", "over"}]
  /\ asCancelled \in [Callers -> BOOLEAN]
  /\ lock \in Callers \cup {None}
  /\ cached \in Results \cup {None}
  /\ published \in BoundedSeq(Results, Cardinality(Callers))

(* A run has one result, whichever of the three callers came first and     *)
(* whatever failed: no second one is published, and the one kept for later *)
(* callers is never replaced, neither by a later success nor by the report *)
(* of a failure (the lock and the per-phase cache of _process_results).    *)
OneResult ==
  [][/\ published # <<>> => published' = published
     /\ cached # None => cached' = cached]_vars

(* A result that claims to be complete was made when the TimingManager had *)
(* ended the run and all phases it started, and every completed request    *)
(* had its record counted.                                                 *)
CompleteMeansAll ==
  /\ TypeOK
  /\ \A i \in DOMAIN published : published[i].complete =>
       /\ over /\ \A p \in Phases : stage[p] \in {"new", "complete"}
       /\ published[i].counted = Total(completed)

(* Some result is published, or a PROFILE_CANCEL was answered with an      *)
(* error: the controller's barrier does not wait for ever.  (The failure   *)
(* of a phase reaches the controller as a SERVICE_ERROR.)                  *)
ResultArrives ==
  <>(published # <<>> \/ caller["command"] = "refused" \/ halt = "broken")

(* If nobody cancels, nothing stalls and nothing raises, the result is     *)
(* complete: all interleavings of the last record with the two final       *)
(* messages find the run complete.                                         *)
Undisturbed == halt = "no" /\ ~stalled /\ caller["natural"] \notin {"failed", "reporting"}
CompleteIfUndisturbed ==
  []Undisturbed => <>(\E i \in DOMAIN published : published[i].complete)
=============================================================================
