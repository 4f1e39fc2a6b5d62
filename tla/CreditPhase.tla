---------------------------- MODULE CreditPhase -----------------------------
(***************************************************************************)
(* One credit phase under the request-rate strategy (timing/, credit/).    *)
(*                                                                         *)
(* Four parties share the phase's counters, slots and events on one event  *)
(* loop: the strategy's issue loop, the callbacks that handle what workers *)
(* send back, the timers that end a think time, and the PhaseRunner that   *)
(* stops sending, waits for the returns and completes the phase.  A step   *)
(* is what one of them does between two awaits.                            *)
(*                                                                         *)
(* A session is a conversation of several turns.  It owns a session slot   *)
(* from its first turn to the return of its last; a turn owns a prefill    *)
(* slot from its issue to its first token.  One phase alone uses the       *)
(* limits, so a limit is the number of its free slots (PhaseLimiter has    *)
(* the limits in full).  The DAG, agentic replay and ramps are left out.   *)
(***************************************************************************)
EXTENDS Integers, Sequences, FiniteSets, FiniteSetsExt

CONSTANTS
  Plans,          \* the configurations of the phase: see RequestCap and below
  None,
  SessionSlots,   \* the session concurrency
  PrefillSlots,   \* the prefill concurrency
  MaxTurns,       \* bound: the turns of a conversation
  MaxSessions     \* bound: the sessions a phase starts

ASSUME CreditPhaseAssumption ==
  /\ None \notin Nat
  /\ Plans \subseteq [requests : (Nat \ {0}) \cup {None}, sessions : (Nat \ {0}) \cup {None},
                      timed : BOOLEAN, cancels : BOOLEAN, lossy : BOOLEAN]
  /\ {SessionSlots, PrefillSlots, MaxTurns, MaxSessions} \subseteq Nat \ {0}

VARIABLES
  plan,          \* CreditPhaseConfig, and what may go wrong in its run
  life,          \* PhaseLifecycle.state
  cancelled,     \* PhaseLifecycle.was_cancelled and PhaseRunner._was_cancelled
  timeUp,        \* no time is left of the phase's duration
  count,         \* CreditCounter
  sess,          \* each session: its turns, the turns sent, where it is
  lost,          \* the sessions whose credit in flight will never come back
  queue,         \* RequestRateStrategy._continuation_turns
  loop,          \* execute_phase(): where it is, for which session
  runner,        \* PhaseRunner._run_strategy(): where it is
  sentEvent,     \* all_credits_sent_event
  returnedEvent, \* all_credits_returned_event
  sessionFree,   \* free session slots
  prefillFree    \* free prefill slots

state == <<life, cancelled, timeUp, count, sess, lost, queue, loop, runner,
           sentEvent, returnedEvent, sessionFree, prefillFree>>
vars == <<plan, state>>

RequestCap == plan.requests  \* total_expected_requests or None
SessionCap == plan.sessions  \* expected_num_sessions or None
Timed == plan.timed          \* TRUE if expected_duration_sec and a grace period are set
Cancels == plan.cancels      \* TRUE if the run may be cancelled
Lossy == plan.lossy          \* TRUE if a credit may never come back

Sessions == 1 .. MaxSessions
Status == {"new", "prefill", "decode", "delay", "queue", "held", "stopped", "done"}

Move(s, where) == [sess EXCEPT ![s].at = where]
At(S) == {s \in Sessions : sess[s].at \in S}
InFlight == At({"prefill", "decode"})

(* CreditCounter.in_flight_sessions, of the counts c. *)
InFlightSessions(c) == c.sentSessions - c.completedSessions - c.cancelledSessions

(* Mutant: one credit short. *)
AllReturnedButOne(c) ==
  c.finalSent # None /\ c.completed + c.cancelled + 1 >= c.finalSent

(* CreditCounter.check_all_returned_or_cancelled *)
AllReturned(c) == c.finalSent # None /\ c.completed + c.cancelled >= c.finalSent

(* StopConditionChecker: the conditions that are configured must all hold. *)
CanSendAnyTurn ==
  /\ ~cancelled
  /\ life = "started"
  /\ RequestCap # None => count.sent < RequestCap
  /\ SessionCap # None => \/ count.sentSessions < SessionCap
                          \/ count.sent < count.totalTurns
  /\ ~timeUp

CanStartNewSession ==
  /\ CanSendAnyTurn
  /\ SessionCap # None => count.sentSessions < SessionCap

Init ==
  /\ plan \in Plans
  /\ life = "created"
  /\ cancelled = FALSE
  /\ timeUp = FALSE
  /\ count = [sent |-> 0, completed |-> 0, cancelled |-> 0, sentSessions |-> 0,
              completedSessions |-> 0, cancelledSessions |-> 0,
              totalTurns |-> 0, prefillsReleased |-> 0, finalSent |-> None]
  /\ sess = [s \in Sessions |-> [at |-> "new", turns |-> 0, sent |-> 0]]
  /\ lost = {}
  /\ queue = <<>>
  /\ loop = [at |-> "off", session |-> 0, final |-> FALSE]
  /\ runner = "created"
  /\ sentEvent = FALSE
  /\ returnedEvent = FALSE
  /\ sessionFree = SessionSlots
  /\ prefillFree = PrefillSlots

LoopAt(where) == loop' = [at |-> where, session |-> 0, final |-> FALSE]

-----------------------------------------------------------------------------
(* The issue loop.                                                         *)

(* Mutant: the credit after the last one would be the final one. *)
IsFinalTooLate(c) == RequestCap # None /\ c.sent > RequestCap

(* The credit just counted in c is the phase's last: increment_sent's      *)
(* second result.                                                          *)
IsFinal(c) ==
  \/ RequestCap # None /\ c.sent >= RequestCap
  \/ /\ SessionCap # None
     /\ c.sentSessions >= SessionCap
     /\ c.sent >= c.totalTurns

(* _issue_credit_internal up to the await of send_credit: the credit is    *)
(* counted and handed to the router.  A first turn counts its session.     *)
Issue(s, turns) ==
  LET first == sess[s].sent = 0
      c == [count EXCEPT !.sent = @ + 1,
                         !.sentSessions = IF first THEN @ + 1 ELSE @,
                         !.totalTurns = IF first THEN @ + turns ELSE @]
  IN /\ count' = c
     /\ sess' = [sess EXCEPT ![s] = [at |-> "prefill", turns |-> turns, sent |-> @.sent + 1]]
     /\ loop' = [at |-> "sending", session |-> s, final |-> IsFinal(c)]
     /\ prefillFree' = prefillFree - 1

(* issue_credit from the point where a prefill slot was acquired: a phase  *)
(* that may not send any more gives the slot back, and the loop returns.   *)
ProceedWith(s) ==
  \/ /\ CanSendAnyTurn
     /\ Issue(s, sess[s].turns)
  \/ /\ ~CanSendAnyTurn
     /\ sess' = Move(s, "stopped")
     /\ LoopAt("over")
     /\ UNCHANGED <<count, prefillFree>>

(* Priority 1: the oldest queued continuation, which owns a session slot.  *)
TakeContinuation ==
  /\ loop.at = "ready"
  /\ queue # <<>>
  /\ queue' = Tail(queue)
  /\ \/ /\ prefillFree > 0
        /\ ProceedWith(Head(queue))
     \/ /\ prefillFree <= 0
        /\ sess' = Move(Head(queue), "held")
        /\ loop' = [at |-> "prefill", session |-> Head(queue), final |-> FALSE]
        /\ UNCHANGED <<count, prefillFree>>
  /\ UNCHANGED <<life, cancelled, timeUp, lost, runner, sentEvent, returnedEvent, sessionFree>>

(* The wait for a prefill slot is over. *)
PrefillGranted ==
  /\ loop.at = "prefill"
  /\ prefillFree > 0
  /\ ProceedWith(loop.session)
  /\ UNCHANGED <<life, cancelled, timeUp, lost, queue, runner, sentEvent, returnedEvent, sessionFree>>

(* Priority 2: a new session, if both its slots are free right now.        *)
StartSession(turns) ==
  LET s == count.sentSessions + 1 IN
  /\ loop.at = "ready"
  /\ queue = <<>>
  /\ CanStartNewSession
  /\ sessionFree > 0 /\ prefillFree > 0
  /\ s \in Sessions
  /\ Issue(s, turns)
  /\ sessionFree' = sessionFree - 1
  /\ UNCHANGED <<life, cancelled, timeUp, lost, queue, runner, sentEvent, returnedEvent>>

(* Priority 3: nothing is queued and nothing may be sent any more.         *)
LeaveLoop ==
  /\ loop.at = "ready"
  /\ queue = <<>>
  /\ ~CanSendAnyTurn
  /\ LoopAt("over")
  /\ UNCHANGED <<life, cancelled, timeUp, count, sess, lost, queue, runner,
                 sentEvent, returnedEvent, sessionFree, prefillFree>>

(* send_credit has returned.  The final credit ends the sending.           *)
CreditSent ==
  /\ loop.at = "sending"
  /\ IF loop.final
     THEN /\ count' = [count EXCEPT !.finalSent = count.sent]
          /\ sentEvent' = TRUE
          /\ LoopAt("over")
     ELSE LoopAt("ready") /\ UNCHANGED <<count, sentEvent>>
  /\ UNCHANGED <<life, cancelled, timeUp, sess, lost, queue, runner, returnedEvent,
                 sessionFree, prefillFree>>

-----------------------------------------------------------------------------
(* What the workers send back.                                             *)

(* on_first_token: there is no check that the phase is still running.      *)
FirstToken(s) ==
  /\ sess[s].at = "prefill" /\ s \notin lost
  /\ sess' = Move(s, "decode")
  /\ count' = [count EXCEPT !.prefillsReleased = @ + 1]
  /\ prefillFree' = prefillFree + 1
  /\ UNCHANGED <<life, cancelled, timeUp, lost, queue, loop, runner, sentEvent,
                 returnedEvent, sessionFree>>

(* Mutants: a slot is released whether or not the first token did; the     *)
(* phase is never found complete.                                          *)
PrefillOwedAlways(s) == 1
IsCompleteNever == FALSE

(* The return of the credit in flight of session s releases its prefill    *)
(* slot unless the first token did, and on the final turn the session's.   *)
PrefillOwed(s) == IF sess[s].at = "prefill" THEN 1 ELSE 0
SessionOwed(s) == IF sess[s].sent = sess[s].turns THEN 1 ELSE 0

IsComplete == life = "complete"

(* on_credit_return for the turn of session s that is in flight.           *)
CountReturn(s, wasCancelled) ==
  [count EXCEPT
     !.completed = @ + (IF wasCancelled THEN 0 ELSE 1),
     !.cancelled = @ + (IF wasCancelled THEN 1 ELSE 0),
     !.completedSessions = @ + (IF wasCancelled THEN 0 ELSE SessionOwed(s)),
     !.cancelledSessions = @ + (IF wasCancelled THEN SessionOwed(s) ELSE 0),
     !.prefillsReleased = @ + PrefillOwed(s)]

(* The next turn goes to the queue now or after its think time.            *)
NextTurn(s) ==
  \/ /\ sess[s].sent = sess[s].turns
     /\ sess' = Move(s, "done")
     /\ UNCHANGED queue
  \/ /\ sess[s].sent < sess[s].turns
     /\ \/ /\ CanSendAnyTurn
           /\ sess' = Move(s, "queue")
           /\ queue' = Append(queue, s)
        \/ /\ CanSendAnyTurn
           /\ sess' = Move(s, "delay")
           /\ UNCHANGED queue
        \/ /\ ~CanSendAnyTurn
           /\ sess' = Move(s, "stopped")
           /\ UNCHANGED queue

CreditReturn(s, wasCancelled) ==
  LET c == CountReturn(s, wasCancelled) IN
  /\ s \in InFlight \ lost
  /\ ~IsComplete
  /\ count' = c
  /\ sessionFree' = sessionFree + SessionOwed(s)
                                + (IF AllReturned(c) THEN InFlightSessions(c) ELSE 0)
  /\ prefillFree' = prefillFree + PrefillOwed(s)
  /\ returnedEvent' = (returnedEvent \/ AllReturned(c))
  /\ NextTurn(s)
  /\ UNCHANGED <<life, cancelled, timeUp, lost, loop, runner, sentEvent>>

(* A return after the phase completed is ignored.                          *)
LateReturn(s) ==
  /\ s \in InFlight \ lost
  /\ IsComplete
  /\ sess' = Move(s, "stopped")
  /\ UNCHANGED <<life, cancelled, timeUp, count, lost, queue, loop, runner,
                 sentEvent, returnedEvent, sessionFree, prefillFree>>

(* The think time of the session's next turn is over.                      *)
DelayElapsed(s) ==
  /\ sess[s].at = "delay"
  /\ sess' = Move(s, "queue")
  /\ queue' = Append(queue, s)
  /\ UNCHANGED <<life, cancelled, timeUp, count, lost, loop, runner, sentEvent,
                 returnedEvent, sessionFree, prefillFree>>

(* The worker or a message is lost and nobody answers for the credit.      *)
LoseCredit(s) ==
  /\ Lossy
  /\ s \in InFlight \ lost
  /\ lost' = lost \cup {s}
  /\ UNCHANGED <<life, cancelled, timeUp, count, sess, queue, loop, runner,
                 sentEvent, returnedEvent, sessionFree, prefillFree>>

-----------------------------------------------------------------------------
(* The runner.                                                             *)
Start ==
  /\ runner = "created"
  /\ life' = "started"
  /\ LoopAt("ready")
  /\ runner' = "sending"
  /\ UNCHANGED <<cancelled, timeUp, count, sess, lost, queue, sentEvent,
                 returnedEvent, sessionFree, prefillFree>>

TimeUp ==
  /\ Timed /\ life # "created" /\ ~timeUp
  /\ timeUp' = TRUE
  /\ UNCHANGED <<life, cancelled, count, sess, lost, queue, loop, runner,
                 sentEvent, returnedEvent, sessionFree, prefillFree>>

(* The turns that the loop or a timer holds are gone when both are         *)
(* cancelled: their sessions will send nothing more.                       *)
DropPending ==
  [s \in Sessions |->
     IF sess[s].at \in {"held", "delay"} THEN [sess[s] EXCEPT !.at = "stopped"] ELSE sess[s]]

(* _wait_for_sending_complete returns. *)
SendingOver == sentEvent \/ timeUp

(* _wait_for_sending_complete, when every credit was sent or, with the     *)
(* loop cancelled, when the time is up.                                    *)
StopSending ==
  /\ runner = "sending"
  /\ SendingOver
  /\ life' = "sending_complete"
  /\ count' = [count EXCEPT !.finalSent = count.sent]
  /\ sess' = DropPending
  /\ LoopAt("over")
  /\ sentEvent' = TRUE
  /\ runner' = "returning"
  /\ UNCHANGED <<cancelled, timeUp, lost, queue, returnedEvent, sessionFree, prefillFree>>

Complete(event) ==
  /\ life' = "complete"
  /\ runner' = "over"
  /\ returnedEvent' = (returnedEvent \/ event)

(* The fast path of _wait_for_returning_complete. *)
NothingToAwait == cancelled \/ AllReturned(count)

(* A cancelled run completes as it is; otherwise the phase completes at    *)
(* once if every credit is back, or starts to wait for them.               *)
AwaitReturns ==
  /\ runner = "returning"
  /\ \/ /\ NothingToAwait
        /\ Complete(TRUE)
     \/ /\ ~NothingToAwait
        /\ runner' = "waiting"
        /\ UNCHANGED <<life, returnedEvent>>
  /\ UNCHANGED <<cancelled, timeUp, count, sess, lost, queue, loop, sentEvent,
                 sessionFree, prefillFree>>

(* The wait for the event ends, before the grace period or the drain does. *)
AllBack ==
  /\ runner \in {"waiting", "draining"}
  /\ returnedEvent
  /\ Complete(FALSE)
  /\ UNCHANGED <<cancelled, timeUp, count, sess, lost, queue, loop, sentEvent,
                 sessionFree, prefillFree>>

(* The grace period is over: the router asks the workers to cancel what    *)
(* they have.  A request not yet answered may now come back cancelled.     *)
GraceOver ==
  /\ runner = "waiting"
  /\ timeUp /\ ~returnedEvent
  /\ runner' = "cancelling"
  /\ UNCHANGED <<life, cancelled, timeUp, count, sess, lost, queue, loop, sentEvent,
                 returnedEvent, sessionFree, prefillFree>>

StartDrain ==
  /\ runner = "cancelling"
  /\ runner' = "draining"
  /\ returnedEvent' = (returnedEvent \/ AllReturned(count))
  /\ UNCHANGED <<life, cancelled, timeUp, count, sess, lost, queue, loop, sentEvent,
                 sessionFree, prefillFree>>

(* The drain timed out: every slot the phase still holds is released.      *)
ForceComplete ==
  /\ runner = "draining"
  /\ ~returnedEvent
  /\ sessionFree' = Max({sessionFree, SessionSlots})
  /\ prefillFree' = Max({prefillFree, PrefillSlots})
  /\ Complete(TRUE)
  /\ UNCHANGED <<cancelled, timeUp, count, sess, lost, queue, loop, sentEvent>>

(* PhaseRunner.cancel *)
Cancel ==
  /\ Cancels
  /\ ~cancelled
  /\ runner \notin {"created", "over"}
  /\ cancelled' = TRUE
  /\ sess' = DropPending
  /\ LoopAt("over")
  /\ UNCHANGED <<life, timeUp, count, lost, queue, runner, sentEvent,
                 returnedEvent, sessionFree, prefillFree>>

-----------------------------------------------------------------------------
LoopStep ==
  \/ TakeContinuation
  \/ PrefillGranted
  \/ \E turns \in 1 .. MaxTurns : StartSession(turns)
  \/ LeaveLoop
  \/ CreditSent

WorkerStep(s) ==
  \/ FirstToken(s)
  \/ \E wasCancelled \in BOOLEAN : CreditReturn(s, wasCancelled)
  \/ LateReturn(s)

RunnerStep == Start \/ StopSending \/ AwaitReturns \/ AllBack \/ StartDrain

Next ==
  /\ \/ LoopStep
     \/ \E s \in Sessions : WorkerStep(s) \/ DelayElapsed(s) \/ LoseCredit(s)
     \/ TimeUp
     \/ RunnerStep
     \/ GraceOver
     \/ ForceComplete
     \/ Cancel
  /\ UNCHANGED plan

Spec == Init /\ [][Next]_vars

(* The event loop runs every task that is ready, every timer fires, and a  *)
(* credit that is not lost is answered.                                    *)
Fairness ==
  /\ WF_state(LoopStep)
  /\ \A s \in Sessions : WF_state(WorkerStep(s)) /\ WF_state(DelayElapsed(s))
  /\ WF_state(TimeUp)
  /\ WF_state(RunnerStep)
  /\ WF_state(GraceOver)
  /\ WF_state(ForceComplete)

FairSpec == Spec /\ Fairness

-----------------------------------------------------------------------------
TypeOK ==
  /\ plan \in Plans
  /\ life \in {"created", "started", "sending_complete", "complete"}
  /\ {cancelled, timeUp, sentEvent, returnedEvent} \subseteq BOOLEAN
  /\ count \in [sent : Nat, completed : Nat, cancelled : Nat, sentSessions : Nat,
                completedSessions : Nat, cancelledSessions : Nat, totalTurns : Nat,
                prefillsReleased : Nat, finalSent : Nat \cup {None}]
  /\ sess \in [Sessions -> [at : Status, turns : 0 .. MaxTurns, sent : 0 .. MaxTurns]]
  /\ lost \in SUBSET Sessions
  /\ queue \in Seq(Sessions)
  /\ loop \in [at : {"off", "ready", "prefill", "sending", "over"},
               session : 0 .. MaxSessions, final : BOOLEAN]
  /\ runner \in {"created", "sending", "returning", "waiting", "cancelling",
                 "draining", "over"}
  /\ {sessionFree, prefillFree} \subseteq Nat

Started == {s \in Sessions : sess[s].sent > 0}
CreditsSent == {c \in Sessions \X (1 .. MaxTurns) : c[2] <= sess[c[1]].sent}

(* Until the phase completes, the counters that decide when to stop and    *)
(* when everything is back agree with what is really out there.            *)
CountersMatchWork ==
  /\ count.sent = Cardinality(CreditsSent)
  /\ life # "complete" =>
       /\ count.sent - count.completed - count.cancelled = Cardinality(InFlight)
       /\ InFlightSessions(count) = Cardinality(Started \ At({"done"}))
       /\ count.sent - count.prefillsReleased = Cardinality(At({"prefill"}))

(* freeze_sent_counts() takes the count that decides when all is returned: *)
(* once it was taken, by the final credit or by the runner, no credit may  *)
(* be sent, or the phase would complete with that credit in flight.        *)
NothingSentAfterFreeze == count.finalSent # None => count.sent = count.finalSent

(* A session slot belongs to a session from its first turn to its last     *)
(* return, a prefill slot to a turn from its issue to its first token.     *)
(* When the last credit of the phase is back the sessions it cut short     *)
(* give theirs back too.                                                   *)
SlotsMatchWork ==
  life # "complete" =>
    /\ PrefillSlots - prefillFree = Cardinality(At({"prefill"}))
    /\ SessionSlots - sessionFree
         \in {Cardinality(Started \ At({"done"}))}
               \cup (IF returnedEvent THEN {0} ELSE {})

(* The stop conditions are not overshot.                                   *)
CapsRespected ==
  /\ RequestCap # None => count.sent <= RequestCap
  /\ SessionCap # None => count.sentSessions <= SessionCap

(* The books of the phase and what is really out there agree, although     *)
(* returns, first tokens, think times, the end of the time and a cancel    *)
(* meet in any order: no slot is taken or given back twice, none is        *)
(* overdrawn (free slots are natural numbers), and every count is right.   *)
BooksMatchWork ==
  /\ TypeOK
  /\ CountersMatchWork /\ NothingSentAfterFreeze
  /\ SlotsMatchWork /\ CapsRespected

(* A phase completes with a credit in flight only when the run was         *)
(* cancelled or the drain timed out.                                       *)
CompletesDrained ==
  [][life # "complete" /\ life' = "complete"
       => InFlight = {} \/ cancelled \/ (runner = "draining" /\ ~returnedEvent)]_vars

(* The phase keeps its contract: one credit at a time goes out while it is *)
(* started, each comes back once, and the counts the phase is reported     *)
(* with stay as they were when it completed, whatever arrives late.        *)
Contract == INSTANCE PhaseContract
              WITH stage <- life, sent <- count.sent,
                   back <- count.completed + count.cancelled

KeepsContract == Contract!Spec

(* The phase comes to its end: the event the runner waits for is set by    *)
(* the loop, by the last return or by a timeout, whichever order they take.*)
PhaseCompletes == <>(life = "complete")
=============================================================================
