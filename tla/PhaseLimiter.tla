---------------------------- MODULE PhaseLimiter ----------------------------
(***************************************************************************)
(* One dimension (session or prefill) of the ConcurrencyManager: a         *)
(* GlobalPhaseConcurrencyLimiter shared by the phases of a run.  A credit  *)
(* takes a slot of the global limit and then a slot of its phase's own     *)
(* limit, and gives both back when it ends.  Phases run one after the      *)
(* other; a seamless phase starts when its predecessor has stopped sending *)
(* but still has credits in flight, so slots of both are held at once.     *)
(***************************************************************************)
EXTENDS LimitOps

CONSTANTS
  Tasks,         \* the credits being issued or in flight
  NumPhases,     \* how many phases the run has
  Unlimited,     \* the limit None: limiting is off
  Setups         \* the configurations of a run: see PhaseLimits and below

ASSUME PhaseLimiterAssumption ==
  /\ IsFiniteSet(Tasks)
  /\ NumPhases \in Nat \ {0}
  /\ Unlimited \notin Nat
  /\ \A s \in Setups : /\ s.limits \subseteq (Nat \ {0}) \cup {Unlimited}
                       /\ s.ramps \subseteq Nat \ {0}
                       /\ s.cancels \in BOOLEAN
                       /\ s.trees \in BOOLEAN

VARIABLES
  setup,     \* the configuration of this run
  enabled,   \* GlobalPhaseConcurrencyLimiter._enabled
  global,    \* _global_limit
  limits,    \* _phase_limits: a record per configured phase
  current,   \* the last phase configured, 0 before the first
  stopped,   \* the phases whose can_proceed_fn answers False
  place,     \* where each task is and the phase it belongs to
  forced,    \* the phases that were completed by force
  twice      \* history: the slots released a second time, of the global limit
             \* at 0 and of each phase's; properties read it, actions do not

vars == <<setup, enabled, global, limits, current, stopped, place, forced, twice>>

PhaseLimits == setup.limits  \* the limits a phase may be configured with
Ramps == setup.ramps         \* the limits set_session_limit/set_prefill_limit may set
Cancels == setup.cancels     \* TRUE if the task that issues credits may be cancelled
Trees == setup.trees         \* TRUE if the slots are those of AGENTIC_REPLAY's sessions

Phases == 1 .. NumPhases
Configured == DOMAIN limits

(* A task is idle, waits for a slot of the global limit or, owning one,    *)
(* for a slot of its phase, or it holds what its credit needs, or it was   *)
(* given up: its slots are free again but it may still be heard of.        *)
Idle == [at |-> "idle", phase |-> 0]
Put(t, where, ph) == place' = [place EXCEPT ![t] = [at |-> where, phase |-> ph]]

Holders(ph) == {t \in Tasks : place[t] = [at |-> "holding", phase |-> ph]}

(* Mutant: the answer is the phase's limit.                                *)
AllSlots(ph) == limits[ph].limit

(* GlobalPhaseConcurrencyLimiter.get_held_slots *)
HeldSlots(ph) ==
  LET l == limits[ph]
      effective == IF l.value > l.debt THEN l.value - l.debt ELSE 0
  IN IF l.limit > effective THEN l.limit - effective ELSE 0

Init ==
  /\ setup \in Setups
  /\ enabled = FALSE
  /\ global = NewLimit(0)
  /\ limits = <<>>
  /\ current = 0
  /\ stopped = {}
  /\ place = [t \in Tasks |-> Idle]
  /\ forced = {}
  /\ twice = [ph \in 0 .. NumPhases |-> 0]

-----------------------------------------------------------------------------
(* configure_for_phase: the next phase starts once the one before it has   *)
(* stopped sending.  A limit of None leaves the old limits as they are.    *)
ConfigureForPhase(n) ==
  /\ current < NumPhases
  /\ current > 0 => current \in stopped
  /\ current' = current + 1
  /\ \/ /\ n = Unlimited
        /\ enabled' = FALSE
        /\ UNCHANGED <<global, limits>>
     \/ /\ n # Unlimited
        /\ enabled' = TRUE
        /\ limits' = [ph \in Configured \cup {current + 1} |->
                        IF ph = current + 1 THEN NewLimit(n) ELSE limits[ph]]
        /\ global' = SetLimit(global, n)
  /\ UNCHANGED <<stopped, place>>

(* set_session_limit / set_prefill_limit by the current phase's ramper.    *)
SetPhaseLimit(n) ==
  /\ enabled
  /\ current \in Configured \ stopped
  /\ global' = SetLimit(global, n)
  /\ limits' = [limits EXCEPT ![current] = SetLimit(@, n)]
  /\ UNCHANGED <<enabled, current, stopped, place>>

(* The phase stops sending: every later can_proceed_fn() answers False.    *)
StopSending ==
  /\ current > 0 /\ current \notin stopped
  /\ stopped' = stopped \cup {current}
  /\ UNCHANGED <<enabled, global, limits, current, place>>

-----------------------------------------------------------------------------
(* Mutant: the global slot is kept by a credit that is not sent.           *)
BackOutWithSlot(t, g) ==
  /\ global' = g
  /\ place' = [place EXCEPT ![t] = Idle]
  /\ UNCHANGED limits

(* The phase stopped sending while t waited: the global slot goes back.    *)
BackOut(t, g) ==
  /\ global' = ReleaseSlot(g)
  /\ place' = [place EXCEPT ![t] = Idle]
  /\ UNCHANGED limits

(* acquire() from the point where t owns a slot of the global limit g.     *)
HaveGlobalSlot(t, ph, g) ==
  LET l == limits[ph] IN
  \/ /\ ph \in stopped
     /\ BackOut(t, g)
  \/ /\ ph \notin stopped
     /\ Locked(l)
     /\ global' = g
     /\ limits' = [limits EXCEPT ![ph] = Enqueue(l, t)]
     /\ Put(t, "phase", ph)
  \/ /\ ph \notin stopped
     /\ ~Locked(l)
     /\ global' = g
     /\ limits' = [limits EXCEPT ![ph] = TakeSlot(l)]
     /\ Put(t, "holding", ph)

(* acquire_session_slot / acquire_prefill_slot for a credit of the current *)
(* phase.                                                                  *)
Acquire(t) ==
  /\ current > 0
  /\ place[t] = Idle
  /\ \/ /\ ~enabled
        /\ current \notin stopped
        /\ Put(t, "holding", current)
        /\ UNCHANGED <<global, limits>>
     \/ /\ enabled
        /\ ~Locked(global)
        /\ HaveGlobalSlot(t, current, TakeSlot(global))
     \/ /\ enabled
        /\ Locked(global)
        /\ global' = Enqueue(global, t)
        /\ Put(t, "global", current)
        /\ UNCHANGED limits
  /\ UNCHANGED <<enabled, current, stopped>>

(* Mutant: the phase limit is not asked.                                   *)
TryAcquireAnyway(t) ==
  /\ enabled
  /\ current \notin stopped
  /\ place[t] = Idle
  /\ ~Locked(global)
  /\ global' = TakeSlot(global)
  /\ limits' = [limits EXCEPT ![current] = TakeSlot(@)]
  /\ Put(t, "holding", current)
  /\ UNCHANGED <<enabled, current, stopped>>

(* try_acquire_...: the stop check comes first and a locked limit is no    *)
(* reason to wait.  When only the phase is locked, the global slot is      *)
(* taken and given back, which wakes a waiter or settles a debt.           *)
TryAcquire(t) ==
  /\ enabled
  /\ current \notin stopped
  /\ place[t] = Idle
  /\ ~Locked(global)
  /\ \/ /\ Locked(limits[current])
        /\ global' = ReleaseSlot(TakeSlot(global))
        /\ UNCHANGED <<limits, place>>
     \/ /\ ~Locked(limits[current])
        /\ global' = TakeSlot(global)
        /\ limits' = [limits EXCEPT ![current] = TakeSlot(@)]
        /\ Put(t, "holding", current)
  /\ UNCHANGED <<enabled, current, stopped>>

WakeFromGlobal(t) ==
  /\ t \in global.woken
  /\ HaveGlobalSlot(t, place[t].phase, Resume(global, t))
  /\ UNCHANGED <<enabled, current, stopped>>

WakeFromPhase(t) ==
  /\ place[t].at = "phase"
  /\ LET ph == place[t].phase
         l  == Resume(limits[ph], t) IN
     /\ t \in limits[ph].woken
     /\ \/ /\ ph \in stopped
           /\ limits' = [limits EXCEPT ![ph] = ReleaseSlot(l)]
           /\ global' = ReleaseSlot(global)
           /\ place' = [place EXCEPT ![t] = Idle]
        \/ /\ ph \notin stopped
           /\ limits' = [limits EXCEPT ![ph] = l]
           /\ Put(t, "holding", ph)
           /\ UNCHANGED global
  /\ UNCHANGED <<enabled, current, stopped>>

(* The waiting task is cancelled.  CancelledError is not an Exception, so  *)
(* the handler that gives acquired slots back does not run.                *)
CancelAcquire(t) ==
  /\ Cancels
  /\ \/ /\ place[t].at = "global"
        /\ global' = AbortWait(global, t)
        /\ UNCHANGED limits
     \/ /\ place[t].at = "phase"
        /\ limits' = [limits EXCEPT ![place[t].phase] = AbortWait(@, t)]
        /\ UNCHANGED global
  /\ place' = [place EXCEPT ![t] = Idle]
  /\ UNCHANGED <<enabled, current, stopped>>

(* release_session_slot / release_prefill_slot when t's credit ends.  A    *)
(* phase that was configured without a limit gives nothing back: release() *)
(* does nothing or, with a limited phase after it, raises ValueError.      *)
Release(t) ==
  /\ place[t].at = "holding"
  /\ place' = [place EXCEPT ![t] = Idle]
  /\ LET ph == place[t].phase IN
     \/ /\ ~enabled \/ ph \notin Configured
        /\ UNCHANGED <<global, limits>>
     \/ /\ enabled /\ ph \in Configured
        /\ global' = ReleaseSlot(global)
        /\ limits' = [limits EXCEPT ![ph] = ReleaseSlot(@)]
  /\ UNCHANGED <<enabled, current, stopped>>

-----------------------------------------------------------------------------
(* The credits of a phase are given up: their slots become free.           *)
GivenUp(ph) ==
  [t \in Tasks |-> IF t \in Holders(ph) THEN [at |-> "given", phase |-> ph] ELSE place[t]]

(* n slots of a phase are released without their credits having ended.     *)
FreeSlots(ph, n) ==
  /\ global' = ReleaseMany(global, n)
  /\ limits' = [limits EXCEPT ![ph] = ReleaseMany(@, n)]
  /\ place' = GivenUp(ph)

(* A slot that was released already is released once more.                 *)
Again(ph, n) == twice' = [twice EXCEPT ![0] = @ + n, ![ph] = @ + n]

(* release_stuck_slots, when a phase is completed by force: what the phase *)
(* has out is computed and released in both layers.  get_held_slots also   *)
(* counts the slots of tasks that were woken but have not run; such a task *)
(* finds the phase stopped and releases its slot itself.                   *)
ReleaseStuckSlots(ph) ==
  /\ ph \in stopped \ forced
  /\ forced' = forced \cup {ph}
  /\ \/ /\ ~enabled \/ ph \notin Configured
        /\ UNCHANGED <<global, limits, place, twice>>
     \/ /\ enabled /\ ph \in Configured
        /\ FreeSlots(ph, HeldSlots(ph))
        /\ LET more == HeldSlots(ph) - Cardinality(Holders(ph))
           IN Again(ph, IF more <= 0 THEN 0
                        ELSE Least(more, Cardinality(limits[ph].woken)))
  /\ UNCHANGED <<enabled, current, stopped>>

(* SessionTreeRegistry.release_all at the end of run(): for a phase that   *)
(* flows into a seamless one, that is while its sessions are in flight.    *)
ReleaseTrees(ph) ==
  /\ Trees /\ enabled
  /\ ph \in stopped \cap Configured
  /\ FreeSlots(ph, Cardinality(Holders(ph)))
  /\ UNCHANGED <<enabled, current, stopped, forced, twice>>

(* A credit that was given up is heard of all the same and its slots are   *)
(* released again.  A late first token (on_first_token does not ask        *)
(* whether the phase is complete) releases a prefill slot; release_all     *)
(* those of a session whose slot release_stuck_slots freed; the last turn  *)
(* of a session those that release_all freed.                              *)
LateRelease(t) ==
  /\ place[t].at = "given"
  /\ place' = [place EXCEPT ![t] = Idle]
  /\ LET ph == place[t].phase IN
     \/ /\ ~enabled
        /\ UNCHANGED <<global, limits, twice>>
     \/ /\ enabled
        /\ global' = ReleaseSlot(global)
        /\ limits' = [limits EXCEPT ![ph] = ReleaseSlot(@)]
        /\ Again(ph, 1)
  /\ UNCHANGED <<enabled, current, stopped, forced>>

(* A return that comes after its phase was completed is only logged.       *)
Ignored(t) ==
  /\ place[t].at = "given"
  /\ place' = [place EXCEPT ![t] = Idle]
  /\ UNCHANGED <<enabled, global, limits, current, stopped, forced, twice>>

Next ==
  /\ \/ /\ \/ \E n \in PhaseLimits : ConfigureForPhase(n)
           \/ \E n \in Ramps : SetPhaseLimit(n)
           \/ StopSending
           \/ \E t \in Tasks : \/ Acquire(t)
                               \/ TryAcquire(t)
                               \/ WakeFromGlobal(t)
                               \/ WakeFromPhase(t)
                               \/ CancelAcquire(t)
                               \/ Release(t)
        /\ UNCHANGED <<forced, twice>>
     \/ \E ph \in Phases : ReleaseStuckSlots(ph) \/ ReleaseTrees(ph)
     \/ \E t \in Tasks : LateRelease(t) \/ Ignored(t)
  /\ UNCHANGED setup

Spec == Init /\ [][Next]_vars

-----------------------------------------------------------------------------
Limit == [value : Nat, queue : Seq(Tasks), woken : SUBSET Tasks,
          debt : Nat, limit : Nat]

TypeOK ==
  /\ setup \in Setups
  /\ enabled \in BOOLEAN
  /\ global \in Limit
  /\ Configured \subseteq Phases
  /\ \A ph \in Configured : limits[ph] \in Limit
  /\ current \in 0 .. NumPhases
  /\ stopped \in SUBSET Phases
  /\ place \in [Tasks -> [at : {"idle", "global", "phase", "holding", "given"},
                          phase : 0 .. NumPhases]]
  /\ forced \subseteq stopped
  /\ twice \in [0 .. NumPhases -> Nat]

(* The tasks that own a slot of a phase limit, of the global limit. *)
PhaseSlots(ph) == Holders(ph) \cup limits[ph].woken
GlobalSlots ==
  {t \in Tasks : place[t].at \in {"phase", "holding"} /\ place[t].phase \in Configured}
    \cup global.woken

(* The limits only change from phase to phase, and every wait ends.        *)
Steady == ~Cancels /\ Ramps = {} /\ Unlimited \notin PhaseLimits

(* Across waits, refusals, phase changes and phases given up, free slots   *)
(* and owned slots of either layer add up to limit and debt, except for    *)
(* the slots that were released twice: none gets lost or is made up        *)
(* otherwise.                                                              *)
PhaseConservation ==
  \A ph \in Configured :
    limits[ph].value + Cardinality(PhaseSlots(ph))
      = limits[ph].limit + limits[ph].debt + twice[ph]

GlobalConservation ==
  global.value + Cardinality(GlobalSlots) = global.limit + global.debt + twice[0]

Conservation ==
  /\ TypeOK
  /\ Steady => PhaseConservation /\ GlobalConservation

(* Cancelled tasks and limits of None lose slots but never make one up.    *)
(* The code does release slots twice, but only those of a credit given up  *)
(* that is heard of all the same and those handed to a task that has yet   *)
(* to run: no phase is affected that is still sending, and none at all     *)
(* while no phase is completed by force or, in AGENTIC_REPLAY, leaves its  *)
(* run() with sessions open.                                               *)
NoSlotMadeUp ==
  /\ global.value + Cardinality(GlobalSlots) <= global.limit + global.debt + twice[0]
  /\ \A ph \in Configured :
       limits[ph].value + Cardinality(PhaseSlots(ph))
         <= limits[ph].limit + limits[ph].debt + twice[ph]
  /\ \A ph \in Phases : twice[ph] > 0 => ph \in stopped /\ (ph \in forced \/ Trees)
  /\ twice[0] > 0 => forced # {} \/ Trees

(* GlobalPhaseConcurrencyLimiter: phase limits provide "immediate hard     *)
(* enforcement of the configured limit" while the global limit drains the  *)
(* previous phase.  No phase ever has more credits out than its limit,     *)
(* also when the global limit lets too many in: lowered while a woken task *)
(* has yet to run, it keeps its free slots and owes them instead, and the  *)
(* slots an earlier phase released twice are free in it.  Tasks that were  *)
(* handed a slot count too, except in a stopped phase that released slots  *)
(* twice: they back out when they run.  Without a ramper.                  *)
PhaseLimitIsHard ==
  Steady => \A ph \in Configured :
    /\ Cardinality(Holders(ph)) <= limits[ph].limit
    /\ ph \notin stopped \/ twice[ph] = 0 =>
         Cardinality(PhaseSlots(ph)) <= limits[ph].limit
=============================================================================
