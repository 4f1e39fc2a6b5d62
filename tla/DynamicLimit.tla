---------------------------- MODULE DynamicLimit ----------------------------
(***************************************************************************)
(* One DynamicConcurrencyLimit (timing/concurrency.py) shared by asyncio   *)
(* tasks, while a ramper or an adaptive-scale controller changes its limit.*)
(* Everything between two awaits is one step, as on an event loop: the     *)
(* steps of a task are the call of acquire(), the wake-up after a wait,    *)
(* the cancellation of a wait and the call of release().                   *)
(***************************************************************************)
EXTENDS LimitOps

CONSTANTS
  Callers,   \* the tasks that use the limit
  MaxLimit   \* the largest limit set_limit() is called with

ASSUME LimitAssumption == MaxLimit \in Nat /\ IsFiniteSet(Callers)

VARIABLES
  lim,       \* the limit, a record of LimitOps
  holding    \* the tasks between acquire() and release()

limitVars == <<lim, holding>>

Waiting == {lim.queue[i] : i \in 1 .. Len(lim.queue)}
Outside == Callers \ (holding \cup lim.woken \cup Waiting)

(* The slots that are taken: a woken task has its slot before it runs. *)
InUse == holding \cup lim.woken

LimitInit ==
  /\ \E n \in 1 .. MaxLimit : lim = NewLimit(n)
  /\ holding = {}

(* acquire() when a slot is free, and try_acquire(): no suspension. *)
AcquireNow(t) ==
  /\ t \in Outside
  /\ ~Locked(lim)
  /\ lim' = TakeSlot(lim)
  /\ holding' = holding \cup {t}

(* acquire() when the semaphore is locked: the task waits for its turn. *)
AcquireLater(t) ==
  /\ t \in Outside
  /\ Locked(lim)
  /\ lim' = Enqueue(lim, t)
  /\ UNCHANGED holding

(* The wait is over: acquire() returns. *)
WakeUp(t) ==
  /\ t \in lim.woken
  /\ lim' = Resume(lim, t)
  /\ holding' = holding \cup {t}

(* The waiting task is cancelled, before or after it was handed a slot. *)
CancelWait(t) ==
  /\ t \in lim.woken \cup Waiting
  /\ lim' = AbortWait(lim, t)
  /\ UNCHANGED holding

ReleaseNow(t) ==
  /\ t \in holding
  /\ lim' = ReleaseSlot(lim)
  /\ holding' = holding \ {t}

ChangeLimit(n) ==
  /\ n # lim.limit
  /\ lim' = SetLimit(lim, n)
  /\ UNCHANGED holding

LimitNext ==
  \/ \E t \in Callers : \/ AcquireNow(t)
                        \/ AcquireLater(t)
                        \/ WakeUp(t)
                        \/ CancelWait(t)
                        \/ ReleaseNow(t)
  \/ \E n \in 1 .. MaxLimit : ChangeLimit(n)

LimitSpec == LimitInit /\ [][LimitNext]_limitVars

(* The event loop runs every ready task, and every credit comes back. *)
LimitFairness == \A t \in Callers : WF_limitVars(WakeUp(t)) /\ WF_limitVars(ReleaseNow(t))

LimitFairSpec == LimitSpec /\ LimitFairness

-----------------------------------------------------------------------------
LimitTypeOK ==
  /\ lim \in [value : Nat, queue : Seq(Callers), woken : SUBSET Callers,
              debt : Nat, limit : 1 .. MaxLimit]
  /\ holding \in SUBSET Callers

(* No slot is lost or made up by any mix of waits, cancellations and limit *)
(* changes: free slots and slots in use add up to the limit and the debt.  *)
SlotConservation == lim.value + Cardinality(InUse) = lim.limit + lim.debt

(* A task waits, holds or is idle, and it waits in one place only. *)
OnePlace ==
  /\ lim.woken \cap holding = {}
  /\ Waiting \cap InUse = {}
  /\ \A i, j \in 1 .. Len(lim.queue) : lim.queue[i] = lim.queue[j] => i = j

(* No lost wake-up: a free slot with tasks waiting is about to be handed   *)
(* over by a woken task that has not run yet.                              *)
NoLostWakeUp == lim.value > 0 /\ lim.queue # <<>> => lim.woken # {}

(* acquire() and try_acquire() never overtake a task that waits, although  *)
(* try_acquire() takes the slot from the counter behind the semaphore's    *)
(* back.                                                                   *)
NoBarging ==
  [][\A t \in holding' \ holding :
       t \in lim.woken \/ (lim.queue = <<>> /\ lim.woken = {})]_limitVars

(* A slot a waiting task could have is not withheld for ever: whatever     *)
(* waits are cancelled and however often the limit moves, the queue moves  *)
(* on as long as the holders release.                                      *)
WaitersServed == \A t \in Callers : t \in Waiting ~> t \notin Waiting
=============================================================================
