------------------------------ MODULE LimitOps ------------------------------
(***************************************************************************)
(* The state of one DynamicConcurrencyLimit (timing/concurrency.py) and    *)
(* what each of its synchronous operations does to it.                     *)
(*                                                                         *)
(* A limit is an asyncio.Semaphore plus a debt.  Lowering the limit below  *)
(* the number of slots in use cannot take the slots back, so the shortfall *)
(* is kept as debt that later releases pay off.  The semaphore itself is   *)
(* not in the repository: it is modelled as CPython 3.11 defines it, a     *)
(* counter and a queue of futures.  A future that release() completed      *)
(* already owns its slot, but its task has yet to run: until then the      *)
(* future stays in the queue and the semaphore answers locked().           *)
(*                                                                         *)
(*   value   Semaphore._value                                              *)
(*   queue   the tasks whose future is still pending, oldest first         *)
(*   woken   the tasks whose future is done but which have not run yet     *)
(*   debt    DynamicConcurrencyLimit._debt                                 *)
(*   limit   DynamicConcurrencyLimit._current_limit                        *)
(***************************************************************************)
EXTENDS Integers, Sequences, FiniteSets

Least(a, b) == IF a <= b THEN a ELSE b

NewLimit(n) == [value |-> n, queue |-> <<>>, woken |-> {}, debt |-> 0, limit |-> n]

(* Mutant: a locked() that looks at the counter alone lets a newcomer in   *)
(* ahead of the tasks that wait.                                           *)
LockedByValue(l) == l.value = 0

Locked(l) == l.value = 0 \/ l.queue # <<>> \/ l.woken # {}

(* Semaphore._wake_up_next: hand a slot to the oldest pending future. *)
WakeNext(l) ==
  IF l.queue = <<>> THEN l
  ELSE [l EXCEPT !.value = @ - 1,
                 !.queue = Tail(@),
                 !.woken = @ \cup {Head(l.queue)}]

SemRelease(l) == WakeNext([l EXCEPT !.value = @ + 1])

(* n calls of Semaphore.release(), each of which wakes at most one task. *)
SemReleaseMany(l, n) ==
  LET k == Least(n, Len(l.queue))
  IN [l EXCEPT !.value = @ + n - k,
               !.queue = SubSeq(@, k + 1, Len(@)),
               !.woken = @ \cup {l.queue[i] : i \in 1 .. k}]

(* The acquire that does not wait, and DynamicConcurrencyLimit.try_acquire. *)
TakeSlot(l) == [l EXCEPT !.value = @ - 1]

(* The acquire that waits. *)
Enqueue(l, t) == [l EXCEPT !.queue = Append(@, t)]

(* Mutant: a woken task does not pass the wake-up on.                      *)
ResumeAlone(l, t) == [l EXCEPT !.woken = @ \ {t}]

(* A woken task runs: its future leaves the queue; if there is a slot left *)
(* it wakes the next one.                                                  *)
Resume(l, t) ==
  LET m == [l EXCEPT !.woken = @ \ {t}]
  IN IF m.value > 0 THEN WakeNext(m) ELSE m

(* Task t is cancelled in acquire(): a slot it was handed goes back.       *)
DropWaiter(q, t) ==
  LET k == CHOOSE i \in 1 .. Len(q) : q[i] = t
  IN SubSeq(q, 1, k - 1) \o SubSeq(q, k + 1, Len(q))

(* Mutant: a task that is cancelled after it was woken keeps its slot.     *)
AbortWaitKeepsSlot(l, t) ==
  IF t \in l.woken
  THEN [l EXCEPT !.woken = @ \ {t}]
  ELSE [l EXCEPT !.queue = DropWaiter(@, t)]

AbortWait(l, t) ==
  IF t \in l.woken
  THEN SemRelease([l EXCEPT !.woken = @ \ {t}])
  ELSE [l EXCEPT !.queue = DropWaiter(@, t)]

ReleaseSlot(l) ==
  IF l.debt > 0 THEN [l EXCEPT !.debt = @ - 1] ELSE SemRelease(l)

(* n calls of release() in a row. *)
ReleaseMany(l, n) ==
  LET absorbed == Least(n, l.debt)
  IN SemReleaseMany([l EXCEPT !.debt = @ - absorbed], n - absorbed)

(* Mutant: the slots that cancel a debt are added to the semaphore too.    *)
RaiseLimitTwice(l, n) ==
  LET cancel == Least(n - l.limit, l.debt)
  IN [SemReleaseMany([l EXCEPT !.debt = @ - cancel], n - l.limit) EXCEPT !.limit = n]

RaiseLimit(l, n) ==
  LET cancel == Least(n - l.limit, l.debt)
  IN [SemReleaseMany([l EXCEPT !.debt = @ - cancel], n - l.limit - cancel)
        EXCEPT !.limit = n]

(* A woken task that has not run locks the semaphore: then nothing is     *)
(* drained, even if there are free slots, and all of it becomes debt.      *)
LowerLimit(l, n) ==
  LET diff  == l.limit - n
      drain == IF Locked(l) THEN 0 ELSE Least(diff, l.value)
  IN [l EXCEPT !.value = @ - drain, !.debt = @ + diff - drain, !.limit = n]

SetLimit(l, n) == IF n > l.limit THEN RaiseLimit(l, n) ELSE LowerLimit(l, n)

=============================================================================
