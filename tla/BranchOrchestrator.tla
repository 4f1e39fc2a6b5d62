------------------------- MODULE BranchOrchestrator -------------------------
(***************************************************************************)
(* One session tree under the BranchOrchestrator (timing/), with what the  *)
(* CreditCallbackHandler, the CreditIssuer and the strategy do for it.     *)
(*                                                                         *)
(* A session is a conversation.  The return of a turn's credit starts the  *)
(* children of the branches declared on the turn; a turn that a branch     *)
(* gates is sent when the branch's children have ended.  The handler of a  *)
(* return waits for dispatches, for the lock of the parent and for the     *)
(* joins it releases, and other handlers run meanwhile: a step is what one *)
(* task does between two awaits.                                           *)
(*                                                                         *)
(* In an agentic replay a dispatch passes the ReplayBarrierCoordinator: it *)
(* is retained until the requests of other sessions that the recording has *)
(* before it are answered, and whoever dispatched it goes on.              *)
(*                                                                         *)
(* plan describes the tree and is chosen at the start.  Left out: branches *)
(* started while the spawning request runs (on_credit_issued), pre-session *)
(* branches, and the hand-over of an accelerated warmup.                   *)
(***************************************************************************)
EXTENDS ReplayOrder, FiniteSets, FiniteSetsExt

CONSTANTS
  Sessions,
  Root,      \* the session at depth 0
  None,
  MaxTurns,  \* bound: the turns of a conversation
  Plans      \* the trees

Turns == 0..(MaxTurns - 1)

(* A branch: declared by session by on turn at, it starts the sessions     *)
(* kids, those of late after an offset; it gates the turns gates.          *)
Branches ==
  [by : Sessions, at : Turns, kids : SUBSET Sessions, late : SUBSET Sessions,
   gates : SUBSET Turns, mode : {"FORK", "SPAWN"}]

(* start: how the tree comes to life.  A fresh root sends its turn 0; from *)
(* a snapshot, the seeds are already at work and the root is to send turn  *)
(* resume, waits for them at the gate of that turn, or has ended.          *)
Starts == {"fresh", "resumed", "gated", "rootless"}

ASSUME BranchOrchestratorAssumption ==
  /\ Root \in Sessions /\ None \notin Sessions
  /\ MaxTurns \in Nat \ {0}
  /\ \A p \in Plans :
       /\ p.turns \in [Sessions -> 1..MaxTurns]
       /\ p.branches \subseteq Branches
       /\ p.start \in Starts /\ p.seeds \subseteq Sessions \ {Root}
       /\ p.resume \in Turns /\ p.overflows \subseteq Sessions
       /\ DOMAIN p.rec \subseteq Sessions \X Turns
       /\ {p.stops, p.faults, p.failFast, p.spine} \subseteq BOOLEAN
       /\ \A b \in p.branches : b.late \subseteq b.kids /\ Root \notin b.kids

VARIABLES
  plan,
  at,        \* where each credit is: to be sent, on the wire, in its return
  starting,  \* what the strategy has yet to start
  jobs,      \* the dispatches that wait in the issuer or at the barrier
  failed,    \* the children whose first dispatch failed
  asleep,    \* the children that wait for their offset
  owed,      \* the gates that a child which has ended has yet to satisfy
  book,      \* the orchestrator's tables
  stopped,   \* TRUE when the stop conditions refuse credits
  over       \* TRUE once the phase has ended and is cleaned up

vars == <<plan, at, starting, jobs, failed, asleep, owed, book, stopped, over>>

Stages == {"none", "wire", "entry", "spawning", "settling", "breezing",
           "leaving", "stopping", "done", "cut", "dropping", "dropped"}

Last(s) == plan.turns[s] - 1
BranchOf(c) == CHOOSE b \in plan.branches : c \in b.kids
ParentOf(c) == BranchOf(c).by
GatesOf(c) == IF plan.start = "rootless" /\ c \in plan.seeds THEN {} ELSE BranchOf(c).gates
BranchesAt(s, t) == {b \in plan.branches : b.by = s /\ b.at = t}
KidsOf(bs) == UNION {b.kids : b \in bs}
LateOf(bs) == UNION {b.late : b \in bs}
EarlyOf(bs) == KidsOf(bs) \ LateOf(bs)
Children == KidsOf(plan.branches)
Forked(cs) == {c \in cs : BranchOf(c).mode = "FORK"}

(* A task is the handler of a return, or the one of a delayed child.       *)
Sleeper(c) == <<c, None>>
Tasks == Sessions \X (Turns \union {None})
Awaits(task) == \E j \in jobs : j.by = task
Nobody == <<None, None>>

Trees == INSTANCE SessionTree WITH
  Roots <- {Root}, MaxSpawn <- 1, trees <- 0, live <- 0, up <- 0, swept <- FALSE
-----------------------------------------------------------------------------
(* The tables.  A gate is a PendingBranchJoin: reg are the branches that   *)
(* have registered, due their children, got the children that have ended.  *)
NoGate == [at |-> "none", reg |-> {}, due |-> {}, got |-> {}]

EmptyBook ==
  [gates |-> [p \in Sessions |-> [g \in Turns |-> NoGate]],
   tracked |-> {},                       \* _child_to_join
   rooted |-> {},                        \* _child_root
   count |-> [p \in Sessions |-> 0],     \* _descendant_counts
   refs |-> [p \in Sessions |-> 0],      \* the sticky router's ref_count
   lock |-> [p \in Sessions |-> None],   \* _parent_locks
   tree |-> Trees!NewTree]               \* the SessionTreeRegistry's record

(* _gated_turn_prereq_keys: what the gate of turn g waits for.             *)
Needs(p, g) == {b \in plan.branches : b.by = p /\ g \in b.gates}

(* PendingBranchJoin.is_satisfied.                                         *)
Satisfied(p, g, gate) == gate.reg = Needs(p, g) /\ gate.due \subseteq gate.got

Standing(bk, p, layer) == {g \in Turns : bk.gates[p][g].at = layer}
Met(bk, p, g) == Satisfied(p, g, bk.gates[p][g])
Without(bk, p, gs) ==
  [bk EXCEPT !.gates[p] = [g \in Turns |-> IF g \in gs THEN NoGate ELSE @[g]]]

Minus(a, b) == IF a > b THEN a - b ELSE 0

(* _tree_descendant_done: once for a child, whoever asks.                  *)
TreeDone(bk, c) ==
  IF c \in bk.rooted
  THEN [bk EXCEPT !.rooted = @ \ {c}, !.tree = Trees!DescendantsDone(@, 1)]
  ELSE bk
AllTreeDone(bk, cs) == FoldSet(LAMBDA c, acc : TreeDone(acc, c), bk, cs)

(* The child leaves _child_to_join, and a FORK child its parent's entry.   *)
Untracked(bk, p, cs) ==
  [bk EXCEPT !.tracked = @ \ cs,
             !.refs[p] = Minus(@, Cardinality(Forked(cs \intersect bk.tracked)))]

(* _release_slot: whoever comes next for the parent makes a new lock.      *)
IfIdleUnlocked(bk, p) ==
  IF /\ bk.count[p] = 0
     /\ Standing(bk, p, "future") \union Standing(bk, p, "active") = {}
  THEN [bk EXCEPT !.lock[p] = None]
  ELSE bk

(* Mutants: the registry counts the children that could not be made too,   *)
(* or none.                                                                *)
RegisteredAnyway(bk, s, bs, landed) ==
  [bk EXCEPT !.tree = Trees!Registered(@, Cardinality(KidsOf(bs))),
             !.tracked = @ \union landed, !.rooted = @ \union landed]
RegisteredInBooks(bk, s, bs, landed) ==
  [bk EXCEPT !.tracked = @ \union landed, !.rooted = @ \union landed]

(* Registration of the children that could be made for the branches bs.    *)
Registered(bk, s, bs, landed) ==
  LET due(g) == {c \in landed : g \in BranchOf(c).gates}
      reg(g) == {b \in bs : g \in b.gates}
      joined(g, gate) ==
        IF reg(g) = {} THEN gate
        ELSE [gate EXCEPT !.at = IF @ = "none" THEN "future" ELSE @,
                          !.reg = @ \union reg(g), !.due = @ \union due(g)]
  IN [bk EXCEPT
        !.gates[s] = [g \in Turns |-> joined(g, @[g])],
        !.tracked = @ \union landed, !.rooted = @ \union landed,
        !.count[s] = @ + Cardinality(landed),
        !.refs[s] = @ + Cardinality(Forked(landed)),
        !.tree = IF landed = {} THEN @
                 ELSE Trees!Registered(@, Cardinality(landed))]

(* Mutants: the join goes on waiting for the child that was not sent; the  *)
(* registry is not told of its end.                                        *)
RolledBackStillDue(bk, p, cs) ==
  AllTreeDone(Untracked([bk EXCEPT !.count[p] = Minus(@, Cardinality(cs))], p, cs), cs)
RolledBackInTree(bk, p, cs) ==
  Untracked([bk EXCEPT
    !.gates[p] = [g \in Turns |-> [@[g] EXCEPT !.due = @ \ (cs \intersect bk.tracked)]],
    !.count[p] = Minus(@, Cardinality(cs))], p, cs)

(* _rollback_failed_first_turn for each of the children cs of p.           *)
RolledBack(bk, p, cs) ==
  LET spared == [bk EXCEPT
        !.gates[p] = [g \in Turns |-> [@[g] EXCEPT !.due = @ \ (cs \intersect bk.tracked)]],
        !.count[p] = Minus(@, Cardinality(cs))]
  IN AllTreeDone(Untracked(spared, p, cs), cs)

(* _finalize_failed_dispatches: which gates it drops, and which of them it *)
(* sends; next is the turn after the one whose return is handled, if any.  *)
Vestigial(bk, p) == {g \in Standing(bk, p, "future") : Met(bk, p, g)}
Resumed(bk, p) == {g \in Standing(bk, p, "active") : Met(bk, p, g)}
Suspends(bk, p, next) ==
  \E g \in Standing(bk, p, "future") \union Standing(bk, p, "active") :
    g = next /\ ~Met(bk, p, g)
(* Mutant: a vestigial gate is sent whether or not the parent suspends.    *)
DrainedAll(bk, p, next) == Resumed(bk, p) \union Vestigial(bk, p)
Drained(bk, p, next) ==
  Resumed(bk, p) \union (IF Suspends(bk, p, next) THEN Vestigial(bk, p) ELSE {})
Finalized(bk, p) ==
  IfIdleUnlocked(Without(bk, p, Vestigial(bk, p) \union Resumed(bk, p)), p)

(* _satisfy_prerequisite for the gates gs of c's parent: a gate that is    *)
(* met before the parent reaches it is dropped, unless it is a spine's.    *)
Marked(bk, p, c, gs) ==
  LET marked(g, gate) ==
        LET m == [gate EXCEPT !.got = @ \union {c}]
        IN IF g \notin gs \/ gate.at = "none" THEN gate
           ELSE IF Satisfied(p, g, m) /\ (gate.at = "active" \/ ~plan.spine)
                THEN NoGate ELSE m
  IN [bk EXCEPT !.gates[p] = [g \in Turns |-> marked(g, @[g])]]

(* The gate has only waited for c, and the parent is suspended at it.      *)
Unblocks(bk, p, c, g) ==
  LET gate == bk.gates[p][g]
  IN gate.at = "active" /\ Satisfied(p, g, [gate EXCEPT !.got = @ \union {c}])

(* The end of _handle_child_done.                                          *)
Accounted(bk, c) ==
  LET p == ParentOf(c)
  IN TreeDone(IfIdleUnlocked([bk EXCEPT !.count[p] = Minus(@, 1)], p), c)

(* _handle_child_errored_fail_fast. *)
FailedFast(bk, c) ==
  LET p == ParentOf(c)
      kids == {k \in bk.tracked : ParentOf(k) = p}
      gone == AllTreeDone(Untracked(Without(bk, p, Turns), p, kids), kids)
  IN [gone EXCEPT !.count[p] = 0, !.lock[p] = None]
-----------------------------------------------------------------------------
(* seed_snapshot: what had been spawned before the snapshot counts as      *)
(* registered, and the children alive in it are due.                       *)
Seeded(p) ==
  LET past(g) == {b \in p.branches : b.by = Root /\ g \in b.gates /\ b.at < p.resume}
      due(g) == {c \in p.seeds : \E b \in past(g) : c \in b.kids}
      forks == {c \in p.seeds : \E b \in p.branches : c \in b.kids /\ b.mode = "FORK"}
      gate(g) ==
        IF p.start = "rootless" \/ due(g) = {} THEN NoGate
        ELSE [at |-> IF p.start = "gated" /\ g = p.resume THEN "active" ELSE "future",
              reg |-> past(g), due |-> due(g), got |-> {}]
  IN [EmptyBook EXCEPT
        !.gates[Root] = [g \in Turns |-> gate(g)],
        !.tracked = p.seeds, !.rooted = p.seeds,
        !.count[Root] = Cardinality(p.seeds), !.refs[Root] = Cardinality(forks),
        !.tree = Trees!Registered(@, Cardinality(p.seeds))]

(* What a snapshot finds behind it counts as sent and returned.            *)
Before(p, s, t) ==
  \/ s \in p.seeds /\ t < p.turns[s] - 1
  \/ s = Root /\ p.start # "fresh" /\ t < p.resume
  \/ s = Root /\ p.start = "rootless" /\ t < p.turns[s]

Init ==
  /\ plan \in Plans
  /\ at = [s \in Sessions |-> [t \in Turns |-> IF Before(plan, s, t) THEN "done" ELSE "none"]]
  /\ starting = {Root} \union plan.seeds
  /\ jobs = {} /\ failed = {} /\ asleep = {}
  /\ owed = [c \in Sessions |-> {}]
  /\ book = IF plan.start = "fresh" THEN EmptyBook ELSE Seeded(plan)
  /\ stopped = FALSE /\ over = FALSE

(* Turns whose complete() has been called, on their return: for a child's  *)
(* last turn after the joins that it resumes have been dispatched.         *)
Answered(s, t) == at[s][t] \notin {"none", "wire", "leaving", "dropping", "dropped"}

(* Mutant: one of the predecessors will do. *)
ReadyEarly(s, t) ==
  LET before == Predecessors(plan.rec, <<s, t>>)
  IN before = {} \/ \E k \in before : Answered(k[1], k[2])

(* ReplayBarrierCoordinator._ready. *)
Ready(s, t) == \A k \in Predecessors(plan.rec, <<s, t>>) : Answered(k[1], k[2])

(* submit: by waits for a dispatch that goes to the issuer, and nobody for *)
(* one that is retained.                                                   *)
Job(kind, s, t, by) ==
  [kind |-> kind, s |-> s, t |-> t, by |-> IF Ready(s, t) THEN by ELSE Nobody]
Joins(p, gs, by) == {Job("join", p, g, by) : g \in gs}
Stage(s, t, stage) == at' = [at EXCEPT ![s][t] = stage]

(* Advance the end of child c from the table bk and the jobs js: satisfy   *)
(* the gates rest in their order up to the first that resumes the parent,  *)
(* whose dispatch is awaited; after the last, account for the child.       *)
After == [leaving |-> "entry", stopping |-> "done", dropping |-> "dropped"]

Leave(bk, js, c, t, rest, stage) ==
  LET p == ParentOf(c)
      stop == {g \in rest : Unblocks(bk, p, c, g)}
      g == Min(stop)
  IN IF stop = {}
     THEN /\ book' = Accounted(Marked(bk, p, c, rest), c)
          /\ Stage(c, t, After[stage])
          /\ owed' = [owed EXCEPT ![c] = {}]
          /\ jobs' = js
     ELSE /\ book' = Marked(bk, p, c, {h \in rest : h <= g})
          /\ Stage(c, t, stage)
          /\ owed' = [owed EXCEPT ![c] = {h \in rest : h > g}]
          /\ jobs' = js \union Joins(p, {g}, <<c, t>>)

(* on_child_leaf_reached, on_child_stopped: _handle_child_done, once.      *)
ChildDone(bk, js, c, t, stage) ==
  IF c \in bk.tracked
  THEN Leave(Untracked(bk, ParentOf(c), {c}), js, c, t, GatesOf(c), stage)
  ELSE book' = bk /\ Stage(c, t, After[stage]) /\ jobs' = js /\ UNCHANGED owed
-----------------------------------------------------------------------------
(* The strategy starts the tree: a root's first credit opens it, and so    *)
(* does the slot of a lane whose root is suspended or has ended.           *)
StartRoot ==
  /\ ~over /\ Root \in starting /\ plan.start \in {"fresh", "resumed"}
  /\ starting' = starting \ {Root}
  /\ jobs' = jobs \union
       {Job("open", Root, IF plan.start = "fresh" THEN 0 ELSE plan.resume, Sleeper(Root))}
  /\ UNCHANGED <<plan, at, failed, asleep, owed, book, stopped, over>>

OpenLane ==
  /\ ~over /\ Root \in starting /\ plan.start \in {"gated", "rootless"}
  /\ starting' = starting \ {Root}
  /\ book' = IF stopped THEN book
             ELSE [book EXCEPT !.tree = Trees!Opened(@, plan.start = "gated")]
  /\ UNCHANGED <<plan, at, jobs, failed, asleep, owed, stopped, over>>

StartSeed(c) ==
  /\ ~over /\ c \in starting \ {Root}
  /\ plan.start = "resumed" \/ Root \notin starting
  /\ starting' = starting \ {c}
  /\ jobs' = jobs \union {Job("seed", c, Last(c), Sleeper(c))}
  /\ UNCHANGED <<plan, at, failed, asleep, owed, book, stopped, over>>

(* A dispatch that waits in the issuer reaches the wire.  complete() has   *)
(* started a task for one that was retained and has become ready.          *)
Send(j) ==
  /\ ~over /\ j \in jobs /\ ~stopped /\ Ready(j.s, j.t)
  /\ jobs' = jobs \ {j}
  /\ Stage(j.s, j.t, "wire")
  /\ book' = IF j.kind = "open" THEN [book EXCEPT !.tree = Trees!Opened(@, TRUE)] ELSE book
  /\ UNCHANGED <<plan, starting, failed, asleep, owed, stopped, over>>

(* A stop condition refuses it, or it raises, or the runner withdraws it   *)
(* from the barrier.  A child's first turn is left to who awaits it; that  *)
(* failing, and for a child's continuation, the child ends (on_refused,    *)
(* on_child_stopped).  A join (joins_suppressed), a root's turn and a      *)
(* seed's are dropped.                                                     *)
Refuse(j) ==
  /\ ~over /\ j \in jobs
  /\ stopped \/ (plan.faults /\ j.kind = "first" /\ Ready(j.s, j.t))
  /\ CASE j.kind = "next" /\ j.s # Root ->
            /\ ChildDone(book, jobs \ {j}, j.s, j.t - 1, "stopping")
            /\ UNCHANGED failed
       [] j.kind = "first" /\ j.by = Nobody ->
            /\ ChildDone(book, jobs \ {j}, j.s, j.t, "dropping")
            /\ UNCHANGED failed
       [] OTHER ->
            /\ jobs' = jobs \ {j}
            /\ failed' = IF j.kind = "first" THEN failed \union {j.s} ELSE failed
            /\ UNCHANGED <<at, owed, book>>
  /\ UNCHANGED <<plan, starting, asleep, stopped, over>>

(* cancel_pending cancels the tasks that complete() has started: nobody    *)
(* hears of their dispatches again.                                        *)
Withdraw(j) ==
  /\ ~over /\ j \in jobs /\ stopped
  /\ j.by = Nobody /\ Ready(j.s, j.t)
  /\ jobs' = jobs \ {j}
  /\ UNCHANGED <<plan, at, starting, failed, asleep, owed, book, stopped, over>>
-----------------------------------------------------------------------------
(* on_credit_return up to the intercept: a child's final turn ends the     *)
(* child; an overflow ends its session and skips the intercept.            *)
Return(s, t, res) ==
  /\ ~over /\ at[s][t] = "wire"
  /\ CASE res = "overflow" ->
            /\ s \in plan.overflows /\ t # Last(s)
            /\ IF s = Root
               THEN /\ book' = [book EXCEPT !.tree = Trees!RootTerminal(@)]
                    /\ Stage(s, t, "cut") /\ UNCHANGED <<jobs, owed>>
               ELSE ChildDone(book, jobs, s, t, "stopping")
       [] res = "error" ->
            /\ plan.failFast /\ s # Root /\ t = Last(s) /\ s \in book.tracked
            /\ book' = FailedFast(book, s)
            /\ Stage(s, t, "entry") /\ UNCHANGED <<jobs, owed>>
       [] OTHER ->
            IF s # Root /\ t = Last(s) THEN ChildDone(book, jobs, s, t, "leaving")
            ELSE Stage(s, t, "entry") /\ UNCHANGED <<jobs, owed, book>>
  /\ UNCHANGED <<plan, starting, failed, asleep, stopped, over>>

(* The join that the child resumed is sent or refused: on to the next gate.*)
LeaveOn(c, t) ==
  /\ ~over /\ at[c][t] \in {"leaving", "stopping", "dropping"} /\ ~Awaits(<<c, t>>)
  /\ Leave(book, jobs, c, t, owed[c], at[c][t])
  /\ UNCHANGED <<plan, starting, failed, asleep, stopped, over>>
-----------------------------------------------------------------------------
(* The end of intercept and what follows it: the next turn is left to its  *)
(* gate, or the session goes on.  Let go of the lock either way.           *)
Unlocked(bk, s, task) ==
  IF bk.lock[s] = task THEN [bk EXCEPT !.lock[s] = None] ELSE bk

Decide(bk, s, t) ==
  LET next == t + 1
      gate == IF next \in Turns THEN bk.gates[s][next] ELSE NoGate
      met == gate.at # "none" /\ Satisfied(s, next, gate)
      free == Unlocked(bk, s, <<s, t>>)
      on == IF met /\ gate.at = "future" THEN Without(free, s, {next}) ELSE free
  IN IF met /\ gate.at = "future" /\ plan.spine
     THEN \* _take_satisfied_future: the wait and the dispatch are under the lock
          /\ book' = Without(bk, s, {next})
          /\ Stage(s, t, "breezing")
          /\ jobs' = jobs \union Joins(s, {next}, <<s, t>>)
          /\ UNCHANGED owed
     ELSE IF gate.at # "none" /\ ~met
     THEN \* _maybe_suspend_parent
          /\ book' = [free EXCEPT !.gates[s][next].at = "active"]
          /\ Stage(s, t, "done") /\ UNCHANGED <<jobs, owed>>
     ELSE IF t = Last(s)
     THEN /\ book' = IF s = Root THEN [on EXCEPT !.tree = Trees!RootTerminal(@)] ELSE on
          /\ Stage(s, t, "done") /\ UNCHANGED <<jobs, owed>>
     ELSE IF ~stopped
     THEN /\ book' = on
          /\ Stage(s, t, "done")
          /\ jobs' = jobs \union {Job("next", s, next, Sleeper(s))}
          /\ UNCHANGED owed
     ELSE IF s = Root
     THEN book' = on /\ Stage(s, t, "done") /\ UNCHANGED <<jobs, owed>>
     ELSE ChildDone(on, jobs, s, t, "stopping")

(* intercept takes the parent's lock; the children of the turn's branches  *)
(* that can be made are registered before any of them is dispatched.       *)
Intercept(s, t) ==
  LET bs == BranchesAt(s, t)
  IN /\ ~over /\ at[s][t] = "entry" /\ book.lock[s] = None
     /\ IF bs = {}
        THEN Decide(book, s, t) /\ UNCHANGED asleep
        ELSE \E landed \in SUBSET KidsOf(bs) :
               /\ landed = KidsOf(bs) \/ plan.faults
               /\ book' = [Registered(book, s, bs, landed) EXCEPT !.lock[s] = <<s, t>>]
               /\ jobs' = jobs \union
                    {Job("first", c, 0, <<s, t>>) : c \in landed \ LateOf(bs)}
               /\ asleep' = asleep \union (landed \intersect LateOf(bs))
               /\ Stage(s, t, "spawning") /\ UNCHANGED owed
     /\ UNCHANGED <<plan, starting, failed, stopped, over>>

(* The first turns are all sent or refused: roll back the ones that were   *)
(* not, and send the joins of the gates this has drained.                  *)
Settle(s, t) ==
  LET lost == failed \intersect EarlyOf(BranchesAt(s, t))
      rolled == RolledBack(book, s, lost)
      drained == Drained(rolled, s, t + 1)
  IN /\ ~over /\ at[s][t] = "spawning" /\ ~Awaits(<<s, t>>)
     /\ failed' = failed \ lost
     /\ IF drained = {}
        THEN Decide(Finalized(rolled, s), s, t)
        ELSE /\ book' = Finalized(rolled, s)
             /\ jobs' = jobs \union Joins(s, drained, <<s, t>>)
             /\ Stage(s, t, "settling") /\ UNCHANGED owed
     /\ UNCHANGED <<plan, starting, asleep, stopped, over>>

(* The joins are on their way.  A breeze suppresses the strategy's dispatch*)
(* of the next turn; drained gates leave the rest of intercept to be done. *)
Joined(s, t) ==
  /\ ~over /\ at[s][t] \in {"settling", "breezing"} /\ ~Awaits(<<s, t>>)
  /\ IF at[s][t] = "settling" THEN Decide(book, s, t)
     ELSE /\ book' = Unlocked(book, s, <<s, t>>)
          /\ Stage(s, t, "done") /\ UNCHANGED <<jobs, owed>>
  /\ UNCHANGED <<plan, starting, failed, asleep, stopped, over>>
-----------------------------------------------------------------------------
(* _dispatch_first_turn_after_offset, under the parent's lock.             *)
Wake(c) ==
  /\ ~over /\ c \in asleep /\ book.lock[ParentOf(c)] = None
  /\ asleep' = asleep \ {c}
  /\ jobs' = jobs \union {Job("first", c, 0, Sleeper(c))}
  /\ book' = [book EXCEPT !.lock[ParentOf(c)] = Sleeper(c)]
  /\ UNCHANGED <<plan, at, starting, failed, owed, stopped, over>>

(* The dispatch, and the joins that its rollback has drained, are over.    *)
Woken(c) ==
  LET p == ParentOf(c)
      rolled == RolledBack(book, p, {c})
      drained == Drained(rolled, p, None)
  IN /\ ~over /\ book.lock[p] = Sleeper(c) /\ ~Awaits(Sleeper(c))
     /\ failed' = failed \ {c}
     /\ IF c \notin failed
        THEN book' = Unlocked(book, p, Sleeper(c)) /\ UNCHANGED jobs
        ELSE IF drained = {}
        THEN book' = Unlocked(Finalized(rolled, p), p, Sleeper(c)) /\ UNCHANGED jobs
        ELSE /\ book' = Finalized(rolled, p)
             /\ jobs' = jobs \union Joins(p, drained, Sleeper(c))
     /\ UNCHANGED <<plan, at, starting, asleep, owed, stopped, over>>
-----------------------------------------------------------------------------
(* The request count, the duration or a cancel: from now on, refuse.       *)
Stop ==
  /\ plan.stops /\ ~stopped
  /\ stopped' = TRUE
  /\ UNCHANGED <<plan, at, starting, jobs, failed, asleep, owed, book, over>>

(* has_pending_branch_work. *)
Pending ==
  \/ \E p \in Sessions, g \in Turns : book.gates[p][g].at # "none"
  \/ book.tracked # {}
  \/ \E p \in Sessions : book.count[p] > 0

Busy ==
  \/ starting # {} \/ jobs # {}
  \/ \E s \in Sessions, t \in Turns : at[s][t] \notin {"none", "done", "cut", "dropped"}

(* The runner ends the phase: when all credits have returned and no branch *)
(* work is pending, or after a stop; cleanup and release_all empty the     *)
(* tables, and late returns are ignored.                                   *)
Teardown ==
  /\ ~over
  /\ stopped \/ (~Pending /\ ~Busy)
  /\ book' = [EmptyBook EXCEPT !.tree = Trees!Swept(book.tree)]
  /\ over' = TRUE
  /\ UNCHANGED <<plan, at, starting, jobs, failed, asleep, owed, stopped>>

Work ==
  \/ StartRoot \/ OpenLane \/ \E c \in plan.seeds : StartSeed(c)
  \/ \E j \in jobs : Send(j) \/ Refuse(j) \/ Withdraw(j)
  \/ \E s \in Sessions, t \in Turns :
       \/ \E res \in {"ok", "error", "overflow"} : Return(s, t, res)
       \/ LeaveOn(s, t) \/ Intercept(s, t) \/ Settle(s, t) \/ Joined(s, t)
  \/ \E c \in Children : Wake(c) \/ Woken(c)

Next == Work \/ Stop \/ Teardown

(* The event loop runs every task that can run; nobody has to stop.        *)
Spec == Init /\ [][Next]_vars /\ WF_vars(Work)
-----------------------------------------------------------------------------
Gate == [at : {"none", "future", "active"}, reg : SUBSET plan.branches,
         due : SUBSET Sessions, got : SUBSET Sessions]
Book == [gates : [Sessions -> [Turns -> Gate]], tracked : SUBSET Sessions,
         rooted : SUBSET Sessions, count : [Sessions -> Nat],
         refs : [Sessions -> Nat], lock : [Sessions -> Tasks \union {None}],
         tree : Trees!Tree]

TypeOK ==
  /\ plan \in Plans
  /\ at \in [Sessions -> [Turns -> Stages]]
  /\ jobs \subseteq [kind : {"open", "first", "next", "join", "seed"}, s : Sessions,
                     t : Turns, by : Tasks \union {Nobody}]
  /\ {starting, failed, asleep} \subseteq SUBSET Sessions
  /\ owed \in [Sessions -> SUBSET Turns]
  /\ book \in Book
  /\ {stopped, over} \subseteq BOOLEAN

(* A turn is dispatched once: while a dispatch waits in the issuer no other*)
(* does for its session, it has not been sent, and the turn before it has  *)
(* returned.  Both the strategy and three paths of the orchestrator        *)
(* dispatch a gated turn, and each relies on the others not to.            *)
DispatchedOnceInOrder ==
  \A j \in jobs :
    /\ at[j.s][j.t] = "none"
    /\ \A k \in jobs : k.s = j.s => k = j
    /\ \A t \in Turns : t < j.t => at[j.s][t] \in {"done", "breezing"}

(* A gated turn is sent only when every child of every branch that gates it*)
(* has ended, whether the parent was suspended, met the gate on its way or *)
(* had its gate drained by failed dispatches.  FAIL_FAST drops the gate.   *)
Working(c) ==
  \/ c \in asleep \/ \E j \in jobs : j.s = c
  \/ \E t \in Turns : at[c][t] = "wire"
JoinBarrier ==
  \A s \in Sessions, g \in Turns :
    (at[s][g] = "wire" \/ \E j \in jobs : j.s = s /\ j.t = g) /\ ~plan.failFast
      => \A b \in Needs(s, g) : at[s][b.at] = "done" /\ \A c \in b.kids : ~Working(c)

(* A request is not sent before the answers to all requests of other       *)
(* sessions that the recording had finished when it began, although the    *)
(* barrier only knows the latest of each session and leaves out those that *)
(* another one has waited for.                                             *)
RecordedOrder ==
  \A k \in DOMAIN plan.rec :
    at[k[1]][k[2]] \notin {"none", "dropping", "dropped"}
      => \A j \in Elsewhere(plan.rec, k) : Answered(j[1], j[2])
NeverTooEarly == JoinBarrier /\ RecordedOrder

(* A suspended parent has somebody to wait for: a tracked child that is due*)
(* at the gate, or one that is about to satisfy it.  Otherwise no event    *)
(* would ever resume it.                                                   *)
NobodyWaitsInVain ==
  \A p \in Sessions : \A g \in Standing(book, p, "active") :
    \E c \in book.gates[p][g].due \ book.gates[p][g].got :
      c \in book.tracked \/ g \in owed[c]

(* The tables agree, whichever of its last return, an error, an overflow, a*)
(* refusal and a rollback ends a child: a count for each child that has not*)
(* been accounted for, a reference for each FORK child that is tracked.    *)
BooksBalance ==
  /\ TypeOK
  /\ \A p \in Sessions :
       LET kids == {c \in book.rooted : ParentOf(c) = p}
       IN /\ book.count[p] = Cardinality(kids)
          /\ book.refs[p] = Cardinality(Forked({c \in kids : c \in book.tracked}))
          /\ book.tracked \subseteq book.rooted

(* The tree keeps its slot as long as a credit of it is on the wire or     *)
(* about to be.  Under FAIL_FAST the orphans are disowned and work on.     *)
SlotCoversWork ==
  book.tree.freed > 0 /\ ~over /\ ~plan.failFast
    => jobs = {} /\ asleep = {} /\ \A s \in Sessions, t \in Turns : at[s][t] # "wire"

(* The slots of trees as the SessionTreeRegistry promises them: whoever    *)
(* registers descendants is still accounted for in the tree itself.        *)
RootEnded ==
  at[Root][Last(Root)] = "done" \/ \E t \in Turns : at[Root][t] = "cut"
Registry == INSTANCE SessionTree WITH
  Roots <- {Root}, MaxSpawn <- Cardinality(Sessions),
  trees <- [r \in {Root} |-> book.tree],
  live <- [r \in {Root} |-> Cardinality(book.rooted)],
  up <- [r \in {Root} |-> book.tree.at # "unopened" /\ ~RootEnded /\ ~over],
  swept <- over
KeepsRegistry == Registry!Spec

(* The branch work drains for good, stop conditions and failed dispatches  *)
(* or not, so that all_credits_returned can be signalled: the module's     *)
(* "zero-overshoot, zero-deadlock around DAG work".  A tree that is not    *)
(* stopped runs to its end and its slot comes back; one whose suspended    *)
(* parent FAIL_FAST gave up is left to release_all.                        *)
BranchWorkDrains ==
  /\ <>[](over \/ (~Pending /\ ~Busy))
  /\ <>(book.tree.at = "gone" \/ stopped \/ plan.failFast)
=============================================================================
