---------------------------- MODULE StickyRouter ----------------------------
(***************************************************************************)
(* The StickyCreditRouter (credit/sticky_router.py) between the phases,    *)
(* which send credits and get them back, and the workers, which come, stop,*)
(* stall and die.  Every handler of the router is one step: the docstring  *)
(* of the class promises that no await splits its reads from its writes.   *)
(*                                                                         *)
(* A session sends one turn at a time.  A turn may start children: a FORK  *)
(* child continues its parent's context and is registered on its parent's  *)
(* routing, a SPAWN child is not.  The orchestrator's part in the return of*)
(* a credit belongs to the step, in the order of on_credit_return: a child *)
(* that is done is released first, children of the turn come afterwards.   *)
(***************************************************************************)
EXTENDS RouterOps

CONSTANTS
  Workers,
  Sessions,
  Parent,      \* the parent of each session, None for a root
  Spawned,     \* the sessions that are SPAWN children
  None,
  MaxTurns,    \* bound: the turns of each session
  Faults       \* what may happen to workers: a subset of FaultKinds

FaultKinds == {"crash", "stall", "shutdown", "delay", "cancel"}

ASSUME StickyRouterAssumption ==
  /\ IsFiniteSet(Workers) /\ IsFiniteSet(Sessions)
  /\ None \notin Workers \cup Sessions
  /\ Parent \in [Sessions -> Sessions \cup {None}]
  /\ Spawned \subseteq {s \in Sessions : Parent[s] # None}
  /\ MaxTurns \in [Sessions -> Nat \ {0}]
  /\ Faults \subseteq FaultKinds

VARIABLES
  r,         \* the router's tables, a record of RouterOps
  reported,  \* the workers reported as lost: _terminally_lost_workers
  strikes,   \* _stale_worker_strikes
  draining,  \* _cancellation_pending: credits are being cancelled
  worker,    \* each worker's process
  quiet,     \* the workers whose last heartbeat is older than the cutoff
  sess       \* each session: where it is, its turns, the workers of its
             \* last turn (on) and of its first (home)

vars == <<r, reported, strikes, draining, worker, quiet, sess>>

Roots == {s \in Sessions : Parent[s] = None}
Forked == Sessions \ (Roots \cup Spawned)

(* The key under which a credit's sticky entry is looked up. *)
RoutingKey(s) == IF s \in Roots THEN s ELSE Parent[s]

Unborn(s) == {c \in Sessions : Parent[c] = s /\ sess[c].at = "unborn"}

Init ==
  /\ r = NewRouter(Cardinality(Sessions))
  /\ reported = {}
  /\ strikes = {}
  /\ draining = FALSE
  /\ worker = [w \in Workers |-> "starting"]
  /\ quiet = {}
  /\ sess = [s \in Sessions |->
               [at |-> IF s \in Roots THEN "ready" ELSE "unborn", turns |-> 0,
                final |-> FALSE, starts |-> {}, on |-> None, home |-> None]]

-----------------------------------------------------------------------------
(* Credits.                                                                *)

(* send_credit for the next turn of s, which goes to worker w, is the      *)
(* session's last or not, and starts the children C when it returns.       *)
SendCredit(s, isFinal, C, w) ==
  LET key      == RoutingKey(s)
      hasForks == C \cap Forked # {}
      pinned   == IF ~Pinned(r, key) /\ (~isFinal \/ hasForks)
                  THEN Pin(r, key, w, s \notin Roots) ELSE r
      settled  == IF isFinal /\ s \in Roots THEN SendFinal(pinned, s, hasForks) ELSE pinned
      arrives  == worker[w] = "up"
  IN /\ sess[s].at = "ready"
     /\ DOMAIN r.pool # {}
     /\ C \subseteq Unborn(s)
     /\ sess[s].turns + 1 = MaxTurns[s] => isFinal
     /\ w \in Route(r, key)
     /\ r' = TrackSent(settled, w, s)
     /\ sess' = [sess EXCEPT ![s] = [at |-> IF arrives THEN "out" ELSE "lost",
                                     turns |-> @.turns + 1, final |-> isFinal,
                                     starts |-> C, on |-> w,
                                     home |-> IF @.turns = 0 THEN w ELSE @.home]]
     /\ UNCHANGED <<reported, strikes, draining, worker, quiet>>

(* A worker's CreditReturn, and what the callback and the orchestrator do  *)
(* to the router: a FORK child that is done is released; of the children   *)
(* the turn starts, those in missing cannot be created, and those in       *)
(* refused are created and registered but may not send; the session goes   *)
(* on or is cut short.                                                     *)
CreditReturn(s, missing, refused, goesOn) ==
  LET isFinal == sess[s].final
      C       == sess[s].starts \ missing
      r1 == TrackReturned(r, sess[s].on, s)
      r2 == IF isFinal /\ s \in Forked THEN ReleaseChild(r1, Parent[s]) ELSE r1
      r3 == RegisterChildren(r2, s, C \cap Forked)
      r4 == ReleaseChildren(r3, s, refused \cap Forked)
      r5 == IF sess[s].starts = {} THEN r4 ELSE EvictUnclaimed(r4, s)
  IN /\ sess[s].at = "out"
     /\ missing \subseteq sess[s].starts /\ refused \subseteq C
     /\ goesOn => ~isFinal
     /\ r' = IF ~isFinal /\ ~goesOn /\ s \in Forked THEN ReleaseChild(r5, Parent[s]) ELSE r5
     /\ sess' = [c \in Sessions |->
                   IF c = s THEN [sess[s] EXCEPT !.at = IF goesOn THEN "ready" ELSE "over",
                                                 !.starts = {}]
                   ELSE IF c \in sess[s].starts
                   THEN [sess[c] EXCEPT !.at = IF c \in C \ refused THEN "ready" ELSE "over"]
                   ELSE sess[c]]
     /\ UNCHANGED <<reported, strikes, draining, worker, quiet>>

(* A session that waits for its next turn is cut short.  A FORK child is   *)
(* released (on_child_stopped); of a root nobody tells the router.         *)
StopSession(s) ==
  /\ sess[s].at = "ready"
  /\ sess' = [sess EXCEPT ![s].at = "over"]
  /\ r' = IF s \in Forked THEN ReleaseChild(r, Parent[s]) ELSE r
  /\ UNCHANGED <<reported, strikes, draining, worker, quiet>>

(* cancel_all_credits: warnings and the reports of lost workers pause.     *)
CancelAllCredits ==
  /\ "cancel" \in Faults
  /\ ~draining
  /\ draining' = TRUE
  /\ UNCHANGED <<r, reported, strikes, worker, quiet, sess>>

(* The drain window is over, or the next phase begins. *)
DrainOver ==
  /\ draining
  /\ draining' = FALSE
  /\ UNCHANGED <<r, reported, strikes, worker, quiet, sess>>

-----------------------------------------------------------------------------
(* Workers.                                                                *)

(* WorkerDispatchable, which a worker sends once. *)
Dispatchable(w) ==
  /\ worker[w] = "starting"
  /\ worker' = [worker EXCEPT ![w] = "up"]
  /\ r' = RegisterWorker(r, w)
  /\ UNCHANGED <<reported, strikes, draining, quiet, sess>>

(* The worker has answered all its credits, says so in a WorkerShutdown    *)
(* and reads no more.                                                      *)
Stop(w) ==
  /\ "shutdown" \in Faults
  /\ worker[w] = "up"
  /\ worker' = [worker EXCEPT ![w] = "stopping"]
  /\ UNCHANGED <<r, reported, strikes, draining, quiet, sess>>

(* WorkerShutdown arrives.  Credits in flight do not count as a loss, their*)
(* returns were sent before it; the sessions the worker owns do.           *)
Shutdown(w) ==
  /\ worker[w] = "stopping"
  /\ worker' = [worker EXCEPT ![w] = "stopped"]
  /\ r' = Unregister(r, w)
  /\ reported' = reported \cup (IF OwnsSessions(r, w) /\ ~draining THEN {w} ELSE {})
  /\ UNCHANGED <<strikes, draining, quiet, sess>>

(* The worker dies with the credits L; the returns of others are under way.*)
Crash(w, L) ==
  /\ "crash" \in Faults
  /\ worker[w] = "up"
  /\ L \subseteq {s \in Sessions : sess[s].at = "out" /\ sess[s].on = w}
  /\ worker' = [worker EXCEPT ![w] = "dead"]
  /\ sess' = [s \in Sessions |-> IF s \in L THEN [sess[s] EXCEPT !.at = "lost"] ELSE sess[s]]
  /\ UNCHANGED <<r, reported, strikes, draining, quiet>>

(* No heartbeat for STALE_TIME times the multiplier: the worker is dead or *)
(* its event loop stalls.                                                  *)
GoQuiet(w) ==
  /\ worker[w] = "dead" \/ (worker[w] = "up" /\ "stall" \in Faults)
  /\ w \notin quiet
  /\ quiet' = quiet \cup {w}
  /\ UNCHANGED <<r, reported, strikes, draining, worker, sess>>

Heartbeat(w) ==
  /\ worker[w] = "up"
  /\ w \in quiet
  /\ quiet' = quiet \ {w}
  /\ UNCHANGED <<r, reported, strikes, draining, worker, sess>>

(* Mutant: a worker with credits in flight counts as busy, not as stale. *)
CandidatesIdle == {w \in DOMAIN r.pool \cap quiet : ~HasCredits(r, w)}

(* _stale_worker_candidates *)
Candidates == DOMAIN r.pool \cap quiet

(* The workers found stale by two sweeps in a row. *)
Confirmed == Candidates \cap strikes

(* Mutant: credits in flight are no loss. *)
LostWithSessions(W) == {w \in W : OwnsSessions(r, w)}

(* The workers of W that take active work with them. *)
LostWith(W) == {w \in W : HasCredits(r, w) \/ OwnsSessions(r, w)}

(* _evict_stale_workers_task *)
Sweep ==
  /\ ~draining
  /\ strikes' = Candidates \ strikes
  /\ r' = UnregisterAll(r, Confirmed)
  /\ reported' = reported \cup LostWith(Confirmed)
  /\ UNCHANGED <<draining, worker, quiet, sess>>

(* A sweep that comes late forgives everybody: the router itself stalled.  *)
DelayedSweep ==
  /\ "delay" \in Faults
  /\ ~draining
  /\ strikes # {}
  /\ strikes' = {}
  /\ UNCHANGED <<r, reported, draining, worker, quiet, sess>>

Next ==
  \/ \E s \in Sessions :
       \/ \E isFinal \in BOOLEAN, C \in SUBSET Unborn(s), w \in Workers :
            SendCredit(s, isFinal, C, w)
       \/ \E missing \in SUBSET sess[s].starts, goesOn \in BOOLEAN :
            \E refused \in SUBSET (sess[s].starts \ missing) :
              CreditReturn(s, missing, refused, goesOn)
       \/ StopSession(s)
  \/ CancelAllCredits
  \/ DrainOver
  \/ \E w \in Workers : \/ Dispatchable(w)
                        \/ Stop(w)
                        \/ Shutdown(w)
                        \/ \E L \in SUBSET Sessions : Crash(w, L)
                        \/ GoQuiet(w)
                        \/ Heartbeat(w)
  \/ Sweep
  \/ DelayedSweep

Spec == Init /\ [][Next]_vars

(* A dead worker falls silent, cancellations end, sweeps come at their     *)
(* interval and are not late every time a worker is under suspicion.       *)
Fairness ==
  /\ \A w \in Workers : WF_vars(worker[w] = "dead" /\ GoQuiet(w))
  /\ WF_vars(DrainOver)
  /\ SF_vars(Sweep)
  /\ SF_vars(strikes # {} /\ Sweep)

FairSpec == Spec /\ Fairness

-----------------------------------------------------------------------------
Registered == DOMAIN r.pool
Sent(s) == sess[s].at \in {"out", "lost"}
Out(w) == {s \in Sessions : Sent(s) /\ sess[s].on = w}

TypeOK ==
  /\ Registered \subseteq Workers
  /\ \A w \in Registered :
       r.pool[w] \in [load : Nat, active : Nat, owned : SUBSET Roots, credits : SUBSET Sessions]
  /\ r.byLoad \in [0 .. Cardinality(Sessions) -> SUBSET Workers]
  /\ r.minLoad \in 0 .. Cardinality(Sessions)
  /\ DOMAIN r.sticky \subseteq Sessions
  /\ \A k \in DOMAIN r.sticky : r.sticky[k] \in Roots
  /\ DOMAIN r.entry \subseteq Roots
  /\ \A e \in DOMAIN r.entry :
       r.entry[e] \in [worker : Workers, refs : Int, final : BOOLEAN, aliases : SUBSET Sessions]
  /\ reported \cup strikes \cup quiet \subseteq Workers
  /\ draining \in BOOLEAN
  /\ worker \in [Workers -> {"starting", "up", "stopping", "stopped", "dead"}]
  /\ \A s \in Sessions : sess[s].turns \in 0 .. MaxTurns[s]
  /\ sess \in [Sessions -> [at : {"unborn", "ready", "out", "lost", "over"}, turns : Nat,
                            final : BOOLEAN, starts : SUBSET Sessions,
                            on : Workers \cup {None}, home : Workers \cup {None}]]

(* The index by load and the cached least load, which are adjusted one     *)
(* credit at a time and never rebuilt, stay what they stand for: otherwise *)
(* new sessions go to a busy worker, or to none at all.                    *)
IndexMatchesLoads ==
  /\ \A l \in DOMAIN r.byLoad : r.byLoad[l] = {w \in Registered : r.pool[w].load = l}
  /\ Registered # {} => r.minLoad = LeastLoad(r.pool)

(* A worker's load is what it has not answered yet, even if it was evicted *)
(* as stale and answers after all.                                         *)
LoadMatchesCredits ==
  \A w \in Registered : r.pool[w].credits = Out(w) /\ r.pool[w].load = Cardinality(Out(w))

(* active_sessions, active_session_ids and the sticky entries tell the     *)
(* same story: no entry names a worker that is gone, no key an entry that  *)
(* is gone, and no worker counts a session that it does not have.          *)
SessionsMatchEntries ==
  /\ \A w \in Registered :
       /\ r.pool[w].owned = {e \in DOMAIN r.entry : r.entry[e].worker = w}
       /\ r.pool[w].active = Cardinality(r.pool[w].owned)
  /\ \A e \in DOMAIN r.entry : r.entry[e].worker \in Registered
  /\ \A k \in DOMAIN r.sticky : r.sticky[k] \in DOMAIN r.entry
  /\ \A e \in DOMAIN r.entry : {k \in DOMAIN r.sticky : r.sticky[k] = e} = {e} \cup r.entry[e].aliases

(* All the tables that every handler adjusts by hand agree with each other.*)
TablesAgree == TypeOK /\ IndexMatchesLoads /\ SessionsMatchEntries

(* The end of a session's ancestry, at most two generations up. *)
Root(s) == IF s \in Roots THEN s
           ELSE IF Parent[s] \in Roots THEN Parent[s] ELSE Parent[Parent[s]]

Running(s) == sess[s].at = "ready" \/ Sent(s)

(* An entry is dropped with the last session that needs it: while it       *)
(* exists its root has turns to come (or was cut short before its last), a *)
(* FORK descendant is running, or the last turn will fork some.            *)
EntryHasUse ==
  \A e \in DOMAIN r.entry :
    \/ ~sess[e].final
    \/ \E c \in Forked : Root(c) = e /\ Running(c)
    \/ Sent(e) /\ sess[e].starts \cap Forked # {}

(* The turns of s go to the worker of its root's first turn, as long as    *)
(* that worker is registered.                                              *)
StaysHome(s) ==
  sess'[s].turns > sess[s].turns /\ sess'[Root(s)].home \in Registered
    => sess'[s].on = sess'[Root(s)].home

(* The children of roots that are the only FORK child of their parent. *)
OnlyForks == {c \in Forked : /\ Parent[c] \in Roots
                             /\ \A d \in Forked : Parent[d] = Parent[c] => d = c}

(* "All turns in a session route to the same worker", and a FORK child's   *)
(* to its parent's, whose history only that worker has (_StickyEntry).     *)
(* Stated for roots and for FORK children without FORK siblings: with      *)
(* siblings the code breaks it, see SiblingsStayHome.                      *)
SessionsStayHome == [][\A s \in Roots \cup OnlyForks : StaysHome(s)]_vars

(* "All siblings in a fork hit the same worker as the parent" (dag.md).    *)
(* This does NOT hold, even if nothing ever fails: a FORK child that ends  *)
(* while the root's final turn, which will fork another, is on the wire    *)
(* takes the entry with it that send_credit kept for the sibling.          *)
SiblingsStayHome == [][\A c \in Forked : Parent[c] \in Roots => StaysHome(c)]_vars

(* A worker that is dropped from routing while the run is live, and will   *)
(* not answer for a credit, is reported: the phase must not wait for it.   *)
LossesReported ==
  \A w \in Workers :
    worker[w] = "dead" /\ w \notin Registered /\ Out(w) # {} => w \in reported

(* A worker that dies with work is dropped and reported in the end, even   *)
(* if sweeps come late and cancellations suspend them now and then.        *)
DeadWorkersNoticed ==
  \A w \in Workers :
    worker[w] = "dead" /\ HasCredits(r, w) ~> w \in reported \/ Out(w) = {}
=============================================================================
