------------------------------ MODULE RouterOps ------------------------------
(***************************************************************************)
(* The tables of the StickyCreditRouter (credit/sticky_router.py) and what *)
(* each of its synchronous operations does to them.                        *)
(*                                                                         *)
(*   pool     _workers: the registered workers and the load of each        *)
(*   byLoad   _workers_by_load: for each load the workers that have it     *)
(*   minLoad  _min_load: the cached least load                             *)
(*   sticky   _sticky_sessions: a routing key to the entry it stands for;  *)
(*            an entry is named by the root session it was made for        *)
(*   entry    the live _StickyEntry objects                                *)
(*                                                                         *)
(* Sessions stand for correlation ids.  Ties that active sessions do not   *)
(* break are open here: the send counts and times behind them are left out.*)
(***************************************************************************)
EXTENDS Integers, FiniteSets, FiniteSetsExt, Functions

With(f, k, v) == [x \in DOMAIN f \cup {k} |-> IF x = k THEN v ELSE f[x]]
Without(f, K) == Restrict(f, DOMAIN f \ K)

NewRouter(maxLoad) ==
  [pool |-> <<>>, byLoad |-> [l \in 0 .. maxLoad |-> {}], minLoad |-> 0,
   sticky |-> <<>>, entry |-> <<>>]

-----------------------------------------------------------------------------
(* Workers and their loads.                                                *)

RegisterWorker(r, w) ==
  [r EXCEPT !.pool = With(@, w, [load |-> 0, active |-> 0, owned |-> {}, credits |-> {}]),
            !.minLoad = 0,
            !.byLoad[0] = @ \cup {w}]

(* A worker of one load has another. *)
Moved(byLoad, w, from, to) == [byLoad EXCEPT ![from] = @ \ {w}, ![to] = @ \cup {w}]

(* Mutant: the least load stays when the last worker that had it moves up. *)
TrackSentKeepsMin(r, w, s) ==
  LET old == r.pool[w].load
  IN [r EXCEPT !.pool[w].load = old + 1,
               !.pool[w].credits = @ \cup {s},
               !.byLoad = Moved(@, w, old, old + 1)]

(* _track_credit_sent *)
TrackSent(r, w, s) ==
  LET old     == r.pool[w].load
      buckets == Moved(r.byLoad, w, old, old + 1)
  IN [r EXCEPT !.pool[w].load = old + 1,
               !.pool[w].credits = @ \cup {s},
               !.byLoad = buckets,
               !.minLoad = IF old = @ /\ buckets[old] = {} THEN old + 1 ELSE @]

(* Mutant: the credit stays among the worker's active credits.             *)
TrackReturnedKeepsId(r, w, s) ==
  IF w \notin DOMAIN r.pool THEN r
  ELSE LET old == r.pool[w].load
       IN [r EXCEPT !.pool[w].load = old - 1,
                    !.byLoad = Moved(@, w, old, old - 1),
                    !.minLoad = IF old - 1 < @ THEN old - 1 ELSE @]

(* _track_credit_returned: the return of an unregistered worker is logged. *)
TrackReturned(r, w, s) ==
  IF w \notin DOMAIN r.pool THEN r
  ELSE LET old == r.pool[w].load
           m   == [r EXCEPT !.pool[w].credits = @ \ {s}]
       IN IF old = 0 THEN m
          ELSE [m EXCEPT !.pool[w].load = old - 1,
                         !.byLoad = Moved(@, w, old, old - 1),
                         !.minLoad = IF old - 1 < @ THEN old - 1 ELSE @]

(* The workers that a credit without a sticky worker may go to. *)
LeastLoaded(r) ==
  LET ties == r.byLoad[r.minLoad]
  IN {w \in ties : \A v \in ties : r.pool[w].active <= r.pool[v].active}

-----------------------------------------------------------------------------
(* Sticky entries.                                                         *)

(* _pop_entry: the entry goes with its root key and every alias of it. *)
PopEntry(r, key) ==
  LET e     == r.sticky[key]
      names == {k \in {e} \cup r.entry[e].aliases :
                  k \in DOMAIN r.sticky /\ r.sticky[k] = e}
  IN [r EXCEPT !.sticky = Without(@, {key} \cup names), !.entry = Without(@, {e})]

(* The entry is dropped and its worker no longer counts the session. *)
Evict(r, key) ==
  LET e == r.sticky[key]
      w == r.entry[e].worker
      m == PopEntry(r, key)
  IN IF w \notin DOMAIN r.pool THEN m
     ELSE [m EXCEPT !.pool[w].active = @ - 1, !.pool[w].owned = @ \ {e}]

(* Whether the key's entry names a worker that is still registered. *)
Pinned(r, key) ==
  key \in DOMAIN r.sticky /\ r.entry[r.sticky[key]].worker \in DOMAIN r.pool

(* The workers that the next credit under key may go to. *)
Route(r, key) ==
  IF Pinned(r, key) THEN {r.entry[r.sticky[key]].worker} ELSE LeastLoaded(r)

(* send_credit makes an entry for a session with more turns to come, or    *)
(* binds the one whose worker is gone; a DAG child never makes one.        *)
Pin(r, key, w, isChild) ==
  LET e == IF key \in DOMAIN r.sticky THEN r.sticky[key] ELSE key
      m == [r EXCEPT !.pool[w].active = @ + 1, !.pool[w].owned = @ \cup {e}]
  IN IF key \in DOMAIN r.sticky THEN [m EXCEPT !.entry[e].worker = w]
     ELSE IF isChild THEN r
     ELSE [m EXCEPT !.sticky = With(@, key, key),
                    !.entry = With(@, key, [worker |-> w, refs |-> 1,
                                            final |-> FALSE, aliases |-> {}])]

(* Mutant: the children that the turn is about to fork are not waited for. *)
SendFinalEvicts(r, s, hasForks) ==
  IF s \notin DOMAIN r.sticky THEN r
  ELSE LET m == [r EXCEPT !.entry[s].refs = @ - 1, !.entry[s].final = TRUE]
       IN IF m.entry[s].refs <= 0 THEN Evict(m, s) ELSE m

(* The final turn of the session that owns the entry, if it has one: the   *)
(* entry stays only for children that hold it or that this turn will fork. *)
SendFinal(r, s, hasForks) ==
  IF s \notin DOMAIN r.sticky THEN r
  ELSE LET m == [r EXCEPT !.entry[s].refs = @ - 1, !.entry[s].final = TRUE]
       IN IF m.entry[s].refs <= 0 /\ ~hasForks THEN Evict(m, s) ELSE m

(* register_child_routing for each of the children C of p. *)
RegisterChildren(r, p, C) ==
  IF p \notin DOMAIN r.sticky THEN r
  ELSE LET e == r.sticky[p]
       IN [r EXCEPT !.entry[e].refs = @ + Cardinality(C),
                    !.entry[e].aliases = @ \cup (C \ DOMAIN r.sticky),
                    !.sticky = [k \in DOMAIN @ \cup C |->
                                  IF k \in DOMAIN @ THEN @[k] ELSE e]]

(* Mutant: the last child leaves the entry behind. *)
ReleaseChildKeeps(r, p) ==
  IF p \notin DOMAIN r.sticky THEN r ELSE [r EXCEPT !.entry[r.sticky[p]].refs = @ - 1]

(* release_child_routing *)
ReleaseChild(r, p) ==
  IF p \notin DOMAIN r.sticky THEN r
  ELSE LET e == r.sticky[p]
           m == [r EXCEPT !.entry[e].refs = @ - 1]
       IN IF m.entry[e].refs <= 0 /\ m.entry[e].final THEN Evict(m, p) ELSE m

(* release_child_routing for each of the children C of p.  Once a release  *)
(* drops the entry, the others find none.                                  *)
ReleaseChildren(r, p, C) ==
  IF C = {} \/ p \notin DOMAIN r.sticky THEN r
  ELSE LET e == r.sticky[p]
           m == [r EXCEPT !.entry[e].refs = @ - Cardinality(C)]
       IN IF m.entry[e].refs <= 0 /\ m.entry[e].final THEN Evict(m, p) ELSE m

(* evict_unclaimed_sticky *)
EvictUnclaimed(r, p) ==
  IF /\ p \in DOMAIN r.sticky
     /\ r.entry[r.sticky[p]].final
     /\ r.entry[r.sticky[p]].refs <= 0
  THEN Evict(r, p) ELSE r

-----------------------------------------------------------------------------
(* _drop_orphaned_sessions: the entries of the sessions S go, each with    *)
(* its root key and every alias of it.                                     *)
DropOrphans(r, S) ==
  LET keys  == S \cap DOMAIN r.sticky
      gone  == {r.sticky[k] : k \in keys}
      names == {k \in DOMAIN r.sticky :
                  r.sticky[k] \in gone /\ k \in {r.sticky[k]} \cup r.entry[r.sticky[k]].aliases}
  IN [r EXCEPT !.sticky = Without(@, keys \cup names), !.entry = Without(@, gone)]

LeastLoad(pool) ==
  IF DOMAIN pool = {} THEN 0 ELSE Min({pool[w].load : w \in DOMAIN pool})

(* _unregister_worker for each of the registered workers W.  The least     *)
(* load is only looked for again when the last worker that had it goes.    *)
UnregisterAll(r, W) ==
  LET owned   == UNION {r.pool[w].owned : w \in W}
      pool    == Without(r.pool, W)
      buckets == [l \in DOMAIN r.byLoad |-> r.byLoad[l] \ {w \in W : r.pool[w].load = l}]
      least   == \E w \in W : r.pool[w].load = r.minLoad
  IN [DropOrphans(r, owned) EXCEPT
        !.pool = pool, !.byLoad = buckets,
        !.minLoad = IF least /\ buckets[@] = {} THEN LeastLoad(pool) ELSE @]

(* _unregister_worker.  If the worker is not known, the least load is      *)
(* looked for again.                                                       *)
Unregister(r, w) ==
  IF w \in DOMAIN r.pool THEN UnregisterAll(r, {w})
  ELSE [r EXCEPT !.minLoad = LeastLoad(r.pool)]

(* What the worker takes with it if it does not come back. *)
OwnsSessions(r, w) == w \in DOMAIN r.pool /\ r.pool[w].owned # {}
HasCredits(r, w) == w \in DOMAIN r.pool /\ r.pool[w].load > 0
=============================================================================
