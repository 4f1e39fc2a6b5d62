---------------------------- MODULE SessionTree -----------------------------
(***************************************************************************)
(* SessionTreeRegistry (timing/session_tree.py): one session slot for each *)
(* session tree, a root and all its descendants, given back when the root  *)
(* has ended and no descendant is left, or at the end of the phase.        *)
(*                                                                         *)
(* The operators are the registry's methods on the record of one tree; the *)
(* specification puts them in the hands of a tree that keeps the rule of   *)
(* register_descendants: whoever spawns is still counted when it does.     *)
(***************************************************************************)
EXTENDS Naturals

CONSTANTS
  Roots,     \* the root_correlation_ids
  MaxSpawn   \* bound: descendants registered, or ended, in one step

VARIABLES
  trees,   \* each tree's record in the registry, with the releases of its slot
  live,    \* the descendants of each tree that have not ended
  up,      \* TRUE while the tree's root is to reach its terminal turn
  swept    \* TRUE once release_all has run

vars == <<trees, live, up, swept>>

NewTree == [at |-> "unopened", root |-> FALSE, out |-> 0, early |-> 0, freed |-> 0]

Tree == [at : {"unopened", "open", "gone"}, root : BOOLEAN, out : Nat,
         early : Nat, freed : Nat]

(* open_tree: descendants that came first are folded in; a second call for *)
(* an open tree is ignored. *)
Opened(t, pending) ==
  IF t.at = "open" THEN t
  ELSE [t EXCEPT !.at = "open", !.root = pending, !.out = t.early, !.early = 0]

(* register_descendants: kept aside while the tree is not open. *)
Registered(t, n) ==
  IF t.at = "open" THEN [t EXCEPT !.out = @ + n] ELSE [t EXCEPT !.early = @ + n]

(* release_session_slot, once and for all. *)
Released(t) == [t EXCEPT !.at = "gone", !.freed = @ + 1]

(* _maybe_release. *)
ReleasedIfDrained(t) == IF t.root \/ t.out > 0 THEN t ELSE Released(t)

Less(m, n) == IF m > n THEN m - n ELSE 0

(* on_descendant_done, n times in a row. *)
DescendantsDone(t, n) ==
  IF n = 0 THEN t
  ELSE IF t.at = "open" THEN ReleasedIfDrained([t EXCEPT !.out = Less(@, n)])
  ELSE [t EXCEPT !.early = Less(@, n)]

RootTerminal(t) ==
  IF t.at = "open" THEN ReleasedIfDrained([t EXCEPT !.root = FALSE]) ELSE t

(* n descendants end, and then the root does if root says so. *)
Ended(t, n, root) ==
  IF root THEN RootTerminal(DescendantsDone(t, n)) ELSE DescendantsDone(t, n)

(* release_all on one tree of the phase. *)
Swept(t) == IF t.at = "open" THEN Released(t) ELSE t
-----------------------------------------------------------------------------
(* seed_snapshot has registered the descendants that are already at work. *)
Init ==
  /\ live \in [Roots -> 0..MaxSpawn]
  /\ trees = [r \in Roots |-> Registered(NewTree, live[r])]
  /\ up = [r \in Roots |-> FALSE]
  /\ swept = FALSE

(* The issuer has a slot for the tree; a lane without a root is opened for *)
(* the descendants it resumes. *)
Open(r, pending) ==
  /\ ~swept /\ trees[r].at = "unopened"
  /\ pending \/ live[r] > 0
  /\ trees' = [trees EXCEPT ![r] = Opened(@, pending)]
  /\ up' = [up EXCEPT ![r] = pending]
  /\ UNCHANGED <<live, swept>>

(* A turn of the tree that has not been accounted for starts children. *)
Spawn(r, n) ==
  /\ ~swept /\ (up[r] \/ live[r] > 0)
  /\ trees' = [trees EXCEPT ![r] = Registered(@, n)]
  /\ live' = [live EXCEPT ![r] = @ + n]
  /\ UNCHANGED <<up, swept>>

End(r, n, root) ==
  /\ ~swept /\ n <= live[r] /\ (root => up[r])
  /\ trees' = [trees EXCEPT ![r] = Ended(@, n, root)]
  /\ live' = [live EXCEPT ![r] = @ - n]
  /\ up' = [up EXCEPT ![r] = @ /\ ~root]
  /\ UNCHANGED swept

(* release_all at the end of the phase, whose late returns are ignored.    *)
Sweep ==
  /\ ~swept
  /\ trees' = [r \in Roots |-> Swept(trees[r])]
  /\ live' = [r \in Roots |-> 0]
  /\ up' = [r \in Roots |-> FALSE]
  /\ swept' = TRUE

Next ==
  \/ \E r \in Roots :
       \/ \E n \in 1..MaxSpawn : Spawn(r, n)
       \/ \E pending \in BOOLEAN : Open(r, pending)
       \/ \E n \in 0..MaxSpawn, root \in BOOLEAN : End(r, n, root)
  \/ Sweep

Spec == Init /\ [][Next]_vars
-----------------------------------------------------------------------------
(* No tree's slot is released twice, whichever of the root's terminal turn,*)
(* the last descendant's end and release_all comes first. *)
SlotFreedOnce == \A r \in Roots : trees[r].freed <= 1

(* A slot comes back during the phase only when the tree is at rest: the   *)
(* docstring's "Exactly one session slot per live tree". *)
FreedAtRest ==
  \A r \in Roots :
    trees[r].freed > 0 => live[r] = 0 /\ ~up[r]

(* A tree at rest keeps no slot, or a lane would stay dark for the phase.  *)
RestFreesSlot ==
  \A r \in Roots :
    trees[r].at = "open" => live[r] > 0 \/ up[r]
=============================================================================
