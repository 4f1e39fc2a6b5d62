------------------------ MODULE MCBranchOrchestrator ------------------------
(* Trees for BranchOrchestrator.  Each is the smallest in which one way of *)
(* ending children meets one way of passing a gate.                        *)
EXTENDS BranchOrchestrator, TLC

CONSTANTS a, b, c

Branch(by, turn, kids, late, for, mode) ==
  [by |-> by, at |-> turn, kids |-> kids, late |-> late, gates |-> for, mode |-> mode]

Tree(turns, branches) ==
  [turns |-> turns, branches |-> branches, start |-> "fresh", seeds |-> {},
   resume |-> 0, stops |-> FALSE, faults |-> FALSE, overflows |-> {},
   failFast |-> FALSE, spine |-> FALSE, rec |-> <<>>]

Lengths(r, x, y, z) == Root :> r @@ a :> x @@ b :> y @@ c :> z

(* Two branches of different turns and modes gate one turn. *)
FanIn ==
  Tree(Lengths(3, 1, 1, 1),
    {Branch(Root, 0, {a}, {}, {2}, "FORK"), Branch(Root, 1, {b}, {}, {2}, "SPAWN")})

(* A branch with a late child, under stops and dispatches that raise.      *)
Faulty ==
  [Tree(Lengths(2, 2, 1, 1), {Branch(Root, 0, {a, b, c}, {b}, {1}, "FORK")})
     EXCEPT !.stops = TRUE, !.faults = TRUE, !.overflows = {a}]

(* A branch gates two turns, of which the other branch gates the last.     *)
TwoGates ==
  [Tree(Lengths(3, 2, 1, 1),
    {Branch(Root, 0, {a, b}, {b}, {1, 2}, "SPAWN"), Branch(Root, 1, {c}, {}, {2}, "FORK")})
     EXCEPT !.overflows = {a}]

(* A child spawns a gated branch of its own.                               *)
Nested ==
  Tree(Lengths(2, 2, 1, 1),
    {Branch(Root, 0, {a}, {}, {1}, "FORK"), Branch(a, 0, {b}, {}, {1}, "FORK")})

(* Children without a gate outlive the root's last turn, or its overflow.  *)
Background ==
  [Tree(Lengths(3, 2, 1, 1), {Branch(Root, 0, {a, b}, {b}, {}, "SPAWN")})
     EXCEPT !.stops = TRUE, !.overflows = {Root, a}]

(* A child's error under FAIL_FAST, and an overflow short of a gate.       *)
Failing ==
  [Tree(Lengths(3, 1, 1, 1), {Branch(Root, 0, {a, b}, {b}, {1}, "FORK")})
     EXCEPT !.failFast = TRUE]
Overflowing == [Nested EXCEPT !.overflows = {a}]
Spine ==
  [Tree(Lengths(3, 1, 1, 1), {Branch(Root, 0, {a, b}, {}, {2}, "SPAWN")})
     EXCEPT !.spine = TRUE]

(* Snapshots: the root goes on, is suspended, or has ended.                *)
Snapshot(start) ==
  [Tree(Lengths(3, 2, 1, 1),
     {Branch(Root, 0, {a, b}, {}, {2}, "FORK"), Branch(Root, 1, {c}, {}, {2}, "SPAWN")})
     EXCEPT !.start = start, !.seeds = {a, b},
            !.resume = IF start = "resumed" THEN 1 ELSE 2]

(* Recorded trees: when each request began and how long it took.           *)
At(start, api) == [start |-> start, api |-> api]

(* a is over before the root's turn 1 begins and b begins; c began with b. *)
Recorded ==
  [Tree(Lengths(3, 2, 1, 1), {Branch(Root, 0, {a, b, c}, {b}, {2}, "SPAWN")})
     EXCEPT !.rec = <<Root, 0>> :> At(0, 2) @@ <<a, 0>> :> At(2, 2)
                    @@ <<Root, 1>> :> At(4, 1) @@ <<b, 0>> :> At(4, 0)
                    @@ <<c, 0>> :> At(4, 0) @@ <<a, 1>> :> At(5, 3)
                    @@ <<Root, 2>> :> At(8, Unknown)]

(* The root's turn waits for a, which it has not spawned to wait for; b    *)
(* waits for the root.                                                     *)
RecordedBackground ==
  Tree(Lengths(3, 1, 1, 1), {Branch(Root, 0, {a, b}, {}, {}, "SPAWN")})
RecordedStops ==
  [RecordedBackground EXCEPT !.stops = TRUE,
     !.rec = <<Root, 0>> :> At(0, 1) @@ <<a, 0>> :> At(1, 1) @@ <<Root, 1>> :> At(2, 1)]
RecordedFaults ==
  [RecordedBackground EXCEPT !.faults = TRUE,
     !.rec = <<Root, 0>> :> At(0, 1) @@ <<Root, 1>> :> At(1, 1) @@ <<b, 0>> :> At(2, 1)
             @@ <<Root, 2>> :> At(2, 1)]

RecordedSnapshot(start) ==
  [Tree(Lengths(3, 2, 2, 1), {Branch(Root, 0, {a, b}, {}, {2}, "FORK")})
     EXCEPT !.start = start, !.seeds = {a, b},
            !.resume = IF start = "resumed" THEN 1 ELSE 2,
            !.rec = <<Root, 1>> :> At(2, -1) @@ <<Root, 2>> :> At(6, 1)
                    @@ <<a, 1>> :> At(IF start = "resumed" THEN 1 ELSE 3, 1)
                    @@ <<b, 1>> :> At(4, 1)]

AllTrees ==
  {FanIn, Faulty, TwoGates, Nested, Background, Failing, Overflowing, Spine}
    \union {Snapshot(start) : start \in {"resumed", "gated", "rootless"}}
    \union {Recorded, RecordedStops, RecordedFaults}
    \union {RecordedSnapshot(start) : start \in {"resumed", "gated"}}
=============================================================================
