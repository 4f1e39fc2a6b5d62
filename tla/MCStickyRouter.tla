--------------------------- MODULE MCStickyRouter ---------------------------
(* StickyRouter for TLC: a root with a FORK child and a SPAWN child, and a *)
(* second root, or a root with two FORK children, over two workers or      *)
(* three.                                                                  *)
EXTENDS StickyRouter, TLC

CONSTANTS root, child, sibling, helper, other, w1, w2, w3

MCFamilies == {root, child, helper, other}
MCSiblings == {root, child, sibling}
MCTwoRoots == {root, other}
MCParent == [s \in Sessions |-> IF s \in {child, sibling, helper} THEN root ELSE None]
MCSpawned == Sessions \cap {helper}
MCTurns == [s \in Sessions |-> IF s \in {root, helper} THEN 2 ELSE 1]
TwoWorkers == {w1, w2}
ThreeWorkers == {w1, w2, w3}
AllFaults == FaultKinds
Crashes == {"crash"}
NoFaults == {}
Symmetry == Permutations(Workers)
=============================================================================
