------------------------- MODULE PhaseLimiter_proofs ------------------------
(***************************************************************************)
(* Two layers of slots shared by the phases of a run, for any finite set   *)
(* of credits, any number of phases and any limits.  The code does release *)
(* some slots twice, so the accounting is up to those (twice).  That no    *)
(* slot is made up otherwise is not inductive by itself: release_stuck_    *)
(* slots computes what to give back from a phase's own limit and gives it  *)
(* to both layers, so slots the phase layer has lost come back in the      *)
(* global layer too.  It has to be known that they were lost there as      *)
(* well: all phases together never lack more slots than the global limit   *)
(* does (LossesCovered).  Where slots may be released twice is a second    *)
(* part of the invariant: only in a phase that has stopped and that has no *)
(* credit out that still counts (Late).                                    *)
(***************************************************************************)
EXTENDS PhaseLimiter, DynamicLimit_proofs

(* The tasks that wait for the global limit and for the limit of a phase,  *)
(* and those that have taken a global slot and not given it back.          *)
Queued == {t \in Tasks : place[t].at = "global"}
Waits(ph) == {t \in Tasks : place[t] = [at |-> "phase", phase |-> ph]}
Owns(r) == r.at \in {"phase", "holding"} /\ r.phase \in Configured
GlobalHolders == {t \in Tasks : Owns(place[t])}

Where == [at : {"idle", "global", "phase", "holding", "given"}, phase : 0 .. NumPhases]

Typed ==
  /\ setup \in Setups /\ enabled \in BOOLEAN
  /\ current \in 0 .. NumPhases /\ stopped \subseteq 1 .. current
  /\ Configured \subseteq 1 .. current /\ limits \in [Configured -> Limits(Tasks)]
  /\ place \in [Tasks -> Where] /\ twice \in [0 .. NumPhases -> Nat]
  /\ \A ph \in Phases \ stopped : twice[ph] = 0
  /\ enabled <=> current \in Configured
  /\ ~enabled /\ current > 0 => Unlimited \in PhaseLimits
  /\ \A t \in Tasks :
       /\ place[t].phase <= current
       /\ place[t].at \in {"global", "phase"} => place[t].phase \in Configured

(* The slots of a limit that are lost when n of them are held.  A slot     *)
(* that was released twice makes up for one that is held.                  *)
Missing(l, n) == (l.limit + l.debt - Slots(l)) - n
GlobalUse == Cardinality(GlobalHolders) - twice[0]
PhaseUse(ph) == Cardinality(Holders(ph)) - twice[ph]
GlobalMissing == Missing(global, GlobalUse)
PhaseMissing(ph) == Missing(limits[ph], PhaseUse(ph))

(* A set with f[ph] elements for every ph of C: its size is their sum. *)
LostOf(C, f) == UNION {{ph} \X (1 .. f[ph]) : ph \in C}
Losses == [ph \in Configured |-> PhaseMissing(ph)]
Lost == LostOf(Configured, Losses)

GlobalOK == Sound(global, Tasks) /\ Prompt(global) /\ Users(global) = Queued

PhaseOK(ph) ==
  /\ Sound(limits[ph], Tasks) /\ Prompt(limits[ph])
  /\ Users(limits[ph]) = Waits(ph)
  /\ Ramps = {} => limits[ph].debt = 0
  /\ PhaseMissing(ph) >= 0

LossesCovered == IsFiniteSet(Lost) /\ Cardinality(Lost) <= GlobalMissing

IInv ==
  /\ Typed
  /\ GlobalOK
  /\ \A ph \in Configured : PhaseOK(ph)
  /\ LossesCovered
  /\ Steady => GlobalMissing = 0

(* Slots are released twice only for a phase that gave its credits up: it  *)
(* has stopped and none of them is out any more.                           *)
GaveUp(ph) ==
  /\ ph \in stopped \cap Configured
  /\ ph \in forced \/ Trees
  /\ Holders(ph) = {}

Late ==
  /\ forced \subseteq stopped
  /\ \A t \in Tasks : place[t].at = "given" => GaveUp(place[t].phase)
  /\ \A ph \in Phases : twice[ph] > 0 => GaveUp(ph)
  /\ twice[0] > 0 => forced # {} \/ Trees

-----------------------------------------------------------------------------
(* The pairs of one phase are as many as its losses.                       *)
LEMMA Column ==
  ASSUME NEW ph, NEW n \in Nat
  PROVE  IsFiniteSet({ph} \X (1 .. n)) /\ Cardinality({ph} \X (1 .. n)) = n
<1>1. IsFiniteSet(1 .. n) /\ Cardinality(1 .. n) = n
  BY FS_Interval
<1>2. IsFiniteSet({ph}) /\ Cardinality({ph}) = 1
  BY FS_Singleton
<1>3. /\ IsFiniteSet({ph} \X (1 .. n))
      /\ Cardinality({ph} \X (1 .. n)) = Cardinality({ph}) * Cardinality(1 .. n)
  BY <1>1, <1>2, FS_Product
<1> QED BY <1>1, <1>2, <1>3

(* One phase's losses and those of the others add up.                      *)
LEMMA LostSplit ==
  ASSUME NEW C, NEW f \in [C -> Int], NEW ph \in C, f[ph] >= 0,
         NEW R, R = LostOf(C \ {ph}, f)
  PROVE  /\ IsFiniteSet(LostOf(C, f)) <=> IsFiniteSet(R)
         /\ IsFiniteSet(R) => Cardinality(LostOf(C, f)) = Cardinality(R) + f[ph]
<1> DEFINE L == {ph} \X (1 .. f[ph])
           A == LostOf(C, f)
<1>1. A = R \cup L
  <2> DEFINE Col(q) == {q} \X (1 .. f[q])
  <2>1. A = UNION {Col(q) : q \in C} /\ R = UNION {Col(q) : q \in C \ {ph}} /\ L = Col(ph)
    BY DEF LostOf
  <2> HIDE DEF Col, A, L
  <2> QED BY <2>1
<1>2. R \cap L = {}
  <2>1. ASSUME NEW x \in R PROVE x[1] # ph
    <3>1. PICK q \in C \ {ph} : x \in {q} \X (1 .. f[q])
      BY <2>1 DEF LostOf
    <3> QED BY <3>1
  <2>2. ASSUME NEW x \in L PROVE x[1] = ph
    BY <2>2
  <2> QED BY <2>1, <2>2
<1>3. f[ph] \in Nat /\ IsFiniteSet(L) /\ Cardinality(L) = f[ph]
  <2> DEFINE n == f[ph]
  <2>1. n \in Nat
    OBVIOUS
  <2> HIDE DEF n
  <2>2. IsFiniteSet({ph} \X (1 .. n)) /\ Cardinality({ph} \X (1 .. n)) = n
    BY <2>1, Column
  <2> QED BY <2>1, <2>2 DEF n
<1> HIDE DEF L, A
<1>4. IsFiniteSet(A) => IsFiniteSet(R)
  <2>1. R \in SUBSET A
    BY <1>1
  <2> QED BY <2>1, FS_Subset
<1>5. ASSUME IsFiniteSet(R)
      PROVE  IsFiniteSet(A) /\ Cardinality(A) = Cardinality(R) + f[ph]
  <2>1. Cardinality(R \cap L) = 0
    BY <1>2, FS_EmptySet
  <2>2. IsFiniteSet(R \cup L)
        /\ Cardinality(R \cup L) = Cardinality(R) + Cardinality(L) - Cardinality(R \cap L)
    BY <1>3, <1>5, FS_Union
  <2>3. Cardinality(R) \in Nat
    BY <1>5, FS_CardinalityType
  <2> QED BY <1>1, <1>3, <2>1, <2>2, <2>3
<1> QED BY <1>4, <1>5 DEF A

LEMMA LostChanges ==
  ASSUME NEW C, NEW f \in [C -> Int], NEW g \in [C -> Int], NEW ph \in C,
         \A q \in C \ {ph} : g[q] = f[q], f[ph] >= 0, g[ph] >= 0, IsFiniteSet(LostOf(C, f))
  PROVE  /\ IsFiniteSet(LostOf(C, g))
         /\ Cardinality(LostOf(C, g)) = Cardinality(LostOf(C, f)) + g[ph] - f[ph]
<1> DEFINE R == LostOf(C \ {ph}, f)
<1>1. R = LostOf(C \ {ph}, g)
  BY DEF LostOf
<1> HIDE DEF R
<1>2. IsFiniteSet(R) /\ Cardinality(LostOf(C, f)) = Cardinality(R) + f[ph]
  BY LostSplit DEF R
<1>3. IsFiniteSet(LostOf(C, g)) /\ Cardinality(LostOf(C, g)) = Cardinality(R) + g[ph]
  BY <1>1, <1>2, LostSplit
<1>4. Cardinality(R) \in Nat /\ f[ph] \in Int /\ g[ph] \in Int
  BY <1>2, FS_CardinalityType
<1> QED BY <1>2, <1>3, <1>4

(* A phase that has lost nothing adds nothing.                             *)
LEMMA LostSame ==
  ASSUME NEW C, NEW f, NEW x, x \notin C, NEW g, g[x] = 0, \A q \in C : g[q] = f[q]
  PROVE  LostOf(C \cup {x}, g) = LostOf(C, f)
<1>1. {x} \X (1 .. g[x]) = {}
  BY 1 .. 0 = {}
<1> QED BY <1>1 DEF LostOf

-----------------------------------------------------------------------------
(* What the invariant says of the numbers. *)
LEMMA Finite ==
  ASSUME NEW S \in SUBSET Tasks
  PROVE  IsFiniteSet(S) /\ Cardinality(S) \in Nat
BY PhaseLimiterAssumption, FS_Subset, FS_CardinalityType

LEMMA MissingType ==
  ASSUME NEW l, Sound(l, Tasks), NEW n \in Int
  PROVE  Missing(l, n) \in Int
<1>1. IsFiniteSet(Tasks)
  BY PhaseLimiterAssumption
<1>2. l.limit \in Nat /\ l.debt \in Nat /\ Slots(l) \in Nat
  BY <1>1, Parts
<1> QED BY <1>1, <1>2 DEF Missing

LEMMA UseType ==
  ASSUME Typed
  PROVE  /\ GlobalUse \in Int
         /\ \A ph \in Configured : PhaseUse(ph) \in Int /\ ph \in 1 .. NumPhases
<1>1. \A ph \in Configured : ph \in 1 .. NumPhases
  BY PhaseLimiterAssumption DEF Typed
<1>2. twice[0] \in Nat /\ \A ph \in 1 .. NumPhases : twice[ph] \in Nat
  BY PhaseLimiterAssumption DEF Typed
<1>3. Cardinality(GlobalHolders) \in Nat /\ \A ph : Cardinality(Holders(ph)) \in Nat
  BY Finite DEF GlobalHolders, Holders
<1> QED BY <1>1, <1>2, <1>3 DEF GlobalUse, PhaseUse

(* A task moves: the sets that go by where a task is change by that task.  *)
LEMMA Moves ==
  ASSUME Typed, NEW t \in Tasks, NEW p \in Where, place' = [place EXCEPT ![t] = p]
  PROVE  /\ place' \in [Tasks -> Where] /\ place'[t] = p
         /\ \A s \in Tasks \ {t} : place'[s] = place[s]
         /\ Queued' = IF p.at = "global" THEN Queued \cup {t} ELSE Queued \ {t}
         /\ \A q : Waits(q)' = IF p = [at |-> "phase", phase |-> q]
                               THEN Waits(q) \cup {t} ELSE Waits(q) \ {t}
         /\ \A q : Holders(q)' = IF p = [at |-> "holding", phase |-> q]
                                 THEN Holders(q) \cup {t} ELSE Holders(q) \ {t}
<1>1. place \in [Tasks -> Where]
  BY DEF Typed
<1>2. /\ place' \in [Tasks -> Where] /\ place'[t] = p
      /\ \A s \in Tasks \ {t} : place'[s] = place[s]
  BY <1>1
<1>3. Queued' = IF p.at = "global" THEN Queued \cup {t} ELSE Queued \ {t}
  BY <1>2 DEF Queued
<1>4. ASSUME NEW q
      PROVE  Waits(q)' = IF p = [at |-> "phase", phase |-> q]
                         THEN Waits(q) \cup {t} ELSE Waits(q) \ {t}
  BY <1>2 DEF Waits
<1>5. ASSUME NEW q
      PROVE  Holders(q)' = IF p = [at |-> "holding", phase |-> q]
                           THEN Holders(q) \cup {t} ELSE Holders(q) \ {t}
  BY <1>2 DEF Holders
<1> QED BY <1>2, <1>3, <1>4, <1>5

LEMMA MovesGlobally ==
  ASSUME Typed, NEW t \in Tasks, NEW p \in Where, place' = [place EXCEPT ![t] = p],
         Configured' = Configured
  PROVE  GlobalHolders' = IF Owns(p) THEN GlobalHolders \cup {t} ELSE GlobalHolders \ {t}
<1>1. place'[t] = p /\ \A s \in Tasks \ {t} : place'[s] = place[s]
  BY Moves
<1>2. \A s \in Tasks \ {t} : Owns(place[s])' <=> Owns(place[s])
  BY <1>1 DEF Owns
<1>3. Owns(place[t])' <=> Owns(p)
  BY <1>1 DEF Owns
<1> QED BY <1>2, <1>3 DEF GlobalHolders

(* Typed across a step of one task.                                        *)
LEMMA MovesTyped ==
  ASSUME Typed, NEW t \in Tasks, NEW p \in Where, place' = [place EXCEPT ![t] = p],
         UNCHANGED <<setup, enabled, current, stopped, twice>>,
         Configured' = Configured, limits' \in [Configured -> Limits(Tasks)],
         p.phase <= current, p.at \in {"global", "phase"} => p.phase \in Configured
  PROVE  Typed'
<1>1. /\ place' \in [Tasks -> Where] /\ place'[t] = p
      /\ \A s \in Tasks \ {t} : place'[s] = place[s]
  BY Moves
<1>2. \A s \in Tasks :
        /\ place'[s].phase <= current
        /\ place'[s].at \in {"global", "phase"} => place'[s].phase \in Configured
  BY <1>1 DEF Typed
<1>3. PhaseLimits' = PhaseLimits
  BY DEF PhaseLimits
<1> QED BY <1>1, <1>2, <1>3 DEF Typed

(* A step that leaves the phases' limits, their tasks and what is missing  *)
(* of the global limit as they are.                                        *)
LEMMA GlobalStep ==
  ASSUME IInv, Typed', limits' = limits, UNCHANGED <<setup, twice>>, GlobalOK',
         GlobalMissing' = GlobalMissing,
         \A q \in Configured : Waits(q)' = Waits(q) /\ Holders(q)' = Holders(q)
  PROVE  IInv'
<1>1. Configured' = Configured
  BY DEF Configured
<1>2. \A q \in Configured : PhaseMissing(q)' = PhaseMissing(q)
  BY DEF PhaseMissing, PhaseUse
<1>3. \A q \in Configured : PhaseOK(q)'
  BY <1>2 DEF IInv, PhaseOK, Ramps
<1>4. Losses' = Losses
  BY <1>1, <1>2 DEF Losses
<1>5. Lost' = Lost
  BY <1>1, <1>4 DEF Lost
<1>6. LossesCovered'
  BY <1>5 DEF IInv, LossesCovered
<1>7. Steady' = Steady
  BY DEF Steady, Cancels, Ramps, PhaseLimits
<1> QED BY <1>1, <1>3, <1>6, <1>7 DEF IInv

(* A step that changes the limit of phase ph, where n slots get lost (or   *)
(* come back, if n < 0), and as many or more in the global limit.          *)
LEMMA PhaseStep ==
  ASSUME IInv, Typed', NEW ph \in Configured, NEW m, limits' = [limits EXCEPT ![ph] = m],
         UNCHANGED setup, GlobalOK',
         Sound(m, Tasks), Prompt(m), Users(m) = Waits(ph)', Ramps = {} => m.debt = 0,
         NEW n \in Int, PhaseMissing(ph)' = PhaseMissing(ph) + n, PhaseMissing(ph)' >= 0,
         GlobalMissing \in Int, GlobalMissing' \in Int, GlobalMissing' >= GlobalMissing + n,
         Steady => GlobalMissing' = GlobalMissing,
         \A q \in Configured \ {ph} :
           Waits(q)' = Waits(q) /\ Holders(q)' = Holders(q) /\ twice'[q] = twice[q]
  PROVE  IInv'
<1>1. limits \in [Configured -> Limits(Tasks)]
  BY DEF IInv, Typed
<1>2. /\ Configured' = Configured /\ limits'[ph] = m
      /\ \A q \in Configured \ {ph} : limits'[q] = limits[q]
  BY <1>1 DEF Configured
<1>3. \A q \in Configured \ {ph} : PhaseMissing(q)' = PhaseMissing(q)
  BY <1>2 DEF PhaseMissing, PhaseUse
<1>4. ASSUME NEW q \in Configured PROVE PhaseOK(q)'
  <2>1. CASE q = ph
    BY <1>2, <2>1 DEF PhaseOK, Ramps
  <2>2. CASE q # ph
    <3>1. PhaseOK(q) /\ limits'[q] = limits[q] /\ PhaseMissing(q)' = PhaseMissing(q)
          /\ Waits(q)' = Waits(q)
      BY <1>2, <1>3, <2>2 DEF IInv
    <3> QED BY <3>1 DEF PhaseOK, Ramps
  <2> QED BY <2>1, <2>2
<1>5. \A q \in Configured : PhaseMissing(q) \in Int /\ PhaseMissing(q) >= 0
  <2> TAKE q \in Configured
  <2>1. PhaseOK(q) /\ PhaseUse(q) \in Int
    BY UseType DEF IInv
  <2> QED BY <2>1, MissingType DEF PhaseOK, PhaseMissing
<1> DEFINE f == Losses
           g == Losses'
<1>6. /\ f \in [Configured -> Int] /\ g \in [Configured -> Int]
      /\ f[ph] = PhaseMissing(ph) /\ g[ph] = PhaseMissing(ph)'
      /\ \A q \in Configured \ {ph} : g[q] = f[q]
  <2>1. \A q \in Configured : PhaseMissing(q)' \in Int
    BY <1>3, <1>5
  <2> QED BY <1>2, <1>3, <1>5, <2>1 DEF Losses
<1>7. Lost = LostOf(Configured, f) /\ Lost' = LostOf(Configured, g)
  BY <1>2 DEF Lost
<1> HIDE DEF f, g
<1>8. IsFiniteSet(LostOf(Configured, f)) /\ f[ph] >= 0 /\ g[ph] >= 0
  BY <1>5, <1>6, <1>7 DEF IInv, LossesCovered
<1>9. IsFiniteSet(Lost') /\ Cardinality(Lost') = Cardinality(Lost) + g[ph] - f[ph]
  BY <1>6, <1>7, <1>8, LostChanges
<1>10. Cardinality(Lost) \in Nat /\ Cardinality(Lost) <= GlobalMissing
  BY <1>7, <1>8, FS_CardinalityType DEF IInv, LossesCovered
<1>11. Cardinality(Lost') <= GlobalMissing'
  BY <1>5, <1>6, <1>9, <1>10
<1>12. LossesCovered'
  BY <1>9, <1>11 DEF LossesCovered
<1>13. Steady' = Steady
  BY DEF Steady, Cancels, Ramps, PhaseLimits
<1> QED BY <1>2, <1>4, <1>12, <1>13 DEF IInv

-----------------------------------------------------------------------------
(* A limit is missing as many slots more whatever number is held of it. *)
LEMMA MissingShift ==
  ASSUME NEW l, NEW m, Sound(l, Tasks), Sound(m, Tasks),
         NEW c \in Int, NEW x \in Int, NEW y \in Int, NEW n \in Int, NEW d, d = c - x + y,
         Missing(m, y) = Missing(l, x) + n
  PROVE  Missing(m, d) = Missing(l, c) + n
<1> DEFINE a == m.limit + m.debt - Slots(m)
           b == l.limit + l.debt - Slots(l)
<1>1. a \in Int /\ b \in Int
  <2>1. m.limit \in Nat /\ m.debt \in Nat /\ Slots(m) \in Nat
    BY PhaseLimiterAssumption, Parts
  <2>2. l.limit \in Nat /\ l.debt \in Nat /\ Slots(l) \in Nat
    BY PhaseLimiterAssumption, Parts
  <2> QED BY <2>1, <2>2
<1>2. \A k : Missing(m, k) = a - k
  BY Zenon DEF Missing
<1>3. \A k : Missing(l, k) = b - k
  BY Zenon DEF Missing
<1> HIDE DEF a, b
<1> QED BY <1>1, <1>2, <1>3

(* The parts of the invariant that the steps need. *)
LEMMA Facts ==
  ASSUME IInv
  PROVE  /\ IsFiniteSet(Tasks) /\ Typed
         /\ Sound(global, Tasks) /\ Prompt(global) /\ Users(global) = Queued
         /\ GlobalHolders \in SUBSET Tasks /\ GlobalMissing \in Int
         /\ \A q : Holders(q) \in SUBSET Tasks
         /\ \A q \in Configured :
              /\ limits[q] \in Limits(Tasks)
              /\ Sound(limits[q], Tasks) /\ Prompt(limits[q]) /\ Users(limits[q]) = Waits(q)
              /\ PhaseMissing(q) \in Int /\ PhaseMissing(q) >= 0
<1>1. IsFiniteSet(Tasks) /\ Typed /\ GlobalOK /\ \A q \in Configured : PhaseOK(q)
  BY PhaseLimiterAssumption DEF IInv
<1>2. GlobalHolders \in SUBSET Tasks /\ \A q : Holders(q) \in SUBSET Tasks
  BY DEF GlobalHolders, Holders
<1>3. GlobalMissing \in Int
  BY <1>1, UseType, MissingType DEF GlobalOK, GlobalMissing
<1>4. ASSUME NEW q \in Configured
      PROVE  /\ limits[q] \in Limits(Tasks)
             /\ Sound(limits[q], Tasks) /\ Prompt(limits[q]) /\ Users(limits[q]) = Waits(q)
             /\ PhaseMissing(q) \in Int /\ PhaseMissing(q) >= 0
  <2>1. PhaseOK(q) /\ limits[q] \in Limits(Tasks)
    BY <1>1 DEF Typed
  <2>2. PhaseMissing(q) \in Int
    BY <1>1, <2>1, UseType, MissingType DEF PhaseOK, PhaseMissing
  <2> QED BY <2>1, <2>2 DEF PhaseOK
<1> QED BY <1>1, <1>2, <1>3, <1>4 DEF GlobalOK

(* How many slots a task in state r holds, of phase ph and globally.       *)
PhaseShare(r, ph) == IF r = [at |-> "holding", phase |-> ph] THEN 1 ELSE 0
GlobalShare(r) == IF Owns(r) THEN 1 ELSE 0

LEMMA Shares ==
  ASSUME Typed, NEW t \in Tasks, NEW p \in Where, place' = [place EXCEPT ![t] = p],
         Configured' = Configured, NEW ph
  PROVE  /\ Cardinality(Holders(ph)')
              = Cardinality(Holders(ph)) - PhaseShare(place[t], ph) + PhaseShare(p, ph)
         /\ Cardinality(GlobalHolders')
              = Cardinality(GlobalHolders) - GlobalShare(place[t]) + GlobalShare(p)
<1> DEFINE H == Holders(ph)
           G == GlobalHolders
<1>1. /\ IsFiniteSet(H) /\ Cardinality(H) \in Nat /\ IsFiniteSet(G) /\ Cardinality(G) \in Nat
  BY Finite DEF Holders, GlobalHolders
<1>2. (t \in H <=> PhaseShare(place[t], ph) = 1) /\ PhaseShare(place[t], ph) \in {0, 1}
  BY DEF Holders, PhaseShare
<1>3. (t \in G <=> GlobalShare(place[t]) = 1) /\ GlobalShare(place[t]) \in {0, 1}
  BY DEF GlobalHolders, GlobalShare
<1>4. Holders(ph)' = IF PhaseShare(p, ph) = 1 THEN H \cup {t} ELSE H \ {t}
  <2>1. Holders(ph)' = IF p = [at |-> "holding", phase |-> ph]
                       THEN Holders(ph) \cup {t} ELSE Holders(ph) \ {t}
    BY Moves
  <2>2. p = [at |-> "holding", phase |-> ph] <=> PhaseShare(p, ph) = 1
    BY DEF PhaseShare
  <2> QED BY <2>1, <2>2
<1>5. GlobalHolders' = IF GlobalShare(p) = 1 THEN G \cup {t} ELSE G \ {t}
  <2>1. GlobalHolders' = IF Owns(p) THEN GlobalHolders \cup {t} ELSE GlobalHolders \ {t}
    BY MovesGlobally
  <2>2. Owns(p) <=> GlobalShare(p) = 1
    BY DEF GlobalShare
  <2> QED BY <2>1, <2>2
<1>6. PhaseShare(p, ph) \in {0, 1} /\ GlobalShare(p) \in {0, 1}
  BY DEF PhaseShare, GlobalShare
<1> HIDE DEF H, G
<1>7. /\ Cardinality(H \cup {t}) = IF t \in H THEN Cardinality(H) ELSE Cardinality(H) + 1
      /\ Cardinality(H \ {t}) = IF t \in H THEN Cardinality(H) - 1 ELSE Cardinality(H)
  BY <1>1, FS_AddElement, FS_RemoveElement
<1>8. /\ Cardinality(G \cup {t}) = IF t \in G THEN Cardinality(G) ELSE Cardinality(G) + 1
      /\ Cardinality(G \ {t}) = IF t \in G THEN Cardinality(G) - 1 ELSE Cardinality(G)
  BY <1>1, FS_AddElement, FS_RemoveElement
<1>9. Cardinality(Holders(ph)')
        = Cardinality(H) - PhaseShare(place[t], ph) + PhaseShare(p, ph)
  BY <1>1, <1>2, <1>4, <1>6, <1>7
<1>10. Cardinality(GlobalHolders')
        = Cardinality(G) - GlobalShare(place[t]) + GlobalShare(p)
  BY <1>1, <1>3, <1>5, <1>6, <1>8
<1> QED BY <1>9, <1>10 DEF H, G

(* A task moves to or from phase ph, whose limit becomes m.                *)
LEMMA TaskMoves ==
  ASSUME IInv, NEW t \in Tasks, NEW p \in Where, place' = [place EXCEPT ![t] = p],
         UNCHANGED <<setup, enabled, current, stopped, twice>>,
         NEW ph \in Configured, NEW m, Sound(m, Tasks), Prompt(m),
         limits' = [limits EXCEPT ![ph] = m],
         p.phase <= current, p.at \in {"global", "phase"} => p.phase = ph,
         place[t].at \in {"idle", "global"} \/ place[t].phase = ph,
         p.at \in {"idle", "global"} \/ p.phase = ph,
         Users(m) = IF p = [at |-> "phase", phase |-> ph]
                    THEN Waits(ph) \cup {t} ELSE Waits(ph) \ {t},
         Ramps = {} => m.debt = 0,
         Sound(global', Tasks), Prompt(global'),
         Users(global') = IF p.at = "global" THEN Queued \cup {t} ELSE Queued \ {t},
         NEW n \in {0, 1}, NEW k \in {0, 1}, n <= k, Steady => k = 0,
         Missing(m, PhaseShare(p, ph)) = Missing(limits[ph], PhaseShare(place[t], ph)) + n,
         Missing(global', GlobalShare(p)) = Missing(global, GlobalShare(place[t])) + k
  PROVE  IInv'
<1>1. /\ Typed /\ GlobalMissing \in Int /\ PhaseMissing(ph) \in Int /\ PhaseMissing(ph) >= 0
      /\ IsFiniteSet(Tasks) /\ Sound(global, Tasks) /\ Sound(limits[ph], Tasks)
  BY Facts
<1>2. limits \in [Configured -> Limits(Tasks)] /\ m \in Limits(Tasks)
  BY <1>1 DEF Typed, Sound
<1>3. Configured' = Configured /\ limits' \in [Configured -> Limits(Tasks)] /\ limits'[ph] = m
  BY <1>2 DEF Configured
<1>4. Typed'
  BY <1>1, <1>3, MovesTyped
<1>5. /\ Queued' = IF p.at = "global" THEN Queued \cup {t} ELSE Queued \ {t}
      /\ Waits(ph)' = IF p = [at |-> "phase", phase |-> ph]
                      THEN Waits(ph) \cup {t} ELSE Waits(ph) \ {t}
  BY <1>1, Moves
<1>6. GlobalOK'
  BY <1>5 DEF GlobalOK
<1>7. \A q \in Configured \ {ph} : Waits(q)' = Waits(q) /\ Holders(q)' = Holders(q)
  <2> TAKE q \in Configured \ {ph}
  <2>1. t \notin Waits(q) /\ t \notin Holders(q)
    BY DEF Waits, Holders
  <2>2. p # [at |-> "phase", phase |-> q] /\ p # [at |-> "holding", phase |-> q]
    OBVIOUS
  <2>3. Waits(q)' = Waits(q) \ {t} /\ Holders(q)' = Holders(q) \ {t}
    BY <1>1, <2>2, Moves
  <2> QED BY <2>1, <2>3
<1>8. /\ Cardinality(Holders(ph)')
           = Cardinality(Holders(ph)) - PhaseShare(place[t], ph) + PhaseShare(p, ph)
      /\ Cardinality(GlobalHolders')
           = Cardinality(GlobalHolders) - GlobalShare(place[t]) + GlobalShare(p)
  BY <1>1, <1>3, Shares
<1>9. /\ PhaseUse(ph) \in Int /\ PhaseUse(ph)' = PhaseUse(ph) - PhaseShare(place[t], ph) + PhaseShare(p, ph)
      /\ GlobalUse \in Int /\ GlobalUse' = GlobalUse - GlobalShare(place[t]) + GlobalShare(p)
      /\ PhaseShare(place[t], ph) \in Nat /\ PhaseShare(p, ph) \in Nat
      /\ GlobalShare(place[t]) \in Nat /\ GlobalShare(p) \in Nat
  <2>1. /\ PhaseShare(place[t], ph) \in Nat /\ PhaseShare(p, ph) \in Nat
        /\ GlobalShare(place[t]) \in Nat /\ GlobalShare(p) \in Nat
    BY DEF PhaseShare, GlobalShare
  <2>2. /\ Cardinality(Holders(ph)) \in Nat /\ Cardinality(GlobalHolders) \in Nat
        /\ twice[ph] \in Nat /\ twice[0] \in Nat
    BY <1>1, Finite, UseType, PhaseLimiterAssumption DEF Holders, GlobalHolders, Typed
  <2> QED BY <1>1, <1>8, <2>1, <2>2, UseType DEF PhaseUse, GlobalUse
<1>10. PhaseMissing(ph)' = PhaseMissing(ph) + n
  <2> DEFINE c == PhaseUse(ph)
             d == PhaseUse(ph)'
             x == PhaseShare(place[t], ph)
             y == PhaseShare(p, ph)
             l == limits[ph]
  <2>1. PhaseMissing(ph)' = Missing(m, d) /\ PhaseMissing(ph) = Missing(l, c)
    BY <1>3 DEF PhaseMissing
  <2>2. /\ c \in Int /\ x \in Nat /\ y \in Nat /\ d = c - x + y
        /\ Missing(m, y) = Missing(l, x) + n /\ Sound(l, Tasks)
    BY <1>1, <1>9
  <2> HIDE DEF c, d, x, y, l
  <2> QED BY <2>1, <2>2, MissingShift
<1>11. GlobalMissing' = GlobalMissing + k
  <2> DEFINE c == GlobalUse
             d == GlobalUse'
             x == GlobalShare(place[t])
             y == GlobalShare(p)
             h == global'
  <2>1. GlobalMissing' = Missing(h, d) /\ GlobalMissing = Missing(global, c)
    BY DEF GlobalMissing
  <2>2. /\ c \in Int /\ x \in Nat /\ y \in Nat /\ d = c - x + y
        /\ Missing(h, y) = Missing(global, x) + k /\ Sound(h, Tasks)
    BY <1>9
  <2> HIDE DEF c, d, x, y, h
  <2> QED BY <1>1, <2>1, <2>2, MissingShift
<1>12. /\ GlobalMissing' \in Int /\ GlobalMissing' >= GlobalMissing + n
       /\ Steady => GlobalMissing' = GlobalMissing
  BY <1>1, <1>11
<1>13. n \in Int /\ PhaseMissing(ph)' >= 0
  BY <1>1, <1>10
<1>14. Users(m) = Waits(ph)'
  BY <1>5
<1> QED BY <1>1, <1>4, <1>6, <1>7, <1>10, <1>12, <1>13, <1>14, PhaseStep

(* A task moves that has no slot of a phase's limit, before or after.      *)
LEMMA TaskMovesOutside ==
  ASSUME IInv, NEW t \in Tasks, NEW p \in Where, place' = [place EXCEPT ![t] = p],
         UNCHANGED <<setup, enabled, current, stopped, twice>>, limits' = limits,
         p.phase <= current, p.at \in {"global", "phase"} => p.phase \in Configured,
         place[t].at \in {"idle", "global"} \/ place[t].phase \notin Configured,
         p.at \in {"idle", "global"} \/ p.phase \notin Configured,
         Sound(global', Tasks), Prompt(global'),
         Users(global') = IF p.at = "global" THEN Queued \cup {t} ELSE Queued \ {t},
         Missing(global', 0) = Missing(global, 0)
  PROVE  IInv'
<1>1. Typed /\ GlobalMissing \in Int /\ Sound(global, Tasks)
  BY Facts
<1>2. Configured' = Configured /\ limits' \in [Configured -> Limits(Tasks)]
  BY <1>1 DEF Configured, Typed
<1>3. Typed'
  BY <1>1, <1>2, MovesTyped
<1>4. Queued' = IF p.at = "global" THEN Queued \cup {t} ELSE Queued \ {t}
  BY <1>1, Moves
<1>5. GlobalOK'
  BY <1>4 DEF GlobalOK
<1>6. \A q \in Configured : Waits(q)' = Waits(q) /\ Holders(q)' = Holders(q)
  <2> TAKE q \in Configured
  <2>1. t \notin Waits(q) /\ t \notin Holders(q)
    BY DEF Waits, Holders
  <2>2. p # [at |-> "phase", phase |-> q] /\ p # [at |-> "holding", phase |-> q]
    OBVIOUS
  <2>3. Waits(q)' = Waits(q) \ {t} /\ Holders(q)' = Holders(q) \ {t}
    BY <1>1, <2>2, Moves
  <2> QED BY <2>1, <2>3
<1>7. GlobalHolders' = GlobalHolders
  <2>1. ~Owns(p) /\ ~Owns(place[t])
    BY DEF Owns
  <2>2. t \notin GlobalHolders
    BY <2>1 DEF GlobalHolders
  <2>3. GlobalHolders' = GlobalHolders \ {t}
    BY <1>1, <1>2, <2>1, MovesGlobally
  <2> QED BY <2>2, <2>3
<1>8. GlobalMissing' = GlobalMissing
  <2> DEFINE c == GlobalUse
             h == global'
  <2>1. GlobalMissing' = Missing(h, c) /\ GlobalMissing = Missing(global, c)
    BY <1>7 DEF GlobalMissing, GlobalUse
  <2>2. c \in Int /\ Sound(h, Tasks) /\ Missing(h, 0) = Missing(global, 0) + 0
    <3>1. Missing(global, 0) \in Int
      BY <1>1, PhaseLimiterAssumption, Parts DEF Missing
    <3> QED BY <1>1, <3>1, UseType
  <2> HIDE DEF c, h
  <2>3. Missing(h, c) = Missing(global, c) + 0
    BY <1>1, <2>2, MissingShift
  <2> QED BY <1>1, <2>1, <2>3
<1> QED BY <1>3, <1>5, <1>6, <1>8, GlobalStep

-----------------------------------------------------------------------------
(* Nothing gets lost when y slots were held, e of them are given back and  *)
(* x are held in the end.                                                  *)
LEMMA SameMissing ==
  ASSUME NEW l, NEW m, Sound(l, Tasks), Sound(m, Tasks), m.limit = l.limit,
         NEW e \in Int, Slots(m) - m.debt = Slots(l) - l.debt + e,
         NEW x \in Int, NEW y \in Int, y - x = e
  PROVE  Missing(m, x) = Missing(l, y)
<1>1. m.limit \in Nat /\ m.debt \in Nat /\ Slots(m) \in Nat
  BY PhaseLimiterAssumption, Parts
<1>2. l.limit \in Nat /\ l.debt \in Nat /\ Slots(l) \in Nat
  BY PhaseLimiterAssumption, Parts
<1> QED BY <1>1, <1>2 DEF Missing

LEMMA IdleWhere == Idle \in Where /\ Idle.at = "idle" /\ Idle.phase = 0
BY PhaseLimiterAssumption DEF Idle, Where

(* The states of a task of phase ph that are not idle. *)
LEMMA InPhase ==
  ASSUME Typed, NEW ph \in Configured,
         NEW a \in {"global", "phase", "holding"}, NEW p, p = [at |-> a, phase |-> ph]
  PROVE  /\ p \in Where /\ p.at = a /\ p.phase = ph /\ ph <= current /\ ph # 0
         /\ PhaseShare(p, ph) = IF a = "holding" THEN 1 ELSE 0
         /\ GlobalShare(p) = IF a = "global" THEN 0 ELSE 1
<1>1. ph \in 1 .. current /\ current \in 0 .. NumPhases /\ NumPhases \in Nat
  BY PhaseLimiterAssumption DEF Typed
<1> QED BY <1>1 DEF Where, PhaseShare, GlobalShare, Owns

(* Where a task is says what it holds. *)
LEMMA ShareOf ==
  ASSUME Typed, NEW t \in Tasks, NEW ph \in Configured
  PROVE  /\ place[t] \in Where
         /\ place[t].at \in {"idle", "global"} =>
              /\ PhaseShare(place[t], ph) = 0 /\ GlobalShare(place[t]) = 0
              /\ t \notin Waits(ph)
         /\ place[t].at = "phase" => PhaseShare(place[t], ph) = 0 /\ GlobalShare(place[t]) = 1
         /\ place[t].at = "holding" /\ place[t].phase = ph =>
              /\ PhaseShare(place[t], ph) = 1 /\ GlobalShare(place[t]) = 1
              /\ t \notin Waits(ph)
<1>1. /\ place[t] \in Where
      /\ place[t].at \in {"global", "phase"} => place[t].phase \in Configured
  BY DEF Typed
<1>2. place[t] = [at |-> place[t].at, phase |-> place[t].phase]
  BY <1>1 DEF Where
<1> QED BY <1>1, <1>2 DEF PhaseShare, GlobalShare, Owns, Waits

(* TaskMoves for the steps that lose nothing. *)
LEMMA TaskKeeps ==
  ASSUME IInv, NEW t \in Tasks, NEW p \in Where, place' = [place EXCEPT ![t] = p],
         UNCHANGED <<setup, enabled, current, stopped, twice>>,
         NEW ph \in Configured, NEW m, Sound(m, Tasks), Prompt(m),
         limits' = [limits EXCEPT ![ph] = m],
         p.phase <= current, p.at \in {"global", "phase"} => p.phase = ph,
         place[t].at \in {"idle", "global"} \/ place[t].phase = ph,
         p.at \in {"idle", "global"} \/ p.phase = ph,
         Users(m) = IF p = [at |-> "phase", phase |-> ph]
                    THEN Waits(ph) \cup {t} ELSE Waits(ph) \ {t},
         Ramps = {} => m.debt = 0,
         Sound(global', Tasks), Prompt(global'),
         Users(global') = IF p.at = "global" THEN Queued \cup {t} ELSE Queued \ {t},
         Missing(m, PhaseShare(p, ph)) = Missing(limits[ph], PhaseShare(place[t], ph)),
         Missing(global', GlobalShare(p)) = Missing(global, GlobalShare(place[t]))
  PROVE  IInv'
<1> DEFINE n == 0
<1>1. n \in {0, 1} /\ n <= n /\ (Steady => n = 0)
  OBVIOUS
<1>2. /\ Missing(limits[ph], PhaseShare(place[t], ph)) \in Int
      /\ Missing(global, GlobalShare(place[t])) \in Int
  <2>1. /\ limits[ph].limit \in Nat /\ limits[ph].debt \in Nat /\ Slots(limits[ph]) \in Nat
        /\ global.limit \in Nat /\ global.debt \in Nat /\ Slots(global) \in Nat
    BY Facts, Parts
  <2>2. PhaseShare(place[t], ph) \in Nat /\ GlobalShare(place[t]) \in Nat
    BY DEF PhaseShare, GlobalShare
  <2> QED BY <2>1, <2>2 DEF Missing
<1>3. /\ Missing(m, PhaseShare(p, ph)) = Missing(limits[ph], PhaseShare(place[t], ph)) + n
      /\ Missing(global', GlobalShare(p)) = Missing(global, GlobalShare(place[t])) + n
  BY <1>2
<1> HIDE DEF n
<1> QED BY <1>1, <1>3, TaskMoves

(* acquire() from the point where t owns a slot of the global limit.       *)
LEMMA HaveGlobalSlotKeeps ==
  ASSUME IInv, UNCHANGED <<setup, enabled, current, stopped, twice>>,
         NEW t \in Tasks, place[t].at \in {"idle", "global"}, NEW ph \in Configured,
         NEW g, Sound(g, Tasks), Prompt(g), Users(g) = Queued \ {t},
         Slots(g) = Slots(global) - 1, g.debt = global.debt, g.limit = global.limit,
         HaveGlobalSlot(t, ph, g)
  PROVE  IInv'
<1>1. /\ Typed /\ IsFiniteSet(Tasks) /\ Sound(global, Tasks)
      /\ Sound(limits[ph], Tasks) /\ Prompt(limits[ph]) /\ Users(limits[ph]) = Waits(ph)
  BY Facts
<1>2. /\ PhaseShare(place[t], ph) = 0 /\ GlobalShare(place[t]) = 0 /\ t \notin Waits(ph)
  BY <1>1, ShareOf
<1>3. Slots(g) - g.debt = Slots(global) - global.debt + (-1)
  <2>1. Slots(global) \in Nat /\ global.debt \in Nat
    BY <1>1, Parts
  <2> QED BY <2>1
<1>4. Ramps = {} => limits[ph].debt = 0
  BY DEF IInv, PhaseOK
<1>5. CASE BackOut(t, g)
  <2> DEFINE h == ReleaseSlot(g)
  <2>1. /\ Sound(h, Tasks) /\ Prompt(h) /\ Users(h) = Users(g) /\ h.limit = g.limit
        /\ Slots(h) - h.debt = Slots(g) - g.debt + 1
    BY <1>1, ReleaseSlotSound
  <2>2. global' = h /\ place' = [place EXCEPT ![t] = Idle] /\ limits' = limits
    BY <1>5 DEF BackOut
  <2> HIDE DEF h
  <2>3. Slots(h) - h.debt = Slots(global) - global.debt + 0
    <3>1. Slots(global) \in Nat /\ global.debt \in Nat
      BY <1>1, Parts
    <3> QED BY <1>3, <2>1, <3>1
  <2>4. Missing(h, 0) = Missing(global, 0)
    BY <1>1, <2>1, <2>3, SameMissing
  <2>5. current >= 0
    BY <1>1, PhaseLimiterAssumption DEF Typed
  <2> QED BY <2>1, <2>2, <2>4, <2>5, IdleWhere, TaskMovesOutside
<1>6. Missing(g, 1) = Missing(global, 0)
  BY <1>1, <1>3, SameMissing
<1>7. CASE Locked(limits[ph]) /\ global' = g /\ Put(t, "phase", ph)
           /\ limits' = [limits EXCEPT ![ph] = Enqueue(limits[ph], t)]
  <2> DEFINE l == limits[ph]
             m == Enqueue(l, t)
             p == [at |-> "phase", phase |-> ph]
  <2>1. /\ Sound(m, Tasks) /\ Prompt(m) /\ Slots(m) = Slots(l) /\ Users(m) = Users(l) \cup {t}
        /\ m.debt = l.debt /\ m.limit = l.limit
    BY <1>1, <1>2, <1>7, EnqueueSound
  <2>2. global' = g /\ place' = [place EXCEPT ![t] = p] /\ limits' = [limits EXCEPT ![ph] = m]
    BY <1>7 DEF Put
  <2>3. /\ p \in Where /\ p.at = "phase" /\ p.phase = ph /\ ph <= current
        /\ PhaseShare(p, ph) = 0 /\ GlobalShare(p) = 1 /\ p = [at |-> "phase", phase |-> ph]
    BY <1>1, InPhase
  <2>4. Missing(m, 0) = Missing(l, 0)
    <3>1. Slots(l) \in Nat /\ l.debt \in Nat
      BY <1>1, Parts
    <3>2. Slots(m) - m.debt = Slots(l) - l.debt + 0
      BY <2>1, <3>1
    <3> HIDE DEF m, l
    <3> QED BY <1>1, <2>1, <3>2, SameMissing DEF l
  <2> HIDE DEF m, p
  <2>5. /\ Users(m) = IF p = [at |-> "phase", phase |-> ph]
                      THEN Waits(ph) \cup {t} ELSE Waits(ph) \ {t}
        /\ Users(global') = IF p.at = "global" THEN Queued \cup {t} ELSE Queued \ {t}
    BY <1>1, <1>2, <2>1, <2>2, <2>3
  <2>6. Missing(m, PhaseShare(p, ph)) = Missing(l, PhaseShare(place[t], ph))
    BY <1>2, <2>3, <2>4
  <2>7. Missing(global', GlobalShare(p)) = Missing(global, GlobalShare(place[t]))
    BY <1>2, <1>6, <2>2, <2>3
  <2>8. Sound(global', Tasks) /\ Prompt(global') /\ (Ramps = {} => m.debt = 0)
    BY <1>4, <2>1, <2>2
  <2> QED BY <2>1, <2>2, <2>3, <2>5, <2>6, <2>7, <2>8, TaskKeeps
<1>8. CASE ~Locked(limits[ph]) /\ global' = g /\ Put(t, "holding", ph)
           /\ limits' = [limits EXCEPT ![ph] = TakeSlot(limits[ph])]
  <2> DEFINE l == limits[ph]
             m == TakeSlot(l)
             p == [at |-> "holding", phase |-> ph]
  <2>1. /\ Sound(m, Tasks) /\ Prompt(m) /\ Slots(m) = Slots(l) - 1 /\ Users(m) = Users(l)
        /\ m.debt = l.debt /\ m.limit = l.limit
    BY <1>1, <1>8, TakeSlotSound
  <2>2. global' = g /\ place' = [place EXCEPT ![t] = p] /\ limits' = [limits EXCEPT ![ph] = m]
    BY <1>8 DEF Put
  <2>3. /\ p \in Where /\ p.at = "holding" /\ p.phase = ph /\ ph <= current
        /\ PhaseShare(p, ph) = 1 /\ GlobalShare(p) = 1 /\ p # [at |-> "phase", phase |-> ph]
    BY <1>1, InPhase
  <2>4. Missing(m, 1) = Missing(l, 0)
    <3>1. Slots(l) \in Nat /\ l.debt \in Nat
      BY <1>1, Parts
    <3>2. Slots(m) - m.debt = Slots(l) - l.debt + (-1)
      BY <2>1, <3>1
    <3> HIDE DEF m, l
    <3> QED BY <1>1, <2>1, <3>2, SameMissing DEF l
  <2> HIDE DEF m, p
  <2>5. /\ Users(m) = IF p = [at |-> "phase", phase |-> ph]
                      THEN Waits(ph) \cup {t} ELSE Waits(ph) \ {t}
        /\ Users(global') = IF p.at = "global" THEN Queued \cup {t} ELSE Queued \ {t}
    BY <1>1, <1>2, <2>1, <2>2, <2>3
  <2>6. Missing(m, PhaseShare(p, ph)) = Missing(l, PhaseShare(place[t], ph))
    BY <1>2, <2>3, <2>4
  <2>7. Missing(global', GlobalShare(p)) = Missing(global, GlobalShare(place[t]))
    BY <1>2, <1>6, <2>2, <2>3
  <2>8. Sound(global', Tasks) /\ Prompt(global') /\ (Ramps = {} => m.debt = 0)
    BY <1>4, <2>1, <2>2
  <2> QED BY <2>1, <2>2, <2>3, <2>5, <2>6, <2>7, <2>8, TaskKeeps
<1> QED BY <1>5, <1>7, <1>8 DEF HaveGlobalSlot

-----------------------------------------------------------------------------
(* The steps of one task. *)
LEMMA AcquireKeeps ==
  ASSUME IInv, NEW t \in Tasks, Acquire(t), UNCHANGED <<setup, twice>>
  PROVE  IInv'
<1>1. /\ Typed /\ IsFiniteSet(Tasks) /\ Sound(global, Tasks) /\ Prompt(global)
      /\ Users(global) = Queued
  BY Facts
<1>2. /\ current > 0 /\ place[t] = Idle /\ UNCHANGED <<setup, enabled, current, stopped, twice>>
      /\ place[t].at = "idle" /\ t \notin Queued /\ current \in 0 .. NumPhases
  BY <1>1, IdleWhere DEF Acquire, Queued, Typed
<1>3. enabled <=> current \in Configured
  BY <1>1 DEF Typed
<1>4. CASE /\ ~enabled /\ Put(t, "holding", current) /\ UNCHANGED <<global, limits>>
  <2> DEFINE p == [at |-> "holding", phase |-> current]
  <2>1. p \in Where /\ p.at = "holding" /\ p.phase = current /\ current <= current
    BY <1>2, PhaseLimiterAssumption DEF Where
  <2>2. place' = [place EXCEPT ![t] = p] /\ global' = global /\ limits' = limits
    BY <1>4 DEF Put
  <2> HIDE DEF p
  <2>3. /\ Sound(global', Tasks) /\ Prompt(global') /\ Missing(global', 0) = Missing(global, 0)
        /\ Users(global') = IF p.at = "global" THEN Queued \cup {t} ELSE Queued \ {t}
    BY <1>1, <1>2, <2>1, <2>2
  <2> QED BY <1>2, <1>3, <1>4, <2>1, <2>2, <2>3, TaskMovesOutside
<1>5. CASE enabled /\ ~Locked(global) /\ HaveGlobalSlot(t, current, TakeSlot(global))
  <2> DEFINE g == TakeSlot(global)
  <2>1. /\ Sound(g, Tasks) /\ Prompt(g) /\ Slots(g) = Slots(global) - 1
        /\ Users(g) = Users(global) /\ g.debt = global.debt /\ g.limit = global.limit
    BY <1>1, <1>5, TakeSlotSound
  <2>2. Users(g) = Queued \ {t} /\ HaveGlobalSlot(t, current, g)
    BY <1>1, <1>2, <1>5, <2>1
  <2> HIDE DEF g
  <2> QED BY <1>2, <1>3, <1>5, <2>1, <2>2, HaveGlobalSlotKeeps
<1>6. CASE /\ enabled /\ Locked(global) /\ global' = Enqueue(global, t)
           /\ Put(t, "global", current) /\ UNCHANGED limits
  <2> DEFINE p == [at |-> "global", phase |-> current]
             g == Enqueue(global, t)
  <2>1. p \in Where /\ p.at = "global" /\ p.phase = current /\ current <= current
    BY <1>2, PhaseLimiterAssumption DEF Where
  <2>2. place' = [place EXCEPT ![t] = p] /\ global' = g /\ limits' = limits
    BY <1>6 DEF Put
  <2>3. /\ Sound(g, Tasks) /\ Prompt(g) /\ Slots(g) = Slots(global)
        /\ Users(g) = Users(global) \cup {t} /\ g.debt = global.debt /\ g.limit = global.limit
    BY <1>1, <1>2, <1>6, EnqueueSound
  <2> HIDE DEF p, g
  <2>4. Missing(g, 0) = Missing(global, 0)
    BY <2>3 DEF Missing
  <2>5. /\ Sound(global', Tasks) /\ Prompt(global') /\ Missing(global', 0) = Missing(global, 0)
        /\ Users(global') = IF p.at = "global" THEN Queued \cup {t} ELSE Queued \ {t}
    BY <1>1, <1>2, <2>1, <2>2, <2>3, <2>4
  <2> QED BY <1>2, <1>3, <1>6, <2>1, <2>2, <2>5, TaskMovesOutside
<1> QED BY <1>4, <1>5, <1>6 DEF Acquire

LEMMA TryAcquireKeeps ==
  ASSUME IInv, NEW t \in Tasks, TryAcquire(t), UNCHANGED <<setup, twice>>
  PROVE  IInv'
<1>1. /\ Typed /\ IsFiniteSet(Tasks) /\ Sound(global, Tasks) /\ Prompt(global)
      /\ Users(global) = Queued
  BY Facts
<1>2. /\ enabled /\ current \notin stopped /\ place[t] = Idle /\ ~Locked(global)
      /\ UNCHANGED <<setup, enabled, current, stopped, twice>>
      /\ place[t].at = "idle" /\ t \notin Queued /\ current \in Configured
  BY <1>1, IdleWhere DEF TryAcquire, Queued, Typed
<1> DEFINE g == TakeSlot(global)
<1>3. /\ Sound(g, Tasks) /\ Prompt(g) /\ Slots(g) = Slots(global) - 1
      /\ Users(g) = Users(global) /\ g.debt = global.debt /\ g.limit = global.limit
  BY <1>1, <1>2, TakeSlotSound
<1>4. Users(g) = Queued \ {t}
  BY <1>1, <1>2, <1>3
<1>5. HaveGlobalSlot(t, current, g) => IInv'
  <2> HIDE DEF g
  <2> QED BY <1>2, <1>3, <1>4, HaveGlobalSlotKeeps
<1>6. CASE global' = ReleaseSlot(g) /\ UNCHANGED <<limits, place>>
  <2> DEFINE h == ReleaseSlot(g)
  <2>1. place' = [place EXCEPT ![t] = Idle] /\ global' = h /\ limits' = limits
    BY <1>1, <1>2, <1>6 DEF Typed
  <2> HIDE DEF g
  <2>2. /\ Sound(h, Tasks) /\ Prompt(h) /\ Users(h) = Users(g) /\ h.limit = g.limit
        /\ Slots(h) - h.debt = Slots(g) - g.debt + 1
    BY <1>1, <1>3, ReleaseSlotSound
  <2> HIDE DEF h
  <2>3. Slots(h) - h.debt = Slots(global) - global.debt + 0
    <3>1. Slots(global) \in Nat /\ global.debt \in Nat
      BY <1>1, Parts
    <3> QED BY <1>3, <2>2, <3>1
  <2>4. Missing(h, 0) = Missing(global, 0)
    BY <1>1, <1>3, <2>2, <2>3, SameMissing
  <2>5. 0 <= current
    BY <1>1, PhaseLimiterAssumption DEF Typed
  <2> QED BY <1>2, <1>4, <2>1, <2>2, <2>4, <2>5, IdleWhere, TaskMovesOutside
<1>7. CASE /\ ~Locked(limits[current]) /\ global' = g /\ Put(t, "holding", current)
           /\ limits' = [limits EXCEPT ![current] = TakeSlot(limits[current])]
  BY <1>2, <1>5, <1>7 DEF HaveGlobalSlot
<1> QED BY <1>6, <1>7 DEF TryAcquire

LEMMA WakeFromGlobalKeeps ==
  ASSUME IInv, NEW t \in Tasks, WakeFromGlobal(t), UNCHANGED <<setup, twice>>
  PROVE  IInv'
<1>1. /\ Typed /\ IsFiniteSet(Tasks) /\ Sound(global, Tasks) /\ Users(global) = Queued
  BY Facts
<1>2. t \in global.woken /\ UNCHANGED <<setup, enabled, current, stopped, twice>>
  BY DEF WakeFromGlobal
<1>3. t \in Queued
  BY <1>1, <1>2 DEF Users
<1>4. place[t].at = "global" /\ place[t].phase \in Configured
  BY <1>1, <1>3 DEF Queued, Typed
<1> DEFINE g == Resume(global, t)
           ph == place[t].phase
<1>5. /\ Sound(g, Tasks) /\ Prompt(g) /\ Slots(g) = Slots(global) - 1
      /\ Users(g) = Users(global) \ {t} /\ g.debt = global.debt /\ g.limit = global.limit
  BY <1>1, <1>2, ResumeSound
<1>6. HaveGlobalSlot(t, ph, g) /\ ph \in Configured /\ Users(g) = Queued \ {t}
  BY <1>1, <1>4, <1>5 DEF WakeFromGlobal
<1> HIDE DEF g, ph
<1> QED BY <1>2, <1>4, <1>5, <1>6, HaveGlobalSlotKeeps

LEMMA WakeFromPhaseKeeps ==
  ASSUME IInv, NEW t \in Tasks, WakeFromPhase(t), UNCHANGED <<setup, twice>>
  PROVE  IInv'
<1> DEFINE ph == place[t].phase
           old == limits[ph]
           l == Resume(old, t)
<1>1. /\ place[t].at = "phase" /\ t \in old.woken
      /\ UNCHANGED <<setup, enabled, current, stopped, twice>>
  BY DEF WakeFromPhase
<1>2. /\ Typed /\ IsFiniteSet(Tasks) /\ Sound(global, Tasks) /\ Prompt(global)
      /\ Users(global) = Queued
  BY Facts
<1>3. ph \in Configured
  BY <1>1, <1>2 DEF Typed
<1>4. /\ Sound(old, Tasks) /\ Prompt(old) /\ Users(old) = Waits(ph)
      /\ Ramps = {} => old.debt = 0
  BY <1>3, Facts DEF IInv, PhaseOK
<1>5. /\ Sound(l, Tasks) /\ Prompt(l) /\ Slots(l) = Slots(old) - 1
      /\ Users(l) = Users(old) \ {t} /\ l.debt = old.debt /\ l.limit = old.limit
  BY <1>1, <1>2, <1>4, ResumeSound
<1>6. Slots(old) \in Nat /\ old.debt \in Nat /\ Slots(global) \in Nat /\ global.debt \in Nat
  BY <1>2, <1>4, Parts
<1>7. t \notin Queued /\ PhaseShare(place[t], ph) = 0 /\ GlobalShare(place[t]) = 1
  BY <1>1, <1>2, <1>3, ShareOf DEF Queued
<1>8. CASE /\ limits' = [limits EXCEPT ![ph] = ReleaseSlot(l)]
           /\ global' = ReleaseSlot(global) /\ place' = [place EXCEPT ![t] = Idle]
  <2> DEFINE m == ReleaseSlot(l)
             h == ReleaseSlot(global)
             p == Idle
  <2> HIDE DEF l
  <2>1. /\ Sound(m, Tasks) /\ Prompt(m) /\ Users(m) = Users(l) /\ m.limit = l.limit
        /\ Slots(m) - m.debt = Slots(l) - l.debt + 1 /\ (l.debt = 0 => m.debt = 0)
    BY <1>2, <1>5, ReleaseSlotSound, NoNewDebt
  <2>2. /\ Sound(h, Tasks) /\ Prompt(h) /\ Users(h) = Users(global) /\ h.limit = global.limit
        /\ Slots(h) - h.debt = Slots(global) - global.debt + 1
    BY <1>2, ReleaseSlotSound
  <2>3. limits' = [limits EXCEPT ![ph] = m] /\ global' = h /\ place' = [place EXCEPT ![t] = p]
    BY <1>8
  <2> HIDE DEF m, h
  <2>4. Slots(m) - m.debt = Slots(old) - old.debt + 0
    BY <1>5, <1>6, <2>1
  <2>5. p \in Where /\ p.at = "idle" /\ p.phase <= current /\ p # [at |-> "phase", phase |-> ph]
        /\ PhaseShare(p, ph) = 0 /\ GlobalShare(p) = 0
    <3>1. current \in Nat
      BY <1>2, PhaseLimiterAssumption DEF Typed
    <3> QED BY <3>1, IdleWhere DEF PhaseShare, GlobalShare, Owns
  <2> HIDE DEF p, old, ph
  <2>6. Missing(m, 0) = Missing(old, 0)
    BY <1>4, <1>5, <2>1, <2>4, SameMissing
  <2>7. Missing(h, 0) = Missing(global, 1)
    BY <1>2, <2>2, SameMissing
  <2>8. /\ Users(m) = IF p = [at |-> "phase", phase |-> ph]
                      THEN Waits(ph) \cup {t} ELSE Waits(ph) \ {t}
        /\ Users(global') = IF p.at = "global" THEN Queued \cup {t} ELSE Queued \ {t}
    BY <1>2, <1>4, <1>5, <1>7, <2>1, <2>2, <2>3, <2>5
  <2>9. Missing(m, PhaseShare(p, ph)) = Missing(limits[ph], PhaseShare(place[t], ph))
    BY <1>7, <2>5, <2>6 DEF old
  <2>10. Missing(global', GlobalShare(p)) = Missing(global, GlobalShare(place[t]))
    BY <1>7, <2>3, <2>5, <2>7
  <2>11. Sound(global', Tasks) /\ Prompt(global') /\ (Ramps = {} => m.debt = 0)
    BY <1>4, <1>5, <2>1, <2>2, <2>3
  <2>12. place[t].phase = ph
    BY DEF ph
  <2> QED BY <1>1, <1>3, <2>1, <2>3, <2>5, <2>8, <2>9, <2>10, <2>11, <2>12, TaskKeeps
<1>9. CASE limits' = [limits EXCEPT ![ph] = l] /\ Put(t, "holding", ph) /\ UNCHANGED global
  <2> DEFINE p == [at |-> "holding", phase |-> ph]
  <2>1. place' = [place EXCEPT ![t] = p]
    BY <1>9 DEF Put
  <2>2. /\ p \in Where /\ p.at = "holding" /\ p.phase = ph /\ ph <= current
        /\ PhaseShare(p, ph) = 1 /\ GlobalShare(p) = 1 /\ p # [at |-> "phase", phase |-> ph]
    BY <1>2, <1>3, InPhase
  <2> HIDE DEF p, l
  <2>3. Slots(l) - l.debt = Slots(old) - old.debt + (-1)
    BY <1>5, <1>6
  <2>4. Missing(l, 1) = Missing(old, 0)
    <3> HIDE DEF old
    <3> QED BY <1>4, <1>5, <2>3, SameMissing
  <2>5. /\ Users(l) = IF p = [at |-> "phase", phase |-> ph]
                      THEN Waits(ph) \cup {t} ELSE Waits(ph) \ {t}
        /\ Users(global') = IF p.at = "global" THEN Queued \cup {t} ELSE Queued \ {t}
    BY <1>2, <1>4, <1>5, <1>7, <1>9, <2>2
  <2>6. Missing(l, PhaseShare(p, ph)) = Missing(limits[ph], PhaseShare(place[t], ph))
    BY <1>7, <2>2, <2>4
  <2>7. Missing(global', GlobalShare(p)) = Missing(global, GlobalShare(place[t]))
    BY <1>7, <1>9, <2>2
  <2>8. Sound(global', Tasks) /\ Prompt(global') /\ (Ramps = {} => l.debt = 0)
    BY <1>2, <1>4, <1>5, <1>9
  <2>9. place[t].phase = ph /\ limits' = [limits EXCEPT ![ph] = l]
    BY <1>9
  <2> HIDE DEF ph, old
  <2> QED BY <1>1, <1>3, <1>5, <2>1, <2>2, <2>5, <2>6, <2>7, <2>8, <2>9, TaskKeeps
<1> QED BY <1>8, <1>9 DEF WakeFromPhase

(* A cancelled task may lose its global slot, but never for a phase's.     *)
LEMMA CancelAcquireKeeps ==
  ASSUME IInv, NEW t \in Tasks, CancelAcquire(t), UNCHANGED <<setup, twice>>
  PROVE  IInv'
<1>1. /\ ~Steady /\ place' = [place EXCEPT ![t] = Idle]
      /\ UNCHANGED <<setup, enabled, current, stopped, twice>>
  BY DEF CancelAcquire, Steady
<1>2. /\ Typed /\ IsFiniteSet(Tasks) /\ Sound(global, Tasks) /\ Prompt(global)
      /\ Users(global) = Queued
  BY Facts
<1> DEFINE p == Idle
<1>3. p \in Where /\ p.at = "idle" /\ p.phase <= current
      /\ \A q \in Configured : /\ p # [at |-> "phase", phase |-> q]
                               /\ PhaseShare(p, q) = 0 /\ GlobalShare(p) = 0
  <2>1. current \in Nat
    BY <1>2, PhaseLimiterAssumption DEF Typed
  <2> QED BY <2>1, IdleWhere DEF PhaseShare, GlobalShare, Owns
<1>4. place' = [place EXCEPT ![t] = p]
  BY <1>1
<1> HIDE DEF p
<1>5. CASE place[t].at = "global" /\ global' = AbortWait(global, t) /\ UNCHANGED limits
  <2> DEFINE h == AbortWait(global, t)
  <2>1. t \in Queued
    BY <1>5 DEF Queued
  <2>2. /\ Sound(h, Tasks) /\ Prompt(h) /\ Slots(h) = Slots(global)
        /\ Users(h) = Users(global) \ {t} /\ h.debt = global.debt /\ h.limit = global.limit
    BY <1>2, <2>1, AbortWaitSound
  <2>3. global' = h
    BY <1>5
  <2> HIDE DEF h
  <2>4. Missing(h, 0) = Missing(global, 0)
    BY <2>2 DEF Missing
  <2>5. /\ Sound(global', Tasks) /\ Prompt(global') /\ Missing(global', 0) = Missing(global, 0)
        /\ Users(global') = IF p.at = "global" THEN Queued \cup {t} ELSE Queued \ {t}
    BY <1>2, <1>3, <2>2, <2>3, <2>4
  <2> QED BY <1>1, <1>3, <1>4, <1>5, <2>5, TaskMovesOutside
<1>6. CASE /\ place[t].at = "phase" /\ UNCHANGED global
           /\ limits' = [limits EXCEPT ![place[t].phase] = AbortWait(@, t)]
  <2> DEFINE ph == place[t].phase
             l == limits[ph]
             m == AbortWait(l, t)
             n == 0
             k == 1
  <2>1. ph \in Configured /\ t \in Waits(ph) /\ t \notin Queued
    <3>1. place[t] \in Where /\ ph \in Configured
      BY <1>2, <1>6 DEF Typed
    <3>2. place[t] = [at |-> "phase", phase |-> ph]
      BY <1>6, <3>1 DEF Where
    <3> QED BY <3>1, <3>2, <1>6 DEF Waits, Queued
  <2>2. /\ Sound(l, Tasks) /\ Prompt(l) /\ Users(l) = Waits(ph)
        /\ Ramps = {} => l.debt = 0
    BY <2>1, Facts DEF IInv, PhaseOK
  <2>3. /\ Sound(m, Tasks) /\ Prompt(m) /\ Slots(m) = Slots(l)
        /\ Users(m) = Users(l) \ {t} /\ m.debt = l.debt /\ m.limit = l.limit
    BY <1>2, <2>1, <2>2, AbortWaitSound
  <2>4. limits' = [limits EXCEPT ![ph] = m] /\ place[t].phase = ph
    BY <1>6
  <2>5. PhaseShare(place[t], ph) = 0 /\ GlobalShare(place[t]) = 1
    BY <1>2, <1>6, <2>1, ShareOf
  <2>6. /\ l.limit \in Nat /\ l.debt \in Nat /\ Slots(l) \in Nat
        /\ global.limit \in Nat /\ global.debt \in Nat /\ Slots(global) \in Nat
    BY <1>2, <2>2, Parts
  <2> HIDE DEF m
  <2>7. Missing(m, 0) = Missing(l, 0) + n /\ Missing(global, 0) = Missing(global, 1) + k
    BY <2>3, <2>6 DEF Missing
  <2>8. n \in {0, 1} /\ k \in {0, 1} /\ n <= k
    OBVIOUS
  <2> HIDE DEF n, k
  <2>9. /\ Users(m) = IF p = [at |-> "phase", phase |-> ph]
                      THEN Waits(ph) \cup {t} ELSE Waits(ph) \ {t}
        /\ Users(global') = IF p.at = "global" THEN Queued \cup {t} ELSE Queued \ {t}
    BY <1>2, <1>3, <1>6, <2>1, <2>2, <2>3
  <2>10. Missing(m, PhaseShare(p, ph)) = Missing(limits[ph], PhaseShare(place[t], ph)) + n
    BY <1>3, <2>1, <2>5, <2>7
  <2>11. Missing(global', GlobalShare(p)) = Missing(global, GlobalShare(place[t])) + k
    BY <1>3, <1>6, <2>1, <2>5, <2>7
  <2>12. Sound(global', Tasks) /\ Prompt(global') /\ (Ramps = {} => m.debt = 0)
    BY <1>2, <1>6, <2>2, <2>3
  <2>13. /\ p \in Where /\ p.phase <= current /\ (Steady => k = 0)
         /\ p.at \in {"global", "phase"} => p.phase = ph
         /\ place[t].at \in {"idle", "global"} \/ place[t].phase = ph
         /\ p.at \in {"idle", "global"} \/ p.phase = ph
         /\ UNCHANGED <<setup, enabled, current, stopped, twice>>
    BY <1>1, <1>3
  <2>14. ph \in Configured /\ Sound(m, Tasks) /\ Prompt(m)
    BY <2>1, <2>3
  <2> HIDE DEF l, ph
  <2> QED BY <1>4, <2>4, <2>8, <2>9, <2>10, <2>11, <2>12, <2>13, <2>14, TaskMoves
<1> QED BY <1>5, <1>6 DEF CancelAcquire

(* A credit that ends gives its slots back to both layers or to neither.   *)
LEMMA ReleaseKeeps ==
  ASSUME IInv, NEW t \in Tasks, Release(t), UNCHANGED <<setup, twice>>
  PROVE  IInv'
<1> DEFINE ph == place[t].phase
           l == limits[ph]
           p == Idle
<1>1. /\ place[t].at = "holding" /\ place' = [place EXCEPT ![t] = p]
      /\ UNCHANGED <<setup, enabled, current, stopped, twice>>
  BY DEF Release
<1>2. /\ Typed /\ IsFiniteSet(Tasks) /\ Sound(global, Tasks) /\ Prompt(global)
      /\ Users(global) = Queued
  BY Facts
<1>3. /\ p \in Where /\ p.at = "idle" /\ p.phase <= current
      /\ p # [at |-> "phase", phase |-> ph] /\ PhaseShare(p, ph) = 0 /\ GlobalShare(p) = 0
  <2>1. current \in Nat
    BY <1>2, PhaseLimiterAssumption DEF Typed
  <2> QED BY <2>1, IdleWhere DEF PhaseShare, GlobalShare, Owns
<1>4. place[t].phase = ph /\ t \notin Queued
  BY <1>1 DEF Queued
<1> HIDE DEF p
<1>5. CASE ph \notin Configured /\ UNCHANGED <<global, limits>>
  <2>1. /\ Sound(global', Tasks) /\ Prompt(global') /\ Missing(global', 0) = Missing(global, 0)
        /\ Users(global') = IF p.at = "global" THEN Queued \cup {t} ELSE Queued \ {t}
    BY <1>2, <1>3, <1>4, <1>5
  <2> QED BY <1>1, <1>3, <1>4, <1>5, <2>1, TaskMovesOutside
<1>6. ASSUME ph \in Configured
      PROVE  /\ Sound(l, Tasks) /\ Prompt(l) /\ Users(l) = Waits(ph)
             /\ Ramps = {} => l.debt = 0
             /\ PhaseShare(place[t], ph) = 1 /\ GlobalShare(place[t]) = 1 /\ t \notin Waits(ph)
  BY <1>1, <1>2, <1>6, Facts, ShareOf DEF IInv, PhaseOK
<1>7. CASE ~enabled /\ ph \in Configured /\ UNCHANGED <<global, limits>>
  <2> DEFINE n == 1
  <2>1. /\ Sound(l, Tasks) /\ Prompt(l) /\ Users(l) = Waits(ph) \ {t}
        /\ Ramps = {} => l.debt = 0
        /\ PhaseShare(place[t], ph) = 1 /\ GlobalShare(place[t]) = 1
    BY <1>6, <1>7
  <2>2. limits' = [limits EXCEPT ![ph] = l]
    BY <1>2, <1>7 DEF Typed
  <2>3. ~Steady
    <3>1. Configured \subseteq 1 .. current /\ current \in 0 .. NumPhases /\ NumPhases \in Nat
      BY <1>2, PhaseLimiterAssumption DEF Typed
    <3>2. current > 0
      <4> HIDE DEF ph
      <4> QED BY <1>7, <3>1
    <3> QED BY <1>2, <1>7, <3>2 DEF Typed, Steady
  <2>4. /\ l.limit \in Nat /\ l.debt \in Nat /\ Slots(l) \in Nat
        /\ global.limit \in Nat /\ global.debt \in Nat /\ Slots(global) \in Nat
    BY <1>2, <2>1, Parts
  <2> HIDE DEF l
  <2>5. Missing(l, 0) = Missing(l, 1) + n /\ Missing(global, 0) = Missing(global, 1) + n
    BY <2>4 DEF Missing
  <2>6. n \in {0, 1} /\ n <= n
    OBVIOUS
  <2> HIDE DEF n
  <2>7. /\ Users(l) = IF p = [at |-> "phase", phase |-> ph]
                      THEN Waits(ph) \cup {t} ELSE Waits(ph) \ {t}
        /\ Users(global') = IF p.at = "global" THEN Queued \cup {t} ELSE Queued \ {t}
    BY <1>2, <1>3, <1>4, <1>7, <2>1
  <2>8. Missing(l, PhaseShare(p, ph)) = Missing(limits[ph], PhaseShare(place[t], ph)) + n
    BY <1>3, <2>1, <2>5 DEF l
  <2>9. Missing(global', GlobalShare(p)) = Missing(global, GlobalShare(place[t])) + n
    BY <1>3, <1>7, <2>1, <2>5
  <2>10. /\ p \in Where /\ p.phase <= current /\ (Steady => n = 0)
         /\ p.at \in {"global", "phase"} => p.phase = ph
         /\ place[t].at \in {"idle", "global"} \/ place[t].phase = ph
         /\ p.at \in {"idle", "global"} \/ p.phase = ph
         /\ UNCHANGED <<setup, enabled, current, stopped, twice>>
    BY <1>1, <1>3, <1>4, <2>3
  <2>11. ph \in Configured /\ Sound(l, Tasks) /\ Prompt(l) /\ (Ramps = {} => l.debt = 0)
    BY <1>7, <2>1
  <2>12. Sound(global', Tasks) /\ Prompt(global') /\ place' = [place EXCEPT ![t] = p]
    BY <1>1, <1>2, <1>7
  <2> HIDE DEF ph
  <2> QED BY <2>2, <2>6, <2>7, <2>8, <2>9, <2>10, <2>11, <2>12, TaskMoves
<1>8. CASE /\ ph \in Configured /\ global' = ReleaseSlot(global)
           /\ limits' = [limits EXCEPT ![ph] = ReleaseSlot(l)]
  <2> DEFINE m == ReleaseSlot(l)
             h == ReleaseSlot(global)
  <2>1. /\ Sound(l, Tasks) /\ Prompt(l) /\ Users(l) = Waits(ph) \ {t}
        /\ Ramps = {} => l.debt = 0
        /\ PhaseShare(place[t], ph) = 1 /\ GlobalShare(place[t]) = 1
    BY <1>6, <1>8
  <2> HIDE DEF l
  <2>2. /\ Sound(m, Tasks) /\ Prompt(m) /\ Users(m) = Users(l) /\ m.limit = l.limit
        /\ Slots(m) - m.debt = Slots(l) - l.debt + 1 /\ (l.debt = 0 => m.debt = 0)
    BY <1>2, <2>1, ReleaseSlotSound, NoNewDebt
  <2>3. /\ Sound(h, Tasks) /\ Prompt(h) /\ Users(h) = Users(global) /\ h.limit = global.limit
        /\ Slots(h) - h.debt = Slots(global) - global.debt + 1
    BY <1>2, ReleaseSlotSound
  <2>4. limits' = [limits EXCEPT ![ph] = m] /\ global' = h
    BY <1>8
  <2> HIDE DEF m, h
  <2>5. Missing(m, 0) = Missing(l, 1)
    BY <2>1, <2>2, SameMissing
  <2>6. Missing(h, 0) = Missing(global, 1)
    BY <1>2, <2>3, SameMissing
  <2>7. /\ Users(m) = IF p = [at |-> "phase", phase |-> ph]
                      THEN Waits(ph) \cup {t} ELSE Waits(ph) \ {t}
        /\ Users(global') = IF p.at = "global" THEN Queued \cup {t} ELSE Queued \ {t}
    BY <1>2, <1>3, <1>4, <2>1, <2>2, <2>3, <2>4
  <2>8. Missing(m, PhaseShare(p, ph)) = Missing(limits[ph], PhaseShare(place[t], ph))
    BY <1>3, <2>1, <2>5 DEF l
  <2>9. Missing(global', GlobalShare(p)) = Missing(global, GlobalShare(place[t]))
    BY <1>3, <2>1, <2>4, <2>6
  <2>10. /\ p \in Where /\ p.phase <= current
         /\ p.at \in {"global", "phase"} => p.phase = ph
         /\ place[t].at \in {"idle", "global"} \/ place[t].phase = ph
         /\ p.at \in {"idle", "global"} \/ p.phase = ph
         /\ UNCHANGED <<setup, enabled, current, stopped, twice>>
    BY <1>1, <1>3, <1>4
  <2>11. ph \in Configured /\ Sound(m, Tasks) /\ Prompt(m) /\ (Ramps = {} => m.debt = 0)
    BY <1>8, <2>1, <2>2
  <2>12. Sound(global', Tasks) /\ Prompt(global') /\ place' = [place EXCEPT ![t] = p]
    BY <1>1, <2>3, <2>4
  <2> HIDE DEF ph
  <2> QED BY <2>4, <2>7, <2>8, <2>9, <2>10, <2>11, <2>12, TaskKeeps
<1> QED BY <1>5, <1>7, <1>8 DEF Release

-----------------------------------------------------------------------------
(* The steps of a phase. *)
LEMMA SetPhaseLimitKeeps ==
  ASSUME IInv, NEW n \in Ramps, SetPhaseLimit(n), UNCHANGED <<setup, twice>>
  PROVE  IInv'
<1> PICK ph : ph = current
  OBVIOUS
<1> DEFINE l == limits[ph]
           m == SetLimit(l, n)
           h == SetLimit(global, n)
           e == 0
<1>1. /\ Typed /\ IsFiniteSet(Tasks) /\ Sound(global, Tasks) /\ Prompt(global)
      /\ Users(global) = Queued /\ GlobalMissing \in Int
  BY Facts
<1>2. /\ ph \in Configured /\ limits' = [limits EXCEPT ![ph] = m] /\ global' = h
      /\ UNCHANGED <<setup, enabled, current, stopped, place, twice>>
  BY DEF SetPhaseLimit
<1>3. n \in Nat /\ Ramps # {}
  BY <1>1, PhaseLimiterAssumption DEF Typed, Ramps
<1>4. /\ Sound(l, Tasks) /\ Prompt(l) /\ Users(l) = Waits(ph)
      /\ PhaseMissing(ph) \in Int /\ PhaseMissing(ph) >= 0
  BY <1>2, Facts
<1>5. /\ Sound(m, Tasks) /\ Prompt(m) /\ Users(m) = Users(l) /\ m.limit = n
      /\ Slots(m) - m.debt - m.limit = Slots(l) - l.debt - l.limit
  BY <1>1, <1>3, <1>4, SetLimitSound
<1>6. /\ Sound(h, Tasks) /\ Prompt(h) /\ Users(h) = Users(global) /\ h.limit = n
      /\ Slots(h) - h.debt - h.limit = Slots(global) - global.debt - global.limit
  BY <1>1, <1>3, SetLimitSound
<1>7. Configured' = Configured /\ limits'[ph] = m /\ limits' \in [Configured -> Limits(Tasks)]
  <2>1. m \in Limits(Tasks)
    BY <1>5 DEF Sound
  <2> HIDE DEF m
  <2> QED BY <1>1, <1>2, <2>1 DEF Typed, Configured
<1>8. Typed'
  <2> HIDE DEF m, h
  <2> QED BY <1>1, <1>2, <1>7 DEF Typed, PhaseLimits
<1> HIDE DEF m, h, l
<1>9. Queued' = Queued /\ GlobalHolders' = GlobalHolders
      /\ \A q : Waits(q)' = Waits(q) /\ Holders(q)' = Holders(q)
  BY <1>2, <1>7 DEF Queued, GlobalHolders, Owns, Waits, Holders
<1>10. GlobalOK'
  BY <1>1, <1>2, <1>6, <1>9 DEF GlobalOK
<1>11. GlobalMissing' = GlobalMissing
  <2>1. /\ h.limit \in Nat /\ h.debt \in Nat /\ Slots(h) \in Nat
        /\ global.limit \in Nat /\ global.debt \in Nat /\ Slots(global) \in Nat
    BY <1>1, <1>6, Parts
  <2>2. GlobalUse \in Int
    BY <1>1, UseType
  <2>3. Missing(h, GlobalUse) = Missing(global, GlobalUse)
    BY <1>6, <2>1, <2>2 DEF Missing
  <2> QED BY <1>2, <1>9, <2>3 DEF GlobalMissing, GlobalUse
<1>12. PhaseMissing(ph)' = PhaseMissing(ph) + e
  <2>1. /\ m.limit \in Nat /\ m.debt \in Nat /\ Slots(m) \in Nat
        /\ l.limit \in Nat /\ l.debt \in Nat /\ Slots(l) \in Nat
    BY <1>1, <1>4, <1>5, Parts
  <2>2. PhaseUse(ph) \in Int
    BY <1>1, <1>2, UseType
  <2>3. Missing(m, PhaseUse(ph)) = Missing(l, PhaseUse(ph))
    BY <1>5, <2>1, <2>2 DEF Missing
  <2> QED BY <1>2, <1>4, <1>7, <1>9, <2>3 DEF PhaseMissing, PhaseUse, l
<1>13. e \in Int /\ GlobalMissing' >= GlobalMissing + e /\ PhaseMissing(ph)' >= 0
  BY <1>1, <1>4, <1>11, <1>12
<1> HIDE DEF e
<1>14. /\ Users(m) = Waits(ph)' /\ GlobalMissing' \in Int
       /\ \A q \in Configured \ {ph} : Waits(q)' = Waits(q) /\ Holders(q)' = Holders(q)
  BY <1>1, <1>4, <1>5, <1>9, <1>11
<1>15. Ramps = {} => m.debt = 0
  BY <1>3
<1>16. /\ ph \in Configured /\ Sound(m, Tasks) /\ Prompt(m) /\ GlobalMissing \in Int
       /\ limits' = [limits EXCEPT ![ph] = m]
  BY <1>1, <1>2, <1>5
<1> QED BY <1>8, <1>10, <1>11, <1>12, <1>13, <1>14, <1>15, <1>16, PhaseStep

LEMMA StopSendingKeeps ==
  ASSUME IInv, StopSending, UNCHANGED <<setup, twice>>
  PROVE  IInv'
<1>1. Typed /\ GlobalOK
  BY DEF IInv
<1>2. /\ stopped' = stopped \cup {current} /\ current > 0
      /\ UNCHANGED <<setup, enabled, global, limits, current, place, twice>>
  BY DEF StopSending
<1>3. Configured' = Configured
  BY <1>2 DEF Configured
<1>4. stopped' \subseteq 1 .. current
  BY <1>1, <1>2, PhaseLimiterAssumption DEF Typed
<1>5. Typed'
  BY <1>1, <1>2, <1>3, <1>4 DEF Typed, PhaseLimits
<1>6. Queued' = Queued /\ GlobalHolders' = GlobalHolders
      /\ \A q : Waits(q)' = Waits(q) /\ Holders(q)' = Holders(q)
  BY <1>2, <1>3 DEF Queued, GlobalHolders, Owns, Waits, Holders
<1>7. GlobalOK' /\ GlobalMissing' = GlobalMissing
  BY <1>1, <1>2, <1>6 DEF GlobalOK, GlobalMissing, GlobalUse
<1> QED BY <1>2, <1>5, <1>6, <1>7, GlobalStep

LEMMA NothingMoves ==
  ASSUME IInv, UNCHANGED <<setup, enabled, global, limits, current, stopped, place, twice>>
  PROVE  IInv'
<1>1. Typed /\ GlobalOK /\ Configured' = Configured
  BY DEF IInv, Configured
<1>2. Queued' = Queued /\ GlobalHolders' = GlobalHolders
      /\ \A q : Waits(q)' = Waits(q) /\ Holders(q)' = Holders(q)
  BY <1>1 DEF Queued, GlobalHolders, Owns, Waits, Holders
<1>3. Typed' /\ GlobalOK' /\ GlobalMissing' = GlobalMissing
  BY <1>1, <1>2 DEF Typed, PhaseLimits, GlobalOK, GlobalMissing, GlobalUse
<1> QED BY <1>2, <1>3, GlobalStep

(* Giving up a phase's credits leaves the tasks that wait where they are.  *)
LEMMA GivesUp ==
  ASSUME Typed, NEW ph \in Configured, place' = GivenUp(ph), Configured' = Configured
  PROVE  /\ place' \in [Tasks -> Where] /\ Queued' = Queued
         /\ \A t \in Tasks :
              place'[t] = IF t \in Holders(ph) THEN [at |-> "given", phase |-> ph] ELSE place[t]
         /\ \A q : Waits(q)' = Waits(q)
         /\ \A q \in Configured \ {ph} : Holders(q)' = Holders(q)
         /\ Holders(ph)' = {}
         /\ GlobalHolders' = GlobalHolders \ Holders(ph)
         /\ Holders(ph) \subseteq GlobalHolders
<1> DEFINE g == [at |-> "given", phase |-> ph]
<1>1. \A t \in Tasks : place'[t] = IF t \in Holders(ph) THEN g ELSE place[t]
  BY DEF GivenUp
<1>2. place \in [Tasks -> Where] /\ ph \in 0 .. NumPhases
  BY PhaseLimiterAssumption DEF Typed
<1>3. /\ g \in Where /\ g.at = "given" /\ ~Owns(g)
      /\ \A q : g # [at |-> "phase", phase |-> q] /\ g # [at |-> "holding", phase |-> q]
  BY <1>2 DEF Where, Owns
<1> HIDE DEF g
<1>4. place' \in [Tasks -> Where]
  BY <1>1, <1>2, <1>3 DEF GivenUp, g
<1>5. \A t \in Holders(ph) :
        /\ place[t] = [at |-> "holding", phase |-> ph]
        /\ place[t].at = "holding" /\ place[t].phase = ph
  BY DEF Holders
<1>6. Queued' = Queued
  BY <1>1, <1>3, <1>5 DEF Queued
<1>7. ASSUME NEW q PROVE Waits(q)' = Waits(q)
  BY <1>1, <1>3, <1>5 DEF Waits
<1>8. ASSUME NEW q \in Configured \ {ph} PROVE Holders(q)' = Holders(q)
  <2>1. \A t \in Holders(ph) : place[t] # [at |-> "holding", phase |-> q]
    BY <1>5
  <2> QED BY <1>1, <1>3, <2>1 DEF Holders
<1>9. Holders(ph)' = {}
  BY <1>1, <1>3 DEF Holders
<1>10. Holders(ph) \subseteq GlobalHolders
  BY <1>5 DEF GlobalHolders, Owns, Holders
<1>11. GlobalHolders' = GlobalHolders \ Holders(ph)
  <2>1. \A t \in Tasks : Owns(place[t])' <=> Owns(place[t]) /\ t \notin Holders(ph)
    <3> TAKE t \in Tasks
    <3>1. CASE t \in Holders(ph)
      BY <1>1, <1>3, <3>1 DEF Owns
    <3>2. CASE t \notin Holders(ph)
      BY <1>1, <3>2 DEF Owns
    <3> QED BY <3>1, <3>2
  <2> QED BY <2>1 DEF GlobalHolders
<1> QED BY <1>1, <1>4, <1>6, <1>7, <1>8, <1>9, <1>10, <1>11 DEF g

(* What get_held_slots answers is at most what is not free of a limit, and *)
(* all of it if there is no debt.                                          *)
LEMMA HeldBound ==
  ASSUME NEW ph, Sound(limits[ph], Tasks), NEW c \in Int, Missing(limits[ph], c) >= 0,
         NEW w, w = Cardinality(limits[ph].woken), NEW d \in Nat, d >= c
  PROVE  /\ HeldSlots(ph) \in Nat /\ HeldSlots(ph) <= Missing(limits[ph], c) + d + w
         /\ limits[ph].debt = 0 => HeldSlots(ph) >= Missing(limits[ph], c) + c + w
<1> DEFINE l == limits[ph]
<1>1. l.limit \in Nat /\ l.debt \in Nat /\ l.value \in Nat /\ w \in Nat
  BY PhaseLimiterAssumption, Parts
<1>2. Missing(l, c) = l.limit + l.debt - (l.value + w) - c
  BY <1>1 DEF Missing, Slots
<1> DEFINE e == IF l.value > l.debt THEN l.value - l.debt ELSE 0
<1>3. HeldSlots(ph) = IF l.limit > e THEN l.limit - e ELSE 0
  BY DEF HeldSlots
<1>4. e \in Nat /\ (l.value > l.debt => e = l.value - l.debt)
      /\ (~(l.value > l.debt) => e = 0)
  BY <1>1
<1> HIDE DEF l, e
<1>5. /\ HeldSlots(ph) \in Nat /\ HeldSlots(ph) <= Missing(l, c) + d + w
      /\ l.debt = 0 => HeldSlots(ph) >= Missing(l, c) + c + w
  BY <1>1, <1>2, <1>3, <1>4 DEF l
<1> QED BY <1>5 DEF l

LEMMA NothingLost ==
  ASSUME IInv, Steady, NEW ph \in Configured
  PROVE  PhaseMissing(ph) = 0 /\ limits[ph].debt = 0
<1>1. PhaseOK(ph) /\ PhaseMissing(ph) \in Int /\ GlobalMissing = 0
  BY Facts DEF IInv
<1>2. IsFiniteSet(Lost) /\ Cardinality(Lost) <= 0
  BY <1>1 DEF IInv, LossesCovered
<1>3. Lost = {}
  BY <1>2, FS_CardinalityType, FS_EmptySet
<1>4. PhaseMissing(ph) <= 0
  <2>1. SUFFICES ASSUME PhaseMissing(ph) >= 1 PROVE FALSE
    BY <1>1
  <2>2. 1 \in 1 .. PhaseMissing(ph)
    BY <1>1, <2>1
  <2>3. <<ph, 1>> \in LostOf(Configured, Losses)
    BY <2>2 DEF LostOf, Losses
  <2> QED BY <1>3, <2>3 DEF Lost
<1> QED BY <1>1, <1>4 DEF PhaseOK, Steady

(* A stopped phase gives its credits up and k slots become free, j of them *)
(* for tasks that will release theirs as well.                             *)
LEMMA FreeSlotsKeeps ==
  ASSUME IInv, NEW ph \in Configured, ph \in stopped, NEW k \in Nat, FreeSlots(ph, k),
         NEW j \in Nat, Again(ph, j), UNCHANGED <<setup, enabled, current, stopped>>,
         NEW n, n = Cardinality(Holders(ph)) + j - k,
         PhaseMissing(ph) + n >= 0, Steady => n = 0
  PROVE  IInv'
<1> DEFINE l == limits[ph]
           m == ReleaseMany(l, k)
           h == ReleaseMany(global, k)
           c == Cardinality(Holders(ph))
           d == Cardinality(GlobalHolders)
           x == twice[ph]
           y == twice[0]
<1>1. /\ Typed /\ IsFiniteSet(Tasks) /\ Sound(global, Tasks) /\ Prompt(global)
      /\ Users(global) = Queued /\ GlobalMissing \in Int
      /\ GlobalHolders \in SUBSET Tasks /\ Holders(ph) \in SUBSET Tasks
  BY Facts
<1>2. /\ place' = GivenUp(ph) /\ limits' = [limits EXCEPT ![ph] = m] /\ global' = h
      /\ twice' = [twice EXCEPT ![0] = y + j, ![ph] = x + j]
  BY <1>1, UseType DEF FreeSlots, Again, Typed
<1>3. /\ Sound(l, Tasks) /\ Prompt(l) /\ Users(l) = Waits(ph)
      /\ PhaseMissing(ph) \in Int /\ PhaseMissing(ph) >= 0
      /\ Ramps = {} => l.debt = 0
  BY Facts DEF IInv, PhaseOK
<1>4. /\ c \in Nat /\ d \in Nat /\ x \in Nat /\ y \in Nat
      /\ ph \in Phases /\ ph \in 0 .. NumPhases /\ ph # 0
  BY <1>1, Finite, UseType, PhaseLimiterAssumption DEF Typed, Phases
<1>5. /\ twice' \in [0 .. NumPhases -> Nat] /\ twice'[0] = y + j /\ twice'[ph] = x + j
      /\ \A q \in Phases \ {ph} : twice'[q] = twice[q]
  <2>1. twice \in [0 .. NumPhases -> Nat] /\ 0 \in 0 .. NumPhases /\ y + j \in Nat /\ x + j \in Nat
    BY <1>1, <1>4, PhaseLimiterAssumption DEF Typed
  <2>2. \A q \in Phases : q \in 0 .. NumPhases /\ q # 0
    BY PhaseLimiterAssumption DEF Phases
  <2> HIDE DEF x, y
  <2> QED BY <1>2, <1>4, <2>1, <2>2
<1>6. /\ Sound(m, Tasks) /\ Prompt(m) /\ Users(m) = Users(l) /\ m.limit = l.limit
      /\ Slots(m) - m.debt = Slots(l) - l.debt + k
      /\ l.debt = 0 => m.debt = 0
  <2>1. m = ReleaseMany(l, k)
    OBVIOUS
  <2>2. IsFiniteSet(Tasks) /\ Sound(l, Tasks) /\ Prompt(l)
    BY <1>1, <1>3
  <2> HIDE DEF m, l
  <2> QED BY <2>1, <2>2, ReleaseManySound
<1>7. /\ Sound(h, Tasks) /\ Prompt(h) /\ Users(h) = Users(global) /\ h.limit = global.limit
      /\ Slots(h) - h.debt = Slots(global) - global.debt + k
  BY <1>1, ReleaseManySound
<1>8. Configured' = Configured /\ limits'[ph] = m /\ limits' \in [Configured -> Limits(Tasks)]
  <2>1. m \in Limits(Tasks)
    BY <1>6 DEF Sound
  <2> HIDE DEF m
  <2> QED BY <1>1, <1>2, <2>1 DEF Typed, Configured
<1> HIDE DEF m, h, l
<1>9. /\ place' \in [Tasks -> Where] /\ Queued' = Queued
      /\ \A t \in Tasks :
           place'[t] = IF t \in Holders(ph) THEN [at |-> "given", phase |-> ph] ELSE place[t]
      /\ \A q : Waits(q)' = Waits(q)
      /\ \A q \in Configured \ {ph} : Holders(q)' = Holders(q)
      /\ Holders(ph)' = {}
      /\ GlobalHolders' = GlobalHolders \ Holders(ph)
      /\ Holders(ph) \subseteq GlobalHolders
  BY <1>1, <1>2, <1>8, GivesUp
<1>10. Typed'
  <2>1. ph <= current
    BY <1>1, PhaseLimiterAssumption DEF Typed
  <2>2. \A t \in Tasks :
          /\ place'[t].phase <= current
          /\ place'[t].at \in {"global", "phase"} => place'[t].phase \in Configured
    BY <1>1, <1>9, <2>1 DEF Typed
  <2>3. \A q \in Phases \ stopped : twice'[q] = 0
    BY <1>1, <1>5 DEF Typed
  <2> QED BY <1>1, <1>5, <1>8, <1>9, <2>2, <2>3 DEF Typed, PhaseLimits
<1>11. GlobalOK'
  BY <1>1, <1>2, <1>7, <1>9 DEF GlobalOK
<1>12. /\ m.limit \in Nat /\ m.debt \in Nat /\ Slots(m) \in Nat
       /\ l.limit \in Nat /\ l.debt \in Nat /\ Slots(l) \in Nat
  BY <1>1, <1>3, <1>6, Parts
<1>13. /\ h.limit \in Nat /\ h.debt \in Nat /\ Slots(h) \in Nat
       /\ global.limit \in Nat /\ global.debt \in Nat /\ Slots(global) \in Nat
  BY <1>1, <1>7, Parts
<1>14. PhaseMissing(ph)' = Missing(m, 0 - (x + j)) /\ PhaseMissing(ph) = Missing(l, c - x)
  BY <1>5, <1>8, <1>9, FS_EmptySet DEF PhaseMissing, PhaseUse, l
<1>15. GlobalMissing' = Missing(h, (d - c) - (y + j)) /\ GlobalMissing = Missing(global, d - y)
  <2>1. IsFiniteSet(GlobalHolders) /\ IsFiniteSet(Holders(ph))
    BY <1>1, Finite
  <2>2. Cardinality(GlobalHolders \ Holders(ph)) = d - c
    <3>1. Cardinality(GlobalHolders \ Holders(ph))
            = Cardinality(GlobalHolders) - Cardinality(GlobalHolders \cap Holders(ph))
      BY <2>1, FS_Difference
    <3>2. GlobalHolders \cap Holders(ph) = Holders(ph)
      BY <1>9
    <3> QED BY <3>1, <3>2
  <2> QED BY <1>2, <1>5, <1>9, <2>2 DEF GlobalMissing, GlobalUse
<1>16. n = c + j - k
  OBVIOUS
<1> HIDE DEF c, d, x, y
<1>17. Missing(m, 0 - (x + j)) = Missing(l, c - x) + n /\ n \in Int
  BY <1>4, <1>6, <1>12, <1>16 DEF Missing
<1>18. Missing(h, (d - c) - (y + j)) = Missing(global, d - y) + n
  BY <1>4, <1>7, <1>13, <1>16 DEF Missing
<1>19. /\ PhaseMissing(ph)' = PhaseMissing(ph) + n /\ PhaseMissing(ph)' >= 0
       /\ GlobalMissing' = GlobalMissing + n
  BY <1>14, <1>15, <1>17, <1>18
<1>20. /\ n \in Int /\ GlobalMissing' \in Int /\ GlobalMissing' >= GlobalMissing + n
       /\ Steady => GlobalMissing' = GlobalMissing
  BY <1>1, <1>17, <1>19
<1>21. /\ Users(m) = Waits(ph)' /\ (Ramps = {} => m.debt = 0)
       /\ Sound(m, Tasks) /\ Prompt(m) /\ GlobalMissing \in Int
       /\ limits' = [limits EXCEPT ![ph] = m]
  BY <1>1, <1>2, <1>3, <1>6, <1>9
<1>22. \A q \in Configured \ {ph} :
         Waits(q)' = Waits(q) /\ Holders(q)' = Holders(q) /\ twice'[q] = twice[q]
  <2>1. Configured \subseteq Phases
    BY <1>1, UseType DEF Phases
  <2> QED BY <1>5, <1>9, <2>1
<1> QED BY <1>10, <1>11, <1>19, <1>20, <1>21, <1>22, PhaseStep

(* A forced phase releases what it has out, as far as can be computed.     *)
LEMMA ReleaseStuckSlotsKeeps ==
  ASSUME IInv, NEW ph \in Phases, ReleaseStuckSlots(ph), UNCHANGED setup,
         twice[ph] > 0 => Holders(ph) = {}
  PROVE  IInv'
<1>1. UNCHANGED <<setup, enabled, current, stopped>> /\ ph \in stopped
  BY DEF ReleaseStuckSlots
<1>2. CASE UNCHANGED <<global, limits, place, twice>>
  BY <1>1, <1>2, NothingMoves
<1>3. CASE /\ enabled /\ ph \in Configured
           /\ FreeSlots(ph, HeldSlots(ph))
           /\ LET more == HeldSlots(ph) - Cardinality(Holders(ph))
              IN Again(ph, IF more <= 0 THEN 0
                           ELSE Least(more, Cardinality(limits[ph].woken)))
  <2> DEFINE k == HeldSlots(ph)
             c == Cardinality(Holders(ph))
             w == Cardinality(limits[ph].woken)
             j == IF k - c <= 0 THEN 0 ELSE Least(k - c, w)
             n == c + j - k
  <2>1. /\ Typed /\ Sound(limits[ph], Tasks) /\ IsFiniteSet(Tasks)
        /\ PhaseMissing(ph) \in Int /\ PhaseMissing(ph) >= 0
    BY <1>3, Facts
  <2>2. /\ c \in Nat /\ w \in Nat /\ twice[ph] \in Nat
        /\ twice[ph] > 0 => c = 0
    <3>1. twice[ph] \in Nat
      BY <2>1, PhaseLimiterAssumption DEF Typed, Phases
    <3>2. c \in Nat /\ (Holders(ph) = {} => c = 0)
      BY Finite, FS_EmptySet DEF Holders
    <3> QED BY <2>1, <3>1, <3>2, Parts
  <2>3. PhaseMissing(ph) = Missing(limits[ph], c - twice[ph])
    BY DEF PhaseMissing, PhaseUse
  <2>4. FreeSlots(ph, k) /\ Again(ph, j)
    BY <1>3
  <2>5. /\ k \in Nat /\ k <= PhaseMissing(ph) + c + w
        /\ limits[ph].debt = 0 => k >= PhaseMissing(ph) + (c - twice[ph]) + w
    <3>1. w = Cardinality(limits[ph].woken)
      OBVIOUS
    <3> HIDE DEF c, w
    <3>2. c - twice[ph] \in Int /\ c >= c - twice[ph]
      BY <2>2
    <3> QED BY <2>1, <2>2, <2>3, <3>1, <3>2, HeldBound
  <2>6. Steady => PhaseMissing(ph) = 0 /\ limits[ph].debt = 0
    BY <1>3, NothingLost
  <2> HIDE DEF k, c, w
  <2>7. j \in Nat /\ PhaseMissing(ph) + n >= 0
    BY <2>1, <2>2, <2>5 DEF Least
  <2>8. Steady => n = 0
    BY <2>2, <2>5, <2>6 DEF Least
  <2>9. n = Cardinality(Holders(ph)) + j - k
    BY DEF c
  <2> HIDE DEF j, n
  <2> QED BY <1>1, <1>3, <2>4, <2>5, <2>7, <2>8, <2>9, FreeSlotsKeeps
<1> QED BY <1>2, <1>3 DEF ReleaseStuckSlots

(* The sessions of a phase are released with one slot each.                *)
LEMMA ReleaseTreesKeeps ==
  ASSUME IInv, NEW ph \in Phases, ReleaseTrees(ph), UNCHANGED setup
  PROVE  IInv'
<1> DEFINE k == Cardinality(Holders(ph))
           j == 0
           n == k + j - k
<1>1. /\ ph \in Configured /\ ph \in stopped /\ FreeSlots(ph, k)
      /\ UNCHANGED <<setup, enabled, current, stopped, twice>>
  BY DEF ReleaseTrees
<1>2. Typed /\ PhaseMissing(ph) \in Int /\ PhaseMissing(ph) >= 0
  BY <1>1, Facts
<1>3. Again(ph, j)
  <2>1. /\ twice \in [0 .. NumPhases -> Nat] /\ twice[0] \in Nat /\ twice[ph] \in Nat
    BY <1>2, PhaseLimiterAssumption DEF Typed, Phases
  <2> QED BY <1>1, <2>1 DEF Again
<1>4. k \in Nat
  BY Finite DEF Holders
<1>5. n = Cardinality(Holders(ph)) + j - k
  OBVIOUS
<1> HIDE DEF k
<1>6. j \in Nat /\ PhaseMissing(ph) + n >= 0 /\ n = 0
  BY <1>2, <1>4
<1> HIDE DEF j, n
<1> QED BY <1>1, <1>3, <1>4, <1>5, <1>6, FreeSlotsKeeps

(* A credit that was given up is heard of, or will not be.                 *)
LEMMA LeavesGiven ==
  ASSUME Typed, NEW t \in Tasks, place[t].at = "given",
         place' = [place EXCEPT ![t] = Idle], Configured' = Configured
  PROVE  /\ place' \in [Tasks -> Where] /\ Queued' = Queued /\ GlobalHolders' = GlobalHolders
         /\ \A q : Waits(q)' = Waits(q) /\ Holders(q)' = Holders(q)
         /\ \A s \in Tasks :
              /\ place'[s].phase <= current
              /\ place'[s].at \in {"global", "phase"} => place'[s].phase \in Configured
<1>1. /\ Idle \in Where /\ ~Owns(Idle) /\ Idle.at = "idle" /\ Idle.phase = 0 /\ 0 <= current
      /\ \A q : Idle # [at |-> "phase", phase |-> q] /\ Idle # [at |-> "holding", phase |-> q]
  <2>1. 0 <= current
    BY PhaseLimiterAssumption DEF Typed
  <2> QED BY <2>1, IdleWhere DEF Owns
<1>2. /\ t \notin Queued /\ t \notin GlobalHolders
      /\ \A q : t \notin Waits(q) /\ t \notin Holders(q)
  BY DEF Queued, GlobalHolders, Owns, Waits, Holders
<1>3. GlobalHolders' = GlobalHolders \ {t}
  BY <1>1, MovesGlobally
<1>4. /\ place' \in [Tasks -> Where] /\ place'[t] = Idle
      /\ \A s \in Tasks \ {t} : place'[s] = place[s]
      /\ Queued' = Queued \ {t}
      /\ \A q : Waits(q)' = Waits(q) \ {t} /\ Holders(q)' = Holders(q) \ {t}
  <2> DEFINE p == Idle
  <2>1. /\ p \in Where /\ place' = [place EXCEPT ![t] = p] /\ p.at # "global"
        /\ \A q : p # [at |-> "phase", phase |-> q] /\ p # [at |-> "holding", phase |-> q]
    BY <1>1
  <2> HIDE DEF p
  <2>2. /\ place' \in [Tasks -> Where] /\ place'[t] = p
        /\ \A s \in Tasks \ {t} : place'[s] = place[s]
        /\ Queued' = Queued \ {t}
    BY <2>1, Moves
  <2>3. ASSUME NEW q
        PROVE  Waits(q)' = Waits(q) \ {t} /\ Holders(q)' = Holders(q) \ {t}
    <3>1. \A s \in Tasks : place'[s] = IF s = t THEN p ELSE place[s]
      BY <2>2
    <3> QED BY <2>1, <3>1 DEF Waits, Holders
  <2> QED BY <2>2, <2>3 DEF p
<1>5. \A s \in Tasks :
        /\ place'[s].phase <= current
        /\ place'[s].at \in {"global", "phase"} => place'[s].phase \in Configured
  BY <1>1, <1>4 DEF Typed
<1> QED BY <1>2, <1>3, <1>4, <1>5

LEMMA LeavesQuietly ==
  ASSUME IInv, NEW t \in Tasks, place[t].at = "given", place' = [place EXCEPT ![t] = Idle],
         UNCHANGED <<setup, enabled, global, limits, current, stopped, twice>>
  PROVE  IInv'
<1>1. Typed /\ GlobalOK /\ Configured' = Configured
  BY DEF IInv, Configured
<1>2. /\ place' \in [Tasks -> Where] /\ Queued' = Queued /\ GlobalHolders' = GlobalHolders
      /\ \A q : Waits(q)' = Waits(q) /\ Holders(q)' = Holders(q)
      /\ \A s \in Tasks :
           /\ place'[s].phase <= current
           /\ place'[s].at \in {"global", "phase"} => place'[s].phase \in Configured
  BY <1>1, LeavesGiven
<1>3. Typed'
  BY <1>1, <1>2 DEF Typed, PhaseLimits
<1>4. GlobalOK' /\ GlobalMissing' = GlobalMissing
  BY <1>1, <1>2 DEF GlobalOK, GlobalMissing, GlobalUse
<1> QED BY <1>2, <1>3, <1>4, GlobalStep

LEMMA LateReleaseKeeps ==
  ASSUME IInv, NEW t \in Tasks, LateRelease(t), UNCHANGED setup,
         place[t].phase \in stopped \cap Configured
  PROVE  IInv'
<1> PICK ph : ph = place[t].phase
  OBVIOUS
<1> DEFINE l == limits[ph]
           m == ReleaseSlot(l)
           h == ReleaseSlot(global)
           n == 0
<1>1. /\ place[t].at = "given" /\ place' = [place EXCEPT ![t] = Idle]
      /\ UNCHANGED <<setup, enabled, current, stopped>> /\ ph \in Configured /\ ph \in stopped
  BY DEF LateRelease
<1>2. CASE UNCHANGED <<global, limits, twice>>
  BY <1>1, <1>2, LeavesQuietly
<1>3. CASE /\ global' = h /\ limits' = [limits EXCEPT ![ph] = m] /\ Again(ph, 1)
  <2>1. /\ Typed /\ IsFiniteSet(Tasks) /\ Sound(global, Tasks) /\ Prompt(global)
        /\ Users(global) = Queued /\ GlobalMissing \in Int
        /\ Sound(l, Tasks) /\ Prompt(l) /\ Users(l) = Waits(ph)
        /\ PhaseMissing(ph) \in Int /\ PhaseMissing(ph) >= 0
        /\ Ramps = {} => l.debt = 0
    BY <1>1, Facts DEF IInv, PhaseOK
  <2>2. /\ Sound(m, Tasks) /\ Prompt(m) /\ Users(m) = Users(l) /\ m.limit = l.limit
        /\ Slots(m) - m.debt = Slots(l) - l.debt + 1 /\ (l.debt = 0 => m.debt = 0)
    BY <2>1, ReleaseSlotSound, NoNewDebt
  <2>3. /\ Sound(h, Tasks) /\ Prompt(h) /\ Users(h) = Users(global) /\ h.limit = global.limit
        /\ Slots(h) - h.debt = Slots(global) - global.debt + 1
    BY <2>1, ReleaseSlotSound
  <2>4. Configured' = Configured /\ limits'[ph] = m /\ limits' \in [Configured -> Limits(Tasks)]
    <3>1. m \in Limits(Tasks)
      BY <2>2 DEF Sound
    <3> HIDE DEF m
    <3> QED BY <1>1, <1>3, <2>1, <3>1 DEF Typed, Configured
  <2>5. /\ place' \in [Tasks -> Where] /\ Queued' = Queued /\ GlobalHolders' = GlobalHolders
        /\ \A q : Waits(q)' = Waits(q) /\ Holders(q)' = Holders(q)
        /\ \A s \in Tasks :
             /\ place'[s].phase <= current
             /\ place'[s].at \in {"global", "phase"} => place'[s].phase \in Configured
    BY <1>1, <2>1, <2>4, LeavesGiven
  <2> HIDE DEF m, h, l
  <2>6. /\ twice \in [0 .. NumPhases -> Nat] /\ 0 \in 0 .. NumPhases
        /\ ph \in Phases /\ ph \in 0 .. NumPhases /\ ph # 0
        /\ Configured \subseteq Phases /\ \A q \in Phases : q \in 0 .. NumPhases /\ q # 0
    BY <1>1, <2>1, UseType, PhaseLimiterAssumption DEF Typed, Phases
  <2>7. /\ twice' \in [0 .. NumPhases -> Nat]
        /\ twice'[0] = twice[0] + 1 /\ twice'[ph] = twice[ph] + 1
        /\ \A q \in Phases \ {ph} : twice'[q] = twice[q]
    BY <1>3, <2>6 DEF Again
  <2>8. Typed'
    <3>1. \A q \in Phases \ stopped : twice'[q] = 0
      BY <1>1, <2>1, <2>7 DEF Typed
    <3> QED BY <1>1, <2>1, <2>4, <2>5, <2>7, <3>1 DEF Typed, PhaseLimits
  <2>9. GlobalOK'
    BY <1>3, <2>1, <2>3, <2>5 DEF GlobalOK
  <2>10. /\ GlobalUse \in Int /\ GlobalUse' = GlobalUse - 1
         /\ PhaseUse(ph) \in Int /\ PhaseUse(ph)' = PhaseUse(ph) - 1
    <3>1. GlobalUse \in Int /\ PhaseUse(ph) \in Int
      BY <1>1, <2>1, UseType
    <3>2. twice[0] \in Nat /\ twice[ph] \in Nat
      BY <2>6
    <3>3. Cardinality(GlobalHolders) \in Nat /\ Cardinality(Holders(ph)) \in Nat
      BY Finite DEF GlobalHolders, Holders
    <3>4. GlobalUse' = GlobalUse - 1
      BY <2>5, <2>7, <3>2, <3>3 DEF GlobalUse
    <3>5. PhaseUse(ph)' = PhaseUse(ph) - 1
      <4>1. Holders(ph)' = Holders(ph) /\ twice'[ph] = twice[ph] + 1
        BY <2>5, <2>7
      <4> QED BY <3>2, <3>3, <4>1 DEF PhaseUse
    <3> QED BY <3>1, <3>4, <3>5
  <2>11. /\ m.limit \in Nat /\ m.debt \in Nat /\ Slots(m) \in Nat
         /\ l.limit \in Nat /\ l.debt \in Nat /\ Slots(l) \in Nat
         /\ h.limit \in Nat /\ h.debt \in Nat /\ Slots(h) \in Nat
         /\ global.limit \in Nat /\ global.debt \in Nat /\ Slots(global) \in Nat
    BY <2>1, <2>2, <2>3, Parts
  <2>12. Missing(h, GlobalUse - 1) = Missing(global, GlobalUse)
    <3>1. GlobalUse \in Int
      BY <2>10
    <3> QED BY <2>3, <2>11, <3>1 DEF Missing
  <2>13. Missing(m, PhaseUse(ph) - 1) = Missing(l, PhaseUse(ph))
    BY <2>2, <2>10, <2>11 DEF Missing
  <2>14. GlobalMissing' = GlobalMissing
    BY <1>3, <2>10, <2>12 DEF GlobalMissing
  <2>15. PhaseMissing(ph)' = PhaseMissing(ph) + n
    BY <2>1, <2>4, <2>10, <2>13 DEF PhaseMissing, l
  <2>16. /\ n \in Int /\ PhaseMissing(ph)' >= 0
         /\ GlobalMissing \in Int /\ GlobalMissing' \in Int /\ GlobalMissing' >= GlobalMissing + n
    BY <2>1, <2>14, <2>15
  <2> HIDE DEF n
  <2>17. /\ Users(m) = Waits(ph)' /\ (Ramps = {} => m.debt = 0)
         /\ \A q \in Configured \ {ph} :
              Waits(q)' = Waits(q) /\ Holders(q)' = Holders(q) /\ twice'[q] = twice[q]
    BY <2>1, <2>2, <2>5, <2>6, <2>7
  <2> QED BY <1>1, <1>3, <2>2, <2>8, <2>9, <2>14, <2>15, <2>16, <2>17, PhaseStep
<1> QED BY <1>2, <1>3 DEF LateRelease

LEMMA NewLimitSound ==
  ASSUME NEW n \in Nat, NEW m, m = NewLimit(n)
  PROVE  /\ Sound(m, Tasks) /\ Prompt(m) /\ Users(m) = {}
         /\ m.debt = 0 /\ m.limit = n /\ Slots(m) = n /\ m.value = n /\ m.woken = {}
<1>1. m = [value |-> n, queue |-> <<>>, woken |-> {}, debt |-> 0, limit |-> n]
  BY DEF NewLimit
<1>2. m \in Limits(Tasks)
  BY <1>1 DEF Limits
<1>3. m.queue = <<>> /\ m.woken = {} /\ Len(m.queue) = 0
  BY <1>1
<1>4. Pending(m) = {}
  BY <1>3 DEF Pending, First
<1>5. Slots(m) = n
  BY <1>1, FS_EmptySet DEF Slots
<1>6. Sound(m, Tasks)
  BY <1>2, <1>3, <1>4, 1 .. 0 = {} DEF Sound, Distinct
<1>7. Prompt(m) /\ Users(m) = {}
  BY <1>3, <1>4 DEF Prompt, Users
<1>8. m.debt = 0 /\ m.limit = n /\ m.value = n /\ m.woken = {}
  BY <1>1
<1> QED BY <1>5, <1>6, <1>7, <1>8

(* A limit of None leaves the limits as they are.                          *)
LEMMA ConfigureOffKeeps ==
  ASSUME IInv, current < NumPhases, current' = current + 1, enabled' = FALSE,
         Unlimited \in PhaseLimits,
         UNCHANGED <<setup, global, limits, stopped, place, twice>>
  PROVE  IInv'
<1>1. Typed /\ GlobalOK
  BY DEF IInv
<1>2. Configured' = Configured /\ PhaseLimits' = PhaseLimits
  BY DEF Configured, PhaseLimits
<1>3. current \in Nat /\ NumPhases \in Nat /\ current + 1 \in 0 .. NumPhases
  BY <1>1, PhaseLimiterAssumption DEF Typed
<1>4. 1 .. current \subseteq 1 .. current + 1 /\ current + 1 \notin 1 .. current
  BY <1>3
<1>5. Typed'
  <2>1. \A t \in Tasks : place[t].phase <= current + 1
    <3> TAKE t \in Tasks
    <3>1. place[t].phase <= current /\ place[t].phase \in 0 .. NumPhases
      BY <1>1 DEF Typed, Where
    <3> QED BY <1>3, <3>1
  <2>2. current + 1 \notin Configured
    BY <1>1, <1>4 DEF Typed
  <2> QED BY <1>1, <1>2, <1>3, <1>4, <2>1, <2>2 DEF Typed
<1>6. Queued' = Queued /\ GlobalHolders' = GlobalHolders
      /\ \A q : Waits(q)' = Waits(q) /\ Holders(q)' = Holders(q)
  BY <1>2 DEF Queued, GlobalHolders, Owns, Waits, Holders
<1>7. GlobalOK' /\ GlobalMissing' = GlobalMissing
  BY <1>1, <1>6 DEF GlobalOK, GlobalMissing, GlobalUse
<1> QED BY <1>5, <1>6, <1>7, GlobalStep

(* The new phase's limit is as yet unused, and the global one moves to it. *)
LEMMA ConfigureLimitKeeps ==
  ASSUME IInv, NEW ph, ph = current + 1, NEW n \in Nat, current < NumPhases,
         current' = ph, enabled' = TRUE,
         limits' = [q \in Configured \cup {ph} |-> IF q = ph THEN NewLimit(n) ELSE limits[q]],
         global' = SetLimit(global, n), UNCHANGED <<setup, stopped, place, twice>>
  PROVE  IInv'
<1> DEFINE h == SetLimit(global, n)
           m == NewLimit(n)
           C == Configured
<1>1. /\ Typed /\ IsFiniteSet(Tasks) /\ Sound(global, Tasks) /\ Prompt(global)
      /\ Users(global) = Queued /\ GlobalMissing \in Int
  BY Facts
<1>2. current \in Nat /\ NumPhases \in Nat /\ ph \in 1 .. NumPhases /\ ph # 0
      /\ 1 .. ph = 1 .. current \cup {ph} /\ ph \notin 1 .. current
  BY <1>1, PhaseLimiterAssumption DEF Typed
<1>3. C \subseteq 1 .. current /\ ph \notin C
  BY <1>1, <1>2 DEF Typed
<1>4. /\ Sound(h, Tasks) /\ Prompt(h) /\ Users(h) = Users(global) /\ h.limit = n
      /\ Slots(h) - h.debt - h.limit = Slots(global) - global.debt - global.limit
  BY <1>1, SetLimitSound
<1>5. /\ Sound(m, Tasks) /\ Prompt(m) /\ Users(m) = {}
      /\ m.debt = 0 /\ m.limit = n /\ Slots(m) = n
  BY NewLimitSound
<1> HIDE DEF h, m
<1>6. /\ Configured' = C \cup {ph} /\ limits'[ph] = m
      /\ \A q \in C : limits'[q] = limits[q]
      /\ limits' \in [C \cup {ph} -> Limits(Tasks)]
  <2>1. limits' = [q \in C \cup {ph} |-> IF q = ph THEN m ELSE limits[q]]
    BY DEF m
  <2>2. m \in Limits(Tasks) /\ limits \in [C -> Limits(Tasks)]
    BY <1>1, <1>5 DEF Typed, Sound
  <2> HIDE DEF C
  <2>3. limits' \in [C \cup {ph} -> Limits(Tasks)]
    BY <2>1, <2>2
  <2>4. limits'[ph] = m /\ \A q \in C : limits'[q] = limits[q]
    BY <1>3, <2>1
  <2>5. Configured' = C \cup {ph}
    BY <2>1 DEF Configured
  <2> QED BY <2>3, <2>4, <2>5
<1>7. \A t \in Tasks :
        /\ place[t] \in Where /\ place[t].phase # ph /\ place[t].phase <= ph
        /\ place[t].at \in {"global", "phase"} => place[t].phase \in C
  <2> TAKE t \in Tasks
  <2>1. place[t] \in Where /\ place[t].phase <= current
        /\ (place[t].at \in {"global", "phase"} => place[t].phase \in C)
    BY <1>1 DEF Typed
  <2>2. place[t].phase \in 0 .. NumPhases
    BY <2>1 DEF Where
  <2> QED BY <1>2, <2>1, <2>2
<1>8. Typed'
  <2>1. stopped \subseteq 1 .. ph /\ C \cup {ph} \subseteq 1 .. ph
    BY <1>1, <1>2, <1>3 DEF Typed
  <2>2. ph \in 0 .. NumPhases
    BY <1>2
  <2> QED BY <1>1, <1>2, <1>6, <1>7, <2>1, <2>2 DEF Typed, PhaseLimits
<1>9. Waits(ph)' = {} /\ Holders(ph)' = {}
  BY <1>7 DEF Waits, Holders
<1>10. \A q : Waits(q)' = Waits(q) /\ Holders(q)' = Holders(q)
  BY DEF Waits, Holders
<1>11. GlobalHolders' = GlobalHolders /\ Queued' = Queued
  <2>1. \A t \in Tasks : Owns(place[t])' <=> Owns(place[t])
    BY <1>6, <1>7 DEF Owns
  <2> QED BY <2>1 DEF GlobalHolders, Queued
<1>12. GlobalOK'
  BY <1>1, <1>4, <1>11 DEF GlobalOK, h
<1>13. GlobalMissing' = GlobalMissing
  <2>1. /\ h.limit \in Nat /\ h.debt \in Nat /\ Slots(h) \in Nat
        /\ global.limit \in Nat /\ global.debt \in Nat /\ Slots(global) \in Nat
    BY <1>1, <1>4, Parts
  <2>2. GlobalUse \in Int
    BY <1>1, UseType
  <2>3. Missing(h, GlobalUse) = Missing(global, GlobalUse)
    BY <1>4, <2>1, <2>2 DEF Missing
  <2> QED BY <1>11, <2>3 DEF GlobalMissing, GlobalUse, h
<1>14. PhaseMissing(ph)' = 0
  <2>1. twice[ph] = 0
    BY <1>1, <1>2 DEF Typed, Phases
  <2>2. PhaseMissing(ph)' = Missing(m, 0)
    BY <1>6, <1>9, <2>1, FS_EmptySet DEF PhaseMissing, PhaseUse
  <2> QED BY <1>5, <2>2 DEF Missing
<1>15. \A q \in C : PhaseMissing(q)' = PhaseMissing(q)
  BY <1>6, <1>10 DEF PhaseMissing, PhaseUse
<1>16. ASSUME NEW q \in C \cup {ph} PROVE PhaseOK(q)'
  <2>1. CASE q = ph
    BY <1>5, <1>6, <1>9, <1>14, <2>1 DEF PhaseOK
  <2>2. CASE q # ph
    <3>1. PhaseOK(q) /\ limits'[q] = limits[q] /\ PhaseMissing(q)' = PhaseMissing(q)
          /\ Waits(q)' = Waits(q)
      BY <1>6, <1>10, <1>15, <2>2 DEF IInv
    <3> QED BY <3>1 DEF PhaseOK, Ramps
  <2> QED BY <2>1, <2>2
<1>17. Lost' = Lost
  <2> DEFINE f == Losses
             g == Losses'
  <2>1. /\ g[ph] = 0 /\ \A q \in C : g[q] = f[q]
    BY <1>6, <1>14, <1>15 DEF Losses
  <2>2. Lost = LostOf(C, f) /\ Lost' = LostOf(C \cup {ph}, g)
    BY <1>6 DEF Lost
  <2>3. ph \notin C
    BY <1>3
  <2> HIDE DEF f, g, C
  <2>4. LostOf(C \cup {ph}, g) = LostOf(C, f)
    BY <2>1, <2>3, LostSame
  <2> QED BY <2>2, <2>4
<1>18. LossesCovered'
  BY <1>13, <1>17 DEF IInv, LossesCovered
<1>19. Steady' = Steady
  BY DEF Steady, Cancels, Ramps, PhaseLimits
<1> QED BY <1>6, <1>8, <1>12, <1>13, <1>16, <1>18, <1>19 DEF IInv

LEMMA ConfigureForPhaseKeeps ==
  ASSUME IInv, NEW n \in PhaseLimits, ConfigureForPhase(n), UNCHANGED <<setup, twice>>
  PROVE  IInv'
<1>1. setup \in Setups
  BY DEF IInv, Typed
<1>2. n = Unlimited \/ n \in Nat
  BY <1>1, PhaseLimiterAssumption DEF PhaseLimits
<1>3. CASE n = Unlimited /\ enabled' = FALSE /\ UNCHANGED <<global, limits>>
  BY <1>3, ConfigureOffKeeps DEF ConfigureForPhase
<1>4. CASE /\ n # Unlimited /\ enabled' = TRUE
           /\ limits' = [ph \in Configured \cup {current + 1} |->
                           IF ph = current + 1 THEN NewLimit(n) ELSE limits[ph]]
           /\ global' = SetLimit(global, n)
  <2>1. current < NumPhases /\ current' = current + 1 /\ UNCHANGED <<stopped, place>>
    BY DEF ConfigureForPhase
  <2> PICK ph : ph = current + 1
    OBVIOUS
  <2>2. limits' = [q \in Configured \cup {ph} |-> IF q = ph THEN NewLimit(n) ELSE limits[q]]
    BY <1>4
  <2> QED BY <1>2, <1>4, <2>1, <2>2, ConfigureLimitKeeps
<1> QED BY <1>3, <1>4 DEF ConfigureForPhase

-----------------------------------------------------------------------------
LEMMA InitInv == Init => IInv
<1> SUFFICES ASSUME Init PROVE IInv
  OBVIOUS
<1>1. /\ setup \in Setups /\ enabled = FALSE /\ global = NewLimit(0) /\ limits = <<>>
      /\ current = 0 /\ stopped = {} /\ place = [t \in Tasks |-> Idle]
      /\ forced = {} /\ twice = [ph \in 0 .. NumPhases |-> 0]
  BY DEF Init
<1>2. Configured = {} /\ limits \in [{} -> Limits(Tasks)]
  BY <1>1 DEF Configured
<1>3. \A t \in Tasks : place[t] = Idle /\ place[t].at = "idle" /\ place[t].phase = 0
  BY <1>1, IdleWhere
<1>4. Typed
  <2>1. place \in [Tasks -> Where]
    BY <1>1, IdleWhere
  <2>2. 0 \in 0 .. NumPhases
    BY PhaseLimiterAssumption
  <2>3. /\ enabled \in BOOLEAN /\ stopped \subseteq 1 .. current
        /\ Configured \subseteq 1 .. current /\ limits \in [Configured -> Limits(Tasks)]
        /\ enabled <=> current \in Configured
    BY <1>1, <1>2
  <2>4. \A t \in Tasks :
          /\ place[t].phase <= current
          /\ place[t].at \in {"global", "phase"} => place[t].phase \in Configured
    BY <1>1, <1>3
  <2>5. twice \in [0 .. NumPhases -> Nat] /\ \A ph \in Phases \ stopped : twice[ph] = 0
    BY <1>1 DEF Phases
  <2>6. ~(current > 0) /\ setup \in Setups /\ current \in 0 .. NumPhases
    BY <1>1, <2>2
  <2> QED BY <2>1, <2>3, <2>4, <2>5, <2>6 DEF Typed
<1>5. Queued = {} /\ GlobalHolders = {}
  BY <1>3 DEF Queued, GlobalHolders, Owns
<1>6. /\ Sound(global, Tasks) /\ Prompt(global) /\ Users(global) = {}
      /\ global.debt = 0 /\ global.limit = 0 /\ Slots(global) = 0
  BY <1>1, NewLimitSound
<1>7. GlobalOK
  BY <1>5, <1>6 DEF GlobalOK
<1>8. GlobalMissing = 0
  BY <1>1, <1>5, <1>6, FS_EmptySet, PhaseLimiterAssumption DEF GlobalMissing, GlobalUse, Missing
<1>9. Lost = {}
  BY <1>2 DEF Lost, LostOf
<1>10. LossesCovered
  BY <1>8, <1>9, FS_EmptySet DEF LossesCovered
<1> QED BY <1>2, <1>4, <1>7, <1>8, <1>10 DEF IInv

-----------------------------------------------------------------------------
(* The steps in which no credit is given up: a task that moves is not      *)
(* given up and gets no slot of a stopped phase.                           *)
Quiet ==
  \A s \in Tasks : place'[s] # place[s] =>
    place'[s].at # "given" /\ (place'[s].at = "holding" => place'[s].phase \notin stopped)

LEMMA OneMoves ==
  ASSUME Typed, NEW t \in Tasks, NEW p, place' = [place EXCEPT ![t] = p],
         p.at # "given", p.at = "holding" => p.phase \notin stopped
  PROVE  Quiet
BY DEF Quiet, Typed

(* A phase that gave up its credits has none out from then on.             *)
LEMMA LateStays ==
  ASSUME Typed, Typed', Late, UNCHANGED setup, forced' \subseteq stopped',
         stopped \subseteq stopped', Configured \subseteq Configured', forced \subseteq forced',
         \A q \in stopped : Holders(q)' \subseteq Holders(q),
         \A s \in Tasks, q \in 0 .. NumPhases :
           place'[s].at = "given" /\ place'[s].phase = q => place'[s] = place[s] \/ GaveUp(q)',
         \A q \in Phases : twice'[q] = twice[q] \/ GaveUp(q)',
         twice'[0] = twice[0] \/ \E q \in Phases : GaveUp(q)'
  PROVE  Late'
<1>1. Trees' = Trees
  BY DEF Trees
<1>2. ASSUME NEW q, GaveUp(q) PROVE GaveUp(q)'
  BY <1>1, <1>2 DEF GaveUp
<1>3. ASSUME NEW s \in Tasks, NEW q, place'[s].at = "given", place'[s].phase = q
      PROVE  GaveUp(q)'
  <2>1. q \in 0 .. NumPhases
    BY <1>3 DEF Typed, Where
  <2>2. place'[s] = place[s] \/ GaveUp(q)'
    BY <1>3, <2>1
  <2>3. CASE place'[s] = place[s]
    <3>1. place[s].at = "given" /\ place[s].phase = q
      BY <1>3, <2>3
    <3>2. GaveUp(q)
      BY <3>1 DEF Late
    <3> QED BY <1>2, <3>2
  <2> QED BY <2>2, <2>3
<1>4. \A s \in Tasks : (place[s].at = "given" => GaveUp(place[s].phase))'
  BY <1>3 DEF GaveUp, Holders
<1>5. ASSUME NEW q \in Phases, twice'[q] > 0 PROVE GaveUp(q)'
  BY <1>2, <1>5 DEF Late
<1>6. ASSUME twice'[0] > 0 PROVE forced' # {} \/ Trees'
  <2>1. CASE twice'[0] = twice[0]
    BY <1>1, <1>6, <2>1 DEF Late
  <2>2. CASE \E q \in Phases : GaveUp(q)'
    BY <2>2 DEF GaveUp
  <2> QED BY <2>1, <2>2
<1> QED BY <1>4, <1>5, <1>6 DEF Late

LEMMA LateQuiet ==
  ASSUME Typed, Typed', Late, Quiet, UNCHANGED <<setup, forced, twice>>,
         stopped \subseteq stopped', Configured \subseteq Configured'
  PROVE  Late'
<1>1. ASSUME NEW q \in stopped PROVE Holders(q)' \subseteq Holders(q)
  <2>1. ASSUME NEW s \in Tasks, place'[s] = [at |-> "holding", phase |-> q]
        PROVE  place[s] = [at |-> "holding", phase |-> q]
    <3>1. place'[s].at = "holding" /\ place'[s].phase = q
      BY <2>1
    <3> QED BY <1>1, <2>1, <3>1 DEF Quiet
  <2> QED BY <2>1 DEF Holders
<1>2. \A s \in Tasks : place'[s].at = "given" => place'[s] = place[s]
  BY DEF Quiet
<1>3. forced' \subseteq stopped' /\ \A q : twice'[q] = twice[q]
  BY DEF Late
<1> QED BY <1>1, <1>2, <1>3, LateStays

(* Credits of phase ph are given up, or one that was is heard of again.    *)
LEMMA LateGivesUp ==
  ASSUME Typed, Typed', Late, NEW ph \in Configured, place' = GivenUp(ph),
         UNCHANGED <<setup, stopped>>, Configured' = Configured,
         ph \in stopped, forced \subseteq forced', forced' \subseteq stopped,
         ph \in forced' \/ Trees, \A q \in Phases \ {ph} : twice'[q] = twice[q]
  PROVE  Late'
<1>1. /\ \A t \in Tasks :
           place'[t] = IF t \in Holders(ph) THEN [at |-> "given", phase |-> ph] ELSE place[t]
      /\ \A q \in Configured \ {ph} : Holders(q)' = Holders(q)
      /\ Holders(ph)' = {}
  BY GivesUp
<1>2. ph \in Phases /\ Trees' = Trees
  BY UseType DEF Phases, Trees
<1>3. GaveUp(ph)'
  BY <1>1, <1>2 DEF GaveUp
<1>4. ASSUME NEW q \in stopped PROVE Holders(q)' \subseteq Holders(q)
  <2>1. ASSUME NEW s \in Tasks, place'[s] = [at |-> "holding", phase |-> q]
        PROVE  place[s] = [at |-> "holding", phase |-> q]
    BY <1>1, <2>1
  <2> QED BY <2>1 DEF Holders
<1>5. ASSUME NEW s \in Tasks, NEW q \in 0 .. NumPhases,
             place'[s].at = "given", place'[s].phase = q
      PROVE  place'[s] = place[s] \/ GaveUp(q)'
  <2>1. CASE s \in Holders(ph)
    <3>1. q = ph
      BY <1>1, <1>5, <2>1
    <3> QED BY <1>3, <3>1
  <2>2. CASE s \notin Holders(ph)
    BY <1>1, <2>2
  <2> QED BY <2>1, <2>2
<1>6. \A q \in Phases : twice'[q] = twice[q] \/ GaveUp(q)'
  BY <1>3
<1>7. \E q \in Phases : GaveUp(q)'
  BY <1>2, <1>3
<1> QED BY <1>4, <1>5, <1>6, <1>7, LateStays

LEMMA AgainElsewhere ==
  ASSUME Typed, NEW ph \in Phases, NEW j, Again(ph, j)
  PROVE  \A q \in Phases \ {ph} : twice'[q] = twice[q]
<1>1. \A q \in Phases : q \in 0 .. NumPhases /\ q # 0
  BY PhaseLimiterAssumption DEF Phases
<1> QED BY <1>1 DEF Again, Typed

-----------------------------------------------------------------------------
(* The steps without a release of credits that were given up.              *)
Step ==
  \/ \E n \in PhaseLimits : ConfigureForPhase(n)
  \/ \E n \in Ramps : SetPhaseLimit(n)
  \/ StopSending
  \/ \E t \in Tasks : \/ Acquire(t)
                      \/ TryAcquire(t)
                      \/ WakeFromGlobal(t)
                      \/ WakeFromPhase(t)
                      \/ CancelAcquire(t)
                      \/ Release(t)

LEMMA StepKeeps ==
  ASSUME IInv, Step, UNCHANGED <<setup, twice>>
  PROVE  IInv'
<1>1. ASSUME NEW n \in PhaseLimits, ConfigureForPhase(n) PROVE IInv'
  BY <1>1, ConfigureForPhaseKeeps
<1>2. ASSUME NEW n \in Ramps, SetPhaseLimit(n) PROVE IInv'
  BY <1>2, SetPhaseLimitKeeps
<1>3. ASSUME StopSending PROVE IInv'
  BY <1>3, StopSendingKeeps
<1>4. ASSUME NEW t \in Tasks, Acquire(t) PROVE IInv'
  BY <1>4, AcquireKeeps
<1>5. ASSUME NEW t \in Tasks, TryAcquire(t) PROVE IInv'
  BY <1>5, TryAcquireKeeps
<1>6. ASSUME NEW t \in Tasks, WakeFromGlobal(t) PROVE IInv'
  BY <1>6, WakeFromGlobalKeeps
<1>7. ASSUME NEW t \in Tasks, WakeFromPhase(t) PROVE IInv'
  BY <1>7, WakeFromPhaseKeeps
<1>8. ASSUME NEW t \in Tasks, CancelAcquire(t) PROVE IInv'
  BY <1>8, CancelAcquireKeeps
<1>9. ASSUME NEW t \in Tasks, Release(t) PROVE IInv'
  BY <1>9, ReleaseKeeps
<1> QED BY <1>1, <1>2, <1>3, <1>4, <1>5, <1>6, <1>7, <1>8, <1>9 DEF Step

LEMMA PutQuiet ==
  ASSUME Typed, NEW t \in Tasks, NEW ph, NEW a \in {"global", "phase", "holding"},
         Put(t, a, ph), a = "holding" => ph \notin stopped
  PROVE  Quiet
<1> DEFINE p == [at |-> a, phase |-> ph]
<1>1. place' = [place EXCEPT ![t] = p] /\ p.at = a /\ p.phase = ph
  BY DEF Put
<1> HIDE DEF p
<1> QED BY <1>1, OneMoves

LEMMA HaveGlobalSlotQuiet ==
  ASSUME Typed, NEW t \in Tasks, NEW ph, NEW g, HaveGlobalSlot(t, ph, g)
  PROVE  Quiet
<1>1. CASE BackOut(t, g)
  BY <1>1, IdleWhere, OneMoves DEF BackOut
<1>2. CASE Put(t, "phase", ph)
  BY <1>2, PutQuiet
<1>3. CASE ph \notin stopped /\ Put(t, "holding", ph)
  BY <1>3, PutQuiet
<1> QED BY <1>1, <1>2, <1>3 DEF HaveGlobalSlot

LEMMA StepQuiet ==
  ASSUME Typed, Step
  PROVE  Quiet
<1>1. ASSUME UNCHANGED place PROVE Quiet
  BY <1>1 DEF Quiet
<1>2. ASSUME NEW t \in Tasks, place' = [place EXCEPT ![t] = Idle] PROVE Quiet
  BY <1>2, IdleWhere, OneMoves
<1>3. ASSUME NEW t \in Tasks, NEW ph, ph \notin stopped, Put(t, "holding", ph) PROVE Quiet
  BY <1>3, PutQuiet
<1>4. ASSUME NEW t \in Tasks, NEW ph, Put(t, "global", ph) PROVE Quiet
  BY <1>4, PutQuiet
<1>5. ASSUME NEW n \in PhaseLimits, ConfigureForPhase(n) PROVE Quiet
  BY <1>1, <1>5 DEF ConfigureForPhase
<1>6. ASSUME NEW n \in Ramps, SetPhaseLimit(n) PROVE Quiet
  BY <1>1, <1>6 DEF SetPhaseLimit
<1>7. ASSUME StopSending PROVE Quiet
  BY <1>1, <1>7 DEF StopSending
<1>8. ASSUME NEW t \in Tasks, Acquire(t) PROVE Quiet
  BY <1>3, <1>4, <1>8, HaveGlobalSlotQuiet DEF Acquire
<1>9. ASSUME NEW t \in Tasks, TryAcquire(t) PROVE Quiet
  BY <1>1, <1>3, <1>9 DEF TryAcquire
<1>10. ASSUME NEW t \in Tasks, WakeFromGlobal(t) PROVE Quiet
  BY <1>10, HaveGlobalSlotQuiet DEF WakeFromGlobal
<1>11. ASSUME NEW t \in Tasks, WakeFromPhase(t) PROVE Quiet
  BY <1>2, <1>3, <1>11 DEF WakeFromPhase
<1>12. ASSUME NEW t \in Tasks, CancelAcquire(t) PROVE Quiet
  BY <1>2, <1>12 DEF CancelAcquire
<1>13. ASSUME NEW t \in Tasks, Release(t) PROVE Quiet
  BY <1>2, <1>13 DEF Release
<1> QED BY <1>5, <1>6, <1>7, <1>8, <1>9, <1>10, <1>11, <1>12, <1>13 DEF Step

(* Phases are configured and stopped once and for all.                     *)
LEMMA StepGrows ==
  ASSUME Typed, Step
  PROVE  stopped \subseteq stopped' /\ Configured \subseteq Configured'
<1>1. limits \in [Configured -> Limits(Tasks)]
  BY DEF Typed
<1>2. ASSUME NEW ph, NEW m, limits' = [limits EXCEPT ![ph] = m]
      PROVE  Configured' = Configured
  BY <1>2 DEF Configured
<1>3. ASSUME limits' = limits PROVE Configured' = Configured
  BY <1>3 DEF Configured
<1>4. ASSUME NEW n \in PhaseLimits, ConfigureForPhase(n)
      PROVE  stopped \subseteq stopped' /\ Configured \subseteq Configured'
  BY <1>4 DEF ConfigureForPhase, Configured
<1>5. ASSUME NEW n \in Ramps, SetPhaseLimit(n)
      PROVE  stopped' = stopped /\ Configured' = Configured
  BY <1>2, <1>5 DEF SetPhaseLimit
<1>6. ASSUME StopSending
      PROVE  stopped \subseteq stopped' /\ Configured' = Configured
  BY <1>3, <1>6 DEF StopSending
<1>7. ASSUME NEW t, NEW ph, NEW g, HaveGlobalSlot(t, ph, g)
      PROVE  Configured' = Configured
  BY <1>2, <1>3, <1>7 DEF HaveGlobalSlot, BackOut
<1>8. ASSUME NEW t \in Tasks, Acquire(t)
      PROVE  stopped' = stopped /\ Configured' = Configured
  BY <1>3, <1>7, <1>8 DEF Acquire
<1>9. ASSUME NEW t \in Tasks, TryAcquire(t)
      PROVE  stopped' = stopped /\ Configured' = Configured
  BY <1>2, <1>3, <1>9 DEF TryAcquire
<1>10. ASSUME NEW t \in Tasks, WakeFromGlobal(t)
       PROVE  stopped' = stopped /\ Configured' = Configured
  BY <1>7, <1>10 DEF WakeFromGlobal
<1>11. ASSUME NEW t \in Tasks, WakeFromPhase(t)
       PROVE  stopped' = stopped /\ Configured' = Configured
  BY <1>2, <1>11 DEF WakeFromPhase
<1>12. ASSUME NEW t \in Tasks, CancelAcquire(t)
       PROVE  stopped' = stopped /\ Configured' = Configured
  BY <1>2, <1>3, <1>12 DEF CancelAcquire
<1>13. ASSUME NEW t \in Tasks, Release(t)
       PROVE  stopped' = stopped /\ Configured' = Configured
  BY <1>2, <1>3, <1>13 DEF Release
<1> QED BY <1>4, <1>5, <1>6, <1>8, <1>9, <1>10, <1>11, <1>12, <1>13 DEF Step

(* The invariant: slots are accounted for, and who released some twice.    *)
FullInv == IInv /\ Late

LEMMA ReleaseStuckSlotsInv ==
  ASSUME FullInv, NEW ph \in Phases, ReleaseStuckSlots(ph), UNCHANGED setup
  PROVE  FullInv'
<1>1. IInv /\ Late /\ Typed
  BY DEF FullInv, IInv
<1>2. IInv' /\ Typed'
  <2>1. twice[ph] > 0 => Holders(ph) = {}
    BY <1>1 DEF Late, GaveUp
  <2> QED BY <1>1, <2>1, ReleaseStuckSlotsKeeps DEF IInv
<1>3. /\ ph \in stopped /\ forced' = forced \cup {ph}
      /\ UNCHANGED <<setup, enabled, current, stopped>>
  BY DEF ReleaseStuckSlots
<1>4. forced \subseteq forced' /\ forced' \subseteq stopped
  BY <1>1, <1>3 DEF Late
<1>5. CASE UNCHANGED <<global, limits, place, twice>>
  <2>1. Configured' = Configured /\ \A q : Holders(q)' = Holders(q)
    BY <1>5 DEF Configured, Holders
  <2>2. /\ \A s \in Tasks : place'[s] = place[s]
        /\ \A q : twice'[q] = twice[q]
    BY <1>5
  <2> QED BY <1>1, <1>2, <1>3, <1>4, <2>1, <2>2, LateStays DEF FullInv
<1>6. CASE /\ ph \in Configured /\ FreeSlots(ph, HeldSlots(ph))
           /\ \E j : Again(ph, j)
  <2>1. \A q \in Phases \ {ph} : twice'[q] = twice[q]
    BY <1>1, <1>6, AgainElsewhere
  <2>2. place' = GivenUp(ph) /\ Configured' = Configured
    BY <1>1, <1>6 DEF FreeSlots, Typed, Configured
  <2>3. ph \in forced'
    BY <1>3
  <2> QED BY <1>1, <1>2, <1>3, <1>4, <1>6, <2>1, <2>2, <2>3, LateGivesUp DEF FullInv
<1> QED BY <1>5, <1>6 DEF ReleaseStuckSlots

LEMMA ReleaseTreesInv ==
  ASSUME FullInv, NEW ph \in Phases, ReleaseTrees(ph), UNCHANGED setup
  PROVE  FullInv'
<1>1. IInv /\ Late /\ Typed
  BY DEF FullInv, IInv
<1>2. IInv' /\ Typed'
  BY <1>1, ReleaseTreesKeeps DEF IInv
<1>3. /\ Trees /\ ph \in stopped /\ ph \in Configured
      /\ UNCHANGED <<setup, stopped, forced, twice>>
  BY DEF ReleaseTrees
<1>4. place' = GivenUp(ph) /\ Configured' = Configured
  BY <1>1 DEF ReleaseTrees, FreeSlots, Typed, Configured
<1>5. forced' \subseteq stopped /\ \A q \in Phases \ {ph} : twice'[q] = twice[q]
  BY <1>1, <1>3 DEF Late
<1> QED BY <1>1, <1>2, <1>3, <1>4, <1>5, LateGivesUp DEF FullInv

LEMMA LateReleaseInv ==
  ASSUME FullInv, NEW t \in Tasks, LateRelease(t) \/ Ignored(t), UNCHANGED setup
  PROVE  FullInv'
<1> PICK ph : ph = place[t].phase
  OBVIOUS
<1>1. IInv /\ Late /\ Typed
  BY DEF FullInv, IInv
<1>2. /\ place[t].at = "given" /\ place' = [place EXCEPT ![t] = Idle]
      /\ UNCHANGED <<setup, enabled, current, stopped, forced>>
  BY DEF LateRelease, Ignored
<1>3. GaveUp(ph) /\ ph \in stopped \cap Configured /\ ph \in Phases
  <2>1. GaveUp(ph)
    BY <1>1, <1>2 DEF Late
  <2> QED BY <1>1, <2>1, UseType DEF GaveUp, Phases
<1>4. IInv' /\ Typed'
  <2>1. CASE LateRelease(t)
    BY <1>1, <1>3, <2>1, LateReleaseKeeps DEF IInv
  <2>2. CASE Ignored(t)
    BY <1>1, <1>2, <2>2, LeavesQuietly DEF Ignored, IInv
  <2> QED BY <2>1, <2>2
<1>5. Configured' = Configured
  BY <1>1 DEF LateRelease, Ignored, Typed, Configured
<1>6. \A q : Holders(q)' = Holders(q)
  BY <1>1, <1>2, <1>5, LeavesGiven
<1>7. \A s \in Tasks : place'[s].at = "given" => place'[s] = place[s]
  BY <1>1, <1>2, IdleWhere DEF Typed
<1>8. GaveUp(ph)'
  <2>1. Trees' = Trees
    BY DEF Trees
  <2> QED BY <1>2, <1>3, <1>5, <1>6, <2>1 DEF GaveUp
<1>9. \A q \in Phases \ {ph} : twice'[q] = twice[q]
  <2>1. UNCHANGED twice \/ Again(ph, 1)
    BY DEF LateRelease, Ignored
  <2> QED BY <1>1, <1>3, <2>1, AgainElsewhere
<1>10. forced' \subseteq stopped'
  BY <1>1, <1>2 DEF Late
<1> QED BY <1>1, <1>2, <1>3, <1>4, <1>5, <1>6, <1>7, <1>8, <1>9, <1>10, LateStays DEF FullInv

(* Every step keeps the invariant. *)
LEMMA StepInv == FullInv /\ [Next]_vars => FullInv'
<1> SUFFICES ASSUME FullInv, [Next]_vars PROVE FullInv'
  OBVIOUS
<1>1. IInv /\ Late /\ Typed
  BY DEF FullInv, IInv
<1>2. CASE UNCHANGED vars
  <2>1. IInv' /\ Typed'
    BY <1>1, <1>2, NothingMoves DEF vars, IInv
  <2>2. Quiet /\ Configured' = Configured
    BY <1>2 DEF vars, Quiet, Configured
  <2> QED BY <1>1, <1>2, <2>1, <2>2, LateQuiet DEF vars, FullInv
<1>3. CASE Next
  <2>1. UNCHANGED setup
    BY <1>3 DEF Next
  <2>2. CASE Step /\ UNCHANGED <<forced, twice>>
    <3>1. IInv' /\ Typed'
      BY <1>1, <2>1, <2>2, StepKeeps DEF IInv
    <3>2. Quiet /\ stopped \subseteq stopped' /\ Configured \subseteq Configured'
      BY <1>1, <2>2, StepQuiet, StepGrows
    <3> QED BY <1>1, <2>1, <2>2, <3>1, <3>2, LateQuiet DEF FullInv
  <2>3. ASSUME NEW ph \in Phases, ReleaseStuckSlots(ph) PROVE FullInv'
    BY <2>1, <2>3, ReleaseStuckSlotsInv
  <2>4. ASSUME NEW ph \in Phases, ReleaseTrees(ph) PROVE FullInv'
    BY <2>1, <2>4, ReleaseTreesInv
  <2>5. ASSUME NEW t \in Tasks, LateRelease(t) \/ Ignored(t) PROVE FullInv'
    BY <2>1, <2>5, LateReleaseInv
  <2> QED BY <1>3, <2>2, <2>3, <2>4, <2>5 DEF Next, Step
<1> QED BY <1>2, <1>3

LEMMA Invariance == Spec => []FullInv
<1>1. Init => FullInv
  <2> SUFFICES ASSUME Init PROVE Late
    BY InitInv DEF FullInv
  <2>1. /\ \A t \in Tasks : place[t] = Idle
        /\ forced = {} /\ stopped = {} /\ twice = [q \in 0 .. NumPhases |-> 0]
    BY DEF Init
  <2>2. \A ph \in Phases : twice[ph] = 0
    BY <2>1 DEF Phases
  <2>3. twice[0] = 0
    BY <2>1, PhaseLimiterAssumption
  <2>4. \A t \in Tasks : place[t].at # "given"
    BY <2>1, IdleWhere
  <2>5. \A ph \in Phases : ~(twice[ph] > 0)
    BY <2>2
  <2>6. ~(twice[0] > 0) /\ forced \subseteq stopped
    BY <2>1, <2>3
  <2> QED BY <2>4, <2>5, <2>6 DEF Late
<1> QED BY <1>1, StepInv, PTL DEF Spec

-----------------------------------------------------------------------------
(* The slots of a limit l are its free ones, those handed over and those   *)
(* of its holders H; a task that was handed one does not hold another.     *)
LEMMA Balance ==
  ASSUME NEW l, Sound(l, Tasks), NEW H \in SUBSET Tasks, H \cap Users(l) = {},
         NEW n \in Nat
  PROVE  /\ Cardinality(H \cup l.woken) \in Nat
         /\ l.value + Cardinality(H \cup l.woken)
              = l.limit + l.debt + n - Missing(l, Cardinality(H) - n)
<1>1. /\ l.limit \in Nat /\ l.debt \in Nat /\ l.value \in Nat /\ l.woken \subseteq Tasks
      /\ IsFiniteSet(l.woken) /\ Cardinality(l.woken) \in Nat
  BY PhaseLimiterAssumption, Parts
<1>2. IsFiniteSet(H) /\ Cardinality(H) \in Nat
  BY Finite
<1>3. H \cap l.woken = {}
  BY DEF Users
<1>4. Cardinality(H \cup l.woken) = Cardinality(H) + Cardinality(l.woken)
  <2>1. Cardinality(H \cap l.woken) = 0
    BY <1>3, FS_EmptySet
  <2>2. Cardinality(H \cup l.woken)
          = Cardinality(H) + Cardinality(l.woken) - Cardinality(H \cap l.woken)
    BY <1>1, <1>2, FS_Union
  <2> QED BY <1>1, <1>2, <2>1, <2>2
<1> QED BY <1>1, <1>2, <1>4 DEF Missing, Slots

LEMMA PhaseBalance ==
  ASSUME IInv, NEW ph \in Configured
  PROVE  /\ limits[ph].value \in Nat /\ limits[ph].limit \in Nat /\ limits[ph].debt \in Nat
         /\ Cardinality(PhaseSlots(ph)) \in Nat /\ twice[ph] \in Nat
         /\ limits[ph].value + Cardinality(PhaseSlots(ph))
              = limits[ph].limit + limits[ph].debt + twice[ph] - PhaseMissing(ph)
<1>1. /\ Sound(limits[ph], Tasks) /\ Users(limits[ph]) = Waits(ph)
      /\ Holders(ph) \in SUBSET Tasks /\ Typed
  BY Facts
<1>2. Holders(ph) \cap Waits(ph) = {}
  BY DEF Holders, Waits
<1>3. limits[ph].value \in Nat /\ limits[ph].limit \in Nat /\ limits[ph].debt \in Nat
  BY <1>1, PhaseLimiterAssumption, Parts
<1> DEFINE l == limits[ph]
           H == Holders(ph)
           n == twice[ph]
<1>4. H \cap Users(l) = {} /\ Sound(l, Tasks) /\ H \in SUBSET Tasks
  BY <1>1, <1>2
<1>5. PhaseSlots(ph) = H \cup l.woken /\ PhaseMissing(ph) = Missing(l, Cardinality(H) - n)
  BY DEF PhaseSlots, PhaseMissing, PhaseUse
<1>6. n \in Nat
  BY <1>1, UseType, PhaseLimiterAssumption DEF Typed
<1> HIDE DEF l, H, n
<1>7. /\ Cardinality(H \cup l.woken) \in Nat
      /\ l.value + Cardinality(H \cup l.woken)
           = l.limit + l.debt + n - Missing(l, Cardinality(H) - n)
  BY <1>4, <1>6, Balance
<1> QED BY <1>3, <1>5, <1>6, <1>7 DEF l, n

LEMMA GlobalBalance ==
  ASSUME IInv
  PROVE  /\ global.value \in Nat /\ global.limit \in Nat /\ global.debt \in Nat
         /\ Cardinality(GlobalSlots) \in Nat /\ GlobalMissing \in Int /\ twice[0] \in Nat
         /\ global.value + Cardinality(GlobalSlots)
              = global.limit + global.debt + twice[0] - GlobalMissing
<1> DEFINE H == GlobalHolders
           n == twice[0]
<1>1. /\ Sound(global, Tasks) /\ Users(global) = Queued /\ H \in SUBSET Tasks
      /\ GlobalMissing \in Int /\ Typed
  BY Facts
<1>2. H \cap Users(global) = {}
  BY <1>1 DEF GlobalHolders, Owns, Queued
<1>3. global.value \in Nat /\ global.limit \in Nat /\ global.debt \in Nat /\ n \in Nat
  BY <1>1, PhaseLimiterAssumption, Parts DEF Typed
<1>4. /\ GlobalSlots = H \cup global.woken
      /\ GlobalMissing = Missing(global, Cardinality(H) - n)
  BY DEF GlobalSlots, GlobalMissing, GlobalUse, GlobalHolders, Owns
<1> HIDE DEF H, n
<1>5. /\ Cardinality(H \cup global.woken) \in Nat
      /\ global.value + Cardinality(H \cup global.woken)
           = global.limit + global.debt + n - Missing(global, Cardinality(H) - n)
  BY <1>1, <1>2, <1>3, Balance
<1> QED BY <1>1, <1>3, <1>4, <1>5 DEF n

(* While every limit is a number that only changes between phases and no   *)
(* wait is cancelled, free and owned slots of either layer are the limit   *)
(* and its debt, plus exactly the slots that were released twice, whatever *)
(* phases are given up and however late their credits are heard of.        *)
THEOREM ConservationThm == Spec => []Conservation
<1>1. FullInv => Conservation
  <2> SUFFICES ASSUME IInv, Late PROVE Conservation
    BY DEF FullInv
  <2>1. TypeOK
    <3>1. /\ Typed /\ Sound(global, Tasks) /\ global \in Limits(Tasks)
          /\ \A ph \in Configured : limits[ph] \in Limits(Tasks)
      BY Facts DEF Sound
    <3>2. Limit = Limits(Tasks)
      BY DEF Limit, Limits
    <3>3. current \in 0 .. NumPhases /\ 1 .. current \subseteq Phases
      BY <3>1, PhaseLimiterAssumption DEF Typed, Phases
    <3>4. forced \subseteq stopped
      BY DEF Late
    <3> QED BY <3>1, <3>2, <3>3, <3>4 DEF TypeOK, Typed, Where
  <2>2. ASSUME Steady PROVE PhaseConservation
    <3>1. ASSUME NEW ph \in Configured
          PROVE  limits[ph].value + Cardinality(PhaseSlots(ph))
                   = limits[ph].limit + limits[ph].debt + twice[ph]
      <4>1. PhaseMissing(ph) = 0
        BY <2>2, NothingLost
      <4> QED BY <4>1, PhaseBalance
    <3> QED BY <3>1 DEF PhaseConservation
  <2>3. ASSUME Steady PROVE GlobalConservation
    <3>1. GlobalMissing = 0
      BY <2>3 DEF IInv
    <3> QED BY <3>1, GlobalBalance DEF GlobalConservation
  <2> QED BY <2>1, <2>2, <2>3 DEF Conservation
<1> QED BY <1>1, Invariance, PTL

(* Cancelled waits and limits of None make no slot up, and what is         *)
(* released twice is what a stopped phase gave up: nothing is, as long as  *)
(* no phase is completed by force or leaves its run() with sessions open.  *)
THEOREM NoSlotMadeUpThm == Spec => []NoSlotMadeUp
<1>1. FullInv => NoSlotMadeUp
  <2> SUFFICES ASSUME IInv, Late PROVE NoSlotMadeUp
    BY DEF FullInv
  <2>1. GlobalMissing >= 0
    <3>1. Cardinality(Lost) \in Nat /\ Cardinality(Lost) <= GlobalMissing
      BY FS_CardinalityType DEF IInv, LossesCovered
    <3> QED BY <3>1, GlobalBalance
  <2>2. global.value + Cardinality(GlobalSlots) <= global.limit + global.debt + twice[0]
    BY <2>1, GlobalBalance
  <2>3. ASSUME NEW ph \in Configured
        PROVE  limits[ph].value + Cardinality(PhaseSlots(ph))
                 <= limits[ph].limit + limits[ph].debt + twice[ph]
    <3>1. PhaseMissing(ph) \in Int /\ PhaseMissing(ph) >= 0
      BY Facts
    <3> QED BY <3>1, PhaseBalance
  <2>4. \A ph \in Phases : twice[ph] > 0 => ph \in stopped /\ (ph \in forced \/ Trees)
    BY DEF Late, GaveUp
  <2>5. twice[0] > 0 => forced # {} \/ Trees
    BY DEF Late
  <2> QED BY <2>2, <2>3, <2>4, <2>5 DEF NoSlotMadeUp
<1> QED BY <1>1, Invariance, PTL

(* The phase's own limit holds at every moment, however many the global    *)
(* limit lets through while it owes slots of the phase before or has some  *)
(* that were released twice.                                               *)
THEOREM PhaseLimitIsHardThm == Spec => []PhaseLimitIsHard
<1>1. FullInv => PhaseLimitIsHard
  <2> SUFFICES ASSUME IInv, Late, Steady, NEW ph \in Configured
               PROVE  /\ Cardinality(Holders(ph)) <= limits[ph].limit
                      /\ ph \notin stopped \/ twice[ph] = 0 =>
                           Cardinality(PhaseSlots(ph)) <= limits[ph].limit
    BY DEF FullInv, PhaseLimitIsHard
  <2>1. PhaseMissing(ph) = 0 /\ limits[ph].debt = 0
    BY NothingLost
  <2>2. Typed /\ ph \in Phases
    BY Facts, UseType DEF Phases
  <2>3. twice[ph] = 0 => Cardinality(PhaseSlots(ph)) <= limits[ph].limit
    BY <2>1, PhaseBalance
  <2>4. ph \notin stopped => twice[ph] = 0
    BY <2>2 DEF Typed
  <2>5. CASE twice[ph] = 0
    <3>1. Sound(limits[ph], Tasks) /\ limits[ph].woken \subseteq Tasks
      BY Facts, PhaseLimiterAssumption, Parts
    <3>2. Holders(ph) \subseteq PhaseSlots(ph) /\ PhaseSlots(ph) \in SUBSET Tasks
      BY <3>1 DEF PhaseSlots, Holders
    <3>3. IsFiniteSet(PhaseSlots(ph))
      BY <3>2, Finite
    <3>4. Cardinality(Holders(ph)) <= Cardinality(PhaseSlots(ph))
      BY <3>2, <3>3, FS_Subset
    <3>5. Cardinality(Holders(ph)) \in Nat
      BY Finite DEF Holders
    <3> QED BY <2>3, <2>5, <3>4, <3>5, PhaseBalance
  <2>6. CASE twice[ph] # 0
    <3>1. twice[ph] > 0
      BY <2>6, PhaseBalance
    <3>2. Holders(ph) = {}
      BY <2>2, <3>1 DEF Late, GaveUp
    <3>3. Cardinality(Holders(ph)) = 0
      BY <3>2, FS_EmptySet
    <3>4. ph \in stopped
      BY <2>4, <2>6
    <3> QED BY <2>6, <3>3, <3>4, PhaseBalance
  <2> QED BY <2>3, <2>4, <2>5, <2>6
<1> QED BY <1>1, Invariance, PTL
=============================================================================
