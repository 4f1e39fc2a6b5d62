------------------------- MODULE CreditPhase_proofs -------------------------
(***************************************************************************)
(* What a credit phase promises, for any plan, any number of sessions and  *)
(* turns and any limits: its counters and slots agree with what is really  *)
(* out there, it completes drained unless it was cut short, and it keeps   *)
(* the contract of PhaseContract.                                          *)
(*                                                                         *)
(* Cardinalities change by one when one session moves: Census counts the   *)
(* sessions whose record is of a kind, and the Census lemmas say what a    *)
(* move does to it.  The books then balance step by step (Books, Turns),   *)
(* provided that a session is where the loop and the queue think it is     *)
(* (Places), and that nothing is sent once the count is frozen (Stages).   *)
(***************************************************************************)
EXTENDS CreditPhase, FiniteSetTheorems, TLAPS

(* The records that VARIABLES hold, and the types of all of them.          *)
Session == [at : Status, turns : 0 .. MaxTurns, sent : 0 .. MaxTurns]

Counts == [sent : Nat, completed : Nat, cancelled : Nat, sentSessions : Nat,
           completedSessions : Nat, cancelledSessions : Nat, totalTurns : Nat,
           prefillsReleased : Nat, finalSent : Nat \cup {None}]

Loop == [at : {"off", "ready", "prefill", "sending", "over"},
         session : 0 .. MaxSessions, final : BOOLEAN]

Typed ==
  /\ plan \in Plans
  /\ life \in {"created", "started", "sending_complete", "complete"}
  /\ cancelled \in BOOLEAN /\ timeUp \in BOOLEAN
  /\ sentEvent \in BOOLEAN /\ returnedEvent \in BOOLEAN
  /\ count \in Counts
  /\ sess \in [Sessions -> Session]
  /\ lost \in SUBSET Sessions
  /\ queue \in Seq(Sessions)
  /\ loop \in Loop
  /\ runner \in {"created", "sending", "returning", "waiting", "cancelling",
                 "draining", "over"}
  /\ sessionFree \in Nat /\ prefillFree \in Nat

(* freeze_sent_counts() was called.                                        *)
Frozen == count.finalSent # None

(* The runner, the life cycle and the loop keep step; the count is frozen  *)
(* when the loop is over for good, and the event is set only when all is   *)
(* back.                                                                   *)
Stages ==
  /\ runner = "created" <=> life = "created"
  /\ runner = "sending" <=> life = "started"
  /\ runner = "over" <=> life = "complete"
  /\ life = "created" <=> loop.at = "off"
  /\ loop.at \in {"ready", "prefill", "sending"} => life = "started"
  /\ Frozen => loop.at = "over" /\ count.finalSent = count.sent
  /\ life \in {"sending_complete", "complete"} => Frozen
  /\ returnedEvent /\ life # "complete" => AllReturned(count)

(* The sessions begin in order, and between two turns a session has one    *)
(* more to send.                                                           *)
PlaceOf(s) ==
  /\ sess[s].at = "new" <=> s > count.sentSessions
  /\ IF sess[s].at = "new" THEN sess[s].sent = 0
                           ELSE 1 <= sess[s].sent /\ sess[s].sent <= sess[s].turns
  /\ sess[s].at \in {"delay", "queue", "held"} => sess[s].sent < sess[s].turns

(* The queue holds sessions that wait in it, each once, and the loop the   *)
(* one that waits for its prefill slot.                                    *)
Places ==
  /\ \A s \in Sessions : PlaceOf(s)
  /\ \A i \in 1 .. Len(queue) : sess[queue[i]].at = "queue"
  /\ \A i, j \in 1 .. Len(queue) : i # j => queue[i] # queue[j]
  /\ loop.at = "prefill" => loop.session \in Sessions /\ sess[loop.session].at = "held"

(* How many sessions of the board f have a record in R.                    *)
Census(f, R) == Cardinality({s \in Sessions : f[s] \in R})

(* The sessions with a credit out, with a prefill slot, with a session     *)
(* slot.                                                                   *)
FlightKind == {r \in Session : r.at \in {"prefill", "decode"}}
PrefillKind == {r \in Session : r.at = "prefill"}
OpenKind == {r \in Session : r.sent > 0 /\ r.at # "done"}

(* The counters and the free slots against the census, until the phase     *)
(* completes.  The sessions that the last return cut short gave their      *)
(* slots back with it.                                                     *)
Books ==
  life # "complete" =>
    /\ count.sent - count.completed - count.cancelled = Census(sess, FlightKind)
    /\ count.sent - count.prefillsReleased = Census(sess, PrefillKind)
    /\ PrefillSlots - prefillFree = Census(sess, PrefillKind)
    /\ InFlightSessions(count) = Census(sess, OpenKind)
    /\ \/ SessionSlots - sessionFree = Census(sess, OpenKind)
       \/ returnedEvent /\ sessionFree = SessionSlots

(* The turns that were sent, one by one: count.sent is their number.       *)
TurnsSent(f) == {c \in Sessions \X (1 .. MaxTurns) : c[2] <= f[c[1]].sent}

Turns == count.sent = Cardinality(TurnsSent(sess))

(* The inductive invariant.                                                *)
IInv == Typed /\ Stages /\ Places /\ Books /\ Turns /\ CapsRespected

-----------------------------------------------------------------------------
(* The parameters are natural numbers, and None is not.                    *)
LEMMA Params ==
  /\ MaxTurns \in Nat \ {0} /\ MaxSessions \in Nat \ {0}
  /\ SessionSlots \in Nat /\ PrefillSlots \in Nat /\ None \notin Nat
BY CreditPhaseAssumption

(* There are finitely many sessions of any kind.                           *)
LEMMA CensusFinite ==
  ASSUME NEW f, NEW R
  PROVE  IsFiniteSet({s \in Sessions : f[s] \in R})
<1>1. IsFiniteSet(Sessions)
  BY Params, FS_Interval DEF Sessions
<1>2. {s \in Sessions : f[s] \in R} \in SUBSET Sessions
  OBVIOUS
<1> QED BY <1>1, <1>2, FS_Subset

(* So a census is a natural number.                                        *)
LEMMA CensusNat ==
  ASSUME NEW f, NEW R
  PROVE  Census(f, R) \in Nat
BY CensusFinite, FS_CardinalityType DEF Census

(* It is 0 exactly when there is no session of the kind.                   *)
LEMMA CensusEmpty ==
  ASSUME NEW f, NEW R
  PROVE  Census(f, R) = 0 <=> \A s \in Sessions : f[s] \notin R
BY CensusFinite, FS_EmptySet DEF Census

(* It stays when every session stays of the kind, or out of it.            *)
LEMMA CensusSame ==
  ASSUME NEW f, NEW g, NEW R, \A s \in Sessions : g[s] \in R <=> f[s] \in R
  PROVE  Census(g, R) = Census(f, R)
<1>1. {s \in Sessions : g[s] \in R} = {s \in Sessions : f[s] \in R}
  OBVIOUS
<1> QED BY <1>1 DEF Census

(* It grows by one when one session becomes of the kind.                   *)
LEMMA CensusGains ==
  ASSUME NEW f, NEW g, NEW s \in Sessions, NEW R, \A q \in Sessions \ {s} : g[q] = f[q],
         g[s] \in R, f[s] \notin R
  PROVE  Census(g, R) = Census(f, R) + 1
<1> DEFINE A == {q \in Sessions : f[q] \in R}
<1>1. {q \in Sessions : g[q] \in R} = A \cup {s}
  OBVIOUS
<1>2. IsFiniteSet(A) /\ s \notin A
  BY CensusFinite
<1>3. Cardinality(A \cup {s}) = Cardinality(A) + 1
  BY <1>2, FS_AddElement
<1> QED BY <1>1, <1>3 DEF Census

(* It shrinks by one when one session ceases to be of the kind.            *)
LEMMA CensusLoses ==
  ASSUME NEW f, NEW g, NEW s \in Sessions, NEW R, \A q \in Sessions \ {s} : g[q] = f[q],
         g[s] \notin R, f[s] \in R
  PROVE  Census(g, R) = Census(f, R) - 1
<1> DEFINE A == {q \in Sessions : f[q] \in R}
<1>1. {q \in Sessions : g[q] \in R} = A \ {s}
  OBVIOUS
<1>2. IsFiniteSet(A) /\ s \in A
  BY CensusFinite
<1>3. Cardinality(A \ {s}) = Cardinality(A) - 1
  BY <1>2, FS_RemoveElement
<1> QED BY <1>1, <1>3 DEF Census

(* Finitely many turns are sent.                                           *)
LEMMA TurnsFinite ==
  ASSUME NEW f
  PROVE  IsFiniteSet(TurnsSent(f)) /\ Cardinality(TurnsSent(f)) \in Nat
<1>1. IsFiniteSet(Sessions) /\ IsFiniteSet(1 .. MaxTurns)
  BY Params, FS_Interval DEF Sessions
<1>2. IsFiniteSet(Sessions \X (1 .. MaxTurns))
  BY <1>1, FS_Product
<1>3. TurnsSent(f) \in SUBSET (Sessions \X (1 .. MaxTurns))
  BY DEF TurnsSent
<1>4. IsFiniteSet(TurnsSent(f))
  BY <1>2, <1>3, FS_Subset
<1> QED BY <1>4, FS_CardinalityType

(* A move that sends nothing leaves the turns sent.                        *)
LEMMA TurnsSame ==
  ASSUME NEW f, NEW g, \A s \in Sessions : g[s].sent = f[s].sent
  PROVE  TurnsSent(g) = TurnsSent(f)
BY DEF TurnsSent

(* A session that sends its next turn adds one to them.                    *)
LEMMA TurnsNext ==
  ASSUME NEW f \in [Sessions -> Session], NEW s \in Sessions, NEW r \in Session,
         r.sent = f[s].sent + 1, NEW g, g = [f EXCEPT ![s] = r]
  PROVE  Cardinality(TurnsSent(g)) = Cardinality(TurnsSent(f)) + 1
<1> DEFINE new == <<s, r.sent>>
<1>1. f[s].sent \in 0 .. MaxTurns /\ r.sent \in 0 .. MaxTurns /\ r.sent \in 1 .. MaxTurns
  BY Params DEF Session
<1>2. TurnsSent(g) = TurnsSent(f) \cup {new}
  <2>1. ASSUME NEW c \in Sessions \X (1 .. MaxTurns)
        PROVE  c \in TurnsSent(g) <=> c \in TurnsSent(f) \/ c = new
    <3>1. PICK q \in Sessions, k \in 1 .. MaxTurns : c = <<q, k>>
      OBVIOUS
    <3>2. c[1] = q /\ c[2] = k
      BY <3>1
    <3>3. CASE q = s
      BY <1>1, <3>1, <3>2, <3>3 DEF TurnsSent
    <3>4. CASE q # s
      BY <3>1, <3>2, <3>4 DEF TurnsSent
    <3> QED BY <3>3, <3>4
  <2>2. new \in Sessions \X (1 .. MaxTurns)
    BY <1>1
  <2> QED BY <2>1, <2>2 DEF TurnsSent
<1>3. new \notin TurnsSent(f)
  BY <1>1 DEF TurnsSent
<1> QED BY <1>2, <1>3, TurnsFinite, FS_AddElement

-----------------------------------------------------------------------------
(* The board after a session moved.                                        *)
LEMMA Moved ==
  ASSUME Typed, NEW s \in Sessions, NEW w \in Status
  PROVE  /\ Move(s, w) \in [Sessions -> Session]
         /\ Move(s, w) = [sess EXCEPT ![s] = [at |-> w, turns |-> sess[s].turns,
                                              sent |-> sess[s].sent]]
         /\ [at |-> w, turns |-> sess[s].turns, sent |-> sess[s].sent] \in Session
<1>1. sess[s] \in Session
  BY DEF Typed
<1>2. [sess[s] EXCEPT !.at = w]
        = [at |-> w, turns |-> sess[s].turns, sent |-> sess[s].sent]
  BY <1>1 DEF Session
<1>3. [at |-> w, turns |-> sess[s].turns, sent |-> sess[s].sent] \in Session
  BY <1>1 DEF Session
<1> QED BY <1>2, <1>3 DEF Move, Typed

(* The types of the fields that the arithmetic below is about.             *)
LEMMA Fields ==
  ASSUME Typed
  PROVE  /\ count.sent \in Nat /\ count.completed \in Nat /\ count.cancelled \in Nat
         /\ count.sentSessions \in Nat /\ count.completedSessions \in Nat
         /\ count.cancelledSessions \in Nat /\ count.totalTurns \in Nat
         /\ count.prefillsReleased \in Nat /\ count.finalSent \in Nat \cup {None}
         /\ \A s \in Sessions : /\ sess[s] \in Session /\ sess[s].at \in Status
                                /\ sess[s].turns \in Nat /\ sess[s].sent \in Nat
                                /\ sess[s].turns <= MaxTurns /\ sess[s].sent <= MaxTurns
BY Params DEF Typed, Counts, Session

(* The session slots that the next credit of s takes.                      *)
Opens(s) == IF sess[s].at = "new" THEN 1 ELSE 0

(* A credit is issued for s: the books stay right.                         *)
LEMMA IssueBooks ==
  ASSUME Typed, Stages, Places, Books, Turns, life = "started",
         NEW s \in Sessions, NEW turns \in 1 .. MaxTurns, Issue(s, turns), prefillFree > 0,
         \/ sess[s].at = "new"
         \/ sess[s].at \in {"queue", "held"} /\ turns = sess[s].turns
  PROVE  /\ count' \in Counts /\ sess' \in [Sessions -> Session] /\ loop' \in Loop
         /\ prefillFree' \in Nat
         /\ sess' = [sess EXCEPT ![s] = [at |-> "prefill", turns |-> turns,
                                         sent |-> sess[s].sent + 1]]
         /\ sess[s].sent < turns
         /\ loop'.at = "sending"
         /\ count'.sent = count.sent + 1
         /\ count'.finalSent = count.finalSent
         /\ count'.sentSessions = count.sentSessions + Opens(s)
         /\ count'.sent - count'.completed - count'.cancelled
              = Census(sess', FlightKind)
         /\ count'.sent - count'.prefillsReleased = Census(sess', PrefillKind)
         /\ PrefillSlots - prefillFree' = Census(sess', PrefillKind)
         /\ InFlightSessions(count') = Census(sess', OpenKind)
         /\ Census(sess', OpenKind)
              = Census(sess, OpenKind) + Opens(s)
         /\ count'.sent = Cardinality(TurnsSent(sess'))
<1> DEFINE r == [at |-> "prefill", turns |-> turns, sent |-> sess[s].sent + 1]
<1>1. sess[s].sent < turns /\ (sess[s].sent = 0 <=> sess[s].at = "new")
  BY Fields, Params DEF Places, PlaceOf
<1>2. r \in Session /\ r.at = "prefill" /\ r.sent = sess[s].sent + 1 /\ r.sent > 0
  BY <1>1, Fields, Params DEF Session, Status
<1>3. sess' = [sess EXCEPT ![s] = r]
  BY DEF Issue
<1>4. /\ count' \in Counts
      /\ count'.sent = count.sent + 1
      /\ count'.sentSessions = count.sentSessions + Opens(s)
      /\ count'.completed = count.completed /\ count'.cancelled = count.cancelled
      /\ count'.completedSessions = count.completedSessions
      /\ count'.cancelledSessions = count.cancelledSessions
      /\ count'.prefillsReleased = count.prefillsReleased
      /\ count'.finalSent = count.finalSent
  <2> DEFINE a == count.sent + 1
             b == IF sess[s].sent = 0 THEN count.sentSessions + 1 ELSE count.sentSessions
             d == IF sess[s].sent = 0 THEN count.totalTurns + turns ELSE count.totalTurns
  <2>1. count' = [count EXCEPT !.sent = a, !.sentSessions = b, !.totalTurns = d]
    BY DEF Issue
  <2>2. a \in Nat /\ b \in Nat /\ d \in Nat
    BY Fields, Params
  <2>3. b = count.sentSessions + Opens(s)
    BY <1>1, Fields DEF Opens
  <2> HIDE DEF a, b, d
  <2>4. /\ count' \in Counts
        /\ count'.sent = a /\ count'.sentSessions = b
    BY <2>1, <2>2 DEF Typed, Counts
  <2>5. /\ count'.completed = count.completed /\ count'.cancelled = count.cancelled
        /\ count'.completedSessions = count.completedSessions
        /\ count'.cancelledSessions = count.cancelledSessions
        /\ count'.prefillsReleased = count.prefillsReleased
        /\ count'.finalSent = count.finalSent
    BY <2>1 DEF Typed, Counts
  <2> QED BY <2>3, <2>4, <2>5 DEF a
<1>5. loop' \in Loop /\ loop'.at = "sending"
  <2>1. IsFinal([count EXCEPT !.sent = @ + 1,
                         !.sentSessions = IF sess[s].sent = 0 THEN @ + 1 ELSE @,
                         !.totalTurns = IF sess[s].sent = 0 THEN @ + turns ELSE @]) \in BOOLEAN
    BY DEF IsFinal
  <2> QED BY <2>1, Params DEF Issue, Loop, Sessions
<1>6. prefillFree' = prefillFree - 1 /\ prefillFree' \in Nat
  BY DEF Issue, Typed
<1> HIDE DEF r
<1>7. sess' \in [Sessions -> Session] /\ sess'[s] = r
  BY <1>2, <1>3 DEF Typed
<1>8. \A q \in Sessions \ {s} : sess'[q] = sess[q]
  BY <1>3 DEF Typed
<1>9. Cardinality(TurnsSent(sess')) = Cardinality(TurnsSent(sess)) + 1
  BY <1>2, <1>3, TurnsNext DEF Typed
<1>10. /\ sess'[s] \in FlightKind /\ sess[s] \notin FlightKind
       /\ sess'[s] \in PrefillKind /\ sess[s] \notin PrefillKind
       /\ sess'[s] \in OpenKind /\ (sess[s] \in OpenKind <=> sess[s].at # "new")
  BY <1>1, <1>2, <1>7, Fields DEF FlightKind, PrefillKind, OpenKind
<1>11. /\ Census(sess', FlightKind) = Census(sess, FlightKind) + 1
       /\ Census(sess', PrefillKind) = Census(sess, PrefillKind) + 1
       /\ Census(sess', OpenKind) = Census(sess, OpenKind) + Opens(s)
  <2>1. Census(sess', FlightKind) = Census(sess, FlightKind) + 1
    <3>1. sess'[s] \in FlightKind /\ sess[s] \notin FlightKind
      BY <1>10
    <3> QED BY <1>8, <3>1, CensusGains
  <2>2. Census(sess', PrefillKind) = Census(sess, PrefillKind) + 1
    <3>1. sess'[s] \in PrefillKind /\ sess[s] \notin PrefillKind
      BY <1>10
    <3> QED BY <1>8, <3>1, CensusGains
  <2>3. CASE sess[s].at = "new"
    <3>1. Census(sess', OpenKind) = Census(sess, OpenKind) + 1
      BY <1>8, <1>10, <2>3, CensusGains
    <3> QED BY <2>1, <2>2, <2>3, <3>1 DEF Opens
  <2>4. CASE sess[s].at # "new"
    <3>1. Census(sess', OpenKind) = Census(sess, OpenKind)
      BY <1>8, <1>10, <2>4, CensusSame
    <3> QED BY <2>1, <2>2, <2>4, <3>1, CensusNat DEF Opens
  <2> QED BY <2>3, <2>4
<1>12. life # "complete"
  OBVIOUS
<1>13. /\ count'.sent - count'.completed - count'.cancelled
            = Census(sess', FlightKind)
       /\ count'.sent - count'.prefillsReleased = Census(sess', PrefillKind)
       /\ PrefillSlots - prefillFree' = Census(sess', PrefillKind)
  <2>1. /\ count.sent - count.completed - count.cancelled
             = Census(sess, FlightKind)
        /\ count.sent - count.prefillsReleased = Census(sess, PrefillKind)
        /\ PrefillSlots - prefillFree = Census(sess, PrefillKind)
    BY <1>12 DEF Books
  <2>2. prefillFree \in Nat
    BY DEF Typed
  <2> QED BY <1>4, <1>6, <1>11, <2>1, <2>2, Fields, Params, CensusNat
<1>14. InFlightSessions(count') = Census(sess', OpenKind)
  <2>1. Opens(s) \in {0, 1}
    BY DEF Opens
  <2> QED BY <2>1, <1>4, <1>11, <1>12, Fields, CensusNat DEF Books, InFlightSessions
<1>15. count'.sent = Cardinality(TurnsSent(sess'))
  BY <1>4, <1>9 DEF Turns
<1> QED
  BY <1>1, <1>3, <1>4, <1>5, <1>6, <1>7, <1>11, <1>13, <1>14, <1>15 DEF r

(* The larger of two natural numbers is one of them.                       *)
LEMMA LargerNat ==
  ASSUME NEW a \in Nat, NEW b \in Nat
  PROVE  Max({a, b}) \in Nat
<1>1. CASE a >= b
  <2>1. a \in {a, b} /\ \A y \in {a, b} : a >= y
    BY <1>1
  <2> QED BY <2>1 DEF Max
<1>2. CASE b >= a
  <2>1. b \in {a, b} /\ \A y \in {a, b} : b >= y
    BY <1>2
  <2> QED BY <2>1 DEF Max
<1> QED BY <1>1, <1>2

(* A step that sends, receives and moves nothing keeps the books, if what  *)
(* it does to the loop, the runner and the event is right.                 *)
LEMMA QuietKeeps ==
  ASSUME IInv, UNCHANGED <<plan, count, sess, queue>>, Typed', Stages',
         UNCHANGED loop \/ loop'.at # "prefill",
         life' # "complete" =>
           /\ life # "complete" /\ UNCHANGED <<sessionFree, prefillFree>>
           /\ returnedEvent => returnedEvent'
  PROVE  IInv'
<1>1. Places /\ Books /\ Turns /\ CapsRespected
  BY DEF IInv
<1>2. Places' /\ Turns' /\ CapsRespected'
  BY <1>1 DEF Places, PlaceOf, Turns, CapsRespected, RequestCap, SessionCap
<1>3. Books'
  BY <1>1 DEF Books, InFlightSessions
<1> QED BY <1>2, <1>3 DEF IInv

(* The loop ends with nothing queued: it is over, and held no session.     *)
LEMMA LeaveLoopKeeps ==
  ASSUME IInv, UNCHANGED plan, LeaveLoop
  PROVE  IInv'
<1>1. Typed /\ Stages /\ Places /\ Books /\ Turns /\ CapsRespected
  BY DEF IInv
<1>2. Typed'
  BY <1>1, Params DEF LeaveLoop, Typed, Loop, LoopAt
<1>3. Stages'
  BY <1>1 DEF LeaveLoop, Stages, Frozen, AllReturned, LoopAt
<1> QED BY <1>1, <1>2, <1>3, QuietKeeps DEF LeaveLoop, Stages, Typed, LoopAt

(* A lost credit stays in flight, in the counters and on the board.        *)
LEMMA LoseCreditKeeps ==
  ASSUME IInv, UNCHANGED plan, NEW s \in Sessions, LoseCredit(s)
  PROVE  IInv'
<1>1. Typed /\ Stages /\ Places /\ Books /\ Turns /\ CapsRespected
  BY DEF IInv
<1>2. Typed'
  BY <1>1, Params DEF LoseCredit, Typed, Loop
<1>3. Stages'
  BY <1>1 DEF LoseCredit, Stages, Frozen, AllReturned
<1> QED BY <1>1, <1>2, <1>3, QuietKeeps DEF LoseCredit, Stages, Typed

(* The start lets the loop run, on books that are all zero.                *)
LEMMA StartKeeps ==
  ASSUME IInv, UNCHANGED plan, Start
  PROVE  IInv'
<1>1. Typed /\ Stages /\ Places /\ Books /\ Turns /\ CapsRespected
  BY DEF IInv
<1>2. Typed'
  BY <1>1, Params DEF Start, Typed, Loop, LoopAt
<1>3. Stages'
  BY <1>1 DEF Start, Stages, Frozen, AllReturned, LoopAt
<1> QED BY <1>1, <1>2, <1>3, QuietKeeps DEF Start, Stages, Typed, LoopAt

(* The end of the duration is only a flag until somebody reads it.         *)
LEMMA TimeUpKeeps ==
  ASSUME IInv, UNCHANGED plan, TimeUp
  PROVE  IInv'
<1>1. Typed /\ Stages /\ Places /\ Books /\ Turns /\ CapsRespected
  BY DEF IInv
<1>2. Typed'
  BY <1>1, Params DEF TimeUp, Typed, Loop
<1>3. Stages'
  BY <1>1 DEF TimeUp, Stages, Frozen, AllReturned
<1> QED BY <1>1, <1>2, <1>3, QuietKeeps DEF TimeUp, Stages, Typed

(* The runner completes the phase or begins to wait.                       *)
LEMMA AwaitReturnsKeeps ==
  ASSUME IInv, UNCHANGED plan, AwaitReturns
  PROVE  IInv'
<1>1. Typed /\ Stages /\ Places /\ Books /\ Turns /\ CapsRespected
  BY DEF IInv
<1>2. Typed'
  BY <1>1, Params DEF AwaitReturns, Typed, Loop, Complete, NothingToAwait
<1>3. Stages'
  <2>1. CASE life' = "complete" /\ runner' = "over"
    BY <1>1, <2>1 DEF AwaitReturns, Stages, Frozen, Typed
  <2>2. CASE runner' = "waiting" /\ UNCHANGED <<life, returnedEvent>>
    BY <1>1, <2>2 DEF AwaitReturns, Stages, Frozen, AllReturned
  <2> QED BY <2>1, <2>2 DEF AwaitReturns, Complete
<1> QED BY <1>1, <1>2, <1>3, QuietKeeps DEF AwaitReturns, Stages, Typed, Complete

(* The wait ends because the event is set.                                 *)
LEMMA AllBackKeeps ==
  ASSUME IInv, UNCHANGED plan, AllBack
  PROVE  IInv'
<1>1. Typed /\ Stages /\ Places /\ Books /\ Turns /\ CapsRespected
  BY DEF IInv
<1>2. Typed'
  BY <1>1, Params DEF AllBack, Typed, Loop, Complete
<1>3. Stages'
  BY <1>1 DEF AllBack, Stages, Frozen, AllReturned, Complete
<1> QED BY <1>1, <1>2, <1>3, QuietKeeps DEF AllBack, Stages, Typed, Complete

(* The grace period ends before the event is set.                          *)
LEMMA GraceOverKeeps ==
  ASSUME IInv, UNCHANGED plan, GraceOver
  PROVE  IInv'
<1>1. Typed /\ Stages /\ Places /\ Books /\ Turns /\ CapsRespected
  BY DEF IInv
<1>2. Typed'
  BY <1>1, Params DEF GraceOver, Typed, Loop
<1>3. Stages'
  BY <1>1 DEF GraceOver, Stages, Frozen, AllReturned
<1> QED BY <1>1, <1>2, <1>3, QuietKeeps DEF GraceOver, Stages, Typed

(* The drain begins, and sets the event itself if all is back by now.      *)
LEMMA StartDrainKeeps ==
  ASSUME IInv, UNCHANGED plan, StartDrain
  PROVE  IInv'
<1>1. Typed /\ Stages /\ Places /\ Books /\ Turns /\ CapsRespected
  BY DEF IInv
<1>2. Typed'
  BY <1>1, Params DEF StartDrain, Typed, Loop
<1>3. Stages'
  BY <1>1 DEF StartDrain, Stages, Frozen, AllReturned
<1> QED BY <1>1, <1>2, <1>3, QuietKeeps DEF StartDrain, Stages, Typed

(* The drain is given up: the slots are filled up, the phase is complete.  *)
LEMMA ForceCompleteKeeps ==
  ASSUME IInv, UNCHANGED plan, ForceComplete
  PROVE  IInv'
<1>1. Typed /\ Stages /\ Places /\ Books /\ Turns /\ CapsRespected
  BY DEF IInv
<1>2. Typed'
  <2>1. sessionFree' \in Nat /\ prefillFree' \in Nat
    BY <1>1, Params, LargerNat DEF ForceComplete, Typed
  <2> QED BY <1>1, <2>1 DEF ForceComplete, Typed, Complete
<1>3. Stages'
  <2>1. /\ life' = "complete" /\ runner' = "over" /\ runner = "draining"
        /\ UNCHANGED <<count, loop>>
    BY DEF ForceComplete, Complete
  <2> QED BY <1>1, <2>1 DEF Stages, Frozen, Typed
<1> QED BY <1>1, <1>2, <1>3, QuietKeeps DEF ForceComplete, Stages, Typed, Complete

(* The final credit freezes the count; no credit was out when it began, so *)
(* the event cannot have been set.                                         *)
LEMMA CreditSentKeeps ==
  ASSUME IInv, UNCHANGED plan, CreditSent
  PROVE  IInv'
<1>1. Typed /\ Stages /\ Places /\ Books /\ Turns /\ CapsRespected
  BY DEF IInv
<1>2. /\ loop.at = "sending" /\ life = "started"
      /\ UNCHANGED <<life, cancelled, timeUp, sess, lost, queue, runner, returnedEvent,
                     sessionFree, prefillFree>>
  BY <1>1 DEF CreditSent, Stages
<1>3. /\ loop' \in Loop /\ sentEvent' \in BOOLEAN
      /\ \/ loop'.at = "over" /\ count' = [count EXCEPT !.finalSent = count.sent]
         \/ loop'.at = "ready" /\ count' = count
  <2>1. CASE loop.final
    <3>1. /\ loop' = [at |-> "over", session |-> 0, final |-> FALSE] /\ sentEvent' = TRUE
          /\ count' = [count EXCEPT !.finalSent = count.sent]
      BY <2>1 DEF CreditSent, LoopAt
    <3> QED BY <3>1, Params DEF Loop
  <2>2. CASE ~loop.final
    <3>1. /\ loop' = [at |-> "ready", session |-> 0, final |-> FALSE]
          /\ UNCHANGED <<count, sentEvent>>
      BY <2>2 DEF CreditSent, LoopAt
    <3> QED BY <1>1, <3>1, Params DEF Loop, Typed
  <2> QED BY <2>1, <2>2
<1>4. /\ count' \in Counts
      /\ \A x \in {"sent", "completed", "cancelled", "sentSessions", "completedSessions",
                   "cancelledSessions", "totalTurns", "prefillsReleased"} : count'[x] = count[x]
      /\ \/ loop'.at = "over" /\ count'.finalSent = count'.sent
         \/ loop'.at = "ready" /\ count'.finalSent = count.finalSent
  BY <1>1, <1>3 DEF Typed, Counts
<1>5. Typed'
  BY <1>1, <1>2, <1>3, <1>4 DEF Typed
<1>6. Stages'
  <2>1. ~returnedEvent
    BY <1>1, <1>2 DEF Stages, Frozen, AllReturned, Typed
  <2> QED BY <1>1, <1>2, <1>4, <2>1 DEF Stages, Frozen
<1>7. Places' /\ Turns' /\ CapsRespected'
  BY <1>1, <1>2, <1>4 DEF Places, PlaceOf, Turns, CapsRespected, RequestCap, SessionCap
<1>8. Books'
  BY <1>1, <1>2, <1>4 DEF Books, InFlightSessions
<1> QED BY <1>5, <1>6, <1>7, <1>8 DEF IInv

(* The first token gives back the prefill slot and counts it.              *)
LEMMA FirstTokenKeeps ==
  ASSUME IInv, UNCHANGED plan, NEW s \in Sessions, FirstToken(s)
  PROVE  IInv'
<1>1. Typed /\ Stages /\ Places /\ Books /\ Turns /\ CapsRespected
  BY DEF IInv
<1> DEFINE r == [at |-> "decode", turns |-> sess[s].turns, sent |-> sess[s].sent]
<1>2. /\ sess[s].at = "prefill"
      /\ UNCHANGED <<life, cancelled, timeUp, lost, queue, loop, runner, sentEvent,
                     returnedEvent, sessionFree>>
      /\ prefillFree' = prefillFree + 1
  BY DEF FirstToken
<1>3. sess' = [sess EXCEPT ![s] = r] /\ sess' \in [Sessions -> Session] /\ r \in Session
  BY <1>1, Moved DEF FirstToken, Status
<1>4. /\ count' \in Counts
      /\ \A x \in {"sent", "completed", "cancelled", "sentSessions", "completedSessions",
                   "cancelledSessions", "totalTurns", "finalSent"} : count'[x] = count[x]
      /\ count'.prefillsReleased = count.prefillsReleased + 1
  <2> DEFINE a == count.prefillsReleased + 1
  <2>1. count' = [count EXCEPT !.prefillsReleased = a] /\ a \in Nat
    BY <1>1, Fields DEF FirstToken
  <2> HIDE DEF a
  <2>2. count' \in Counts /\ count'.prefillsReleased = a
    BY <1>1, <2>1 DEF Typed, Counts
  <2>3. \A x \in {"sent", "completed", "cancelled", "sentSessions", "completedSessions",
                  "cancelledSessions", "totalTurns", "finalSent"} : count'[x] = count[x]
    BY <1>1, <2>1 DEF Typed, Counts
  <2> QED BY <2>2, <2>3 DEF a
<1>5. r.at = "decode" /\ r.turns = sess[s].turns /\ r.sent = sess[s].sent
  OBVIOUS
<1> HIDE DEF r
<1>6. sess'[s] = r /\ \A q \in Sessions \ {s} : sess'[q] = sess[q]
  BY <1>1, <1>3 DEF Typed
<1>7. Typed'
  BY <1>1, <1>2, <1>3, <1>4 DEF Typed
<1>8. Stages'
  BY <1>1, <1>2, <1>4 DEF Stages, Frozen, AllReturned
<1>9. Places'
  <2>1. \A q \in Sessions : PlaceOf(q)'
    BY <1>1, <1>2, <1>4, <1>5, <1>6 DEF Places, PlaceOf
  <2>2. \A q \in Sessions : sess[q].at \in {"queue", "held"} => sess'[q] = sess[q]
    BY <1>2, <1>6
  <2>3. \A i \in 1 .. Len(queue) : queue[i] \in Sessions
    BY <1>1 DEF Typed
  <2> QED BY <1>1, <1>2, <2>1, <2>2, <2>3 DEF Places
<1>10. Turns' /\ CapsRespected'
  <2>1. TurnsSent(sess') = TurnsSent(sess)
    BY <1>5, <1>6, TurnsSame
  <2> QED BY <1>1, <1>4, <2>1 DEF Turns, CapsRespected, RequestCap, SessionCap
<1>11. Books'
  <2>1. /\ sess'[s] \in FlightKind /\ sess[s] \in FlightKind
        /\ sess'[s] \notin PrefillKind /\ sess[s] \in PrefillKind
        /\ sess'[s] \in OpenKind <=> sess[s] \in OpenKind
    BY <1>1, <1>2, <1>3, <1>5, <1>6, Fields DEF FlightKind, PrefillKind, OpenKind
  <2>2. /\ Census(sess', FlightKind) = Census(sess, FlightKind)
        /\ Census(sess', OpenKind) = Census(sess, OpenKind)
        /\ Census(sess', PrefillKind) = Census(sess, PrefillKind) - 1
    <3>1. Census(sess', FlightKind) = Census(sess, FlightKind)
      BY <1>6, <2>1, CensusSame
    <3>2. Census(sess', OpenKind) = Census(sess, OpenKind)
      BY <1>6, <2>1, CensusSame
    <3>3. Census(sess', PrefillKind) = Census(sess, PrefillKind) - 1
      BY <1>6, <2>1, CensusLoses
    <3> QED BY <3>1, <3>2, <3>3
  <2> SUFFICES ASSUME life # "complete" PROVE Books'
    BY <1>2 DEF Books
  <2>3. /\ count.sent - count.completed - count.cancelled = Census(sess, FlightKind)
        /\ count.sent - count.prefillsReleased = Census(sess, PrefillKind)
        /\ PrefillSlots - prefillFree = Census(sess, PrefillKind)
        /\ InFlightSessions(count) = Census(sess, OpenKind)
        /\ \/ SessionSlots - sessionFree = Census(sess, OpenKind)
           \/ returnedEvent /\ sessionFree = SessionSlots
    BY <1>1 DEF Books
  <2>4. /\ count'.sent - count'.completed - count'.cancelled = Census(sess', FlightKind)
        /\ InFlightSessions(count') = Census(sess', OpenKind)
    BY <1>4, <2>2, <2>3 DEF InFlightSessions
  <2>5. prefillFree \in Nat
    BY <1>1 DEF Typed
  <2>6. /\ count'.sent - count'.prefillsReleased = Census(sess', PrefillKind)
        /\ PrefillSlots - prefillFree' = Census(sess', PrefillKind)
    BY <1>1, <1>2, <1>4, <2>2, <2>3, <2>5, Fields, Params, CensusNat
  <2> QED BY <1>2, <2>2, <2>3, <2>4, <2>6 DEF Books
<1> QED BY <1>7, <1>8, <1>9, <1>10, <1>11 DEF IInv

(* A late return changes no count: the phase is complete.                  *)
LEMMA LateReturnKeeps ==
  ASSUME IInv, UNCHANGED plan, NEW s \in Sessions, LateReturn(s)
  PROVE  IInv'
<1>1. Typed /\ Stages /\ Places /\ Books /\ Turns /\ CapsRespected
  BY DEF IInv
<1> DEFINE r == [at |-> "stopped", turns |-> sess[s].turns, sent |-> sess[s].sent]
<1>2. /\ sess[s].at \in {"prefill", "decode"} /\ life = "complete"
      /\ UNCHANGED <<life, cancelled, timeUp, count, lost, queue, loop, runner,
                     sentEvent, returnedEvent, sessionFree, prefillFree>>
  BY DEF LateReturn, InFlight, At, IsComplete
<1>3. sess' = [sess EXCEPT ![s] = r] /\ sess' \in [Sessions -> Session] /\ r \in Session
  BY <1>1, Moved DEF LateReturn, Status
<1>4. r.at = "stopped" /\ r.turns = sess[s].turns /\ r.sent = sess[s].sent
  OBVIOUS
<1> HIDE DEF r
<1>5. sess'[s] = r /\ \A q \in Sessions \ {s} : sess'[q] = sess[q]
  BY <1>1, <1>3 DEF Typed
<1>6. Typed' /\ Books'
  BY <1>1, <1>2, <1>3 DEF Typed, Books
<1>7. Stages'
  BY <1>1, <1>2 DEF Stages, Frozen
<1>8. Places'
  <2>1. \A q \in Sessions : PlaceOf(q)'
    BY <1>1, <1>2, <1>4, <1>5 DEF Places, PlaceOf
  <2>2. \A q \in Sessions : sess[q].at \in {"queue", "held"} => sess'[q] = sess[q]
    BY <1>2, <1>5
  <2>3. \A i \in 1 .. Len(queue) : queue[i] \in Sessions
    BY <1>1 DEF Typed
  <2> QED BY <1>1, <1>2, <2>1, <2>2, <2>3 DEF Places
<1>9. Turns' /\ CapsRespected'
  <2>1. TurnsSent(sess') = TurnsSent(sess)
    BY <1>4, <1>5, TurnsSame
  <2> QED BY <1>1, <1>2, <2>1 DEF Turns, CapsRespected, RequestCap, SessionCap
<1> QED BY <1>6, <1>7, <1>8, <1>9 DEF IInv

(* The places after s moved from where it is neither queued nor held.      *)
LEMMA QueueGrows ==
  ASSUME Typed, Places, NEW s \in Sessions, sess[s].at \notin {"queue", "held"},
         \A q \in Sessions \ {s} : sess'[q] = sess[q],
         \/ queue' = queue
         \/ queue' = Append(queue, s) /\ sess'[s].at = "queue",
         UNCHANGED loop
  PROVE  /\ queue' \in Seq(Sessions)
         /\ \A i \in 1 .. Len(queue') : sess'[queue'[i]].at = "queue"
         /\ \A i, j \in 1 .. Len(queue') : i # j => queue'[i] # queue'[j]
         /\ loop'.at = "prefill" =>
              loop'.session \in Sessions /\ sess'[loop'.session].at = "held"
<1>1. queue \in Seq(Sessions) /\ \A i \in 1 .. Len(queue) : queue[i] \in Sessions
  BY DEF Typed
<1>2. \A i \in 1 .. Len(queue) : sess'[queue[i]] = sess[queue[i]] /\ queue[i] # s
  BY <1>1 DEF Places
<1>3. loop.at = "prefill" => loop.session \in Sessions /\ sess'[loop.session].at = "held"
  BY DEF Places
<1>4. CASE queue' = queue
  BY <1>1, <1>2, <1>3, <1>4 DEF Places
<1>5. CASE queue' = Append(queue, s) /\ sess'[s].at = "queue"
  <2>1. /\ queue' \in Seq(Sessions) /\ Len(queue') = Len(queue) + 1
        /\ \A i \in 1 .. Len(queue) : queue'[i] = queue[i]
        /\ queue'[Len(queue) + 1] = s
    BY <1>1, <1>5
  <2>2. \A i \in 1 .. Len(queue') : i \in 1 .. Len(queue) \/ i = Len(queue) + 1
    BY <1>1, <2>1
  <2> QED BY <1>2, <1>3, <1>5, <2>1, <2>2 DEF Places
<1> QED BY <1>4, <1>5

(* A think time that ends puts its session into the queue.                 *)
LEMMA DelayElapsedKeeps ==
  ASSUME IInv, UNCHANGED plan, NEW s \in Sessions, DelayElapsed(s)
  PROVE  IInv'
<1>1. Typed /\ Stages /\ Places /\ Books /\ Turns /\ CapsRespected
  BY DEF IInv
<1> DEFINE r == [at |-> "queue", turns |-> sess[s].turns, sent |-> sess[s].sent]
<1>2. /\ sess[s].at = "delay" /\ queue' = Append(queue, s)
      /\ UNCHANGED <<life, cancelled, timeUp, count, lost, loop, runner, sentEvent,
                     returnedEvent, sessionFree, prefillFree>>
  BY DEF DelayElapsed
<1>3. sess' = [sess EXCEPT ![s] = r] /\ sess' \in [Sessions -> Session] /\ r \in Session
  BY <1>1, Moved DEF DelayElapsed, Status
<1>4. r.at = "queue" /\ r.turns = sess[s].turns /\ r.sent = sess[s].sent
  OBVIOUS
<1> HIDE DEF r
<1>5. sess'[s] = r /\ \A q \in Sessions \ {s} : sess'[q] = sess[q]
  BY <1>1, <1>3 DEF Typed
<1>6. Typed'
  <2>1. queue' \in Seq(Sessions)
    BY <1>1, <1>2 DEF Typed
  <2> QED BY <1>1, <1>2, <1>3, <2>1 DEF Typed
<1>7. Stages'
  BY <1>1, <1>2 DEF Stages, Frozen, AllReturned
<1>8. Places'
  <2>1. \A q \in Sessions : PlaceOf(q)'
    BY <1>1, <1>2, <1>4, <1>5 DEF Places, PlaceOf
  <2> QED BY <1>1, <1>2, <1>4, <1>5, <2>1, QueueGrows DEF Places
<1>9. Turns' /\ CapsRespected'
  <2>1. TurnsSent(sess') = TurnsSent(sess)
    BY <1>4, <1>5, TurnsSame
  <2> QED BY <1>1, <1>2, <2>1 DEF Turns, CapsRespected, RequestCap, SessionCap
<1>10. Books'
  <2>1. /\ sess'[s] \notin FlightKind /\ sess[s] \notin FlightKind
        /\ sess'[s] \notin PrefillKind /\ sess[s] \notin PrefillKind
        /\ sess'[s] \in OpenKind <=> sess[s] \in OpenKind
    BY <1>1, <1>2, <1>3, <1>4, <1>5, Fields DEF FlightKind, PrefillKind, OpenKind
  <2>2. Census(sess', FlightKind) = Census(sess, FlightKind)
    BY <1>5, <2>1, CensusSame
  <2>3. Census(sess', PrefillKind) = Census(sess, PrefillKind)
    BY <1>5, <2>1, CensusSame
  <2>4. Census(sess', OpenKind) = Census(sess, OpenKind)
    BY <1>5, <2>1, CensusSame
  <2> QED BY <1>1, <1>2, <2>2, <2>3, <2>4 DEF Books, InFlightSessions
<1> QED BY <1>6, <1>7, <1>8, <1>9, <1>10 DEF IInv

(* A return: each count and each slot follows the census.  The event is    *)
(* set exactly when all is back, as it was not set before: a credit was    *)
(* out.                                                                    *)
LEMMA CreditReturnKeeps ==
  ASSUME IInv, UNCHANGED plan, NEW s \in Sessions, NEW wasCancelled \in BOOLEAN,
         CreditReturn(s, wasCancelled)
  PROVE  IInv'
<1>1. Typed /\ Stages /\ Places /\ Books /\ Turns /\ CapsRespected
  BY DEF IInv
<1>2. /\ sess[s].at \in {"prefill", "decode"} /\ life # "complete"
      /\ UNCHANGED <<life, cancelled, timeUp, lost, loop, runner, sentEvent>>
  BY DEF CreditReturn, InFlight, At, IsComplete
<1>3. PICK w \in {"done", "queue", "delay", "stopped"} :
        /\ sess' = Move(s, w)
        /\ w = "done" <=> sess[s].sent = sess[s].turns
        /\ queue' = IF w = "queue" THEN Append(queue, s) ELSE queue
  <2>1. sess[s].sent \in Nat /\ sess[s].turns \in Nat
    BY <1>1, Fields
  <2> QED BY <2>1 DEF CreditReturn, NextTurn
<1> DEFINE r == [at |-> w, turns |-> sess[s].turns, sent |-> sess[s].sent]
<1>4. sess' = [sess EXCEPT ![s] = r] /\ sess' \in [Sessions -> Session] /\ r \in Session
  BY <1>1, <1>3, Moved DEF Status
<1>5. r.at = w /\ r.turns = sess[s].turns /\ r.sent = sess[s].sent
  OBVIOUS
<1> HIDE DEF r
<1>6. sess'[s] = r /\ \A q \in Sessions \ {s} : sess'[q] = sess[q]
  BY <1>1, <1>4 DEF Typed
<1>7. 1 <= sess[s].sent /\ sess[s].sent <= sess[s].turns
  BY <1>1, <1>2 DEF Places, PlaceOf
<1>8. SessionOwed(s) \in {0, 1} /\ PrefillOwed(s) \in {0, 1}
      /\ (SessionOwed(s) = 1 <=> w = "done") /\ (PrefillOwed(s) = 1 <=> sess[s].at = "prefill")
  BY <1>3 DEF SessionOwed, PrefillOwed
<1>9. /\ count' \in Counts
      /\ count'.sent = count.sent /\ count'.finalSent = count.finalSent
      /\ count'.sentSessions = count.sentSessions
      /\ count'.totalTurns = count.totalTurns
      /\ count'.completed + count'.cancelled = count.completed + count.cancelled + 1
      /\ count'.completedSessions + count'.cancelledSessions
           = count.completedSessions + count.cancelledSessions + SessionOwed(s)
      /\ count'.prefillsReleased = count.prefillsReleased + PrefillOwed(s)
  <2> DEFINE a == count.completed + (IF wasCancelled THEN 0 ELSE 1)
             b == count.cancelled + (IF wasCancelled THEN 1 ELSE 0)
             c == count.completedSessions + (IF wasCancelled THEN 0 ELSE SessionOwed(s))
             d == count.cancelledSessions + (IF wasCancelled THEN SessionOwed(s) ELSE 0)
             e == count.prefillsReleased + PrefillOwed(s)
  <2>1. count' = [count EXCEPT !.completed = a, !.cancelled = b, !.completedSessions = c,
                               !.cancelledSessions = d, !.prefillsReleased = e]
    BY DEF CreditReturn, CountReturn
  <2>2. /\ a \in Nat /\ b \in Nat /\ c \in Nat /\ d \in Nat /\ e \in Nat
        /\ a + b = count.completed + count.cancelled + 1
        /\ c + d = count.completedSessions + count.cancelledSessions + SessionOwed(s)
    <3>1. CASE wasCancelled
      BY <1>1, <1>8, <3>1, Fields
    <3>2. CASE ~wasCancelled
      BY <1>1, <1>8, <3>2, Fields
    <3> QED BY <3>1, <3>2
  <2> HIDE DEF a, b, c, d, e
  <2>3. /\ count' \in Counts
        /\ count'.completed = a /\ count'.cancelled = b /\ count'.completedSessions = c
        /\ count'.cancelledSessions = d /\ count'.prefillsReleased = e
    BY <1>1, <2>1, <2>2 DEF Typed, Counts
  <2>4. /\ count'.sent = count.sent /\ count'.finalSent = count.finalSent
        /\ count'.sentSessions = count.sentSessions
        /\ count'.totalTurns = count.totalTurns
    BY <1>1, <2>1 DEF Typed, Counts
  <2>5. e = count.prefillsReleased + PrefillOwed(s)
    BY DEF e
  <2> QED BY <2>2, <2>3, <2>4, <2>5
<1>10. /\ count'.completed \in Nat /\ count'.cancelled \in Nat
       /\ count'.completedSessions \in Nat /\ count'.cancelledSessions \in Nat
       /\ count'.prefillsReleased \in Nat
  BY <1>9 DEF Counts
<1>11. /\ sess[s] \in FlightKind /\ sess'[s] \notin FlightKind
       /\ sess'[s] \notin PrefillKind /\ (sess[s] \in PrefillKind <=> PrefillOwed(s) = 1)
       /\ sess[s] \in OpenKind /\ (sess'[s] \in OpenKind <=> SessionOwed(s) = 0)
  BY <1>1, <1>2, <1>4, <1>5, <1>6, <1>7, <1>8, Fields DEF FlightKind, PrefillKind, OpenKind
<1>12. /\ Census(sess', FlightKind) = Census(sess, FlightKind) - 1
       /\ Census(sess', PrefillKind) = Census(sess, PrefillKind) - PrefillOwed(s)
       /\ Census(sess', OpenKind) = Census(sess, OpenKind) - SessionOwed(s)
       /\ Census(sess, FlightKind) # 0
  <2>1. Census(sess', FlightKind) = Census(sess, FlightKind) - 1
    BY <1>6, <1>11, CensusLoses
  <2>2. Census(sess', PrefillKind) = Census(sess, PrefillKind) - PrefillOwed(s)
    <3>1. CASE PrefillOwed(s) = 1
      <4>1. sess[s] \in PrefillKind /\ sess'[s] \notin PrefillKind
        BY <1>11, <3>1
      <4>2. Census(sess', PrefillKind) = Census(sess, PrefillKind) - 1
        BY <1>6, <4>1, CensusLoses
      <4> QED BY <3>1, <4>2
    <3>2. CASE PrefillOwed(s) = 0
      <4>1. Census(sess', PrefillKind) = Census(sess, PrefillKind)
        BY <1>6, <1>11, <3>2, CensusSame
      <4> QED BY <3>2, <4>1, CensusNat
    <3> QED BY <1>8, <3>1, <3>2
  <2>3. Census(sess', OpenKind) = Census(sess, OpenKind) - SessionOwed(s)
    <3>1. CASE SessionOwed(s) = 1
      <4>1. sess[s] \in OpenKind /\ sess'[s] \notin OpenKind
        BY <1>11, <3>1
      <4>2. Census(sess', OpenKind) = Census(sess, OpenKind) - 1
        BY <1>6, <4>1, CensusLoses
      <4> QED BY <3>1, <4>2
    <3>2. CASE SessionOwed(s) = 0
      <4>1. Census(sess', OpenKind) = Census(sess, OpenKind)
        BY <1>6, <1>11, <3>2, CensusSame
      <4> QED BY <3>2, <4>1, CensusNat
    <3> QED BY <1>8, <3>1, <3>2
  <2>4. Census(sess, FlightKind) # 0
    BY <1>11, CensusEmpty
  <2> QED BY <2>1, <2>2, <2>3, <2>4
<1>13. /\ count.sent - count.completed - count.cancelled = Census(sess, FlightKind)
       /\ count.sent - count.prefillsReleased = Census(sess, PrefillKind)
       /\ PrefillSlots - prefillFree = Census(sess, PrefillKind)
       /\ InFlightSessions(count) = Census(sess, OpenKind)
       /\ \/ SessionSlots - sessionFree = Census(sess, OpenKind)
          \/ returnedEvent /\ sessionFree = SessionSlots
  BY <1>1, <1>2 DEF Books
<1>14. ~returnedEvent
  <2>1. returnedEvent => AllReturned(count) /\ count.finalSent = count.sent
    BY <1>1, <1>2 DEF Stages, Frozen, AllReturned
  <2>2. ~(count.completed + count.cancelled >= count.sent)
    BY <1>1, <1>12, <1>13, Fields, CensusNat
  <2> QED BY <2>1, <2>2 DEF AllReturned
<1>15. /\ returnedEvent' <=> AllReturned(count')
       /\ prefillFree' = prefillFree + PrefillOwed(s)
       /\ sessionFree' = sessionFree + SessionOwed(s)
                           + (IF AllReturned(count') THEN InFlightSessions(count') ELSE 0)
       /\ returnedEvent' \in BOOLEAN
  BY <1>14 DEF CreditReturn, AllReturned
<1>16. InFlightSessions(count') = Census(sess', OpenKind)
  BY <1>1, <1>8, <1>9, <1>10, <1>12, <1>13, Fields, CensusNat DEF InFlightSessions
<1>17. Typed'
  <2>1. prefillFree' \in Nat /\ sessionFree' \in Nat
    BY <1>1, <1>8, <1>15, <1>16, CensusNat DEF Typed
  <2>2. queue' \in Seq(Sessions)
    BY <1>1, <1>3 DEF Typed
  <2> QED BY <1>1, <1>2, <1>4, <1>9, <1>15, <2>1, <2>2 DEF Typed
<1>18. Stages'
  BY <1>1, <1>2, <1>9, <1>15 DEF Stages, Frozen
<1>19. Places'
  <2>1. \A q \in Sessions : PlaceOf(q)'
    <3>1. ASSUME NEW q \in Sessions, q # s PROVE PlaceOf(q)'
      BY <1>1, <1>6, <1>9, <3>1 DEF Places, PlaceOf
    <3>2. sess[s].sent \in Nat /\ sess[s].turns \in Nat
      BY <1>1, Fields
    <3>3. PlaceOf(s)'
      BY <1>1, <1>2, <1>3, <1>5, <1>6, <1>7, <1>9, <3>2 DEF Places, PlaceOf
    <3> QED BY <3>1, <3>3
  <2> QED BY <1>1, <1>2, <1>3, <1>5, <1>6, <2>1, QueueGrows DEF Places
<1>20. Turns' /\ CapsRespected'
  <2>1. TurnsSent(sess') = TurnsSent(sess)
    BY <1>5, <1>6, TurnsSame
  <2> QED BY <1>1, <1>9, <2>1 DEF Turns, CapsRespected, RequestCap, SessionCap
<1>21. Books'
  <2>1. count'.sent - count'.completed - count'.cancelled = Census(sess', FlightKind)
    BY <1>1, <1>9, <1>10, <1>12, <1>13, Fields, CensusNat
  <2>2. /\ count'.sent - count'.prefillsReleased = Census(sess', PrefillKind)
        /\ PrefillSlots - prefillFree' = Census(sess', PrefillKind)
    <3>1. prefillFree \in Nat
      BY <1>1 DEF Typed
    <3>2. count'.sent - count'.prefillsReleased = Census(sess', PrefillKind)
      BY <1>1, <1>8, <1>9, <1>12, <1>13, Fields, CensusNat
    <3>3. PrefillSlots - prefillFree' = Census(sess', PrefillKind)
      BY <1>8, <1>12, <1>13, <1>15, <3>1, Params, CensusNat
    <3> QED BY <3>2, <3>3
  <2>3. \/ SessionSlots - sessionFree' = Census(sess', OpenKind)
        \/ returnedEvent' /\ sessionFree' = SessionSlots
    <3>1. SessionSlots - sessionFree = Census(sess, OpenKind)
      BY <1>13, <1>14
    <3> DEFINE open == Census(sess, OpenKind)
               left == Census(sess', OpenKind)
    <3>2. /\ sessionFree \in Nat /\ SessionSlots \in Nat /\ SessionOwed(s) \in {0, 1}
          /\ open \in Nat /\ left = open - SessionOwed(s)
      BY <1>1, <1>8, <1>12, Params, CensusNat DEF Typed
    <3>3. CASE AllReturned(count')
      <4>1. sessionFree' = sessionFree + SessionOwed(s) + left
        BY <1>15, <1>16, <3>3
      <4> HIDE DEF open, left
      <4>2. sessionFree' = SessionSlots
        BY <3>1, <3>2, <4>1 DEF open
      <4> QED BY <1>15, <3>3, <4>2
    <3>4. CASE ~AllReturned(count')
      <4>1. sessionFree' = sessionFree + SessionOwed(s) + 0
        BY <1>15, <3>4
      <4>2. SessionSlots - sessionFree' = left
        BY <3>1, <3>2, <4>1
      <4> QED BY <4>2
    <3> QED BY <3>3, <3>4
  <2> QED BY <1>16, <2>1, <2>2, <2>3 DEF Books
<1> QED BY <1>17, <1>18, <1>19, <1>20, <1>21 DEF IInv

(* The turns that the loop or a timer held are gone; nothing else is.      *)
LEMMA Dropped ==
  ASSUME Typed, Places, sess' = DropPending, LoopAt("over"), UNCHANGED queue,
         count'.sentSessions = count.sentSessions
  PROVE  /\ sess' \in [Sessions -> Session] /\ loop' \in Loop /\ loop'.at = "over"
         /\ Places'
         /\ TurnsSent(sess') = TurnsSent(sess)
         /\ Census(sess', FlightKind) = Census(sess, FlightKind)
         /\ Census(sess', PrefillKind) = Census(sess, PrefillKind)
         /\ Census(sess', OpenKind) = Census(sess, OpenKind)
<1>1. ASSUME NEW q \in Sessions
      PROVE  /\ sess'[q] \in Session
             /\ sess'[q].sent = sess[q].sent /\ sess'[q].turns = sess[q].turns
             /\ sess[q].at \in {"held", "delay"} => sess'[q].at = "stopped"
             /\ sess[q].at \notin {"held", "delay"} => sess'[q] = sess[q]
  <2>1. sess[q] \in Session
    BY DEF Typed
  <2>2. CASE sess[q].at \in {"held", "delay"}
    <3>1. sess'[q] = [sess[q] EXCEPT !.at = "stopped"]
      BY <2>2 DEF DropPending
    <3> QED BY <2>1, <2>2, <3>1 DEF Session, Status
  <2>3. CASE sess[q].at \notin {"held", "delay"}
    BY <2>1, <2>3 DEF DropPending
  <2> QED BY <2>2, <2>3
<1>2. sess' \in [Sessions -> Session]
  BY <1>1 DEF DropPending
<1>3. loop' \in Loop /\ loop'.at = "over"
  BY Params DEF LoopAt, Loop
<1>4. TurnsSent(sess') = TurnsSent(sess)
  BY <1>1, TurnsSame
<1>5. \A q \in Sessions :
        /\ sess'[q] \in FlightKind <=> sess[q] \in FlightKind
        /\ sess'[q] \in PrefillKind <=> sess[q] \in PrefillKind
        /\ sess'[q] \in OpenKind <=> sess[q] \in OpenKind
  BY <1>1 DEF Typed, FlightKind, PrefillKind, OpenKind
<1>6. Census(sess', FlightKind) = Census(sess, FlightKind)
  BY <1>5, CensusSame
<1>7. Census(sess', PrefillKind) = Census(sess, PrefillKind)
  BY <1>5, CensusSame
<1>8. Census(sess', OpenKind) = Census(sess, OpenKind)
  BY <1>5, CensusSame
<1>9. Places'
  <2>1. ASSUME NEW q \in Sessions PROVE PlaceOf(q)'
    <3>1. CASE sess[q].at \in {"held", "delay"}
      BY <1>1, <3>1 DEF Places, PlaceOf
    <3>2. CASE sess[q].at \notin {"held", "delay"}
      BY <1>1, <3>2 DEF Places, PlaceOf
    <3> QED BY <3>1, <3>2
  <2>2. \A i \in 1 .. Len(queue) : queue[i] \in Sessions
    BY DEF Typed
  <2> QED BY <1>1, <1>3, <2>1, <2>2 DEF Places
<1> QED BY <1>2, <1>3, <1>4, <1>6, <1>7, <1>8, <1>9

(* The runner freezes the count and drops what the loop and timers hold.   *)
LEMMA StopSendingKeeps ==
  ASSUME IInv, UNCHANGED plan, StopSending
  PROVE  IInv'
<1>1. Typed /\ Stages /\ Places /\ Books /\ Turns /\ CapsRespected
  BY DEF IInv
<1>2. /\ runner = "sending" /\ life' = "sending_complete" /\ runner' = "returning"
      /\ sentEvent' = TRUE /\ sess' = DropPending /\ LoopAt("over")
      /\ count' = [count EXCEPT !.finalSent = count.sent]
      /\ UNCHANGED <<cancelled, timeUp, lost, queue, returnedEvent, sessionFree, prefillFree>>
  BY DEF StopSending
<1>3. /\ count' \in Counts /\ count'.finalSent = count.sent
      /\ \A x \in {"sent", "completed", "cancelled", "sentSessions", "completedSessions",
                   "cancelledSessions", "totalTurns", "prefillsReleased"} : count'[x] = count[x]
  BY <1>1, <1>2 DEF Typed, Counts
<1>4. /\ sess' \in [Sessions -> Session] /\ loop' \in Loop /\ loop'.at = "over"
      /\ Places'
      /\ TurnsSent(sess') = TurnsSent(sess)
      /\ Census(sess', FlightKind) = Census(sess, FlightKind)
      /\ Census(sess', PrefillKind) = Census(sess, PrefillKind)
      /\ Census(sess', OpenKind) = Census(sess, OpenKind)
  BY <1>1, <1>2, <1>3, Dropped
<1>5. Typed'
  BY <1>1, <1>2, <1>3, <1>4 DEF Typed
<1>6. Stages'
  <2>1. count.sent # None
    BY <1>1, Fields, Params
  <2>2. returnedEvent => AllReturned(count')
    BY <1>1, <1>2, <1>3, <2>1 DEF Stages, Frozen, AllReturned
  <2> QED BY <1>2, <1>3, <1>4, <2>1, <2>2 DEF Stages, Frozen
<1>7. Turns' /\ CapsRespected'
  BY <1>1, <1>3, <1>4 DEF Turns, CapsRespected, RequestCap, SessionCap
<1>8. Books'
  <2>1. life # "complete"
    BY <1>1, <1>2 DEF Stages
  <2> QED BY <1>1, <1>2, <1>3, <1>4, <2>1 DEF Books, InFlightSessions
<1> QED BY <1>4, <1>5, <1>6, <1>7, <1>8 DEF IInv

(* A cancel drops them too, and ends the loop.                             *)
LEMMA CancelKeeps ==
  ASSUME IInv, UNCHANGED plan, Cancel
  PROVE  IInv'
<1>1. Typed /\ Stages /\ Places /\ Books /\ Turns /\ CapsRespected
  BY DEF IInv
<1>2. /\ runner # "created" /\ cancelled' = TRUE /\ sess' = DropPending /\ LoopAt("over")
      /\ UNCHANGED <<life, timeUp, count, lost, queue, runner, sentEvent,
                     returnedEvent, sessionFree, prefillFree>>
  BY DEF Cancel
<1>3. /\ sess' \in [Sessions -> Session] /\ loop' \in Loop /\ loop'.at = "over"
      /\ Places'
      /\ TurnsSent(sess') = TurnsSent(sess)
      /\ Census(sess', FlightKind) = Census(sess, FlightKind)
      /\ Census(sess', PrefillKind) = Census(sess, PrefillKind)
      /\ Census(sess', OpenKind) = Census(sess, OpenKind)
  BY <1>1, <1>2, Dropped
<1>4. Typed'
  BY <1>1, <1>2, <1>3 DEF Typed
<1>5. Stages'
  BY <1>1, <1>2, <1>3 DEF Stages, Frozen, AllReturned
<1>6. Turns' /\ CapsRespected'
  BY <1>1, <1>2, <1>3 DEF Turns, CapsRespected, RequestCap, SessionCap
<1>7. Books'
  BY <1>1, <1>2, <1>3 DEF Books, InFlightSessions
<1> QED BY <1>3, <1>4, <1>5, <1>6, <1>7 DEF IInv

-----------------------------------------------------------------------------
(* The loop goes on with session s, which has left the queue: it issues    *)
(* the next turn, or the session stops there.                              *)
LEMMA ProceedKeeps ==
  ASSUME IInv, UNCHANGED plan, NEW s \in Sessions, sess[s].at \in {"queue", "held"},
         loop.at \in {"ready", "prefill"}, prefillFree > 0, ProceedWith(s),
         UNCHANGED <<life, cancelled, timeUp, lost, runner, sentEvent, returnedEvent,
                     sessionFree>>,
         queue' \in Seq(Sessions),
         \A i \in 1 .. Len(queue') : queue'[i] # s /\ sess[queue'[i]].at = "queue",
         \A i, j \in 1 .. Len(queue') : i # j => queue'[i] # queue'[j]
  PROVE  IInv'
<1>1. Typed /\ Stages /\ Places /\ Books /\ Turns /\ CapsRespected
  BY DEF IInv
<1>2. life = "started" /\ ~Frozen /\ ~returnedEvent
  BY <1>1 DEF Stages, Frozen, AllReturned
<1>3. /\ 1 <= sess[s].sent /\ sess[s].sent < sess[s].turns /\ sess[s].turns \in 1 .. MaxTurns
  BY <1>1, Fields, Params DEF Places, PlaceOf
<1>4. \A i \in 1 .. Len(queue') : queue'[i] \in Sessions
  OBVIOUS
<1>5. CASE CanSendAnyTurn /\ Issue(s, sess[s].turns)
  <2> DEFINE r == [at |-> "prefill", turns |-> sess[s].turns, sent |-> sess[s].sent + 1]
  <2>1. /\ count' \in Counts /\ sess' \in [Sessions -> Session] /\ loop' \in Loop
        /\ prefillFree' \in Nat
        /\ sess' = [sess EXCEPT ![s] = r]
        /\ loop'.at = "sending"
        /\ count'.sent = count.sent + 1
        /\ count'.finalSent = count.finalSent
        /\ count'.sentSessions = count.sentSessions
        /\ count'.sent - count'.completed - count'.cancelled = Census(sess', FlightKind)
        /\ count'.sent - count'.prefillsReleased = Census(sess', PrefillKind)
        /\ PrefillSlots - prefillFree' = Census(sess', PrefillKind)
        /\ InFlightSessions(count') = Census(sess', OpenKind)
        /\ Census(sess', OpenKind) = Census(sess, OpenKind)
        /\ count'.sent = Cardinality(TurnsSent(sess'))
    <3>1. sess[s].at # "new" /\ Opens(s) = 0
      BY DEF Opens
    <3>2. /\ count' \in Counts /\ sess' \in [Sessions -> Session] /\ loop' \in Loop
          /\ prefillFree' \in Nat
          /\ sess' = [sess EXCEPT ![s] = r]
          /\ loop'.at = "sending"
          /\ count'.sent = count.sent + 1
          /\ count'.finalSent = count.finalSent
          /\ count'.sentSessions = count.sentSessions + Opens(s)
          /\ count'.sent - count'.completed - count'.cancelled = Census(sess', FlightKind)
          /\ count'.sent - count'.prefillsReleased = Census(sess', PrefillKind)
          /\ PrefillSlots - prefillFree' = Census(sess', PrefillKind)
          /\ InFlightSessions(count') = Census(sess', OpenKind)
          /\ Census(sess', OpenKind) = Census(sess, OpenKind) + Opens(s)
          /\ count'.sent = Cardinality(TurnsSent(sess'))
      BY <1>1, <1>2, <1>3, <1>5, <3>1, IssueBooks
    <3>3. count.sentSessions + 0 = count.sentSessions
      BY <1>1, Fields
    <3>4. Census(sess, OpenKind) + 0 = Census(sess, OpenKind)
      BY CensusNat
    <3> QED BY <3>1, <3>2, <3>3, <3>4
  <2>2. r.at = "prefill" /\ r.turns = sess[s].turns /\ r.sent = sess[s].sent + 1
    OBVIOUS
  <2> HIDE DEF r
  <2>3. sess'[s] = r /\ \A q \in Sessions \ {s} : sess'[q] = sess[q]
    BY <1>1, <2>1 DEF Typed
  <2>4. Typed'
    BY <1>1, <2>1 DEF Typed
  <2>5. Stages'
    BY <1>1, <1>2, <2>1 DEF Stages, Frozen
  <2>6. Places'
    <3>1. ASSUME NEW q \in Sessions, q # s PROVE PlaceOf(q)'
      BY <1>1, <2>1, <2>3, <3>1 DEF Places, PlaceOf
    <3>2. PlaceOf(s)'
      BY <1>1, <1>3, <2>1, <2>2, <2>3, Fields DEF Places, PlaceOf
    <3> QED BY <1>4, <2>1, <2>3, <3>1, <3>2 DEF Places
  <2>7. CapsRespected'
    <3>1. RequestCap # None => count.sent < RequestCap
      BY <1>5 DEF CanSendAnyTurn
    <3>2. RequestCap \in Nat \cup {None}
      BY <1>1, CreditPhaseAssumption DEF Typed, RequestCap
    <3>3. RequestCap' = RequestCap /\ SessionCap' = SessionCap
      BY DEF RequestCap, SessionCap
    <3>4. RequestCap # None => count'.sent <= RequestCap
      BY <1>1, <2>1, <3>1, <3>2, Fields
    <3> QED BY <1>1, <2>1, <3>3, <3>4 DEF CapsRespected
  <2>8. Books' /\ Turns'
    BY <1>1, <1>2, <2>1 DEF Books, Turns
  <2> QED BY <2>4, <2>5, <2>6, <2>7, <2>8 DEF IInv
<1>6. CASE sess' = Move(s, "stopped") /\ LoopAt("over") /\ UNCHANGED <<count, prefillFree>>
  <2> DEFINE r == [at |-> "stopped", turns |-> sess[s].turns, sent |-> sess[s].sent]
  <2>1. sess' = [sess EXCEPT ![s] = r] /\ sess' \in [Sessions -> Session] /\ r \in Session
    BY <1>1, <1>6, Moved DEF Status
  <2>2. r.at = "stopped" /\ r.turns = sess[s].turns /\ r.sent = sess[s].sent
    OBVIOUS
  <2> HIDE DEF r
  <2>3. sess'[s] = r /\ \A q \in Sessions \ {s} : sess'[q] = sess[q]
    BY <1>1, <2>1 DEF Typed
  <2>4. loop' \in Loop /\ loop'.at = "over"
    BY <1>6, Params DEF LoopAt, Loop
  <2>5. Typed'
    BY <1>1, <1>6, <2>1, <2>4 DEF Typed
  <2>6. Stages'
    BY <1>1, <1>2, <1>6, <2>4 DEF Stages, Frozen
  <2>7. Places'
    <3>1. ASSUME NEW q \in Sessions PROVE PlaceOf(q)'
      BY <1>1, <1>6, <2>2, <2>3 DEF Places, PlaceOf
    <3> QED BY <1>4, <2>3, <2>4, <3>1 DEF Places
  <2>8. Turns' /\ CapsRespected'
    <3>1. TurnsSent(sess') = TurnsSent(sess)
      BY <2>2, <2>3, TurnsSame
    <3> QED BY <1>1, <1>6, <3>1 DEF Turns, CapsRespected, RequestCap, SessionCap
  <2>9. Books'
    <3>1. /\ sess'[s] \notin FlightKind /\ sess[s] \notin FlightKind
          /\ sess'[s] \notin PrefillKind /\ sess[s] \notin PrefillKind
          /\ sess'[s] \in OpenKind <=> sess[s] \in OpenKind
      BY <1>1, <2>1, <2>2, <2>3, Fields DEF FlightKind, PrefillKind, OpenKind
    <3>2. Census(sess', FlightKind) = Census(sess, FlightKind)
      BY <2>3, <3>1, CensusSame
    <3>3. Census(sess', PrefillKind) = Census(sess, PrefillKind)
      BY <2>3, <3>1, CensusSame
    <3>4. Census(sess', OpenKind) = Census(sess, OpenKind)
      BY <2>3, <3>1, CensusSame
    <3> QED BY <1>1, <1>6, <3>2, <3>3, <3>4 DEF Books, InFlightSessions
  <2> QED BY <2>5, <2>6, <2>7, <2>8, <2>9 DEF IInv
<1> QED BY <1>5, <1>6 DEF ProceedWith

(* The head of the queue is sent, stopped or held for a prefill slot.      *)
LEMMA TakeContinuationKeeps ==
  ASSUME IInv, UNCHANGED plan, TakeContinuation
  PROVE  IInv'
<1>1. Typed /\ Stages /\ Places /\ Books /\ Turns /\ CapsRespected
  BY DEF IInv
<1> DEFINE s == Head(queue)
<1>2. /\ loop.at = "ready" /\ queue # <<>> /\ queue' = Tail(queue)
      /\ UNCHANGED <<life, cancelled, timeUp, lost, runner, sentEvent, returnedEvent,
                     sessionFree>>
  BY DEF TakeContinuation
<1>3. /\ queue \in Seq(Sessions) /\ Len(queue) \in Nat /\ 1 \in 1 .. Len(queue)
      /\ s = queue[1] /\ s \in Sessions
      /\ queue' \in Seq(Sessions) /\ Len(queue') = Len(queue) - 1
      /\ \A i \in 1 .. Len(queue') : queue'[i] = queue[i + 1]
  BY <1>1, <1>2 DEF Typed
<1>4. sess[s].at = "queue"
  BY <1>1, <1>3 DEF Places
<1>5. \A i \in 1 .. Len(queue') :
        /\ i + 1 \in 1 .. Len(queue) /\ i + 1 # 1
        /\ queue'[i] = queue[i + 1]
  BY <1>3
<1>6. \A i \in 1 .. Len(queue') : queue'[i] # s /\ sess[queue'[i]].at = "queue"
  <2>1. ASSUME NEW i \in 1 .. Len(queue')
        PROVE  queue[i + 1] # queue[1] /\ sess[queue[i + 1]].at = "queue"
    BY <1>1, <1>3, <1>5 DEF Places
  <2> QED BY <1>3, <1>5, <2>1
<1>7. \A i, j \in 1 .. Len(queue') : i # j => queue'[i] # queue'[j]
  <2>1. ASSUME NEW i \in 1 .. Len(queue'), NEW j \in 1 .. Len(queue'), i # j
        PROVE  queue'[i] # queue'[j]
    <3>1. i + 1 # j + 1
      BY <2>1
    <3> QED BY <1>1, <1>5, <3>1 DEF Places
  <2> QED BY <2>1
<1>8. CASE prefillFree > 0 /\ ProceedWith(s)
  <2> HIDE DEF s
  <2> QED BY <1>2, <1>3, <1>4, <1>6, <1>7, <1>8, ProceedKeeps
<1>9. CASE /\ sess' = Move(s, "held")
           /\ loop' = [at |-> "prefill", session |-> s, final |-> FALSE]
           /\ UNCHANGED <<count, prefillFree>>
  <2> HIDE DEF s
  <2> DEFINE r == [at |-> "held", turns |-> sess[s].turns, sent |-> sess[s].sent]
  <2>1. sess' = [sess EXCEPT ![s] = r] /\ sess' \in [Sessions -> Session] /\ r \in Session
    BY <1>1, <1>3, <1>9, Moved DEF Status
  <2>2. r.at = "held" /\ r.turns = sess[s].turns /\ r.sent = sess[s].sent
    OBVIOUS
  <2> HIDE DEF r
  <2>3. sess'[s] = r /\ \A q \in Sessions \ {s} : sess'[q] = sess[q]
    BY <1>1, <1>3, <2>1 DEF Typed
  <2>4. loop' \in Loop /\ loop'.at = "prefill" /\ loop'.session = s
    BY <1>3, <1>9, Params DEF Loop, Sessions
  <2>5. Typed'
    BY <1>1, <1>2, <1>3, <1>9, <2>1, <2>4 DEF Typed
  <2>6. Stages'
    BY <1>1, <1>2, <1>9, <2>4 DEF Stages, Frozen
  <2>7. Places'
    <3>1. ASSUME NEW q \in Sessions PROVE PlaceOf(q)'
      BY <1>1, <1>4, <1>9, <2>2, <2>3 DEF Places, PlaceOf
    <3>2. \A i \in 1 .. Len(queue') : queue'[i] \in Sessions
      BY <1>3
    <3> QED BY <1>3, <1>6, <1>7, <2>2, <2>3, <2>4, <3>1, <3>2 DEF Places
  <2>8. Turns' /\ CapsRespected'
    <3>1. TurnsSent(sess') = TurnsSent(sess)
      BY <1>3, <2>2, <2>3, TurnsSame
    <3> QED BY <1>1, <1>9, <3>1 DEF Turns, CapsRespected, RequestCap, SessionCap
  <2>9. Books'
    <3>1. /\ sess'[s] \notin FlightKind /\ sess[s] \notin FlightKind
          /\ sess'[s] \notin PrefillKind /\ sess[s] \notin PrefillKind
          /\ sess'[s] \in OpenKind <=> sess[s] \in OpenKind
      BY <1>1, <1>3, <1>4, <2>1, <2>2, <2>3, Fields DEF FlightKind, PrefillKind, OpenKind
    <3>2. Census(sess', FlightKind) = Census(sess, FlightKind)
      BY <1>3, <2>3, <3>1, CensusSame
    <3>3. Census(sess', PrefillKind) = Census(sess, PrefillKind)
      BY <1>3, <2>3, <3>1, CensusSame
    <3>4. Census(sess', OpenKind) = Census(sess, OpenKind)
      BY <1>3, <2>3, <3>1, CensusSame
    <3> QED BY <1>1, <1>2, <1>9, <3>2, <3>3, <3>4 DEF Books, InFlightSessions
  <2> QED BY <2>5, <2>6, <2>7, <2>8, <2>9 DEF IInv
<1> QED BY <1>8, <1>9 DEF TakeContinuation

(* The session that was held goes on.                                      *)
LEMMA PrefillGrantedKeeps ==
  ASSUME IInv, UNCHANGED plan, PrefillGranted
  PROVE  IInv'
<1>1. Typed /\ Places
  BY DEF IInv
<1> DEFINE s == loop.session
<1>2. /\ loop.at = "prefill" /\ prefillFree > 0 /\ ProceedWith(s) /\ queue' = queue
      /\ UNCHANGED <<life, cancelled, timeUp, lost, runner, sentEvent, returnedEvent,
                     sessionFree>>
  BY DEF PrefillGranted
<1>3. s \in Sessions /\ sess[s].at = "held"
  BY <1>1, <1>2 DEF Places
<1> HIDE DEF s
<1>4. /\ queue' \in Seq(Sessions)
      /\ \A i \in 1 .. Len(queue') : queue'[i] # s /\ sess[queue'[i]].at = "queue"
      /\ \A i, j \in 1 .. Len(queue') : i # j => queue'[i] # queue'[j]
  BY <1>1, <1>2, <1>3 DEF Places, Typed
<1> QED BY <1>2, <1>3, <1>4, ProceedKeeps

(* A new session takes a session slot; the caps had room for it.           *)
LEMMA StartSessionKeeps ==
  ASSUME IInv, UNCHANGED plan, NEW turns \in 1 .. MaxTurns, StartSession(turns)
  PROVE  IInv'
<1>1. Typed /\ Stages /\ Places /\ Books /\ Turns /\ CapsRespected
  BY DEF IInv
<1>2. PICK s \in Sessions : s = count.sentSessions + 1
  BY DEF StartSession
<1> DEFINE r == [at |-> "prefill", turns |-> turns, sent |-> sess[s].sent + 1]
<1>3. /\ loop.at = "ready" /\ queue = <<>> /\ CanStartNewSession
      /\ sessionFree > 0 /\ prefillFree > 0
      /\ Issue(s, turns) /\ sessionFree' = sessionFree - 1
      /\ UNCHANGED <<life, cancelled, timeUp, lost, queue, runner, sentEvent, returnedEvent>>
  BY <1>2 DEF StartSession
<1>4. life = "started" /\ ~Frozen /\ ~returnedEvent
  BY <1>1, <1>3 DEF Stages, Frozen, AllReturned
<1>5. s = count.sentSessions + 1 /\ count.sentSessions \in Nat
  BY <1>2, <1>1, Fields
<1>6. r.at = "prefill" /\ r.turns = turns /\ r.sent = sess[s].sent + 1
  OBVIOUS
<1>7. sess[s].at = "new" /\ sess[s].sent = 0 /\ Opens(s) = 1
  BY <1>1, <1>3, <1>5 DEF Places, PlaceOf, Opens
<1>8. /\ count' \in Counts /\ sess' \in [Sessions -> Session] /\ loop' \in Loop
      /\ prefillFree' \in Nat
      /\ sess' = [sess EXCEPT ![s] = r]
      /\ loop'.at = "sending"
      /\ count'.sent = count.sent + 1
      /\ count'.finalSent = count.finalSent
      /\ count'.sentSessions = count.sentSessions + Opens(s)
      /\ count'.sent - count'.completed - count'.cancelled = Census(sess', FlightKind)
      /\ count'.sent - count'.prefillsReleased = Census(sess', PrefillKind)
      /\ PrefillSlots - prefillFree' = Census(sess', PrefillKind)
      /\ InFlightSessions(count') = Census(sess', OpenKind)
      /\ Census(sess', OpenKind) = Census(sess, OpenKind) + Opens(s)
      /\ count'.sent = Cardinality(TurnsSent(sess'))
  BY <1>1, <1>3, <1>4, <1>7, IssueBooks
<1> HIDE DEF r
<1>9. sess'[s] = r /\ \A q \in Sessions \ {s} : sess'[q] = sess[q]
  BY <1>1, <1>3, <1>8 DEF Typed
<1>10. sessionFree \in Nat /\ sessionFree' \in Nat
  BY <1>1, <1>3 DEF Typed
<1>11. Typed'
  BY <1>1, <1>3, <1>8, <1>10 DEF Typed
<1>12. Stages'
  BY <1>1, <1>3, <1>4, <1>8 DEF Stages, Frozen
<1>13. Places'
  <2>1. ASSUME NEW q \in Sessions, q # s PROVE PlaceOf(q)'
    <3>1. q > count.sentSessions <=> q > count'.sentSessions
      BY <1>5, <1>7, <1>8, <2>1 DEF Sessions
    <3> QED BY <1>1, <1>9, <2>1, <3>1 DEF Places, PlaceOf
  <2>2. PlaceOf(s)'
    <3>1. count'.sentSessions = s
      BY <1>5, <1>7, <1>8
    <3>2. r.sent = 1 /\ 1 <= r.turns /\ s \in Nat
      BY <1>5, <1>6, <1>7, Params
    <3> QED BY <1>6, <1>9, <3>1, <3>2 DEF PlaceOf
  <2>3. Len(queue') = 0 /\ \A i \in 1 .. Len(queue') : FALSE
    BY <1>3
  <2>4. loop'.at # "prefill"
    BY <1>8
  <2>5. \A q \in Sessions : PlaceOf(q)'
    BY <2>1, <2>2
  <2> QED BY <2>3, <2>4, <2>5 DEF Places
<1>14. CapsRespected'
  <2>1. /\ RequestCap # None => count.sent < RequestCap
        /\ SessionCap # None => count.sentSessions < SessionCap
    BY <1>3 DEF CanStartNewSession, CanSendAnyTurn
  <2>2. RequestCap \in Nat \cup {None} /\ SessionCap \in Nat \cup {None}
    BY <1>1, CreditPhaseAssumption DEF Typed, RequestCap, SessionCap
  <2>3. RequestCap' = RequestCap /\ SessionCap' = SessionCap
    BY DEF RequestCap, SessionCap
  <2>4. count'.sent = count.sent + 1 /\ count'.sentSessions = count.sentSessions + 1
    BY <1>7, <1>8
  <2> QED BY <1>1, <2>1, <2>2, <2>3, <2>4, Fields DEF CapsRespected
<1>15. Books'
  <2>1. SessionSlots - sessionFree = Census(sess, OpenKind)
    BY <1>1, <1>4 DEF Books
  <2>2. SessionSlots - sessionFree' = Census(sess', OpenKind)
    BY <1>3, <1>7, <1>8, <1>10, <2>1, Params, CensusNat
  <2> QED BY <1>8, <2>2 DEF Books
<1>16. Turns'
  BY <1>8 DEF Turns
<1> QED BY <1>11, <1>12, <1>13, <1>14, <1>15, <1>16 DEF IInv

-----------------------------------------------------------------------------
(* The invariant holds at the start.                                       *)
LEMMA InitInv == Init => IInv
<1> SUFFICES ASSUME Init PROVE IInv
  OBVIOUS
<1>1. \A s \in Sessions : sess[s] = [at |-> "new", turns |-> 0, sent |-> 0]
  BY DEF Init
<1>2. Typed
  <2>1. [at |-> "new", turns |-> 0, sent |-> 0] \in Session
    BY Params DEF Session, Status
  <2>2. count \in Counts
    BY DEF Init, Counts
  <2>3. loop \in Loop
    BY Params DEF Init, Loop
  <2>4. sess \in [Sessions -> Session]
    BY <2>1 DEF Init
  <2>5. queue \in Seq(Sessions) /\ lost \in SUBSET Sessions
    BY DEF Init
  <2> QED BY <2>2, <2>3, <2>4, <2>5, Params DEF Init, Typed
<1>3. Stages
  BY DEF Init, Stages, Frozen
<1>4. Places
  BY <1>1 DEF Init, Places, PlaceOf, Sessions
<1>5. Books
  <2>1. Census(sess, FlightKind) = 0
    BY <1>1, CensusEmpty DEF FlightKind
  <2>2. Census(sess, PrefillKind) = 0
    BY <1>1, CensusEmpty DEF PrefillKind
  <2>3. Census(sess, OpenKind) = 0
    BY <1>1, CensusEmpty DEF OpenKind
  <2> QED BY <2>1, <2>2, <2>3, Params DEF Init, Books, InFlightSessions
<1>6. Turns
  <2>1. TurnsSent(sess) = {}
    BY <1>1 DEF TurnsSent
  <2> QED BY <2>1, FS_EmptySet DEF Init, Turns
<1>7. CapsRespected
  BY CreditPhaseAssumption DEF Init, CapsRespected, RequestCap, SessionCap
<1> QED BY <1>2, <1>3, <1>4, <1>5, <1>6, <1>7 DEF IInv

(* Every step keeps the invariant.                                        *)
LEMMA StepInv == IInv /\ [Next]_vars => IInv'
<1> SUFFICES ASSUME IInv, [Next]_vars PROVE IInv'
  OBVIOUS
<1>1. CASE UNCHANGED vars
  BY <1>1 DEF vars, state, IInv, Typed, Stages, Frozen, AllReturned, Places, PlaceOf, Books,
              InFlightSessions, Turns, CapsRespected, RequestCap, SessionCap
<1>2. CASE Next
  <2>1. UNCHANGED plan
    BY <1>2 DEF Next
  <2>2. CASE LoopStep
    BY <2>1, <2>2, TakeContinuationKeeps, PrefillGrantedKeeps, StartSessionKeeps,
       LeaveLoopKeeps, CreditSentKeeps DEF LoopStep
  <2>3. ASSUME NEW s \in Sessions, WorkerStep(s) \/ DelayElapsed(s) \/ LoseCredit(s)
        PROVE  IInv'
    BY <2>1, <2>3, FirstTokenKeeps, CreditReturnKeeps, LateReturnKeeps, DelayElapsedKeeps,
       LoseCreditKeeps DEF WorkerStep
  <2>4. CASE RunnerStep
    BY <2>1, <2>4, StartKeeps, StopSendingKeeps, AwaitReturnsKeeps, AllBackKeeps,
       StartDrainKeeps DEF RunnerStep
  <2>5. CASE TimeUp \/ GraceOver \/ ForceComplete \/ Cancel
    BY <2>1, <2>5, TimeUpKeeps, GraceOverKeeps, ForceCompleteKeeps, CancelKeeps
  <2> QED BY <1>2, <2>2, <2>3, <2>4, <2>5 DEF Next
<1> QED BY <1>1, <1>2

(* The invariant of the credit phase.                                      *)
THEOREM Invariance == Spec => []IInv
<1>1. Init => IInv
  BY InitInv
<1>2. IInv /\ [Next]_vars => IInv'
  BY StepInv
<1> QED BY <1>1, <1>2, PTL DEF Spec

-----------------------------------------------------------------------------
(* The census is what the properties count.                                *)
LEMMA Counted ==
  ASSUME Typed
  PROVE  /\ Census(sess, FlightKind) = Cardinality(InFlight)
         /\ Census(sess, PrefillKind) = Cardinality(At({"prefill"}))
         /\ Census(sess, OpenKind) = Cardinality(Started \ At({"done"}))
<1>1. \A s \in Sessions : sess[s] \in Session
  BY DEF Typed
<1>2. {s \in Sessions : sess[s] \in FlightKind} = InFlight
  BY <1>1 DEF FlightKind, InFlight, At
<1>3. {s \in Sessions : sess[s] \in PrefillKind} = At({"prefill"})
  BY <1>1 DEF PrefillKind, At
<1>4. {s \in Sessions : sess[s] \in OpenKind} = Started \ At({"done"})
  BY <1>1 DEF OpenKind, Started, At
<1> QED BY <1>2, <1>3, <1>4 DEF Census

(* Whatever meets in which order, the counters and slots of the phase      *)
(* match the work that is out, nothing is sent after the freeze, and no    *)
(* stop condition is overshot (CreditCounter, ConcurrencyManager,          *)
(* StopConditionChecker).                                                  *)
THEOREM BooksMatchWorkThm == Spec => []BooksMatchWork
<1>1. IInv => BooksMatchWork
  <2> SUFFICES ASSUME IInv PROVE BooksMatchWork
    OBVIOUS
  <2>1. Typed /\ Stages /\ Places /\ Books /\ Turns /\ CapsRespected
    BY DEF IInv
  <2>2. TypeOK
    BY <2>1 DEF Typed, TypeOK, Counts, Session, Loop
  <2>3. CountersMatchWork
    BY <2>1, Counted DEF Turns, TurnsSent, CreditsSent, Books, CountersMatchWork
  <2>4. NothingSentAfterFreeze
    BY <2>1 DEF Stages, Frozen, NothingSentAfterFreeze
  <2>5. SlotsMatchWork
    <3> SUFFICES ASSUME life # "complete" PROVE SlotsMatchWork
      BY DEF SlotsMatchWork
    <3>1. PrefillSlots - prefillFree = Cardinality(At({"prefill"}))
      BY <2>1, Counted DEF Books
    <3>2. \/ SessionSlots - sessionFree = Cardinality(Started \ At({"done"}))
          \/ returnedEvent /\ sessionFree = SessionSlots
      BY <2>1, Counted DEF Books
    <3>3. sessionFree = SessionSlots => SessionSlots - sessionFree = 0
      BY Params
    <3> QED BY <3>1, <3>2, <3>3 DEF SlotsMatchWork
  <2> QED BY <2>1, <2>2, <2>3, <2>4, <2>5 DEF BooksMatchWork
<1> QED BY <1>1, Invariance, PTL

(* When the counter says that all is back, no credit is in flight.         *)
LEMMA ReturnedMeansNoneOut ==
  ASSUME IInv, life # "complete", AllReturned(count)
  PROVE  InFlight = {}
<1>1. Typed /\ Stages /\ Books
  BY DEF IInv
<1>2. count.sent - count.completed - count.cancelled = Cardinality(InFlight)
  BY <1>1, Counted DEF Books
<1>3. count.completed + count.cancelled >= count.sent
  BY <1>1 DEF Stages, Frozen, AllReturned
<1>4. IsFiniteSet(InFlight) /\ Cardinality(InFlight) \in Nat
  <2>1. IsFiniteSet(Sessions) /\ InFlight \in SUBSET Sessions
    BY Params, FS_Interval DEF Sessions, InFlight, At
  <2> QED BY <2>1, FS_Subset, FS_CardinalityType
<1>5. Cardinality(InFlight) = 0
  BY <1>1, <1>2, <1>3, <1>4, Fields
<1> QED BY <1>4, <1>5, FS_EmptySet

(* No step of the loop, of a worker or of a timer completes the phase.     *)
LEMMA OnlyTheRunnerCompletes ==
  ASSUME IInv, [Next]_vars, life # "complete", life' = "complete"
  PROVE  AwaitReturns \/ AllBack \/ ForceComplete
<1>1. CASE UNCHANGED vars
  BY <1>1 DEF vars, state
<1>2. CASE LoopStep
  BY <1>2 DEF LoopStep, TakeContinuation, PrefillGranted, StartSession, LeaveLoop, CreditSent
<1>3. ASSUME NEW s \in Sessions, WorkerStep(s) \/ DelayElapsed(s) \/ LoseCredit(s)
      PROVE  FALSE
  BY <1>3 DEF WorkerStep, FirstToken, CreditReturn, LateReturn, DelayElapsed, LoseCredit
<1>4. CASE TimeUp \/ GraceOver \/ Cancel \/ Start \/ StopSending \/ StartDrain
  BY <1>4 DEF TimeUp, GraceOver, Cancel, Start, StopSending, StartDrain
<1> QED BY <1>1, <1>2, <1>3, <1>4 DEF Next, RunnerStep

(* PhaseRunner completes a phase with a credit in flight only when the run *)
(* was cancelled or the drain timed out.                                   *)
THEOREM CompletesDrainedThm == Spec => CompletesDrained
<1>1. IInv /\ [Next]_vars
        => [life # "complete" /\ life' = "complete"
              => InFlight = {} \/ cancelled \/ (runner = "draining" /\ ~returnedEvent)]_vars
  <2> SUFFICES ASSUME IInv, [Next]_vars, life # "complete", life' = "complete"
               PROVE  InFlight = {} \/ cancelled \/ (runner = "draining" /\ ~returnedEvent)
    OBVIOUS
  <2>1. CASE AwaitReturns
    <3>1. runner = "returning" /\ (NothingToAwait \/ life' = life)
      BY <2>1 DEF AwaitReturns
    <3> QED BY <3>1, ReturnedMeansNoneOut DEF NothingToAwait
  <2>2. CASE AllBack
    <3>1. AllReturned(count)
      BY <2>2 DEF AllBack, IInv, Stages
    <3> QED BY <3>1, ReturnedMeansNoneOut
  <2>3. CASE ForceComplete
    BY <2>3 DEF ForceComplete
  <2> QED BY <2>1, <2>2, <2>3, OnlyTheRunnerCompletes
<1> QED BY <1>1, Invariance, PTL DEF Spec, CompletesDrained

-----------------------------------------------------------------------------
(* Issuing a credit is the contract's Send.                                *)
LEMMA SendRefines ==
  ASSUME IInv, NEW s \in Sessions, NEW turns, life = "started", Issue(s, turns), UNCHANGED life
  PROVE  Contract!Next
<1>1. /\ count'.sent = count.sent + 1
      /\ count'.completed = count.completed /\ count'.cancelled = count.cancelled
  BY DEF IInv, Typed, Counts, Issue
<1> QED BY <1>1 DEF Contract!Next, Contract!Send

(* A return is the contract's Return: a credit is out, so fewer are back   *)
(* than were sent.                                                         *)
LEMMA ReturnRefines ==
  ASSUME IInv, NEW s \in Sessions, NEW wasCancelled \in BOOLEAN, CreditReturn(s, wasCancelled)
  PROVE  Contract!Next
<1>1. Typed /\ Books /\ Places
  BY DEF IInv
<1>2. life # "complete" /\ UNCHANGED life /\ sess[s] \in FlightKind
  BY <1>1, Fields DEF CreditReturn, IsComplete, InFlight, At, FlightKind
<1>3. Census(sess, FlightKind) # 0
  BY <1>2, CensusEmpty
<1>4. count.completed + count.cancelled < count.sent
  BY <1>1, <1>2, <1>3, Fields, CensusNat DEF Books
<1>5. /\ count'.sent = count.sent
      /\ count'.completed = count.completed + (IF wasCancelled THEN 0 ELSE 1)
      /\ count'.cancelled = count.cancelled + (IF wasCancelled THEN 1 ELSE 0)
  BY <1>1 DEF Typed, Counts, CreditReturn, CountReturn
<1>6. count'.completed + count'.cancelled = count.completed + count.cancelled + 1
  <2>1. CASE wasCancelled
    BY <1>1, <1>5, <2>1, Fields
  <2>2. CASE ~wasCancelled
    BY <1>1, <1>5, <2>2, Fields
  <2> QED BY <2>1, <2>2
<1> QED BY <1>2, <1>4, <1>5, <1>6 DEF Contract!Next, Contract!Return

(* A step of the loop sends a credit or changes nothing the contract sees. *)
LEMMA LoopRefines ==
  ASSUME IInv, LoopStep
  PROVE  [Contract!Next]_Contract!vars
<1>1. Typed /\ Stages /\ Places
  BY DEF IInv
<1>2. ASSUME NEW s \in Sessions, ProceedWith(s), UNCHANGED life
      PROVE  [Contract!Next]_Contract!vars
  <2>1. CASE CanSendAnyTurn /\ Issue(s, sess[s].turns)
    BY <1>2, <2>1, SendRefines DEF CanSendAnyTurn
  <2>2. CASE UNCHANGED count
    BY <1>2, <2>2 DEF Contract!vars
  <2> QED BY <1>2, <2>1, <2>2 DEF ProceedWith
<1>3. CASE TakeContinuation
  <2>1. Head(queue) \in Sessions
    BY <1>1, <1>3 DEF TakeContinuation, Typed
  <2>2. UNCHANGED life /\ (ProceedWith(Head(queue)) \/ UNCHANGED count)
    BY <1>3 DEF TakeContinuation
  <2> QED BY <1>2, <2>1, <2>2 DEF Contract!vars
<1>4. CASE PrefillGranted
  <2>1. loop.session \in Sessions /\ ProceedWith(loop.session) /\ UNCHANGED life
    BY <1>1, <1>4 DEF PrefillGranted, Places
  <2> QED BY <1>2, <2>1
<1>5. ASSUME NEW turns \in 1 .. MaxTurns, StartSession(turns)
      PROVE  [Contract!Next]_Contract!vars
  <2>1. PICK s \in Sessions : s = count.sentSessions + 1
    BY <1>5 DEF StartSession
  <2>2. life = "started" /\ Issue(s, turns) /\ UNCHANGED life
    BY <1>5, <2>1 DEF StartSession, CanStartNewSession, CanSendAnyTurn
  <2> QED BY <2>2, SendRefines
<1>6. CASE LeaveLoop
  BY <1>6 DEF LeaveLoop, Contract!vars
<1>7. CASE CreditSent
  <2>1. /\ count'.sent = count.sent /\ count'.completed = count.completed
        /\ count'.cancelled = count.cancelled /\ UNCHANGED life
    BY <1>1, <1>7 DEF CreditSent, Typed, Counts
  <2> QED BY <2>1 DEF Contract!vars
<1> QED BY <1>3, <1>4, <1>5, <1>6, <1>7 DEF LoopStep

(* A step of the runner starts, ends the sending, completes, or is unseen. *)
LEMMA RunnerRefines ==
  ASSUME IInv, RunnerStep \/ ForceComplete
  PROVE  [Contract!Next]_Contract!vars
<1>1. Typed /\ Stages
  BY DEF IInv
<1>2. CASE Start
  BY <1>1, <1>2 DEF Start, Stages, Contract!Next, Contract!Start
<1>3. CASE StopSending
  <2>1. /\ count'.sent = count.sent /\ count'.completed = count.completed
        /\ count'.cancelled = count.cancelled
    BY <1>1, <1>3 DEF StopSending, Typed, Counts
  <2> QED BY <1>1, <1>3, <2>1 DEF StopSending, Stages, Contract!Next, Contract!StopSending
<1>4. CASE StartDrain
  BY <1>4 DEF StartDrain, Contract!vars
<1>5. CASE AwaitReturns \/ AllBack \/ ForceComplete
  <2>1. /\ runner \in {"returning", "waiting", "draining"} /\ UNCHANGED count
        /\ life' = "complete" \/ life' = life
    BY <1>5 DEF AwaitReturns, AllBack, ForceComplete, Complete
  <2>2. life = "sending_complete"
    BY <1>1, <2>1 DEF Typed, Stages
  <2> QED BY <2>1, <2>2 DEF Contract!Next, Contract!Complete, Contract!vars
<1> QED BY <1>2, <1>3, <1>4, <1>5 DEF RunnerStep

(* The detailed phase implements PhaseContract: credits go out only while  *)
(* it is started, none comes back twice, and its counts are final once it  *)
(* is complete.                                                            *)
THEOREM KeepsContractThm == Spec => KeepsContract
<1>1. Init => Contract!Init
  BY DEF Init, Contract!Init
<1>2. IInv /\ [Next]_vars => [Contract!Next]_Contract!vars
  <2> SUFFICES ASSUME IInv, [Next]_vars PROVE [Contract!Next]_Contract!vars
    OBVIOUS
  <2>1. CASE UNCHANGED vars
    BY <2>1 DEF vars, state, Contract!vars
  <2>2. ASSUME NEW s \in Sessions, WorkerStep(s) \/ DelayElapsed(s) \/ LoseCredit(s)
        PROVE  [Contract!Next]_Contract!vars
    <3>1. CASE FirstToken(s)
      <4>1. /\ count'.sent = count.sent /\ count'.completed = count.completed
            /\ count'.cancelled = count.cancelled /\ UNCHANGED life
        BY <3>1 DEF FirstToken, IInv, Typed, Counts
      <4> QED BY <4>1 DEF Contract!vars
    <3>2. CASE LateReturn(s) \/ DelayElapsed(s) \/ LoseCredit(s)
      BY <3>2 DEF LateReturn, DelayElapsed, LoseCredit, Contract!vars
    <3> QED BY <2>2, <3>1, <3>2, ReturnRefines DEF WorkerStep
  <2>3. CASE TimeUp \/ GraceOver \/ Cancel
    BY <2>3 DEF TimeUp, GraceOver, Cancel, Contract!vars
  <2> QED BY <2>1, <2>2, <2>3, LoopRefines, RunnerRefines DEF Next
<1> QED BY <1>1, <1>2, Invariance, PTL DEF Spec, KeepsContract, Contract!Spec

=============================================================================
