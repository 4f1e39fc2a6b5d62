----------------------- MODULE RecordsManager_proofs ------------------------
(***************************************************************************)
(* The RecordsManager for any number of phases, requests and messages not  *)
(* yet handled: a run has one result, and a result that claims to be       *)
(* complete has every completed request in it.                             *)
(***************************************************************************)
EXTENDS RecordsManager, FiniteSetTheorems, SequenceTheorems, TLAPS

-----------------------------------------------------------------------------
(* The types, with those TypeOK leaves open: the bus and the trackers.     *)

StatsMessage == [kind : {"progress"}, phase : Phases, final : {None}, cancelled : BOOLEAN]
FinalMessage == [kind : {"complete"}, phase : Phases, final : 0 .. MaxRequests,
                 cancelled : BOOLEAN]
Message == StatsMessage \cup FinalMessage \cup [kind : {"over"}]

Tracker == [known : BOOLEAN, good : Nat, bad : Nat, final : {None} \cup 0 .. MaxRequests,
            cancelled : BOOLEAN, sentAll : BOOLEAN]

Places == {"idle", "called", "announcing", "relaying", "queued", "inside", "published",
           "failed", "reporting", "refused", "over"}

Typed ==
  /\ run \in Runs
  /\ stage \in [Phases -> {"new", "started", "sent", "complete"}]
  /\ completed \in [Phases -> Nat]
  /\ bus \in Seq(Message)
  /\ arriving \in [Phases -> [Outcomes -> Nat]]
  /\ over \in BOOLEAN /\ halt \in {"no", "sent", "heard", "broken"}
  /\ tracker \in [Phases -> Tracker]
  /\ closing \subseteq Phases
  /\ complete \in BOOLEAN /\ creditsOver \in BOOLEAN
  /\ handled \in BOOLEAN /\ stalled \in BOOLEAN
  /\ aborting \in {"armed", "asking", "asked"}
  /\ caller \in [Callers -> Places]
  /\ asCancelled \in [Callers -> BOOLEAN]
  /\ lock \in Callers \cup {None}
  /\ cached \in Results \cup {None}
  /\ published \in Seq(Results)

-----------------------------------------------------------------------------
(* One result.                                                             *)

(* Who has not been called yet.                                            *)
Unstarted ==
  /\ ~handled => caller["natural"] = "idle"
  /\ aborting # "asked" => caller["abort"] = "idle"

(* Who holds the lock is inside, or has published and not yet kept what it *)
(* published; nobody else has published, but for a failure being reported, *)
(* which is kept first.                                                    *)
Held ==
  /\ \A c \in Callers : caller[c] \in {"inside", "published"} <=> lock = c
  /\ \A c \in Callers : caller[c] = "inside" => cached = None /\ published = <<>>
  /\ \A c \in Callers : caller[c] = "published" => cached = None /\ Len(published) = 1
  /\ \A c \in Callers : caller[c] = "reporting" => cached # None /\ published = <<>>
  /\ \A c, d \in Callers : caller[c] = "reporting" /\ caller[d] = "reporting" => c = d
  /\ cached = None /\ lock = None => published = <<>>
  /\ Len(published) <= 1
  /\ Unstarted

-----------------------------------------------------------------------------
(* Complete means all.                                                     *)

(* The messages of phase p on a bus q: none, progress only, or, at last,   *)
(* that it is complete with n requests.                                    *)
About(m, p) == m.kind \in {"progress", "complete"} /\ m.phase = p
Silent(q, p) == \A i \in 1 .. Len(q) : ~About(q[i], p)
Open(q, p) == \A i \in 1 .. Len(q) : About(q[i], p) => q[i].kind = "progress"
Closes(q, p, n) ==
  \E i \in 1 .. Len(q) :
    /\ About(q[i], p) /\ q[i].kind = "complete" /\ q[i].final = n
    /\ \A j \in 1 .. Len(q) : About(q[j], p) => j = i \/ (j < i /\ q[j].kind = "progress")

(* A phase is known, or will be, when the bus says that the run is over.   *)
Foretold(q, known, p) ==
  \A i \in 1 .. Len(q) : q[i].kind = "over" =>
    known \/ \E j \in 1 .. Len(q) : j < i /\ About(q[j], p)

NotOver(q) == \A i \in 1 .. Len(q) : q[i].kind # "over"

(* The trackers and the bus together say what a phase has come to.         *)
Told(p) ==
  /\ stage[p] = "new" => completed[p] = 0 /\ tracker[p].final = None /\ Silent(bus, p)
  /\ stage[p] \in {"started", "sent"} => tracker[p].final = None /\ Open(bus, p)
  /\ stage[p] = "complete" =>
       \/ tracker[p].final = completed[p] /\ Silent(bus, p)
       \/ tracker[p].final = None /\ Closes(bus, p, completed[p])

(* A phase that was started is known before the run is over.               *)
Announces(p) ==
  stage[p] # "new" =>
    /\ tracker[p].known \/ ~Silent(bus, p)
    /\ Foretold(bus, tracker[p].known, p)
    /\ creditsOver => tracker[p].known

(* No record without a request.                                            *)
Covered(p) ==
  /\ tracker[p].good + tracker[p].bad + arriving[p]["good"] + arriving[p]["bad"]
       <= completed[p]
  /\ completed[p] <= run.requests

(* The phases are at their end, and every record is in.                    *)
Ended ==
  /\ over
  /\ \A p \in Phases : /\ stage[p] \in {"new", "complete"}
                       /\ tracker[p].good + tracker[p].bad = completed[p]

Honest(r) == r.complete => Ended /\ r.counted = Total(completed)

Kept(p) == Told(p) /\ Announces(p) /\ Covered(p)

Books ==
  /\ \A p \in Phases : Kept(p)
  /\ ~over => NotOver(bus) /\ ~creditsOver
  /\ handled /\ ~stalled => Ended

Claims ==
  /\ asCancelled["command"] /\ asCancelled["abort"]
  /\ \A i \in 1 .. Len(published) : Honest(published[i])
  /\ cached # None => Honest(cached)

(* The inductive invariant.                                                *)
IInv == Typed /\ Held /\ Books /\ Claims

-----------------------------------------------------------------------------
(* A message is sent.                                                      *)
LEMMA MessageSent ==
  ASSUME NEW q \in Seq(Message), NEW m \in Message, NEW p
  PROVE  LET r == Append(q, m) IN
         /\ r \in Seq(Message)
         /\ Silent(q, p) /\ ~About(m, p) => Silent(r, p)
         /\ ~Silent(q, p) \/ About(m, p) => ~Silent(r, p)
         /\ Open(q, p) /\ (About(m, p) => m.kind = "progress") => Open(r, p)
         /\ \A n : Closes(q, p, n) /\ ~About(m, p) => Closes(r, p, n)
         /\ \A n : Open(q, p) /\ About(m, p) /\ m.kind = "complete" /\ m.final = n
                 => Closes(r, p, n)
         /\ \A k \in BOOLEAN :
              Foretold(q, k, p) /\ (m.kind = "over" => k \/ ~Silent(q, p)) => Foretold(r, k, p)
         /\ NotOver(q) /\ m.kind # "over" => NotOver(r)
<1> DEFINE r == Append(q, m)
<1>1. /\ r \in Seq(Message) /\ Len(q) \in Nat /\ Len(r) = Len(q) + 1
      /\ \A i \in 1 .. Len(q) : r[i] = q[i]
      /\ r[Len(r)] = m
  BY AppendProperties, LenProperties
<1> HIDE DEF r
<1>2. \A i \in 1 .. Len(r) : (i \in 1 .. Len(q) /\ r[i] = q[i]) \/ (i = Len(r) /\ r[i] = m)
  BY <1>1
<1>3. \A i \in 1 .. Len(q) : i \in 1 .. Len(r) /\ i < Len(r) /\ r[i] = q[i]
  BY <1>1
<1>3a. Len(r) \in 1 .. Len(r)
  BY <1>1
<1>4. Silent(q, p) /\ ~About(m, p) => Silent(r, p)
  BY <1>2 DEF Silent
<1>5. ~Silent(q, p) \/ About(m, p) => ~Silent(r, p)
  BY <1>1, <1>3, <1>3a DEF Silent
<1>6. Open(q, p) /\ (About(m, p) => m.kind = "progress") => Open(r, p)
  BY <1>2 DEF Open
<1>7. ASSUME NEW n, Closes(q, p, n), ~About(m, p) PROVE Closes(r, p, n)
  <2>1. PICK i \in 1 .. Len(q) :
          /\ About(q[i], p) /\ q[i].kind = "complete" /\ q[i].final = n
          /\ \A j \in 1 .. Len(q) : About(q[j], p) => j = i \/ (j < i /\ q[j].kind = "progress")
    BY <1>7 DEF Closes
  <2>2. i \in 1 .. Len(r) /\ r[i] = q[i]
    BY <1>3
  <2>3. \A j \in 1 .. Len(r) : About(r[j], p) => j = i \/ (j < i /\ r[j].kind = "progress")
    BY <1>2, <1>7, <2>1
  <2> QED BY <2>1, <2>2, <2>3 DEF Closes
<1>8. ASSUME NEW n, Open(q, p), About(m, p), m.kind = "complete", m.final = n
      PROVE  Closes(r, p, n)
  <2>1. \A j \in 1 .. Len(r) :
          About(r[j], p) => j = Len(r) \/ (j < Len(r) /\ r[j].kind = "progress")
    BY <1>2, <1>3, <1>8 DEF Open
  <2> QED BY <1>1, <1>3a, <1>8, <2>1 DEF Closes
<1>9. ASSUME NEW k \in BOOLEAN, Foretold(q, k, p), m.kind = "over" => k \/ ~Silent(q, p)
      PROVE  Foretold(r, k, p)
  <2>1. SUFFICES ASSUME NEW i \in 1 .. Len(r), r[i].kind = "over", ~k
                 PROVE  \E j \in 1 .. Len(r) : j < i /\ About(r[j], p)
    BY DEF Foretold
  <2>2. CASE i \in 1 .. Len(q) /\ r[i] = q[i]
    <3>1. PICK j \in 1 .. Len(q) : j < i /\ About(q[j], p)
      BY <1>9, <2>1, <2>2 DEF Foretold
    <3> QED BY <1>3, <3>1
  <2>3. CASE i = Len(r) /\ r[i] = m
    <3>1. PICK j \in 1 .. Len(q) : About(q[j], p)
      BY <1>9, <2>1, <2>3 DEF Silent
    <3> QED BY <1>3, <2>3, <3>1
  <2> QED BY <1>2, <2>2, <2>3
<1>10. NotOver(q) /\ m.kind # "over" => NotOver(r)
  BY <1>2 DEF NotOver
<1> QED
  BY <1>1, <1>4, <1>5, <1>6, <1>7, <1>8, <1>9, <1>10 DEF r

(* A message is taken from the bus.                                        *)
LEMMA MessageTaken ==
  ASSUME NEW q \in Seq(Message), q # <<>>, NEW p
  PROVE  LET h == Head(q)
             r == Tail(q) IN
         /\ h \in Message /\ r \in Seq(Message)
         /\ Silent(q, p) => Silent(r, p) /\ ~About(h, p)
         /\ ~Silent(q, p) => About(h, p) \/ ~Silent(r, p)
         /\ Open(q, p) => Open(r, p) /\ (About(h, p) => h.kind = "progress")
         /\ \A n : Closes(q, p, n) =>
              \/ About(h, p) /\ h.kind = "complete" /\ h.final = n /\ Silent(r, p)
              \/ (About(h, p) => h.kind = "progress") /\ Closes(r, p, n)
         /\ \A k, l \in BOOLEAN :
              Foretold(q, k, p) /\ (k \/ About(h, p) => l) => Foretold(r, l, p)
         /\ \A k \in BOOLEAN : Foretold(q, k, p) /\ h.kind = "over" => k
         /\ NotOver(q) => NotOver(r) /\ h.kind # "over"
<1> DEFINE h == Head(q)
           r == Tail(q)
<1>1. /\ h \in Message /\ r \in Seq(Message) /\ h = q[1]
      /\ Len(r) \in Nat /\ Len(q) = Len(r) + 1
      /\ \A i \in 1 .. Len(r) : r[i] = q[i + 1]
  BY HeadTailProperties, LenProperties
<1> HIDE DEF h, r
<1>2. \A i \in 1 .. Len(r) : i \in Int /\ i + 1 \in 1 .. Len(q) /\ r[i] = q[i + 1]
  BY <1>1
<1>3. 1 \in 1 .. Len(q)
  BY <1>1
<1>4. \A i \in 1 .. Len(q) : i # 1 => i - 1 \in 1 .. Len(r) /\ i = (i - 1) + 1
  BY <1>1
<1>4a. \A i \in 1 .. Len(q) : i # 1 => i - 1 \in 1 .. Len(r) /\ r[i - 1] = q[i]
  BY <1>2, <1>4
<1>5. Silent(q, p) => Silent(r, p) /\ ~About(h, p)
  BY <1>1, <1>2, <1>3 DEF Silent
<1>6. ~Silent(q, p) => About(h, p) \/ ~Silent(r, p)
  BY <1>1, <1>4a DEF Silent
<1>7. Open(q, p) => Open(r, p) /\ (About(h, p) => h.kind = "progress")
  BY <1>1, <1>2, <1>3 DEF Open
<1>8. ASSUME NEW n, Closes(q, p, n)
      PROVE  \/ About(h, p) /\ h.kind = "complete" /\ h.final = n /\ Silent(r, p)
             \/ (About(h, p) => h.kind = "progress") /\ Closes(r, p, n)
  <2>1. PICK i \in 1 .. Len(q) :
          /\ About(q[i], p) /\ q[i].kind = "complete" /\ q[i].final = n
          /\ \A j \in 1 .. Len(q) : About(q[j], p) => j = i \/ (j < i /\ q[j].kind = "progress")
    BY <1>8 DEF Closes
  <2>2. CASE i = 1
    <3>1. \A j \in 1 .. Len(r) : ~About(q[j + 1], p)
      BY <1>2, <2>1, <2>2
    <3> QED BY <1>1, <1>2, <2>1, <2>2, <3>1 DEF Silent
  <2>3. CASE i # 1
    <3>1. i - 1 \in 1 .. Len(r) /\ r[i - 1] = q[i]
      BY <1>4a, <2>3
    <3>2. About(h, p) => h.kind = "progress"
      BY <1>1, <1>3, <2>1, <2>3
    <3>3. \A j \in 1 .. Len(r) : About(r[j], p) =>
            j = i - 1 \/ (j < i - 1 /\ r[j].kind = "progress")
      BY <1>2, <2>1
    <3> QED BY <2>1, <3>1, <3>2, <3>3 DEF Closes
  <2> QED BY <2>2, <2>3
<1>9. ASSUME NEW k \in BOOLEAN, NEW l \in BOOLEAN, Foretold(q, k, p), k \/ About(h, p) => l
      PROVE  Foretold(r, l, p)
  <2>1. SUFFICES ASSUME NEW i \in 1 .. Len(r), r[i].kind = "over", ~l
                 PROVE  \E j \in 1 .. Len(r) : j < i /\ About(r[j], p)
    BY DEF Foretold
  <2>2. PICK j \in 1 .. Len(q) : j < i + 1 /\ About(q[j], p)
    BY <1>2, <1>9, <2>1 DEF Foretold
  <2>3. j # 1
    BY <1>1, <1>9, <2>1, <2>2
  <2>4. j - 1 \in 1 .. Len(r) /\ r[j - 1] = q[j] /\ j - 1 < i
    BY <1>4a, <2>2, <2>3
  <2> QED BY <2>2, <2>4
<1>10. ASSUME NEW k \in BOOLEAN, Foretold(q, k, p), h.kind = "over" PROVE k
  <2>1. q[1].kind = "over"
    BY <1>1, <1>10
  <2> QED BY <1>3, <1>10, <2>1 DEF Foretold
<1>11. NotOver(q) => NotOver(r) /\ h.kind # "over"
  BY <1>1, <1>2, <1>3 DEF NotOver
<1> QED
  BY <1>1, <1>5, <1>6, <1>7, <1>8, <1>9, <1>10, <1>11 DEF h, r

-----------------------------------------------------------------------------
(* Frames: what is left alone by the steps that do not concern a part.     *)

(* Where a caller makes a result, or reports that it could not.            *)
Section == {"inside", "published", "reporting"}

(* Nobody enters or leaves the section in which a result is made.          *)
LEMMA HeldFrame ==
  ASSUME Held, UNCHANGED <<lock, cached, published>>,
         \A c \in Callers :
           caller'[c] = caller[c] \/ (caller[c] \notin Section /\ caller'[c] \notin Section),
         Unstarted'
  PROVE  Held'
<1>1. \A c \in Callers : /\ caller'[c] = "inside" <=> caller[c] = "inside"
                         /\ caller'[c] = "published" <=> caller[c] = "published"
                         /\ caller'[c] = "reporting" <=> caller[c] = "reporting"
  BY DEF Section
<1> QED
  BY <1>1 DEF Held

(* What was published stays true: the end of a run does not pass.          *)
LEMMA ClaimsFrame ==
  ASSUME Claims, Ended => Ended' /\ completed' = completed, UNCHANGED <<cached, published>>,
         asCancelled'["command"] = asCancelled["command"],
         asCancelled'["abort"] = asCancelled["abort"]
  PROVE  Claims'
<1>1. \A r : Honest(r) => (r.complete => Ended' /\ r.counted = Total(completed'))
  BY DEF Honest
<1> QED
  BY <1>1 DEF Claims, Honest

(* Trackers with the same counts.                                          *)
SameCount(a, b) ==
  b.known = a.known /\ b.good = a.good /\ b.bad = a.bad /\ b.final = a.final

(* The books of the phases do not change with the flags of the trackers.   *)
LEMMA KeptFrame ==
  ASSUME \A p \in Phases : Kept(p), \A p \in Phases : SameCount(tracker[p], tracker'[p]),
         UNCHANGED <<run, stage, completed, bus, arriving, over, creditsOver>>
  PROVE  /\ \A p \in Phases : Kept(p)'
         /\ Ended <=> Ended'
<1>1. ASSUME NEW p \in Phases PROVE Kept(p)'
  <2>1. SameCount(tracker[p], tracker'[p]) /\ Kept(p)
    OBVIOUS
  <2> QED BY <2>1 DEF Kept, Told, Announces, Covered, SameCount
<1>2. Ended <=> Ended'
  BY DEF Ended, SameCount
<1> QED BY <1>1, <1>2

(* The check of the trackers t, the callers being as in calls: what a      *)
(* handler does that may finalize the run.                                 *)
Checked(t, calls) ==
  \/ tracker' = t /\ caller' = calls /\ UNCHANGED handled
  \/ creditsOver' /\ ReceivedAll(t) /\ tracker' = MarkSent(t) /\ HandleAllReceivedOnce(calls)

(* Of the callers only natural completion may move, once and only when     *)
(* every record of a finished run is in.                                   *)
LEMMA CheckedEffect ==
  ASSUME NEW t \in [Phases -> Tracker], NEW calls \in [Callers -> Places],
         handled \in BOOLEAN, Checked(t, calls)
  PROVE  /\ tracker' \in [Phases -> Tracker]
         /\ handled' \in BOOLEAN /\ caller' \in [Callers -> Places]
         /\ \A p \in Phases : SameCount(t[p], tracker'[p])
         /\ handled => handled'
         /\ handled' /\ ~handled => creditsOver' /\ ReceivedAll(t)
         /\ ~handled' => caller' = calls
         /\ \A c \in Callers : \/ caller'[c] = calls[c]
                               \/ c = "natural" /\ ~handled /\ caller'[c] = "announcing"
<1>1. CASE tracker' = t /\ caller' = calls /\ UNCHANGED handled
  BY <1>1 DEF SameCount
<1>2. CASE /\ creditsOver' /\ ReceivedAll(t) /\ tracker' = MarkSent(t)
           /\ HandleAllReceivedOnce(calls)
  <2>1. /\ MarkSent(t) \in [Phases -> Tracker]
        /\ \A p \in Phases : SameCount(t[p], MarkSent(t)[p])
    BY DEF MarkSent, SameCount, Tracker
  <2>2. handled' = TRUE /\ caller' \in [Callers -> Places]
    BY <1>2 DEF HandleAllReceivedOnce, Callers, Places
  <2>3. \A c \in Callers : \/ caller'[c] = calls[c]
                           \/ c = "natural" /\ ~handled /\ caller'[c] = "announcing"
    BY <1>2 DEF HandleAllReceivedOnce
  <2> QED BY <1>2, <2>1, <2>2, <2>3
<1> QED BY <1>1, <1>2 DEF Checked

(* If every phase that is known has reported its count and has its records *)
(* when the run is said to be over, the run is at its end.                 *)
LEMMA ReceivedEnds ==
  ASSUME Typed', \A p \in Phases : Kept(p)', over', creditsOver',
         \A p \in Phases : tracker'[p].known =>
           tracker'[p].final # None /\ tracker'[p].good + tracker'[p].bad >= tracker'[p].final
  PROVE  Ended'
<1> SUFFICES ASSUME NEW p \in Phases
             PROVE  /\ stage'[p] \in {"new", "complete"}
                    /\ tracker'[p].good + tracker'[p].bad = completed'[p]
  BY DEF Ended
<1>1. /\ stage'[p] \in {"new", "started", "sent", "complete"} /\ completed'[p] \in Nat
      /\ tracker'[p].good \in Nat /\ tracker'[p].bad \in Nat
      /\ arriving'[p]["good"] \in Nat /\ arriving'[p]["bad"] \in Nat
  BY DEF Typed, Tracker, Outcomes
<1>2. /\ tracker'[p].good + tracker'[p].bad + arriving'[p]["good"] + arriving'[p]["bad"]
           <= completed'[p]
      /\ Told(p)' /\ Announces(p)'
  BY DEF Kept, Covered
<1>3. CASE stage'[p] = "new"
  BY <1>1, <1>2, <1>3 DEF Told
<1>4. CASE stage'[p] # "new"
  <2>1. tracker'[p].known
    BY <1>2, <1>4 DEF Announces
  <2>2. stage'[p] = "complete" /\ tracker'[p].final = completed'[p]
    BY <1>1, <1>2, <1>4, <2>1 DEF Told
  <2> QED BY <1>1, <1>2, <2>1, <2>2
<1> QED BY <1>3, <1>4

(* A check that the books survive.                                         *)
LEMMA BooksChecked ==
  ASSUME Typed', \A p \in Phases : Kept(p)', ~over' => NotOver(bus') /\ ~creditsOver',
         NEW t \in [Phases -> Tracker], NEW calls \in [Callers -> Places],
         handled \in BOOLEAN, Checked(t, calls), stalled' = stalled,
         handled /\ ~stalled => Ended'
  PROVE  Books'
<1>1. /\ \A p \in Phases : SameCount(t[p], tracker'[p])
      /\ handled' /\ ~handled => creditsOver' /\ ReceivedAll(t)
  BY CheckedEffect
<1>2. ASSUME handled', ~handled PROVE Ended'
  <2>1. over' /\ creditsOver' /\ ReceivedAll(t)
    BY <1>1, <1>2 DEF Typed
  <2>2. \A p \in Phases : tracker'[p].known =>
           tracker'[p].final # None /\ tracker'[p].good + tracker'[p].bad >= tracker'[p].final
    BY <1>1, <2>1 DEF ReceivedAll, SameCount, Known, Records
  <2> QED BY <2>1, <2>2, ReceivedEnds
<1> QED BY <1>2 DEF Books

-----------------------------------------------------------------------------
(* The steps of the TimingManager and the workers.                         *)

(* What a step that only concerns phase p leaves of the others.            *)
LEMMA OthersKept ==
  ASSUME IInv, NEW p \in Phases, NEW m \in Message, NEW q \in Phases, q # p,
         \/ bus' = bus
         \/ bus' = Append(bus, m) /\ About(m, p),
         stage'[q] = stage[q], completed'[q] = completed[q], arriving'[q] = arriving[q],
         UNCHANGED <<run, tracker, creditsOver>>
  PROVE  Kept(q)'
<1>1. Kept(q) /\ bus \in Seq(Message) /\ tracker[q].known \in BOOLEAN
  BY DEF IInv, Books, Typed, Tracker
<1>2. CASE bus' = bus
  BY <1>1, <1>2 DEF Kept, Told, Announces, Covered
<1>3. CASE bus' = Append(bus, m) /\ About(m, p)
  <2>1. ~About(m, q) /\ m.kind # "over"
    BY <1>3 DEF About
  <2>2. /\ Silent(bus, q) => Silent(bus', q)
        /\ ~Silent(bus, q) => ~Silent(bus', q)
        /\ Open(bus, q) => Open(bus', q)
        /\ \A n : Closes(bus, q, n) => Closes(bus', q, n)
        /\ Foretold(bus, tracker[q].known, q) => Foretold(bus', tracker[q].known, q)
    BY <1>1, <1>3, <2>1, MessageSent
  <2> QED BY <1>1, <2>2 DEF Kept, Told, Announces, Covered
<1> QED BY <1>2, <1>3

(* What PublishStats puts on the bus.                                      *)
LEMMA StatsPublished ==
  ASSUME NEW p \in Phases, NEW kind, NEW final, PublishStats(p, kind, final),
         \/ kind = "progress" /\ final = None
         \/ kind = "complete" /\ final \in 0 .. MaxRequests
  PROVE  \E m \in Message : /\ bus' = Append(bus, m)
                            /\ About(m, p) /\ m.kind = kind /\ m.final = final
<1>1. PICK c \in {FALSE, Disturbed} :
        bus' = Append(bus, [kind |-> kind, phase |-> p, final |-> final, cancelled |-> c])
  BY DEF PublishStats, Publish
<1>2. c \in BOOLEAN
  <2>1. Disturbed \in BOOLEAN
    <3>1. Disturbed = TRUE \/ Disturbed = FALSE
      BY DEF Disturbed
    <3> QED BY <3>1
  <2> QED BY <2>1
<1> DEFINE m == [kind |-> kind, phase |-> p, final |-> final, cancelled |-> c]
<1>3. m \in Message /\ About(m, p) /\ m.kind = kind /\ m.final = final
  BY <1>2 DEF Message, StatsMessage, FinalMessage, About
<1> QED BY <1>1, <1>3

(* A step of the world that leaves the books and the results alone.        *)
LEMMA WorldStep ==
  ASSUME IInv, UNCHANGED <<books, handled, stalled, aborting, results>>,
         run' \in Runs, stage' \in [Phases -> {"new", "started", "sent", "complete"}],
         completed' \in [Phases -> Nat], bus' \in Seq(Message),
         arriving' \in [Phases -> [Outcomes -> Nat]],
         over' \in BOOLEAN, halt' \in {"no", "sent", "heard", "broken"},
         \A p \in Phases : Kept(p)',
         ~over' => ~over /\ (NotOver(bus) => NotOver(bus')),
         Ended => Ended' /\ completed' = completed
  PROVE  IInv'
<1>1. Typed'
  BY DEF IInv, Typed, books, results
<1>2. Held'
  BY DEF IInv, Held, Unstarted, results
<1>3. Books'
  BY DEF IInv, Books, books
<1>4. Claims'
  BY ClaimsFrame DEF IInv, results
<1> QED BY <1>1, <1>2, <1>3, <1>4 DEF IInv

(* The first message about a phase goes out.                               *)
LEMMA StartPhaseStep ==
  ASSUME IInv, NEW p \in Phases, StartPhase(p),
         UNCHANGED <<books, handled, stalled, aborting, results>>
  PROVE  IInv'
<1>1. /\ UNCHANGED <<run, completed, arriving, halt, over, tracker, creditsOver>>
      /\ stage[p] = "new" /\ ~over /\ stage' = [stage EXCEPT ![p] = "started"]
      /\ PublishStats(p, "progress", None)
  BY DEF StartPhase, Timing!Start, books
<1>2. Typed /\ Kept(p)
  BY DEF IInv, Typed, Books
<1>3. PICK m \in Message : bus' = Append(bus, m) /\ About(m, p) /\ m.kind = "progress"
  BY <1>1, <1>2, StatsPublished
<1>4. stage'[p] = "started" /\ \A q \in Phases : q # p => stage'[q] = stage[q]
  BY <1>1, <1>2 DEF Typed
<1>5. Kept(p)'
  <2>1. /\ Silent(bus, p) /\ tracker[p].final = None /\ bus \in Seq(Message)
        /\ tracker[p].known \in BOOLEAN
    BY <1>1, <1>2 DEF Kept, Told, Typed, Tracker
  <2>2. Open(bus, p) /\ NotOver(bus) /\ ~creditsOver
    BY <1>1, <2>1 DEF Silent, Open, IInv, Books
  <2>3. Foretold(bus, tracker[p].known, p)
    BY <2>2 DEF NotOver, Foretold
  <2>4. Open(bus', p) /\ ~Silent(bus', p) /\ Foretold(bus', tracker[p].known, p)
    BY <1>3, <2>1, <2>2, <2>3, MessageSent
  <2> QED BY <1>1, <1>2, <1>4, <2>1, <2>2, <2>4 DEF Kept, Told, Announces, Covered
<1>6. \A q \in Phases : Kept(q)'
  BY <1>1, <1>3, <1>4, <1>5, OthersKept
<1>7. bus' \in Seq(Message) /\ (NotOver(bus) => NotOver(bus'))
  BY <1>2, <1>3, MessageSent DEF Typed
<1> QED BY <1>1, <1>2, <1>6, <1>7, WorldStep DEF Typed, Ended

(* More progress of a phase that is known, or announced, already.          *)
LEMMA PhaseSentStep ==
  ASSUME IInv, NEW p \in Phases, PhaseSent(p),
         UNCHANGED <<books, handled, stalled, aborting, results>>
  PROVE  IInv'
<1>1. /\ UNCHANGED <<run, completed, arriving, halt, over, tracker, creditsOver>>
      /\ stage[p] = "started" /\ stage' = [stage EXCEPT ![p] = "sent"]
      /\ PublishStats(p, "progress", None)
  BY DEF PhaseSent, Timing!Sent, books
<1>2. Typed /\ Kept(p)
  BY DEF IInv, Typed, Books
<1>3. PICK m \in Message : bus' = Append(bus, m) /\ About(m, p) /\ m.kind = "progress"
  BY <1>1, <1>2, StatsPublished
<1>4. stage'[p] = "sent" /\ \A q \in Phases : q # p => stage'[q] = stage[q]
  BY <1>1, <1>2 DEF Typed
<1>5. Kept(p)'
  <2>1. /\ Open(bus, p) /\ tracker[p].final = None /\ bus \in Seq(Message)
        /\ tracker[p].known \in BOOLEAN /\ Foretold(bus, tracker[p].known, p)
        /\ creditsOver => tracker[p].known
    BY <1>1, <1>2 DEF Kept, Told, Announces, Typed, Tracker
  <2>2. Open(bus', p) /\ ~Silent(bus', p) /\ Foretold(bus', tracker[p].known, p)
    BY <1>3, <2>1, MessageSent
  <2> QED BY <1>1, <1>2, <1>4, <2>1, <2>2 DEF Kept, Told, Announces, Covered
<1>6. \A q \in Phases : Kept(q)'
  BY <1>1, <1>3, <1>4, <1>5, OthersKept
<1>7. bus' \in Seq(Message) /\ (NotOver(bus) => NotOver(bus'))
  BY <1>2, <1>3, MessageSent DEF Typed
<1>8. ~Ended
  BY <1>1 DEF Ended
<1> QED BY <1>1, <1>2, <1>6, <1>7, <1>8, WorldStep DEF Typed

(* The final count goes out behind all progress of the phase.              *)
LEMMA PhaseCompletesStep ==
  ASSUME IInv, NEW p \in Phases, PhaseCompletes(p),
         UNCHANGED <<books, handled, stalled, aborting, results>>
  PROVE  IInv'
<1>1. /\ UNCHANGED <<run, completed, arriving, halt, over, tracker, creditsOver>>
      /\ stage[p] = "sent" /\ stage' = [stage EXCEPT ![p] = "complete"]
      /\ PublishStats(p, "complete", completed[p])
  BY DEF PhaseCompletes, Timing!Complete, books
<1>2. Typed /\ Kept(p)
  BY DEF IInv, Typed, Books
<1>3. completed[p] \in 0 .. MaxRequests
  BY <1>2, RecordsManagerAssumption DEF Typed, Kept, Covered
<1>4. PICK m \in Message : /\ bus' = Append(bus, m)
                           /\ About(m, p) /\ m.kind = "complete" /\ m.final = completed[p]
  BY <1>1, <1>2, <1>3, StatsPublished
<1>5. stage'[p] = "complete" /\ \A q \in Phases : q # p => stage'[q] = stage[q]
  BY <1>1, <1>2 DEF Typed
<1>6. Kept(p)'
  <2>1. /\ Open(bus, p) /\ tracker[p].final = None /\ bus \in Seq(Message)
        /\ tracker[p].known \in BOOLEAN /\ Foretold(bus, tracker[p].known, p)
        /\ creditsOver => tracker[p].known
    BY <1>1, <1>2 DEF Kept, Told, Announces, Typed, Tracker
  <2>2. /\ Closes(bus', p, completed[p]) /\ ~Silent(bus', p)
        /\ Foretold(bus', tracker[p].known, p)
    BY <1>4, <2>1, MessageSent
  <2> QED BY <1>1, <1>2, <1>5, <2>1, <2>2 DEF Kept, Told, Announces, Covered
<1>7. \A q \in Phases : Kept(q)'
  BY <1>1, <1>4, <1>5, <1>6, OthersKept
<1>8. bus' \in Seq(Message) /\ (NotOver(bus) => NotOver(bus'))
  BY <1>2, <1>4, MessageSent DEF Typed
<1>9. ~Ended
  BY <1>1 DEF Ended
<1> QED BY <1>1, <1>2, <1>7, <1>8, <1>9, WorldStep DEF Typed

(* A request completes, and its record is on its way.                      *)
LEMMA RequestCompletesStep ==
  ASSUME IInv, NEW p \in Phases, NEW o \in Outcomes, RequestCompletes(p, o),
         UNCHANGED <<books, handled, stalled, aborting, results>>
  PROVE  IInv'
<1>1. /\ UNCHANGED <<run, stage, bus, over, halt, tracker, creditsOver>>
      /\ stage[p] \in {"started", "sent"} /\ completed[p] < run.requests
      /\ completed' = [completed EXCEPT ![p] = completed[p] + 1]
      /\ arriving' = [arriving EXCEPT ![p][o] = arriving[p][o] + 1] \/ arriving' = arriving
  BY DEF RequestCompletes, books
<1>2. Typed /\ Kept(p) /\ \A q \in Phases : Kept(q)
  BY DEF IInv, Books
<1>3. /\ completed \in [Phases -> Nat] /\ run.requests \in Nat
      /\ arriving[p]["good"] \in Nat /\ arriving[p]["bad"] \in Nat
      /\ tracker[p].good \in Nat /\ tracker[p].bad \in Nat
  BY <1>2, RecordsManagerAssumption DEF Typed, Outcomes, Tracker
<1>3a. /\ arriving' \in [Phases -> [Outcomes -> Nat]]
       /\ \A q \in Phases : q # p => arriving'[q] = arriving[q]
       /\ \/ arriving'[p] = arriving[p]
          \/ arriving'[p] = [arriving[p] EXCEPT ![o] = arriving[p][o] + 1]
  <2>1. arriving \in [Phases -> [Outcomes -> Nat]] /\ arriving[p][o] + 1 \in Nat
    BY <1>2 DEF Typed
  <2>2. CASE arriving' = arriving
    BY <2>1, <2>2
  <2>3. CASE arriving' = [arriving EXCEPT ![p][o] = arriving[p][o] + 1]
    BY <2>1, <2>3
  <2> QED BY <1>1, <2>2, <2>3
<1>4. /\ completed' \in [Phases -> Nat] /\ arriving' \in [Phases -> [Outcomes -> Nat]]
      /\ completed'[p] = completed[p] + 1
      /\ \A q \in Phases : q # p => completed'[q] = completed[q] /\ arriving'[q] = arriving[q]
  BY <1>1, <1>3, <1>3a
<1>5. arriving'[p]["good"] + arriving'[p]["bad"] <= arriving[p]["good"] + arriving[p]["bad"] + 1
  <2>1. arriving[p] \in [Outcomes -> Nat] /\ o \in {"good", "bad"}
    BY <1>2 DEF Typed, Outcomes
  <2>2. CASE arriving'[p] = arriving[p]
    BY <1>3, <2>2
  <2>3. CASE arriving'[p] = [arriving[p] EXCEPT ![o] = arriving[p][o] + 1]
    BY <1>3, <2>1, <2>3 DEF Outcomes
  <2> QED BY <1>3a, <2>2, <2>3
<1>5a. arriving'[p]["good"] \in Nat /\ arriving'[p]["bad"] \in Nat
  BY <1>4 DEF Outcomes
<1>6. Kept(p)'
  <2>1. Covered(p)'
    BY <1>1, <1>2, <1>3, <1>4, <1>5, <1>5a DEF Kept, Covered
  <2>2. Told(p)' /\ Announces(p)'
    BY <1>1, <1>2 DEF Kept, Told, Announces
  <2> QED BY <2>1, <2>2 DEF Kept
<1>7. ASSUME NEW q \in Phases PROVE Kept(q)'
  <2>1. CASE q # p
    BY <1>1, <1>2, <1>4, <2>1 DEF Kept, Told, Announces, Covered
  <2> QED BY <1>6, <2>1
<1>8. ~Ended
  BY <1>1 DEF Ended
<1> QED BY <1>1, <1>2, <1>4, <1>7, <1>8, WorldStep DEF Typed

(* CREDITS_COMPLETE goes out behind the first message of every phase that  *)
(* was started.                                                            *)
LEMMA CreditsCompleteStep ==
  ASSUME IInv, CreditsComplete, UNCHANGED <<books, handled, stalled, aborting, results>>
  PROVE  IInv'
<1> DEFINE m == [kind |-> "over"]
<1>1. /\ UNCHANGED <<run, stage, completed, arriving, halt, tracker, creditsOver>>
      /\ ~over /\ over' = TRUE /\ bus' = Append(bus, m)
  BY DEF CreditsComplete, Timing!Over, Publish, books
<1>2. m \in Message /\ m.kind = "over" /\ \A p : ~About(m, p)
  BY DEF Message, About
<1> HIDE DEF m
<1>3. Typed /\ bus' \in Seq(Message)
  BY <1>1, <1>2, MessageSent DEF IInv, Typed
<1>4. ASSUME NEW p \in Phases PROVE Kept(p)'
  <2>1. Kept(p) /\ bus \in Seq(Message) /\ tracker[p].known \in BOOLEAN
    BY DEF IInv, Books, Typed, Tracker
  <2>2. /\ Silent(bus, p) => Silent(bus', p)
        /\ ~Silent(bus, p) => ~Silent(bus', p)
        /\ Open(bus, p) => Open(bus', p)
        /\ \A n : Closes(bus, p, n) => Closes(bus', p, n)
        /\ Foretold(bus, tracker[p].known, p) /\ (tracker[p].known \/ ~Silent(bus, p))
             => Foretold(bus', tracker[p].known, p)
    BY <1>1, <1>2, <2>1, MessageSent
  <2> QED BY <1>1, <2>1, <2>2 DEF Kept, Told, Announces, Covered
<1>5. ~Ended
  BY <1>1 DEF Ended
<1> QED BY <1>1, <1>3, <1>4, <1>5, WorldStep DEF Typed

(* The TimingManager hears of a cancellation, or its stop raises.          *)
LEMMA HearsStep ==
  ASSUME IInv, TimingManagerHears, UNCHANGED <<books, handled, stalled, aborting, results>>
  PROVE  IInv'
<1>1. /\ UNCHANGED <<run, stage, completed, bus, arriving, over, tracker, creditsOver>>
      /\ halt' \in {"heard", "broken"}
  BY DEF TimingManagerHears, books
<1>2. /\ \A p \in Phases : Kept(p)'
      /\ Ended <=> Ended'
  BY <1>1, KeptFrame DEF IInv, Books, SameCount
<1> QED BY <1>1, <1>2, WorldStep DEF IInv, Typed

(* Each step of the TimingManager keeps the invariant.                     *)
LEMMA TimingManagerStep ==
  ASSUME IInv, TimingManager
  PROVE  IInv'
BY StartPhaseStep, PhaseSentStep, PhaseCompletesStep, RequestCompletesStep,
   CreditsCompleteStep, HearsStep DEF TimingManager

-----------------------------------------------------------------------------
(* The callers of _process_results.                                        *)

(* The number of things counted is at most their greatest number.          *)
LEMMA TotalType ==
  ASSUME NEW f
  PROVE  Total(f) \in 0 .. NumPhases * MaxRequests
<1> DEFINE U == Phases \X (1 .. MaxRequests)
           S == {x \in U : x[2] <= f[x[1]]}
<1>1. NumPhases \in Nat /\ MaxRequests \in Nat
  BY RecordsManagerAssumption
<1>2. /\ IsFiniteSet(Phases) /\ Cardinality(Phases) = NumPhases
      /\ IsFiniteSet(1 .. MaxRequests) /\ Cardinality(1 .. MaxRequests) = MaxRequests
  <2>1. \A n \in Nat : IsFiniteSet(1 .. n) /\ Cardinality(1 .. n) = n
    BY FS_Interval
  <2> QED BY <1>1, <2>1 DEF Phases
<1>3. IsFiniteSet(U) /\ Cardinality(U) = NumPhases * MaxRequests
  BY <1>2, FS_Product
<1>4. IsFiniteSet(S) /\ Cardinality(S) <= Cardinality(U)
  BY <1>3, FS_Subset
<1>5. Cardinality(S) \in Nat
  BY <1>4, FS_CardinalityType
<1>6. Total(f) = Cardinality(S)
  BY DEF Total
<1> HIDE DEF S, U
<1>7. NumPhases * MaxRequests \in Nat
  BY <1>1
<1> QED BY <1>3, <1>4, <1>5, <1>6, <1>7

(* At the end of the run the records counted are the requests completed.   *)
LEMMA AllCounted ==
  ASSUME Ended
  PROVE  RecordsOfAll(tracker) = Total(completed)
<1> DEFINE f == [p \in Phases |-> Records(tracker, p)]
<1>1. \A p \in Phases : f[p] = completed[p]
  BY DEF Ended, Records
<1> HIDE DEF f
<1>2. {x \in Phases \X (1 .. MaxRequests) : x[2] <= f[x[1]]}
        = {x \in Phases \X (1 .. MaxRequests) : x[2] <= completed[x[1]]}
  BY <1>1
<1>3. Total(f) = Total(completed)
  BY <1>2 DEF Total
<1> QED BY <1>3 DEF RecordsOfAll, f

(* A step of the callers that leaves the trackers' counts alone.           *)
LEMMA CallersStep ==
  ASSUME IInv, UNCHANGED <<run, stage, completed, bus, arriving, over, closing, complete,
                           creditsOver, handled, stalled, aborting>>,
         halt' \in {"no", "sent", "heard", "broken"},
         tracker' \in [Phases -> Tracker],
         \A p \in Phases : SameCount(tracker[p], tracker'[p]),
         caller' \in [Callers -> Places], asCancelled' \in [Callers -> BOOLEAN],
         asCancelled'["command"] = asCancelled["command"],
         asCancelled'["abort"] = asCancelled["abort"],
         lock' \in Callers \cup {None}, cached' \in Results \cup {None},
         published' \in Seq(Results), Held',
         \A i \in 1 .. Len(published') : Honest(published'[i]),
         cached' # None => Honest(cached')
  PROVE  IInv'
<1>1. Typed'
  BY DEF IInv, Typed
<1>2. /\ \A p \in Phases : Kept(p)'
      /\ Ended <=> Ended'
  BY KeptFrame DEF IInv, Books
<1>3. Books'
  BY <1>2 DEF IInv, Books
<1>4. Claims'
  BY <1>2 DEF IInv, Claims, Honest
<1> QED BY <1>1, <1>3, <1>4 DEF IInv

(* One that publishes nothing.                                             *)
LEMMA QuietStep ==
  ASSUME IInv, UNCHANGED <<run, stage, completed, bus, arriving, over, closing, complete,
                           creditsOver, handled, stalled, aborting, lock, cached, published>>,
         halt' \in {"no", "sent", "heard", "broken"},
         tracker' \in [Phases -> Tracker],
         \A p \in Phases : SameCount(tracker[p], tracker'[p]),
         NEW c \in Callers, NEW to \in Places, caller' = [caller EXCEPT ![c] = to],
         caller[c] \notin Section, to \notin Section, c # "command" => caller[c] # "idle",
         asCancelled' \in [Callers -> BOOLEAN],
         asCancelled'["command"] = asCancelled["command"],
         asCancelled'["abort"] = asCancelled["abort"]
  PROVE  IInv'
<1>1. caller \in [Callers -> Places]
  BY DEF IInv, Typed
<1>2. /\ caller' \in [Callers -> Places] /\ caller'[c] = to
      /\ \A d \in Callers : d # c => caller'[d] = caller[d]
  BY <1>1
<1>3. Unstarted'
  BY <1>2 DEF IInv, Held, Unstarted, Callers
<1>4. Held'
  BY <1>2, <1>3, HeldFrame DEF IInv
<1>5. /\ lock \in Callers \cup {None} /\ cached \in Results \cup {None}
      /\ published \in Seq(Results)
      /\ \A i \in 1 .. Len(published) : Honest(published[i])
      /\ cached # None => Honest(cached)
  BY DEF IInv, Typed, Claims
<1> QED BY <1>2, <1>4, <1>5, CallersStep

(* Natural completion asks for the results, as cancelled or not.           *)
LEMMA AnnouncedStep ==
  ASSUME IInv, Announced
  PROVE  IInv'
<1> DEFINE b == \E p \in Phases : tracker[p].cancelled
<1>1. /\ UNCHANGED <<env, books, handled, stalled, aborting, lock, cached, published>>
      /\ caller["natural"] = "announcing"
      /\ caller' = [caller EXCEPT !["natural"] = "relaying"]
      /\ asCancelled' = [asCancelled EXCEPT !["natural"] = b]
  BY DEF Announced, Go
<1>2. b \in BOOLEAN
  BY Zenon
<1> HIDE DEF b
<1>3. /\ asCancelled' \in [Callers -> BOOLEAN]
      /\ asCancelled'["command"] = asCancelled["command"]
      /\ asCancelled'["abort"] = asCancelled["abort"]
  BY <1>1, <1>2 DEF IInv, Typed, Callers
<1>4. /\ \A p \in Phases : SameCount(tracker[p], tracker'[p])
      /\ "natural" \in Callers /\ "relaying" \in Places \ Section
      /\ "announcing" \notin Section
      /\ halt' \in {"no", "sent", "heard", "broken"} /\ tracker' \in [Phases -> Tracker]
  BY <1>1 DEF env, books, SameCount, Callers, Places, Section, IInv, Typed
<1> QED BY <1>1, <1>3, <1>4, QuietStep DEF env, books

(* The TimingManager was told to stop, or could not be.                    *)
LEMMA RelayedStep ==
  ASSUME IInv, Relayed
  PROVE  IInv'
<1>1. PICK to \in {"queued", "failed"} :
        /\ UNCHANGED <<env, books, handled, stalled, aborting, asCancelled, lock, cached,
                       published>>
        /\ caller["natural"] = "relaying"
        /\ caller' = [caller EXCEPT !["natural"] = to]
  BY DEF Relayed, Go
<1>2. /\ \A p \in Phases : SameCount(tracker[p], tracker'[p])
      /\ "natural" \in Callers /\ to \in Places \ Section /\ "relaying" \notin Section
      /\ halt' \in {"no", "sent", "heard", "broken"} /\ tracker' \in [Phases -> Tracker]
      /\ asCancelled' \in [Callers -> BOOLEAN] /\ asCancelled' = asCancelled
  BY <1>1 DEF env, books, SameCount, Callers, Places, Section, IInv, Typed
<1> QED BY <1>1, <1>2, QuietStep DEF env, books

(* A cancellation marks the trackers and leaves their counts alone.        *)
LEMMA OnProfileCancelStep ==
  ASSUME IInv, NEW c \in Callers, OnProfileCancel(c)
  PROVE  IInv'
<1>1. /\ UNCHANGED <<env, closing, complete, creditsOver, handled, stalled, aborting,
                     asCancelled, lock, cached, published>>
      /\ caller[c] = "called" /\ tracker' = MarkCancelled(tracker)
      /\ caller' = [caller EXCEPT ![c] = "queued"]
  BY DEF OnProfileCancel, Go
<1>2. /\ tracker' \in [Phases -> Tracker]
      /\ \A p \in Phases : SameCount(tracker[p], tracker'[p])
  <2>1. tracker \in [Phases -> Tracker]
    BY DEF IInv, Typed
  <2>2. ASSUME NEW p \in Phases, NEW b \in BOOLEAN
        PROVE  /\ [tracker[p] EXCEPT !.cancelled = b] \in Tracker
               /\ SameCount(tracker[p], [tracker[p] EXCEPT !.cancelled = b])
    BY <2>1 DEF SameCount, Tracker
  <2>3. \A p \in Phases : (tracker[p].cancelled \/ tracker[p].known) \in BOOLEAN
    BY <2>1 DEF Tracker
  <2>4. tracker' = [p \in Phases |->
                     [tracker[p] EXCEPT !.cancelled = tracker[p].cancelled \/ tracker[p].known]]
    BY <1>1, <2>1 DEF MarkCancelled, Tracker
  <2> QED BY <2>2, <2>3, <2>4
<1>3. /\ "queued" \in Places \ Section /\ "called" \notin Section
      /\ halt' \in {"no", "sent", "heard", "broken"}
      /\ asCancelled' \in [Callers -> BOOLEAN] /\ asCancelled' = asCancelled
  BY <1>1 DEF env, Places, Section, IInv, Typed
<1> QED BY <1>1, <1>2, <1>3, QuietStep DEF env

(* The user's command is on its way.                                       *)
LEMMA UserCancelsStep ==
  ASSUME IInv, UserCancels
  PROVE  IInv'
<1>1. /\ UNCHANGED <<run, stage, completed, bus, arriving, over, books, handled, stalled,
                     aborting, asCancelled, lock, cached, published>>
      /\ caller["command"] = "idle"
      /\ halt' = IF halt = "no" THEN "sent" ELSE halt
      /\ caller' = [caller EXCEPT !["command"] = "called"]
  BY DEF UserCancels
<1>2. /\ \A p \in Phases : SameCount(tracker[p], tracker'[p])
      /\ "command" \in Callers /\ "called" \in Places \ Section /\ "idle" \notin Section
      /\ halt' \in {"no", "sent", "heard", "broken"} /\ tracker' \in [Phases -> Tracker]
      /\ asCancelled' \in [Callers -> BOOLEAN] /\ asCancelled' = asCancelled
  BY <1>1 DEF books, SameCount, Callers, Places, Section, IInv, Typed
<1> QED BY <1>1, <1>2, QuietStep DEF books

(* A caller that enters or leaves the section.                             *)
LEMMA SectionStep ==
  ASSUME IInv, UNCHANGED <<env, books, handled, stalled, aborting, asCancelled>>,
         NEW c \in Callers, NEW to \in Places, caller' = [caller EXCEPT ![c] = to],
         lock' \in Callers \cup {None}, cached' \in Results \cup {None},
         published' \in Seq(Results), caller[c] # "idle", to # "idle",
         (\A d \in Callers : caller'[d] = IF d = c THEN to ELSE caller[d]) => Held',
         \A i \in 1 .. Len(published') : Honest(published'[i]),
         cached' # None => Honest(cached')
  PROVE  IInv'
<1>1. /\ caller \in [Callers -> Places] /\ asCancelled' \in [Callers -> BOOLEAN]
      /\ halt' \in {"no", "sent", "heard", "broken"} /\ tracker' \in [Phases -> Tracker]
  BY DEF IInv, Typed, env, books
<1>2. /\ caller' \in [Callers -> Places]
      /\ \A d \in Callers : caller'[d] = IF d = c THEN to ELSE caller[d]
  BY <1>1
<1>3. \A p \in Phases : SameCount(tracker[p], tracker'[p])
  BY DEF books, SameCount
<1> QED BY <1>1, <1>2, <1>3, CallersStep DEF env, books

(* A caller enters the lock, or finds the result already there.            *)
LEMMA ProcessResultsStep ==
  ASSUME IInv, NEW c \in Callers, ProcessResults(c)
  PROVE  IInv'
<1>1. /\ UNCHANGED <<env, books, handled, stalled, aborting, asCancelled, cached, published>>
      /\ caller[c] = "queued" /\ lock = None
      /\ \/ cached # None /\ caller' = [caller EXCEPT ![c] = "over"] /\ lock' = lock
         \/ cached = None /\ caller' = [caller EXCEPT ![c] = "inside"] /\ lock' = c
  BY DEF ProcessResults, Go
<1>2. /\ lock \in Callers \cup {None} /\ cached \in Results \cup {None}
      /\ published \in Seq(Results)
      /\ \A i \in 1 .. Len(published) : Honest(published[i])
      /\ cached # None => Honest(cached)
      /\ Held /\ {"over", "inside"} \subseteq Places /\ None \notin Callers
  BY RecordsManagerAssumption DEF IInv, Typed, Claims, Places
<1>3. CASE cached # None /\ caller' = [caller EXCEPT ![c] = "over"] /\ lock' = lock
  <2>1. ASSUME \A d \in Callers : caller'[d] = IF d = c THEN "over" ELSE caller[d]
        PROVE  Held'
    <3>1. Unstarted'
      BY <1>1, <1>2, <2>1 DEF Held, Unstarted, Callers
    <3> QED BY <1>1, <1>2, <1>3, <2>1, <3>1, HeldFrame DEF Section
  <2> QED BY <1>1, <1>2, <1>3, <2>1, SectionStep
<1>4. CASE cached = None /\ caller' = [caller EXCEPT ![c] = "inside"] /\ lock' = c
  <2>1. ASSUME \A d \in Callers : caller'[d] = IF d = c THEN "inside" ELSE caller[d]
        PROVE  Held'
    <3>1. /\ \A d \in Callers : caller[d] \notin {"inside", "published", "reporting"}
          /\ published = <<>>
      BY <1>1, <1>2, <1>4 DEF Held
    <3>2. Unstarted'
      BY <1>1, <1>2, <2>1 DEF Held, Unstarted, Callers
    <3> QED BY <1>1, <1>2, <1>4, <2>1, <3>1, <3>2 DEF Held
  <2> QED BY <1>1, <1>2, <1>4, <2>1, SectionStep
<1> QED BY <1>1, <1>3, <1>4

(* The one in the lock publishes; what it claims to be complete is.        *)
LEMMA PublishResultStep ==
  ASSUME IInv, NEW c \in Callers, PublishResult(c)
  PROVE  IInv'
<1>1. /\ UNCHANGED <<env, books, handled, stalled, aborting, asCancelled, lock, cached>>
      /\ caller[c] = "inside" /\ caller' = [caller EXCEPT ![c] = "published"]
      /\ published' = Append(published, ResultOf(c))
  BY DEF PublishResult, Go
<1>2. /\ lock \in Callers \cup {None} /\ cached \in Results \cup {None}
      /\ Held /\ "published" \in Places /\ lock = c /\ cached = None /\ published = <<>>
      /\ None \notin Callers
  BY <1>1, RecordsManagerAssumption DEF IInv, Typed, Held, Places
<1>3. ResultOf(c) \in Results
  <2>1. RecordsOfAll(tracker) \in 0 .. NumPhases * MaxRequests
    BY TotalType DEF RecordsOfAll
  <2>2. asCancelled[c] \in BOOLEAN /\ (~asCancelled[c] /\ ~stalled) \in BOOLEAN
    BY DEF IInv, Typed
  <2> QED BY <2>1, <2>2 DEF ResultOf, Results
<1>4. Honest(ResultOf(c))
  <2>1. ASSUME ResultOf(c).complete
        PROVE  Ended /\ ResultOf(c).counted = Total(completed)
    <3>1. ~asCancelled[c] /\ ~stalled
      BY <2>1 DEF ResultOf
    <3>2. c = "natural"
      BY <3>1 DEF IInv, Claims, Callers
    <3>3. Ended
      BY <1>1, <3>1, <3>2 DEF IInv, Held, Unstarted, Books
    <3> QED BY <3>3, AllCounted DEF ResultOf
  <2> QED BY <2>1 DEF Honest
<1> HIDE DEF ResultOf
<1>5. published' = <<ResultOf(c)>>
  BY <1>1, <1>2
<1>6. /\ published' \in Seq(Results) /\ Len(published') = 1
      /\ \A i \in 1 .. Len(published') : published'[i] = ResultOf(c)
  BY <1>3, <1>5
<1>7. ASSUME \A d \in Callers : caller'[d] = IF d = c THEN "published" ELSE caller[d]
      PROVE  Held'
  <2>1. \A d \in Callers : d # c => caller[d] \notin {"inside", "published", "reporting"}
    BY <1>2 DEF Held
  <2>2. Unstarted'
    BY <1>1, <1>2, <1>7 DEF Held, Unstarted, Callers
  <2> QED BY <1>1, <1>2, <1>6, <1>7, <2>1, <2>2 DEF Held
<1> QED BY <1>1, <1>2, <1>4, <1>6, <1>7, SectionStep

(* What was published is kept, and the lock is given back.                 *)
LEMMA KeepResultStep ==
  ASSUME IInv, NEW c \in Callers, KeepResult(c)
  PROVE  IInv'
<1>1. /\ UNCHANGED <<env, books, handled, stalled, aborting, asCancelled, published>>
      /\ caller[c] = "published" /\ caller' = [caller EXCEPT ![c] = "over"]
      /\ lock' = None /\ cached' = Last(published)
  BY DEF KeepResult, Go
<1>2. /\ Held /\ "over" \in Places /\ Len(published) = 1 /\ published \in Seq(Results)
      /\ lock = c /\ cached = None
      /\ None \notin Results /\ None \notin Callers
      /\ \A i \in 1 .. Len(published) : Honest(published[i])
  BY <1>1, RecordsManagerAssumption DEF IInv, Typed, Held, Places, Claims
<1>3. cached' = published[1] /\ published[1] \in Results /\ Honest(published[1])
  BY <1>1, <1>2 DEF Last
<1>4. ASSUME \A d \in Callers : caller'[d] = IF d = c THEN "over" ELSE caller[d]
      PROVE  Held'
  <2>1. \A d \in Callers : d # c => caller[d] \notin {"inside", "published", "reporting"}
    BY <1>2 DEF Held
  <2>2. Unstarted'
    BY <1>1, <1>2, <1>4 DEF Held, Unstarted, Callers
  <2> QED BY <1>1, <1>2, <1>3, <1>4, <2>1, <2>2 DEF Held
<1> QED BY <1>1, <1>2, <1>3, <1>4, SectionStep

(* The lock is given back with nothing published.                          *)
LEMMA ProcessingRaisesStep ==
  ASSUME IInv, NEW c \in Callers, ProcessingRaises(c)
  PROVE  IInv'
<1>1. PICK to \in {"refused", "failed"} :
        /\ UNCHANGED <<env, books, handled, stalled, aborting, asCancelled, cached, published>>
        /\ caller[c] = "inside" /\ caller' = [caller EXCEPT ![c] = to]
        /\ lock' = None
  BY DEF ProcessingRaises, Go
<1>2. /\ Held /\ to \in Places /\ published = <<>> /\ published \in Seq(Results)
      /\ lock = c /\ cached = None /\ None \notin Callers /\ Len(published) = 0
  BY <1>1, RecordsManagerAssumption DEF IInv, Typed, Held, Places
<1>3. ASSUME \A d \in Callers : caller'[d] = IF d = c THEN to ELSE caller[d]
      PROVE  Held'
  <2>1. \A d \in Callers : d # c => caller[d] \notin {"inside", "published", "reporting"}
    BY <1>2 DEF Held
  <2>2. Unstarted'
    BY <1>1, <1>2, <1>3 DEF Held, Unstarted, Callers
  <2> QED BY <1>1, <1>2, <1>3, <2>1, <2>2 DEF Held
<1>4. /\ lock' \in Callers \cup {None} /\ cached' \in Results \cup {None}
      /\ published' \in Seq(Results) /\ caller[c] # "idle" /\ to # "idle"
      /\ \A i \in 1 .. Len(published') : Honest(published'[i])
      /\ cached' = None
  BY <1>1, <1>2
<1> QED BY <1>1, <1>2, <1>3, <1>4, SectionStep

(* A failure is kept before it is published, unless a result is there.     *)
LEMMA ReportFailureStep ==
  ASSUME IInv, NEW c \in Callers, ReportFailure(c)
  PROVE  IInv'
<1>1. /\ UNCHANGED <<env, books, handled, stalled, aborting, asCancelled, lock, published>>
      /\ caller[c] = "failed" /\ lock = None
      /\ \/ cached # None /\ caller' = [caller EXCEPT ![c] = "over"] /\ cached' = cached
         \/ /\ cached = None /\ caller' = [caller EXCEPT ![c] = "reporting"]
            /\ cached' = FailedResult(c)
  BY DEF ReportFailure, Go
<1>2. /\ cached \in Results \cup {None} /\ published \in Seq(Results)
      /\ \A i \in 1 .. Len(published) : Honest(published[i])
      /\ cached # None => Honest(cached)
      /\ Held /\ {"over", "reporting"} \subseteq Places
      /\ None \notin Results /\ None \notin Callers
  BY RecordsManagerAssumption DEF IInv, Typed, Claims, Places
<1>3. CASE cached # None /\ caller' = [caller EXCEPT ![c] = "over"] /\ cached' = cached
  <2>1. ASSUME \A d \in Callers : caller'[d] = IF d = c THEN "over" ELSE caller[d]
        PROVE  Held'
    <3>1. Unstarted'
      BY <1>1, <1>2, <2>1 DEF Held, Unstarted, Callers
    <3> QED BY <1>1, <1>2, <1>3, <2>1, <3>1, HeldFrame DEF Section
  <2> QED BY <1>1, <1>2, <1>3, <2>1, SectionStep
<1>4. CASE /\ cached = None /\ caller' = [caller EXCEPT ![c] = "reporting"]
           /\ cached' = FailedResult(c)
  <2>1. FailedResult(c) \in Results /\ Honest(FailedResult(c))
    <3>1. NumPhases * MaxRequests \in Nat /\ asCancelled[c] \in BOOLEAN
      BY RecordsManagerAssumption DEF IInv, Typed
    <3>2. 0 \in 0 .. NumPhases * MaxRequests
      BY <3>1
    <3> QED BY <3>1, <3>2 DEF FailedResult, Results, Honest
  <2>2. ASSUME \A d \in Callers : caller'[d] = IF d = c THEN "reporting" ELSE caller[d]
        PROVE  Held'
    <3>1. /\ \A d \in Callers : caller[d] \notin {"inside", "published", "reporting"}
          /\ published = <<>>
      BY <1>1, <1>2, <1>4 DEF Held
    <3>2. Unstarted'
      BY <1>1, <1>2, <2>2 DEF Held, Unstarted, Callers
    <3> QED BY <1>1, <1>2, <1>4, <2>1, <2>2, <3>1, <3>2 DEF Held
  <2> QED BY <1>1, <1>2, <1>4, <2>1, <2>2, SectionStep
<1> QED BY <1>1, <1>3, <1>4

(* The one failure that was kept is published; it claims nothing.          *)
LEMMA PublishFailureStep ==
  ASSUME IInv, NEW c \in Callers, PublishFailure(c)
  PROVE  IInv'
<1>1. /\ UNCHANGED <<env, books, handled, stalled, aborting, asCancelled, lock, cached>>
      /\ caller[c] = "reporting" /\ caller' = [caller EXCEPT ![c] = "over"]
      /\ published' = Append(published, cached)
  BY DEF PublishFailure, Go
<1>2. /\ lock \in Callers \cup {None} /\ cached \in Results \cup {None}
      /\ Held /\ "over" \in Places /\ cached # None /\ published = <<>>
      /\ None \notin Callers /\ Honest(cached)
  BY <1>1, RecordsManagerAssumption DEF IInv, Typed, Held, Places, Claims
<1>3. published' = <<cached>>
  BY <1>1, <1>2
<1>4. /\ published' \in Seq(Results) /\ Len(published') = 1
      /\ \A i \in 1 .. Len(published') : published'[i] = cached
  BY <1>2, <1>3
<1>5. ASSUME \A d \in Callers : caller'[d] = IF d = c THEN "over" ELSE caller[d]
      PROVE  Held'
  <2>1. \A d \in Callers : caller[d] \notin {"inside", "published"}
    BY <1>2 DEF Held
  <2>2. \A d \in Callers : d # c => caller[d] # "reporting"
    BY <1>1, <1>2 DEF Held
  <2>3. Unstarted'
    BY <1>1, <1>2, <1>5 DEF Held, Unstarted, Callers
  <2> QED BY <1>1, <1>2, <1>4, <1>5, <2>1, <2>2, <2>3 DEF Held
<1> QED BY <1>1, <1>2, <1>4, <1>5, SectionStep

-----------------------------------------------------------------------------
(* The handlers of messages and records.                                   *)

(* A handler that ends with the check, having changed the world and the    *)
(* trackers to t and the callers to calls.                                 *)
LEMMA HandlerStep ==
  ASSUME IInv, UNCHANGED <<run, stage, completed, over, stalled, asCancelled, lock, cached,
                           published>>,
         bus' \in Seq(Message), arriving' \in [Phases -> [Outcomes -> Nat]],
         halt' \in {"no", "sent", "heard", "broken"}, closing' \subseteq Phases,
         complete' \in BOOLEAN, creditsOver' \in BOOLEAN,
         aborting' \in {"armed", "asking", "asked"},
         NEW t \in [Phases -> Tracker], NEW calls \in [Callers -> Places], Checked(t, calls),
         \A c \in Callers : \/ calls[c] = caller[c]
                            \/ c # "natural" /\ {caller[c], calls[c]} \cap Section = {},
         aborting' # "asked" => calls["abort"] = "idle",
         (\A p \in Phases : SameCount(t[p], tracker'[p])) => \A p \in Phases : Kept(p)',
         ~over => NotOver(bus') /\ ~creditsOver',
         Ended => \A p \in Phases : t[p].good = tracker[p].good /\ t[p].bad = tracker[p].bad
  PROVE  IInv'
<1>1. /\ caller \in [Callers -> Places] /\ handled \in BOOLEAN
      /\ "natural" \in Callers /\ calls["natural"] = caller["natural"]
  BY DEF IInv, Typed, Callers
<1>2. /\ tracker' \in [Phases -> Tracker] /\ handled' \in BOOLEAN
      /\ caller' \in [Callers -> Places]
      /\ \A p \in Phases : SameCount(t[p], tracker'[p])
      /\ handled => handled'
      /\ ~handled' => caller' = calls
      /\ \A c \in Callers : \/ caller'[c] = calls[c]
                            \/ c = "natural" /\ ~handled /\ caller'[c] = "announcing"
  BY <1>1, CheckedEffect
<1>3. Typed'
  BY <1>2 DEF IInv, Typed
<1>4. Ended => Ended' /\ completed' = completed
  BY <1>2 DEF Ended, SameCount
<1>5. Books'
  <2>1. /\ handled /\ ~stalled => Ended'
        /\ ~over' => NotOver(bus') /\ ~creditsOver'
        /\ \A p \in Phases : Kept(p)'
    BY <1>2, <1>4 DEF IInv, Books
  <2> QED BY <1>1, <1>3, <2>1, BooksChecked
<1>6. Held'
  <2>1. Unstarted'
    <3>1. "abort" \in Callers /\ caller'["abort"] = calls["abort"]
      BY <1>2 DEF Callers
    <3> QED BY <1>1, <1>2, <3>1 DEF IInv, Held, Unstarted
  <2>2. ~handled => caller["natural"] \notin Section
    BY DEF IInv, Held, Unstarted, Section
  <2>3. "announcing" \notin Section
    BY DEF Section
  <2>4. ASSUME NEW c \in Callers
        PROVE  caller'[c] = caller[c] \/ (caller[c] \notin Section /\ caller'[c] \notin Section)
    BY <1>1, <1>2, <2>2, <2>3
  <2> QED BY <2>1, <2>4, HeldFrame DEF IInv
<1>7. Claims'
  BY <1>4, ClaimsFrame DEF IInv
<1> QED BY <1>3, <1>5, <1>6, <1>7 DEF IInv

(* A handler whose message or record has been taken already.               *)
LEMMA RecheckStep ==
  ASSUME IInv, UNCHANGED <<run, stage, completed, bus, arriving, over, creditsOver, stalled,
                           asCancelled, lock, cached, published>>,
         halt' \in {"no", "sent", "heard", "broken"}, closing' \subseteq Phases,
         complete' \in BOOLEAN, aborting' \in {"armed", "asking", "asked"},
         NEW calls \in [Callers -> Places], Checked(tracker, calls),
         \A c \in Callers : \/ calls[c] = caller[c]
                            \/ c # "natural" /\ {caller[c], calls[c]} \cap Section = {},
         aborting' # "asked" => calls["abort"] = "idle"
  PROVE  IInv'
<1>1. /\ bus' \in Seq(Message) /\ arriving' \in [Phases -> [Outcomes -> Nat]]
      /\ creditsOver' \in BOOLEAN /\ tracker \in [Phases -> Tracker]
  BY DEF IInv, Typed
<1>2. (\A p \in Phases : SameCount(tracker[p], tracker'[p])) => \A p \in Phases : Kept(p)'
  BY KeptFrame DEF IInv, Books
<1>3. ~over => NotOver(bus') /\ ~creditsOver'
  BY DEF IInv, Books
<1> QED BY <1>1, <1>2, <1>3, HandlerStep

(* A message about a phase is handled: its tracker learns of the phase, or *)
(* of its final count.                                                     *)
LEMMA OnPhaseStatsStep ==
  ASSUME IInv, OnPhaseStats
  PROVE  IInv'
<1> DEFINE h == Head(bus)
<1>1. /\ UNCHANGED <<run, stage, completed, arriving, over, halt, complete, creditsOver,
                     handled, stalled, aborting, results>>
      /\ bus # <<>> /\ h.kind \in {"progress", "complete"} /\ bus' = Tail(bus)
      /\ tracker' = UpdatePhaseInfo(h)
      /\ closing' = IF h.kind = "complete" THEN closing \cup {h.phase} ELSE closing
  BY DEF OnPhaseStats
<1>2. bus \in Seq(Message) /\ tracker \in [Phases -> Tracker] /\ closing \subseteq Phases
  BY DEF IInv, Typed
<1>3. h \in Message /\ bus' \in Seq(Message) /\ (NotOver(bus) => NotOver(bus'))
  BY <1>1, <1>2, MessageTaken
<1>4. PICK p \in Phases : About(h, p) /\ h.phase = p
  BY <1>1, <1>3 DEF Message, StatsMessage, FinalMessage, About
<1>5. /\ h.final \in {None} \cup 0 .. MaxRequests /\ h.cancelled \in BOOLEAN
      /\ h.kind = "progress" => h.final = None
      /\ \A q : q # p => ~About(h, q)
  BY <1>1, <1>3, <1>4 DEF Message, StatsMessage, FinalMessage, About
<1> HIDE DEF h
<1>6. /\ tracker' \in [Phases -> Tracker]
      /\ \A q \in Phases : q # p => tracker'[q] = tracker[q]
      /\ tracker'[p].known = TRUE /\ tracker'[p].final = h.final
      /\ \A q \in Phases : tracker'[q].good = tracker[q].good /\ tracker'[q].bad = tracker[q].bad
  <2>1. tracker' = [tracker EXCEPT ![p] = [[[tracker[p] EXCEPT !.known = TRUE]
                                              EXCEPT !.final = h.final]
                                              EXCEPT !.cancelled = h.cancelled]]
    BY <1>1, <1>2, <1>4 DEF UpdatePhaseInfo
  <2> DEFINE a == [tracker[p] EXCEPT !.known = TRUE]
             b == [a EXCEPT !.final = h.final]
             c == [b EXCEPT !.cancelled = h.cancelled]
  <2>2. a \in Tracker /\ a.known = TRUE /\ a.good = tracker[p].good /\ a.bad = tracker[p].bad
    BY <1>2 DEF Tracker
  <2> HIDE DEF a
  <2>3. /\ b \in Tracker /\ b.known = TRUE /\ b.good = tracker[p].good /\ b.bad = tracker[p].bad
        /\ b.final = h.final
    BY <1>5, <2>2 DEF Tracker
  <2> HIDE DEF b
  <2>4. /\ c \in Tracker /\ c.known = TRUE /\ c.good = tracker[p].good /\ c.bad = tracker[p].bad
        /\ c.final = h.final
    BY <1>5, <2>3 DEF Tracker
  <2>5. tracker' = [tracker EXCEPT ![p] = c]
    BY <2>1 DEF a, b, c
  <2> HIDE DEF c
  <2> QED BY <1>2, <2>4, <2>5
<1>7. ASSUME NEW q \in Phases PROVE Kept(q)'
  <2>1. /\ Silent(bus, q) => Silent(bus', q) /\ ~About(h, q)
        /\ ~Silent(bus, q) => About(h, q) \/ ~Silent(bus', q)
        /\ Open(bus, q) => Open(bus', q) /\ (About(h, q) => h.kind = "progress")
        /\ \A n : Closes(bus, q, n) =>
             \/ About(h, q) /\ h.kind = "complete" /\ h.final = n /\ Silent(bus', q)
             \/ (About(h, q) => h.kind = "progress") /\ Closes(bus', q, n)
        /\ \A k, l \in BOOLEAN :
             Foretold(bus, k, q) /\ (k \/ About(h, q) => l) => Foretold(bus', l, q)
    BY <1>1, <1>2, MessageTaken DEF h
  <2>2. Kept(q) /\ tracker[q].known \in BOOLEAN /\ tracker'[q].known \in BOOLEAN
    BY <1>2, <1>6 DEF IInv, Books, Tracker
  <2>3. tracker[q].known \/ About(h, q) => tracker'[q].known
    BY <1>5, <1>6
  <2>4. Told(q)'
    <3>1. stage' = stage /\ completed' = completed /\ Told(q)
      BY <1>1, <2>2 DEF Kept
    <3>2. CASE q # p
      BY <1>5, <1>6, <2>1, <3>1, <3>2 DEF Told
    <3>3. CASE q = p
      <4>1. tracker'[q].final = h.final /\ About(h, q)
        BY <1>4, <1>6, <3>3
      <4>2. CASE stage[q] = "new"
        BY <2>1, <3>1, <4>1, <4>2 DEF Told
      <4>3. CASE stage[q] \in {"started", "sent"}
        BY <1>5, <2>1, <3>1, <4>1, <4>3 DEF Told
      <4>4. CASE stage[q] = "complete"
        BY <1>5, <2>1, <3>1, <4>1, <4>4 DEF Told
      <4> QED BY <4>2, <4>3, <4>4 DEF IInv, Typed
    <3> QED BY <3>2, <3>3
  <2>5. Announces(q)'
    <3>1. Foretold(bus, tracker[q].known, q) => Foretold(bus', tracker'[q].known, q)
      BY <2>1, <2>2, <2>3
    <3> QED BY <1>1, <2>1, <2>2, <2>3, <3>1 DEF Kept, Announces
  <2>6. Covered(q)'
    BY <1>1, <1>6, <2>2 DEF Kept, Covered
  <2> QED BY <2>4, <2>5, <2>6 DEF Kept
<1>8. Typed'
  <2>1. closing' \subseteq Phases
    BY <1>1, <1>2, <1>4
  <2> QED BY <1>1, <1>3, <1>6, <2>1 DEF IInv, Typed, results
<1>9. Ended => Ended' /\ completed' = completed
  BY <1>1, <1>6 DEF Ended
<1>10. Held'
  BY <1>1 DEF IInv, Held, Unstarted, results
<1>11. Books'
  BY <1>1, <1>3, <1>7, <1>9 DEF IInv, Books
<1>12. Claims'
  BY <1>1, <1>9, ClaimsFrame DEF IInv, results
<1> QED BY <1>8, <1>10, <1>11, <1>12 DEF IInv

(* The end of the credits is handled: all phases started are known by      *)
(* then.                                                                   *)
LEMMA OnCreditsCompleteStep ==
  ASSUME IInv, OnCreditsComplete
  PROVE  IInv'
<1>1. /\ UNCHANGED <<run, stage, completed, arriving, over, halt, closing, complete,
                     stalled, aborting, asCancelled, lock, cached, published>>
      /\ bus # <<>> /\ Head(bus).kind = "over" /\ bus' = Tail(bus)
      /\ creditsOver' = TRUE /\ Checked(tracker, caller)
  BY DEF OnCreditsComplete, CheckAllReceived, Checked
<1>2. /\ bus \in Seq(Message) /\ tracker \in [Phases -> Tracker]
      /\ caller \in [Callers -> Places] /\ arriving' \in [Phases -> [Outcomes -> Nat]]
      /\ halt' \in {"no", "sent", "heard", "broken"} /\ closing' \subseteq Phases
      /\ complete' \in BOOLEAN /\ creditsOver' \in BOOLEAN
      /\ aborting' \in {"armed", "asking", "asked"}
      /\ aborting' # "asked" => caller["abort"] = "idle"
  BY <1>1 DEF IInv, Typed, Held, Unstarted
<1>3. bus' \in Seq(Message)
  BY <1>1, <1>2, MessageTaken
<1>4. over
  BY <1>1, <1>2, MessageTaken DEF IInv, Books
<1>5. ASSUME \A p \in Phases : SameCount(tracker[p], tracker'[p]), NEW q \in Phases
      PROVE  Kept(q)'
  <2>1. /\ Silent(bus, q) => Silent(bus', q)
        /\ ~Silent(bus, q) => About(Head(bus), q) \/ ~Silent(bus', q)
        /\ Open(bus, q) => Open(bus', q)
        /\ \A n : Closes(bus, q, n) =>
             \/ About(Head(bus), q) /\ Head(bus).kind = "complete" /\ Silent(bus', q)
             \/ Closes(bus', q, n)
        /\ \A k, l \in BOOLEAN :
             Foretold(bus, k, q) /\ (k \/ About(Head(bus), q) => l) => Foretold(bus', l, q)
        /\ \A k \in BOOLEAN : Foretold(bus, k, q) => k
    BY <1>1, <1>2, MessageTaken
  <2>2. ~About(Head(bus), q)
    BY <1>1 DEF About
  <2>3. Kept(q) /\ tracker[q].known \in BOOLEAN /\ SameCount(tracker[q], tracker'[q])
    BY <1>2, <1>5 DEF IInv, Books, Tracker
  <2>4. stage[q] # "new" => tracker[q].known
    BY <2>1, <2>3 DEF Kept, Announces
  <2>5. Foretold(bus, tracker[q].known, q) => Foretold(bus', tracker[q].known, q)
    BY <2>1, <2>2, <2>3
  <2>6. Told(q)'
    BY <1>1, <2>1, <2>2, <2>3 DEF Kept, Told, SameCount
  <2>7. Announces(q)'
    BY <1>1, <2>3, <2>4, <2>5 DEF Kept, Announces, SameCount
  <2>8. Covered(q)'
    BY <1>1, <2>3 DEF Kept, Covered, SameCount
  <2> QED BY <2>6, <2>7, <2>8 DEF Kept
<1> QED BY <1>1, <1>2, <1>3, <1>4, <1>5, HandlerStep

(* The check that follows the final count of a phase.                      *)
LEMMA OnPhaseCompleteStep ==
  ASSUME IInv, NEW p \in Phases, OnPhaseComplete(p)
  PROVE  IInv'
<1>1. /\ UNCHANGED <<env, creditsOver, stalled, aborting, asCancelled, lock, cached, published>>
      /\ closing' = closing \ {p} /\ complete' = TRUE /\ Checked(tracker, caller)
  BY DEF OnPhaseComplete, CheckAllReceived, Checked, CanFinalize
<1>2. /\ caller \in [Callers -> Places] /\ closing' \subseteq Phases
      /\ halt' \in {"no", "sent", "heard", "broken"} /\ complete' \in BOOLEAN
      /\ aborting' \in {"armed", "asking", "asked"}
      /\ aborting' # "asked" => caller["abort"] = "idle"
  BY <1>1 DEF IInv, Typed, Held, Unstarted, env
<1> QED BY <1>1, <1>2, RecheckStep DEF env

(* The failure threshold asks for an abort.                                *)
LEMMA AbortRequestedStep ==
  ASSUME IInv, AbortRequested
  PROVE  IInv'
<1> DEFINE calls == [caller EXCEPT !["abort"] = "called"]
<1>1. /\ UNCHANGED <<run, stage, completed, bus, arriving, over, closing, complete,
                     creditsOver, stalled, asCancelled, lock, cached, published>>
      /\ aborting = "asking" /\ aborting' = "asked"
      /\ halt' = (IF halt = "no" THEN "sent" ELSE halt) /\ Checked(tracker, calls)
  BY DEF AbortRequested, CheckAllReceived, Checked, CanFinalize
<1>2. /\ caller \in [Callers -> Places] /\ closing' \subseteq Phases
      /\ halt' \in {"no", "sent", "heard", "broken"} /\ complete' \in BOOLEAN
      /\ aborting' \in {"armed", "asking", "asked"} /\ caller["abort"] = "idle"
  BY <1>1 DEF IInv, Typed, Held, Unstarted
<1>3. /\ calls \in [Callers -> Places] /\ calls["abort"] = "called"
      /\ \A c \in Callers : calls[c] = caller[c] \/ c = "abort"
  BY <1>2 DEF Callers, Places
<1> HIDE DEF calls
<1>4. \A c \in Callers : \/ calls[c] = caller[c]
                         \/ c # "natural" /\ {caller[c], calls[c]} \cap Section = {}
  BY <1>2, <1>3 DEF Section
<1> QED BY <1>1, <1>2, <1>3, <1>4, RecheckStep

(* The abort could not be asked for; the check is made all the same.       *)
LEMMA AbortNotRequestedStep ==
  ASSUME IInv, AbortNotRequested
  PROVE  IInv'
<1>1. /\ UNCHANGED <<env, closing, complete, creditsOver, stalled, asCancelled, lock, cached,
                     published>>
      /\ aborting = "asking" /\ aborting' = "armed" /\ Checked(tracker, caller)
  BY DEF AbortNotRequested, CheckAllReceived, Checked, CanFinalize
<1>2. /\ caller \in [Callers -> Places] /\ closing' \subseteq Phases
      /\ halt' \in {"no", "sent", "heard", "broken"} /\ complete' \in BOOLEAN
      /\ aborting' \in {"armed", "asking", "asked"}
      /\ aborting' # "asked" => caller["abort"] = "idle"
  BY <1>1 DEF IInv, Typed, Held, Unstarted, env
<1> QED BY <1>1, <1>2, RecheckStep DEF env

(* The watchdog gives up on missing records: the result will not claim to  *)
(* be complete.                                                            *)
LEMMA RecordStallStep ==
  ASSUME IInv, RecordStall
  PROVE  IInv'
<1>1. /\ UNCHANGED <<env, books, aborting, asCancelled, lock, cached, published>>
      /\ creditsOver /\ ~handled /\ stalled' = TRUE /\ handled' = TRUE
      /\ caller' = [caller EXCEPT !["natural"] = "announcing"]
  BY DEF RecordStall, HandleAllReceivedOnce
<1>2. /\ caller \in [Callers -> Places] /\ "natural" \in Callers
      /\ caller["natural"] \notin Section /\ "announcing" \in Places \ Section
  BY <1>1 DEF IInv, Typed, Held, Unstarted, Callers, Places, Section
<1>3. /\ caller' \in [Callers -> Places] /\ caller'["natural"] = "announcing"
      /\ \A c \in Callers : c # "natural" => caller'[c] = caller[c]
  BY <1>1, <1>2
<1>4. Typed'
  BY <1>1, <1>3 DEF IInv, Typed, env, books
<1>5. Held'
  <2>1. Unstarted'
    BY <1>1, <1>3 DEF IInv, Held, Unstarted, Callers
  <2> QED BY <1>1, <1>2, <1>3, <2>1, HeldFrame DEF IInv
<1>6. /\ \A p \in Phases : Kept(p)'
      /\ Ended <=> Ended'
  BY <1>1, KeptFrame DEF IInv, Books, env, books, SameCount
<1>7. Books'
  BY <1>1, <1>6 DEF IInv, Books, env, books
<1>8. Claims'
  BY <1>1, <1>6, ClaimsFrame DEF IInv, env
<1> QED BY <1>4, <1>5, <1>7, <1>8 DEF IInv

(* A record is on its way for a request that completed.                    *)
LEMMA RecordCounted ==
  ASSUME NEW r \in Tracker, NEW o \in Outcomes, NEW n,
         n = [[r EXCEPT !.known = TRUE] EXCEPT ![o] = r[o] + 1]
  PROVE  /\ n \in Tracker /\ n.known = TRUE /\ n.final = r.final
         /\ n.good + n.bad = r.good + r.bad + 1
<1> DEFINE k == [r EXCEPT !.known = TRUE]
<1>1. /\ k \in Tracker /\ k.known = TRUE /\ k.final = r.final
      /\ k.good = r.good /\ k.bad = r.bad
  BY DEF Tracker
<1> HIDE DEF k
<1>2. CASE o = "good"
  <2> DEFINE v == r.good + 1
  <2>1. n = [k EXCEPT !.good = v]
    BY <1>2 DEF k
  <2>2. r.good \in Nat /\ r.bad \in Nat /\ v \in Nat
    BY DEF Tracker
  <2> HIDE DEF v
  <2>3. n \in Tracker /\ n.known = TRUE /\ n.final = r.final /\ n.good = v /\ n.bad = r.bad
    BY <1>1, <2>1, <2>2 DEF Tracker
  <2> QED BY <2>2, <2>3 DEF v
<1>3. CASE o = "bad"
  <2> DEFINE v == r.bad + 1
  <2>1. n = [k EXCEPT !.bad = v]
    BY <1>3 DEF k
  <2>2. r.good \in Nat /\ r.bad \in Nat /\ v \in Nat
    BY DEF Tracker
  <2> HIDE DEF v
  <2>3. n \in Tracker /\ n.known = TRUE /\ n.final = r.final /\ n.bad = v /\ n.good = r.good
    BY <1>1, <2>1, <2>2 DEF Tracker
  <2> QED BY <2>2, <2>3 DEF v
<1> QED BY <1>2, <1>3 DEF Outcomes

(* A record is counted, then the trackers are checked.                     *)
LEMMA OnRecordStep ==
  ASSUME IInv, NEW p \in Phases, NEW o \in Outcomes, OnRecord(p, o)
  PROVE  IInv'
<1> DEFINE t == Counted(p, o)
<1>1. /\ UNCHANGED <<run, stage, completed, bus, over, halt, closing, complete,
                     creditsOver, stalled, asCancelled, lock, cached, published>>
      /\ arriving[p][o] > 0
      /\ arriving' = [arriving EXCEPT ![p][o] = arriving[p][o] - 1]
      /\ aborting' = aborting \/ (aborting = "armed" /\ aborting' = "asking")
      /\ Checked(t, caller)
  BY DEF OnRecord, CheckAllReceived, Checked, CanFinalize
<1>2. /\ Typed /\ caller \in [Callers -> Places] /\ tracker[p] \in Tracker
      /\ tracker \in [Phases -> Tracker] /\ arriving \in [Phases -> [Outcomes -> Nat]]
      /\ bus' \in Seq(Message) /\ halt' \in {"no", "sent", "heard", "broken"}
      /\ closing' \subseteq Phases /\ complete' \in BOOLEAN /\ creditsOver' \in BOOLEAN
      /\ aborting' \in {"armed", "asking", "asked"}
      /\ aborting' # "asked" => caller["abort"] = "idle"
      /\ ~over => NotOver(bus') /\ ~creditsOver'
  BY <1>1 DEF IInv, Typed, Held, Unstarted, Books
<1>3. /\ t \in [Phases -> Tracker] /\ \A q \in Phases : q # p => t[q] = tracker[q]
      /\ t[p].known = TRUE /\ t[p].final = tracker[p].final
      /\ t[p].good + t[p].bad = tracker[p].good + tracker[p].bad + 1
  <2> DEFINE n == [[tracker[p] EXCEPT !.known = TRUE] EXCEPT ![o] = tracker[p][o] + 1]
  <2>1. t = [tracker EXCEPT ![p] = n]
    <3>1. [tracker[p] EXCEPT !.known = TRUE][o] = tracker[p][o]
      BY <1>2 DEF Outcomes, Tracker
    <3> QED BY <1>2, <3>1 DEF Counted
  <2>2. /\ n \in Tracker /\ n.known = TRUE /\ n.final = tracker[p].final
        /\ n.good + n.bad = tracker[p].good + tracker[p].bad + 1
    <3> HIDE DEF n
    <3> QED BY <1>2, RecordCounted DEF n
  <2> HIDE DEF n, t
  <2> QED BY <1>2, <2>1, <2>2
<1>4. /\ arriving' \in [Phases -> [Outcomes -> Nat]]
      /\ \A q \in Phases : q # p => arriving'[q] = arriving[q]
      /\ arriving[p]["good"] + arriving[p]["bad"] > 0
      /\ arriving'[p]["good"] + arriving'[p]["bad"] = arriving[p]["good"] + arriving[p]["bad"] - 1
  <2>1. arriving[p] \in [Outcomes -> Nat] /\ arriving[p][o] - 1 \in Nat /\ o \in {"good", "bad"}
    BY <1>1, <1>2 DEF Outcomes
  <2>2. arriving[p]["good"] \in Nat /\ arriving[p]["bad"] \in Nat
    BY <2>1 DEF Outcomes
  <2>3. /\ arriving' \in [Phases -> [Outcomes -> Nat]]
        /\ \A q \in Phases : q # p => arriving'[q] = arriving[q]
        /\ arriving'[p] = [arriving[p] EXCEPT ![o] = arriving[p][o] - 1]
    BY <1>1, <1>2, <2>1
  <2> QED BY <1>1, <2>1, <2>2, <2>3 DEF Outcomes
<1> HIDE DEF t
<1>5. /\ tracker[p].good \in Nat /\ tracker[p].bad \in Nat
      /\ arriving[p]["good"] \in Nat /\ arriving[p]["bad"] \in Nat
      /\ arriving'[p]["good"] \in Nat /\ arriving'[p]["bad"] \in Nat
      /\ t[p].good \in Nat /\ t[p].bad \in Nat /\ completed[p] \in Nat
  BY <1>2, <1>3, <1>4 DEF Tracker, Outcomes, Typed
<1>6. /\ Kept(p)
      /\ tracker[p].good + tracker[p].bad + arriving[p]["good"] + arriving[p]["bad"]
           <= completed[p]
  BY DEF IInv, Books, Kept, Covered
<1>7. ASSUME \A q \in Phases : SameCount(t[q], tracker'[q]), NEW q \in Phases
      PROVE  Kept(q)'
  <2>1. CASE q # p
    <3>1. Kept(q) /\ SameCount(tracker[q], tracker'[q]) /\ arriving'[q] = arriving[q]
      BY <1>3, <1>4, <1>7, <2>1 DEF IInv, Books
    <3> QED BY <1>1, <3>1 DEF Kept, Told, Announces, Covered, SameCount
  <2>2. CASE q = p
    <3>1. /\ tracker'[p].known = TRUE /\ tracker'[p].final = tracker[p].final
          /\ tracker'[p].good = t[p].good /\ tracker'[p].bad = t[p].bad
      BY <1>3, <1>7 DEF SameCount
    <3>2. Told(p)'
      BY <1>1, <1>6, <3>1 DEF Kept, Told
    <3>3. Announces(p)'
      BY <1>1, <3>1 DEF Announces, Foretold
    <3>4. Covered(p)'
      <4>1. /\ t[p].good + t[p].bad + arriving'[p]["good"] + arriving'[p]["bad"] <= completed[p]
            /\ completed[p] <= run.requests
        BY <1>3, <1>4, <1>5, <1>6 DEF Kept, Covered
      <4> QED BY <1>1, <3>1, <4>1 DEF Covered
    <3> QED BY <2>2, <3>2, <3>3, <3>4 DEF Kept
  <2> QED BY <2>1, <2>2
<1>8. ~Ended
  BY <1>4, <1>5, <1>6 DEF Ended
<1> QED BY <1>1, <1>2, <1>3, <1>4, <1>7, <1>8, HandlerStep

-----------------------------------------------------------------------------
(* A run begins with empty books and nothing published.                    *)
LEMMA InitIInv == Init => IInv
<1> SUFFICES ASSUME Init PROVE IInv
  OBVIOUS
<1>1. Typed
  <2>1. tracker \in [Phases -> Tracker]
    BY DEF Init, NewTracker, Tracker
  <2>2. asCancelled \in [Callers -> BOOLEAN] /\ caller \in [Callers -> Places]
    BY DEF Init, Callers, Places
  <2>3. bus \in Seq(Message) /\ published \in Seq(Results)
    BY EmptySeq DEF Init
  <2>4. /\ stage \in [Phases -> {"new", "started", "sent", "complete"}]
        /\ completed \in [Phases -> Nat] /\ arriving \in [Phases -> [Outcomes -> Nat]]
    BY DEF Init
  <2> QED BY <2>1, <2>2, <2>3, <2>4 DEF Init, Typed
<1>2. Held
  BY RecordsManagerAssumption DEF Init, Held, Unstarted, Callers
<1>3. Books
  <2>1. ASSUME NEW p \in Phases PROVE Kept(p)
    <3>1. run.requests \in Nat
      BY RecordsManagerAssumption DEF Init
    <3>2. /\ tracker[p].good = 0 /\ tracker[p].bad = 0 /\ tracker[p].final = None
          /\ arriving[p]["good"] = 0 /\ arriving[p]["bad"] = 0 /\ completed[p] = 0
          /\ stage[p] = "new" /\ Len(bus) = 0
      BY DEF Init, NewTracker, Outcomes
    <3> QED BY <3>1, <3>2 DEF Kept, Told, Announces, Covered, Silent
  <2> QED BY <2>1 DEF Init, Books, NotOver
<1>4. Claims
  <2>1. asCancelled["command"] /\ asCancelled["abort"]
    BY DEF Init, Callers
  <2>2. Len(published) = 0 /\ cached = None
    BY DEF Init
  <2> QED BY <2>1, <2>2 DEF Claims
<1> QED BY <1>1, <1>2, <1>3, <1>4 DEF IInv

(* Every step of the TimingManager, a handler or a caller keeps the        *)
(* invariant.                                                              *)
LEMMA NextIInv == IInv /\ [Next]_vars => IInv'
<1> SUFFICES ASSUME IInv, [Next]_vars PROVE IInv'
  OBVIOUS
<1>1. ASSUME NEW c \in Callers, Caller(c)
      PROVE  IInv'
  BY <1>1, OnProfileCancelStep, ProcessResultsStep, PublishResultStep, KeepResultStep,
     ReportFailureStep, PublishFailureStep DEF Caller
<1>2. ASSUME Handler
      PROVE  IInv'
  BY <1>1, <1>2, OnPhaseStatsStep, OnCreditsCompleteStep, OnPhaseCompleteStep, OnRecordStep,
     AbortRequestedStep, AnnouncedStep, RelayedStep DEF Handler
<1>3. ASSUME UNCHANGED vars
      PROVE  IInv'
  <2>1. Typed' /\ Held' /\ Claims'
    BY <1>3 DEF vars, env, books, results, IInv, Typed, Held, Unstarted, Claims, Honest, Ended
  <2>2. \A p \in Phases : Kept(p)'
    BY <1>3, KeptFrame DEF vars, env, books, IInv, Books, SameCount
  <2>3. Books'
    BY <1>3, <2>2 DEF vars, env, books, IInv, Books, Ended
  <2> QED BY <2>1, <2>3 DEF IInv
<1> QED BY <1>2, <1>3, TimingManagerStep, AbortNotRequestedStep, RecordStallStep,
           UserCancelsStep, ProcessingRaisesStep DEF Next

(* The invariant holds in every state of every run.                        *)
LEMMA SpecIInv == Spec => []IInv
  BY InitIInv, NextIInv, PTL DEF Spec

-----------------------------------------------------------------------------
(* A result that claims to be complete was made when the TimingManager had *)
(* ended the run and all phases it started, and every completed request    *)
(* had its record counted: whichever of the final messages and the last    *)
(* record was handled last, for any number of phases and requests.         *)
THEOREM CompleteMeansAllThm == Spec => []CompleteMeansAll
<1>1. IInv => CompleteMeansAll
  <2> SUFFICES ASSUME IInv PROVE CompleteMeansAll
    OBVIOUS
  <2>1. \A p \in Phases :
          /\ completed[p] \in 0 .. MaxRequests
          /\ arriving[p] \in [Outcomes -> 0 .. MaxRequests]
          /\ tracker[p] \in [known : BOOLEAN, good : 0 .. MaxRequests, bad : 0 .. MaxRequests,
                             final : {None} \cup 0 .. MaxRequests, cancelled : BOOLEAN,
                             sentAll : BOOLEAN]
    <3> SUFFICES ASSUME NEW p \in Phases
                 PROVE  /\ completed[p] \in 0 .. MaxRequests
                        /\ arriving[p] \in [Outcomes -> 0 .. MaxRequests]
                        /\ tracker[p].good \in 0 .. MaxRequests
                        /\ tracker[p].bad \in 0 .. MaxRequests
                        /\ tracker[p] \in Tracker
      BY DEF Tracker
    <3>1. /\ run.requests \in 0 .. MaxRequests /\ MaxRequests \in Nat
          /\ completed[p] \in Nat /\ arriving[p] \in [Outcomes -> Nat]
          /\ arriving[p]["good"] \in Nat /\ arriving[p]["bad"] \in Nat
          /\ tracker[p] \in Tracker /\ tracker[p].good \in Nat /\ tracker[p].bad \in Nat
      BY RecordsManagerAssumption DEF IInv, Typed, Tracker, Outcomes
    <3>2. Covered(p)
      BY DEF IInv, Books, Kept
    <3>3. /\ completed[p] \in 0 .. MaxRequests
          /\ arriving[p]["good"] \in 0 .. MaxRequests /\ arriving[p]["bad"] \in 0 .. MaxRequests
          /\ tracker[p].good \in 0 .. MaxRequests /\ tracker[p].bad \in 0 .. MaxRequests
      BY <3>1, <3>2 DEF Covered
    <3> QED BY <3>1, <3>3 DEF Outcomes
  <2>2. published \in BoundedSeq(Results, Cardinality(Callers))
    <3>1. IsFiniteSet(Callers) /\ Cardinality(Callers) >= 1
      <4>1. IsFiniteSet({"natural"}) /\ IsFiniteSet({"command"}) /\ IsFiniteSet({"abort"})
        BY FS_Singleton
      <4>2. IsFiniteSet(Callers)
        <5>1. IsFiniteSet({"natural"} \cup {"command"})
          BY <4>1, FS_Union
        <5>2. IsFiniteSet(({"natural"} \cup {"command"}) \cup {"abort"})
          BY <4>1, <5>1, FS_Union
        <5>3. ({"natural"} \cup {"command"}) \cup {"abort"} = Callers
          BY DEF Callers
        <5> QED BY <5>2, <5>3
      <4>3. Callers # {}
        BY DEF Callers
      <4>4. Cardinality(Callers) \in Nat /\ Cardinality(Callers) # 0
        BY <4>2, <4>3, FS_EmptySet, FS_CardinalityType
      <4> QED BY <4>2, <4>4
    <3>2. /\ published \in [1 .. Len(published) -> Results]
          /\ Len(published) \in 0 .. Cardinality(Callers)
      <4>1. published \in Seq(Results) /\ Len(published) <= 1 /\ Len(published) \in Nat
        BY LenProperties DEF IInv, Typed, Held
      <4>2. Cardinality(Callers) \in Nat
        BY <3>1, FS_CardinalityType
      <4> QED BY <3>1, <4>1, <4>2, LenProperties, ElementOfSeq
    <3> QED BY <3>2 DEF BoundedSeq, SeqOf
  <2>3. TypeOK
    BY <2>1, <2>2 DEF IInv, Typed, TypeOK, Places
  <2>4. \A i \in DOMAIN published : Honest(published[i])
    <3>1. DOMAIN published = 1 .. Len(published)
      BY DEF IInv, Typed
    <3> QED BY <3>1 DEF IInv, Claims
  <2> QED BY <2>3, <2>4 DEF CompleteMeansAll, Honest, Ended
<1> QED BY <1>1, SpecIInv, PTL

(* A run has one result, whichever of the three callers came first and     *)
(* whatever failed: once one is published no second one is, and the one    *)
(* kept for later callers is never replaced (the lock and the per-phase    *)
(* cache of _process_results).                                             *)
THEOREM OneResultThm == Spec => OneResult
<1> DEFINE One == /\ published # <<>> => published' = published
                  /\ cached # None => cached' = cached
<1>1. IInv /\ [Next]_vars => [One]_vars
  <2> SUFFICES ASSUME IInv, Next PROVE One
    BY DEF vars
  <2>1. ASSUME UNCHANGED <<cached, published>> PROVE One
    BY <2>1
  <2>2. Held
    BY DEF IInv
  <2>3. ASSUME NEW c \in Callers, Caller(c) PROVE One
    <3>1. CASE PublishResult(c)
      BY <2>2, <3>1 DEF PublishResult, Held
    <3>2. CASE KeepResult(c)
      BY <2>2, <3>2 DEF KeepResult, Held
    <3>3. CASE ReportFailure(c)
      BY <3>3 DEF ReportFailure
    <3>4. CASE PublishFailure(c)
      BY <2>2, <3>4 DEF PublishFailure, Held
    <3> QED BY <2>1, <2>3, <3>1, <3>2, <3>3, <3>4
            DEF Caller, OnProfileCancel, ProcessResults
  <2>4. ASSUME Handler PROVE One
    BY <2>1, <2>3, <2>4 DEF Handler, OnPhaseStats, OnCreditsComplete, OnPhaseComplete,
       OnRecord, AbortRequested, Announced, Relayed, results
  <2>5. ASSUME TimingManager PROVE One
    BY <2>1, <2>5 DEF TimingManager, results
  <2> QED BY <2>1, <2>4, <2>5 DEF Next, AbortNotRequested, RecordStall, UserCancels,
             ProcessingRaises
<1> QED BY <1>1, SpecIInv, PTL DEF Spec, OneResult
=============================================================================
