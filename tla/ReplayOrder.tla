---------------------------- MODULE ReplayOrder ----------------------------
(***************************************************************************)
(* The order in which a recorded trace is replayed (timing/                *)
(* replay_dependencies.py): of the requests of other streams, which must   *)
(* have been answered before a request may be sent.                        *)
(*                                                                         *)
(* A request is a pair <<stream, index>>; a recording gives each its start *)
(* and its api time, in ms.  A stream is a conversation of the scope that  *)
(* the weka loader collects.                                               *)
(***************************************************************************)
EXTENDS Integers

CONSTANT Unknown  \* a start or an api time that was not recorded

ASSUME UnknownAssumption == Unknown \notin Int

Stream(k) == k[1]
Index(k) == k[2]

(* RecordedTurnInterval.normalized_interval: a request without a start has *)
(* none, and a missing or a negative duration is zero.                     *)
Timed(rec) == {k \in DOMAIN rec : rec[k].start # Unknown}
StartOf(rec, k) == rec[k].start
EndOf(rec, k) ==
  rec[k].start + (IF rec[k].api # Unknown /\ rec[k].api > 0 THEN rec[k].api ELSE 0)

(* Mutant: requests that begin together wait for each other.               *)
PrecedesOrTouches(rec, j, k) ==
  /\ {j, k} \subseteq Timed(rec)
  /\ StartOf(rec, j) <= StartOf(rec, k)
  /\ EndOf(rec, j) <= StartOf(rec, k)

(* j was over when k began.  Of two requests that begin at the same time   *)
(* neither was, even if they took no time.                                 *)
Precedes(rec, j, k) ==
  /\ {j, k} \subseteq Timed(rec)
  /\ StartOf(rec, j) < StartOf(rec, k)
  /\ EndOf(rec, j) <= StartOf(rec, k)

Elsewhere(rec, k) == {j \in DOMAIN rec : Stream(j) # Stream(k) /\ Precedes(rec, j, k)}

(* The order of max() by end, start and key, within a stream. *)
NoLater(rec, i, j) ==
  \/ EndOf(rec, i) < EndOf(rec, j)
  \/ EndOf(rec, i) = EndOf(rec, j) /\ StartOf(rec, i) < StartOf(rec, j)
  \/ /\ EndOf(rec, i) = EndOf(rec, j) /\ StartOf(rec, i) = StartOf(rec, j)
     /\ Index(i) <= Index(j)

(* The latest request of each other stream that was over when k began.     *)
Frontier(rec, k) ==
  {j \in Elsewhere(rec, k) :
     \A i \in Elsewhere(rec, k) : Stream(i) = Stream(j) => NoLater(rec, i, j)}

(* infer_cross_stream_predecessors: without those that another one of the  *)
(* frontier has waited for anyway.                                         *)
Predecessors(rec, k) ==
  {j \in Frontier(rec, k) : ~\E m \in Frontier(rec, k) \ {j} : Precedes(rec, j, m)}

(* A recording whose streams begin and end their requests in their order.  *)
Sequential(rec) ==
  \A i, j \in Timed(rec) :
    Stream(i) = Stream(j) /\ Index(i) < Index(j)
      => StartOf(rec, i) <= StartOf(rec, j) /\ EndOf(rec, i) <= EndOf(rec, j)

(* The requests done are a prefix of each stream. *)
Prefix(rec, done) ==
  \A i \in DOMAIN rec, j \in done :
    Stream(i) = Stream(j) /\ Index(i) < Index(j) => i \in done

(* Whatever was over when one of the requests done began is done.          *)
InOrder(rec, done) == \A k \in done : Elsewhere(rec, k) \subseteq done
=============================================================================
