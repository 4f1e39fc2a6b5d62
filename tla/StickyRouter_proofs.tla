------------------------ MODULE StickyRouter_proofs -------------------------
(***************************************************************************)
(* The tables of the sticky credit router (RouterOps, StickyRouter): which *)
(* operation keeps them in order, and why no run puts them out of order.   *)
(*                                                                         *)
(* Two facts carry the proof.  Sound: the entries, the names under which   *)
(* they are found and the sessions that each worker counts belong to each  *)
(* other.  Book: the loads, the index by load and the least load belong to *)
(* each other.  What a session does to its entry leaves the loads alone    *)
(* (Keeps), what a credit does to the loads leaves the entries alone       *)
(* (HomesKept), and only the loss of a worker touches both.  How many hold *)
(* an entry (refs) is any integer: Sound does not rest on the count.       *)
(***************************************************************************)
EXTENDS StickyRouter, FiniteSetTheorems, WellFoundedInduction, TLAPS

-----------------------------------------------------------------------------
(* What is in the tables.                                                  *)

(* The functions from some of A to B. *)
Partial(A, B) == UNION {[D -> B] : D \in SUBSET A}

(* No worker has more credits than there are sessions. *)
MaxLoad == Cardinality(Sessions)

(* _WorkerLoad *)
Load == [load : Nat, active : Int, owned : SUBSET Roots, credits : SUBSET Sessions]

(* _StickyEntry: only sessions that are no root are aliases. *)
Entry == [worker : Workers, refs : Int, final : BOOLEAN, aliases : SUBSET (Sessions \ Roots)]

(* The router's record. *)
Tables == [pool : Partial(Workers, Load), byLoad : [0 .. MaxLoad -> SUBSET Workers],
           minLoad : 0 .. MaxLoad, sticky : Partial(Sessions, Roots),
           entry : Partial(Roots, Entry)]

(* A worker owns the entries that name it, and counts them. *)
Owning(t) ==
  /\ \A e \in DOMAIN t.entry : t.entry[e].worker \in DOMAIN t.pool
  /\ \A w \in DOMAIN t.pool :
       /\ \A e \in Roots : e \in t.pool[w].owned <=> e \in DOMAIN t.entry /\ t.entry[e].worker = w
       /\ t.pool[w].active = Cardinality(t.pool[w].owned)

(* An entry is found under its root and its aliases, and nowhere else. *)
Naming(t) ==
  /\ \A k \in DOMAIN t.sticky : t.sticky[k] \in DOMAIN t.entry
  /\ \A e \in DOMAIN t.entry, k \in Sessions :
       k \in DOMAIN t.sticky /\ t.sticky[k] = e <=> k = e \/ k \in t.entry[e].aliases

(* Each worker counts the sessions whose entries name it, and every entry  *)
(* has its names.                                                          *)
Sound(t) == t \in Tables /\ Owning(t) /\ Naming(t)

(* Nothing happened to the loads. *)
SameLoads(t, u) ==
  /\ u.byLoad = t.byLoad /\ u.minLoad = t.minLoad
  /\ DOMAIN u.pool = DOMAIN t.pool
  /\ \A w \in DOMAIN t.pool : /\ u.pool[w].load = t.pool[w].load
                              /\ u.pool[w].credits = t.pool[w].credits

(* The step from t to u is in order, and none of the loads' business. *)
Keeps(t, u) == Sound(u) /\ SameLoads(t, u)

(* What a partial function is. *)
LEMMA PartialType ==
  ASSUME NEW A, NEW B, NEW f
  PROVE  f \in Partial(A, B) <=> DOMAIN f \subseteq A /\ f \in [DOMAIN f -> B]
BY DEF Partial

(* The types of the fields. *)
LEMMA Fields ==
  ASSUME NEW t \in Tables
  PROVE  /\ DOMAIN t.pool \subseteq Workers /\ t.pool \in [DOMAIN t.pool -> Load]
         /\ t.byLoad \in [0 .. MaxLoad -> SUBSET Workers] /\ t.minLoad \in 0 .. MaxLoad
         /\ DOMAIN t.sticky \subseteq Sessions /\ t.sticky \in [DOMAIN t.sticky -> Roots]
         /\ DOMAIN t.entry \subseteq Roots /\ t.entry \in [DOMAIN t.entry -> Entry]
         /\ Roots \subseteq Sessions
BY PartialType DEF Tables, Roots

(* A record of tables, field by field. *)
Table(pool, byLoad, minLoad, sticky, entry) ==
  [pool |-> pool, byLoad |-> byLoad, minLoad |-> minLoad, sticky |-> sticky, entry |-> entry]

(* The same, the other way round. *)
LEMMA TableType ==
  ASSUME NEW pool, NEW byLoad \in [0 .. MaxLoad -> SUBSET Workers],
         NEW minLoad \in 0 .. MaxLoad, NEW sticky, NEW entry,
         DOMAIN pool \subseteq Workers, pool \in [DOMAIN pool -> Load],
         DOMAIN sticky \subseteq Sessions, sticky \in [DOMAIN sticky -> Roots],
         DOMAIN entry \subseteq Roots, entry \in [DOMAIN entry -> Entry]
  PROVE  Table(pool, byLoad, minLoad, sticky, entry) \in Tables
<1>1. pool \in Partial(Workers, Load) /\ sticky \in Partial(Sessions, Roots)
      /\ entry \in Partial(Roots, Entry)
  BY PartialType
<1> QED
  BY <1>1 DEF Table, Tables

(* An entry has another count: the same worker and the same names. *)
LEMMA EntryKeeps ==
  ASSUME NEW t, Sound(t), NEW e, e \in DOMAIN t.entry, NEW x \in Entry,
         x.worker = t.entry[e].worker, x.aliases = t.entry[e].aliases,
         NEW u, u = [t EXCEPT !.entry = [t.entry EXCEPT ![e] = x]]
  PROVE  Keeps(t, u)
<1>1. /\ t \in Tables
      /\ DOMAIN t.entry \subseteq Roots /\ t.entry \in [DOMAIN t.entry -> Entry]
  BY Fields DEF Sound
<1> DEFINE entry == [t.entry EXCEPT ![e] = x]
<1>2. /\ DOMAIN entry = DOMAIN t.entry /\ entry \in [DOMAIN entry -> Entry]
      /\ DOMAIN entry \subseteq Roots
  BY <1>1
<1>3. \A d \in DOMAIN entry : /\ entry[d].worker = t.entry[d].worker
                              /\ entry[d].aliases = t.entry[d].aliases
  BY <1>1
<1>4. u = Table(t.pool, t.byLoad, t.minLoad, t.sticky, entry)
  BY <1>1 DEF Tables, Table
<1> HIDE DEF entry
<1>5. /\ u.entry = entry /\ u.pool = t.pool /\ u.sticky = t.sticky
      /\ u.byLoad = t.byLoad /\ u.minLoad = t.minLoad
  BY <1>4 DEF Table
<1>6. u \in Tables
  BY <1>1, <1>2, <1>4, Fields, TableType
<1>7. Owning(u)
  BY <1>2, <1>3, <1>5 DEF Owning, Sound
<1>8. Naming(u)
  BY <1>2, <1>3, <1>5 DEF Naming, Sound
<1> QED
  BY <1>5, <1>6, <1>7, <1>8 DEF Keeps, Sound, SameLoads

(* A worker counts one entry less. *)
OneLess(p, e) == [p EXCEPT !.active = @ - 1, !.owned = @ \ {e}]

(* It still counts what it owns. *)
LEMMA LessOne ==
  ASSUME NEW p \in Load, p.active = Cardinality(p.owned), NEW e, e \in p.owned
  PROVE  /\ OneLess(p, e) \in Load
         /\ OneLess(p, e).active = Cardinality(OneLess(p, e).owned)
         /\ OneLess(p, e).owned = p.owned \ {e}
         /\ OneLess(p, e).load = p.load /\ OneLess(p, e).credits = p.credits
<1>0. PICK q : q = OneLess(p, e)
  OBVIOUS
<1>1. IsFiniteSet(p.owned)
  BY FS_Subset, StickyRouterAssumption DEF Load, Roots
<1>2. q = [load |-> p.load, active |-> p.active - 1, owned |-> p.owned \ {e},
            credits |-> p.credits]
  BY <1>0 DEF Load, OneLess
<1>3. q \in Load /\ q.active = p.active - 1 /\ q.owned = p.owned \ {e}
      /\ q.load = p.load /\ q.credits = p.credits
  BY <1>2 DEF Load
<1> QED
  BY <1>0, <1>1, <1>3, FS_RemoveElement

(* The names and the entries that are left without the entry e. *)
Lacks(t, e, sticky, entry) ==
  /\ DOMAIN sticky = {k \in DOMAIN t.sticky : t.sticky[k] # e}
  /\ sticky \in [DOMAIN sticky -> Roots]
  /\ \A k \in DOMAIN sticky : sticky[k] = t.sticky[k]
  /\ DOMAIN entry = DOMAIN t.entry \ {e}
  /\ entry \in [DOMAIN entry -> Entry]
  /\ \A d \in DOMAIN entry : entry[d] = t.entry[d]

(* The entry e goes, with every name it has. *)
LEMMA DropKeeps ==
  ASSUME NEW t, Sound(t), NEW e, e \in DOMAIN t.entry, NEW w, w = t.entry[e].worker,
         NEW q, q = OneLess(t.pool[w], e),
         NEW pool, pool = [t.pool EXCEPT ![w] = q],
         NEW sticky, NEW entry, Lacks(t, e, sticky, entry),
         NEW u, u = Table(pool, t.byLoad, t.minLoad, sticky, entry)
  PROVE  Keeps(t, u)
<1>1. /\ t \in Tables
      /\ DOMAIN t.pool \subseteq Workers /\ t.pool \in [DOMAIN t.pool -> Load]
      /\ DOMAIN t.sticky \subseteq Sessions /\ t.sticky \in [DOMAIN t.sticky -> Roots]
      /\ DOMAIN t.entry \subseteq Roots /\ t.entry \in [DOMAIN t.entry -> Entry]
      /\ t.byLoad \in [0 .. MaxLoad -> SUBSET Workers] /\ t.minLoad \in 0 .. MaxLoad
      /\ Owning(t) /\ Naming(t)
  BY Fields DEF Sound
<1>2. /\ w \in DOMAIN t.pool /\ e \in Roots /\ t.pool[w] \in Load /\ e \in t.pool[w].owned
      /\ t.pool[w].active = Cardinality(t.pool[w].owned)
  BY <1>1 DEF Owning
<1>3. /\ q \in Load /\ q.active = Cardinality(q.owned) /\ q.owned = t.pool[w].owned \ {e}
      /\ q.load = t.pool[w].load /\ q.credits = t.pool[w].credits
  BY <1>2, LessOne
<1>4. /\ DOMAIN pool = DOMAIN t.pool /\ pool \in [DOMAIN pool -> Load]
      /\ DOMAIN pool \subseteq Workers
      /\ \A v \in DOMAIN pool : pool[v] = IF v = w THEN q ELSE t.pool[v]
  BY <1>1, <1>2, <1>3
<1>5. /\ DOMAIN entry \subseteq Roots /\ entry \in [DOMAIN entry -> Entry]
      /\ DOMAIN sticky \subseteq Sessions /\ sticky \in [DOMAIN sticky -> Roots]
  BY <1>1 DEF Lacks
<1>6. u \in Tables
  BY <1>1, <1>4, <1>5, TableType
<1>7. /\ u.entry = entry /\ u.pool = pool /\ u.sticky = sticky
      /\ u.byLoad = t.byLoad /\ u.minLoad = t.minLoad
  BY DEF Table
<1>8. /\ \A d : d \in DOMAIN u.entry <=> d \in DOMAIN t.entry /\ d # e
      /\ \A d \in DOMAIN u.entry : u.entry[d] = t.entry[d]
      /\ \A k : k \in DOMAIN u.sticky <=> k \in DOMAIN t.sticky /\ t.sticky[k] # e
      /\ \A k \in DOMAIN u.sticky : u.sticky[k] = t.sticky[k]
  BY ONLY Lacks(t, e, sticky, entry), <1>7 DEF Lacks
<1>9. Owning(u)
  <2>1. ASSUME NEW d, d \in DOMAIN u.entry PROVE u.entry[d].worker \in DOMAIN u.pool
    <3>1. d \in DOMAIN t.entry /\ u.entry[d] = t.entry[d]
      BY ONLY <1>8, <2>1
    <3>2. t.entry[d].worker \in DOMAIN t.pool
      BY <1>1, <3>1 DEF Owning
    <3> QED BY <1>4, <1>7, <3>1, <3>2
  <2>2. ASSUME NEW v, v \in DOMAIN u.pool
        PROVE  /\ \A d \in Roots :
                    d \in u.pool[v].owned <=> d \in DOMAIN u.entry /\ u.entry[d].worker = v
               /\ u.pool[v].active = Cardinality(u.pool[v].owned)
    <3>1. v \in DOMAIN t.pool /\ u.pool[v] = IF v = w THEN q ELSE t.pool[v]
      BY <1>4, <1>7, <2>2
    <3>2. (\A d \in Roots :
                d \in t.pool[v].owned <=> d \in DOMAIN t.entry /\ t.entry[d].worker = v)
          /\ t.pool[v].active = Cardinality(t.pool[v].owned)
      BY <1>1, <3>1 DEF Owning
    <3>3. u.pool[v].active = Cardinality(u.pool[v].owned)
      BY <1>3, <3>1, <3>2
    <3>4. \A d \in Roots : d \in DOMAIN u.entry /\ u.entry[d].worker = v
                             <=> d # e /\ d \in DOMAIN t.entry /\ t.entry[d].worker = v
      BY ONLY <1>8
    <3>5. \A d \in Roots : d \in u.pool[v].owned <=> d # e /\ d \in t.pool[v].owned
      BY <1>2, <1>3, <3>1, <3>2
    <3> QED BY <3>2, <3>3, <3>4, <3>5
  <2> QED BY <2>1, <2>2 DEF Owning
<1>10. Naming(u)
  <2>1. ASSUME NEW k, k \in DOMAIN u.sticky PROVE u.sticky[k] \in DOMAIN u.entry
    <3>1. k \in DOMAIN t.sticky /\ u.sticky[k] = t.sticky[k] /\ t.sticky[k] # e
      BY ONLY <1>8, <2>1
    <3>2. t.sticky[k] \in DOMAIN t.entry
      BY ONLY <1>1, <3>1 DEF Naming
    <3> QED BY ONLY <1>8, <3>1, <3>2
  <2>2. ASSUME NEW d, d \in DOMAIN u.entry, NEW k \in Sessions
        PROVE  k \in DOMAIN u.sticky /\ u.sticky[k] = d <=> k = d \/ k \in u.entry[d].aliases
    <3>1. d # e /\ d \in DOMAIN t.entry /\ u.entry[d] = t.entry[d]
      BY ONLY <1>8, <2>2
    <3>2. k \in DOMAIN t.sticky /\ t.sticky[k] = d <=> k = d \/ k \in t.entry[d].aliases
      BY <1>1, <3>1 DEF Naming
    <3>3. k \in DOMAIN u.sticky /\ u.sticky[k] = d <=> k \in DOMAIN t.sticky /\ t.sticky[k] = d
      BY ONLY <1>8, <3>1
    <3> QED BY <3>1, <3>2, <3>3
  <2> QED BY <2>1, <2>2 DEF Naming
<1> QED
  BY <1>3, <1>4, <1>6, <1>7, <1>9, <1>10 DEF Keeps, Sound, SameLoads

(* _pop_entry and the count of the worker. *)
LEMMA EvictKeeps ==
  ASSUME NEW t, Sound(t), NEW key, key \in DOMAIN t.sticky
  PROVE  Keeps(t, Evict(t, key))
<1>0. /\ t \in Tables
      /\ DOMAIN t.pool \subseteq Workers /\ t.pool \in [DOMAIN t.pool -> Load]
      /\ DOMAIN t.sticky \subseteq Sessions /\ t.sticky \in [DOMAIN t.sticky -> Roots]
      /\ DOMAIN t.entry \subseteq Roots /\ t.entry \in [DOMAIN t.entry -> Entry]
      /\ Owning(t) /\ Naming(t)
  BY Fields DEF Sound
<1>1. PICK e : e = t.sticky[key] /\ e \in DOMAIN t.entry
  BY <1>0 DEF Naming
<1>2. PICK w : w = t.entry[e].worker /\ w \in DOMAIN t.pool
  BY <1>0, <1>1 DEF Owning
<1> DEFINE names == {k \in {e} \cup t.entry[e].aliases : k \in DOMAIN t.sticky /\ t.sticky[k] = e}
           sticky == Without(t.sticky, {key} \cup names)
           entry == Without(t.entry, {e})
           q == OneLess(t.pool[w], e)
           pool == [t.pool EXCEPT ![w] = q]
<1>3. t.pool[w] \in Load
  BY <1>0, <1>2
<1>4. PICK m : m = PopEntry(t, key)
  OBVIOUS
<1>5. m = Table(t.pool, t.byLoad, t.minLoad, sticky, entry)
  BY <1>0, <1>1, <1>4 DEF PopEntry, Table, Tables
<1>6. PICK u : u = Evict(t, key)
  OBVIOUS
<1>7. u = Table(pool, t.byLoad, t.minLoad, sticky, entry)
  <2>1. u = [m EXCEPT !.pool[w].active = @ - 1, !.pool[w].owned = @ \ {e}]
    BY <1>1, <1>2, <1>4, <1>6 DEF Evict
  <2> HIDE DEF sticky, entry
  <2>2. PICK p : p = [t.pool EXCEPT ![w].active = @ - 1, ![w].owned = @ \ {e}]
    OBVIOUS
  <2>3. u = Table(p, t.byLoad, t.minLoad, sticky, entry)
    BY <1>5, <2>1, <2>2 DEF Table
  <2>4. p = pool
    BY <1>0, <1>2, <1>3, <2>2 DEF Load, OneLess
  <2> QED BY <2>3, <2>4
<1>8. /\ DOMAIN sticky = {k \in DOMAIN t.sticky : t.sticky[k] # e}
      /\ sticky \in [DOMAIN sticky -> Roots]
      /\ \A k \in DOMAIN sticky : sticky[k] = t.sticky[k]
  BY <1>0, <1>1 DEF Without, Restrict, Naming
<1>10. /\ DOMAIN entry = DOMAIN t.entry \ {e} /\ entry \in [DOMAIN entry -> Entry]
       /\ \A d \in DOMAIN entry : entry[d] = t.entry[d]
  BY <1>0 DEF Without, Restrict
<1> HIDE DEF sticky, entry, q, pool
<1>9. Keeps(t, u)
  <2>1. Lacks(t, e, sticky, entry)
    BY ONLY <1>8, <1>10 DEF Lacks
  <2> QED BY ONLY Sound(t), <1>1, <1>2, <1>7, <2>1, DropKeeps DEF q, pool
<1> QED BY <1>6, <1>9

(* Nothing happens. *)
LEMMA KeepsSelf ==
  ASSUME NEW t, Sound(t)
  PROVE  Keeps(t, t)
BY DEF Keeps, SameLoads

(* One thing happens after another. *)
LEMMA KeepsBoth ==
  ASSUME NEW t, NEW m, NEW u, Keeps(t, m), Keeps(m, u)
  PROVE  Keeps(t, u)
<1>1. SameLoads(t, u)
  BY DEF Keeps, SameLoads
<1> QED BY <1>1 DEF Keeps

(* A session that made its own entry finds that one. *)
LEMMA RootsOwn ==
  ASSUME NEW t, Sound(t), NEW s \in Roots, s \in DOMAIN t.sticky
  PROVE  s \in DOMAIN t.entry /\ t.sticky[s] = s
<1>1. t \in Tables /\ t.entry \in [DOMAIN t.entry -> Entry] /\ s \in Sessions
  BY Fields DEF Sound
<1>2. PICK e : e = t.sticky[s] /\ e \in DOMAIN t.entry
  BY DEF Sound, Naming
<1>3. t.entry[e].aliases \in SUBSET (Sessions \ Roots)
  BY <1>1, <1>2 DEF Entry
<1>4. s = e \/ s \in t.entry[e].aliases
  BY <1>1, <1>2 DEF Sound, Naming
<1> QED BY <1>2, <1>3, <1>4

(* A count, or the mark that the last turn was seen, is all that changes.  *)
Count(t, e, n, final) == [t EXCEPT !.entry[e] = [@ EXCEPT !.refs = n, !.final = final]]

(* That is in order, whatever the count is. *)
LEMMA CountKeeps ==
  ASSUME NEW t, Sound(t), NEW e, e \in DOMAIN t.entry, NEW n \in Int, NEW final \in BOOLEAN,
         NEW u, u = Count(t, e, n, final)
  PROVE  /\ Keeps(t, u)
         /\ u.sticky = t.sticky /\ DOMAIN u.entry = DOMAIN t.entry
         /\ u.entry[e].refs = n /\ u.entry[e].final = final
<1>1. t \in Tables /\ t.entry \in [DOMAIN t.entry -> Entry]
  BY Fields DEF Sound
<1>2. PICK p : p = t.entry[e]
  OBVIOUS
<1>3. PICK x : x = [p EXCEPT !.refs = n, !.final = final]
  OBVIOUS
<1>4. p \in Entry
  BY <1>1, <1>2
<1>5. x = [worker |-> p.worker, refs |-> n, final |-> final, aliases |-> p.aliases]
  BY <1>3, <1>4 DEF Entry
<1>6. x \in Entry /\ x.worker = p.worker /\ x.aliases = p.aliases
      /\ x.refs = n /\ x.final = final
  BY <1>4, <1>5 DEF Entry
<1>7. u = [t EXCEPT !.entry = [t.entry EXCEPT ![e] = x]]
  BY <1>1, <1>2, <1>3 DEF Tables, Count
<1>8. Keeps(t, u)
  BY <1>2, <1>6, <1>7, EntryKeeps
<1>9. u.sticky = t.sticky /\ u.entry = [t.entry EXCEPT ![e] = x]
  BY <1>1, <1>7 DEF Tables
<1> QED
  BY <1>1, <1>6, <1>8, <1>9

(* send_credit, for the final turn of the session that owns the entry. *)
LEMMA SendFinalKeeps ==
  ASSUME NEW t, Sound(t), NEW s \in Roots, NEW hasForks
  PROVE  Keeps(t, SendFinal(t, s, hasForks))
<1>1. CASE s \notin DOMAIN t.sticky
  BY <1>1, KeepsSelf DEF SendFinal
<1>2. CASE s \in DOMAIN t.sticky
  <2>1. s \in DOMAIN t.entry /\ t.sticky[s] = s
    BY <1>2, RootsOwn
  <2>2. t \in Tables /\ t.entry \in [DOMAIN t.entry -> Entry]
    BY Fields DEF Sound
  <2>3. t.entry[s] \in Entry /\ t.entry[s].refs - 1 \in Int
    BY <2>1, <2>2 DEF Entry
  <2>4. PICK m : m = [t EXCEPT !.entry[s].refs = @ - 1, !.entry[s].final = TRUE]
    OBVIOUS
  <2>5. m = Count(t, s, t.entry[s].refs - 1, TRUE)
    BY <2>1, <2>2, <2>3, <2>4 DEF Tables, Entry, Count
  <2>6. Keeps(t, m) /\ s \in DOMAIN m.sticky
    <3>1. PICK n \in Int, final \in BOOLEAN : n = t.entry[s].refs - 1 /\ final = TRUE
      BY <2>3
    <3>2. m = Count(t, s, n, final)
      BY <2>5, <3>1
    <3> QED BY ONLY Sound(t), <1>2, <2>1, <3>2, CountKeeps
  <2>7. Keeps(t, Evict(m, s))
    <3>1. Keeps(m, Evict(m, s))
      BY <2>6, EvictKeeps DEF Keeps
    <3> QED BY ONLY <2>6, <3>1, KeepsBoth
  <2> QED BY <1>2, <2>4, <2>6, <2>7 DEF SendFinal
<1> QED BY <1>1, <1>2

(* The release of a child, or of several: the last of them evicts. *)
LEMMA ReleaseKeeps ==
  ASSUME NEW t, Sound(t), NEW p, p \in DOMAIN t.sticky, NEW n \in Int,
         NEW m, m = [t EXCEPT !.entry[t.sticky[p]].refs = @ - n]
  PROVE  Keeps(t, m) /\ Keeps(t, Evict(m, p))
<1>1. PICK e : e = t.sticky[p] /\ e \in DOMAIN t.entry
  BY DEF Sound, Naming
<1>2. t \in Tables /\ t.entry \in [DOMAIN t.entry -> Entry]
  BY Fields DEF Sound
<1>3. t.entry[e] \in Entry /\ t.entry[e].refs - n \in Int /\ t.entry[e].final \in BOOLEAN
  BY <1>1, <1>2 DEF Entry
<1>4. m = Count(t, e, t.entry[e].refs - n, t.entry[e].final)
  BY <1>1, <1>2, <1>3 DEF Tables, Entry, Count
<1>5. Keeps(t, m) /\ p \in DOMAIN m.sticky
  <2>1. PICK c \in Int, final \in BOOLEAN : c = t.entry[e].refs - n /\ final = t.entry[e].final
    BY <1>3
  <2>2. m = Count(t, e, c, final)
    BY <1>4, <2>1
  <2>3. Keeps(t, m) /\ m.sticky = t.sticky
    BY ONLY Sound(t), <1>1, <2>2, CountKeeps
  <2> QED BY <2>3
<1>6. Keeps(t, Evict(m, p))
  <2>1. Keeps(m, Evict(m, p))
    BY <1>5, EvictKeeps DEF Keeps
  <2> QED BY ONLY <1>5, <2>1, KeepsBoth
<1> QED BY <1>5, <1>6

(* release_child_routing *)
LEMMA ReleaseOneKeeps ==
  ASSUME NEW t, Sound(t), NEW p
  PROVE  Keeps(t, ReleaseChild(t, p))
<1>1. CASE p \notin DOMAIN t.sticky
  BY <1>1, KeepsSelf DEF ReleaseChild
<1>2. CASE p \in DOMAIN t.sticky
  <2>1. PICK m : m = [t EXCEPT !.entry[t.sticky[p]].refs = @ - 1]
    OBVIOUS
  <2>2. Keeps(t, m) /\ Keeps(t, Evict(m, p))
    BY <1>2, <2>1, ReleaseKeeps
  <2> QED BY <1>2, <2>1, <2>2 DEF ReleaseChild
<1> QED BY <1>1, <1>2

(* release_child_routing, for children that may not send. *)
LEMMA ReleaseChildrenKeeps ==
  ASSUME NEW t, Sound(t), NEW p, NEW C, IsFiniteSet(C)
  PROVE  Keeps(t, ReleaseChildren(t, p, C))
<1>1. CASE C = {} \/ p \notin DOMAIN t.sticky
  BY <1>1, KeepsSelf DEF ReleaseChildren
<1>2. CASE C # {} /\ p \in DOMAIN t.sticky
  <2>1. PICK m : m = [t EXCEPT !.entry[t.sticky[p]].refs = @ - Cardinality(C)]
    OBVIOUS
  <2>2. Cardinality(C) \in Int
    BY FS_CardinalityType
  <2>3. Keeps(t, m) /\ Keeps(t, Evict(m, p))
    BY <1>2, <2>1, <2>2, ReleaseKeeps
  <2> QED BY <1>2, <2>1, <2>3 DEF ReleaseChildren
<1> QED BY <1>1, <1>2

(* evict_unclaimed_sticky *)
LEMMA EvictUnclaimedKeeps ==
  ASSUME NEW t, Sound(t), NEW p
  PROVE  Keeps(t, EvictUnclaimed(t, p))
BY EvictKeeps, KeepsSelf DEF EvictUnclaimed

(* register_child_routing: the new names are names of the parent's entry.  *)
LEMMA RegisterKeeps ==
  ASSUME NEW t, Sound(t), NEW p, NEW C, C \subseteq Sessions \ Roots
  PROVE  Keeps(t, RegisterChildren(t, p, C))
<1>1. CASE p \notin DOMAIN t.sticky
  BY <1>1, KeepsSelf DEF RegisterChildren
<1>2. CASE p \in DOMAIN t.sticky
  <2>1. PICK e : e = t.sticky[p] /\ e \in DOMAIN t.entry
    BY <1>2 DEF Sound, Naming
  <2>2. /\ t \in Tables
        /\ DOMAIN t.pool \subseteq Workers /\ t.pool \in [DOMAIN t.pool -> Load]
        /\ DOMAIN t.sticky \subseteq Sessions /\ t.sticky \in [DOMAIN t.sticky -> Roots]
        /\ DOMAIN t.entry \subseteq Roots /\ t.entry \in [DOMAIN t.entry -> Entry]
        /\ t.byLoad \in [0 .. MaxLoad -> SUBSET Workers] /\ t.minLoad \in 0 .. MaxLoad
        /\ Roots \subseteq Sessions
    BY Fields DEF Sound
  <2>3. PICK a : a = t.entry[e]
    OBVIOUS
  <2>4. a \in Entry /\ a.refs \in Int /\ a.aliases \in SUBSET (Sessions \ Roots)
    BY <2>1, <2>2, <2>3 DEF Entry
  <2>5. IsFiniteSet(C) /\ Cardinality(C) \in Int
    BY FS_Subset, FS_CardinalityType, StickyRouterAssumption
  <2>6. PICK x : x = [a EXCEPT !.refs = @ + Cardinality(C),
                               !.aliases = @ \cup (C \ DOMAIN t.sticky)]
    OBVIOUS
  <2>7. x = [worker |-> a.worker, refs |-> a.refs + Cardinality(C), final |-> a.final,
             aliases |-> a.aliases \cup (C \ DOMAIN t.sticky)]
    BY <2>4, <2>6 DEF Entry
  <2>8. /\ x \in Entry /\ x.worker = a.worker
        /\ x.aliases = a.aliases \cup (C \ DOMAIN t.sticky)
    <3>1. a.refs + Cardinality(C) \in Int
          /\ a.aliases \cup (C \ DOMAIN t.sticky) \in SUBSET (Sessions \ Roots)
      BY <2>4, <2>5
    <3>2. a.worker \in Workers /\ a.final \in BOOLEAN
      BY <2>4 DEF Entry
    <3> QED BY <2>7, <3>1, <3>2 DEF Entry
  <2>9. PICK sticky : sticky = [k \in DOMAIN t.sticky \cup C |->
                                  IF k \in DOMAIN t.sticky THEN t.sticky[k] ELSE e]
    OBVIOUS
  <2>10. /\ DOMAIN sticky = DOMAIN t.sticky \cup C /\ DOMAIN sticky \subseteq Sessions
         /\ sticky \in [DOMAIN sticky -> Roots]
         /\ \A k \in DOMAIN sticky :
              sticky[k] = IF k \in DOMAIN t.sticky THEN t.sticky[k] ELSE e
    BY <2>1, <2>2, <2>9
  <2>11. PICK entry : entry = [t.entry EXCEPT ![e] = x]
    OBVIOUS
  <2>12. /\ DOMAIN entry = DOMAIN t.entry /\ DOMAIN entry \subseteq Roots
         /\ entry \in [DOMAIN entry -> Entry]
         /\ \A d \in DOMAIN entry : entry[d] = IF d = e THEN x ELSE t.entry[d]
    BY <2>1, <2>2, <2>8, <2>11
  <2>13. PICK u : u = RegisterChildren(t, p, C)
    OBVIOUS
  <2>14. u = Table(t.pool, t.byLoad, t.minLoad, sticky, entry)
    <3>1. u = [t EXCEPT !.entry[e].refs = @ + Cardinality(C),
                        !.entry[e].aliases = @ \cup (C \ DOMAIN t.sticky),
                        !.sticky = sticky]
      BY <1>2, <2>1, <2>9, <2>13 DEF RegisterChildren
    <3>2. PICK f : f = [t.entry EXCEPT ![e].refs = @ + Cardinality(C),
                                       ![e].aliases = @ \cup (C \ DOMAIN t.sticky)]
      OBVIOUS
    <3>3. u = Table(t.pool, t.byLoad, t.minLoad, sticky, f)
      BY <2>2, <3>1, <3>2 DEF Tables, Table
    <3>4. f = entry
      BY <2>1, <2>2, <2>3, <2>4, <2>6, <2>11, <3>2 DEF Entry
    <3> QED BY <3>3, <3>4
  <2>15. u \in Tables
    BY <2>2, <2>10, <2>12, <2>14, TableType
  <2>16. /\ u.entry = entry /\ u.pool = t.pool /\ u.sticky = sticky
         /\ u.byLoad = t.byLoad /\ u.minLoad = t.minLoad
    BY <2>14 DEF Table
  <2>17. \A d \in DOMAIN entry : entry[d].worker = t.entry[d].worker
    BY <2>3, <2>8, <2>12
  <2>18. Owning(u)
    BY <2>12, <2>16, <2>17 DEF Sound, Owning
  <2>19. Naming(u)
    <3>1. ASSUME NEW k, k \in DOMAIN u.sticky PROVE u.sticky[k] \in DOMAIN u.entry
      BY <2>1, <2>10, <2>12, <2>16, <3>1 DEF Sound, Naming
    <3>2. ASSUME NEW d, d \in DOMAIN u.entry, NEW k \in Sessions
          PROVE  k \in DOMAIN u.sticky /\ u.sticky[k] = d <=> k = d \/ k \in u.entry[d].aliases
      <4>1. d \in DOMAIN t.entry
            /\ (k \in DOMAIN t.sticky /\ t.sticky[k] = d <=> k = d \/ k \in t.entry[d].aliases)
        BY <2>12, <2>16, <3>2 DEF Sound, Naming
      <4>2. d = e => u.entry[d].aliases = t.entry[d].aliases \cup (C \ DOMAIN t.sticky)
        BY <2>3, <2>8, <2>12, <2>16, <3>2
      <4>3. d # e => u.entry[d].aliases = t.entry[d].aliases
        BY <2>12, <2>16, <3>2
      <4>4. k \in DOMAIN u.sticky /\ u.sticky[k] = d
              <=> \/ k \in DOMAIN t.sticky /\ t.sticky[k] = d
                  \/ d = e /\ k \in C \ DOMAIN t.sticky
        BY <2>10, <2>16
      <4> QED BY <4>1, <4>2, <4>3, <4>4
    <3> QED BY <3>1, <3>2 DEF Naming
  <2>20. Keeps(t, u)
    BY <2>15, <2>16, <2>18, <2>19 DEF Keeps, Sound, SameLoads
  <2> QED BY <2>13, <2>20
<1> QED BY <1>1, <1>2

(* A worker counts one entry more. *)
OneMore(p, e) == [p EXCEPT !.active = @ + 1, !.owned = @ \cup {e}]

(* It still counts what it owns. *)
LEMMA MoreOne ==
  ASSUME NEW p \in Load, p.active = Cardinality(p.owned), NEW e \in Roots, e \notin p.owned,
         NEW q, q = OneMore(p, e)
  PROVE  /\ q \in Load /\ q.active = Cardinality(q.owned) /\ q.owned = p.owned \cup {e}
         /\ q.load = p.load /\ q.credits = p.credits
<1>1. IsFiniteSet(p.owned)
  BY FS_Subset, StickyRouterAssumption DEF Load, Roots
<1>2. q = [load |-> p.load, active |-> p.active + 1, owned |-> p.owned \cup {e},
            credits |-> p.credits]
  BY DEF Load, OneMore
<1>3. p.owned \cup {e} \in SUBSET Roots /\ p.active + 1 \in Int
  BY DEF Load
<1>4. q \in Load /\ q.active = p.active + 1 /\ q.owned = p.owned \cup {e}
      /\ q.load = p.load /\ q.credits = p.credits
  BY <1>2, <1>3 DEF Load
<1> QED
  BY <1>1, <1>4, FS_AddElement

(* send_credit pins a root that has no entry; a child never makes one.     *)
LEMMA PinKeeps ==
  ASSUME NEW t, Sound(t), NEW key, ~Pinned(t, key), NEW w, w \in DOMAIN t.pool,
         NEW isChild \in BOOLEAN, ~isChild => key \in Roots
  PROVE  Keeps(t, Pin(t, key, w, isChild))
<1>1. key \notin DOMAIN t.sticky
  BY DEF Pinned, Sound, Naming, Owning
<1>2. CASE isChild
  BY <1>1, <1>2, KeepsSelf DEF Pin
<1>3. CASE ~isChild
  <2>1. /\ t \in Tables
        /\ DOMAIN t.pool \subseteq Workers /\ t.pool \in [DOMAIN t.pool -> Load]
        /\ DOMAIN t.sticky \subseteq Sessions /\ t.sticky \in [DOMAIN t.sticky -> Roots]
        /\ DOMAIN t.entry \subseteq Roots /\ t.entry \in [DOMAIN t.entry -> Entry]
        /\ t.byLoad \in [0 .. MaxLoad -> SUBSET Workers] /\ t.minLoad \in 0 .. MaxLoad
        /\ Roots \subseteq Sessions /\ key \in Roots /\ key \in Sessions
    BY <1>3, Fields DEF Sound
  <2>2. key \notin DOMAIN t.entry
    BY <1>1, <2>1 DEF Sound, Naming
  <2>3. PICK p : p = t.pool[w]
    OBVIOUS
  <2>4. p \in Load /\ p.active = Cardinality(p.owned) /\ key \notin p.owned
    BY <2>1, <2>2, <2>3 DEF Sound, Owning
  <2>5. PICK q : q = OneMore(p, key)
    OBVIOUS
  <2>6. /\ q \in Load /\ q.active = Cardinality(q.owned) /\ q.owned = p.owned \cup {key}
        /\ q.load = p.load /\ q.credits = p.credits
    BY <2>1, <2>4, <2>5, MoreOne
  <2>7. PICK pool : pool = [t.pool EXCEPT ![w] = q]
    OBVIOUS
  <2>8. /\ DOMAIN pool = DOMAIN t.pool /\ DOMAIN pool \subseteq Workers
        /\ pool \in [DOMAIN pool -> Load]
        /\ \A v \in DOMAIN pool : pool[v] = IF v = w THEN q ELSE t.pool[v]
    BY <2>1, <2>6, <2>7
  <2>9. PICK x : x = [worker |-> w, refs |-> 1, final |-> FALSE, aliases |-> {}]
    OBVIOUS
  <2>10. x \in Entry /\ x.worker = w /\ x.aliases = {}
    BY <2>1, <2>9 DEF Entry
  <2>11. PICK sticky, entry : sticky = With(t.sticky, key, key) /\ entry = With(t.entry, key, x)
    OBVIOUS
  <2>12. /\ DOMAIN sticky = DOMAIN t.sticky \cup {key} /\ DOMAIN sticky \subseteq Sessions
         /\ sticky \in [DOMAIN sticky -> Roots]
         /\ \A k \in DOMAIN sticky : sticky[k] = IF k = key THEN key ELSE t.sticky[k]
    BY <2>1, <2>11 DEF With
  <2>13. /\ DOMAIN entry = DOMAIN t.entry \cup {key} /\ DOMAIN entry \subseteq Roots
         /\ entry \in [DOMAIN entry -> Entry]
         /\ \A d \in DOMAIN entry : entry[d] = IF d = key THEN x ELSE t.entry[d]
    BY <2>1, <2>10, <2>11 DEF With
  <2>14. PICK u : u = Pin(t, key, w, isChild)
    OBVIOUS
  <2>15. u = Table(pool, t.byLoad, t.minLoad, sticky, entry)
    <3>1. PICK f : f = [t.pool EXCEPT ![w].active = @ + 1, ![w].owned = @ \cup {key}]
      OBVIOUS
    <3>2. u = [[t EXCEPT !.pool[w].active = @ + 1, !.pool[w].owned = @ \cup {key}]
                 EXCEPT !.sticky = sticky, !.entry = entry]
      BY <1>1, <1>3, <2>1, <2>9, <2>11, <2>14 DEF Pin, Tables
    <3>3. u = Table(f, t.byLoad, t.minLoad, sticky, entry)
      BY <2>1, <3>1, <3>2 DEF Tables, Table
    <3>4. f = pool
      BY <2>1, <2>3, <2>4, <2>5, <2>7, <3>1 DEF Load, OneMore
    <3> QED BY <3>3, <3>4
  <2>16. u \in Tables
    BY <2>1, <2>8, <2>12, <2>13, <2>15, TableType
  <2>17. /\ u.entry = entry /\ u.pool = pool /\ u.sticky = sticky
         /\ u.byLoad = t.byLoad /\ u.minLoad = t.minLoad
    BY <2>15 DEF Table
  <2>18. Owning(u)
    <3>1. ASSUME NEW d, d \in DOMAIN u.entry PROVE u.entry[d].worker \in DOMAIN u.pool
      BY <2>8, <2>10, <2>13, <2>17, <3>1 DEF Sound, Owning
    <3>2. ASSUME NEW v, v \in DOMAIN u.pool
          PROVE  /\ \A d \in Roots :
                      d \in u.pool[v].owned <=> d \in DOMAIN u.entry /\ u.entry[d].worker = v
                 /\ u.pool[v].active = Cardinality(u.pool[v].owned)
      <4>1. v \in DOMAIN t.pool /\ u.pool[v] = IF v = w THEN q ELSE t.pool[v]
        BY <2>8, <2>17, <3>2
      <4>2. (\A d \in Roots :
                d \in t.pool[v].owned <=> d \in DOMAIN t.entry /\ t.entry[d].worker = v)
            /\ t.pool[v].active = Cardinality(t.pool[v].owned)
        BY <4>1 DEF Sound, Owning
      <4>3. u.pool[v].active = Cardinality(u.pool[v].owned)
        BY <2>6, <4>1, <4>2
      <4>4. \A d \in Roots : d \in DOMAIN u.entry /\ u.entry[d].worker = v
               <=> (d = key /\ v = w) \/ (d \in DOMAIN t.entry /\ t.entry[d].worker = v)
        BY <2>2, <2>10, <2>13, <2>17
      <4>5. \A d \in Roots :
              d \in u.pool[v].owned <=> (d = key /\ v = w) \/ d \in t.pool[v].owned
        BY <2>3, <2>6, <4>1
      <4> QED BY <4>2, <4>3, <4>4, <4>5
    <3> QED BY <3>1, <3>2 DEF Owning
  <2>19. Naming(u)
    <3>1. ASSUME NEW k, k \in DOMAIN u.sticky PROVE u.sticky[k] \in DOMAIN u.entry
      BY <2>12, <2>13, <2>17, <3>1 DEF Sound, Naming
    <3>2. ASSUME NEW d, d \in DOMAIN u.entry, NEW k \in Sessions
          PROVE  k \in DOMAIN u.sticky /\ u.sticky[k] = d <=> k = d \/ k \in u.entry[d].aliases
      <4>1. CASE d = key
        <5>1. u.entry[d].aliases = {}
          BY <2>10, <2>13, <2>17, <3>2, <4>1
        <5>2. k \in DOMAIN t.sticky => t.sticky[k] # key
          BY <2>2 DEF Sound, Naming
        <5> QED BY <2>12, <2>17, <4>1, <5>1, <5>2
      <4>2. CASE d # key
        <5>1. d \in DOMAIN t.entry /\ u.entry[d] = t.entry[d]
          BY <2>13, <2>17, <3>2, <4>2
        <5>2. k \in DOMAIN t.sticky /\ t.sticky[k] = d <=> k = d \/ k \in t.entry[d].aliases
          BY <5>1 DEF Sound, Naming
        <5>3. k \in DOMAIN u.sticky /\ u.sticky[k] = d
                <=> k \in DOMAIN t.sticky /\ t.sticky[k] = d
          BY <1>1, <2>12, <2>17, <4>2
        <5> QED BY <5>1, <5>2, <5>3
      <4> QED BY <4>1, <4>2
    <3> QED BY <3>1, <3>2 DEF Naming
  <2>20. SameLoads(t, u)
    BY <2>3, <2>6, <2>8, <2>17 DEF SameLoads
  <2>21. Keeps(t, u)
    BY <2>16, <2>18, <2>19, <2>20 DEF Keeps, Sound
  <2> QED BY <2>14, <2>21
<1> QED BY <1>2, <1>3

-----------------------------------------------------------------------------
(* The loads.                                                              *)

(* A load counts the credits; the index and the least load know the loads. *)
Book(t) ==
  /\ \A w \in DOMAIN t.pool : t.pool[w].load = Cardinality(t.pool[w].credits)
  /\ \A l \in 0 .. MaxLoad : t.byLoad[l] = {w \in DOMAIN t.pool : t.pool[w].load = l}
  /\ DOMAIN t.pool # {} => \E w \in DOMAIN t.pool : t.pool[w].load = t.minLoad
  /\ \A w \in DOMAIN t.pool : t.minLoad <= t.pool[w].load

(* What does not touch the loads leaves the books as they are. *)
LEMMA SameBook ==
  ASSUME NEW t, NEW u, Book(t), SameLoads(t, u)
  PROVE  Book(u)
<1>1. /\ u.byLoad = t.byLoad /\ u.minLoad = t.minLoad /\ DOMAIN u.pool = DOMAIN t.pool
      /\ \A w \in DOMAIN t.pool : /\ u.pool[w].load = t.pool[w].load
                                  /\ u.pool[w].credits = t.pool[w].credits
  BY DEF SameLoads
<1>2. \A l \in 0 .. MaxLoad : {w \in DOMAIN u.pool : u.pool[w].load = l}
                               = {w \in DOMAIN t.pool : t.pool[w].load = l}
  BY <1>1
<1> QED BY <1>1, <1>2 DEF Book

(* The sessions are finitely many. *)
LEMMA MaxLoadNat == MaxLoad \in Nat
BY FS_CardinalityType, StickyRouterAssumption DEF MaxLoad

(* No load exceeds the last bucket of the index. *)
LEMMA LoadBound ==
  ASSUME NEW t, Sound(t), Book(t), NEW w, w \in DOMAIN t.pool
  PROVE  /\ t.pool[w] \in Load /\ t.pool[w].load \in 0 .. MaxLoad
         /\ IsFiniteSet(t.pool[w].credits)
         /\ \A s \in Sessions \ t.pool[w].credits : t.pool[w].load + 1 \in 0 .. MaxLoad
<1>1. PICK p : p = t.pool[w]
  OBVIOUS
<1>2. p \in Load /\ p.load = Cardinality(p.credits)
  BY <1>1, Fields DEF Sound, Book
<1>3. p.credits \in SUBSET Sessions /\ IsFiniteSet(Sessions) /\ p.load \in Nat
  BY <1>2, StickyRouterAssumption DEF Load
<1>4. IsFiniteSet(p.credits) /\ p.load <= MaxLoad
  BY <1>2, <1>3, FS_Subset DEF MaxLoad
<1>5. ASSUME NEW s \in Sessions \ p.credits PROVE p.load + 1 <= MaxLoad
  <2>1. Cardinality(p.credits \cup {s}) = p.load + 1
    BY <1>2, <1>4, FS_AddElement
  <2>2. p.credits \cup {s} \in SUBSET Sessions
    BY <1>3
  <2> QED BY <1>3, <2>1, <2>2, FS_Subset DEF MaxLoad
<1> QED BY <1>1, <1>2, <1>3, <1>4, <1>5, MaxLoadNat

(* Another load for the workers leaves their sessions as they are. *)
LEMMA HomesKept ==
  ASSUME NEW t, Sound(t), NEW pool, NEW byLoad \in [0 .. MaxLoad -> SUBSET Workers],
         NEW minLoad \in 0 .. MaxLoad,
         DOMAIN pool = DOMAIN t.pool, pool \in [DOMAIN pool -> Load],
         \A v \in DOMAIN pool : /\ pool[v].owned = t.pool[v].owned
                                /\ pool[v].active = t.pool[v].active,
         NEW u, u = Table(pool, byLoad, minLoad, t.sticky, t.entry)
  PROVE  Sound(u)
<1>1. /\ t \in Tables
      /\ DOMAIN t.pool \subseteq Workers /\ t.pool \in [DOMAIN t.pool -> Load]
      /\ DOMAIN t.sticky \subseteq Sessions /\ t.sticky \in [DOMAIN t.sticky -> Roots]
      /\ DOMAIN t.entry \subseteq Roots /\ t.entry \in [DOMAIN t.entry -> Entry]
      /\ DOMAIN pool \subseteq Workers
  BY Fields DEF Sound
<1>2. u \in Tables
  BY <1>1, TableType
<1>3. u.pool = pool /\ u.sticky = t.sticky /\ u.entry = t.entry
  BY DEF Table
<1>4. Owning(u)
  BY <1>3 DEF Sound, Owning
<1>5. Naming(u)
  BY <1>3 DEF Sound, Naming
<1> QED BY <1>2, <1>4, <1>5 DEF Sound

(* A worker leaves a bucket for another. *)
LEMMA MovedBucket ==
  ASSUME NEW b \in [0 .. MaxLoad -> SUBSET Workers], NEW w \in Workers,
         NEW i \in 0 .. MaxLoad, NEW j \in 0 .. MaxLoad, i # j
  PROVE  /\ Moved(b, w, i, j) \in [0 .. MaxLoad -> SUBSET Workers]
         /\ \A l \in 0 .. MaxLoad : \A v :
              v \in Moved(b, w, i, j)[l] <=> IF v = w THEN l = j \/ (l # i /\ v \in b[l])
                                                     ELSE v \in b[l]
<1>1. PICK a : a = [b EXCEPT ![i] = @ \ {w}]
  OBVIOUS
<1>2. /\ a \in [0 .. MaxLoad -> SUBSET Workers]
      /\ \A l \in 0 .. MaxLoad : a[l] = IF l = i THEN b[l] \ {w} ELSE b[l]
  BY <1>1
<1>3. PICK c : c = [a EXCEPT ![j] = @ \cup {w}]
  OBVIOUS
<1>4. /\ c \in [0 .. MaxLoad -> SUBSET Workers]
      /\ \A l \in 0 .. MaxLoad : c[l] = IF l = j THEN a[l] \cup {w} ELSE a[l]
  BY <1>2, <1>3
<1>5. Moved(b, w, i, j) = c
  BY <1>1, <1>3 DEF Moved
<1> QED BY <1>2, <1>4, <1>5

(* _track_credit_sent *)
LEMMA TrackSentKeeps ==
  ASSUME NEW t, Sound(t), Book(t), NEW w, w \in DOMAIN t.pool,
         NEW s \in Sessions, s \notin t.pool[w].credits,
         NEW u, u = TrackSent(t, w, s)
  PROVE  /\ Sound(u) /\ Book(u) /\ DOMAIN u.pool = DOMAIN t.pool
         /\ \A v \in DOMAIN t.pool :
              u.pool[v].credits = t.pool[v].credits \cup (IF v = w THEN {s} ELSE {})
<1>1. /\ t \in Tables
      /\ DOMAIN t.pool \subseteq Workers /\ t.pool \in [DOMAIN t.pool -> Load]
      /\ t.byLoad \in [0 .. MaxLoad -> SUBSET Workers] /\ t.minLoad \in 0 .. MaxLoad
  BY Fields DEF Sound
<1>2. PICK p, old : p = t.pool[w] /\ old = p.load
  OBVIOUS
<1>3. /\ p \in Load /\ old \in 0 .. MaxLoad /\ old + 1 \in 0 .. MaxLoad
      /\ old = Cardinality(p.credits) /\ IsFiniteSet(p.credits)
      /\ w \in Workers
  BY <1>1, <1>2, LoadBound DEF Book
<1>4. PICK q : q = [p EXCEPT !.load = old + 1, !.credits = @ \cup {s}]
  OBVIOUS
<1>5. q = [load |-> old + 1, active |-> p.active, owned |-> p.owned,
           credits |-> p.credits \cup {s}]
  BY <1>3, <1>4 DEF Load
<1>6. /\ q \in Load /\ q.active = p.active /\ q.owned = p.owned /\ q.load = old + 1
      /\ q.credits = p.credits \cup {s}
  <2>1. p.credits \cup {s} \in SUBSET Sessions /\ old + 1 \in Nat
    BY <1>3 DEF Load
  <2>2. p.active \in Int /\ p.owned \in SUBSET Roots
    BY <1>3 DEF Load
  <2> QED BY <1>5, <2>1, <2>2 DEF Load
<1>7. q.load = Cardinality(q.credits)
  BY <1>2, <1>3, <1>6, FS_AddElement
<1>8. PICK pool : pool = [t.pool EXCEPT ![w] = q]
  OBVIOUS
<1>9. /\ DOMAIN pool = DOMAIN t.pool /\ pool \in [DOMAIN pool -> Load]
      /\ \A v \in DOMAIN pool : pool[v] = IF v = w THEN q ELSE t.pool[v]
  BY <1>1, <1>6, <1>8
<1>10. PICK b : b = Moved(t.byLoad, w, old, old + 1)
  OBVIOUS
<1>11. /\ b \in [0 .. MaxLoad -> SUBSET Workers]
       /\ \A l \in 0 .. MaxLoad : \A v :
            v \in b[l] <=> IF v = w THEN l = old + 1 \/ (l # old /\ v \in t.byLoad[l])
                                    ELSE v \in t.byLoad[l]
  <2>1. old # old + 1
    BY <1>3
  <2> QED BY ONLY <1>1, <1>3, <1>10, <2>1, MovedBucket
<1>12. PICK least : least = IF old = t.minLoad /\ b[old] = {} THEN old + 1 ELSE t.minLoad
  OBVIOUS
<1>13. least \in 0 .. MaxLoad
  BY <1>1, <1>3, <1>12
<1>14. u = Table(pool, b, least, t.sticky, t.entry)
  <2>1. u = [t EXCEPT !.pool[w].load = old + 1, !.pool[w].credits = @ \cup {s},
                      !.byLoad = b, !.minLoad = least]
    BY <1>1, <1>2, <1>10, <1>12 DEF TrackSent, Tables, Moved
  <2>2. PICK f : f = [t.pool EXCEPT ![w].load = old + 1, ![w].credits = @ \cup {s}]
    OBVIOUS
  <2>3. u = Table(f, b, least, t.sticky, t.entry)
    BY <1>1, <2>1, <2>2 DEF Tables, Table
  <2>4. f = pool
    BY <1>1, <1>2, <1>3, <1>4, <1>8, <2>2 DEF Load
  <2> QED BY <2>3, <2>4
<1>15. Sound(u)
  <2>1. \A v \in DOMAIN pool : /\ pool[v].owned = t.pool[v].owned
                               /\ pool[v].active = t.pool[v].active
    BY <1>2, <1>6, <1>9
  <2> QED BY ONLY Sound(t), <1>9, <1>11, <1>13, <1>14, <2>1, HomesKept
<1>16. u.pool = pool /\ u.byLoad = b /\ u.minLoad = least
  BY <1>14 DEF Table
<1>17. Book(u)
  <2>1. \A v \in DOMAIN pool : pool[v].load = Cardinality(pool[v].credits)
    BY <1>7, <1>9 DEF Book
  <2>2. ASSUME NEW l \in 0 .. MaxLoad
        PROVE  b[l] = {v \in DOMAIN pool : pool[v].load = l}
    <3>1. t.byLoad[l] = {v \in DOMAIN t.pool : t.pool[v].load = l}
      BY DEF Book
    <3>2. \A v \in DOMAIN pool : pool[v].load = IF v = w THEN old + 1 ELSE t.pool[v].load
      BY <1>6, <1>9
    <3>3. DOMAIN pool = DOMAIN t.pool /\ t.pool[w].load = old
      BY <1>2, <1>9
    <3>4. ASSUME NEW v PROVE v \in b[l] <=> v \in DOMAIN pool /\ pool[v].load = l
      <4>1. CASE v = w
        BY <1>3, <1>11, <3>1, <3>2, <3>3, <4>1
      <4>2. CASE v # w
        BY <1>11, <3>1, <3>2, <3>3, <4>2
      <4> QED BY <4>1, <4>2
    <3> QED BY <3>4
  <2>3. \A v \in DOMAIN pool : v # w => pool[v] = t.pool[v]
    BY <1>9
  <2>4. pool[w].load = old + 1
    BY <1>6, <1>9
  <2>5. \A v \in DOMAIN pool : pool[v].load \in Nat /\ t.pool[v].load \in Nat
    BY <1>1, <1>9 DEF Load
  <2>6. \E v \in DOMAIN pool : pool[v].load = least
    <3>1. CASE old = t.minLoad /\ b[old] = {}
      BY <1>9, <1>12, <2>4, <3>1
    <3>2. CASE old = t.minLoad /\ b[old] # {}
      BY <1>3, <1>12, <2>2, <3>2
    <3>3. CASE old # t.minLoad
      <4>1. PICK v \in DOMAIN t.pool : t.pool[v].load = t.minLoad
        BY DEF Book
      <4> QED BY <1>2, <1>9, <1>12, <2>3, <3>3, <4>1
    <3> QED BY <3>1, <3>2, <3>3
  <2>7. ASSUME NEW v, v \in DOMAIN pool PROVE least <= pool[v].load
    <3>1. t.minLoad <= t.pool[v].load /\ t.minLoad <= old
      BY <1>2, <1>9, <2>7 DEF Book
    <3>2. CASE v = w
      BY <1>1, <1>3, <1>12, <2>4, <3>1, <3>2
    <3>3. CASE v # w
      <4>1. pool[v].load = t.pool[v].load /\ pool[v].load \in Nat
        BY <2>3, <2>5, <2>7, <3>3
      <4>2. b[old] = {} => pool[v].load # old
        BY <1>3, <2>2, <2>7
      <4> QED BY <1>1, <1>3, <1>12, <3>1, <4>1, <4>2
    <3> QED BY <3>2, <3>3
  <2> QED BY <1>16, <2>1, <2>2, <2>6, <2>7 DEF Book
<1> QED BY <1>2, <1>6, <1>9, <1>15, <1>16, <1>17

(* _track_credit_returned: the return of a credit in flight. *)
LEMMA TrackReturnedKeeps ==
  ASSUME NEW t, Sound(t), Book(t), NEW w, NEW s,
         w \in DOMAIN t.pool => s \in t.pool[w].credits,
         NEW u, u = TrackReturned(t, w, s)
  PROVE  /\ Sound(u) /\ Book(u) /\ DOMAIN u.pool = DOMAIN t.pool
         /\ \A v \in DOMAIN t.pool :
              u.pool[v].credits = t.pool[v].credits \ (IF v = w THEN {s} ELSE {})
<1>0. CASE w \notin DOMAIN t.pool
  <2>1. u = t
    BY <1>0 DEF TrackReturned
  <2> QED BY <1>0, <2>1
<1>1. ASSUME w \in DOMAIN t.pool
      PROVE  /\ Sound(u) /\ Book(u) /\ DOMAIN u.pool = DOMAIN t.pool
             /\ \A v \in DOMAIN t.pool :
                  u.pool[v].credits = t.pool[v].credits \ (IF v = w THEN {s} ELSE {})
  <2>1. /\ t \in Tables
        /\ DOMAIN t.pool \subseteq Workers /\ t.pool \in [DOMAIN t.pool -> Load]
        /\ t.byLoad \in [0 .. MaxLoad -> SUBSET Workers] /\ t.minLoad \in 0 .. MaxLoad
    BY Fields DEF Sound
  <2>2. PICK p, old : p = t.pool[w] /\ old = p.load
    OBVIOUS
  <2>3. /\ p \in Load /\ old \in 0 .. MaxLoad
        /\ old = Cardinality(p.credits) /\ IsFiniteSet(p.credits)
        /\ w \in Workers /\ s \in p.credits
    BY <1>1, <2>1, <2>2, LoadBound DEF Book
  <2>4. old # 0 /\ old - 1 \in 0 .. MaxLoad
    BY <2>3, FS_EmptySet, MaxLoadNat
  <2>5. PICK q : q = [p EXCEPT !.load = old - 1, !.credits = @ \ {s}]
    OBVIOUS
  <2>6. q = [load |-> old - 1, active |-> p.active, owned |-> p.owned,
             credits |-> p.credits \ {s}]
    BY <2>3, <2>5 DEF Load
  <2>7. /\ q \in Load /\ q.active = p.active /\ q.owned = p.owned /\ q.load = old - 1
        /\ q.credits = p.credits \ {s}
    <3>1. p.credits \ {s} \in SUBSET Sessions /\ old - 1 \in Nat
      BY <2>3, <2>4 DEF Load
    <3>2. p.active \in Int /\ p.owned \in SUBSET Roots
      BY <2>3 DEF Load
    <3> QED BY <2>6, <3>1, <3>2 DEF Load
  <2>8. q.load = Cardinality(q.credits)
    BY <2>3, <2>7, FS_RemoveElement
  <2>9. PICK pool : pool = [t.pool EXCEPT ![w] = q]
    OBVIOUS
  <2>10. /\ DOMAIN pool = DOMAIN t.pool /\ pool \in [DOMAIN pool -> Load]
         /\ \A v \in DOMAIN pool : pool[v] = IF v = w THEN q ELSE t.pool[v]
    BY <1>1, <2>1, <2>7, <2>9
  <2>11. PICK b : b = Moved(t.byLoad, w, old, old - 1)
    OBVIOUS
  <2>12. /\ b \in [0 .. MaxLoad -> SUBSET Workers]
         /\ \A l \in 0 .. MaxLoad : \A v :
              v \in b[l] <=> IF v = w THEN l = old - 1 \/ (l # old /\ v \in t.byLoad[l])
                                      ELSE v \in t.byLoad[l]
    <3>1. old # old - 1
      BY <2>3
    <3> QED BY ONLY <2>1, <2>3, <2>4, <2>11, <3>1, MovedBucket
  <2>13. PICK least : least = IF old - 1 < t.minLoad THEN old - 1 ELSE t.minLoad
    OBVIOUS
  <2>14. least \in 0 .. MaxLoad
    BY <2>1, <2>4, <2>13
  <2>15. u = Table(pool, b, least, t.sticky, t.entry)
    <3>1. PICK m : m = [t EXCEPT !.pool[w].credits = @ \ {s}]
      OBVIOUS
    <3>3. PICK g : g = [t.pool EXCEPT ![w].credits = @ \ {s}]
      OBVIOUS
    <3>4. m = Table(g, t.byLoad, t.minLoad, t.sticky, t.entry)
      BY <2>1, <3>1, <3>3 DEF Tables, Table
    <3>5. PICK f : f = [g EXCEPT ![w].load = old - 1]
      OBVIOUS
    <3>6. u = Table(f, b, least, t.sticky, t.entry)
      <4>1. m.byLoad = t.byLoad /\ m.minLoad = t.minLoad /\ m.pool = g
        BY <3>4 DEF Table
      <4>2. t.pool[w].load = old /\ t.pool[w].load # 0
        BY <2>2, <2>4
      <4>3. PICK n : n = t.pool[w].load - 1
        OBVIOUS
      <4>4. u = [m EXCEPT !.pool[w].load = n, !.byLoad = Moved(@, w, t.pool[w].load, n),
                          !.minLoad = IF n < @ THEN n ELSE @]
        BY <1>1, <3>1, <4>2, <4>3 DEF TrackReturned
      <4>5. u = [m EXCEPT !.pool[w].load = n, !.byLoad = b, !.minLoad = least]
        BY <2>11, <2>13, <4>1, <4>2, <4>3, <4>4
      <4>6. u = [m EXCEPT !.pool[w].load = old - 1, !.byLoad = b, !.minLoad = least]
        BY <4>2, <4>3, <4>5
      <4> QED BY <3>4, <3>5, <4>6 DEF Table
    <3>7. f = pool
      BY <2>1, <2>2, <2>3, <2>5, <2>9, <3>3, <3>5 DEF Load
    <3> QED BY <3>6, <3>7
  <2>16. Sound(u)
    <3>1. \A v \in DOMAIN pool : /\ pool[v].owned = t.pool[v].owned
                                 /\ pool[v].active = t.pool[v].active
      BY <2>2, <2>7, <2>10
    <3> QED BY ONLY Sound(t), <2>10, <2>12, <2>14, <2>15, <3>1, HomesKept
  <2>17. u.pool = pool /\ u.byLoad = b /\ u.minLoad = least
    BY <2>15 DEF Table
  <2>18. Book(u)
    <3>1. \A v \in DOMAIN pool : pool[v].load = Cardinality(pool[v].credits)
      BY <2>8, <2>10 DEF Book
    <3>2. \A v \in DOMAIN pool : pool[v].load = IF v = w THEN old - 1 ELSE t.pool[v].load
      BY <2>7, <2>10
    <3>3. DOMAIN pool = DOMAIN t.pool /\ t.pool[w].load = old /\ w \in DOMAIN pool
      BY <1>1, <2>2, <2>10
    <3>4. ASSUME NEW l \in 0 .. MaxLoad
          PROVE  b[l] = {v \in DOMAIN pool : pool[v].load = l}
      <4>1. t.byLoad[l] = {v \in DOMAIN t.pool : t.pool[v].load = l}
        BY DEF Book
      <4>2. ASSUME NEW v PROVE v \in b[l] <=> v \in DOMAIN pool /\ pool[v].load = l
        <5>1. CASE v = w
          BY <2>3, <2>12, <3>2, <3>3, <4>1, <5>1
        <5>2. CASE v # w
          BY <2>12, <3>2, <3>3, <4>1, <5>2
        <5> QED BY <5>1, <5>2
      <4> QED BY <4>2
    <3>5. \A v \in DOMAIN pool : t.pool[v].load \in Nat /\ t.minLoad <= t.pool[v].load
      BY <2>1, <3>3 DEF Load, Book
    <3>6. \E v \in DOMAIN pool : pool[v].load = least
      <4>1. CASE old - 1 < t.minLoad
        BY <2>13, <3>2, <3>3, <4>1
      <4>2. CASE ~(old - 1 < t.minLoad)
        <5>1. PICK v \in DOMAIN pool : t.pool[v].load = t.minLoad
          BY <3>3 DEF Book
        <5>2. v # w
          BY <2>1, <2>3, <3>3, <4>2, <5>1
        <5> QED BY <2>13, <3>2, <4>2, <5>1, <5>2
      <4> QED BY <4>1, <4>2
    <3>7. \A v \in DOMAIN pool : least <= pool[v].load
      BY <2>1, <2>3, <2>13, <3>2, <3>5
    <3> QED BY <2>17, <3>1, <3>4, <3>6, <3>7 DEF Book
  <2> QED BY <2>2, <2>7, <2>10, <2>16, <2>17, <2>18
<1> QED BY <1>0, <1>1

(* _register_worker *)
LEMMA RegisterWorkerKeeps ==
  ASSUME NEW t, Sound(t), Book(t), NEW w \in Workers, w \notin DOMAIN t.pool,
         NEW u, u = RegisterWorker(t, w)
  PROVE  /\ Sound(u) /\ Book(u) /\ DOMAIN u.pool = DOMAIN t.pool \cup {w}
         /\ u.pool[w].credits = {}
         /\ \A v \in DOMAIN t.pool : u.pool[v].credits = t.pool[v].credits
<1>1. /\ t \in Tables
      /\ DOMAIN t.pool \subseteq Workers /\ t.pool \in [DOMAIN t.pool -> Load]
      /\ DOMAIN t.sticky \subseteq Sessions /\ t.sticky \in [DOMAIN t.sticky -> Roots]
      /\ DOMAIN t.entry \subseteq Roots /\ t.entry \in [DOMAIN t.entry -> Entry]
      /\ t.byLoad \in [0 .. MaxLoad -> SUBSET Workers] /\ t.minLoad \in 0 .. MaxLoad
      /\ 0 \in 0 .. MaxLoad
  BY Fields, MaxLoadNat DEF Sound
<1>2. PICK q : q = [load |-> 0, active |-> 0, owned |-> {}, credits |-> {}]
  OBVIOUS
<1>3. q \in Load /\ q.load = 0 /\ q.active = 0 /\ q.owned = {} /\ q.credits = {}
  BY <1>2 DEF Load
<1>4. PICK pool : pool = With(t.pool, w, q)
  OBVIOUS
<1>5. /\ DOMAIN pool = DOMAIN t.pool \cup {w} /\ DOMAIN pool \subseteq Workers
      /\ pool \in [DOMAIN pool -> Load]
      /\ \A v \in DOMAIN pool : pool[v] = IF v = w THEN q ELSE t.pool[v]
  BY <1>1, <1>3, <1>4 DEF With
<1>6. PICK b : b = [t.byLoad EXCEPT ![0] = @ \cup {w}]
  OBVIOUS
<1>7. /\ b \in [0 .. MaxLoad -> SUBSET Workers]
      /\ \A l \in 0 .. MaxLoad : b[l] = IF l = 0 THEN t.byLoad[l] \cup {w} ELSE t.byLoad[l]
  BY <1>1, <1>6
<1>8. u = Table(pool, b, 0, t.sticky, t.entry)
  BY <1>1, <1>2, <1>4, <1>6 DEF RegisterWorker, Tables, Table
<1>9. u \in Tables
  BY <1>1, <1>5, <1>7, <1>8, TableType
<1>10. /\ u.pool = pool /\ u.byLoad = b /\ u.minLoad = 0
       /\ u.sticky = t.sticky /\ u.entry = t.entry
  BY <1>8 DEF Table
<1>11. Owning(u)
  <2>1. ASSUME NEW d, d \in DOMAIN u.entry PROVE u.entry[d].worker \in DOMAIN u.pool
    BY <1>5, <1>10, <2>1 DEF Sound, Owning
  <2>2. ASSUME NEW v, v \in DOMAIN u.pool
        PROVE  /\ \A d \in Roots :
                    d \in u.pool[v].owned <=> d \in DOMAIN u.entry /\ u.entry[d].worker = v
               /\ u.pool[v].active = Cardinality(u.pool[v].owned)
    <3>1. CASE v = w
      <4>1. \A d \in DOMAIN t.entry : t.entry[d].worker # w
        BY DEF Sound, Owning
      <4> QED BY <1>3, <1>5, <1>10, <2>2, <3>1, <4>1, FS_EmptySet
    <3>2. CASE v # w
      <4>1. v \in DOMAIN t.pool /\ u.pool[v] = t.pool[v]
        BY <1>5, <1>10, <2>2, <3>2
      <4> QED BY <1>10, <4>1 DEF Sound, Owning
    <3> QED BY <3>1, <3>2
  <2> QED BY <2>1, <2>2 DEF Owning
<1>12. Naming(u)
  BY <1>10 DEF Sound, Naming
<1>13. Book(u)
  <2>1. \A v \in DOMAIN pool : v # w => v \in DOMAIN t.pool /\ pool[v] = t.pool[v]
    BY <1>5
  <2>2. w \in DOMAIN pool /\ pool[w] = q
    BY <1>5
  <2>3. \A v \in DOMAIN pool : pool[v].load = Cardinality(pool[v].credits)
    <3>1. q.load = Cardinality(q.credits)
      BY <1>3, FS_EmptySet
    <3> QED BY <2>1, <2>2, <3>1 DEF Book
  <2>4. ASSUME NEW l \in 0 .. MaxLoad
        PROVE  b[l] = {v \in DOMAIN pool : pool[v].load = l}
    <3>1. t.byLoad[l] = {v \in DOMAIN t.pool : t.pool[v].load = l}
      BY DEF Book
    <3>2. ASSUME NEW v PROVE v \in b[l] <=> v \in DOMAIN pool /\ pool[v].load = l
      <4>1. CASE v = w
        BY <1>3, <1>7, <2>2, <3>1, <4>1
      <4>2. CASE v # w
        BY <1>5, <1>7, <2>1, <3>1, <4>2
      <4> QED BY <4>1, <4>2
    <3> QED BY <3>2
  <2>5. \E v \in DOMAIN pool : pool[v].load = 0
    BY <1>3, <2>2
  <2>6. \A v \in DOMAIN pool : 0 <= pool[v].load
    BY <1>5 DEF Load
  <2> QED BY <1>10, <2>3, <2>4, <2>5, <2>6 DEF Book
<1> QED BY <1>3, <1>5, <1>9, <1>10, <1>11, <1>12, <1>13 DEF Sound

(* A nonempty set of natural numbers has a least member.                   *)
LEMMA LeastOf ==
  ASSUME NEW T, T \subseteq Nat, T # {}
  PROVE  \E x \in T : \A y \in T : x <= y
<1> DEFINE R == OpToRel(<, Nat)
<1>1. IsWellFoundedOn(R, Nat)
  BY NatLessThanWellFounded
<1>2. \E x \in T : \A y \in T : ~(<<y, x>> \in R)
  <2> HIDE DEF R
  <2> QED BY <1>1, WFMin
<1>3. ASSUME NEW x \in Nat, NEW y \in Nat, ~(<<y, x>> \in R) PROVE x <= y
  BY <1>3 DEF OpToRel
<1> QED
  <2> HIDE DEF R
  <2> QED BY <1>2, <1>3

(* The least load of some workers is the load of one and not above any.    *)
LEMMA LeastLoadIs ==
  ASSUME NEW pool, pool \in [DOMAIN pool -> Load], DOMAIN pool # {}
  PROVE  /\ \E v \in DOMAIN pool : pool[v].load = LeastLoad(pool)
         /\ \A v \in DOMAIN pool : LeastLoad(pool) <= pool[v].load
<1> DEFINE T == {pool[v].load : v \in DOMAIN pool}
<1>1. T \subseteq Nat /\ T # {}
  BY DEF Load
<1>2. LeastLoad(pool) = CHOOSE x \in T : \A y \in T : x =< y
  BY DEF LeastLoad, Min
<1>3. \E x \in T : \A y \in T : x <= y
  <2> HIDE DEF T
  <2> QED BY <1>1, LeastOf
<1>4. LeastLoad(pool) \in T /\ \A y \in T : LeastLoad(pool) <= y
  <2> HIDE DEF T
  <2> QED BY <1>2, <1>3
<1> QED BY <1>4

(* The entries that the workers W own. *)
OwnedBy(t, W) == UNION {t.pool[w].owned : w \in W}

(* They are the entries that name one of W. *)
LEMMA OwnedByIs ==
  ASSUME NEW t, Sound(t), NEW W, W \subseteq DOMAIN t.pool
  PROVE  \A e : e \in OwnedBy(t, W) <=> e \in DOMAIN t.entry /\ t.entry[e].worker \in W
<1>1. /\ t.pool \in [DOMAIN t.pool -> Load] /\ DOMAIN t.entry \subseteq Roots
      /\ \A w \in W : t.pool[w].owned \in SUBSET Roots
  <2>1. t.pool \in [DOMAIN t.pool -> Load] /\ DOMAIN t.entry \subseteq Roots
    BY Fields DEF Sound
  <2>2. ASSUME NEW w \in W PROVE t.pool[w].owned \in SUBSET Roots
    <3>1. t.pool[w] \in Load
      BY <2>1
    <3> QED BY <3>1 DEF Load
  <2> QED BY <2>1, <2>2
<1>2. \A w \in W : \A e \in Roots :
        e \in t.pool[w].owned <=> e \in DOMAIN t.entry /\ t.entry[e].worker = w
  BY DEF Sound, Owning
<1>3. ASSUME NEW e PROVE e \in OwnedBy(t, W) <=> \E w \in W : e \in t.pool[w].owned
  BY DEF OwnedBy
<1> QED BY <1>1, <1>2, <1>3

(* The names and the entries that are left without those of the workers W. *)
Remain(t, W, sticky, entry) ==
  /\ DOMAIN sticky = {k \in DOMAIN t.sticky : t.entry[t.sticky[k]].worker \notin W}
  /\ \A k \in DOMAIN sticky : sticky[k] = t.sticky[k]
  /\ sticky \in [DOMAIN sticky -> Roots]
  /\ DOMAIN entry = {e \in DOMAIN t.entry : t.entry[e].worker \notin W}
  /\ \A e \in DOMAIN entry : entry[e] = t.entry[e]
  /\ entry \in [DOMAIN entry -> Entry]

(* _drop_orphaned_sessions leaves the names of the other entries.          *)
LEMMA DropOrphansIs ==
  ASSUME NEW t, Sound(t), NEW W, W \subseteq DOMAIN t.pool, NEW m,
         m = DropOrphans(t, OwnedBy(t, W))
  PROVE  \E sticky, entry :
           /\ m = Table(t.pool, t.byLoad, t.minLoad, sticky, entry)
           /\ Remain(t, W, sticky, entry)
<1>1. /\ t \in Tables
      /\ DOMAIN t.sticky \subseteq Sessions /\ t.sticky \in [DOMAIN t.sticky -> Roots]
      /\ DOMAIN t.entry \subseteq Roots /\ t.entry \in [DOMAIN t.entry -> Entry]
      /\ Roots \subseteq Sessions
  BY Fields DEF Sound
<1>2. PICK S : S = OwnedBy(t, W)
  OBVIOUS
<1>3. \A e : e \in S <=> e \in DOMAIN t.entry /\ t.entry[e].worker \in W
  BY <1>2, OwnedByIs
<1>4. \A e \in DOMAIN t.entry : e \in DOMAIN t.sticky /\ t.sticky[e] = e
  BY <1>1 DEF Sound, Naming
<1>5. \A k \in DOMAIN t.sticky :
        t.sticky[k] \in DOMAIN t.entry /\ k \in {t.sticky[k]} \cup t.entry[t.sticky[k]].aliases
  BY <1>1 DEF Sound, Naming
<1> DEFINE keys  == S \cap DOMAIN t.sticky
           gone  == {t.sticky[k] : k \in keys}
           names == {k \in DOMAIN t.sticky :
                       /\ t.sticky[k] \in gone
                       /\ k \in {t.sticky[k]} \cup t.entry[t.sticky[k]].aliases}
<1>6. keys = S /\ gone = S
  BY <1>3, <1>4
<1>7. keys \cup names = {k \in DOMAIN t.sticky : t.sticky[k] \in S}
  <2> HIDE DEF gone, keys
  <2>1. names = {k \in DOMAIN t.sticky : t.sticky[k] \in S}
    BY <1>5, <1>6
  <2>2. \A e \in S : e \in DOMAIN t.sticky /\ t.sticky[e] \in S
    BY <1>3, <1>4
  <2> HIDE DEF names
  <2> QED BY <1>6, <2>1, <2>2
<1>8. PICK sticky, entry : sticky = Without(t.sticky, keys \cup names)
                           /\ entry = Without(t.entry, gone)
  OBVIOUS
<1>9. m = Table(t.pool, t.byLoad, t.minLoad, sticky, entry)
  <2>1. m = DropOrphans(t, S)
    BY <1>2
  <2>2. m = [t EXCEPT !.sticky = sticky, !.entry = entry]
    BY <1>1, <1>8, <2>1 DEF DropOrphans, Tables
  <2>3. m = Table(t.pool, t.byLoad, t.minLoad, sticky, entry)
    BY <1>1, <2>2 DEF Tables, Table
  <2> QED BY <2>3
<1> HIDE DEF keys, names, gone
<1>10. /\ DOMAIN sticky = {k \in DOMAIN t.sticky : t.entry[t.sticky[k]].worker \notin W}
       /\ \A k \in DOMAIN sticky : sticky[k] = t.sticky[k]
       /\ sticky \in [DOMAIN sticky -> Roots]
  <2>1. PICK K : K = keys \cup names
    OBVIOUS
  <2>2. /\ DOMAIN sticky = DOMAIN t.sticky \ K
        /\ \A k \in DOMAIN sticky : sticky[k] = t.sticky[k]
    BY <1>8, <2>1 DEF Without, Restrict
  <2>3. \A k \in DOMAIN t.sticky : k \in K <=> t.sticky[k] \in S
    BY <1>7, <2>1
  <2>4. \A k \in DOMAIN t.sticky : t.sticky[k] \in S <=> t.entry[t.sticky[k]].worker \in W
    BY <1>3, <1>5
  <2>5. sticky \in [DOMAIN sticky -> Roots]
    BY <1>1, <1>8, <2>1, <2>2 DEF Without, Restrict
  <2> QED BY <2>2, <2>3, <2>4, <2>5
<1>11. /\ DOMAIN entry = {e \in DOMAIN t.entry : t.entry[e].worker \notin W}
       /\ \A e \in DOMAIN entry : entry[e] = t.entry[e]
       /\ entry \in [DOMAIN entry -> Entry]
  <2>1. entry = Without(t.entry, S)
    BY <1>6, <1>8
  <2> QED BY <1>1, <1>3, <2>1 DEF Without, Restrict
<1>12. Remain(t, W, sticky, entry)
  BY <1>10, <1>11 DEF Remain
<1> QED BY <1>2, <1>9, <1>12

(* _unregister_worker, for each of W. *)
LEMMA UnregisterAllKeeps ==
  ASSUME NEW t, Sound(t), Book(t), NEW W, W \subseteq DOMAIN t.pool,
         NEW u, u = UnregisterAll(t, W)
  PROVE  /\ Sound(u) /\ Book(u) /\ DOMAIN u.pool = DOMAIN t.pool \ W
         /\ \A v \in DOMAIN u.pool : u.pool[v] = t.pool[v]
<1>1. /\ t \in Tables
      /\ DOMAIN t.pool \subseteq Workers /\ t.pool \in [DOMAIN t.pool -> Load]
      /\ DOMAIN t.sticky \subseteq Sessions
      /\ DOMAIN t.entry \subseteq Roots
      /\ t.byLoad \in [0 .. MaxLoad -> SUBSET Workers] /\ t.minLoad \in 0 .. MaxLoad
      /\ 0 \in 0 .. MaxLoad
  BY Fields, MaxLoadNat DEF Sound
<1>0. PICK m : m = DropOrphans(t, OwnedBy(t, W))
  OBVIOUS
<1>17. PICK sticky, entry : /\ m = Table(t.pool, t.byLoad, t.minLoad, sticky, entry)
                           /\ Remain(t, W, sticky, entry)
  BY <1>0, DropOrphansIs
<1>2. /\ DOMAIN sticky = {k \in DOMAIN t.sticky : t.entry[t.sticky[k]].worker \notin W}
      /\ \A k \in DOMAIN sticky : sticky[k] = t.sticky[k]
      /\ sticky \in [DOMAIN sticky -> Roots]
      /\ DOMAIN entry = {e \in DOMAIN t.entry : t.entry[e].worker \notin W}
      /\ \A e \in DOMAIN entry : entry[e] = t.entry[e]
      /\ entry \in [DOMAIN entry -> Entry]
  BY <1>17 DEF Remain
<1>3. PICK pool : pool = Without(t.pool, W)
  OBVIOUS
<1>4. /\ DOMAIN pool = DOMAIN t.pool \ W /\ DOMAIN pool \subseteq Workers
      /\ pool \in [DOMAIN pool -> Load]
      /\ \A v \in DOMAIN pool : pool[v] = t.pool[v]
  BY <1>1, <1>3 DEF Without, Restrict
<1>5. PICK b : b = [l \in DOMAIN t.byLoad |-> t.byLoad[l] \ {w \in W : t.pool[w].load = l}]
  OBVIOUS
<1>6. b \in [0 .. MaxLoad -> SUBSET Workers]
  BY <1>1, <1>5
<1>7. ASSUME NEW l \in 0 .. MaxLoad
      PROVE  b[l] = {v \in DOMAIN pool : pool[v].load = l}
  <2>1. b[l] = t.byLoad[l] \ {w \in W : t.pool[w].load = l}
    BY <1>1, <1>5
  <2>2. t.byLoad[l] = {v \in DOMAIN t.pool : t.pool[v].load = l}
    BY DEF Book
  <2> QED BY <1>4, <2>1, <2>2
<1>8. PICK least :
        least = IF (\E w \in W : t.pool[w].load = t.minLoad) /\ b[t.minLoad] = {}
                THEN LeastLoad(pool) ELSE t.minLoad
  OBVIOUS
<1>9. u = Table(pool, b, least, sticky, entry)
  <2>2. m.minLoad = t.minLoad
    BY <1>17 DEF Table
  <2>3. u = [m EXCEPT !.pool = pool, !.byLoad = b,
                      !.minLoad = IF (\E w \in W : t.pool[w].load = t.minLoad) /\ b[@] = {}
                                  THEN LeastLoad(pool) ELSE @]
    BY <1>0, <1>3, <1>5 DEF UnregisterAll, OwnedBy
  <2>4. u = [m EXCEPT !.pool = pool, !.byLoad = b, !.minLoad = least]
    BY <1>8, <2>2, <2>3
  <2> QED BY <1>17, <2>4 DEF Table
<1>10. \A v \in DOMAIN pool :
         /\ pool[v].load = t.pool[v].load /\ pool[v].load \in 0 .. MaxLoad
         /\ t.minLoad <= pool[v].load
         /\ pool[v].load = Cardinality(pool[v].credits)
  <2>1. ASSUME NEW v, v \in DOMAIN pool
        PROVE  t.pool[v].load \in 0 .. MaxLoad
    BY <1>4, <2>1, LoadBound
  <2> QED BY <1>4, <2>1 DEF Book
<1>11. /\ least \in 0 .. MaxLoad
       /\ DOMAIN pool # {} => \E v \in DOMAIN pool : pool[v].load = least
       /\ \A v \in DOMAIN pool : least <= pool[v].load
  <2>1. CASE (\E w \in W : t.pool[w].load = t.minLoad) /\ b[t.minLoad] = {}
    <3>1. least = LeastLoad(pool)
      BY <1>8, <2>1
    <3>2. CASE DOMAIN pool = {}
      <4>1. LeastLoad(pool) = 0
        BY <3>2 DEF LeastLoad
      <4> QED BY <1>1, <3>1, <3>2, <4>1
    <3>3. CASE DOMAIN pool # {}
      <4>1. /\ \E v \in DOMAIN pool : pool[v].load = least
            /\ \A v \in DOMAIN pool : least <= pool[v].load
        BY <1>4, <3>1, <3>3, LeastLoadIs
      <4> QED BY <1>10, <4>1
    <3> QED BY <3>2, <3>3
  <2>2. CASE ~((\E w \in W : t.pool[w].load = t.minLoad) /\ b[t.minLoad] = {})
    <3>1. least = t.minLoad
      BY <1>8, <2>2
    <3>2. ASSUME DOMAIN pool # {} PROVE \E v \in DOMAIN pool : pool[v].load = t.minLoad
      <4>1. CASE b[t.minLoad] # {}
        BY <1>1, <1>7, <4>1
      <4>2. CASE ~(\E w \in W : t.pool[w].load = t.minLoad)
        <5>1. PICK v \in DOMAIN t.pool : t.pool[v].load = t.minLoad
          BY <1>4, <3>2 DEF Book
        <5> QED BY <1>4, <4>2, <5>1
      <4> QED BY <2>2, <4>1, <4>2
    <3> QED BY <1>1, <1>10, <3>1, <3>2
  <2> QED BY <2>1, <2>2
<1>12. u \in Tables
  <2>1. DOMAIN sticky \subseteq Sessions /\ DOMAIN entry \subseteq Roots
    BY <1>1, <1>2
  <2> QED BY ONLY <1>2, <1>4, <1>6, <1>9, <1>11, <2>1, TableType
<1>13. /\ u.pool = pool /\ u.byLoad = b /\ u.minLoad = least
       /\ u.sticky = sticky /\ u.entry = entry
  BY <1>9 DEF Table
<1>14. Owning(u)
  <2>1. ASSUME NEW d, d \in DOMAIN u.entry PROVE u.entry[d].worker \in DOMAIN u.pool
    <3>1. d \in DOMAIN t.entry /\ u.entry[d] = t.entry[d] /\ t.entry[d].worker \notin W
      BY <1>2, <1>13, <2>1
    <3>2. t.entry[d].worker \in DOMAIN t.pool
      BY <3>1 DEF Sound, Owning
    <3> QED BY <1>4, <1>13, <3>1, <3>2
  <2>2. ASSUME NEW v, v \in DOMAIN u.pool
        PROVE  /\ \A d \in Roots :
                    d \in u.pool[v].owned <=> d \in DOMAIN u.entry /\ u.entry[d].worker = v
               /\ u.pool[v].active = Cardinality(u.pool[v].owned)
    <3>1. v \in DOMAIN t.pool /\ v \notin W /\ u.pool[v] = t.pool[v]
      BY <1>4, <1>13, <2>2
    <3>2. (\A d \in Roots :
              d \in t.pool[v].owned <=> d \in DOMAIN t.entry /\ t.entry[d].worker = v)
          /\ t.pool[v].active = Cardinality(t.pool[v].owned)
      BY <3>1 DEF Sound, Owning
    <3>3. \A d \in Roots : d \in DOMAIN u.entry /\ u.entry[d].worker = v
                             <=> d \in DOMAIN t.entry /\ t.entry[d].worker = v
      BY <1>2, <1>13, <3>1
    <3> QED BY <3>1, <3>2, <3>3
  <2> QED BY <2>1, <2>2 DEF Owning
<1>15. Naming(u)
  <2>1. ASSUME NEW k, k \in DOMAIN u.sticky PROVE u.sticky[k] \in DOMAIN u.entry
    <3>1. /\ k \in DOMAIN t.sticky /\ u.sticky[k] = t.sticky[k]
          /\ t.entry[t.sticky[k]].worker \notin W
      BY <1>2, <1>13, <2>1
    <3>2. t.sticky[k] \in DOMAIN t.entry
      BY <3>1 DEF Sound, Naming
    <3> QED BY <1>2, <1>13, <3>1, <3>2
  <2>2. ASSUME NEW d, d \in DOMAIN u.entry, NEW k \in Sessions
        PROVE  k \in DOMAIN u.sticky /\ u.sticky[k] = d <=> k = d \/ k \in u.entry[d].aliases
    <3>1. d \in DOMAIN t.entry /\ u.entry[d] = t.entry[d] /\ t.entry[d].worker \notin W
      BY <1>2, <1>13, <2>2
    <3>2. k \in DOMAIN t.sticky /\ t.sticky[k] = d <=> k = d \/ k \in t.entry[d].aliases
      BY <3>1 DEF Sound, Naming
    <3>3. k \in DOMAIN u.sticky /\ u.sticky[k] = d <=> k \in DOMAIN t.sticky /\ t.sticky[k] = d
      BY <1>2, <1>13, <3>1
    <3> QED BY <3>1, <3>2, <3>3
  <2> QED BY <2>1, <2>2 DEF Naming
<1>16. Book(u)
  BY <1>7, <1>10, <1>11, <1>13 DEF Book
<1> QED BY <1>4, <1>12, <1>13, <1>14, <1>15, <1>16 DEF Sound

-----------------------------------------------------------------------------
(* The router among sessions and workers.                                  *)

(* The states of a worker's process. *)
States == {"starting", "up", "stopping", "stopped", "dead"}

(* What is known of a session. *)
Session == [at : {"unborn", "ready", "out", "lost", "over"}, turns : Nat, final : BOOLEAN,
            starts : SUBSET Sessions, on : Workers \cup {None}, home : Workers \cup {None}]

(* What the variables beside the tables hold. *)
Kinds ==
  /\ reported \in SUBSET Workers /\ strikes \in SUBSET Workers /\ quiet \in SUBSET Workers
  /\ draining \in BOOLEAN
  /\ worker \in [Workers -> States]
  /\ sess \in [Sessions -> Session]

(* A session that may go on has turns left. *)
TurnsLeft ==
  \A s \in Sessions :
    /\ sess[s].turns <= MaxTurns[s]
    /\ sess[s].at \in {"unborn", "ready"} => sess[s].turns < MaxTurns[s]
    /\ sess[s].at = "out" /\ ~sess[s].final => sess[s].turns < MaxTurns[s]

(* The children that a credit will start are its session's, and not there yet. *)
Announced ==
  \A s, c \in Sessions : c \in sess[s].starts => Parent[c] = s /\ sess[c].at = "unborn"

(* A registered worker has the credits that it was sent and did not return. *)
CreditsKnown == \A w \in DOMAIN r.pool : r.pool[w].credits = Out(w)

(* A worker gets no credit before it registers. *)
Fresh == \A w \in Workers : worker[w] = "starting" => w \notin DOMAIN r.pool /\ Out(w) = {}

(* LossesReported, of the workers that may still die too. *)
Reported ==
  \A w \in Workers :
    worker[w] \in {"up", "dead"} /\ w \notin DOMAIN r.pool /\ Out(w) # {} => w \in reported

(* The inductive invariant.  TablesAgree needs Sound and Book; that the    *)
(* load of a worker covers the credit that comes back, and leaves room for *)
(* the one that goes out, needs the sessions too.                          *)
IInv == /\ Sound(r) /\ Book(r)
        /\ Kinds /\ TurnsLeft /\ Announced /\ CreditsKnown /\ Fresh /\ Reported

(* No worker and no credit is there at first. *)
LEMMA InitIInv == Init => IInv
<1> SUFFICES ASSUME Init PROVE IInv
  OBVIOUS
<1>1. r = Table(<<>>, [l \in 0 .. MaxLoad |-> {}], 0, <<>>, <<>>)
  BY DEF Init, NewRouter, Table, MaxLoad
<1>2. PICK none : none = <<>> /\ DOMAIN none = {} /\ \A B : none \in [DOMAIN none -> B]
  <2>1. PICK none : none = <<>>
    OBVIOUS
  <2>2. none \in [{} -> {}]
    BY <2>1
  <2>3. none = [x \in {} |-> {}] /\ DOMAIN none = {}
    BY <2>2
  <2>4. ASSUME NEW B PROVE none \in [DOMAIN none -> B]
    BY <2>2, <2>3
  <2> QED BY <2>1, <2>3, <2>4
<1>3. PICK b : b = [l \in 0 .. MaxLoad |-> {}]
  OBVIOUS
<1>4. b \in [0 .. MaxLoad -> SUBSET Workers] /\ 0 \in 0 .. MaxLoad
  BY <1>3, MaxLoadNat
<1>5. r = Table(none, b, 0, none, none)
  BY <1>1, <1>2, <1>3
<1>6. r \in Tables
  BY <1>2, <1>4, <1>5, TableType
<1>7. r.pool = none /\ r.byLoad = b /\ r.sticky = none /\ r.entry = none
  BY <1>5 DEF Table
<1>8. Sound(r) /\ Book(r) /\ CreditsKnown
  BY <1>2, <1>3, <1>6, <1>7 DEF Sound, Owning, Naming, Book, CreditsKnown
<1>9. ASSUME NEW s \in Sessions
      PROVE  /\ sess[s] \in Session /\ sess[s].turns = 0 /\ sess[s].starts = {}
             /\ sess[s].at \in {"ready", "unborn"}
  <2>1. PICK at : at = IF s \in Roots THEN "ready" ELSE "unborn"
    OBVIOUS
  <2>2. at \in {"ready", "unborn"}
    BY <2>1
  <2>3. sess[s] = [at |-> at, turns |-> 0, final |-> FALSE, starts |-> {}, on |-> None,
                   home |-> None]
    BY <2>1 DEF Init
  <2>4. sess[s] \in Session
    BY <2>2, <2>3 DEF Session
  <2> QED BY <2>2, <2>3, <2>4
<1>10. Kinds
  <2>1. \A s \in Sessions : sess[s] \in Session
    BY <1>9
  <2>2. sess \in [Sessions -> Session]
    BY <2>1 DEF Init
  <2> QED BY <2>2 DEF Init, Kinds, States
<1>11. \A s \in Sessions : /\ sess[s].turns = 0 /\ sess[s].starts = {}
                           /\ sess[s].at \in {"ready", "unborn"}
  BY <1>9
<1>12. TurnsLeft
  <2>1. ASSUME NEW s \in Sessions PROVE MaxTurns[s] \in Nat \ {0}
    BY StickyRouterAssumption
  <2> QED BY <1>11, <2>1 DEF TurnsLeft
<1>13. \A w : Out(w) = {}
  BY <1>11 DEF Out, Sent
<1> QED
  BY <1>2, <1>7, <1>8, <1>10, <1>11, <1>12, <1>13 DEF IInv, Announced, Fresh, Reported

(* A credit goes to a registered worker. *)
LEMMA RouteKnown ==
  ASSUME NEW t, Sound(t), Book(t), DOMAIN t.pool # {}, NEW key, NEW w, w \in Route(t, key)
  PROVE  w \in DOMAIN t.pool
<1>1. t.minLoad \in 0 .. MaxLoad
  BY Fields DEF Sound
<1>2. t.byLoad[t.minLoad] \subseteq DOMAIN t.pool
  BY <1>1 DEF Book
<1> QED BY <1>2 DEF Route, Pinned, LeastLoaded

(* send_credit *)
LEMMA SendCreditStep ==
  ASSUME IInv, NEW s \in Sessions, NEW isFinal \in BOOLEAN, NEW C \in SUBSET Unborn(s),
         NEW w \in Workers, SendCredit(s, isFinal, C, w)
  PROVE  IInv'
<1> DEFINE key      == RoutingKey(s)
           hasForks == C \cap Forked # {}
<1>1. Sound(r) /\ Book(r) /\ w \in DOMAIN r.pool
  BY RouteKnown DEF IInv, SendCredit
<1>2. PICK pinned : pinned = IF ~Pinned(r, key) /\ (~isFinal \/ hasForks)
                             THEN Pin(r, key, w, s \notin Roots) ELSE r
  OBVIOUS
<1>3. PICK settled : settled = IF isFinal /\ s \in Roots
                               THEN SendFinal(pinned, s, hasForks) ELSE pinned
  OBVIOUS
<1>4. Keeps(r, pinned)
  <2>1. CASE ~Pinned(r, key) /\ (~isFinal \/ hasForks)
    <3>1. PICK isChild \in BOOLEAN : isChild = (s \notin Roots)
      OBVIOUS
    <3>2. ~isChild => key \in Roots
      BY <3>1 DEF RoutingKey
    <3>3. Keeps(r, Pin(r, key, w, isChild))
      <4> HIDE DEF key
      <4> QED BY ONLY <1>1, <2>1, <3>2, PinKeeps
    <3> QED BY <1>2, <2>1, <3>1, <3>3
  <2>2. CASE ~(~Pinned(r, key) /\ (~isFinal \/ hasForks))
    BY <1>1, <1>2, <2>2, KeepsSelf
  <2> QED BY <2>1, <2>2
<1>5. Keeps(r, settled)
  <2>1. CASE isFinal /\ s \in Roots
    <3>1. Keeps(pinned, SendFinal(pinned, s, hasForks))
      BY <1>4, <2>1, SendFinalKeeps DEF Keeps
    <3>2. Keeps(r, SendFinal(pinned, s, hasForks))
      BY ONLY <1>4, <3>1, KeepsBoth
    <3> QED BY <1>3, <2>1, <3>2
  <2>2. CASE ~(isFinal /\ s \in Roots)
    BY <1>3, <1>4, <2>2
  <2> QED BY <2>1, <2>2
<1>6. /\ sess[s].at = "ready" /\ C \subseteq Unborn(s)
      /\ sess[s].turns + 1 = MaxTurns[s] => isFinal
      /\ UNCHANGED <<reported, strikes, draining, worker, quiet>>
  BY DEF SendCredit
<1>7. r' = TrackSent(settled, w, s)
  BY <1>2, <1>3 DEF SendCredit
<1>8. /\ Sound(settled) /\ Book(settled) /\ DOMAIN settled.pool = DOMAIN r.pool
      /\ \A v \in DOMAIN r.pool : settled.pool[v].credits = r.pool[v].credits
  BY <1>1, <1>5, SameBook DEF Keeps, SameLoads
<1>9. s \notin r.pool[w].credits
  BY <1>1, <1>6 DEF IInv, CreditsKnown, Out, Sent
<1>10. /\ Sound(r') /\ Book(r') /\ DOMAIN r'.pool = DOMAIN r.pool
       /\ \A v \in DOMAIN r.pool :
            r'.pool[v].credits = r.pool[v].credits \cup (IF v = w THEN {s} ELSE {})
  <2>1. w \in DOMAIN settled.pool /\ s \notin settled.pool[w].credits
    BY <1>1, <1>8, <1>9
  <2>2. /\ Sound(r') /\ Book(r') /\ DOMAIN r'.pool = DOMAIN settled.pool
        /\ \A v \in DOMAIN settled.pool :
             r'.pool[v].credits = settled.pool[v].credits \cup (IF v = w THEN {s} ELSE {})
    BY <1>7, <1>8, <2>1, TrackSentKeeps
  <2> QED BY <1>8, <2>2
<1>11. PICK x : x = [at |-> IF worker[w] = "up" THEN "out" ELSE "lost",
                     turns |-> sess[s].turns + 1, final |-> isFinal, starts |-> C, on |-> w,
                     home |-> IF sess[s].turns = 0 THEN w ELSE sess[s].home]
  OBVIOUS
<1>12. sess' = [sess EXCEPT ![s] = x]
  BY <1>11 DEF SendCredit
<1>13. sess \in [Sessions -> Session] /\ sess[s] \in Session
  BY DEF IInv, Kinds
<1>14. /\ x \in Session /\ x.at \in {"out", "lost"} /\ x.turns = sess[s].turns + 1
       /\ x.final = isFinal /\ x.starts = C /\ x.on = w
  <2>1. C \in SUBSET Sessions
    BY <1>6 DEF Unborn
  <2>2. sess[s].turns + 1 \in Nat /\ sess[s].home \in Workers \cup {None}
    BY <1>13 DEF Session
  <2> QED BY <1>11, <2>1, <2>2 DEF Session
<1>15. /\ sess' \in [Sessions -> Session]
       /\ \A c \in Sessions : sess'[c] = IF c = s THEN x ELSE sess[c]
  BY <1>12, <1>13, <1>14
<1>16. \A v : Out(v)' = Out(v) \cup (IF v = w THEN {s} ELSE {})
  <2>1. \A v : s \notin Out(v)
    BY <1>6 DEF Out, Sent
  <2> QED BY <1>14, <1>15, <2>1 DEF Out, Sent
<1>17. Kinds'
  BY <1>6, <1>15 DEF IInv, Kinds
<1>18. TurnsLeft'
  <2>1. sess[s].turns \in Nat /\ MaxTurns[s] \in Nat /\ sess[s].turns < MaxTurns[s]
    BY <1>6, <1>13, StickyRouterAssumption DEF IInv, TurnsLeft, Session
  <2>2. /\ x.turns <= MaxTurns[s]
        /\ ~x.final => x.turns < MaxTurns[s]
    BY <1>6, <1>14, <2>1
  <2> QED BY <1>14, <1>15, <2>2 DEF IInv, TurnsLeft
<1>19. Announced'
  <2>1. ASSUME NEW p \in Sessions, NEW c \in Sessions, c \in sess'[p].starts
        PROVE  Parent[c] = p /\ sess'[c].at = "unborn"
    <3>1. Parent[c] = p /\ sess[c].at = "unborn"
      <4>1. CASE p = s
        BY <1>6, <1>14, <1>15, <2>1, <4>1 DEF Unborn
      <4>2. CASE p # s
        BY <1>15, <2>1, <4>2 DEF IInv, Announced
      <4> QED BY <4>1, <4>2
    <3> QED BY <1>6, <1>15, <3>1
  <2> QED BY <2>1 DEF Announced
<1>20. CreditsKnown'
  BY <1>10, <1>16 DEF IInv, CreditsKnown
<1>21. Fresh' /\ Reported'
  BY <1>1, <1>6, <1>10, <1>16 DEF IInv, Fresh, Reported
<1> QED BY <1>10, <1>17, <1>18, <1>19, <1>20, <1>21 DEF IInv

(* A session that is somewhere else is a session, and keeps the rest. *)
LEMMA Placed ==
  ASSUME NEW x \in Session, NEW at \in {"unborn", "ready", "out", "lost", "over"},
         NEW y, y = [x EXCEPT !.at = at]
  PROVE  /\ y \in Session /\ y.at = at /\ y.turns = x.turns /\ y.final = x.final
         /\ y.starts = x.starts /\ y.on = x.on
<1>1. y = [at |-> at, turns |-> x.turns, final |-> x.final, starts |-> x.starts,
           on |-> x.on, home |-> x.home]
  BY DEF Session
<1>2. /\ x.turns \in Nat /\ x.final \in BOOLEAN /\ x.starts \in SUBSET Sessions
      /\ x.on \in Workers \cup {None} /\ x.home \in Workers \cup {None}
  BY DEF Session
<1> QED BY <1>1, <1>2 DEF Session

(* on_credit_return, with what the orchestrator does *)
LEMMA CreditReturnStep ==
  ASSUME IInv, NEW s \in Sessions, NEW missing \in SUBSET sess[s].starts,
         NEW goesOn \in BOOLEAN, NEW refused \in SUBSET (sess[s].starts \ missing),
         CreditReturn(s, missing, refused, goesOn)
  PROVE  IInv'
<1>1. Sound(r) /\ Book(r) /\ sess \in [Sessions -> Session] /\ sess[s] \in Session
  BY DEF IInv, Kinds
<1>2. /\ sess[s].at = "out" /\ (goesOn => ~sess[s].final)
      /\ UNCHANGED <<reported, strikes, draining, worker, quiet>>
  BY DEF CreditReturn
<1>3. PICK on, starts : on = sess[s].on /\ starts = sess[s].starts
  OBVIOUS
<1>4. PICK C : C = starts \ missing
  OBVIOUS
<1>5. starts \subseteq Sessions /\ C \subseteq Sessions /\ refused \subseteq C
  BY <1>1, <1>3, <1>4 DEF Session
<1>6. PICK t : t = TrackReturned(r, on, s)
  OBVIOUS
<1>7. /\ Sound(t) /\ Book(t) /\ DOMAIN t.pool = DOMAIN r.pool
      /\ \A v \in DOMAIN r.pool :
           t.pool[v].credits = r.pool[v].credits \ (IF v = on THEN {s} ELSE {})
  <2>1. on \in DOMAIN r.pool => s \in r.pool[on].credits
    BY <1>2, <1>3 DEF IInv, CreditsKnown, Out, Sent
  <2> QED BY ONLY <1>1, <1>6, <2>1, TrackReturnedKeeps
<1>8. Keeps(t, r')
  <2>1. PICK r2 : r2 = IF sess[s].final /\ s \in Forked THEN ReleaseChild(t, Parent[s]) ELSE t
    OBVIOUS
  <2>2. PICK r3 : r3 = RegisterChildren(r2, s, C \cap Forked)
    OBVIOUS
  <2>3. PICK r4 : r4 = ReleaseChildren(r3, s, refused \cap Forked)
    OBVIOUS
  <2>4. PICK r5 : r5 = IF starts = {} THEN r4 ELSE EvictUnclaimed(r4, s)
    OBVIOUS
  <2>5. r' = IF ~sess[s].final /\ ~goesOn /\ s \in Forked
             THEN ReleaseChild(r5, Parent[s]) ELSE r5
    BY <1>3, <1>4, <1>6, <2>1, <2>2, <2>3, <2>4 DEF CreditReturn
  <2>6. Keeps(t, r2)
    BY <1>7, <2>1, ReleaseOneKeeps, KeepsSelf
  <2>7. Keeps(r2, r3)
    <3>1. C \cap Forked \subseteq Sessions \ Roots
      BY DEF Forked
    <3> QED BY <2>2, <2>6, <3>1, RegisterKeeps DEF Keeps
  <2>8. Keeps(r3, r4)
    <3>1. IsFiniteSet(refused \cap Forked)
      BY <1>5, FS_Subset, StickyRouterAssumption
    <3> QED BY <2>3, <2>7, <3>1, ReleaseChildrenKeeps DEF Keeps
  <2>9. Keeps(r4, r5)
    BY <2>4, <2>8, EvictUnclaimedKeeps, KeepsSelf DEF Keeps
  <2>10. Keeps(r5, r')
    BY <2>5, <2>9, ReleaseOneKeeps, KeepsSelf DEF Keeps
  <2>11. Keeps(t, r3)
    BY ONLY <2>6, <2>7, KeepsBoth
  <2>12. Keeps(t, r4)
    BY ONLY <2>8, <2>11, KeepsBoth
  <2>13. Keeps(t, r5)
    BY ONLY <2>9, <2>12, KeepsBoth
  <2> QED BY ONLY <2>10, <2>13, KeepsBoth
<1>9. /\ Sound(r') /\ Book(r') /\ DOMAIN r'.pool = DOMAIN r.pool
      /\ \A v \in DOMAIN r.pool :
           r'.pool[v].credits = r.pool[v].credits \ (IF v = on THEN {s} ELSE {})
  BY <1>7, <1>8, SameBook DEF Keeps, SameLoads
<1>10. \A c \in starts : Parent[c] = s /\ sess[c].at = "unborn" /\ c # s
  BY <1>2, <1>3, <1>5 DEF IInv, Announced
<1>11. /\ sess'[s] \in Session /\ sess'[s].at = (IF goesOn THEN "ready" ELSE "over")
       /\ sess'[s].turns = sess[s].turns /\ sess'[s].final = sess[s].final
       /\ sess'[s].starts = {} /\ sess'[s].on = on
  <2>1. PICK at : at = IF goesOn THEN "ready" ELSE "over"
    OBVIOUS
  <2>2. PICK x : x = sess[s]
    OBVIOUS
  <2>3. sess'[s] = [x EXCEPT !.at = at, !.starts = {}]
    BY <2>1, <2>2 DEF CreditReturn
  <2>4. sess'[s] = [at |-> at, turns |-> x.turns, final |-> x.final, starts |-> {},
                    on |-> x.on, home |-> x.home]
    BY <1>1, <2>2, <2>3 DEF Session
  <2>5. /\ x.turns \in Nat /\ x.final \in BOOLEAN
        /\ x.on \in Workers \cup {None} /\ x.home \in Workers \cup {None}
    BY <1>1, <2>2 DEF Session
  <2> QED BY <1>3, <2>1, <2>2, <2>4, <2>5 DEF Session
<1>12. ASSUME NEW c \in starts
       PROVE  /\ sess'[c] \in Session /\ sess'[c].at \in {"ready", "over"}
              /\ sess'[c].turns = sess[c].turns /\ sess'[c].starts = sess[c].starts
  <2>1. PICK at \in {"ready", "over"} : at = IF c \in C \ refused THEN "ready" ELSE "over"
    OBVIOUS
  <2>2. sess'[c] = [sess[c] EXCEPT !.at = at]
    BY <1>3, <1>4, <1>5, <1>10, <2>1 DEF CreditReturn
  <2>3. sess[c] \in Session /\ at \in {"unborn", "ready", "out", "lost", "over"}
    BY <1>1, <1>5
  <2> QED BY ONLY <2>1, <2>2, <2>3, Placed
<1>13. \A c \in Sessions : c # s /\ c \notin starts => sess'[c] = sess[c]
  BY <1>3 DEF CreditReturn
<1>14. sess' \in [Sessions -> Session]
  <2>1. \A c \in Sessions : sess'[c] \in Session
    BY <1>1, <1>11, <1>12, <1>13
  <2>2. sess' = [c \in Sessions |-> sess'[c]]
    BY DEF CreditReturn
  <2> QED BY <2>1, <2>2
<1>15. \A v : Out(v)' = Out(v) \ {s}
  <2>1. \A c \in Sessions : c # s => (Sent(c) /\ c \notin starts <=> Sent(c)')
    BY <1>10, <1>12, <1>13 DEF Sent
  <2>2. ~Sent(s)'
    BY <1>11 DEF Sent
  <2>3. \A c \in starts : ~Sent(c)
    BY <1>10 DEF Sent
  <2> QED BY <1>13, <2>1, <2>2, <2>3 DEF Out
<1>16. Kinds'
  BY <1>2, <1>14 DEF IInv, Kinds
<1>17. TurnsLeft'
  <2>1. TurnsLeft
    BY DEF IInv
  <2>2. ASSUME NEW c \in Sessions
        PROVE  /\ sess'[c].turns <= MaxTurns[c]
               /\ sess'[c].at \in {"unborn", "ready"} => sess'[c].turns < MaxTurns[c]
               /\ sess'[c].at = "out" /\ ~sess'[c].final => sess'[c].turns < MaxTurns[c]
    <3>1. CASE c = s
      BY <1>2, <1>11, <2>1, <3>1 DEF TurnsLeft
    <3>2. CASE c \in starts
      BY <1>10, <1>12, <2>1, <3>2 DEF TurnsLeft
    <3>3. CASE c # s /\ c \notin starts
      BY <1>13, <2>1, <3>3 DEF TurnsLeft
    <3> QED BY <3>1, <3>2, <3>3
  <2> QED BY <2>2 DEF TurnsLeft
<1>18. Announced'
  <2>1. ASSUME NEW p \in Sessions, NEW c \in Sessions, c \in sess'[p].starts
        PROVE  Parent[c] = p /\ sess'[c].at = "unborn"
    <3>1. p # s
      BY <1>11, <2>1
    <3>2. c \in sess[p].starts
      BY <1>12, <1>13, <2>1, <3>1
    <3>3. Parent[c] = p /\ sess[c].at = "unborn"
      BY <3>2 DEF IInv, Announced
    <3>4. c # s /\ c \notin starts
      BY <1>2, <1>10, <3>1, <3>3
    <3> QED BY <1>13, <3>3, <3>4
  <2> QED BY <2>1 DEF Announced
<1>19. CreditsKnown'
  <2>1. ASSUME NEW v \in DOMAIN r.pool PROVE r'.pool[v].credits = Out(v)'
    <3>1. r.pool[v].credits = Out(v)
      BY DEF IInv, CreditsKnown
    <3>2. v # on => s \notin Out(v)
      BY <1>3 DEF Out
    <3> QED BY <1>9, <1>15, <3>1, <3>2
  <2> QED BY <1>9, <2>1 DEF CreditsKnown
<1>20. Fresh' /\ Reported'
  BY <1>2, <1>9, <1>15 DEF IInv, Fresh, Reported
<1> QED BY <1>9, <1>16, <1>17, <1>18, <1>19, <1>20 DEF IInv

(* A session that waits for its next turn is cut short. *)
LEMMA StopSessionStep ==
  ASSUME IInv, NEW s \in Sessions, StopSession(s)
  PROVE  IInv'
<1>1. /\ sess[s].at = "ready" /\ UNCHANGED <<reported, strikes, draining, worker, quiet>>
      /\ Sound(r) /\ Book(r) /\ sess \in [Sessions -> Session] /\ sess[s] \in Session
  BY DEF StopSession, IInv, Kinds
<1>2. Keeps(r, r')
  BY <1>1, ReleaseOneKeeps, KeepsSelf DEF StopSession
<1>3. /\ Sound(r') /\ Book(r') /\ DOMAIN r'.pool = DOMAIN r.pool
      /\ \A v \in DOMAIN r.pool : r'.pool[v].credits = r.pool[v].credits
  BY <1>1, <1>2, SameBook DEF Keeps, SameLoads
<1>4. PICK x, at : x = [sess[s] EXCEPT !.at = at] /\ at = "over"
  OBVIOUS
<1>5. /\ x \in Session /\ x.at = "over" /\ x.turns = sess[s].turns
      /\ x.starts = sess[s].starts
  <2>1. at \in {"unborn", "ready", "out", "lost", "over"}
    BY <1>4
  <2> QED BY <1>1, <1>4, <2>1, Placed
<1>6. sess' = [sess EXCEPT ![s] = x]
  BY <1>1, <1>4 DEF StopSession
<1>7. /\ sess' \in [Sessions -> Session]
      /\ \A c \in Sessions : sess'[c] = IF c = s THEN x ELSE sess[c]
  BY <1>1, <1>5, <1>6
<1>8. \A v : Out(v)' = Out(v)
  BY <1>1, <1>5, <1>7 DEF Out, Sent
<1>9. Kinds'
  BY <1>1, <1>7 DEF IInv, Kinds
<1>10. TurnsLeft'
  BY <1>5, <1>7 DEF IInv, TurnsLeft
<1>11. Announced'
  BY <1>1, <1>5, <1>7 DEF IInv, Announced
<1>12. CreditsKnown' /\ Fresh' /\ Reported'
  BY <1>1, <1>3, <1>8 DEF IInv, CreditsKnown, Fresh, Reported
<1> QED BY <1>3, <1>9, <1>10, <1>11, <1>12 DEF IInv

(* WorkerDispatchable *)
LEMMA DispatchableStep ==
  ASSUME IInv, NEW w \in Workers, Dispatchable(w)
  PROVE  IInv'
<1>1. /\ worker[w] = "starting" /\ worker' = [worker EXCEPT ![w] = "up"]
      /\ r' = RegisterWorker(r, w) /\ UNCHANGED <<reported, strikes, draining, quiet, sess>>
      /\ Sound(r) /\ Book(r) /\ worker \in [Workers -> States]
  BY DEF Dispatchable, IInv, Kinds
<1>2. w \notin DOMAIN r.pool /\ Out(w) = {}
  BY <1>1 DEF IInv, Fresh
<1>3. /\ Sound(r') /\ Book(r') /\ DOMAIN r'.pool = DOMAIN r.pool \cup {w}
      /\ r'.pool[w].credits = {}
      /\ \A v \in DOMAIN r.pool : r'.pool[v].credits = r.pool[v].credits
  BY <1>1, <1>2, RegisterWorkerKeeps
<1>4. \A v : Out(v)' = Out(v)
  BY <1>1 DEF Out, Sent
<1>5. /\ worker' \in [Workers -> States]
      /\ \A v \in Workers : worker'[v] = IF v = w THEN "up" ELSE worker[v]
  BY <1>1 DEF States
<1>6. Kinds' /\ TurnsLeft' /\ Announced'
  BY <1>1, <1>5 DEF IInv, Kinds, TurnsLeft, Announced
<1>7. CreditsKnown' /\ Fresh' /\ Reported'
  BY <1>2, <1>3, <1>4, <1>1, <1>5 DEF IInv, CreditsKnown, Fresh, Reported
<1> QED BY <1>3, <1>6, <1>7 DEF IInv

(* _unregister_worker, for a worker that may be gone already. *)
LEMMA UnregisterKeeps ==
  ASSUME NEW t, Sound(t), Book(t), NEW w, NEW u, u = Unregister(t, w)
  PROVE  /\ Sound(u) /\ Book(u) /\ DOMAIN u.pool = DOMAIN t.pool \ {w}
         /\ \A v \in DOMAIN u.pool : u.pool[v] = t.pool[v]
<1>1. CASE w \in DOMAIN t.pool
  BY <1>1, UnregisterAllKeeps DEF Unregister
<1>2. CASE w \notin DOMAIN t.pool
  <2>1. /\ t \in Tables
        /\ DOMAIN t.pool \subseteq Workers /\ t.pool \in [DOMAIN t.pool -> Load]
        /\ t.byLoad \in [0 .. MaxLoad -> SUBSET Workers] /\ 0 \in 0 .. MaxLoad
    BY Fields, MaxLoadNat DEF Sound
  <2>2. PICK least : least = LeastLoad(t.pool)
    OBVIOUS
  <2>3. /\ least \in 0 .. MaxLoad
        /\ DOMAIN t.pool # {} => \E v \in DOMAIN t.pool : t.pool[v].load = least
        /\ \A v \in DOMAIN t.pool : least <= t.pool[v].load
    <3>1. CASE DOMAIN t.pool = {}
      BY <2>1, <2>2, <3>1 DEF LeastLoad
    <3>2. CASE DOMAIN t.pool # {}
      <4>1. /\ \E v \in DOMAIN t.pool : t.pool[v].load = least
            /\ \A v \in DOMAIN t.pool : least <= t.pool[v].load
        BY <2>1, <2>2, <3>2, LeastLoadIs
      <4> QED BY <4>1, LoadBound
    <3> QED BY <3>1, <3>2
  <2>4. u = Table(t.pool, t.byLoad, least, t.sticky, t.entry)
    BY <1>2, <2>1, <2>2 DEF Unregister, Tables, Table
  <2>5. Sound(u)
    BY ONLY Sound(t), <2>1, <2>3, <2>4, HomesKept
  <2>6. u.pool = t.pool /\ u.byLoad = t.byLoad /\ u.minLoad = least
    BY <2>4 DEF Table
  <2>7. Book(u)
    BY <2>3, <2>6 DEF Book
  <2> QED BY <1>2, <2>5, <2>6, <2>7
<1> QED BY <1>1, <1>2

(* _handle_worker_shutdown *)
LEMMA ShutdownStep ==
  ASSUME IInv, NEW w \in Workers, Shutdown(w)
  PROVE  IInv'
<1>1. /\ worker' = [worker EXCEPT ![w] = "stopped"] /\ r' = Unregister(r, w)
      /\ UNCHANGED <<strikes, draining, quiet, sess>>
      /\ Sound(r) /\ Book(r) /\ worker \in [Workers -> States]
      /\ reported \subseteq reported' /\ reported' \subseteq Workers
  BY DEF Shutdown, IInv, Kinds
<1>2. /\ Sound(r') /\ Book(r') /\ DOMAIN r'.pool = DOMAIN r.pool \ {w}
      /\ \A v \in DOMAIN r'.pool : r'.pool[v] = r.pool[v]
  BY <1>1, UnregisterKeeps
<1>3. \A v : Out(v)' = Out(v)
  BY <1>1 DEF Out, Sent
<1>4. /\ worker' \in [Workers -> States]
      /\ \A v \in Workers : worker'[v] = IF v = w THEN "stopped" ELSE worker[v]
  BY <1>1 DEF States
<1>5. Kinds' /\ TurnsLeft' /\ Announced'
  BY <1>1, <1>4 DEF IInv, Kinds, TurnsLeft, Announced
<1>6. CreditsKnown'
  BY <1>2, <1>3 DEF IInv, CreditsKnown
<1>7. Fresh' /\ Reported'
  BY <1>1, <1>2, <1>3, <1>4 DEF IInv, Fresh, Reported
<1> QED BY <1>2, <1>5, <1>6, <1>7 DEF IInv

(* A worker dies: what it will not answer was sent to it all the same. *)
LEMMA CrashStep ==
  ASSUME IInv, NEW w \in Workers, NEW L \in SUBSET Sessions, Crash(w, L)
  PROVE  IInv'
<1>1. /\ worker[w] = "up" /\ worker' = [worker EXCEPT ![w] = "dead"]
      /\ UNCHANGED <<r, reported, strikes, draining, quiet>>
      /\ \A s \in L : sess[s].at = "out"
      /\ sess \in [Sessions -> Session] /\ worker \in [Workers -> States]
  BY DEF Crash, IInv, Kinds
<1>2. ASSUME NEW s \in L
      PROVE  /\ sess'[s] \in Session /\ sess'[s].at = "lost" /\ sess'[s].turns = sess[s].turns
             /\ sess'[s].starts = sess[s].starts /\ sess'[s].on = sess[s].on
  <2>1. PICK at \in {"unborn", "ready", "out", "lost", "over"} : at = "lost"
    OBVIOUS
  <2>2. sess[s] \in Session /\ sess'[s] = [sess[s] EXCEPT !.at = at]
    BY <1>1, <2>1 DEF Crash
  <2> QED BY ONLY <2>1, <2>2, Placed
<1>3. \A s \in Sessions : s \notin L => sess'[s] = sess[s]
  BY DEF Crash
<1>4. sess' \in [Sessions -> Session]
  <2>1. \A s \in Sessions : sess'[s] \in Session
    BY <1>1, <1>2, <1>3
  <2>2. sess' = [s \in Sessions |-> sess'[s]]
    BY DEF Crash
  <2> QED BY <2>1, <2>2
<1>5. \A v : Out(v)' = Out(v)
  BY <1>1, <1>2, <1>3 DEF Out, Sent
<1>6. /\ worker' \in [Workers -> States]
      /\ \A v \in Workers : worker'[v] = IF v = w THEN "dead" ELSE worker[v]
  BY <1>1 DEF States
<1>7. Kinds'
  BY <1>1, <1>4, <1>6 DEF IInv, Kinds
<1>8. TurnsLeft'
  BY <1>2, <1>3 DEF IInv, TurnsLeft
<1>9. Announced'
  <2>1. ASSUME NEW p \in Sessions, NEW c \in Sessions, c \in sess'[p].starts
        PROVE  Parent[c] = p /\ sess'[c].at = "unborn"
    <3>1. c \in sess[p].starts
      BY <1>2, <1>3, <2>1
    <3>2. Parent[c] = p /\ sess[c].at = "unborn"
      BY <3>1 DEF IInv, Announced
    <3> QED BY <1>1, <1>3, <3>2
  <2> QED BY <2>1 DEF Announced
<1>10. Sound(r') /\ Book(r') /\ CreditsKnown' /\ Fresh' /\ Reported'
  BY <1>1, <1>5, <1>6 DEF IInv, CreditsKnown, Fresh, Reported
<1> QED BY <1>7, <1>8, <1>9, <1>10 DEF IInv

(* _evict_stale_workers_task: who goes with a credit in flight is reported. *)
LEMMA SweepStep ==
  ASSUME IInv, Sweep
  PROVE  IInv'
<1>1. PICK W : W = Confirmed
  OBVIOUS
<1>2. /\ r' = UnregisterAll(r, W) /\ reported' = reported \cup LostWith(W)
      /\ strikes' = Candidates \ strikes /\ UNCHANGED <<draining, worker, quiet, sess>>
      /\ Sound(r) /\ Book(r) /\ W \subseteq DOMAIN r.pool /\ DOMAIN r.pool \subseteq Workers
  BY <1>1, Fields DEF Sweep, IInv, Sound, Confirmed, Candidates
<1>3. /\ Sound(r') /\ Book(r') /\ DOMAIN r'.pool = DOMAIN r.pool \ W
      /\ \A v \in DOMAIN r'.pool : r'.pool[v] = r.pool[v]
  BY <1>2, UnregisterAllKeeps
<1>4. \A v : Out(v)' = Out(v)
  BY <1>2 DEF Out, Sent
<1>5. reported' \in SUBSET Workers /\ strikes' \in SUBSET Workers
  BY <1>2 DEF IInv, Kinds, LostWith, Candidates
<1>6. Kinds' /\ TurnsLeft' /\ Announced'
  BY <1>2, <1>5 DEF IInv, Kinds, TurnsLeft, Announced
<1>7. CreditsKnown' /\ Fresh'
  BY <1>2, <1>3, <1>4 DEF IInv, CreditsKnown, Fresh
<1>8. Reported'
  <2>1. ASSUME NEW v \in Workers, v \in W, Out(v) # {} PROVE v \in reported'
    <3>1. v \in DOMAIN r.pool /\ r.pool[v].credits = Out(v)
      BY <1>2, <2>1 DEF IInv, CreditsKnown
    <3>2. r.pool[v].load = Cardinality(Out(v)) /\ IsFiniteSet(Out(v)) /\ r.pool[v].load \in Nat
      BY <1>2, <3>1, LoadBound DEF Book
    <3>3. r.pool[v].load # 0
      BY <2>1, <3>2, FS_EmptySet
    <3> QED BY <1>2, <2>1, <3>1, <3>2, <3>3 DEF LostWith, HasCredits
  <2> QED BY <1>2, <1>3, <1>4, <2>1 DEF IInv, Reported
<1> QED BY <1>3, <1>6, <1>7, <1>8 DEF IInv

(* What changes neither the tables nor the sessions. *)
LEMMA QuietStep ==
  ASSUME IInv, Kinds', UNCHANGED <<r, reported, sess>>,
         \A w \in Workers : worker'[w] \in {worker[w], "stopping"}
  PROVE  IInv'
<1>1. \A v : Out(v)' = Out(v)
  BY DEF Out, Sent
<1>2. TurnsLeft' /\ Announced' /\ CreditsKnown'
  BY <1>1 DEF IInv, TurnsLeft, Announced, CreditsKnown
<1>3. Fresh' /\ Reported'
  <2>1. \A w \in Workers : worker'[w] = worker[w] \/ worker'[w] = "stopping"
    OBVIOUS
  <2> QED BY <1>1, <2>1 DEF IInv, Fresh, Reported
<1> QED BY <1>2, <1>3 DEF IInv

(* Every step of the router, of a session or of a worker. *)
LEMMA NextIInv == IInv /\ [Next]_vars => IInv'
<1> SUFFICES ASSUME IInv, [Next]_vars PROVE IInv'
  OBVIOUS
<1>0. Kinds
  BY DEF IInv
<1>1. ASSUME NEW s \in Sessions, NEW isFinal \in BOOLEAN, NEW C \in SUBSET Unborn(s),
             NEW w \in Workers, SendCredit(s, isFinal, C, w)
      PROVE  IInv'
  BY <1>1, SendCreditStep
<1>2. ASSUME NEW s \in Sessions, NEW missing \in SUBSET sess[s].starts, NEW goesOn \in BOOLEAN,
             NEW refused \in SUBSET (sess[s].starts \ missing),
             CreditReturn(s, missing, refused, goesOn)
      PROVE  IInv'
  BY <1>2, CreditReturnStep
<1>3. ASSUME NEW s \in Sessions, StopSession(s) PROVE IInv'
  BY <1>3, StopSessionStep
<1>4. CASE CancelAllCredits \/ DrainOver
  <2>1. draining' \in BOOLEAN
    BY <1>4 DEF CancelAllCredits, DrainOver
  <2>2. UNCHANGED <<r, reported, strikes, worker, quiet, sess>>
    BY <1>4 DEF CancelAllCredits, DrainOver
  <2>3. Kinds'
    BY <1>0, <2>1, <2>2 DEF Kinds
  <2> QED BY <2>2, <2>3, QuietStep
<1>5. ASSUME NEW w \in Workers, Dispatchable(w) PROVE IInv'
  BY <1>5, DispatchableStep
<1>6. ASSUME NEW w \in Workers, Stop(w) PROVE IInv'
  <2>1. /\ worker' = [worker EXCEPT ![w] = "stopping"]
        /\ UNCHANGED <<r, reported, strikes, draining, quiet, sess>>
    BY <1>6 DEF Stop
  <2>2. Kinds'
    BY <1>0, <2>1 DEF Kinds, States
  <2>3. \A v \in Workers : worker'[v] \in {worker[v], "stopping"}
    BY <1>0, <2>1 DEF Kinds
  <2> QED BY <2>1, <2>2, <2>3, QuietStep
<1>7. ASSUME NEW w \in Workers, Shutdown(w) PROVE IInv'
  BY <1>7, ShutdownStep
<1>8. ASSUME NEW w \in Workers, NEW L \in SUBSET Sessions, Crash(w, L) PROVE IInv'
  BY <1>8, CrashStep
<1>9. ASSUME NEW w \in Workers, GoQuiet(w) \/ Heartbeat(w) PROVE IInv'
  <2>1. UNCHANGED <<r, reported, strikes, draining, worker, sess>>
    BY <1>9 DEF GoQuiet, Heartbeat
  <2>2. quiet' \in SUBSET Workers
    BY <1>0, <1>9 DEF GoQuiet, Heartbeat, Kinds
  <2>3. Kinds'
    BY <1>0, <2>1, <2>2 DEF Kinds
  <2> QED BY <2>1, <2>3, QuietStep
<1>10. CASE Sweep
  BY <1>10, SweepStep
<1>11. CASE DelayedSweep
  <2>1. strikes' = {} /\ UNCHANGED <<r, reported, draining, worker, quiet, sess>>
    BY <1>11 DEF DelayedSweep
  <2>2. Kinds'
    BY <1>0, <2>1 DEF Kinds
  <2> QED BY <2>1, <2>2, QuietStep
<1>12. CASE UNCHANGED vars
  <2>1. UNCHANGED <<r, reported, strikes, draining, worker, quiet, sess>>
    BY <1>12 DEF vars
  <2>2. Kinds'
    BY <1>0, <2>1 DEF Kinds
  <2> QED BY <2>1, <2>2, QuietStep
<1> QED
  BY <1>1, <1>2, <1>3, <1>4, <1>5, <1>6, <1>7, <1>8, <1>9, <1>10, <1>11, <1>12 DEF Next

(* So the invariant holds in every state that a run reaches. *)
LEMMA SpecIInv == Spec => []IInv
BY InitIInv, NextIInv, PTL DEF Spec

-----------------------------------------------------------------------------
(* The theorems.                                                           *)

(* The least load that the books have is the least there is. *)
LEMMA LeastUnique ==
  ASSUME NEW t, Sound(t), Book(t), DOMAIN t.pool # {}
  PROVE  t.minLoad = LeastLoad(t.pool)
<1>1. t.pool \in [DOMAIN t.pool -> Load] /\ t.minLoad \in 0 .. MaxLoad
  BY Fields DEF Sound
<1>2. PICK v \in DOMAIN t.pool : t.pool[v].load = t.minLoad
  BY DEF Book
<1>3. PICK m : m = LeastLoad(t.pool)
  OBVIOUS
<1>4. PICK x \in DOMAIN t.pool : t.pool[x].load = m
  BY <1>1, <1>3, LeastLoadIs
<1>5. m <= t.pool[v].load
  BY <1>1, <1>3, LeastLoadIs
<1>6. t.minLoad <= t.pool[x].load
  BY DEF Book
<1>7. m \in Nat /\ t.minLoad \in Nat
  BY <1>1, <1>4, MaxLoadNat DEF Load
<1> QED BY <1>2, <1>3, <1>4, <1>5, <1>6, <1>7

(* TypeOK *)
LEMMA TypeFollows == IInv => TypeOK
<1> SUFFICES ASSUME IInv PROVE TypeOK
  OBVIOUS
<1>1. Sound(r) /\ Book(r) /\ Kinds /\ TurnsLeft
  BY DEF IInv
<1>2. /\ r \in Tables
      /\ DOMAIN r.pool \subseteq Workers /\ r.pool \in [DOMAIN r.pool -> Load]
      /\ r.byLoad \in [0 .. MaxLoad -> SUBSET Workers] /\ r.minLoad \in 0 .. MaxLoad
      /\ DOMAIN r.sticky \subseteq Sessions /\ r.sticky \in [DOMAIN r.sticky -> Roots]
      /\ DOMAIN r.entry \subseteq Roots /\ r.entry \in [DOMAIN r.entry -> Entry]
  BY <1>1, Fields DEF Sound
<1>3. ASSUME NEW w \in DOMAIN r.pool
      PROVE  r.pool[w] \in [load : Nat, active : Nat, owned : SUBSET Roots,
                            credits : SUBSET Sessions]
  <2>1. r.pool[w] \in Load /\ r.pool[w].active = Cardinality(r.pool[w].owned)
    BY <1>1, <1>2 DEF Sound, Owning
  <2>2. IsFiniteSet(r.pool[w].owned)
    BY <2>1, FS_Subset, StickyRouterAssumption DEF Load, Roots
  <2>3. r.pool[w].active \in Nat
    BY <2>1, <2>2, FS_CardinalityType
  <2> QED BY <2>1, <2>3 DEF Load
<1>4. ASSUME NEW e \in DOMAIN r.entry
      PROVE  r.entry[e] \in [worker : Workers, refs : Int, final : BOOLEAN,
                             aliases : SUBSET Sessions]
  <2>1. r.entry[e] \in Entry
    BY <1>2
  <2> QED BY <2>1 DEF Entry
<1>5. \A s \in Sessions : sess[s].turns \in 0 .. MaxTurns[s]
  <2>1. ASSUME NEW s \in Sessions PROVE sess[s].turns \in 0 .. MaxTurns[s]
    <3>1. sess[s].turns \in Nat /\ MaxTurns[s] \in Nat /\ sess[s].turns <= MaxTurns[s]
      BY <1>1, StickyRouterAssumption DEF Kinds, TurnsLeft, Session
    <3> QED BY <3>1
  <2> QED BY <2>1
<1>6. \A k \in DOMAIN r.sticky : r.sticky[k] \in Roots
  BY <1>2
<1> QED
  BY <1>1, <1>2, <1>3, <1>4, <1>5, <1>6 DEF TypeOK, Registered, Kinds, States, Session, MaxLoad

(* Whatever comes, stays away or is lost: the router's tables, each of     *)
(* which every handler adjusts by hand, agree with each other.             *)
THEOREM TablesAgreeThm == Spec => []TablesAgree
<1>1. IInv => TablesAgree
  <2> SUFFICES ASSUME IInv PROVE TablesAgree
    OBVIOUS
  <2>1. Sound(r) /\ Book(r)
    BY DEF IInv
  <2>2. /\ r.byLoad \in [0 .. MaxLoad -> SUBSET Workers]
        /\ DOMAIN r.sticky \subseteq Sessions
        /\ r.pool \in [DOMAIN r.pool -> Load]
        /\ DOMAIN r.entry \subseteq Roots /\ r.entry \in [DOMAIN r.entry -> Entry]
        /\ Roots \subseteq Sessions
    BY <2>1, Fields DEF Sound
  <2>3. IndexMatchesLoads
    BY <2>1, <2>2, LeastUnique DEF Book, IndexMatchesLoads, Registered
  <2>4. SessionsMatchEntries
    <3>1. ASSUME NEW w \in DOMAIN r.pool
          PROVE  r.pool[w].owned = {e \in DOMAIN r.entry : r.entry[e].worker = w}
      <4>1. r.pool[w].owned \subseteq Roots
        BY <2>2 DEF Load
      <4>2. \A e \in Roots :
              e \in r.pool[w].owned <=> e \in DOMAIN r.entry /\ r.entry[e].worker = w
        BY <2>1 DEF Sound, Owning
      <4> QED BY <2>2, <4>1, <4>2
    <3>2. \A w \in DOMAIN r.pool : r.pool[w].active = Cardinality(r.pool[w].owned)
      BY <2>1 DEF Sound, Owning
    <3>3. \A e \in DOMAIN r.entry : r.entry[e].worker \in DOMAIN r.pool
      BY <2>1 DEF Sound, Owning
    <3>4. \A k \in DOMAIN r.sticky : r.sticky[k] \in DOMAIN r.entry
      BY <2>1 DEF Sound, Naming
    <3>5. ASSUME NEW e \in DOMAIN r.entry
          PROVE  {k \in DOMAIN r.sticky : r.sticky[k] = e} = {e} \cup r.entry[e].aliases
      <4>1. {e} \cup r.entry[e].aliases \subseteq Sessions
        BY <2>2 DEF Entry
      <4>2. \A k \in Sessions :
              k \in DOMAIN r.sticky /\ r.sticky[k] = e <=> k = e \/ k \in r.entry[e].aliases
        BY <2>1 DEF Sound, Naming
      <4> QED BY <2>2, <4>1, <4>2
    <3> QED BY <3>1, <3>2, <3>3, <3>4, <3>5 DEF SessionsMatchEntries, Registered
  <2> QED BY <2>3, <2>4, TypeFollows DEF TablesAgree
<1> QED BY <1>1, SpecIInv, PTL

(* A worker's load is the number of credits it was sent and has not        *)
(* answered, also when it was given up as stale and answers late.          *)
THEOREM LoadMatchesCreditsThm == Spec => []LoadMatchesCredits
<1>1. IInv => LoadMatchesCredits
  BY DEF IInv, Book, CreditsKnown, LoadMatchesCredits, Registered
<1> QED BY <1>1, SpecIInv, PTL

(* A dead worker that the router dropped with credits in flight has been   *)
(* reported, so that no phase waits for them for ever.                     *)
THEOREM LossesReportedThm == Spec => []LossesReported
<1>1. IInv => LossesReported
  BY DEF IInv, Reported, LossesReported, Registered
<1> QED BY <1>1, SpecIInv, PTL
=============================================================================
