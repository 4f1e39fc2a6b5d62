------------------------ MODULE WorkerCredits_proofs ------------------------
(***************************************************************************)
(* What a worker owes for each credit, for any number of credits, retries  *)
(* and outages.  The three promises are about the order of the frames of   *)
(* one credit on a socket all credits share, and a retried send may reach  *)
(* the wire ahead of frames parked earlier: the frame is then inserted in  *)
(* the middle of Frames.  What saves the order is Settled: a credit whose  *)
(* send sleeps has nothing in the backlog.                                 *)
(***************************************************************************)
EXTENDS WorkerCredits, FiniteSetTheorems, SequenceTheorems, TLAPS

Frame ==
  [kind : {"token"}, credit : Credits]
    \cup [kind : {"return"}, credit : Credits, cancelled : BOOLEAN, token : BOOLEAN,
          emitted : BOOLEAN]

Sending == {"token", "returning", "resending"}

Places == {"none", "scheduled", "requesting", "done"} \cup Sending

(* The frames of credit c of one kind. *)
Of(kind, c) == {f \in Frame : f.kind = kind /\ f.credit = c}

(* Where the frames of a set stand in a sequence. *)
At(s, F) == {i \in DOMAIN s : s[i] \in F}

Typed ==
  /\ task \in [Credits -> Places]
  /\ retries \in [Credits -> 0 .. MaxRetries]
  /\ cancelled \subseteq Credits /\ tokenSent \subseteq Credits /\ emitted \subseteq Credits
  /\ up \in BOOLEAN /\ outages \in 0 .. MaxOutages
  /\ wire \in Seq(Frame) /\ backlog \in Seq(Frame)

(* Attempts are counted by the send under way, and while it sleeps nothing *)
(* of its credit is parked.                                                *)
Settled(c) ==
  /\ task[c] \notin Sending => retries[c] = 0
  /\ retries[c] > 0 => \A i \in DOMAIN backlog : backlog[i].credit # c

(* How far the task of c has come and what its context says. *)
Progress(c) ==
  /\ task[c] \in {"none", "scheduled", "token"} => c \notin tokenSent
  /\ task[c] \in {"returning", "done"} => c \in emitted \/ c \in cancelled
  /\ task[c] = "resending" => c \in cancelled

(* What the sequence s of frames owes credit c: one return if it is done,  *)
(* which is ret, and one token if that is sent, ahead of the return.       *)
Owed(s, c, done, token, ret) ==
  /\ IF done THEN \E i \in DOMAIN s : At(s, Of("return", c)) = {i}
             ELSE At(s, Of("return", c)) = {}
  /\ IF token THEN \E j \in DOMAIN s : At(s, Of("token", c)) = {j}
              ELSE At(s, Of("token", c)) = {}
  /\ \A i \in At(s, Of("return", c)) :
       s[i] = ret /\ \A j \in At(s, Of("token", c)) : j < i

Sent(c) == Owed(Frames, c, task[c] = "done", c \in tokenSent, CreditReturn(c))

IInv ==
  /\ Typed
  /\ \A c \in Credits : Settled(c) /\ Progress(c) /\ Sent(c)

-----------------------------------------------------------------------------
(* A frame put at place k of a sequence moves those behind it.             *)
Inserted(s, t, k, f) ==
  /\ k \in 1 .. Len(s) + 1 /\ Len(t) = Len(s) + 1 /\ t[k] = f
  /\ \A i \in 1 .. k - 1 : t[i] = s[i]
  /\ \A i \in k .. Len(s) : t[i + 1] = s[i]

Moved(k, i) == IF i < k THEN i ELSE i + 1

LEMMA AtInserted ==
  ASSUME NEW s \in Seq(Frame), NEW t \in Seq(Frame), NEW k, NEW f, Inserted(s, t, k, f),
         NEW F
  PROVE  /\ f \notin F => At(t, F) = {Moved(k, i) : i \in At(s, F)}
         /\ f \in F => At(t, F) = {k} \cup {Moved(k, i) : i \in At(s, F)}
<1>1. /\ Len(s) \in Nat /\ Len(t) = Len(s) + 1 /\ k \in 1 .. Len(s) + 1 /\ t[k] = f
      /\ DOMAIN s = 1 .. Len(s) /\ DOMAIN t = 1 .. Len(t)
  BY DEF Inserted
<1>2. ASSUME NEW i \in 1 .. Len(s) PROVE Moved(k, i) \in DOMAIN t /\ t[Moved(k, i)] = s[i]
  <2>1. CASE i < k
    <3>1. i \in 1 .. k - 1
      BY <1>1, <2>1
    <3> QED BY <1>1, <2>1, <3>1 DEF Inserted, Moved
  <2>2. CASE ~(i < k)
    <3>1. i \in k .. Len(s)
      BY <1>1, <2>2
    <3> QED BY <1>1, <2>2, <3>1 DEF Inserted, Moved
  <2> QED BY <2>1, <2>2
<1>3. ASSUME NEW j \in DOMAIN t, j # k PROVE \E i \in 1 .. Len(s) : j = Moved(k, i)
  <2>1. j < k => j \in 1 .. Len(s) /\ Moved(k, j) = j
    BY <1>1 DEF Moved
  <2>2. ~(j < k) => j - 1 \in 1 .. Len(s) /\ Moved(k, j - 1) = j
    BY <1>1, <1>3 DEF Moved
  <2> QED BY <2>1, <2>2
<1>4. {Moved(k, i) : i \in At(s, F)} \subseteq At(t, F)
  BY <1>1, <1>2 DEF At
<1>5. \A j \in At(t, F) : j # k => j \in {Moved(k, i) : i \in At(s, F)}
  BY <1>1, <1>2, <1>3 DEF At
<1>6. k \in DOMAIN t
  BY <1>1
<1>7. k \in At(t, F) <=> f \in F
  BY <1>1, <1>6 DEF At
<1> QED BY <1>4, <1>5, <1>7

(* A frame of another credit changes nothing for c.                        *)
LEMMA OtherFrame ==
  ASSUME NEW s \in Seq(Frame), NEW t \in Seq(Frame), NEW k, NEW f \in Frame,
         Inserted(s, t, k, f), NEW c, f.credit # c,
         NEW done, NEW token, NEW ret, Owed(s, c, done, token, ret)
  PROVE  Owed(t, c, done, token, ret)
<1> DEFINE R == At(s, Of("return", c))
           T == At(s, Of("token", c))
<1>1. /\ At(t, Of("return", c)) = {Moved(k, i) : i \in R}
      /\ At(t, Of("token", c)) = {Moved(k, i) : i \in T}
  <2>1. f \notin Of("return", c) /\ f \notin Of("token", c)
    BY DEF Of
  <2> QED BY <2>1, AtInserted
<1>2. /\ Len(s) \in Nat /\ DOMAIN s = 1 .. Len(s) /\ DOMAIN t = 1 .. Len(s) + 1
      /\ k \in 1 .. Len(s) + 1 /\ R \subseteq 1 .. Len(s) /\ T \subseteq 1 .. Len(s)
  BY DEF Inserted, At
<1>3. \A i \in 1 .. Len(s) : Moved(k, i) \in DOMAIN t /\ t[Moved(k, i)] = s[i]
  <2> SUFFICES ASSUME NEW i \in 1 .. Len(s)
               PROVE  Moved(k, i) \in DOMAIN t /\ t[Moved(k, i)] = s[i]
    OBVIOUS
  <2>1. i < k => i \in 1 .. k - 1
    BY <1>2
  <2>2. ~(i < k) => i \in k .. Len(s)
    BY <1>2
  <2> QED BY <1>2, <2>1, <2>2 DEF Inserted, Moved
<1>4. \A i, j \in 1 .. Len(s) : j < i => Moved(k, j) < Moved(k, i)
  BY <1>2 DEF Moved
<1>5. /\ IF done THEN \E i \in DOMAIN s : R = {i} ELSE R = {}
      /\ IF token THEN \E j \in DOMAIN s : T = {j} ELSE T = {}
      /\ \A i \in R : s[i] = ret /\ \A j \in T : j < i
  BY DEF Owed
<1> HIDE DEF R, T
<1>6. IF done THEN \E i \in DOMAIN t : {Moved(k, x) : x \in R} = {i}
              ELSE {Moved(k, x) : x \in R} = {}
  BY <1>2, <1>3, <1>5
<1>7. IF token THEN \E j \in DOMAIN t : {Moved(k, x) : x \in T} = {j}
               ELSE {Moved(k, x) : x \in T} = {}
  BY <1>2, <1>3, <1>5
<1>8. \A i \in {Moved(k, x) : x \in R} : t[i] = ret /\ \A j \in {Moved(k, x) : x \in T} : j < i
  BY <1>2, <1>3, <1>4, <1>5
<1> QED BY <1>1, <1>6, <1>7, <1>8 DEF Owed

(* The token of c, before it is done.                                      *)
LEMMA TokenFrame ==
  ASSUME NEW s \in Seq(Frame), NEW t \in Seq(Frame), NEW k, NEW c, NEW f \in Of("token", c),
         Inserted(s, t, k, f), NEW ret, NEW other, Owed(s, c, FALSE, FALSE, ret)
  PROVE  Owed(t, c, FALSE, TRUE, other)
<1>1. At(s, Of("return", c)) = {} /\ At(s, Of("token", c)) = {}
  BY DEF Owed
<1>2. f \notin Of("return", c)
  BY DEF Of
<1>3. At(t, Of("return", c)) = {}
  BY <1>1, <1>2, AtInserted
<1>4. At(t, Of("token", c)) = {k}
  BY <1>1, AtInserted
<1>5. k \in DOMAIN t
  BY <1>4 DEF At
<1> QED BY <1>3, <1>4, <1>5 DEF Owed

(* The return of c, behind every frame of c.                               *)
LEMMA ReturnFrame ==
  ASSUME NEW s \in Seq(Frame), NEW t \in Seq(Frame), NEW k, NEW c, NEW f \in Of("return", c),
         Inserted(s, t, k, f), \A i \in k .. Len(s) : s[i].credit # c,
         NEW token, NEW ret, Owed(s, c, FALSE, token, ret)
  PROVE  Owed(t, c, TRUE, token, f)
<1> DEFINE T == At(s, Of("token", c))
<1>1. /\ At(s, Of("return", c)) = {}
      /\ IF token THEN \E j \in DOMAIN s : T = {j} ELSE T = {}
  BY DEF Owed
<1>2. f \notin Of("token", c)
  BY DEF Of
<1>3. At(t, Of("return", c)) = {k}
  BY <1>1, AtInserted
<1>4. At(t, Of("token", c)) = {Moved(k, i) : i \in T}
  BY <1>2, AtInserted
<1>5. k \in DOMAIN t /\ t[k] = f /\ Len(s) \in Nat /\ k \in 1 .. Len(s) + 1
  BY <1>3 DEF At, Inserted
<1>6. DOMAIN s = 1 .. Len(s) /\ DOMAIN t = 1 .. Len(s) + 1
  BY DEF Inserted
<1>7. \A i \in T : i \in 1 .. Len(s) /\ s[i].credit = c
  BY <1>6 DEF At, Of
<1> HIDE DEF T
<1>8. \A i \in T : i < k
  BY <1>5, <1>7
<1>9. {Moved(k, i) : i \in T} = T
  BY <1>5, <1>7, <1>8 DEF Moved
<1>10. IF token THEN \E j \in DOMAIN t : T = {j} ELSE T = {}
  BY <1>1, <1>5, <1>6
<1> QED BY <1>3, <1>4, <1>5, <1>8, <1>9, <1>10 DEF Owed

(* Nothing hangs on the context of a credit that is not done.              *)
LEMMA NotDone ==
  ASSUME NEW s, NEW c, NEW token, NEW ret, NEW other, Owed(s, c, FALSE, token, ret)
  PROVE  Owed(s, c, FALSE, token, other)
BY DEF Owed
-----------------------------------------------------------------------------
LEMMA InitInv == Init => IInv
<1> SUFFICES ASSUME Init PROVE IInv
  OBVIOUS
<1>1. /\ task = [c \in Credits |-> "none"] /\ retries = [c \in Credits |-> 0]
      /\ cancelled = {} /\ tokenSent = {} /\ emitted = {} /\ up = TRUE /\ outages = 0
      /\ wire = <<>> /\ backlog = <<>>
  BY DEF Init
<1>2. Frames = <<>> /\ DOMAIN Frames = {} /\ DOMAIN backlog = {}
  BY <1>1 DEF Frames
<1>3. Typed
  BY <1>1, WorkerCreditsAssumption DEF Typed, Places
<1>4. ASSUME NEW c \in Credits PROVE Settled(c) /\ Progress(c) /\ Sent(c)
  <2>1. Settled(c) /\ Progress(c)
    BY <1>1 DEF Settled, Progress
  <2>2. task[c] # "done" /\ c \notin tokenSent
    BY <1>1
  <2>3. At(Frames, Of("return", c)) = {} /\ At(Frames, Of("token", c)) = {}
    BY <1>2 DEF At
  <2>4. Sent(c)
    BY <2>2, <2>3 DEF Sent, Owed
  <2> QED BY <2>1, <2>4
<1> QED BY <1>3, <1>4 DEF IInv

(* A step without a frame keeps what was sent, if no credit becomes done.  *)
LEMMA QuietSent ==
  ASSUME NEW d, Sent(d), Frames' = Frames, (task'[d] = "done") = (task[d] = "done"),
         (d \in tokenSent') = (d \in tokenSent),
         task[d] = "done" => CreditReturn(d)' = CreditReturn(d)
  PROVE  Sent(d)'
<1> DEFINE token == d \in tokenSent
           ret == CreditReturn(d)
           ret2 == CreditReturn(d)'
<1>1. Owed(Frames, d, task[d] = "done", token, ret)
  BY DEF Sent
<1>2. Sent(d)' <=> Owed(Frames, d, task[d] = "done", token, ret2)
  BY DEF Sent
<1> HIDE DEF token, ret, ret2
<1>3. CASE task[d] = "done"
  BY <1>1, <1>2, <1>3 DEF ret, ret2
<1>4. CASE task[d] # "done"
  <2>1. (task[d] = "done") = FALSE
    BY <1>4
  <2> QED BY <1>1, <1>2, <2>1, NotDone
<1> QED BY <1>3, <1>4

(* A step of the task of c alone that neither sends nor ends it.           *)
LEMMA QuietStep ==
  ASSUME IInv, NEW c \in Credits, NEW where \in Places \ {"done"}, task[c] # "done",
         task' = [task EXCEPT ![c] = where], retries' = [retries EXCEPT ![c] = 0],
         cancelled' \in {cancelled, cancelled \cup {c}},
         emitted' \in {emitted, emitted \cup {c}}, UNCHANGED <<tokenSent, socket>>,
         where \in {"scheduled", "token"} => c \notin tokenSent,
         where # "none",
         where = "returning" => c \in emitted' \/ c \in cancelled',
         where = "resending" => c \in cancelled'
  PROVE  IInv'
<1>1. Typed /\ \A d \in Credits : Settled(d) /\ Progress(d) /\ Sent(d)
  BY DEF IInv
<1>2. /\ task'[c] = where /\ retries'[c] = 0
      /\ \A d \in Credits \ {c} : task'[d] = task[d] /\ retries'[d] = retries[d]
  BY <1>1 DEF Typed
<1>3. /\ up' = up /\ outages' = outages /\ backlog' = backlog /\ wire' = wire
      /\ tokenSent' = tokenSent
  BY DEF socket
<1>4. Typed'
  BY <1>1, <1>3, WorkerCreditsAssumption DEF Typed
<1>5. ASSUME NEW d \in Credits PROVE Settled(d)' /\ Progress(d)' /\ Sent(d)'
  <2>1. Settled(d) /\ Progress(d) /\ Sent(d)
    BY <1>1
  <2>2. Settled(d)'
    BY <1>2, <1>3, <2>1 DEF Settled
  <2>3. Progress(d)'
    BY <1>2, <1>3, <2>1 DEF Progress
  <2>4. Frames' = Frames
    BY <1>3 DEF Frames
  <2>5. (task'[d] = "done") = (task[d] = "done")
    BY <1>2
  <2>6. task[d] = "done" => CreditReturn(d)' = CreditReturn(d)
    BY <1>3 DEF CreditReturn
  <2>7. Sent(d)'
    BY <1>3, <2>1, <2>4, <2>5, <2>6, QuietSent
  <2> QED BY <2>2, <2>3, <2>7
<1> QED BY <1>4, <1>5 DEF IInv

LEMMA CreditDropInv == ASSUME IInv, NEW c \in Credits, CreditDrop(c) PROVE IInv'
<1>1. /\ task[c] = "none" /\ task' = [task EXCEPT ![c] = "scheduled"]
      /\ UNCHANGED <<retries, cancelled, tokenSent, emitted, socket>>
  BY DEF CreditDrop, Go, context
<1>2. retries \in [Credits -> 0 .. MaxRetries] /\ retries[c] = 0 /\ c \notin tokenSent
  BY <1>1 DEF IInv, Typed, Settled, Progress, Sending
<1>3. retries' = [retries EXCEPT ![c] = 0]
  BY <1>1, <1>2
<1> QED BY <1>1, <1>2, <1>3, QuietStep DEF Places

LEMMA TaskStartsInv == ASSUME IInv, NEW c \in Credits, TaskStarts(c) PROVE IInv'
<1>1. /\ task[c] = "scheduled" /\ task' = [task EXCEPT ![c] = "requesting"]
      /\ UNCHANGED <<retries, cancelled, tokenSent, emitted, socket>>
  BY DEF TaskStarts, Go, context
<1>2. retries \in [Credits -> 0 .. MaxRetries] /\ retries[c] = 0
  BY <1>1 DEF IInv, Typed, Settled, Sending
<1>3. retries' = [retries EXCEPT ![c] = 0]
  BY <1>1, <1>2
<1> QED BY <1>1, <1>3, QuietStep DEF Places

LEMMA OnFirstTokenInv == ASSUME IInv, NEW c \in Credits, OnFirstToken(c) PROVE IInv'
<1>1. /\ task[c] = "requesting" /\ c \notin tokenSent
      /\ task' = [task EXCEPT ![c] = "token"] /\ retries' = [retries EXCEPT ![c] = 0]
      /\ UNCHANGED <<cancelled, tokenSent, emitted, socket>>
  BY DEF OnFirstToken, Go, StartSend, context
<1> QED BY <1>1, QuietStep DEF Places, Sending

LEMMA RequestEndsInv == ASSUME IInv, NEW c \in Credits, RequestEnds(c) PROVE IInv'
<1>1. /\ task[c] = "requesting" /\ emitted' = emitted \cup {c}
      /\ task' = [task EXCEPT ![c] = "returning"] /\ retries' = [retries EXCEPT ![c] = 0]
      /\ UNCHANGED <<cancelled, tokenSent, socket>>
  BY DEF RequestEnds, Go, StartSend
<1> QED BY <1>1, QuietStep DEF Places, Sending

LEMMA CancelCreditInv == ASSUME IInv, NEW c \in Credits, CancelCredit(c) PROVE IInv'
<1> DEFINE where == IF task[c] \in {"requesting", "token"} THEN "returning" ELSE "resending"
<1>1. /\ task[c] # "done" /\ cancelled' = cancelled \cup {c}
      /\ UNCHANGED <<tokenSent, emitted, socket>>
  BY DEF CancelCredit
<1>2. task' = [task EXCEPT ![c] = where] /\ retries' = [retries EXCEPT ![c] = 0]
  BY DEF CancelCredit, ReturnByCallback, Go, StartSend
<1>3. where \in {"returning", "resending"}
  OBVIOUS
<1> HIDE DEF where
<1> QED BY <1>1, <1>2, <1>3, QuietStep DEF Places, Sending

(* A send sleeps only while nothing is parked.                             *)
LEMMA SleepAndRetryInv ==
  ASSUME IInv, NEW c \in Credits, task[c] \in Sending, SleepAndRetry(c) PROVE IInv'
<1>1. Typed /\ \A d \in Credits : Settled(d) /\ Progress(d) /\ Sent(d)
  BY DEF IInv
<1>2. /\ ~Accepted(c) /\ ~Parked(c) /\ retries' = [retries EXCEPT ![c] = retries[c] + 1]
      /\ task' = task /\ cancelled' = cancelled /\ tokenSent' = tokenSent /\ emitted' = emitted
      /\ up' = up /\ outages' = outages /\ backlog' = backlog /\ wire' = wire
  BY DEF SleepAndRetry, context, socket
<1>3. backlog = <<>> /\ retries[c] # MaxRetries
  BY <1>2 DEF Accepted, Parked
<1>4. retries[c] + 1 \in 0 .. MaxRetries /\ retries \in [Credits -> 0 .. MaxRetries]
  BY <1>1, <1>3, WorkerCreditsAssumption DEF Typed
<1>5. Typed'
  BY <1>1, <1>2, <1>4 DEF Typed
<1>6. ASSUME NEW d \in Credits PROVE Settled(d)' /\ Progress(d)' /\ Sent(d)'
  <2>1. Settled(d) /\ Progress(d) /\ Sent(d)
    BY <1>1
  <2>2. task'[d] \notin Sending => retries'[d] = 0
    BY <1>2, <1>4, <2>1 DEF Settled
  <2>3. DOMAIN backlog' = {}
    BY <1>2, <1>3
  <2>4. Settled(d)'
    BY <2>2, <2>3 DEF Settled
  <2>5. Progress(d)'
    BY <1>2, <2>1 DEF Progress
  <2>6. Sent(d)'
    BY <1>2, <2>1, QuietSent DEF Frames, CreditReturn
  <2> QED BY <2>4, <2>5, <2>6
<1> QED BY <1>5, <1>6 DEF IInv

(* The drain task moves the first parked frame to where it already stood.  *)
LEMMA DrainInv == ASSUME IInv, Drain PROVE IInv'
<1> DEFINE h == Head(backlog)
           b == Tail(backlog)
<1>1. Typed /\ \A d \in Credits : Settled(d) /\ Progress(d) /\ Sent(d)
  BY DEF IInv
<1>2. /\ backlog # <<>> /\ wire' = Append(wire, h) /\ backlog' = b
      /\ task' = task /\ retries' = retries /\ cancelled' = cancelled
      /\ tokenSent' = tokenSent /\ emitted' = emitted /\ up' = up /\ outages' = outages
  BY DEF Drain, context
<1>3. wire \in Seq(Frame) /\ backlog \in Seq(Frame)
  BY <1>1 DEF Typed
<1>4. h \in Frame /\ b \in Seq(Frame) /\ Len(b) = Len(backlog) - 1 /\ Len(backlog) \in Nat
      /\ h = backlog[1] /\ \A i \in 1 .. Len(b) : b[i] = backlog[i + 1]
  BY <1>2, <1>3, HeadTailProperties
<1> HIDE DEF h, b
<1>5. Typed'
  BY <1>1, <1>2, <1>3, <1>4, AppendProperties DEF Typed
<1>6. wire' = wire \o <<h>> /\ <<h>> \in Seq(Frame)
  BY <1>2, <1>3, <1>4, AppendIsConcat
<1>7. backlog = <<h>> \o b
  <2>1. <<h>> \o b \in Seq(Frame) /\ Len(<<h>> \o b) = Len(backlog)
    BY <1>4, <1>6, ConcatProperties
  <2>2. \A i \in 1 .. Len(backlog) : backlog[i] = (<<h>> \o b)[i]
    BY <1>4, <1>6
  <2> QED BY <1>3, <2>1, <2>2, SeqEqual
<1>8. Frames' = Frames
  BY <1>2, <1>3, <1>4, <1>6, <1>7, ConcatAssociative DEF Frames
<1>9. ASSUME NEW d \in Credits PROVE Settled(d)' /\ Progress(d)' /\ Sent(d)'
  <2>1. Settled(d) /\ Progress(d) /\ Sent(d)
    BY <1>1
  <2>2. DOMAIN backlog' = 1 .. Len(b) /\ DOMAIN backlog = 1 .. Len(backlog)
    BY <1>2, <1>3, <1>4
  <2>3. \A i \in 1 .. Len(b) : backlog'[i] = backlog[i + 1] /\ i + 1 \in 1 .. Len(backlog)
    BY <1>2, <1>4
  <2>4. Settled(d)'
    BY <1>2, <2>1, <2>2, <2>3 DEF Settled
  <2>5. Progress(d)'
    BY <1>2, <2>1 DEF Progress
  <2>6. Sent(d)'
    BY <1>2, <1>8, <2>1, QuietSent DEF CreditReturn
  <2> QED BY <2>4, <2>5, <2>6
<1> QED BY <1>5, <1>9 DEF IInv

LEMMA PeerInv == ASSUME IInv, PeerLost \/ PeerBack PROVE IInv'
<1>1. Typed /\ \A d \in Credits : Settled(d) /\ Progress(d) /\ Sent(d)
  BY DEF IInv
<1>2. /\ task' = task /\ retries' = retries /\ cancelled' = cancelled
      /\ tokenSent' = tokenSent /\ emitted' = emitted /\ backlog' = backlog /\ wire' = wire
  BY DEF PeerLost, PeerBack, context
<1>3. up' \in BOOLEAN /\ outages' \in 0 .. MaxOutages
  <2>1. outages \in 0 .. MaxOutages
    BY <1>1 DEF Typed
  <2>2. CASE PeerLost
    <3>1. up' = FALSE /\ outages < MaxOutages /\ outages' = outages + 1
      BY <2>2, Zenon DEF PeerLost
    <3>2. outages' \in 0 .. MaxOutages
      BY <2>1, <3>1, WorkerCreditsAssumption
    <3> QED BY <3>1, <3>2
  <2>3. CASE PeerBack
    BY <2>1, <2>3 DEF PeerBack, context
  <2> QED BY <2>2, <2>3
<1>4. Typed'
  BY <1>1, <1>2, <1>3 DEF Typed
<1>5. ASSUME NEW d \in Credits PROVE Settled(d)' /\ Progress(d)' /\ Sent(d)'
  <2>1. Settled(d) /\ Progress(d) /\ Sent(d)
    BY <1>1
  <2>2. Settled(d)' /\ Progress(d)'
    BY <1>2, <2>1 DEF Settled, Progress
  <2>3. Sent(d)'
    BY <1>2, <2>1, QuietSent DEF Frames, CreditReturn
  <2> QED BY <2>2, <2>3
<1> QED BY <1>4, <1>5 DEF IInv

-----------------------------------------------------------------------------
(* A delivered frame is inserted behind every frame of its credit.         *)
LEMMA DeliverInserts ==
  ASSUME Typed, NEW c \in Credits, Settled(c), NEW f \in Frame, Deliver(c, f)
  PROVE  /\ wire' \in Seq(Frame) /\ backlog' \in Seq(Frame)
         /\ backlog' \in {backlog, Append(backlog, f)}
         /\ \E k : /\ Inserted(Frames, Frames', k, f)
                   /\ \A i \in k .. Len(Frames) : Frames[i].credit # c
<1>1. wire \in Seq(Frame) /\ backlog \in Seq(Frame)
  BY DEF Typed
<1>2. /\ Len(wire) \in Nat /\ Len(backlog) \in Nat /\ Len(Frames) = Len(wire) + Len(backlog)
      /\ \A i \in 1 .. Len(Frames) :
           Frames[i] = IF i <= Len(wire) THEN wire[i] ELSE backlog[i - Len(wire)]
  BY <1>1, ConcatProperties DEF Frames
<1>3. CASE Accepted(c) /\ wire' = Append(wire, f) /\ UNCHANGED backlog
  <2> DEFINE k == Len(wire) + 1
  <2>1. wire' \in Seq(Frame) /\ Len(wire') = k /\ wire'[k] = f
        /\ \A i \in 1 .. Len(wire) : wire'[i] = wire[i]
    BY <1>1, <1>3, AppendProperties
  <2>2. /\ Len(Frames') = k + Len(backlog)
        /\ \A i \in 1 .. Len(Frames') :
             Frames'[i] = IF i <= k THEN wire'[i] ELSE backlog[i - k]
    BY <1>1, <1>3, <2>1, ConcatProperties DEF Frames
  <2>3. Inserted(Frames, Frames', k, f)
    BY <1>2, <2>1, <2>2 DEF Inserted
  <2>4. ASSUME NEW i \in k .. Len(Frames) PROVE Frames[i].credit # c
    <3>1. i - Len(wire) \in 1 .. Len(backlog) /\ Frames[i] = backlog[i - Len(wire)]
      BY <1>2
    <3>2. Len(backlog) # 0
      BY <1>2, <3>1
    <3>3. backlog # <<>>
      BY <3>2
    <3>4. retries[c] > 0
      BY <1>3, <3>3 DEF Accepted
    <3>5. DOMAIN backlog = 1 .. Len(backlog)
      BY <1>1
    <3> QED BY <3>1, <3>4, <3>5 DEF Settled
  <2> QED BY <1>1, <1>3, <2>1, <2>3, <2>4
<1>4. CASE ~Accepted(c) /\ Parked(c) /\ backlog' = Append(backlog, f) /\ UNCHANGED wire
  <2> DEFINE k == Len(Frames) + 1
  <2>1. /\ backlog' \in Seq(Frame) /\ Len(backlog') = Len(backlog) + 1
        /\ backlog'[Len(backlog) + 1] = f
        /\ \A i \in 1 .. Len(backlog) : backlog'[i] = backlog[i]
    BY <1>1, <1>4, AppendProperties
  <2>2. /\ Len(Frames') = k
        /\ \A i \in 1 .. k :
             Frames'[i] = IF i <= Len(wire) THEN wire[i] ELSE backlog'[i - Len(wire)]
    <3>1. Frames' = wire \o backlog'
      BY <1>4 DEF Frames
    <3>2. Len(wire \o backlog') = Len(wire) + Len(backlog')
      BY <1>1, <2>1, ConcatProperties
    <3>3. \A i \in 1 .. Len(wire) + Len(backlog') :
            (wire \o backlog')[i] = IF i <= Len(wire) THEN wire[i] ELSE backlog'[i - Len(wire)]
      BY <1>1, <2>1, ConcatProperties
    <3>4. Len(wire) + Len(backlog') = k
      BY <1>2, <2>1
    <3> QED BY <3>1, <3>2, <3>3, <3>4
  <2>3. Frames'[k] = f
    BY <1>2, <2>1, <2>2
  <2>4. ASSUME NEW i \in 1 .. k - 1 PROVE Frames'[i] = Frames[i]
    <3>1. ~(i <= Len(wire)) => i - Len(wire) \in 1 .. Len(backlog)
      BY <1>2
    <3>2. i \in 1 .. k /\ i \in 1 .. Len(Frames)
      BY <1>2
    <3>3. Frames'[i] = IF i <= Len(wire) THEN wire[i] ELSE backlog'[i - Len(wire)]
      BY <2>2, <3>2
    <3>4. Frames[i] = IF i <= Len(wire) THEN wire[i] ELSE backlog[i - Len(wire)]
      BY <1>2, <3>2
    <3> QED BY <2>1, <3>1, <3>3, <3>4
  <2>5. k .. Len(Frames) = {} /\ k \in 1 .. Len(Frames) + 1
    BY <1>2
  <2>6. Inserted(Frames, Frames', k, f)
    BY <2>2, <2>3, <2>4, <2>5 DEF Inserted
  <2> QED BY <1>1, <1>4, <2>1, <2>5, <2>6
<1> QED BY <1>3, <1>4 DEF Deliver

(* What a delivery does beside the frame it adds for its credit.           *)
LEMMA DeliverStep ==
  ASSUME IInv, NEW c \in Credits, NEW f \in Frame, f.credit = c, Deliver(c, f),
         NEW where \in Places \ Sending, task' = [task EXCEPT ![c] = where],
         cancelled' = cancelled, emitted' = emitted,
         tokenSent' \in {tokenSent, tokenSent \cup {c}},
         Progress(c)', Sent(c)'
  PROVE  IInv'
<1>1. Typed /\ \A d \in Credits : Settled(d) /\ Progress(d) /\ Sent(d)
  BY DEF IInv
<1>2. /\ wire' \in Seq(Frame) /\ backlog' \in Seq(Frame)
      /\ backlog' \in {backlog, Append(backlog, f)}
  BY <1>1, DeliverInserts
<1>3. PICK k : Inserted(Frames, Frames', k, f)
  BY <1>1, DeliverInserts
<1>4. retries' = [retries EXCEPT ![c] = 0] /\ up' = up /\ outages' = outages
  BY DEF Deliver
<1>5. Typed'
  BY <1>1, <1>2, <1>4, WorkerCreditsAssumption DEF Typed
<1>6. /\ task'[c] = where /\ retries'[c] = 0
      /\ \A d \in Credits \ {c} : task'[d] = task[d] /\ retries'[d] = retries[d]
  BY <1>1, <1>4 DEF Typed
<1>7. Settled(c)'
  BY <1>6 DEF Settled
<1>8. Frames \in Seq(Frame) /\ Frames' \in Seq(Frame)
  BY <1>1, <1>2, ConcatProperties DEF Frames, Typed
<1>9. ASSUME NEW d \in Credits \ {c} PROVE Settled(d)' /\ Progress(d)' /\ Sent(d)'
  <2>1. Settled(d) /\ Progress(d) /\ Sent(d)
    BY <1>1
  <2>2. retries[d] > 0 => \A i \in DOMAIN backlog' : backlog'[i].credit # d
    <3> SUFFICES ASSUME retries[d] > 0, NEW i \in DOMAIN backlog'
                 PROVE  backlog'[i].credit # d
      OBVIOUS
    <3>1. \A j \in DOMAIN backlog : backlog[j].credit # d
      BY <2>1 DEF Settled
    <3>2. CASE backlog' = backlog
      BY <3>1, <3>2
    <3>3. CASE backlog' = Append(backlog, f)
      <4>1. backlog \in Seq(Frame)
        BY <1>1 DEF Typed
      <4>2. (i \in DOMAIN backlog /\ backlog'[i] = backlog[i]) \/ backlog'[i] = f
        BY <3>3, <4>1, AppendProperties
      <4> QED BY <3>1, <4>2
    <3> QED BY <1>2, <3>2, <3>3
  <2>3. Settled(d)'
    BY <1>6, <2>1, <2>2 DEF Settled
  <2>4. Progress(d)'
    BY <1>6, <2>1 DEF Progress
  <2>5. (d \in tokenSent') = (d \in tokenSent)
    OBVIOUS
  <2>6. CreditReturn(d)' = CreditReturn(d)
    BY <2>5 DEF CreditReturn
  <2>7. Owed(Frames, d, task[d] = "done", d \in tokenSent, CreditReturn(d))
    BY <2>1 DEF Sent
  <2>8. f.credit # d
    OBVIOUS
  <2> DEFINE s == Frames
             t == Frames'
             done == task[d] = "done"
             token == d \in tokenSent
             ret == CreditReturn(d)
  <2>9. s \in Seq(Frame) /\ t \in Seq(Frame) /\ Inserted(s, t, k, f)
        /\ Owed(s, d, done, token, ret)
    BY <1>3, <1>8, <2>7
  <2> HIDE DEF s, t, done, token, ret
  <2>10. Owed(t, d, done, token, ret)
    BY <2>8, <2>9, OtherFrame
  <2>11. Owed(Frames', d, task'[d] = "done", d \in tokenSent', CreditReturn(d)')
    BY <1>6, <2>5, <2>6, <2>10 DEF t, done, token, ret
  <2>12. Sent(d)'
    BY <2>11 DEF Sent
  <2> QED BY <2>3, <2>4, <2>12
<1> QED BY <1>5, <1>7, <1>9 DEF IInv

LEMMA FirstTokenSentInv == ASSUME IInv, NEW c \in Credits, FirstTokenSent(c) PROVE IInv'
<1> DEFINE f == FirstToken(c)
<1>1. Typed /\ Settled(c) /\ Progress(c) /\ Sent(c)
  BY DEF IInv
<1>2. /\ task[c] = "token" /\ Deliver(c, f) /\ tokenSent' = tokenSent \cup {c}
      /\ task' = [task EXCEPT ![c] = "requesting"] /\ UNCHANGED <<cancelled, emitted>>
  BY DEF FirstTokenSent, Go
<1>3. f \in Frame /\ f \in Of("token", c) /\ f.credit = c
  BY DEF FirstToken, Frame, Of
<1> HIDE DEF f
<1>4. c \notin tokenSent /\ c \in tokenSent'
  BY <1>1, <1>2 DEF Progress
<1>5. PICK k : Inserted(Frames, Frames', k, f)
  BY <1>1, <1>2, <1>3, DeliverInserts
<1>6. Frames \in Seq(Frame) /\ Frames' \in Seq(Frame)
  BY <1>1, <1>2, <1>3, DeliverInserts, ConcatProperties DEF Frames, Typed
<1>7. task'[c] = "requesting"
  BY <1>1, <1>2 DEF Typed
<1>8. Progress(c)'
  BY <1>7 DEF Progress
<1>9. (task[c] = "done") = FALSE /\ (c \in tokenSent) = FALSE
      /\ (task'[c] = "done") = FALSE /\ (c \in tokenSent') = TRUE
  BY <1>2, <1>4, <1>7
<1>10. Owed(Frames, c, FALSE, FALSE, CreditReturn(c))
  BY <1>1, <1>9 DEF Sent
<1>11. Owed(Frames', c, FALSE, TRUE, CreditReturn(c)')
  BY <1>3, <1>5, <1>6, <1>10, TokenFrame
<1>12. Sent(c)'
  BY <1>9, <1>11 DEF Sent
<1> QED BY <1>2, <1>3, <1>8, <1>12, DeliverStep DEF Places, Sending

(* The return, by the task itself or for it.                               *)
LEMMA ReturnInv == ASSUME IInv, NEW c \in Credits, Returned(c) \/ Resent(c) PROVE IInv'
<1> DEFINE f == CreditReturn(c)
<1>1. Typed /\ Settled(c) /\ Progress(c) /\ Sent(c)
  BY DEF IInv
<1>2. /\ task[c] \in {"returning", "resending"} /\ Deliver(c, f)
      /\ task' = [task EXCEPT ![c] = "done"]
      /\ cancelled' = cancelled /\ tokenSent' = tokenSent /\ emitted' = emitted
  BY DEF Returned, Resent, Go, context
<1>3. f \in Frame /\ f \in Of("return", c) /\ f.credit = c /\ CreditReturn(c)' = f
  BY <1>2 DEF CreditReturn, Frame, Of
<1> HIDE DEF f
<1>4. PICK k : /\ Inserted(Frames, Frames', k, f)
               /\ \A i \in k .. Len(Frames) : Frames[i].credit # c
  BY <1>1, <1>2, <1>3, DeliverInserts
<1>5. Frames \in Seq(Frame) /\ Frames' \in Seq(Frame)
  BY <1>1, <1>2, <1>3, DeliverInserts, ConcatProperties DEF Frames, Typed
<1>6. task'[c] = "done"
  BY <1>1, <1>2 DEF Typed
<1>7. Progress(c)'
  BY <1>1, <1>2, <1>6 DEF Progress
<1>8. (task[c] = "done") = FALSE /\ (task'[c] = "done") = TRUE
  BY <1>2, <1>6
<1> DEFINE token == c \in tokenSent
<1>9. Owed(Frames, c, FALSE, token, f)
  BY <1>1, <1>8 DEF Sent, f
<1> HIDE DEF token
<1>10. Owed(Frames', c, TRUE, token, f)
  BY <1>3, <1>4, <1>5, <1>9, ReturnFrame
<1>11. Sent(c)'
  BY <1>2, <1>3, <1>8, <1>10 DEF Sent, token
<1> QED BY <1>2, <1>3, <1>7, <1>11, DeliverStep DEF Places, Sending

LEMMA NextInv == IInv /\ [Next]_vars => IInv'
<1> SUFFICES ASSUME IInv, [Next]_vars PROVE IInv'
  OBVIOUS
<1>1. CASE UNCHANGED vars
  <2>1. /\ task' = task /\ retries' = retries /\ cancelled' = cancelled
        /\ tokenSent' = tokenSent /\ emitted' = emitted /\ up' = up
        /\ outages' = outages /\ backlog' = backlog /\ wire' = wire
    BY <1>1 DEF vars, context, socket
  <2>2. Typed' <=> Typed
    BY <2>1 DEF Typed
  <2>3. \A c \in Credits : (Settled(c)' <=> Settled(c)) /\ (Progress(c)' <=> Progress(c))
    BY <2>1 DEF Settled, Progress
  <2>4. \A c \in Credits : Sent(c)' <=> Sent(c)
    BY <2>1 DEF Sent, Frames, CreditReturn
  <2> QED BY <2>2, <2>3, <2>4 DEF IInv
<1>2. CASE Next
  <2>1. ASSUME NEW c \in Credits, CreditDrop(c) \/ OnFirstToken(c) \/ CancelCredit(c)
        PROVE  IInv'
    BY <2>1, CreditDropInv, OnFirstTokenInv, CancelCreditInv
  <2>2. ASSUME NEW c \in Credits, Step(c) PROVE IInv'
    BY <2>2, TaskStartsInv, RequestEndsInv, FirstTokenSentInv, ReturnInv, SleepAndRetryInv
       DEF Step, Sending
  <2> QED BY <1>2, <2>1, <2>2, DrainInv, PeerInv DEF Next
<1> QED BY <1>1, <1>2

LEMMA Invariance == Spec => []IInv
BY InitInv, NextInv, PTL DEF Spec
-----------------------------------------------------------------------------
LEMMA SmallSets == Cardinality({}) = 0 /\ \A i : Cardinality({i}) = 1
BY FS_Singleton, FS_EmptySet

LEMMA FramesOfCredit ==
  ASSUME IInv, NEW c \in Credits
  PROVE  /\ ReturnsOf(c) = At(Frames, Of("return", c))
         /\ TokensOf(c) = At(Frames, Of("token", c))
<1>1. Frames \in Seq(Frame)
  BY ConcatProperties DEF IInv, Typed, Frames
<1>2. \A i \in DOMAIN Frames : Frames[i] \in Frame
  BY <1>1
<1> QED BY <1>2 DEF ReturnsOf, TokensOf, At, Of

LEMMA TypeCorrect == IInv => TypeOK
<1> SUFFICES ASSUME IInv PROVE TypeOK
  OBVIOUS
<1>1. Typed /\ \A c \in Credits : Settled(c)
  BY DEF IInv
<1>2. ASSUME NEW c \in Credits
      PROVE  retries[c] \in IF task[c] \in Sending THEN 0 .. MaxRetries ELSE {0}
  BY <1>1 DEF Typed, Settled
<1>3. ASSUME NEW i \in DOMAIN Frames PROVE Frames[i].credit \in Credits
  <2>1. Frames \in Seq(Frame)
    BY <1>1, ConcatProperties DEF Typed, Frames
  <2>2. Frames[i] \in Frame
    BY <2>1
  <2> QED BY <2>2 DEF Frame
<1>4. task \in [Credits -> Places] /\ {cancelled, tokenSent, emitted} \subseteq SUBSET Credits
  BY <1>1 DEF Typed
<1>5. up \in BOOLEAN /\ outages \in 0 .. MaxOutages
  BY <1>1 DEF Typed
<1> QED BY <1>2, <1>3, <1>4, <1>5 DEF TypeOK, Places, Sending

(* ReturnedOnce of _on_credit_drop_message_task and its done callback: the *)
(* socket gets one CreditReturn for each credit, whatever is cancelled,    *)
(* retried or parked, for any number of credits.                           *)
THEOREM ReturnedOnceThm == Spec => []ReturnedOnce
<1>1. ASSUME IInv, NEW c \in Credits
      PROVE  Cardinality(ReturnsOf(c)) = IF task[c] = "done" THEN 1 ELSE 0
  <2> DEFINE R == ReturnsOf(c)
  <2>1. IF task[c] = "done" THEN \E i \in DOMAIN Frames : R = {i} ELSE R = {}
    BY <1>1, FramesOfCredit DEF IInv, Sent, Owed
  <2> HIDE DEF R
  <2>2. CASE task[c] = "done"
    BY <2>1, <2>2, SmallSets DEF R
  <2>3. CASE task[c] # "done"
    BY <2>1, <2>3, SmallSets DEF R
  <2> QED BY <2>2, <2>3
<1>2. IInv => ReturnedOnce
  BY <1>1, TypeCorrect DEF ReturnedOnce
<1> QED BY <1>2, Invariance, PTL

(* CompletedHasRecord: execute_credit emits a record, of a failure at      *)
(* least, before the finally block builds a return that is not cancelled,  *)
(* so the records manager never waits for one that will not come.          *)
THEOREM CompletedHasRecordThm == Spec => []CompletedHasRecord
<1>1. ASSUME IInv, NEW c \in Credits, NEW i \in ReturnsOf(c), ~Frames[i].cancelled
      PROVE  Frames[i].emitted
  <2>1. i \in At(Frames, Of("return", c))
    BY <1>1, FramesOfCredit
  <2>2. task[c] = "done" /\ Frames[i] = CreditReturn(c)
    <3>1. /\ task[c] # "done" => At(Frames, Of("return", c)) = {}
          /\ \A j \in At(Frames, Of("return", c)) : Frames[j] = CreditReturn(c)
      BY <1>1 DEF IInv, Sent, Owed
    <3> QED BY <2>1, <3>1
  <2>3. c \in emitted \/ c \in cancelled
    BY <1>1, <2>2 DEF IInv, Progress
  <2>4. Frames[i].cancelled = (c \in cancelled) /\ Frames[i].emitted = (c \in emitted)
    BY <2>2 DEF CreditReturn
  <2> QED BY <1>1, <2>3, <2>4
<1>2. IInv => CompletedHasRecord
  BY <1>1 DEF CompletedHasRecord
<1> QED BY <1>2, Invariance, PTL

(* FirstTokenComesFirst: the order holds although a retried send may pass  *)
(* frames that were parked before it, because none of them is its own      *)
(* credit's; and the return tells of the token exactly if it was sent.     *)
THEOREM FirstTokenComesFirstThm == Spec => []FirstTokenComesFirst
<1>1. ASSUME IInv, NEW c \in Credits
      PROVE  /\ Cardinality(TokensOf(c)) <= 1
             /\ \A i \in ReturnsOf(c) : /\ \A j \in TokensOf(c) : j < i
                                        /\ Frames[i].token = (TokensOf(c) # {})
  <2> DEFINE R == ReturnsOf(c)
             T == TokensOf(c)
  <2>1. /\ IF c \in tokenSent THEN \E j \in DOMAIN Frames : T = {j} ELSE T = {}
        /\ \A i \in R : Frames[i] = CreditReturn(c) /\ \A j \in T : j < i
    BY <1>1, FramesOfCredit DEF IInv, Sent, Owed
  <2> HIDE DEF R, T
  <2>2. Cardinality(T) <= 1
    <3>1. T = {} \/ \E j : T = {j}
      BY <2>1
    <3>2. Cardinality(T) = 0 \/ Cardinality(T) = 1
      BY <3>1, SmallSets
    <3> QED BY <3>2
  <2>3. (c \in tokenSent) = (T # {})
    BY <2>1
  <2>4. \A i \in R : Frames[i].token = (c \in tokenSent)
    BY <2>1 DEF CreditReturn
  <2>5. \A i \in R : Frames[i].token = (T # {})
    BY <2>3, <2>4
  <2>6. \A i \in R : \A j \in T : j < i
    BY <2>1
  <2> QED BY <2>2, <2>5, <2>6 DEF R, T
<1>2. IInv => FirstTokenComesFirst
  BY <1>1 DEF FirstTokenComesFirst
<1> QED BY <1>2, Invariance, PTL
=============================================================================
