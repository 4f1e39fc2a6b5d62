--------------------------- MODULE WorkerCredits ----------------------------
(***************************************************************************)
(* What a worker owes for each credit: exactly one CreditReturn to the     *)
(* router, and one record to the records manager if the return does not    *)
(* say cancelled.  Every credit is a task of its own; a CancelCredits      *)
(* message may cancel it wherever it waits.  Returns and FirstTokens go    *)
(* through a push socket whose peer may be away for a while: a send is     *)
(* retried a few times in the sending task, then its frame is parked in a  *)
(* backlog that a drain task works off; once a frame is parked, what is    *)
(* sent later queues behind it.                                            *)
(***************************************************************************)
EXTENDS Naturals, Sequences, FiniteSets

CONSTANTS
  Credits,       \* the credits this worker receives
  MaxRetries,    \* PUSH_MAX_RETRIES
  MaxOutages     \* bound: how often the peer goes away

ASSUME WorkerCreditsAssumption == MaxRetries \in Nat /\ MaxOutages \in Nat

VARIABLES
  task,       \* where the task of each credit stands
  retries,    \* attempts its pending send has made in vain
  cancelled,  \* credit_context.cancelled
  tokenSent,  \* credit_context.first_token_sent
  emitted,    \* credit_context.record_emitted
  up,         \* the peer of the push socket accepts frames
  outages,    \* outages so far
  backlog,    \* _send_buf
  wire        \* the frames the socket accepted, in order

context == <<cancelled, tokenSent, emitted>>
socket == <<up, outages, backlog, wire>>
vars == <<task, retries, context, socket>>

Init ==
  /\ task = [c \in Credits |-> "none"]
  /\ retries = [c \in Credits |-> 0]
  /\ cancelled = {} /\ tokenSent = {} /\ emitted = {}
  /\ up = TRUE /\ outages = 0
  /\ backlog = <<>> /\ wire = <<>>

-----------------------------------------------------------------------------
Go(c, where) == task' = [task EXCEPT ![c] = where]

FirstToken(c) == [kind |-> "token", credit |-> c]
CreditReturn(c) == [kind |-> "return", credit |-> c, cancelled |-> c \in cancelled,
                    token |-> c \in tokenSent, emitted |-> c \in emitted]

(* Mutant: a frame that finds the socket free overtakes the backlog.       *)
AcceptedOutOfTurn(c) == up

(* send: the first attempt is not made while anything is parked; a retry   *)
(* that finds the peer back does not look.                                 *)
Accepted(c) == up /\ (backlog = <<>> \/ retries[c] > 0)

(* The frame goes to the socket, or to the backlog if others wait there or *)
(* all retries are used up; otherwise its task sleeps and tries again.     *)
Parked(c) == backlog # <<>> \/ (~up /\ retries[c] = MaxRetries)

Deliver(c, frame) ==
  /\ \/ Accepted(c) /\ wire' = Append(wire, frame) /\ UNCHANGED backlog
     \/ ~Accepted(c) /\ Parked(c) /\ backlog' = Append(backlog, frame) /\ UNCHANGED wire
  /\ retries' = [retries EXCEPT ![c] = 0]
  /\ UNCHANGED <<up, outages>>

SleepAndRetry(c) ==
  /\ ~Accepted(c) /\ ~Parked(c)
  /\ retries' = [retries EXCEPT ![c] = @ + 1]
  /\ UNCHANGED <<task, context, socket>>

StartSend(c) == retries' = [retries EXCEPT ![c] = 0]

-----------------------------------------------------------------------------
(* _schedule_credit_drop_task                                              *)
CreditDrop(c) ==
  /\ task[c] = "none" /\ Go(c, "scheduled")
  /\ UNCHANGED <<retries, context, socket>>

TaskStarts(c) ==
  /\ task[c] = "scheduled" /\ Go(c, "requesting")
  /\ UNCHANGED <<retries, context, socket>>

(* on_first_token, with prefill concurrency: the request waits for the     *)
(* FirstToken to be sent or parked.                                        *)
OnFirstToken(c) ==
  /\ task[c] = "requesting" /\ c \notin tokenSent
  /\ Go(c, "token") /\ StartSend(c)
  /\ UNCHANGED <<context, socket>>

FirstTokenSent(c) ==
  /\ task[c] = "token"
  /\ Deliver(c, FirstToken(c))
  /\ tokenSent' = tokenSent \cup {c}
  /\ Go(c, "requesting")
  /\ UNCHANGED <<cancelled, emitted>>

(* Mutant: what fails before a record was made returns without one.        *)
RequestEndsBare(c) ==
  /\ task[c] = "requesting"
  /\ Go(c, "returning") /\ StartSend(c)
  /\ emitted' \in {emitted, emitted \cup {c}}
  /\ UNCHANGED <<cancelled, tokenSent, socket>>

(* The request is answered, fails or is never made: its record, or a       *)
(* failure record in its place, is emitted before the return is sent.      *)
RequestEnds(c) ==
  /\ task[c] = "requesting"
  /\ emitted' = emitted \cup {c}
  /\ Go(c, "returning") /\ StartSend(c)
  /\ UNCHANGED <<cancelled, tokenSent, socket>>

(* The finally of _on_credit_drop_message_task; the done callback has      *)
(* nothing left to do.                                                     *)
Returned(c) ==
  /\ task[c] = "returning"
  /\ Deliver(c, CreditReturn(c))
  /\ Go(c, "done")
  /\ UNCHANGED context

-----------------------------------------------------------------------------
(* Mutant: the done callback trusts the finally block.                     *)
NotReturned(c) == Go(c, "done") /\ retries' = [retries EXCEPT ![c] = 0]

(* _on_credit_drop_message_task_done: the task ended without its return,   *)
(* another task sends it.                                                  *)
ReturnByCallback(c) == Go(c, "resending") /\ StartSend(c)

(* Mutant: a task is cancelled even if its return is on its way already.   *)
CancelCreditAtAnyTime(c) ==
  /\ task[c] \in {"scheduled", "requesting", "token", "returning", "done"}
  /\ cancelled' = cancelled \cup {c}
  /\ IF task[c] \in {"requesting", "token"} THEN Go(c, "returning") /\ StartSend(c)
                                            ELSE ReturnByCallback(c)
  /\ UNCHANGED <<tokenSent, emitted, socket>>

(* CancelCredits finds the task waiting: to be started, for its request,   *)
(* or in the sleep of a send.  Only the finally block of a task that was   *)
(* started returns its credit, and not if it is that send that is cut off. *)
CancelCredit(c) ==
  /\ \/ task[c] \in {"scheduled", "requesting"}
     \/ task[c] \in {"token", "returning"} /\ retries[c] > 0
  /\ cancelled' = cancelled \cup {c}
  /\ IF task[c] \in {"requesting", "token"} THEN Go(c, "returning") /\ StartSend(c)
                                            ELSE ReturnByCallback(c)
  /\ UNCHANGED <<tokenSent, emitted, socket>>

Resent(c) ==
  /\ task[c] = "resending"
  /\ Deliver(c, CreditReturn(c))
  /\ Go(c, "done")
  /\ UNCHANGED context

-----------------------------------------------------------------------------
(* _drain_send_buffer                                                      *)
Drain ==
  /\ up /\ backlog # <<>>
  /\ wire' = Append(wire, Head(backlog)) /\ backlog' = Tail(backlog)
  /\ UNCHANGED <<task, retries, context, up, outages>>

(* The peer is not connected yet, or its connection is lost for a while.   *)
PeerLost ==
  /\ up /\ outages < MaxOutages
  /\ up' = FALSE /\ outages' = outages + 1
  /\ UNCHANGED <<task, retries, context, backlog, wire>>

PeerBack ==
  /\ ~up /\ up' = TRUE
  /\ UNCHANGED <<task, retries, context, outages, backlog, wire>>

Step(c) ==
  \/ TaskStarts(c) \/ RequestEnds(c) \/ FirstTokenSent(c) \/ Returned(c) \/ Resent(c)
  \/ (task[c] \in {"token", "returning", "resending"} /\ SleepAndRetry(c))

Next ==
  \/ \E c \in Credits : CreditDrop(c) \/ OnFirstToken(c) \/ CancelCredit(c) \/ Step(c)
  \/ Drain \/ PeerLost \/ PeerBack

Spec == Init /\ [][Next]_vars

(* The event loop runs every task that does not wait, requests are         *)
(* answered or time out, the drain task runs, and the peer comes back.     *)
Fairness ==
  /\ \A c \in Credits : WF_vars(Step(c))
  /\ WF_vars(Drain) /\ WF_vars(PeerBack)

FairSpec == Spec /\ Fairness

-----------------------------------------------------------------------------
Frames == wire \o backlog
ReturnsOf(c) == {i \in DOMAIN Frames : Frames[i].kind = "return" /\ Frames[i].credit = c}
TokensOf(c) == {i \in DOMAIN Frames : Frames[i].kind = "token" /\ Frames[i].credit = c}

(* Every variable has its type.                                            *)
TypeOK ==
  /\ task \in [Credits -> {"none", "scheduled", "requesting", "token", "returning",
                           "resending", "done"}]
  /\ \A c \in Credits :
       retries[c] \in IF task[c] \in {"token", "returning", "resending"} THEN 0 .. MaxRetries
                                                                         ELSE {0}
  /\ {cancelled, tokenSent, emitted} \subseteq SUBSET Credits
  /\ up \in BOOLEAN /\ outages \in 0 .. MaxOutages
  /\ \A i \in DOMAIN Frames : Frames[i].credit \in Credits

(* A credit is returned once, by the finally block or by the done          *)
(* callback, never by both.                                                *)
ReturnedOnce ==
  /\ TypeOK
  /\ \A c \in Credits : Cardinality(ReturnsOf(c)) = IF task[c] = "done" THEN 1 ELSE 0

(* A return that counts as completed has a record: the records manager     *)
(* waits for it without a timeout.                                         *)
CompletedHasRecord ==
  \A c \in Credits : \A i \in ReturnsOf(c) : ~Frames[i].cancelled => Frames[i].emitted

(* A FirstToken is sent once and before the return of its credit, and the  *)
(* return says so exactly if it was: the timing manager releases the       *)
(* prefill slot on whichever of the two tells it to.                       *)
FirstTokenComesFirst ==
  \A c \in Credits :
    /\ Cardinality(TokensOf(c)) <= 1
    /\ \A i \in ReturnsOf(c) : /\ \A j \in TokensOf(c) : j < i
                               /\ Frames[i].token = (TokensOf(c) # {})

(* Every credit comes back, cancelled or not, through outages.             *)
EveryCreditReturns ==
  \A c \in Credits : task[c] = "scheduled" ~>
    \E i \in DOMAIN wire : wire[i].kind = "return" /\ wire[i].credit = c
=============================================================================
