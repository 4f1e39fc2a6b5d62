---------------------- MODULE PhaseOrchestrator_proofs ----------------------
(***************************************************************************)
(* What the orchestrator promises about a run, for any number of phases,   *)
(* any plan, and whatever is cancelled or fails meanwhile: who owns the    *)
(* profiler, that a failed node fails the run, and that the phase messages *)
(* come in the order of RunEvents.                                         *)
(*                                                                         *)
(* The difficulty is in the tasks nobody awaits.  The loop is at one phase *)
(* (Spots), but the runners it left behind go on in detached waits, and    *)
(* the barrier at the end awaits those still on the list of active         *)
(* runners.  So the invariant says of every runner why it is on that list, *)
(* or what has taken it off (Waits, Dues); the three promises follow.      *)
(***************************************************************************)
EXTENDS PhaseOrchestrator, TLAPS

USE DEF control, runners, errors, profiler, messages, Go, Tell

Ended == {"finished", "failed", "cancelled"}

Typed ==
  /\ plan \in Plans
  /\ main \in {"loop", "barrier", "draining", "failing", "finish", "raise", "interrupted"}
                \cup Ended
  /\ pos \in Phases
  /\ at \in [Phases -> {"none", "starting", "setup", "sending", "sent", "waiting", "closing",
                        "raising", "returned", "raised", "left", "failed"}]
  /\ wait \in [Phases -> {"none", "waiting", "closing", "closed", "cutting", "cut"}]
  /\ called \subseteq Phases /\ due \subseteq Phases
  /\ swept \subseteq Phases /\ active \subseteq Phases
  /\ error \subseteq Phases /\ owners \subseteq Phases /\ stops \subseteq Phases
  /\ seamlessError \in BOOLEAN /\ nodeFailed \in BOOLEAN
  /\ profiling \in BOOLEAN /\ over \in BOOLEAN
  /\ cancel \in [Cancellers -> {"idle", "called", "done"}]
  /\ stage \in [Phases -> {"new", "started", "sent", "complete"}]

(* No cancel() has got to the runners.                                     *)
Unswept == \A who \in Cancellers : cancel[who] # "done"

(* The loop has left the phases before pos and not begun those after it;   *)
(* how _execute_phases came to where it stands.                            *)
Spots ==
  /\ \A p \in Phases : (p < pos => at[p] = "left") /\ (p > pos => at[p] = "none")
  /\ main # "loop" => at[pos] \in {"left", "failed"}
  /\ main \notin {"loop", "failing", "raise", "failed"} => pos = NumPhases /\ at[pos] = "left"
  /\ cancel["failure"] # "idle" => main \in {"failing", "raise", "failed"}
  /\ main = "failing" => cancel["failure"] # "idle"
  /\ main \in {"interrupted", "cancelled", "raise", "failed"} => ~Unswept
  /\ over <=> main \in Ended

(* A runner is active until its detached wait has called back, or a cancel *)
(* has got to it; only a runner left behind has a detached wait.           *)
Waits ==
  \A p \in Phases :
    /\ p \in swept => at[p] # "none"
    /\ at[p] \in {"waiting", "closing"} => ~LeftBehind(p)
    /\ wait[p] # "none" => LeftBehind(p) /\ at[p] \in {"returned", "left"}
    /\ p \in called => wait[p] \in {"closed", "cut"}
    /\ Unswept => wait[p] \notin {"cutting", "cut"}
    /\ p \in swept /\ Unswept => at[p] \in {"raising", "raised", "failed"}
    /\ p \in active =>
         /\ at[p] # "none" /\ wait[p] \notin {"cutting", "cut"}
         /\ p \in swept => at[p] \in {"raising", "raised", "failed"}
         /\ LeftBehind(p) /\ at[p] \in {"returned", "left"} => wait[p] # "none"
         /\ ~LeftBehind(p) => p = pos
    /\ at[p] # "none" /\ Unswept /\ p \notin active =>
         p \in called \/ (~LeftBehind(p) /\ (p < pos \/ main # "loop"))

(* The barrier awaits all detached waits that have not called back; after  *)
(* it they have all published, unless a cancel cut one short.              *)
Dues ==
  /\ main = "loop" => due = {}
  /\ \A p \in due : wait[p] # "none"
  /\ Unswept /\ main = "barrier" => \A p \in Phases : wait[p] = "none" \/ p \in called \cup due
  /\ Unswept /\ main \in {"draining", "finish", "finished"} =>
       \A p \in Phases : wait[p] \in {"none", "closed"}

(* Who owns the profiler: the phase at work, and those left behind until   *)
(* their waits have called back.                                           *)
Profiler ==
  /\ profiling <=> owners # {}
  /\ owners # {} => plan.profiled
  /\ \A p \in Phases :
       /\ p \in owners => at[p] \notin {"none", "starting", "failed"}
       /\ p \in owners /\ at[p] = "left" => Deferred(p)
       /\ at[p] = "starting" => plan.profiled
  /\ main = "loop" /\ at[pos] # "none" /\ pos \notin active /\ ~LeftBehind(pos) =>
       owners \subseteq {pos}
  /\ \A p \in due : wait[p] \in {"cutting", "cut"} => owners = {}
  /\ main \in {"interrupted", "finish", "raise"} \cup Ended \/ cancel["failure"] = "done" =>
       owners = {}

(* The error of the runner of p has not been looked at yet.                *)
Unchecked(p) ==
  at[p] \in {"sending", "sent", "waiting", "closing", "raising", "raised", "failed"}
  \/ (wait[p] # "none" /\ p \notin called)

(* The error of a failed node is on its way to the exit of the run: raised *)
(* already, noted by the orchestrator, or still with a runner whose exit   *)
(* looks at it.                                                            *)
Failure ==
  nodeFailed /\ cancel["command"] = "idle" =>
    \/ main \in {"failing", "raise", "interrupted", "failed", "cancelled"}
    \/ main \in {"loop", "barrier", "draining"} /\ seamlessError
    \/ main = "loop" /\ \E p \in error : Unchecked(p)
    \/ main = "barrier" /\ \E p \in error \cap due : p \notin called

(* What a runner has published, from where its tasks stand.                *)
Stages ==
  \A p \in Phases :
    /\ at[p] \in {"none", "starting", "setup"} => stage[p] = "new"
    /\ at[p] = "sending" => stage[p] = "started"
    /\ at[p] \in {"sent", "waiting", "closing"} => stage[p] = "sent"
    /\ at[p] = "raised" => stage[p] = "complete"
    /\ at[p] = "failed" => stage[p] \in {"new", "complete"}
    /\ at[p] \in {"returned", "left"} => stage[p] \in {"sent", "complete"}
    /\ wait[p] \in {"waiting", "closing", "cutting"} => stage[p] = "sent"
    /\ wait[p] = "closed" => stage[p] = "complete"
    /\ at[p] \in {"returned", "left"} /\ Unswept /\ wait[p] = "none" => stage[p] = "complete"

IInv == Typed /\ Spots /\ Waits /\ Dues /\ Profiler /\ Failure /\ Stages

-----------------------------------------------------------------------------
(* The typing used here gives the type invariant that is model-checked.    *)
LEMMA TypedOK == Typed => TypeOK
BY DEF Typed, TypeOK, Ended

(* The first owner waits for the profiler alone: nobody else can turn it   *)
(* off.                                                                    *)
LEMMA ProfilerStartedKeeps ==
  ASSUME IInv, NEW p \in Phases, ProfilerStarted(p)
  PROVE  IInv'
<1>1. Typed /\ Spots /\ Waits /\ Dues /\ Profiler /\ Failure /\ Stages
  BY DEF IInv
<1>2. (Unswept' <=> Unswept) /\ \A q : LeftBehind(q)' = LeftBehind(q)
  BY DEF ProfilerStarted, Unswept, LeftBehind
<1>3. p = pos /\ main = "loop"
  BY <1>1, PhaseOrchestratorAssumption DEF ProfilerStarted, Spots, Typed, Phases
<1>4. Typed'
  BY <1>1, <1>2, <1>3 DEF ProfilerStarted, Typed
<1>5. Spots'
  BY <1>1, <1>2, <1>3 DEF ProfilerStarted, Spots, Waits, Dues, Typed
<1>6. Waits'
  BY <1>1, <1>2, <1>3 DEF ProfilerStarted, Waits, Spots, Typed
<1>7. Dues'
  BY <1>1, <1>2, <1>3 DEF ProfilerStarted, Dues, Spots, Waits, Typed
<1>8. Profiler'
  <2>1. CASE owners' = owners \cup {p} /\ profiling' = TRUE /\ Go(p, "setup")
    <3>1. /\ at' = [at EXCEPT ![p] = "setup"] /\ at[p] = "starting"
          /\ UNCHANGED <<plan, main, pos, wait, active, due, cancel>>
      BY <2>1 DEF ProfilerStarted
    <3>2. plan.profiled /\ due = {} /\ cancel["failure"] = "idle"
      BY <1>1, <1>3, <3>1 DEF Profiler, Dues, Spots
    <3>3. \A q \in Phases :
            /\ q \in owners' => at'[q] \notin {"none", "starting", "failed"}
            /\ q \in owners' /\ at'[q] = "left" => Deferred(q)'
            /\ at'[q] = "starting" => plan'.profiled
      BY <1>1, <2>1, <3>1 DEF Profiler, Typed, Deferred, LeftBehind
    <3>4. pos \notin active /\ ~LeftBehind(pos) => owners' \subseteq {pos}
      BY <1>1, <1>3, <2>1, <3>1 DEF Profiler
    <3> QED BY <1>2, <1>3, <2>1, <3>1, <3>2, <3>3, <3>4 DEF Profiler, Ended
  <2>2. CASE Go(p, "failed") /\ UNCHANGED <<owners, profiling>>
    BY <1>1, <1>2, <1>3, <2>2 DEF ProfilerStarted, Profiler, Spots, Dues, Typed, Deferred
  <2> QED BY <2>1, <2>2 DEF ProfilerStarted
<1>9. Failure'
  BY <1>1, <1>2, <1>3 DEF ProfilerStarted, Failure, Spots, Waits, Dues, Unchecked, Typed
<1>10. Stages'
  BY <1>1, <1>2, <1>3 DEF ProfilerStarted, Stages, Spots, Waits, Typed
<1> QED BY <1>4, <1>5, <1>6, <1>7, <1>8, <1>9, <1>10 DEF IInv

(* STARTED is published, or the setup raises.                              *)
LEMMA SetUpKeeps ==
  ASSUME IInv, NEW p \in Phases, SetUp(p)
  PROVE  IInv'
<1>1. Typed /\ Spots /\ Waits /\ Dues /\ Profiler /\ Failure /\ Stages
  BY DEF IInv
<1>2. (Unswept' <=> Unswept) /\ \A q : LeftBehind(q)' = LeftBehind(q)
  BY DEF SetUp, Unswept, LeftBehind
<1>3. p = pos /\ main = "loop"
  BY <1>1, PhaseOrchestratorAssumption DEF SetUp, Spots, Typed, Phases
<1>4. Typed'
  BY <1>1, <1>2, <1>3 DEF SetUp, Typed
<1>5. Spots'
  BY <1>1, <1>2, <1>3 DEF SetUp, Spots, Waits, Dues, Typed
<1>6. Waits'
  BY <1>1, <1>2, <1>3 DEF SetUp, Waits, Spots, Typed
<1>7. Dues'
  BY <1>1, <1>2, <1>3 DEF SetUp, Dues, Spots, Waits, Typed
<1>8. Profiler'
  BY <1>1, <1>2, <1>3 DEF SetUp, Profiler, Spots, Waits, Dues, Typed, Deferred
<1>9. Failure'
  BY <1>1, <1>2, <1>3 DEF SetUp, Failure, Spots, Waits, Dues, Unchecked, Typed
<1>10. Stages'
  BY <1>1, <1>2, <1>3 DEF SetUp, Stages, Spots, Waits, Typed
<1> QED BY <1>4, <1>5, <1>6, <1>7, <1>8, <1>9, <1>10 DEF IInv

(* SENDING_COMPLETE is published on both ways out of sending.              *)
LEMMA SendingEndsKeeps ==
  ASSUME IInv, NEW p \in Phases, SendingEnds(p)
  PROVE  IInv'
<1>1. Typed /\ Spots /\ Waits /\ Dues /\ Profiler /\ Failure /\ Stages
  BY DEF IInv
<1>2. (Unswept' <=> Unswept) /\ \A q : LeftBehind(q)' = LeftBehind(q)
  BY DEF SendingEnds, Unswept, LeftBehind
<1>3. p = pos /\ main = "loop"
  BY <1>1, PhaseOrchestratorAssumption DEF SendingEnds, Spots, Typed, Phases
<1>4. Typed'
  BY <1>1, <1>2, <1>3 DEF SendingEnds, Typed
<1>5. Spots'
  BY <1>1, <1>2, <1>3 DEF SendingEnds, Spots, Waits, Dues, Typed
<1>6. Waits'
  BY <1>1, <1>2, <1>3 DEF SendingEnds, Waits, Spots, Typed
<1>7. Dues'
  BY <1>1, <1>2, <1>3 DEF SendingEnds, Dues, Spots, Waits, Typed
<1>8. Profiler'
  BY <1>1, <1>2, <1>3 DEF SendingEnds, Profiler, Spots, Waits, Dues, Typed, Deferred
<1>9. Failure'
  BY <1>1, <1>2, <1>3 DEF SendingEnds, Failure, Spots, Waits, Dues, Unchecked, Typed
<1>10. Stages'
  BY <1>1, <1>2, <1>3 DEF SendingEnds, Stages, Spots, Waits, Typed
<1> QED BY <1>4, <1>5, <1>6, <1>7, <1>8, <1>9, <1>10 DEF IInv

(* A runner that is not waited for is left behind or was cancelled.        *)
LEMMA LeaveOrWaitKeeps ==
  ASSUME IInv, NEW p \in Phases, LeaveOrWait(p)
  PROVE  IInv'
<1>1. Typed /\ Spots /\ Waits /\ Dues /\ Profiler /\ Failure /\ Stages
  BY DEF IInv
<1>2. (Unswept' <=> Unswept) /\ \A q : LeftBehind(q)' = LeftBehind(q)
  BY DEF LeaveOrWait, Unswept, LeftBehind
<1>3. p = pos /\ main = "loop"
  BY <1>1, PhaseOrchestratorAssumption DEF LeaveOrWait, Spots, Typed, Phases
<1>4. Typed'
  BY <1>1, <1>2, <1>3 DEF LeaveOrWait, Typed
<1>5. Spots'
  BY <1>1, <1>2, <1>3 DEF LeaveOrWait, Spots, Waits, Dues, Typed
<1>6. Waits'
  BY <1>1, <1>2, <1>3 DEF LeaveOrWait, Waits, Spots, Typed
<1>7. Dues'
  BY <1>1, <1>2, <1>3 DEF LeaveOrWait, Dues, Spots, Waits, Typed
<1>8. Profiler'
  BY <1>1, <1>2, <1>3 DEF LeaveOrWait, Profiler, Spots, Waits, Dues, Typed, Deferred
<1>9. Failure'
  <2>1. cancel["command"] = "idle" => Unswept
    BY <1>1, <1>3 DEF Spots, Unswept, Cancellers
  <2>2. p \in swept => ~Unswept
    BY <1>1 DEF LeaveOrWait, Waits
  <2> QED BY <1>1, <1>2, <1>3, <2>1, <2>2 DEF LeaveOrWait, Failure, Waits, Unchecked, Typed
<1>10. Stages'
  BY <1>1, <1>2, <1>3 DEF LeaveOrWait, Stages, Spots, Waits, Typed
<1> QED BY <1>4, <1>5, <1>6, <1>7, <1>8, <1>9, <1>10 DEF IInv

(* The last credit is back in the foreground.                              *)
LEMMA LastReturnKeeps ==
  ASSUME IInv, NEW p \in Phases, LastReturn(p)
  PROVE  IInv'
<1>1. Typed /\ Spots /\ Waits /\ Dues /\ Profiler /\ Failure /\ Stages
  BY DEF IInv
<1>2. (Unswept' <=> Unswept) /\ \A q : LeftBehind(q)' = LeftBehind(q)
  BY DEF LastReturn, Unswept, LeftBehind
<1>3. p = pos /\ main = "loop"
  BY <1>1, PhaseOrchestratorAssumption DEF LastReturn, Spots, Typed, Phases
<1>4. Typed'
  BY <1>1, <1>2, <1>3 DEF LastReturn, Typed
<1>5. Spots'
  BY <1>1, <1>2, <1>3 DEF LastReturn, Spots, Waits, Dues, Typed
<1>6. Waits'
  BY <1>1, <1>2, <1>3 DEF LastReturn, Waits, Spots, Typed
<1>7. Dues'
  BY <1>1, <1>2, <1>3 DEF LastReturn, Dues, Spots, Waits, Typed
<1>8. Profiler'
  BY <1>1, <1>2, <1>3 DEF LastReturn, Profiler, Spots, Waits, Dues, Typed, Deferred
<1>9. Failure'
  BY <1>1, <1>2, <1>3 DEF LastReturn, Failure, Spots, Waits, Dues, Unchecked, Typed
<1>10. Stages'
  BY <1>1, <1>2, <1>3 DEF LastReturn, Stages, Spots, Waits, Typed
<1> QED BY <1>4, <1>5, <1>6, <1>7, <1>8, <1>9, <1>10 DEF IInv

(* COMPLETE is published; the error of a failed node is looked at here.    *)
LEMMA CompleteInForegroundKeeps ==
  ASSUME IInv, NEW p \in Phases, CompleteInForeground(p)
  PROVE  IInv'
<1>1. Typed /\ Spots /\ Waits /\ Dues /\ Profiler /\ Failure /\ Stages
  BY DEF IInv
<1>2. (Unswept' <=> Unswept) /\ \A q : LeftBehind(q)' = LeftBehind(q)
  BY DEF CompleteInForeground, Unswept, LeftBehind
<1>3. p = pos /\ main = "loop"
  BY <1>1, PhaseOrchestratorAssumption DEF CompleteInForeground, Spots, Typed, Phases
<1>4. Typed'
  BY <1>1, <1>2, <1>3 DEF CompleteInForeground, Typed
<1>5. Spots'
  BY <1>1, <1>2, <1>3 DEF CompleteInForeground, Spots, Waits, Dues, Typed
<1>6. Waits'
  BY <1>1, <1>2, <1>3 DEF CompleteInForeground, Waits, Spots, Typed
<1>7. Dues'
  BY <1>1, <1>2, <1>3 DEF CompleteInForeground, Dues, Spots, Waits, Typed
<1>8. Profiler'
  BY <1>1, <1>2, <1>3 DEF CompleteInForeground, Profiler, Spots, Waits, Dues, Typed,
       Deferred
<1>9. Failure'
  BY <1>1, <1>2, <1>3 DEF CompleteInForeground, Failure, Spots, Waits, Dues,
       Unchecked, Typed
<1>10. Stages'
  BY <1>1, <1>2, <1>3 DEF CompleteInForeground, Stages, Spots, Waits, Typed
<1> QED BY <1>4, <1>5, <1>6, <1>7, <1>8, <1>9, <1>10 DEF IInv

(* A failing phase publishes what is missing.                              *)
LEMMA PublishMissingKeeps ==
  ASSUME IInv, NEW p \in Phases, PublishMissing(p)
  PROVE  IInv'
<1>1. Typed /\ Spots /\ Waits /\ Dues /\ Profiler /\ Failure /\ Stages
  BY DEF IInv
<1>2. (Unswept' <=> Unswept) /\ \A q : LeftBehind(q)' = LeftBehind(q)
  BY DEF PublishMissing, Unswept, LeftBehind
<1>3. p = pos /\ main = "loop"
  BY <1>1, PhaseOrchestratorAssumption DEF PublishMissing, Spots, Typed, Phases
<1>4. Typed'
  BY <1>1, <1>2, <1>3 DEF PublishMissing, Typed
<1>5. Spots'
  BY <1>1, <1>2, <1>3 DEF PublishMissing, Spots, Waits, Dues, Typed
<1>6. Waits'
  BY <1>1, <1>2, <1>3 DEF PublishMissing, Waits, Spots, Typed
<1>7. Dues'
  BY <1>1, <1>2, <1>3 DEF PublishMissing, Dues, Spots, Waits, Typed
<1>8. Profiler'
  BY <1>1, <1>2, <1>3 DEF PublishMissing, Profiler, Spots, Waits, Dues, Typed, Deferred
<1>9. Failure'
  BY <1>1, <1>2, <1>3 DEF PublishMissing, Failure, Spots, Waits, Dues, Unchecked, Typed
<1>10. Stages'
  BY <1>1, <1>2, <1>3 DEF PublishMissing, Stages, Spots, Waits, Typed
<1> QED BY <1>4, <1>5, <1>6, <1>7, <1>8, <1>9, <1>10 DEF IInv

(* A failing phase has published everything when it raises.                *)
LEMMA RaiseKeeps ==
  ASSUME IInv, NEW p \in Phases, Raise(p)
  PROVE  IInv'
<1>1. Typed /\ Spots /\ Waits /\ Dues /\ Profiler /\ Failure /\ Stages
  BY DEF IInv
<1>2. (Unswept' <=> Unswept) /\ \A q : LeftBehind(q)' = LeftBehind(q)
  BY DEF Raise, Unswept, LeftBehind
<1>3. p = pos /\ main = "loop"
  BY <1>1, PhaseOrchestratorAssumption DEF Raise, Spots, Typed, Phases
<1>4. Typed'
  BY <1>1, <1>2, <1>3 DEF Raise, Typed
<1>5. Spots'
  BY <1>1, <1>2, <1>3 DEF Raise, Spots, Waits, Dues, Typed
<1>6. Waits'
  BY <1>1, <1>2, <1>3 DEF Raise, Waits, Spots, Typed
<1>7. Dues'
  BY <1>1, <1>2, <1>3 DEF Raise, Dues, Spots, Waits, Typed
<1>8. Profiler'
  BY <1>1, <1>2, <1>3 DEF Raise, Profiler, Spots, Waits, Dues, Typed, Deferred
<1>9. Failure'
  BY <1>1, <1>2, <1>3 DEF Raise, Failure, Spots, Waits, Dues, Unchecked, Typed
<1>10. Stages'
  BY <1>1, <1>2, <1>3 DEF Raise, Stages, Spots, Waits, Typed
<1> QED BY <1>4, <1>5, <1>6, <1>7, <1>8, <1>9, <1>10 DEF IInv

(* The phase that leaves gives up the profiler, unless its wait will.      *)
LEMMA LeaveProfilerKeeps ==
  ASSUME IInv, NEW p \in Phases, LeaveProfiler(p)
  PROVE  IInv'
<1>1. Typed /\ Spots /\ Waits /\ Dues /\ Profiler /\ Failure /\ Stages
  BY DEF IInv
<1>2. (Unswept' <=> Unswept) /\ \A q : LeftBehind(q)' = LeftBehind(q)
  BY DEF LeaveProfiler, Unswept, LeftBehind
<1>3. p = pos /\ main = "loop"
  BY <1>1, PhaseOrchestratorAssumption DEF LeaveProfiler, Spots, Typed, Phases
<1>4. Typed'
  BY <1>1, <1>2, <1>3 DEF LeaveProfiler, Typed, GiveUpProfiler
<1>5. Spots'
  BY <1>1, <1>2, <1>3 DEF LeaveProfiler, Spots, Waits, Dues, Typed
<1>6. Waits'
  BY <1>1, <1>2, <1>3 DEF LeaveProfiler, Waits, Spots, Typed
<1>7. Dues'
  BY <1>1, <1>2, <1>3 DEF LeaveProfiler, Dues, Spots, Waits, Typed
<1>8. Profiler'
  BY <1>1, <1>2, <1>3 DEF LeaveProfiler, Profiler, Spots, Waits, Dues, Typed,
       Deferred, GiveUpProfiler
<1>9. Failure'
  BY <1>1, <1>2, <1>3 DEF LeaveProfiler, Failure, Spots, Waits, Dues, Unchecked, Typed
<1>10. Stages'
  BY <1>1, <1>2, <1>3 DEF LeaveProfiler, Stages, Spots, Waits, Typed
<1> QED BY <1>4, <1>5, <1>6, <1>7, <1>8, <1>9, <1>10 DEF IInv

(* The next runner becomes active before it does anything.                 *)
LEMMA BeginKeeps ==
  ASSUME IInv, NEW p \in Phases, Begin(p)
  PROVE  IInv'
<1>1. Typed /\ Spots /\ Waits /\ Dues /\ Profiler /\ Failure /\ Stages
  BY DEF IInv
<1>2. (Unswept' <=> Unswept) /\ \A q : LeftBehind(q)' = LeftBehind(q)
  BY DEF Begin, Unswept, LeftBehind
<1>3. Typed'
  BY <1>1, <1>2 DEF Begin, Typed
<1>4. Spots'
  BY <1>1, <1>2 DEF Begin, Spots, Waits, Dues, Typed
<1>5. Waits'
  BY <1>1, <1>2 DEF Begin, Waits, Spots, Typed
<1>6. Dues'
  BY <1>1, <1>2 DEF Begin, Dues, Spots, Waits, Typed
<1>7. Profiler'
  BY <1>1, <1>2 DEF Begin, Profiler, Spots, Waits, Dues, Typed, Deferred
<1>8. Failure'
  BY <1>1, <1>2 DEF Begin, Failure, Spots, Waits, Dues, Unchecked, Typed
<1>9. Stages'
  BY <1>1, <1>2 DEF Begin, Stages, Spots, Waits, Typed
<1> QED BY <1>3, <1>4, <1>5, <1>6, <1>7, <1>8, <1>9 DEF IInv

(* The end of the loop body: to the next phase, to the barrier with the    *)
(* waits still active as its dues, or out if a cancel has taken the runner *)
(* off the list.                                                           *)
LEMMA NextPhaseKeeps ==
  ASSUME IInv, NEW p \in Phases, NextPhase(p)
  PROVE  IInv'
<1>1. Typed /\ Spots /\ Waits /\ Dues /\ Profiler /\ Failure /\ Stages
  BY DEF IInv
<1>2. (Unswept' <=> Unswept) /\ \A q : LeftBehind(q)' = LeftBehind(q)
  BY DEF NextPhase, Unswept, LeftBehind
<1>3. /\ main = "loop" /\ p = pos /\ at[p] = "left"
      /\ UNCHANGED <<plan, at, wait, called, swept, errors, cancel, profiler, messages>>
  BY DEF NextPhase
<1>4. CASE /\ p # NumPhases /\ pos' = p + 1 /\ main' = "loop" /\ due' = due
           /\ active' = IF LeftBehind(p) THEN active ELSE active \ {p}
  <2> PICK n : n = p + 1
    OBVIOUS
  <2>1. /\ pos' = n /\ p # n /\ n \in Phases
        /\ \A q \in Phases :
             /\ q < n => q < p \/ q = p
             /\ q > n => q > p
             /\ q < p => q < n
    BY <1>4, PhaseOrchestratorAssumption DEF Phases
  <2>2. /\ main' = "loop" /\ due' = due
        /\ active' = IF LeftBehind(p) THEN active ELSE active \ {p}
    BY <1>4
  <2>3. Typed'
    BY <1>1, <1>2, <1>3, <2>1, <2>2 DEF Typed, Ended
  <2>4. Spots'
    BY <1>1, <1>2, <1>3, <2>1, <2>2 DEF Spots, Typed, Ended
  <2>5. Waits'
    BY <1>1, <1>2, <1>3, <2>1, <2>2 DEF Waits, Spots, Typed
  <2>6. Dues'
    BY <1>1, <1>2, <1>3, <2>1, <2>2 DEF Dues, Typed
  <2>7. Profiler'
    BY <1>1, <1>2, <1>3, <2>1, <2>2 DEF Profiler, Spots, Dues, Typed, Deferred
  <2>8. Failure'
    BY <1>1, <1>2, <1>3, <2>1, <2>2 DEF Failure, Unchecked, Typed
  <2>9. Stages'
    BY <1>1, <1>2, <1>3, <2>1, <2>2 DEF Stages, Typed
  <2> QED BY <2>3, <2>4, <2>5, <2>6, <2>7, <2>8, <2>9 DEF IInv
<1>5. CASE /\ p = NumPhases /\ pos' = p /\ main' = "barrier" /\ due' = active \ {p}
           /\ active' = IF LeftBehind(p) THEN active ELSE active \ {p}
  <2>1. Typed'
    BY <1>1, <1>2, <1>3, <1>5 DEF Typed, Ended, LeftBehind
  <2>2. Spots'
    BY <1>1, <1>2, <1>3, <1>5 DEF Spots, Waits, Dues, Typed, Ended, LeftBehind
  <2>3. Waits'
    BY <1>1, <1>2, <1>3, <1>5 DEF Waits, Spots, Typed, Ended, LeftBehind
  <2>4. Dues'
    BY <1>1, <1>2, <1>3, <1>5 DEF Dues, Spots, Waits, Typed, Ended, LeftBehind
  <2>5. Profiler'
    BY <1>1, <1>2, <1>3, <1>5 DEF Profiler, Spots, Waits, Dues, Typed, Deferred, Ended, LeftBehind
  <2>6. Failure'
    <3>1. cancel["command"] = "idle" => Unswept
      BY <1>1, <1>3 DEF Spots, Unswept, Cancellers
    <3>2. \A q \in Phases : at[q] \in {"left", "none"}
      BY <1>1, <1>3, PhaseOrchestratorAssumption DEF Spots, Typed, Phases
    <3>3. ASSUME NEW q \in error, Unchecked(q), Unswept
          PROVE  q \in due' /\ q \notin called
      <4>1. q \in Phases /\ wait[q] # "none" /\ q \notin called
        BY <1>1, <3>2, <3>3 DEF Unchecked, Typed
      <4>2. LeftBehind(q) /\ at[q] # "none" /\ q \in active
        BY <1>1, <3>3, <4>1 DEF Waits
      <4>3. q # p
        BY <1>5, <4>2, PhaseOrchestratorAssumption DEF LeftBehind
      <4> QED BY <1>5, <4>1, <4>2, <4>3
    <3> QED BY <1>1, <1>3, <1>5, <3>1, <3>3 DEF Failure
  <2>7. Stages'
    BY <1>1, <1>2, <1>3, <1>5 DEF Stages, Spots, Waits, Typed, Ended, LeftBehind
  <2> QED BY <2>1, <2>2, <2>3, <2>4, <2>5, <2>6, <2>7 DEF IInv
<1>6. CASE /\ ~LeftBehind(p) /\ p \notin active /\ main' = "raise"
           /\ UNCHANGED <<active, pos, due>>
  <2>1. Typed'
    BY <1>1, <1>2, <1>3, <1>6 DEF Typed, Ended
  <2>2. Spots'
    BY <1>1, <1>2, <1>3, <1>6 DEF Spots, Waits, Dues, Typed, Ended
  <2>3. Waits'
    BY <1>1, <1>2, <1>3, <1>6 DEF Waits, Spots, Typed, Ended
  <2>4. Dues'
    BY <1>1, <1>2, <1>3, <1>6 DEF Dues, Spots, Waits, Typed, Ended
  <2>5. Profiler'
    BY <1>1, <1>2, <1>3, <1>6 DEF Profiler, Spots, Waits, Dues, Typed, Deferred, Ended
  <2>6. Failure'
    BY <1>1, <1>2, <1>3, <1>6 DEF Failure, Spots, Waits, Dues, Unchecked, Typed, Ended
  <2>7. Stages'
    BY <1>1, <1>2, <1>3, <1>6 DEF Stages, Spots, Waits, Typed, Ended
  <2> QED BY <2>1, <2>2, <2>3, <2>4, <2>5, <2>6, <2>7 DEF IInv
<1> QED BY <1>3, <1>4, <1>5, <1>6 DEF NextPhase

(* A failed phase makes the orchestrator cancel itself.                    *)
LEMMA PhaseFailedKeeps ==
  ASSUME IInv, NEW p \in Phases, PhaseFailed(p)
  PROVE  IInv'
<1>1. Typed /\ Spots /\ Waits /\ Dues /\ Profiler /\ Failure /\ Stages
  BY DEF IInv
<1>2. \A q : LeftBehind(q)' = LeftBehind(q)
  BY DEF PhaseFailed, LeftBehind
<1>3. Typed'
  BY <1>1, <1>2 DEF PhaseFailed, Typed, Unswept, Cancellers, Ended
<1>4. Spots'
  BY <1>1, <1>2 DEF PhaseFailed, Spots, Waits, Dues, Typed, Unswept, Cancellers, Ended
<1>5. Waits'
  BY <1>1, <1>2 DEF PhaseFailed, Waits, Spots, Typed, Unswept, Cancellers, Ended
<1>6. Dues'
  BY <1>1, <1>2 DEF PhaseFailed, Dues, Spots, Waits, Typed, Unswept, Cancellers, Ended
<1>7. Profiler'
  BY <1>1, <1>2 DEF PhaseFailed, Profiler, Spots, Waits, Dues, Typed, Deferred,
       Unswept, Cancellers, Ended
<1>8. Failure'
  BY <1>1, <1>2 DEF PhaseFailed, Failure, Spots, Waits, Dues, Unchecked, Typed,
       Unswept, Cancellers, Ended
<1>9. Stages'
  BY <1>1, <1>2 DEF PhaseFailed, Stages, Spots, Waits, Typed, Unswept, Cancellers, Ended
<1> QED BY <1>3, <1>4, <1>5, <1>6, <1>7, <1>8, <1>9 DEF IInv

(* The last credit of a phase left behind is back.                         *)
LEMMA LastReturnBehindKeeps ==
  ASSUME IInv, NEW p \in Phases, LastReturnBehind(p)
  PROVE  IInv'
<1>1. Typed /\ Spots /\ Waits /\ Dues /\ Profiler /\ Failure /\ Stages
  BY DEF IInv
<1>2. (Unswept' <=> Unswept) /\ \A q : LeftBehind(q)' = LeftBehind(q)
  BY DEF LastReturnBehind, Unswept, LeftBehind
<1>3. Typed'
  BY <1>1, <1>2 DEF LastReturnBehind, Typed
<1>4. Spots'
  BY <1>1, <1>2 DEF LastReturnBehind, Spots, Waits, Dues, Typed
<1>5. Waits'
  BY <1>1, <1>2 DEF LastReturnBehind, Waits, Spots, Typed
<1>6. Dues'
  BY <1>1, <1>2 DEF LastReturnBehind, Dues, Spots, Waits, Typed
<1>7. Profiler'
  BY <1>1, <1>2 DEF LastReturnBehind, Profiler, Spots, Waits, Dues, Typed, Deferred
<1>8. Failure'
  BY <1>1, <1>2 DEF LastReturnBehind, Failure, Spots, Waits, Dues, Unchecked, Typed
<1>9. Stages'
  BY <1>1, <1>2 DEF LastReturnBehind, Stages, Spots, Waits, Typed
<1> QED BY <1>3, <1>4, <1>5, <1>6, <1>7, <1>8, <1>9 DEF IInv

(* A detached wait publishes COMPLETE, cut short or not.                   *)
LEMMA CompleteBehindKeeps ==
  ASSUME IInv, NEW p \in Phases, CompleteBehind(p)
  PROVE  IInv'
<1>1. Typed /\ Spots /\ Waits /\ Dues /\ Profiler /\ Failure /\ Stages
  BY DEF IInv
<1>2. (Unswept' <=> Unswept) /\ \A q : LeftBehind(q)' = LeftBehind(q)
  BY DEF CompleteBehind, Unswept, LeftBehind
<1>3. Typed'
  BY <1>1, <1>2 DEF CompleteBehind, Typed
<1>4. Spots'
  BY <1>1, <1>2 DEF CompleteBehind, Spots, Waits, Dues, Typed
<1>5. Waits'
  BY <1>1, <1>2 DEF CompleteBehind, Waits, Spots, Typed
<1>6. Dues'
  BY <1>1, <1>2 DEF CompleteBehind, Dues, Spots, Waits, Typed
<1>7. Profiler'
  BY <1>1, <1>2 DEF CompleteBehind, Profiler, Spots, Waits, Dues, Typed, Deferred
<1>8. Failure'
  BY <1>1, <1>2 DEF CompleteBehind, Failure, Spots, Waits, Dues, Unchecked, Typed
<1>9. Stages'
  BY <1>1, <1>2 DEF CompleteBehind, Stages, Spots, Waits, Typed
<1> QED BY <1>3, <1>4, <1>5, <1>6, <1>7, <1>8, <1>9 DEF IInv

(* The runner leaves the list, and its error is noted in the same step.    *)
LEMMA ReturnWaitCompleteKeeps ==
  ASSUME IInv, NEW p \in Phases, ReturnWaitComplete(p)
  PROVE  IInv'
<1>1. Typed /\ Spots /\ Waits /\ Dues /\ Profiler /\ Failure /\ Stages
  BY DEF IInv
<1>2. (Unswept' <=> Unswept) /\ \A q : LeftBehind(q)' = LeftBehind(q)
  BY DEF ReturnWaitComplete, Unswept, LeftBehind
<1>3. Typed'
  BY <1>1, <1>2 DEF ReturnWaitComplete, Typed
<1>4. Spots'
  BY <1>1, <1>2 DEF ReturnWaitComplete, Spots, Waits, Dues, Typed
<1>5. Waits'
  BY <1>1, <1>2 DEF ReturnWaitComplete, Waits, Spots, Typed
<1>6. Dues'
  BY <1>1, <1>2 DEF ReturnWaitComplete, Dues, Spots, Waits, Typed
<1>7. Profiler'
  BY <1>1, <1>2 DEF ReturnWaitComplete, Profiler, Spots, Waits, Dues, Typed, Deferred
<1>8. Failure'
  <2>1. /\ seamlessError' = (seamlessError \/ p \in error) /\ called' = called \cup {p}
        /\ UNCHANGED <<main, at, wait, due, error, nodeFailed, cancel>>
    BY DEF ReturnWaitComplete
  <2>2. ASSUME NEW q \in error, Unchecked(q), main = "loop"
        PROVE  seamlessError' \/ Unchecked(q)'
    BY <2>1, <2>2 DEF Unchecked
  <2>3. ASSUME NEW q \in error \cap due, q \notin called
        PROVE  seamlessError' \/ q \notin called'
    BY <2>1, <2>3
  <2> QED BY <1>1, <2>1, <2>2, <2>3 DEF Failure
<1>9. Stages'
  BY <1>1, <1>2 DEF ReturnWaitComplete, Stages, Spots, Waits, Typed
<1> QED BY <1>3, <1>4, <1>5, <1>6, <1>7, <1>8, <1>9 DEF IInv

(* The deferred stop of a phase left behind.                               *)
LEMMA DeferredStopKeeps ==
  ASSUME IInv, NEW p \in Phases, DeferredStop(p)
  PROVE  IInv'
<1>1. Typed /\ Spots /\ Waits /\ Dues /\ Profiler /\ Failure /\ Stages
  BY DEF IInv
<1>2. (Unswept' <=> Unswept) /\ \A q : LeftBehind(q)' = LeftBehind(q)
  BY DEF DeferredStop, Unswept, LeftBehind
<1>3. Typed'
  BY <1>1, <1>2 DEF DeferredStop, Typed, GiveUpProfiler
<1>4. Spots'
  BY <1>1, <1>2 DEF DeferredStop, Spots, Waits, Dues, Typed
<1>5. Waits'
  BY <1>1, <1>2 DEF DeferredStop, Waits, Spots, Typed
<1>6. Dues'
  BY <1>1, <1>2 DEF DeferredStop, Dues, Spots, Waits, Typed
<1>7. Profiler'
  BY <1>1, <1>2 DEF DeferredStop, Profiler, Spots, Waits, Dues, Typed, Deferred,
       GiveUpProfiler
<1>8. Failure'
  BY <1>1, <1>2 DEF DeferredStop, Failure, Spots, Waits, Dues, Unchecked, Typed
<1>9. Stages'
  BY <1>1, <1>2 DEF DeferredStop, Stages, Spots, Waits, Typed
<1> QED BY <1>3, <1>4, <1>5, <1>6, <1>7, <1>8, <1>9 DEF IInv

(* The command does not touch the runners before its sweep.                *)
LEMMA CancelCommandKeeps ==
  ASSUME IInv, CancelCommand
  PROVE  IInv'
<1>1. Typed /\ Spots /\ Waits /\ Dues /\ Profiler /\ Failure /\ Stages
  BY DEF IInv
<1>2. \A q : LeftBehind(q)' = LeftBehind(q)
  BY DEF CancelCommand, LeftBehind
<1>3. Typed'
  BY <1>1, <1>2 DEF CancelCommand, Typed, Unswept, Cancellers, Ended
<1>4. Spots'
  BY <1>1, <1>2 DEF CancelCommand, Spots, Waits, Dues, Typed, Unswept, Cancellers, Ended
<1>5. Waits'
  BY <1>1, <1>2 DEF CancelCommand, Waits, Spots, Typed, Unswept, Cancellers, Ended
<1>6. Dues'
  BY <1>1, <1>2 DEF CancelCommand, Dues, Spots, Waits, Typed, Unswept, Cancellers, Ended
<1>7. Profiler'
  BY <1>1, <1>2 DEF CancelCommand, Profiler, Spots, Waits, Dues, Typed, Deferred,
       Unswept, Cancellers, Ended
<1>8. Failure'
  BY <1>1, <1>2 DEF CancelCommand, Failure, Spots, Waits, Dues, Unchecked, Typed,
       Unswept, Cancellers, Ended
<1>9. Stages'
  BY <1>1, <1>2 DEF CancelCommand, Stages, Spots, Waits, Typed, Unswept, Cancellers,
       Ended
<1> QED BY <1>3, <1>4, <1>5, <1>6, <1>7, <1>8, <1>9 DEF IInv

(* The failing node belongs to a runner that is active, so its error is    *)
(* written to a runner whose exit is still to look at it.                  *)
LEMMA NodeFailsKeeps ==
  ASSUME IInv, NodeFails
  PROVE  IInv'
<1>1. Typed /\ Spots /\ Waits /\ Dues /\ Profiler /\ Failure /\ Stages
  BY DEF IInv
<1>2. (Unswept' <=> Unswept) /\ \A q : LeftBehind(q)' = LeftBehind(q)
  BY DEF NodeFails, Unswept, LeftBehind
<1>3. Typed'
  BY <1>1, <1>2 DEF NodeFails, Typed, Ended
<1>4. Spots'
  BY <1>1, <1>2 DEF NodeFails, Spots, Waits, Dues, Typed, Ended
<1>5. Waits'
  BY <1>1, <1>2 DEF NodeFails, Waits, Spots, Typed, Ended
<1>6. Dues'
  BY <1>1, <1>2 DEF NodeFails, Dues, Spots, Waits, Typed, Ended
<1>7. Profiler'
  BY <1>1, <1>2 DEF NodeFails, Profiler, Spots, Waits, Dues, Typed, Deferred, Ended
<1>8. Failure'
  <2>1. PICK p \in Phases : at[p] \in {"sending", "sent", "waiting"} \/ wait[p] = "waiting"
    BY DEF NodeFails
  <2>2. SUFFICES ASSUME cancel["command"] = "idle", cancel["failure"] = "idle"
                 PROVE  Failure'
    BY <1>1 DEF NodeFails, Failure, Spots
  <2>3. Unswept
    BY <2>2 DEF Unswept, Cancellers
  <2>4. at[p] \in {"sending", "sent", "waiting"} => p = pos /\ main = "loop"
    BY <1>1, PhaseOrchestratorAssumption DEF Spots, Typed, Phases
  <2>5. p \in active /\ p \notin called
    BY <1>1, <2>1, <2>3, <2>4, PhaseOrchestratorAssumption DEF Waits, Spots, Typed, Phases
  <2>6. p \in error' /\ UNCHANGED <<main, at, wait, called, due, cancel>>
    BY <2>5 DEF NodeFails
  <2>7. Unchecked(p)'
    BY <2>1, <2>5, <2>6 DEF Unchecked
  <2>8. main = "barrier" => p \in due
    BY <1>1, <2>1, <2>3, <2>4, <2>5 DEF Dues
  <2>9. main \notin {"draining", "finish", "finished"}
    BY <1>1, <2>1, <2>3, <2>4 DEF Dues
  <2> QED BY <1>1, <2>5, <2>6, <2>7, <2>8, <2>9 DEF Failure, Typed, Ended
<1>9. Stages'
  BY <1>1, <1>2 DEF NodeFails, Stages, Spots, Waits, Typed, Ended
<1> QED BY <1>3, <1>4, <1>5, <1>6, <1>7, <1>8, <1>9 DEF IInv

(* The barrier looks at the errors of the waits it awaited.                *)
LEMMA BarrierKeeps ==
  ASSUME IInv, Barrier
  PROVE  IInv'
<1>1. Typed /\ Spots /\ Waits /\ Dues /\ Profiler /\ Failure /\ Stages
  BY DEF IInv
<1>2. (Unswept' <=> Unswept) /\ \A q : LeftBehind(q)' = LeftBehind(q)
  BY DEF Barrier, Unswept, LeftBehind
<1>3. Typed'
  BY <1>1, <1>2 DEF Barrier, Typed, Ended
<1>4. Spots'
  BY <1>1, <1>2 DEF Barrier, Spots, Waits, Dues, Typed, Ended
<1>5. Waits'
  BY <1>1, <1>2 DEF Barrier, Waits, Spots, Typed, Ended
<1>6. Dues'
  BY <1>1, <1>2 DEF Barrier, Dues, Spots, Waits, Typed, Ended
<1>7. Profiler'
  BY <1>1, <1>2 DEF Barrier, Profiler, Spots, Waits, Dues, Typed, Deferred, Ended
<1>8. Failure'
  BY <1>1, <1>2 DEF Barrier, Failure, Spots, Waits, Dues, Unchecked, Typed, Ended
<1>9. Stages'
  BY <1>1, <1>2 DEF Barrier, Stages, Spots, Waits, Typed, Ended
<1> QED BY <1>3, <1>4, <1>5, <1>6, <1>7, <1>8, <1>9 DEF IInv

(* After the last stop the profiler is taken from whoever has it.          *)
LEMMA DrainKeeps ==
  ASSUME IInv, Drain
  PROVE  IInv'
<1>1. Typed /\ Spots /\ Waits /\ Dues /\ Profiler /\ Failure /\ Stages
  BY DEF IInv
<1>2. \A q : LeftBehind(q)' = LeftBehind(q)
  BY DEF Drain, LeftBehind
<1>3. Typed'
  BY <1>1, <1>2 DEF Drain, Typed, Unswept, Cancellers, Ended
<1>4. Spots'
  BY <1>1, <1>2 DEF Drain, Spots, Waits, Dues, Typed, Unswept, Cancellers, Ended
<1>5. Waits'
  BY <1>1, <1>2 DEF Drain, Waits, Spots, Typed, Unswept, Cancellers, Ended
<1>6. Dues'
  BY <1>1, <1>2 DEF Drain, Dues, Spots, Waits, Typed, Unswept, Cancellers, Ended
<1>7. Profiler'
  BY <1>1, <1>2 DEF Drain, Profiler, Spots, Waits, Dues, Typed, Deferred, Unswept,
       Cancellers, Ended
<1>8. Failure'
  BY <1>1, <1>2 DEF Drain, Failure, Spots, Waits, Dues, Unchecked, Typed, Unswept,
       Cancellers, Ended
<1>9. Stages'
  BY <1>1, <1>2 DEF Drain, Stages, Spots, Waits, Typed, Unswept, Cancellers, Ended
<1> QED BY <1>3, <1>4, <1>5, <1>6, <1>7, <1>8, <1>9 DEF IInv

(* The cancel the orchestrator called has ended.                           *)
LEMMA SelfCancelledKeeps ==
  ASSUME IInv, SelfCancelled
  PROVE  IInv'
<1>1. Typed /\ Spots /\ Waits /\ Dues /\ Profiler /\ Failure /\ Stages
  BY DEF IInv
<1>2. (Unswept' <=> Unswept) /\ \A q : LeftBehind(q)' = LeftBehind(q)
  BY DEF SelfCancelled, Unswept, LeftBehind
<1>3. Typed'
  BY <1>1, <1>2 DEF SelfCancelled, Typed, Ended
<1>4. Spots'
  BY <1>1, <1>2 DEF SelfCancelled, Spots, Waits, Dues, Typed, Ended, Unswept, Cancellers
<1>5. Waits'
  BY <1>1, <1>2 DEF SelfCancelled, Waits, Spots, Typed, Ended
<1>6. Dues'
  BY <1>1, <1>2 DEF SelfCancelled, Dues, Spots, Waits, Typed, Ended
<1>7. Profiler'
  BY <1>1, <1>2 DEF SelfCancelled, Profiler, Spots, Waits, Dues, Typed, Deferred, Ended
<1>8. Failure'
  BY <1>1, <1>2 DEF SelfCancelled, Failure, Spots, Waits, Dues, Unchecked, Typed, Ended
<1>9. Stages'
  BY <1>1, <1>2 DEF SelfCancelled, Stages, Spots, Waits, Typed, Ended
<1> QED BY <1>3, <1>4, <1>5, <1>6, <1>7, <1>8, <1>9 DEF IInv

(* CREDITS_COMPLETE, on all three ways out.                                *)
LEMMA CreditsCompleteKeeps ==
  ASSUME IInv, CreditsComplete
  PROVE  IInv'
<1>1. Typed /\ Spots /\ Waits /\ Dues /\ Profiler /\ Failure /\ Stages
  BY DEF IInv
<1>2. (Unswept' <=> Unswept) /\ \A q : LeftBehind(q)' = LeftBehind(q)
  BY DEF CreditsComplete, Unswept, LeftBehind
<1>3. Typed'
  BY <1>1, <1>2 DEF CreditsComplete, Typed, Ended
<1>4. Spots'
  BY <1>1, <1>2 DEF CreditsComplete, Spots, Waits, Dues, Typed, Ended, Unswept,
       Cancellers
<1>5. Waits'
  BY <1>1, <1>2 DEF CreditsComplete, Waits, Spots, Typed, Ended
<1>6. Dues'
  BY <1>1, <1>2 DEF CreditsComplete, Dues, Spots, Waits, Typed, Ended
<1>7. Profiler'
  BY <1>1, <1>2 DEF CreditsComplete, Profiler, Spots, Waits, Dues, Typed, Deferred,
       Ended
<1>8. Failure'
  BY <1>1, <1>2 DEF CreditsComplete, Failure, Spots, Waits, Dues, Unchecked, Typed,
       Ended
<1>9. Stages'
  BY <1>1, <1>2 DEF CreditsComplete, Stages, Spots, Waits, Typed, Ended
<1> QED BY <1>3, <1>4, <1>5, <1>6, <1>7, <1>8, <1>9 DEF IInv

(* A cancel takes all runners off the list and the profiler from its       *)
(* owners.                                                                 *)
LEMMA SweepKeeps ==
  ASSUME IInv, NEW who \in Cancellers, Sweep(who)
  PROVE  IInv'
<1>1. Typed /\ Spots /\ Waits /\ Dues /\ Profiler /\ Failure /\ Stages
  BY DEF IInv
<1>2. \A q : LeftBehind(q)' = LeftBehind(q)
  BY DEF Sweep, LeftBehind
<1>3. Typed'
  BY <1>1, <1>2 DEF Sweep, Typed, WaitsAfterSweep, Unswept, Cancellers
<1>4. Spots'
  BY <1>1, <1>2 DEF Sweep, Spots, Waits, Dues, Typed, Unswept, Cancellers
<1>5. Waits'
  BY <1>1, <1>2 DEF Sweep, Waits, Spots, Typed, WaitsAfterSweep, Unswept, Cancellers
<1>6. Dues'
  BY <1>1, <1>2 DEF Sweep, Dues, Spots, Waits, Typed, WaitsAfterSweep, Unswept,
       Cancellers
<1>7. Profiler'
  BY <1>1, <1>2 DEF Sweep, Profiler, Spots, Waits, Dues, Typed, Deferred,
       WaitsAfterSweep, Unswept, Cancellers
<1>8. Failure'
  BY <1>1, <1>2 DEF Sweep, Failure, Spots, Waits, Dues, Unchecked, Typed,
       WaitsAfterSweep, Unswept, Cancellers
<1>9. Stages'
  BY <1>1, <1>2 DEF Sweep, Stages, Spots, Waits, Typed, WaitsAfterSweep, Unswept,
       Cancellers
<1> QED BY <1>3, <1>4, <1>5, <1>6, <1>7, <1>8, <1>9 DEF IInv

-----------------------------------------------------------------------------
(* The initial states have the invariant.                                  *)
LEMMA InitInv == Init => IInv
<1> SUFFICES ASSUME Init PROVE IInv
  OBVIOUS
<1>1. 1 \in Phases /\ \A p \in Phases : ~(p < 1)
  BY PhaseOrchestratorAssumption DEF Phases
<1>2. Typed
  <2>1. cancel \in [Cancellers -> {"idle", "called", "done"}]
    <3>1. DOMAIN cancel = Cancellers /\ \A who \in Cancellers : cancel[who] = "idle"
      BY DEF Init, Cancellers
    <3>2. cancel = [who \in Cancellers |-> "idle"]
      BY DEF Init, Cancellers
    <3> QED BY <3>2
  <2> QED BY <1>1, <2>1 DEF Init, Typed, Ended
<1>3. Spots
  BY <1>1 DEF Init, Spots, Ended
<1>4. Waits
  BY DEF Init, Waits
<1>5. Dues /\ Profiler /\ Failure /\ Stages
  BY DEF Init, Dues, Profiler, Failure, Stages, Ended
<1> QED BY <1>2, <1>3, <1>4, <1>5 DEF IInv

(* Every step keeps the invariant. *)
LEMMA StepInv == IInv /\ [Next]_vars => IInv'
<1> SUFFICES ASSUME IInv, [Next]_vars PROVE IInv'
  OBVIOUS
<1>1. CASE UNCHANGED vars
  BY <1>1 DEF vars, IInv, Typed, Spots, Waits, Dues, Profiler, Failure, Stages, Unswept,
              LeftBehind, Deferred, Unchecked
<1>2. ASSUME NEW p \in Phases, Runner(p) PROVE IInv'
  BY <1>2, ProfilerStartedKeeps, SetUpKeeps, LeaveOrWaitKeeps, LastReturnKeeps,
     CompleteInForegroundKeeps, PublishMissingKeeps, RaiseKeeps, LeaveProfilerKeeps
  DEF Runner
<1>3. ASSUME NEW p \in Phases, SendingEnds(p) PROVE IInv'
  BY <1>3, SendingEndsKeeps
<1>4. ASSUME NEW p \in Phases, ReturnWait(p) PROVE IInv'
  BY <1>4, LastReturnBehindKeeps, CompleteBehindKeeps, ReturnWaitCompleteKeeps,
     DeferredStopKeeps
  DEF ReturnWait
<1>5. ASSUME Main PROVE IInv'
  BY <1>5, BeginKeeps, NextPhaseKeeps, PhaseFailedKeeps, BarrierKeeps, DrainKeeps,
     SelfCancelledKeeps, CreditsCompleteKeeps
  DEF Main
<1>6. CASE CancelCommand \/ NodeFails
  BY <1>6, CancelCommandKeeps, NodeFailsKeeps
<1>7. ASSUME NEW who \in Cancellers, Sweep(who) PROVE IInv'
  BY <1>7, SweepKeeps
<1> QED BY <1>1, <1>2, <1>3, <1>4, <1>5, <1>6, <1>7 DEF Next

(* All reachable states have it.                                           *)
LEMMA Invariance == Spec => []IInv
BY InitInv, StepInv, PTL DEF Spec

(* The server profiles while a phase that is running owns the profiler,    *)
(* and no longer once _execute_phases has ended, whichever way it ended.   *)
THEOREM ProfilerMatchesOwnersThm == Spec => []ProfilerMatchesOwners
<1>1. IInv => ProfilerMatchesOwners
  BY TypedOK DEF IInv, ProfilerMatchesOwners, Profiler, Ended
<1> QED BY <1>1, Invariance, PTL

(* The fatal error of a control node makes the run fail, however the node's *)
(* failure, the end of the phases and the detached waits interleave.        *)
THEOREM NodeFailureFailsRunThm == Spec => []NodeFailureFailsRun
<1>1. IInv => NodeFailureFailsRun
  BY DEF IInv, NodeFailureFailsRun, Failure
<1> QED BY <1>1, Invariance, PTL

-----------------------------------------------------------------------------
(* A step of the orchestrator that RunEvents does not see.                 *)
Same == UNCHANGED <<NumPhases, plan.seamless, stage, over, Disturbed>>

(* Arithmetic of phase numbers.                                            *)
LEMMA Orders ==
  ASSUME NEW p \in Phases, NEW q \in Phases
  PROVE  /\ p <= NumPhases
         /\ q = p - 1 => q < NumPhases /\ q < p /\ q + 1 = p
BY PhaseOrchestratorAssumption DEF Phases

(* RunEvents numbers the phases as the orchestrator does.                  *)
LEMMA PhaseNames ==
  ASSUME Typed
  PROVE  KeepsOrder!Phases = Phases /\ 1 .. NumPhases = Phases
BY DEF Typed, KeepsOrder!Phases, Phases

(* A phase's runner is at work: nothing is over, and the phases before it  *)
(* have ended sending, all but those left behind completely unless a       *)
(* cancel has got to them.                                                 *)
LEMMA AtWork ==
  ASSUME IInv, NEW p \in Phases, at[p] \notin {"none", "left", "failed"}
  PROVE  /\ ~over /\ main = "loop" /\ p = pos
         /\ \A q \in Phases :
              /\ q < p => stage[q] \in {"sent", "complete"}
              /\ q = p - 1 => p \in plan.seamless \/ Disturbed \/ stage[q] = "complete"
<1>1. Typed /\ Spots /\ Waits /\ Stages
  BY DEF IInv
<1>2. p = pos /\ main = "loop" /\ ~over
  BY <1>1, PhaseOrchestratorAssumption DEF Spots, Typed, Phases, Ended
<1>3. ASSUME NEW q \in Phases, q < p PROVE at[q] = "left" /\ stage[q] \in {"sent", "complete"}
  BY <1>1, <1>2, <1>3 DEF Spots, Stages
<1>4. ASSUME NEW q \in Phases, q = p - 1, p \notin plan.seamless, stage[q] # "complete"
      PROVE  Disturbed
  <2>1. ~LeftBehind(q) /\ at[q] = "left"
    BY <1>3, <1>4, Orders DEF LeftBehind
  <2>2. ~Unswept
    BY <1>1, <1>4, <2>1 DEF Waits, Stages
  <2> QED BY <2>2 DEF Unswept, Disturbed
<1> QED BY <1>2, <1>3, <1>4

(* A phase that starts finds its predecessor where RunEvents wants it.     *)
LEMMA StartsInOrder ==
  ASSUME IInv, NEW p \in Phases, at[p] \notin {"none", "left", "failed"}, stage[p] = "new",
         Tell(p, "started"), UNCHANGED <<plan, over, cancel, main>>
  PROVE  KeepsOrder!Start(p)
BY AtWork, Orders, PhaseNames DEF IInv, KeepsOrder!Start, Disturbed

(* Only a started phase ends sending, and not after the end of the run.    *)
LEMMA EndsSendingInOrder ==
  ASSUME IInv, NEW p \in Phases, at[p] \notin {"none", "left", "failed"}, stage[p] = "started",
         Tell(p, "sent"), UNCHANGED <<plan, over, cancel, main>>
  PROVE  KeepsOrder!Sent(p)
BY AtWork DEF KeepsOrder!Sent, Disturbed

(* A phase completes after it has sent, and before the end of the run      *)
(* unless something was cancelled or failed.                               *)
LEMMA CompletesInOrder ==
  ASSUME NEW p \in Phases, stage[p] = "sent", over => Disturbed,
         Tell(p, "complete"), UNCHANGED <<plan, over, cancel, main>>
  PROVE  KeepsOrder!Complete(p)
BY DEF KeepsOrder!Complete, Disturbed

(* A step that publishes nothing disturbs the run, or the messages stay.   *)
LEMMA Silent ==
  ASSUME UNCHANGED <<plan, messages>>, Disturbed => Disturbed'
  PROVE  Same \/ KeepsOrder!Disturb
BY DEF Same, Disturbed, KeepsOrder!Disturb

(* Every step of the orchestrator and its runners is a step of RunEvents.  *)
LEMMA StepContract ==
  ASSUME IInv, Next
  PROVE  Same \/ KeepsOrder!Next
<1>1. Typed /\ Spots /\ Waits /\ Dues /\ Stages
  BY DEF IInv
<1>2. ASSUME NEW p \in Phases,
             \/ KeepsOrder!Start(p) \/ KeepsOrder!Sent(p) \/ KeepsOrder!Complete(p)
      PROVE  KeepsOrder!Next
  BY <1>1, <1>2, PhaseNames DEF KeepsOrder!Next
<1>3. ASSUME Same \/ KeepsOrder!Disturb \/ KeepsOrder!Over
      PROVE  Same \/ KeepsOrder!Next
  BY <1>3 DEF KeepsOrder!Next
<1>4. ASSUME UNCHANGED <<plan, messages>>, Disturbed => Disturbed'
      PROVE  Same \/ KeepsOrder!Next
  BY <1>3, <1>4, Silent
<1>5. ASSUME NEW p \in Phases, Runner(p) PROVE Same \/ KeepsOrder!Next
  <2>1. CASE SetUp(p) /\ Tell(p, "started")
    BY <1>1, <1>2, <2>1, StartsInOrder DEF SetUp, Stages
  <2>2. CASE CompleteInForeground(p)
    <3>1. at[p] = "closing" /\ Tell(p, "complete") /\ UNCHANGED <<plan, over, cancel, main>>
      BY <2>2 DEF CompleteInForeground
    <3>2. stage[p] = "sent" /\ ~over
      BY <1>1, <3>1, AtWork DEF Stages
    <3> QED BY <1>2, <3>1, <3>2, CompletesInOrder
  <2>3. CASE PublishMissing(p)
    <3>1. at[p] = "raising" /\ UNCHANGED <<plan, over, cancel, main>>
      BY <2>3 DEF PublishMissing
    <3>2. ~over
      BY <3>1, AtWork
    <3>3. \/ stage[p] = "new" /\ Tell(p, "started")
          \/ stage[p] = "started" /\ Tell(p, "sent")
          \/ stage[p] = "sent" /\ Tell(p, "complete")
      BY <1>1, <2>3 DEF PublishMissing, Typed
    <3> QED
      BY <1>2, <3>1, <3>2, <3>3, StartsInOrder, EndsSendingInOrder, CompletesInOrder
  <2>4. CASE ProfilerStarted(p) \/ (SetUp(p) /\ UNCHANGED stage) \/ LeaveOrWait(p)
             \/ LastReturn(p) \/ Raise(p) \/ LeaveProfiler(p)
    <3>1. UNCHANGED <<plan, messages, cancel, main>>
      BY <2>4 DEF ProfilerStarted, SetUp, LeaveOrWait, LastReturn, Raise, LeaveProfiler
    <3> QED BY <1>4, <3>1 DEF Disturbed
  <2>5. SetUp(p) => Tell(p, "started") \/ UNCHANGED stage
    BY DEF SetUp
  <2> QED BY <1>5, <2>1, <2>2, <2>3, <2>4, <2>5 DEF Runner
<1>6. ASSUME NEW p \in Phases, SendingEnds(p) PROVE Same \/ KeepsOrder!Next
  BY <1>1, <1>2, <1>6, EndsSendingInOrder DEF SendingEnds, Stages
<1>7. ASSUME NEW p \in Phases, ReturnWait(p) PROVE Same \/ KeepsOrder!Next
  <2>1. CASE CompleteBehind(p)
    <3>1. /\ wait[p] \in {"closing", "cutting"} /\ Tell(p, "complete")
          /\ UNCHANGED <<plan, over, cancel, main>>
      BY <2>1 DEF CompleteBehind
    <3>2. stage[p] = "sent"
      BY <1>1, <3>1 DEF Stages
    <3>3. over => Disturbed
      <4>1. over => main \in {"finished", "failed", "cancelled"}
        BY <1>1 DEF Spots, Ended
      <4>2. main = "finished" => ~Unswept
        BY <1>1, <3>1 DEF Dues
      <4>3. main \in {"failed", "cancelled"} => ~Unswept
        BY <1>1 DEF Spots
      <4> QED BY <4>1, <4>2, <4>3 DEF Unswept, Disturbed
    <3> QED BY <1>2, <3>1, <3>2, <3>3, CompletesInOrder
  <2>2. CASE LastReturnBehind(p) \/ ReturnWaitComplete(p) \/ DeferredStop(p)
    <3>1. UNCHANGED <<plan, messages, cancel, main>>
      BY <2>2 DEF LastReturnBehind, ReturnWaitComplete, DeferredStop
    <3> QED BY <1>4, <3>1 DEF Disturbed
  <2> QED BY <1>7, <2>1, <2>2 DEF ReturnWait
<1>8. ASSUME Main PROVE Same \/ KeepsOrder!Next
  <2>1. CASE CreditsComplete
    <3>1. /\ main \in {"finish", "raise", "interrupted"} /\ over' = TRUE
          /\ main' \in Ended /\ (main = "raise" <=> main' = "failed")
          /\ UNCHANGED <<plan, stage, cancel>>
      BY <2>1 DEF CreditsComplete, Ended
    <3>2. ~over /\ (Disturbed' <=> Disturbed)
      BY <1>1, <3>1 DEF Spots, Disturbed, Ended
    <3>3. \A p \in Phases : at[p] \in {"none", "left", "failed"}
      BY <1>1, <3>1, PhaseOrchestratorAssumption DEF Spots, Typed, Phases
    <3>4. \A p \in Phases : stage[p] # "started"
      BY <1>1, <3>3 DEF Stages
    <3>5. ASSUME ~Disturbed, NEW p \in Phases PROVE stage[p] = "complete"
      <4>1. Unswept
        BY <3>5 DEF Unswept, Disturbed
      <4>2. main = "finish"
        BY <1>1, <3>1, <4>1 DEF Spots
      <4>3. at[p] = "left" /\ wait[p] \in {"none", "closed"}
        BY <1>1, <4>1, <4>2, PhaseOrchestratorAssumption DEF Spots, Dues, Typed, Phases
      <4> QED BY <1>1, <4>1, <4>3 DEF Stages
    <3>6. UNCHANGED <<NumPhases, plan.seamless, stage, Disturbed>>
      <4>1. CASE Disturbed
        BY <3>1, <3>2, <4>1 DEF Disturbed
      <4>2. CASE ~Disturbed
        BY <3>1, <3>2, <4>2 DEF Disturbed
      <4> QED BY <4>1, <4>2
    <3>7. \A p \in 1 .. NumPhases : stage[p] # "started" /\ (Disturbed \/ stage[p] = "complete")
      BY <1>1, <3>4, <3>5, PhaseNames
    <3>8. KeepsOrder!Over
      BY <3>1, <3>2, <3>6, <3>7 DEF KeepsOrder!Over
    <3> QED BY <1>3, <3>8
  <2>2. CASE \/ \E p \in Phases : Begin(p) \/ NextPhase(p) \/ PhaseFailed(p)
             \/ Barrier \/ Drain \/ SelfCancelled
    <3>1. UNCHANGED <<plan, messages>>
      BY <2>2 DEF Begin, NextPhase, PhaseFailed, Barrier, Drain, SelfCancelled
    <3>2. Disturbed => Disturbed'
      <4>1. \A who \in Cancellers : cancel[who] # "idle" => cancel'[who] # "idle"
        BY <1>1, <2>2
        DEF Begin, NextPhase, PhaseFailed, Barrier, Drain, SelfCancelled, Typed
      <4>2. main \notin {"raise", "failed"}
        BY <2>2 DEF Begin, NextPhase, PhaseFailed, Barrier, Drain, SelfCancelled
      <4> QED BY <4>1, <4>2 DEF Disturbed
    <3> QED BY <1>4, <3>1, <3>2
  <2> QED BY <1>8, <2>1, <2>2 DEF Main
<1>9. CASE CancelCommand \/ NodeFails \/ \E who \in Cancellers : Sweep(who)
  <2>1. UNCHANGED <<plan, messages, main>>
    BY <1>9 DEF CancelCommand, NodeFails, Sweep
  <2>2. \A who \in Cancellers : cancel[who] # "idle" => cancel'[who] # "idle"
    BY <1>1, <1>9 DEF CancelCommand, NodeFails, Sweep, Typed
  <2> QED BY <1>4, <2>1, <2>2 DEF Disturbed
<1> QED BY <1>5, <1>6, <1>7, <1>8, <1>9 DEF Next

(* The phase messages come in the order the other services rely on, in all *)
(* runs: the orchestrator implements RunEvents.                            *)
THEOREM KeepsContractThm == Spec => KeepsContract
<1>1. Init => KeepsOrder!Init
  BY PhaseOrchestratorAssumption
  DEF Init, KeepsOrder!Init, KeepsOrder!Phases, Disturbed, Cancellers
<1>2. IInv /\ [Next]_vars => [KeepsOrder!Next]_KeepsOrder!vars
  <2> SUFFICES ASSUME IInv, [Next]_vars PROVE [KeepsOrder!Next]_KeepsOrder!vars
    OBVIOUS
  <2>1. Same => UNCHANGED KeepsOrder!vars
    BY DEF Same, KeepsOrder!vars
  <2>2. CASE UNCHANGED vars
    <3>1. Same
      BY <2>2 DEF vars, Same, Disturbed
    <3> QED BY <2>1, <3>1
  <2>3. CASE Next
    BY <2>1, <2>3, StepContract
  <2> QED BY <2>2, <2>3
<1> QED BY <1>1, <1>2, Invariance, PTL DEF Spec, KeepsContract, KeepsOrder!Spec
=============================================================================
