---------------------------- MODULE Joins_proofs ----------------------------
(***************************************************************************)
(* The three places where a part of the system waits for several others,   *)
(* and what may not be left out or counted twice there:                    *)
(*   - the controller waits for a result of every domain before it ends    *)
(*     the run (SystemController, ResultJoinCoordinator);                  *)
(*   - a request of a replayed trace waits for requests of other streams   *)
(*     (ReplayOrder);                                                      *)
(*   - the slot of a session tree waits for the root and for all its       *)
(*     descendants (SessionTree, here the instance Reg).                   *)
(***************************************************************************)
EXTENDS SystemController, ReplayOrder, WellFoundedInduction, TLAPS

-----------------------------------------------------------------------------
(* SystemController: an exit code of 0 means that every result is there,   *)
(* stop() is called once, and no producer that lives is left out.          *)

(* What was handled was published, once; the RecordsManager publishes      *)
(* nothing for others before the results of the requests.                  *)
Delivered ==
  /\ \A d \in completed : results[d] = "handled"
  /\ results[Profile] = "none" =>
       \A d \in Domains : Publisher[d] = Records => results[d] = "none"

(* A service on its way out is dead; one that registered came up; and its  *)
(* domains are required as long as it lives and is known.                  *)
Alive ==
  /\ \A s \in loud : life[s] = "down"
  /\ \A s \in known : life[s] \in {"up", "down"}
  /\ \A d \in Domains \ declined :
       Owner[d] \in known /\ life[Owner[d]] = "up" => d \in required

(* The barrier cannot open while services register, and it does not wait   *)
(* for one that is still to come up.                                       *)
Early ==
  /\ start = "registering" => bench = "on"
  /\ start = "registering" /\ stop = "no" /\ ~triggered => system = "initializing"
  /\ start # "registering" /\ stop = "no" => \A s \in Services : life[s] # "new"

(* A stop follows the one trigger, and only once.                          *)
Once ==
  start # "failed" /\ signals = 0 =>
    /\ stop # "no" => stopper = "none" /\ triggered /\ stop # "killed"
    /\ stopper # "none" => triggered

Whole ==
  \A d \in Domains \ declined : results[d] = "handled" \/ life[Owner[d]] = "stillborn"

(* Nobody is to blame: every domain is there, is waited for, or its owner  *)
(* has yet to register.                                                    *)
Clean ==
  errors = {} /\ ~cancelled =>
    /\ start # "failed"
    /\ start = "registering" => ~triggered
    /\ stop # "no" \/ stopper # "none" => triggered
    /\ triggered => Whole
    /\ \A d \in Domains \ declined :
         \/ results[d] = "handled" \/ life[Owner[d]] = "stillborn"
         \/ d \in required
         \/ start = "registering" /\ Owner[d] \notin known

(* The inductive invariant of the controller.                              *)
IInv == TypeOK /\ plan \in Plans /\ Delivered /\ Alive /\ Early /\ Once /\ Clean
-----------------------------------------------------------------------------
(* What _system_state ranges over.                                         *)
Systems == {"initializing", "configuring", "ready", "profiling", "processing",
            "stopping", "shutdown"}

(* The strings of States are these.                                        *)
LEMMA SystemsAre == {States[i] : i \in DOMAIN States} = Systems
<1>1. DOMAIN States = 1 .. 7
  BY DEF States
<1>2. \A i \in 1 .. 7 : States[i] \in Systems
  BY DEF States, Systems
<1>3. \A s \in Systems : \E i \in 1 .. 7 : States[i] = s
  <2>1. /\ States[1] = "initializing" /\ States[2] = "configuring" /\ States[3] = "ready"
        /\ States[4] = "profiling" /\ States[5] = "processing" /\ States[6] = "stopping"
        /\ States[7] = "shutdown"
    BY DEF States
  <2>2. {1, 2, 3, 4, 5, 6, 7} \subseteq 1 .. 7
    OBVIOUS
  <2> QED BY <2>1, <2>2 DEF Systems
<1> QED BY <1>1, <1>2, <1>3

(* The part of the type invariant that is about the end of the run.        *)
EndTyped ==
  /\ system \in Systems
  /\ cancelled \in BOOLEAN /\ triggered \in BOOLEAN
  /\ stopper \in {"none", "cancel", "barrier"}
  /\ stop \in {"no", "stopping", "exited", "killed"}

(* TypeOK, with the states of the controller listed.                       *)
Typed ==
  /\ declined \subseteq Domains
  /\ life \in [Services -> {"new", "up", "down", "stillborn"}]
  /\ known \cup loud \cup evicted \subseteq Services
  /\ completed \subseteq required /\ required \subseteq Domains
  /\ results \in [Domains -> {"none", "sent", "failed", "never", "handled"}]
  /\ bench \in {"on", "over", "told"}
  /\ start \in {"registering", "configuring", "starting", "running", "failed"}
  /\ errors \subseteq Services \cup {"start"}
  /\ signals \in 0 .. plan.signals
  /\ EndTyped

(* Typed is the type invariant.                                            *)
LEMMA TypedIsTypeOK == Typed <=> TypeOK
BY SystemsAre DEF TypeOK, Typed, EndTyped

(* _cancel_profiling and _check_and_trigger_shutdown keep the types.       *)
LEMMA WaysTyped ==
  ASSUME EndTyped, NEW req, NEW com
  PROVE  CancelProfiling \/ CheckShutdown(req, com) => EndTyped'
<1>1. CancelProfiling => EndTyped'
  BY DEF CancelProfiling, EndTyped, Forward, Systems
<1>2. CheckShutdown(req, com) => EndTyped'
  BY DEF CheckShutdown, EndTyped, Forward, Systems
<1> QED BY <1>1, <1>2

(* Every handler keeps the types.                                          *)
LEMMA TypedStep ==
  ASSUME Typed, plan \in Plans, plan' = plan, Next
  PROVE  Typed'
<1>1. CASE AllRegistered
  BY <1>1
  DEF Typed, EndTyped, Systems, Forward, Owned, Blame, Dead, AllRegistered, barrier,
      world, ending
<1>2. CASE RequiredDied
  BY <1>2
  DEF Typed, EndTyped, Systems, Forward, Owned, Blame, Dead, RequiredDied,
      StartFails, CallStop, barrier, world, ending
<1>3. CASE Configured
  BY <1>3
  DEF Typed, EndTyped, Systems, Forward, Owned, Blame, Dead, Configured, barrier,
      world, ending
<1>4. CASE Profiling
  BY <1>4
  DEF Typed, EndTyped, Systems, Forward, Owned, Blame, Dead, Profiling, barrier,
      world, ending
<1>5. CASE CommandFails
  BY <1>5
  DEF Typed, EndTyped, Systems, Forward, Owned, Blame, Dead, CommandFails,
      StartFails, CallStop, barrier, world, ending
<1>6. ASSUME NEW s \in Services, Register(s) PROVE Typed'
  BY <1>6
  DEF Typed, EndTyped, Systems, Forward, Owned, Blame, Dead, Register, barrier,
      world, ending
<1>7. ASSUME NEW s \in Services, Dies(s) PROVE Typed'
  BY <1>7
  DEF Typed, EndTyped, Systems, Forward, Owned, Blame, Dead, Dies, barrier, world,
      ending
<1>8. ASSUME NEW s \in Services, ServiceError(s) PROVE Typed'
  BY <1>8, WaysTyped, SystemControllerAssumption
  DEF Typed, EndTyped, Systems, Forward, Owned, Blame, Dead, ServiceError, barrier,
      world, ending
<1>9. ASSUME NEW s \in Services, Reaped(s) PROVE Typed'
  BY <1>9, WaysTyped, SystemControllerAssumption
  DEF Typed, EndTyped, Systems, Forward, Owned, Blame, Dead, Reaped, barrier, world,
      ending
<1>10. ASSUME NEW d \in Domains, Publish(d) PROVE Typed'
  BY <1>10
  DEF Typed, EndTyped, Systems, Forward, Owned, Blame, Dead, Publish, barrier, world,
      ending
<1>11. ASSUME NEW d \in Domains, ResultArrives(d) PROVE Typed'
  BY <1>11, WaysTyped, SystemControllerAssumption
  DEF Typed, EndTyped, Systems, Forward, Owned, Blame, Dead, ResultArrives, barrier,
      world, ending
<1>12. ASSUME NEW d \in Domains, StatusArrives(d) PROVE Typed'
  BY <1>12, WaysTyped, SystemControllerAssumption
  DEF Typed, EndTyped, Systems, Forward, Owned, Blame, Dead, StatusArrives, barrier,
      world, ending
<1>13. CASE BenchmarkEnds
  BY <1>13
  DEF Typed, EndTyped, Systems, Forward, Owned, Blame, Dead, BenchmarkEnds, barrier,
      world, ending
<1>14. CASE CreditsComplete
  BY <1>14
  DEF Typed, EndTyped, Systems, Forward, Owned, Blame, Dead, CreditsComplete,
      barrier, world, ending
<1>15. CASE FinalizationFails
  BY <1>15
  DEF Typed, EndTyped, Systems, Forward, Owned, Blame, Dead, FinalizationFails,
      barrier, world, ending
<1>16. CASE StopIsCalled
  BY <1>16
  DEF Typed, EndTyped, Systems, Forward, Owned, Blame, Dead, StopIsCalled, CallStop,
      barrier, world, ending
<1>17. CASE Exit
  BY <1>17
  DEF Typed, EndTyped, Systems, Forward, Owned, Blame, Dead, Exit, barrier, world,
      ending
<1>18. CASE Signal
  BY <1>18, WaysTyped, SystemControllerAssumption
  DEF Typed, EndTyped, Systems, Forward, Owned, Blame, Dead, Signal, barrier, world,
      ending
<1> QED BY <1>1, <1>2, <1>3, <1>4, <1>5, <1>6, <1>7, <1>8, <1>9,
           <1>10, <1>11, <1>12, <1>13, <1>14, <1>15, <1>16, <1>17, <1>18
        DEF Next, Startup, Arrival

(* Whoever calls stop() was the one to trigger the shutdown.               *)
LEMMA OnceStep ==
  ASSUME Once, TypeOK, Next
  PROVE  Once'
<1>1. CASE AllRegistered
  BY <1>1 DEF Once, TypeOK, AllRegistered, barrier, world, ending
<1>2. CASE RequiredDied
  BY <1>2
  DEF Once, TypeOK, RequiredDied, StartFails, CallStop, barrier, world, ending
<1>3. CASE Configured
  BY <1>3 DEF Once, TypeOK, Configured, barrier, world, ending
<1>4. CASE Profiling
  BY <1>4 DEF Once, TypeOK, Profiling, barrier, world, ending
<1>5. CASE CommandFails
  BY <1>5 DEF Once, TypeOK, CommandFails, StartFails, CallStop, barrier, world, ending
<1>6. ASSUME NEW s \in Services, Register(s) PROVE Once'
  BY <1>6 DEF Once, TypeOK, Register, barrier, world, ending
<1>7. ASSUME NEW s \in Services, Dies(s) PROVE Once'
  BY <1>7 DEF Once, TypeOK, Dies, barrier, world, ending
<1>8. ASSUME NEW s \in Services, ServiceError(s) PROVE Once'
  BY <1>8
  DEF Once, TypeOK, ServiceError, CancelProfiling, CheckShutdown, Released, barrier,
      world, ending
<1>9. ASSUME NEW s \in Services, Reaped(s) PROVE Once'
  BY <1>9
  DEF Once, TypeOK, Reaped, CancelProfiling, CheckShutdown, Released, barrier, world,
      ending
<1>10. ASSUME NEW d \in Domains, Publish(d) PROVE Once'
  BY <1>10 DEF Once, TypeOK, Publish, barrier, world, ending
<1>11. ASSUME NEW d \in Domains, ResultArrives(d) PROVE Once'
  BY <1>11
  DEF Once, TypeOK, ResultArrives, CheckShutdown, Released, barrier, world, ending
<1>12. ASSUME NEW d \in Domains, StatusArrives(d) PROVE Once'
  BY <1>12
  DEF Once, TypeOK, StatusArrives, CheckShutdown, Released, barrier, world, ending
<1>13. CASE BenchmarkEnds
  BY <1>13 DEF Once, TypeOK, BenchmarkEnds, barrier, world, ending
<1>14. CASE CreditsComplete
  BY <1>14 DEF Once, TypeOK, CreditsComplete, barrier, world, ending
<1>15. CASE FinalizationFails
  BY <1>15 DEF Once, TypeOK, FinalizationFails, barrier, world, ending
<1>16. CASE StopIsCalled
  BY <1>16 DEF Once, TypeOK, StopIsCalled, CallStop, barrier, world, ending
<1>17. CASE Exit
  BY <1>17 DEF Once, TypeOK, Exit, barrier, world, ending
<1>18. CASE Signal
  BY <1>18 DEF Once, TypeOK, Signal, CancelProfiling, barrier, world, ending
<1> QED BY <1>1, <1>2, <1>3, <1>4, <1>5, <1>6, <1>7, <1>8, <1>9,
           <1>10, <1>11, <1>12, <1>13, <1>14, <1>15, <1>16, <1>17, <1>18
        DEF Next, Startup, Arrival

(* Results are handled after they were published, those of the requests    *)
(* first.                                                                  *)
LEMMA DeliveredStep ==
  ASSUME Delivered, TypeOK, Next
  PROVE  Delivered'
<1>1. CASE AllRegistered
  BY <1>1 DEF Delivered, TypeOK, AllRegistered, barrier, world, ending
<1>2. CASE RequiredDied
  BY <1>2
  DEF Delivered, TypeOK, RequiredDied, StartFails, CallStop, barrier, world,
      ending
<1>3. CASE Configured
  BY <1>3 DEF Delivered, TypeOK, Configured, barrier, world, ending
<1>4. CASE Profiling
  BY <1>4 DEF Delivered, TypeOK, Profiling, barrier, world, ending
<1>5. CASE CommandFails
  BY <1>5
  DEF Delivered, TypeOK, CommandFails, StartFails, CallStop, barrier, world, ending
<1>6. ASSUME NEW s \in Services, Register(s) PROVE Delivered'
  BY <1>6 DEF Delivered, TypeOK, Register, barrier, world, ending
<1>7. ASSUME NEW s \in Services, Dies(s) PROVE Delivered'
  BY <1>7 DEF Delivered, TypeOK, Dies, barrier, world, ending
<1>8. ASSUME NEW s \in Services, ServiceError(s) PROVE Delivered'
  BY <1>8
  DEF Delivered, TypeOK, ServiceError, CancelProfiling, CheckShutdown, Released,
      barrier, world, ending
<1>9. ASSUME NEW s \in Services, Reaped(s) PROVE Delivered'
  BY <1>9
  DEF Delivered, TypeOK, Reaped, CancelProfiling, CheckShutdown, Released, barrier,
      world, ending
<1>10. ASSUME NEW d \in Domains, Publish(d) PROVE Delivered'
  BY <1>10 DEF Delivered, TypeOK, Publish, barrier, world, ending
<1>11. ASSUME NEW d \in Domains, ResultArrives(d) PROVE Delivered'
  BY <1>11
  DEF Delivered, TypeOK, ResultArrives, CheckShutdown, Released, barrier, world,
      ending
<1>12. ASSUME NEW d \in Domains, StatusArrives(d) PROVE Delivered'
  BY <1>12
  DEF Delivered, TypeOK, StatusArrives, CheckShutdown, Released, barrier, world,
      ending
<1>13. CASE BenchmarkEnds
  BY <1>13 DEF Delivered, TypeOK, BenchmarkEnds, barrier, world, ending
<1>14. CASE CreditsComplete
  BY <1>14 DEF Delivered, TypeOK, CreditsComplete, barrier, world, ending
<1>15. CASE FinalizationFails
  BY <1>15, SystemControllerAssumption
  DEF Delivered, TypeOK, FinalizationFails, barrier, world, ending
<1>16. CASE StopIsCalled
  BY <1>16 DEF Delivered, TypeOK, StopIsCalled, CallStop, barrier, world, ending
<1>17. CASE Exit
  BY <1>17 DEF Delivered, TypeOK, Exit, barrier, world, ending
<1>18. CASE Signal
  BY <1>18 DEF Delivered, TypeOK, Signal, CancelProfiling, barrier, world, ending
<1> QED BY <1>1, <1>2, <1>3, <1>4, <1>5, <1>6, <1>7, <1>8, <1>9,
           <1>10, <1>11, <1>12, <1>13, <1>14, <1>15, <1>16, <1>17, <1>18
        DEF Next, Startup, Arrival

(* A service that registers brings its domains into the barrier, and only  *)
(* its death, its eviction or its own word takes them out.                 *)
LEMMA AliveStep ==
  ASSUME Alive, TypeOK, Next
  PROVE  Alive'
<1>1. CASE AllRegistered
  BY <1>1 DEF Alive, TypeOK, Owned, AllRegistered, barrier, world, ending
<1>2. CASE RequiredDied
  BY <1>2
  DEF Alive, TypeOK, Owned, RequiredDied, StartFails, CallStop, barrier, world,
      ending
<1>3. CASE Configured
  BY <1>3 DEF Alive, TypeOK, Owned, Configured, barrier, world, ending
<1>4. CASE Profiling
  BY <1>4 DEF Alive, TypeOK, Owned, Profiling, barrier, world, ending
<1>5. CASE CommandFails
  BY <1>5
  DEF Alive, TypeOK, Owned, CommandFails, StartFails, CallStop, barrier, world,
      ending
<1>6. ASSUME NEW s \in Services, Register(s) PROVE Alive'
  BY <1>6 DEF Alive, TypeOK, Owned, Register, barrier, world, ending
<1>7. ASSUME NEW s \in Services, Dies(s) PROVE Alive'
  BY <1>7 DEF Alive, TypeOK, Owned, Dies, barrier, world, ending
<1>8. ASSUME NEW s \in Services, ServiceError(s) PROVE Alive'
  BY <1>8
  DEF Alive, TypeOK, Owned, ServiceError, CancelProfiling, CheckShutdown, Released,
      barrier, world, ending
<1>9. ASSUME NEW s \in Services, Reaped(s) PROVE Alive'
  BY <1>9
  DEF Alive, TypeOK, Owned, Reaped, CancelProfiling, CheckShutdown, Released,
      barrier, world, ending
<1>10. ASSUME NEW d \in Domains, Publish(d) PROVE Alive'
  BY <1>10 DEF Alive, TypeOK, Owned, Publish, barrier, world, ending
<1>11. ASSUME NEW d \in Domains, ResultArrives(d) PROVE Alive'
  BY <1>11
  DEF Alive, TypeOK, Owned, ResultArrives, CheckShutdown, Released, barrier, world,
      ending
<1>12. ASSUME NEW d \in Domains, StatusArrives(d) PROVE Alive'
  BY <1>12
  DEF Alive, TypeOK, Owned, StatusArrives, CheckShutdown, Released, barrier, world,
      ending
<1>13. CASE BenchmarkEnds
  BY <1>13 DEF Alive, TypeOK, Owned, BenchmarkEnds, barrier, world, ending
<1>14. CASE CreditsComplete
  BY <1>14 DEF Alive, TypeOK, Owned, CreditsComplete, barrier, world, ending
<1>15. CASE FinalizationFails
  BY <1>15 DEF Alive, TypeOK, Owned, FinalizationFails, barrier, world, ending
<1>16. CASE StopIsCalled
  BY <1>16 DEF Alive, TypeOK, Owned, StopIsCalled, CallStop, barrier, world, ending
<1>17. CASE Exit
  BY <1>17 DEF Alive, TypeOK, Owned, Exit, barrier, world, ending
<1>18. CASE Signal
  BY <1>18 DEF Alive, TypeOK, Owned, Signal, CancelProfiling, barrier, world, ending
<1> QED BY <1>1, <1>2, <1>3, <1>4, <1>5, <1>6, <1>7, <1>8, <1>9,
           <1>10, <1>11, <1>12, <1>13, <1>14, <1>15, <1>16, <1>17, <1>18
        DEF Next, Startup, Arrival

(* Registration is over before the benchmark, and every service is up or   *)
(* known to be dead by then.                                               *)
LEMMA EarlyStep ==
  ASSUME Early, Alive, TypeOK, plan' = plan, Next
  PROVE  Early'
<1>1. CASE AllRegistered
  BY <1>1 DEF Early, Alive, TypeOK, AllRegistered, barrier, world, ending
<1>2. CASE RequiredDied
  BY <1>2
  DEF Early, Alive, TypeOK, RequiredDied, StartFails, CallStop, barrier, world,
      ending
<1>3. CASE Configured
  BY <1>3 DEF Early, Alive, TypeOK, Configured, barrier, world, ending
<1>4. CASE Profiling
  BY <1>4 DEF Early, Alive, TypeOK, Profiling, barrier, world, ending
<1>5. CASE CommandFails
  BY <1>5
  DEF Early, Alive, TypeOK, CommandFails, StartFails, CallStop, barrier, world,
      ending
<1>6. ASSUME NEW s \in Services, Register(s) PROVE Early'
  BY <1>6 DEF Early, Alive, TypeOK, Register, barrier, world, ending
<1>7. ASSUME NEW s \in Services, Dies(s) PROVE Early'
  BY <1>7 DEF Early, Alive, TypeOK, Dies, barrier, world, ending
<1>8. ASSUME NEW s \in Services, ServiceError(s) PROVE Early'
  BY <1>8
  DEF Early, Alive, TypeOK, ServiceError, CancelProfiling, CheckShutdown, Released,
      barrier, world, ending
<1>9. ASSUME NEW s \in Services, Reaped(s) PROVE Early'
  BY <1>9
  DEF Early, Alive, TypeOK, Reaped, CancelProfiling, CheckShutdown, Released,
      barrier, world, ending
<1>10. ASSUME NEW d \in Domains, Publish(d) PROVE Early'
  BY <1>10 DEF Early, Alive, TypeOK, Publish, barrier, world, ending
<1>11. ASSUME NEW d \in Domains, ResultArrives(d) PROVE Early'
  BY <1>11
  DEF Early, Alive, TypeOK, ResultArrives, CheckShutdown, Released, barrier, world,
      ending
<1>12. ASSUME NEW d \in Domains, StatusArrives(d) PROVE Early'
  BY <1>12
  DEF Early, Alive, TypeOK, StatusArrives, CheckShutdown, Released, barrier, world,
      ending
<1>13. CASE BenchmarkEnds
  BY <1>13 DEF Early, Alive, TypeOK, BenchmarkEnds, Begun, barrier, world, ending
<1>14. CASE CreditsComplete
  BY <1>14 DEF Early, Alive, TypeOK, CreditsComplete, barrier, world, ending
<1>15. CASE FinalizationFails
  BY <1>15 DEF Early, Alive, TypeOK, FinalizationFails, barrier, world, ending
<1>16. CASE StopIsCalled
  BY <1>16 DEF Early, Alive, TypeOK, StopIsCalled, CallStop, barrier, world, ending
<1>17. CASE Exit
  BY <1>17 DEF Early, Alive, TypeOK, Exit, barrier, world, ending
<1>18. CASE Signal
  BY <1>18 DEF Early, Alive, TypeOK, Signal, CancelProfiling, barrier, world, ending
<1> QED BY <1>1, <1>2, <1>3, <1>4, <1>5, <1>6, <1>7, <1>8, <1>9,
           <1>10, <1>11, <1>12, <1>13, <1>14, <1>15, <1>16, <1>17, <1>18
        DEF Next, Startup, Arrival

(* As long as nobody is blamed, no handler drops a domain whose results    *)
(* are not there.                                                          *)
LEMMA CleanStep ==
  ASSUME Clean, Early, Delivered, Alive, TypeOK, Next
  PROVE  Clean'
<1>1. CASE AllRegistered
  BY <1>1, SystemControllerAssumption
  DEF Clean, Whole, Early, Delivered, Alive, TypeOK, Released, Owned, Blame,
      AllRegistered, barrier, world, ending
<1>2. CASE RequiredDied
  BY <1>2
  DEF Clean, Whole, Early, Delivered, Alive, TypeOK, Released, Owned, Blame,
      RequiredDied, StartFails, CallStop, barrier, world, ending
<1>3. CASE Configured
  BY <1>3
  DEF Clean, Whole, Early, Delivered, Alive, TypeOK, Released, Owned, Blame,
      Configured, barrier, world, ending
<1>4. CASE Profiling
  BY <1>4
  DEF Clean, Whole, Early, Delivered, Alive, TypeOK, Released, Owned, Blame,
      Profiling, barrier, world, ending
<1>5. CASE CommandFails
  BY <1>5
  DEF Clean, Whole, Early, Delivered, Alive, TypeOK, Released, Owned, Blame,
      CommandFails, StartFails, CallStop, barrier, world, ending
<1>6. ASSUME NEW s \in Services, Register(s) PROVE Clean'
  BY <1>6
  DEF Clean, Whole, Early, Delivered, Alive, TypeOK, Released, Owned, Blame,
      Register, barrier, world, ending
<1>7. ASSUME NEW s \in Services, Dies(s) PROVE Clean'
  BY <1>7
  DEF Clean, Whole, Early, Delivered, Alive, TypeOK, Released, Owned, Blame, Dies,
      Dead, barrier, world, ending
<1>8. ASSUME NEW s \in Services, ServiceError(s) PROVE Clean'
  BY <1>8
  DEF Clean, Whole, Early, Delivered, Alive, TypeOK, Released, Owned, Blame,
      ServiceError, CancelProfiling, CheckShutdown, barrier, world, ending
<1>9. ASSUME NEW s \in Services, Reaped(s) PROVE Clean'
  BY <1>9
  DEF Clean, Whole, Early, Delivered, Alive, TypeOK, Released, Owned, Blame, Reaped,
      CancelProfiling, CheckShutdown, barrier, world, ending
<1>10. ASSUME NEW d \in Domains, Publish(d) PROVE Clean'
  BY <1>10
  DEF Clean, Whole, Early, Delivered, Alive, TypeOK, Released, Owned, Blame, Publish,
      barrier, world, ending
<1>11. ASSUME NEW d \in Domains, ResultArrives(d) PROVE Clean'
  BY <1>11
  DEF Clean, Whole, Early, Delivered, Alive, TypeOK, Released, Owned, Blame,
      ResultArrives, CheckShutdown, barrier, world, ending
<1>12. ASSUME NEW d \in Domains, StatusArrives(d) PROVE Clean'
  BY <1>12
  DEF Clean, Whole, Early, Delivered, Alive, TypeOK, Released, Owned, Blame,
      StatusArrives, CheckShutdown, barrier, world, ending
<1>13. CASE BenchmarkEnds
  BY <1>13
  DEF Clean, Whole, Early, Delivered, Alive, TypeOK, Released, Owned, Blame,
      BenchmarkEnds, barrier, world, ending
<1>14. CASE CreditsComplete
  BY <1>14
  DEF Clean, Whole, Early, Delivered, Alive, TypeOK, Released, Owned, Blame,
      CreditsComplete, barrier, world, ending
<1>15. CASE FinalizationFails
  BY <1>15
  DEF Clean, Whole, Early, Delivered, Alive, TypeOK, Released, Owned, Blame,
      FinalizationFails, barrier, world, ending
<1>16. CASE StopIsCalled
  BY <1>16
  DEF Clean, Whole, Early, Delivered, Alive, TypeOK, Released, Owned, Blame,
      StopIsCalled, CallStop, barrier, world, ending
<1>17. CASE Exit
  BY <1>17
  DEF Clean, Whole, Early, Delivered, Alive, TypeOK, Released, Owned, Blame, Exit,
      barrier, world, ending
<1>18. CASE Signal
  BY <1>18
  DEF Clean, Whole, Early, Delivered, Alive, TypeOK, Released, Owned, Blame, Signal,
      CancelProfiling, barrier, world, ending
<1> QED BY <1>1, <1>2, <1>3, <1>4, <1>5, <1>6, <1>7, <1>8, <1>9,
           <1>10, <1>11, <1>12, <1>13, <1>14, <1>15, <1>16, <1>17, <1>18
        DEF Next, Startup, Arrival

-----------------------------------------------------------------------------
(* A run begins with nothing registered, published, blamed or triggered.   *)
LEMMA InitIInv == Init => IInv
<1> SUFFICES ASSUME Init PROVE IInv
  OBVIOUS
<1>1. plan.signals \in Nat
  BY SystemControllerAssumption DEF Init
<1>2. TypeOK
  <2>1. EndTyped
    BY DEF Init, EndTyped, Systems
  <2>2. signals \in 0 .. plan.signals
    BY <1>1 DEF Init
  <2>3. declined \subseteq Domains
    BY DEF Init
  <2>4. /\ life \in [Services -> {"new", "up", "down", "stillborn"}]
        /\ results \in [Domains -> {"none", "sent", "failed", "never", "handled"}]
    BY DEF Init
  <2>5. Typed
    BY <2>1, <2>2, <2>3, <2>4 DEF Init, Typed
  <2> QED BY <2>5, TypedIsTypeOK
<1>3. Delivered /\ Alive /\ Early /\ Once
  BY DEF Init, Delivered, Alive, Early, Once
<1>4. Clean
  BY DEF Init, Clean, Whole
<1> QED BY <1>2, <1>3, <1>4 DEF Init, IInv

(* Every handler keeps the invariant.                                      *)
LEMMA NextIInv == IInv /\ [Next]_vars => IInv'
<1> SUFFICES ASSUME IInv, [Next]_vars PROVE IInv'
  OBVIOUS
<1>1. CASE UNCHANGED vars
  BY <1>1 DEF IInv, TypeOK, Delivered, Alive, Early, Once, Clean, Whole,
             vars, state, barrier, world, ending
<1>2. CASE Next
  <2>1. plan' = plan /\ TypeOK /\ plan \in Plans
    BY <1>2 DEF Next, IInv
  <2>2. TypeOK'
    <3>1. Typed'
      BY <1>2, <2>1, TypedStep, TypedIsTypeOK
    <3> QED BY <3>1, SystemsAre DEF Typed, EndTyped, TypeOK
  <2>3. Delivered' /\ Alive' /\ Once'
    BY <1>2, DeliveredStep, AliveStep, OnceStep DEF IInv
  <2>4. Early' /\ Clean'
    BY <1>2, <2>1, EarlyStep, CleanStep DEF IInv
  <2> QED BY <2>1, <2>2, <2>3, <2>4 DEF IInv
<1> QED BY <1>1, <1>2

(* The invariant holds in every state of every run.                        *)
LEMMA SpecIInv == Spec => []IInv
BY InitIInv, NextIInv, PTL DEF Spec

-----------------------------------------------------------------------------
(* The types, and: with an exit code of 0 and no cancellation the results  *)
(* of every domain whose owner came up are there.  However its producer    *)
(* vanished, _on_service_reaped or SERVICE_ERROR put somebody to blame     *)
(* into _exit_errors.                                                      *)
THEOREM ZeroMeansWholeThm == Spec => []ZeroMeansWhole
<1>1. IInv => ZeroMeansWhole
  BY DEF IInv, ZeroMeansWhole, Clean, Whole
<1> QED BY <1>1, SpecIInv, PTL

(* stop() is called once, unless the start sequence failed or the user     *)
(* presses Ctrl+C: _shutdown_triggered is set by whoever is to call it.    *)
THEOREM StopsOnceThm == Spec => []StopsOnce
<1>1. IInv => StopsOnce
  <2> SUFFICES ASSUME IInv, stop = "killed", start # "failed", signals = 0
               PROVE  FALSE
    BY DEF StopsOnce, IInv, TypeOK
  <2> QED BY DEF IInv, Once
<1> QED BY <1>1, SpecIInv, PTL

(* _check_and_trigger_shutdown finds the barrier open only after the       *)
(* registrations, and with every domain required that its owner joined for *)
(* while it lives.                                                         *)
LEMMA BarrierOpens ==
  ASSUME IInv, Next, stop = "no", stopper = "none", stopper' = "barrier"
  PROVE  /\ required' \subseteq completed' /\ start' # "registering"
         /\ stop' = "no" /\ declined' = declined
<1> DEFINE Opens == /\ required' \subseteq completed' /\ start' # "registering"
                    /\ stop' = "no" /\ declined' = declined
<1>a. Early
  BY DEF IInv
<1>1. CASE AllRegistered
  BY <1>1, <1>a DEF Early, AllRegistered, barrier, world, ending
<1>2. CASE RequiredDied
  BY <1>2, <1>a
  DEF Early, RequiredDied, StartFails, CallStop, barrier, world, ending
<1>3. CASE Configured
  BY <1>3, <1>a DEF Early, Configured, barrier, world, ending
<1>4. CASE Profiling
  BY <1>4, <1>a DEF Early, Profiling, barrier, world, ending
<1>5. CASE CommandFails
  BY <1>5, <1>a DEF Early, CommandFails, StartFails, CallStop, barrier, world, ending
<1>6. ASSUME NEW s \in Services, Register(s) PROVE Opens
  BY <1>6, <1>a DEF Early, Register, barrier, world, ending
<1>7. ASSUME NEW s \in Services, Dies(s) PROVE Opens
  BY <1>7, <1>a DEF Early, Dies, barrier, world, ending
<1>8. ASSUME NEW s \in Services, ServiceError(s) PROVE Opens
  BY <1>8, <1>a
  DEF Early, ServiceError, CancelProfiling, CheckShutdown, Released, barrier, world,
      ending
<1>9. ASSUME NEW s \in Services, Reaped(s) PROVE Opens
  BY <1>9, <1>a
  DEF Early, Reaped, CancelProfiling, CheckShutdown, Released, barrier, world, ending
<1>10. ASSUME NEW d \in Domains, Publish(d) PROVE Opens
  BY <1>10, <1>a DEF Early, Publish, barrier, world, ending
<1>11. ASSUME NEW d \in Domains, ResultArrives(d) PROVE Opens
  BY <1>11, <1>a
  DEF Early, ResultArrives, CheckShutdown, Released, barrier, world, ending
<1>12. ASSUME NEW d \in Domains, StatusArrives(d) PROVE Opens
  BY <1>12, <1>a
  DEF Early, StatusArrives, CheckShutdown, Released, barrier, world, ending
<1>13. CASE BenchmarkEnds
  BY <1>13, <1>a DEF Early, BenchmarkEnds, barrier, world, ending
<1>14. CASE CreditsComplete
  BY <1>14, <1>a DEF Early, CreditsComplete, barrier, world, ending
<1>15. CASE FinalizationFails
  BY <1>15, <1>a DEF Early, FinalizationFails, barrier, world, ending
<1>16. CASE StopIsCalled
  BY <1>16, <1>a DEF Early, StopIsCalled, CallStop, barrier, world, ending
<1>17. CASE Exit
  BY <1>17, <1>a DEF Early, Exit, barrier, world, ending
<1>18. CASE Signal
  BY <1>18, <1>a DEF Early, Signal, CancelProfiling, barrier, world, ending
<1> QED BY <1>1, <1>2, <1>3, <1>4, <1>5, <1>6, <1>7, <1>8, <1>9,
           <1>10, <1>11, <1>12, <1>13, <1>14, <1>15, <1>16, <1>17, <1>18
        DEF Next, Startup, Arrival

(* The barrier never opens over a producer that lives: one that is still   *)
(* to come up, or is up and registered, has been heard by then.            *)
THEOREM SurvivorsAreHeardThm == Spec => SurvivorsAreHeard
<1> DEFINE Heard ==
      stop = "no" /\ stopper = "none" /\ stopper' = "barrier" =>
        \A d \in Domains \ declined :
          life'[Owner[d]] = "new" \/ (life'[Owner[d]] = "up" /\ Owner[d] \in known')
            => results'[d] = "handled"
<1>1. IInv /\ IInv' /\ [Next]_vars => [Heard]_vars
  <2> SUFFICES ASSUME IInv, IInv', Next, stop = "no", stopper = "none",
                      stopper' = "barrier", NEW d \in Domains \ declined,
                      \/ life'[Owner[d]] = "new"
                      \/ life'[Owner[d]] = "up" /\ Owner[d] \in known'
               PROVE  results'[d] = "handled"
    BY DEF vars, state, ending
  <2>1. /\ required' \subseteq completed' /\ start' # "registering"
        /\ stop' = "no" /\ declined' = declined
    BY BarrierOpens
  <2>2. Owner[d] \in Services
    BY SystemControllerAssumption
  <2>3. life'[Owner[d]] # "new"
    BY <2>1, <2>2 DEF IInv, Early
  <2>4. d \in required'
    BY <2>1, <2>3 DEF IInv, Alive
  <2> QED BY <2>1, <2>4 DEF IInv, Delivered
<1> QED BY <1>1, SpecIInv, PTL DEF Spec, SurvivorsAreHeard

-----------------------------------------------------------------------------
(* ReplayOrder: waiting for the pruned frontier of a request is enough:    *)
(* everything that the recording had finished when the request began has   *)
(* been answered.                                                          *)

(* A recording: no stream is longer, and no start earlier, than some       *)
(* number.                                                                 *)
Recording(rec, Streams) ==
  /\ \E n \in Nat : DOMAIN rec \subseteq Streams \X (0 .. n)
  /\ \A k \in DOMAIN rec : rec[k].start \in Int \cup {Unknown}
  /\ \E b \in Int : \A k \in Timed(rec) : StartOf(rec, k) >= b
  /\ \A k \in DOMAIN rec : rec[k].api \in Int \cup {Unknown}

(* The interval of a timed request is an interval of integers. *)
LEMMA IntervalType ==
  ASSUME NEW Streams, NEW rec, Recording(rec, Streams), NEW k \in Timed(rec)
  PROVE  /\ StartOf(rec, k) \in Int /\ EndOf(rec, k) \in Int
         /\ StartOf(rec, k) <= EndOf(rec, k)
<1>1. k \in DOMAIN rec /\ rec[k].start # Unknown
  BY DEF Timed
<1>2. rec[k].start \in Int /\ rec[k].api \in Int \cup {Unknown}
  BY <1>1 DEF Recording
<1> QED
  BY <1>2, UnknownAssumption DEF StartOf, EndOf

(* What precedes a request that precedes another precedes that one.        *)
LEMMA PrecedesTransitive ==
  ASSUME NEW Streams, NEW rec, Recording(rec, Streams),
         NEW i, NEW j, NEW k, Precedes(rec, i, j), Precedes(rec, j, k)
  PROVE  Precedes(rec, i, k)
<1>1. i \in Timed(rec) /\ j \in Timed(rec) /\ k \in Timed(rec)
  BY DEF Precedes
<1>2. /\ StartOf(rec, i) \in Int /\ EndOf(rec, i) \in Int
      /\ StartOf(rec, j) \in Int /\ EndOf(rec, j) \in Int
      /\ StartOf(rec, k) \in Int
  BY <1>1, IntervalType
<1> QED
  BY <1>1, <1>2 DEF Precedes

(* A nonempty set of naturals has a least member. *)
LEMMA LeastOf ==
  ASSUME NEW T, T \subseteq Nat, T # {}
  PROVE  \E x \in T : \A y \in T : x <= y
<1> DEFINE R == OpToRel(<, Nat)
<1>1. IsWellFoundedOn(R, Nat)
  BY NatLessThanWellFounded
<1>2. \E x \in T : \A y \in T : ~(<<y, x>> \in R)
  <2> HIDE DEF R
  <2> QED BY <1>1, WFMin
<1>3. ASSUME NEW x \in Nat, NEW y \in Nat, ~(<<y, x>> \in R) PROVE x <= y
  BY <1>3 DEF OpToRel
<1> QED
  <2> HIDE DEF R
  <2> QED BY <1>2, <1>3

(* A nonempty set of integers with an upper bound has a greatest member.   *)
LEMMA GreatestOf ==
  ASSUME NEW T, T \subseteq Int, T # {}, NEW b \in Int, \A t \in T : t <= b
  PROVE  \E x \in T : \A y \in T : y <= x
<1> DEFINE D == {b - t : t \in T}
<1>1. D \subseteq Nat
  OBVIOUS
<1>2. D # {}
  BY DEF D
<1>3. PICK d \in D : \A e \in D : d <= e
  <2> HIDE DEF D
  <2> QED BY <1>1, <1>2, LeastOf
<1>4. PICK x \in T : d = b - x
  OBVIOUS
<1>5. \A y \in T : y <= x
  <2> TAKE y \in T
  <2>1. b - y \in D
    OBVIOUS
  <2>2. d <= b - y
    BY <2>1, <1>3
  <2>3. x \in Int /\ y \in Int
    OBVIOUS
  <2> HIDE DEF D
  <2> QED BY <2>2, <2>3, <1>4
<1> QED
  BY <1>5

(* Requests of the other streams that were over when k began are timed,    *)
(* and none of them ended later than k began.                              *)
LEMMA ElsewhereType ==
  ASSUME NEW Streams, NEW rec, Recording(rec, Streams), NEW k, NEW j \in Elsewhere(rec, k)
  PROVE  /\ {j, k} \subseteq Timed(rec)
         /\ StartOf(rec, j) \in Int /\ EndOf(rec, j) \in Int /\ StartOf(rec, k) \in Int
         /\ StartOf(rec, j) < StartOf(rec, k) /\ EndOf(rec, j) <= StartOf(rec, k)
<1>1. {j, k} \subseteq Timed(rec)
  BY DEF Elsewhere, Precedes
<1>2. /\ StartOf(rec, j) < StartOf(rec, k)
      /\ EndOf(rec, j) <= StartOf(rec, k)
  BY DEF Elsewhere, Precedes
<1> QED
  BY <1>1, <1>2, IntervalType

(* Each stream with requests that were over when k began has a latest one. *)
LEMMA LatestExists ==
  ASSUME NEW Streams, NEW rec, Recording(rec, Streams), NEW k, NEW j \in Elsewhere(rec, k)
  PROVE  \E l \in Frontier(rec, k) : Stream(l) = Stream(j) /\ NoLater(rec, j, l)
<1> DEFINE J  == {i \in Elsewhere(rec, k) : Stream(i) = Stream(j)}
           b  == StartOf(rec, k)
<1>1. PICK n \in Nat : DOMAIN rec \subseteq Streams \X (0 .. n)
  BY DEF Recording
<1>2. /\ j \in J /\ b \in Int
      /\ \A i \in J : /\ StartOf(rec, i) \in Int /\ EndOf(rec, i) \in Int
                      /\ StartOf(rec, i) <= b /\ EndOf(rec, i) <= b
                      /\ Index(i) \in Int /\ Index(i) <= n
  <2>1. ASSUME NEW i \in J
        PROVE  /\ StartOf(rec, i) \in Int /\ EndOf(rec, i) \in Int /\ b \in Int
               /\ StartOf(rec, i) <= b /\ EndOf(rec, i) <= b
    BY ElsewhereType
  <2>2. ASSUME NEW i \in J PROVE Index(i) \in Int /\ Index(i) <= n
    <3>1. i \in DOMAIN rec
      BY DEF Elsewhere
    <3> QED BY <3>1, <1>1 DEF Index
  <2> QED BY <2>1, <2>2
<1> HIDE DEF J, b
<1> DEFINE J1 == {i \in J : \A h \in J : EndOf(rec, h) <= EndOf(rec, i)}
           J2 == {i \in J1 : \A h \in J1 : StartOf(rec, h) <= StartOf(rec, i)}
<1>3. J1 # {}
  <2> DEFINE T == {EndOf(rec, i) : i \in J}
  <2>1. T \subseteq Int /\ T # {} /\ \A t \in T : t <= b
    BY <1>2
  <2>2. PICK x \in T : \A y \in T : y <= x
    <3> HIDE DEF T
    <3> QED BY <2>1, <1>2, GreatestOf
  <2> QED BY <2>2
<1>4. J2 # {}
  <2> DEFINE T == {StartOf(rec, i) : i \in J1}
  <2>1. T \subseteq Int /\ T # {} /\ \A t \in T : t <= b
    BY <1>2, <1>3
  <2>2. PICK x \in T : \A y \in T : y <= x
    <3> HIDE DEF T
    <3> QED BY <2>1, <1>2, GreatestOf
  <2> QED BY <2>2
<1>5. PICK l \in J2 : \A h \in J2 : Index(h) <= Index(l)
  <2> DEFINE T == {Index(i) : i \in J2}
  <2>1. T \subseteq Int /\ T # {} /\ (\A t \in T : t <= n) /\ n \in Int
    BY <1>2, <1>4
  <2>2. PICK x \in T : \A y \in T : y <= x
    <3> HIDE DEF T
    <3> QED BY <2>1, GreatestOf
  <2> QED BY <2>2
<1>6. \A i \in J : NoLater(rec, i, l)
  <2> TAKE i \in J
  <2>1. l \in J /\ EndOf(rec, i) <= EndOf(rec, l)
    BY <1>5
  <2>2. CASE EndOf(rec, i) < EndOf(rec, l)
    BY <2>2 DEF NoLater
  <2>3. CASE EndOf(rec, i) = EndOf(rec, l)
    <3>1. i \in J1
      BY <2>3, <1>5
    <3>2. StartOf(rec, i) <= StartOf(rec, l)
      BY <3>1, <1>5
    <3>3. CASE StartOf(rec, i) < StartOf(rec, l)
      BY <2>3, <3>3 DEF NoLater
    <3>4. CASE StartOf(rec, i) = StartOf(rec, l)
      <4>1. i \in J2
        BY <3>1, <3>4, <1>5
      <4> QED BY <2>3, <3>4, <4>1, <1>5 DEF NoLater
    <3> QED BY <3>2, <3>3, <3>4, <2>1, <1>2
  <2> QED BY <2>1, <2>2, <2>3, <1>2
<1>7. l \in J
  BY <1>5
<1> QED
  BY <1>6, <1>7, <1>2 DEF Frontier, J

(* Within a sequential stream, the requests that end no later than one of  *)
(* those done are done.                                                    *)
LEMMA EarlierDone ==
  ASSUME NEW Streams, NEW rec, Recording(rec, Streams), Sequential(rec),
         NEW done, Prefix(rec, done),
         NEW j \in Timed(rec), NEW l \in Timed(rec),
         Stream(j) = Stream(l), NoLater(rec, j, l), l \in done
  PROVE  j \in done
<1>1. /\ j \in DOMAIN rec /\ l \in DOMAIN rec
      /\ j = <<Stream(j), Index(j)>> /\ l = <<Stream(l), Index(l)>>
      /\ Index(j) \in Int /\ Index(l) \in Int
  <2>1. PICK n \in Nat : DOMAIN rec \subseteq Streams \X (0 .. n)
    BY DEF Recording
  <2>2. j \in DOMAIN rec /\ l \in DOMAIN rec
    BY DEF Timed
  <2> QED BY <2>1, <2>2 DEF Stream, Index
<1>2. CASE Index(j) < Index(l)
  BY <1>1, <1>2 DEF Prefix
<1>3. CASE Index(j) = Index(l)
  <2>1. j = l
    BY <1>1, <1>3
  <2> QED BY <2>1
<1>4. CASE Index(l) < Index(j)
  <2>1. StartOf(rec, l) <= StartOf(rec, j) /\ EndOf(rec, l) <= EndOf(rec, j)
    BY <1>4 DEF Sequential
  <2>2. /\ StartOf(rec, j) \in Int /\ EndOf(rec, j) \in Int
        /\ StartOf(rec, l) \in Int /\ EndOf(rec, l) \in Int
    BY IntervalType
  <2> QED BY <2>1, <2>2, <1>1, <1>4 DEF NoLater
<1> QED
  BY <1>1, <1>2, <1>3, <1>4

(* The barrier's rule (ReplayBarrierCoordinator._ready) is enough: if what *)
(* has been answered so far kept the recorded order, and the predecessors  *)
(* of a request have been answered, so has every request of another stream *)
(* that was over when it began, the pruned ones and the earlier ones of    *)
(* each stream included.                                                   *)
THEOREM FrontierSuffices ==
  ASSUME NEW Streams, NEW rec, Recording(rec, Streams), Sequential(rec),
         NEW done, Prefix(rec, done), InOrder(rec, done),
         NEW k, Predecessors(rec, k) \subseteq done
  PROVE  Elsewhere(rec, k) \subseteq done
<1> SUFFICES ASSUME NEW j \in Elsewhere(rec, k) PROVE j \in done
  OBVIOUS
<1>1. PICK l \in Frontier(rec, k) : Stream(l) = Stream(j) /\ NoLater(rec, j, l)
  BY LatestExists
<1>2. j \in Timed(rec) /\ l \in Timed(rec) /\ l \in Elsewhere(rec, k)
  BY <1>1, ElsewhereType DEF Frontier
<1>3. CASE l \in Predecessors(rec, k)
  BY <1>1, <1>2, <1>3, EarlierDone
<1>4. CASE l \notin Predecessors(rec, k)
  <2> DEFINE M == {m \in Frontier(rec, k) : Precedes(rec, l, m)}
             T == {StartOf(rec, m) : m \in M}
  <2>1. M # {}
    BY <1>1, <1>4 DEF Predecessors
  <2>2. \A m \in M : m \in Elsewhere(rec, k)
    BY DEF Frontier
  <2>3. \A m \in M : StartOf(rec, m) \in Int /\ StartOf(rec, m) <= StartOf(rec, k)
    BY <2>2, ElsewhereType
  <2>4. StartOf(rec, k) \in Int
    BY <1>2, ElsewhereType
  <2>5. PICK m \in M : \A h \in M : StartOf(rec, h) <= StartOf(rec, m)
    <3>1. T \subseteq Int /\ T # {} /\ \A t \in T : t <= StartOf(rec, k)
      BY <2>1, <2>3
    <3>2. PICK x \in T : \A y \in T : y <= x
      <4> HIDE DEF T
      <4> QED BY <3>1, <2>4, GreatestOf
    <3> QED BY <3>2
  <2>6. m \in Predecessors(rec, k)
    <3> SUFFICES ASSUME NEW h \in Frontier(rec, k), Precedes(rec, m, h) PROVE FALSE
      BY <2>5 DEF Predecessors
    <3>1. Precedes(rec, l, h)
      BY <2>5, PrecedesTransitive
    <3>2. StartOf(rec, h) <= StartOf(rec, m)
      BY <3>1, <2>5
    <3>3. StartOf(rec, m) < StartOf(rec, h)
      BY DEF Precedes
    <3>4. StartOf(rec, h) \in Int /\ StartOf(rec, m) \in Int
      BY <3>1, <2>3, <2>5
    <3> HIDE DEF M
    <3> QED BY <3>2, <3>3, <3>4
  <2>7. m \in done /\ Precedes(rec, l, m)
    BY <2>5, <2>6
  <2>8. l \in done
    <3>1. CASE Stream(l) # Stream(m)
      BY <2>7, <3>1, <1>2 DEF InOrder, Elsewhere
    <3>2. CASE Stream(l) = Stream(m)
      <4>1. m \in Timed(rec) /\ NoLater(rec, l, m)
        <5>1. /\ m \in Timed(rec) /\ StartOf(rec, l) < StartOf(rec, m)
              /\ EndOf(rec, l) <= StartOf(rec, m)
          BY <2>7 DEF Precedes
        <5>2. /\ EndOf(rec, l) \in Int /\ StartOf(rec, m) \in Int /\ EndOf(rec, m) \in Int
              /\ StartOf(rec, l) \in Int /\ StartOf(rec, m) <= EndOf(rec, m)
          BY <5>1, <1>2, IntervalType
        <5> QED BY <5>1, <5>2 DEF NoLater
      <4> QED BY <4>1, <3>2, <1>2, <2>7, EarlierDone
    <3> QED BY <3>1, <3>2
  <2> QED BY <2>8, <1>1, <1>2, EarlierDone
<1> QED
  BY <1>3, <1>4

(* What the barrier lets through keeps the recorded order: an answer to a  *)
(* request whose predecessors, in its own stream and in the frontier, have *)
(* been answered extends an orderly history to an orderly history.         *)
THEOREM OrderKept ==
  ASSUME NEW Streams, NEW rec, Recording(rec, Streams), Sequential(rec),
         NEW done, Prefix(rec, done), InOrder(rec, done),
         NEW k, Predecessors(rec, k) \subseteq done,
         \A i \in DOMAIN rec : Stream(i) = Stream(k) /\ Index(i) < Index(k) => i \in done
  PROVE  Prefix(rec, done \cup {k}) /\ InOrder(rec, done \cup {k})
<1>1. Elsewhere(rec, k) \subseteq done
  BY FrontierSuffices
<1>2. Prefix(rec, done \cup {k})
  BY DEF Prefix
<1>3. InOrder(rec, done \cup {k})
  BY <1>1 DEF InOrder
<1> QED
  BY <1>2, <1>3

(* A nonempty set of integers with a lower bound has a least member.       *)
LEMMA LeastIntOf ==
  ASSUME NEW T, T \subseteq Int, T # {}, NEW b \in Int, \A t \in T : b <= t
  PROVE  \E x \in T : \A y \in T : x <= y
<1> DEFINE N == {0 - t : t \in T}
<1>1. N \subseteq Int /\ N # {}
  <2>1. \A t \in T : 0 - t \in Int
    OBVIOUS
  <2>2. PICK t \in T : TRUE
    OBVIOUS
  <2>3. 0 - t \in N
    OBVIOUS
  <2> QED BY <2>1, <2>3
<1>2. 0 - b \in Int /\ \A n \in N : n <= 0 - b
  OBVIOUS
<1>3. PICK m \in N : \A n \in N : n <= m
  <2> HIDE DEF N
  <2> QED BY <1>1, <1>2, GreatestOf
<1>4. PICK x \in T : m = 0 - x
  OBVIOUS
<1>5. \A y \in T : x <= y
  <2> TAKE y \in T
  <2>1. 0 - y \in N
    OBVIOUS
  <2>2. 0 - y <= m
    BY <2>1, <1>3
  <2>3. x \in Int /\ y \in Int
    OBVIOUS
  <2> HIDE DEF N
  <2> QED BY <2>2, <2>3, <1>4
<1> QED
  BY <1>5

(* The first requests of the streams that are not done. *)
Heads(rec, done) ==
  {h \in DOMAIN rec \ done :
     \A i \in DOMAIN rec \ done : Stream(i) = Stream(h) => Index(h) <= Index(i)}

(* A stream with a request left has a first one left.                      *)
LEMMA HeadExists ==
  ASSUME NEW Streams, NEW rec, Recording(rec, Streams), NEW done,
         NEW j \in DOMAIN rec \ done
  PROVE  \E h \in Heads(rec, done) : Stream(h) = Stream(j) /\ Index(h) <= Index(j)
<1> DEFINE J == {i \in DOMAIN rec \ done : Stream(i) = Stream(j)}
           T == {Index(i) : i \in J}
<1>1. PICK n \in Nat : DOMAIN rec \subseteq Streams \X (0 .. n)
  BY DEF Recording
<1>2. \A i \in J : Index(i) \in Nat
  BY <1>1 DEF Index
<1>3. T \subseteq Nat
  BY <1>2
<1>4. T # {}
  OBVIOUS
<1>5. PICK x \in T : \A y \in T : x <= y
  <2> HIDE DEF T
  <2> QED BY <1>3, <1>4, LeastOf
<1>6. PICK h \in J : Index(h) = x
  OBVIOUS
<1>7. \A i \in J : Index(h) <= Index(i)
  BY <1>5, <1>6
<1> QED
  BY <1>6, <1>7 DEF Heads

(* The barrier cannot come to a standstill of its own: while some request  *)
(* has not been answered, one that is the next of its stream has all its   *)
(* predecessors answered.                                                  *)
THEOREM NoStandstill ==
  ASSUME NEW Streams, NEW rec, Recording(rec, Streams), Sequential(rec),
         NEW done, DOMAIN rec \ done # {}
  PROVE  \E k \in Heads(rec, done) : Predecessors(rec, k) \subseteq done
<1>1. Heads(rec, done) # {}
  BY HeadExists
<1>2. CASE \E k \in Heads(rec, done) : k \notin Timed(rec)
  <2>1. PICK k \in Heads(rec, done) : k \notin Timed(rec)
    BY <1>2
  <2>2. Predecessors(rec, k) = {}
    BY <2>1 DEF Predecessors, Frontier, Elsewhere, Precedes
  <2> QED BY <2>2
<1>3. CASE Heads(rec, done) \subseteq Timed(rec)
  <2> DEFINE T == {StartOf(rec, h) : h \in Heads(rec, done)}
  <2>1. PICK b \in Int : \A k \in Timed(rec) : StartOf(rec, k) >= b
    BY DEF Recording
  <2>2. \A h \in Heads(rec, done) : StartOf(rec, h) \in Int /\ b <= StartOf(rec, h)
    BY <1>3, <2>1, IntervalType
  <2>3. T \subseteq Int /\ T # {} /\ \A t \in T : b <= t
    BY <1>1, <2>2
  <2>4. PICK x \in T : \A y \in T : x <= y
    <3> HIDE DEF T
    <3> QED BY <2>3, LeastIntOf
  <2>5. PICK k \in Heads(rec, done) : StartOf(rec, k) = x
    OBVIOUS
  <2>6. \A h \in Heads(rec, done) : StartOf(rec, k) <= StartOf(rec, h)
    BY <2>4, <2>5
  <2>7. ASSUME NEW j \in Predecessors(rec, k), j \notin done PROVE FALSE
    <3>1. j \in Elsewhere(rec, k)
      BY DEF Predecessors, Frontier
    <3>2. /\ j \in Timed(rec) /\ j \in DOMAIN rec
          /\ StartOf(rec, j) \in Int /\ StartOf(rec, j) < StartOf(rec, k)
      BY <3>1, ElsewhereType DEF Elsewhere
    <3>3. PICK h \in Heads(rec, done) : Stream(h) = Stream(j) /\ Index(h) <= Index(j)
      BY <3>2, <2>7, HeadExists
    <3>4. StartOf(rec, h) <= StartOf(rec, j)
      <4>1. PICK n \in Nat : DOMAIN rec \subseteq Streams \X (0 .. n)
        BY DEF Recording
      <4>2. h \in DOMAIN rec
        BY DEF Heads
      <4>3. /\ h = <<Stream(h), Index(h)>> /\ Index(h) \in Int
            /\ j = <<Stream(j), Index(j)>> /\ Index(j) \in Int
        BY <4>1, <4>2, <3>2 DEF Stream, Index
      <4>4. CASE Index(h) < Index(j)
        BY <4>4, <3>2, <3>3, <1>3 DEF Sequential
      <4>5. CASE Index(h) = Index(j)
        BY <4>3, <4>5, <3>2, <3>3
      <4> QED BY <4>3, <4>4, <4>5, <3>3
    <3>5. StartOf(rec, k) <= StartOf(rec, h) /\ StartOf(rec, h) \in Int /\ StartOf(rec, k) \in Int
      BY <2>2, <2>6
    <3> QED BY <3>2, <3>4, <3>5
  <2> QED BY <2>7
<1> QED
  BY <1>2, <1>3

-----------------------------------------------------------------------------
(* SessionTree, for any number of trees and of descendants, from one       *)
(* inductive invariant: while a tree is open the registry's count and its  *)
(* root flag are what is truly at work.                                    *)
CONSTANTS Roots, MaxSpawn
VARIABLES trees, live, up, swept

Reg == INSTANCE SessionTree

(* What the record of tree r says of r, by its place in the registry.      *)
Waiting(r) ==
  trees[r].at = "unopened" =>
    /\ trees[r].freed = 0 /\ ~up[r]
    /\ ~swept => trees[r].early = live[r]

Tracking(r) ==
  trees[r].at = "open" =>
    /\ trees[r].freed = 0 /\ trees[r].early = 0 /\ ~swept
    /\ trees[r].out = live[r] /\ trees[r].root = up[r]
    /\ live[r] > 0 \/ up[r]

Resting(r) ==
  trees[r].at = "gone" => trees[r].freed = 1 /\ live[r] = 0 /\ ~up[r]

TreesTyped ==
  /\ trees \in [Roots -> Reg!Tree]
  /\ live \in [Roots -> Nat]
  /\ up \in [Roots -> BOOLEAN]
  /\ swept \in BOOLEAN

(* The inductive invariant of the registry.                                *)
TreesIInv == TreesTyped /\ \A r \in Roots : Waiting(r) /\ Tracking(r) /\ Resting(r)

(* release_session_slot, open_tree and register_descendants on a record.   *)
LEMMA RegisteredTree ==
  ASSUME NEW t \in Reg!Tree, NEW n \in Nat
  PROVE  /\ Reg!Registered(t, n) \in Reg!Tree
         /\ Reg!Registered(t, n).at = t.at /\ Reg!Registered(t, n).freed = t.freed
         /\ Reg!Registered(t, n).root = t.root
         /\ t.at = "open" => Reg!Registered(t, n).out = t.out + n
                             /\ Reg!Registered(t, n).early = t.early
         /\ t.at # "open" => Reg!Registered(t, n).early = t.early + n
BY DEF Reg!Registered, Reg!Tree

(* open_tree on a record that is not open.                                 *)
LEMMA OpenedTree ==
  ASSUME NEW t \in Reg!Tree, NEW pending \in BOOLEAN, t.at = "unopened"
  PROVE  /\ Reg!Opened(t, pending) \in Reg!Tree
         /\ Reg!Opened(t, pending).at = "open" /\ Reg!Opened(t, pending).freed = t.freed
         /\ Reg!Opened(t, pending).root = pending
         /\ Reg!Opened(t, pending).out = t.early /\ Reg!Opened(t, pending).early = 0
<1> DEFINE at == [t EXCEPT !.at = "open"]
           root == [at EXCEPT !.root = pending]
           out == [root EXCEPT !.out = t.early]
           early == [out EXCEPT !.early = 0]
<1>1. at \in Reg!Tree /\ at.at = "open" /\ at.freed = t.freed
  BY DEF Reg!Tree
<1>2. Reg!Opened(t, pending) = early
  BY DEF Reg!Opened, Reg!Tree
<1> HIDE DEF at
<1>3. root \in Reg!Tree /\ root.at = "open" /\ root.freed = t.freed /\ root.root = pending
  BY <1>1 DEF Reg!Tree
<1> HIDE DEF root
<1>4. /\ out \in Reg!Tree /\ out.at = "open" /\ out.freed = t.freed
      /\ out.root = pending /\ out.out = t.early
  BY <1>3 DEF Reg!Tree
<1> HIDE DEF out
<1>5. /\ early \in Reg!Tree /\ early.at = "open" /\ early.freed = t.freed
      /\ early.root = pending /\ early.out = t.early /\ early.early = 0
  BY <1>4 DEF Reg!Tree
<1> QED BY <1>2, <1>5

(* release_session_slot on a record.                                       *)
LEMMA ReleasedTree ==
  ASSUME NEW t \in Reg!Tree
  PROVE  /\ Reg!Released(t) \in Reg!Tree
         /\ Reg!Released(t).at = "gone" /\ Reg!Released(t).freed = t.freed + 1
<1> DEFINE at == [t EXCEPT !.at = "gone"]
<1>1. at \in Reg!Tree /\ at.at = "gone" /\ at.freed = t.freed
  BY DEF Reg!Tree
<1>2. Reg!Released(t) = [at EXCEPT !.freed = at.freed + 1]
  BY <1>1 DEF Reg!Released, Reg!Tree
<1> HIDE DEF at
<1> QED BY <1>1, <1>2 DEF Reg!Tree

(* n descendants and then, perhaps, the root end in an open tree that has  *)
(* them: it is released exactly when nothing is left.                      *)
LEMMA EndedTree ==
  ASSUME NEW t \in Reg!Tree, NEW n \in Nat, NEW root \in BOOLEAN,
         t.at = "open", n <= t.out, root => t.root, t.out > 0 \/ t.root
  PROVE  /\ Reg!Ended(t, n, root) \in Reg!Tree
         /\ t.out - n = 0 /\ (t.root => root)
              => Reg!Ended(t, n, root).at = "gone" /\ Reg!Ended(t, n, root).freed = t.freed + 1
         /\ ~(t.out - n = 0 /\ (t.root => root))
              => /\ Reg!Ended(t, n, root).at = "open" /\ Reg!Ended(t, n, root).freed = t.freed
                 /\ Reg!Ended(t, n, root).early = t.early
                 /\ Reg!Ended(t, n, root).out = t.out - n
                 /\ Reg!Ended(t, n, root).root = (t.root /\ ~root)
<1> DEFINE less == [t EXCEPT !.out = t.out - n]
           down == [less EXCEPT !.root = FALSE]
<1>1. /\ less \in Reg!Tree /\ less.at = "open" /\ less.freed = t.freed
      /\ less.early = t.early /\ less.out = t.out - n /\ less.root = t.root
  BY DEF Reg!Tree
<1>2. n = 0 => less = t
  BY DEF Reg!Tree
<1>3. Reg!DescendantsDone(t, n)
        = IF n = 0 \/ t.root \/ t.out - n > 0 THEN less ELSE Reg!Released(less)
  BY <1>1, <1>2 DEF Reg!DescendantsDone, Reg!ReleasedIfDrained, Reg!Less, Reg!Tree
<1> HIDE DEF less
<1>4. /\ down \in Reg!Tree /\ down.at = "open" /\ down.freed = t.freed
      /\ down.early = t.early /\ down.out = t.out - n /\ down.root = FALSE
  BY <1>1 DEF Reg!Tree
<1>5. Reg!RootTerminal(less) = IF t.out - n > 0 THEN down ELSE Reg!Released(down)
  BY <1>1, <1>4 DEF Reg!RootTerminal, Reg!ReleasedIfDrained, Reg!Tree
<1> HIDE DEF down
<1>6. /\ Reg!Released(less) \in Reg!Tree /\ Reg!Released(less).at = "gone"
      /\ Reg!Released(less).freed = t.freed + 1
  BY <1>1, ReleasedTree
<1>7. /\ Reg!Released(down) \in Reg!Tree /\ Reg!Released(down).at = "gone"
      /\ Reg!Released(down).freed = t.freed + 1
  BY <1>4, ReleasedTree
<1>8. t.out - n \in Nat /\ t.out \in Nat /\ t.root \in BOOLEAN
  BY <1>1 DEF Reg!Tree
<1>9. CASE root
  <2>1. t.root /\ Reg!DescendantsDone(t, n) = less
    BY <1>3, <1>9
  <2>2. Reg!Ended(t, n, root) = IF t.out - n > 0 THEN down ELSE Reg!Released(down)
    BY <1>5, <1>9, <2>1 DEF Reg!Ended
  <2>3. CASE t.out - n > 0
    <3>1. Reg!Ended(t, n, root) = down
      BY <2>2, <2>3
    <3>2. ~(t.out - n = 0) /\ (t.root /\ ~root) = FALSE
      BY <1>8, <1>9, <2>3
    <3> QED BY <1>4, <3>1, <3>2
  <2>4. CASE ~(t.out - n > 0)
    <3>1. Reg!Ended(t, n, root) = Reg!Released(down) /\ t.out - n = 0
      BY <1>8, <2>2, <2>4
    <3> QED BY <1>7, <1>9, <3>1
  <2> QED BY <2>3, <2>4
<1>10. CASE ~root
  <2>1. Reg!Ended(t, n, root) = Reg!DescendantsDone(t, n)
    BY <1>10 DEF Reg!Ended
  <2>2. CASE t.root \/ t.out - n > 0
    <3>1. Reg!Ended(t, n, root) = less
      BY <1>3, <2>1, <2>2
    <3> QED BY <1>1, <1>8, <1>10, <2>2, <3>1
  <2>3. CASE ~t.root /\ ~(t.out - n > 0)
    <3>1. t.out - n = 0 /\ n # 0
      BY <1>8, <2>3
    <3>2. Reg!Ended(t, n, root) = Reg!Released(less)
      BY <1>3, <2>1, <2>3, <3>1
    <3> QED BY <1>6, <1>10, <2>3, <3>1, <3>2
  <2> QED BY <2>2, <2>3
<1> QED BY <1>9, <1>10

(* seed_snapshot leaves the registry with what is at work.                 *)
LEMMA TreesInit == Reg!Init => TreesIInv
<1> SUFFICES ASSUME Reg!Init PROVE TreesIInv
  OBVIOUS
<1>1. live \in [Roots -> Nat]
  BY DEF Reg!Init
<1>2. /\ Reg!NewTree \in Reg!Tree /\ Reg!NewTree.at = "unopened"
      /\ Reg!NewTree.freed = 0 /\ Reg!NewTree.early = 0
  BY DEF Reg!NewTree, Reg!Tree
<1>3. \A r \in Roots :
        /\ trees[r] \in Reg!Tree /\ trees[r].at = "unopened" /\ trees[r].freed = 0
        /\ trees[r].early = live[r] /\ ~up[r]
  <2> TAKE r \in Roots
  <2> DEFINE new == Reg!NewTree
             t == Reg!Registered(new, live[r])
  <2>1. trees[r] = t /\ live[r] \in Nat /\ ~up[r]
    BY <1>1 DEF Reg!Init
  <2>2. /\ new \in Reg!Tree /\ new.at = "unopened" /\ new.freed = 0 /\ new.early = 0
    BY <1>2
  <2> HIDE DEF new
  <2>3. /\ t \in Reg!Tree /\ t.at = new.at /\ t.freed = new.freed
        /\ new.at # "open" => t.early = new.early + live[r]
    <3>1. t \in Reg!Tree /\ t.at = new.at /\ t.freed = new.freed
      BY <2>1, <2>2, RegisteredTree
    <3>2. new.at # "open" => t.early = new.early + live[r]
      BY <2>1, <2>2, RegisteredTree
    <3> QED BY <3>1, <3>2
  <2> HIDE DEF t
  <2> QED BY <2>1, <2>2, <2>3
<1> QED BY <1>1, <1>3 DEF Reg!Init, TreesIInv, TreesTyped, Waiting, Tracking, Resting

(* One tree moves and the others stay: what is to be shown of the one.     *)
LEMMA OneTree ==
  ASSUME TreesIInv, NEW r \in Roots, NEW t \in Reg!Tree, NEW n \in Nat, NEW u \in BOOLEAN,
         trees' = [trees EXCEPT ![r] = t], live' = [live EXCEPT ![r] = n],
         up' = [up EXCEPT ![r] = u], UNCHANGED swept,
         t.at = "unopened" => t.freed = 0 /\ ~u /\ (~swept => t.early = n),
         t.at = "open" => /\ t.freed = 0 /\ t.early = 0 /\ ~swept
                          /\ t.out = n /\ t.root = u /\ (n > 0 \/ u),
         t.at = "gone" => t.freed = 1 /\ n = 0 /\ ~u
  PROVE  TreesIInv'
<1>1. TreesTyped'
  BY DEF TreesIInv, TreesTyped
<1>2. trees'[r] = t /\ live'[r] = n /\ up'[r] = u
  BY DEF TreesIInv, TreesTyped
<1>3. \A q \in Roots \ {r} : trees'[q] = trees[q] /\ live'[q] = live[q] /\ up'[q] = up[q]
  BY DEF TreesIInv, TreesTyped
<1>4. Waiting(r)' /\ Tracking(r)' /\ Resting(r)'
  BY <1>2 DEF Waiting, Tracking, Resting
<1>5. \A q \in Roots \ {r} : Waiting(q)' /\ Tracking(q)' /\ Resting(q)'
  BY <1>3 DEF TreesIInv, Waiting, Tracking, Resting
<1> QED BY <1>1, <1>4, <1>5 DEF TreesIInv

(* open_tree takes the descendants that came first over.                   *)
LEMMA OpenInv ==
  ASSUME TreesIInv, NEW r \in Roots, NEW pending \in BOOLEAN, Reg!Open(r, pending)
  PROVE  TreesIInv'
<1> DEFINE t == Reg!Opened(trees[r], pending)
<1>1. trees[r] \in Reg!Tree /\ live[r] \in Nat /\ live \in [Roots -> Nat]
  BY DEF TreesIInv, TreesTyped
<1>2. trees[r].at = "unopened" /\ ~swept /\ (pending \/ live[r] > 0)
  BY DEF Reg!Open
<1>3. trees[r].freed = 0 /\ trees[r].early = live[r]
  BY <1>2 DEF TreesIInv, Waiting
<1>4. /\ trees' = [trees EXCEPT ![r] = t] /\ up' = [up EXCEPT ![r] = pending]
      /\ UNCHANGED <<live, swept>>
  BY DEF Reg!Open
<1>5. live' = [live EXCEPT ![r] = live[r]]
  BY <1>1, <1>4
<1>6. /\ t \in Reg!Tree /\ t.at = "open" /\ t.freed = 0
      /\ t.root = pending /\ t.out = live[r] /\ t.early = 0
  <2>1. /\ t \in Reg!Tree /\ t.at = "open" /\ t.freed = trees[r].freed
        /\ t.root = pending /\ t.out = trees[r].early /\ t.early = 0
    BY <1>1, <1>2, OpenedTree
  <2> HIDE DEF t
  <2> QED BY <1>3, <2>1
<1> HIDE DEF t
<1> QED BY <1>1, <1>2, <1>4, <1>5, <1>6, OneTree

(* Descendants are counted where their tree is: open or not yet.           *)
LEMMA SpawnInv ==
  ASSUME TreesIInv, NEW r \in Roots, NEW n \in 1..MaxSpawn, Reg!Spawn(r, n) PROVE TreesIInv'
<1>1. /\ trees[r] \in Reg!Tree /\ live[r] \in Nat /\ up[r] \in BOOLEAN
      /\ up \in [Roots -> BOOLEAN] /\ n \in Nat
  BY DEF TreesIInv, TreesTyped
<1>2. up' = [up EXCEPT ![r] = up[r]] /\ live[r] + n \in Nat
  BY <1>1 DEF Reg!Spawn
<1> DEFINE t == Reg!Registered(trees[r], n)
<1>3. trees' = [trees EXCEPT ![r] = t] /\ live' = [live EXCEPT ![r] = live[r] + n]
        /\ ~swept /\ UNCHANGED swept
  BY DEF Reg!Spawn
<1>4. /\ t \in Reg!Tree /\ t.at = trees[r].at /\ t.freed = trees[r].freed
      /\ t.root = trees[r].root
      /\ t.at = "open" => t.out = trees[r].out + n /\ t.early = trees[r].early
      /\ t.at # "open" => t.early = trees[r].early + n
  <2>1. trees[r] \in Reg!Tree /\ n \in Nat
    BY <1>1
  <2>2. t \in Reg!Tree /\ t.at = trees[r].at /\ t.freed = trees[r].freed
    BY <2>1, RegisteredTree
  <2>3. t.root = trees[r].root
    BY <2>1, RegisteredTree
  <2>4. trees[r].at = "open" => t.out = trees[r].out + n /\ t.early = trees[r].early
    BY <2>1, RegisteredTree
  <2>5. trees[r].at # "open" => t.early = trees[r].early + n
    BY <2>1, RegisteredTree
  <2> HIDE DEF t
  <2> QED BY <2>2, <2>3, <2>4, <2>5
<1> HIDE DEF t
<1>5. t.at = "unopened" => t.freed = 0 /\ ~up[r] /\ t.early = live[r] + n
  BY <1>3, <1>4 DEF TreesIInv, Waiting
<1>6. t.at = "open" => /\ t.freed = 0 /\ t.early = 0 /\ ~swept
                       /\ t.out = live[r] + n /\ t.root = up[r] /\ live[r] + n > 0
  <2>1. trees[r].at = "open" => /\ trees[r].freed = 0 /\ trees[r].early = 0 /\ ~swept
                                 /\ trees[r].out = live[r] /\ trees[r].root = up[r]
    BY DEF TreesIInv, Tracking
  <2>2. live[r] + n > 0
    BY <1>1
  <2> QED BY <1>4, <2>1, <2>2
<1>7. t.at # "gone"
  BY <1>1, <1>4 DEF TreesIInv, Resting, Reg!Spawn
<1> QED BY <1>1, <1>2, <1>3, <1>4, <1>5, <1>6, <1>7, OneTree

(* Descendants and the root end; the last to do so frees the slot.         *)
LEMMA EndInv ==
  ASSUME TreesIInv, NEW r \in Roots, NEW n \in 0..MaxSpawn, NEW root \in BOOLEAN,
         Reg!End(r, n, root)
  PROVE  TreesIInv'
<1> DEFINE end == Reg!Ended(trees[r], n, root)
<1>1. /\ trees[r] \in Reg!Tree /\ live[r] \in Nat /\ up[r] \in BOOLEAN /\ n \in Nat
      /\ n <= live[r] /\ live[r] - n \in Nat /\ (root => up[r]) /\ ~swept
  BY DEF TreesIInv, TreesTyped, Reg!End
<1>2. /\ trees' = [trees EXCEPT ![r] = end] /\ live' = [live EXCEPT ![r] = live[r] - n]
      /\ up' = [up EXCEPT ![r] = up[r] /\ ~root] /\ UNCHANGED swept
  BY DEF Reg!End
<1>3. CASE trees[r].at = "unopened"
  <2>1. ~root /\ ~up[r] /\ trees[r].freed = 0 /\ trees[r].early = live[r]
    BY <1>1, <1>3 DEF TreesIInv, Waiting
  <2>2. end \in Reg!Tree /\ end.at = "unopened" /\ end.freed = 0 /\ end.early = live[r] - n
    BY <1>1, <1>3, <2>1 DEF Reg!Ended, Reg!DescendantsDone, Reg!Less, Reg!Tree
  <2> QED BY <1>1, <1>2, <2>1, <2>2, OneTree
<1>4. CASE trees[r].at = "open"
  <2>1. /\ trees[r].freed = 0 /\ trees[r].early = 0 /\ trees[r].out = live[r]
        /\ trees[r].root = up[r] /\ (live[r] > 0 \/ up[r])
    BY <1>4 DEF TreesIInv, Tracking
  <2>2. /\ end \in Reg!Tree
        /\ live[r] - n = 0 /\ (up[r] => root) => end.at = "gone" /\ end.freed = 1
        /\ ~(live[r] - n = 0 /\ (up[r] => root))
             => /\ end.at = "open" /\ end.freed = 0 /\ end.early = 0
                /\ end.out = live[r] - n /\ end.root = (up[r] /\ ~root)
    BY <1>1, <1>4, <2>1, EndedTree
  <2>3. (up[r] /\ ~root) \in BOOLEAN
    OBVIOUS
  <2> HIDE DEF end
  <2>4. CASE live[r] - n = 0 /\ (up[r] => root)
    <3>1. end.at = "gone" /\ end.freed = 1 /\ ~(up[r] /\ ~root)
      BY <2>2, <2>4
    <3> QED BY <1>1, <1>2, <2>2, <2>3, <2>4, <3>1, OneTree
  <2>5. CASE ~(live[r] - n = 0 /\ (up[r] => root))
    <3>1. /\ end.at = "open" /\ end.freed = 0 /\ end.early = 0
          /\ end.out = live[r] - n /\ end.root = (up[r] /\ ~root)
      BY <2>2, <2>5
    <3>2. live[r] - n > 0 \/ (up[r] /\ ~root)
      BY <1>1, <2>5
    <3> QED BY <1>1, <1>2, <2>2, <2>3, <3>1, <3>2, OneTree
  <2> QED BY <2>4, <2>5
<1>5. CASE trees[r].at = "gone"
  <2>1. live[r] = 0 /\ ~up[r] /\ n = 0 /\ ~root /\ trees[r].freed = 1
    BY <1>1, <1>5 DEF TreesIInv, Resting
  <2>2. end = trees[r] /\ live[r] - n = 0 /\ (up[r] /\ ~root) = FALSE
    BY <2>1 DEF Reg!Ended, Reg!DescendantsDone
  <2> HIDE DEF end
  <2>3. end \in Reg!Tree /\ end.at = "gone" /\ end.freed = 1
    BY <1>1, <1>5, <2>1, <2>2
  <2> QED BY <1>1, <1>2, <2>2, <2>3, OneTree
<1> QED BY <1>1, <1>3, <1>4, <1>5 DEF Reg!Tree

(* release_all frees what is still open, and nothing twice.                *)
LEMMA SweepInv == ASSUME TreesIInv, Reg!Sweep PROVE TreesIInv'
<1>1. \A r \in Roots :
        /\ trees[r] \in Reg!Tree
        /\ Reg!Swept(trees[r]) \in Reg!Tree /\ Reg!Swept(trees[r]).at # "open"
        /\ Reg!Swept(trees[r]).at = "unopened" => Reg!Swept(trees[r]).freed = 0
        /\ Reg!Swept(trees[r]).at = "gone" => Reg!Swept(trees[r]).freed = 1
  <2> TAKE r \in Roots
  <2>1. trees[r] \in Reg!Tree /\ trees[r].at \in {"unopened", "open", "gone"}
    BY DEF TreesIInv, TreesTyped, Reg!Tree
  <2>2. /\ trees[r].at \in {"unopened", "open"} => trees[r].freed = 0
        /\ trees[r].at = "gone" => trees[r].freed = 1
    BY <2>1 DEF TreesIInv, Waiting, Tracking, Resting
  <2> QED BY <2>1, <2>2, ReleasedTree DEF Reg!Swept
<1>2. TreesTyped'
  BY <1>1 DEF Reg!Sweep, TreesIInv, TreesTyped
<1> QED BY <1>1, <1>2 DEF Reg!Sweep, TreesIInv, Waiting, Tracking, Resting

(* Every step of the registry keeps the invariant.                         *)
LEMMA TreesNext == TreesIInv /\ [Reg!Next]_Reg!vars => TreesIInv'
<1> SUFFICES ASSUME TreesIInv, [Reg!Next]_Reg!vars PROVE TreesIInv'
  OBVIOUS
<1>1. CASE UNCHANGED Reg!vars
  BY <1>1 DEF Reg!vars, TreesIInv, TreesTyped, Waiting, Tracking, Resting
<1>2. CASE Reg!Next
  BY <1>2, OpenInv, SpawnInv, EndInv, SweepInv DEF Reg!Next
<1> QED BY <1>1, <1>2

(* The registry's invariant holds throughout a phase.                      *)
LEMMA TreesInvariance == Reg!Spec => []TreesIInv
BY TreesInit, TreesNext, PTL DEF Reg!Spec

(* SlotFreedOnce of session_tree.py's _maybe_release and release_all, for  *)
(* any trees.                                                              *)
THEOREM SlotFreedOnceThm == Reg!Spec => []Reg!SlotFreedOnce
<1>1. ASSUME TreesIInv, NEW r \in Roots PROVE trees[r].freed <= 1
  <2>1. trees[r].at \in {"unopened", "open", "gone"}
    BY <1>1 DEF TreesIInv, TreesTyped, Reg!Tree
  <2>2. trees[r].freed \in {0, 1}
    BY <1>1, <2>1 DEF TreesIInv, Waiting, Tracking, Resting
  <2> QED BY <2>2
<1>2. TreesIInv => Reg!SlotFreedOnce
  BY <1>1 DEF Reg!SlotFreedOnce
<1> QED BY <1>2, TreesInvariance, PTL

(* FreedAtRest: _maybe_release frees a slot only when the whole tree rests.*)
THEOREM FreedAtRestThm == Reg!Spec => []Reg!FreedAtRest
<1>1. TreesIInv => Reg!FreedAtRest
  BY DEF TreesIInv, TreesTyped, Reg!Tree, Waiting, Tracking, Resting, Reg!FreedAtRest
<1> QED BY <1>1, TreesInvariance, PTL

(* RestFreesSlot: no tree at rest keeps its slot, so the lane is recycled. *)
THEOREM RestFreesSlotThm == Reg!Spec => []Reg!RestFreesSlot
<1>1. TreesIInv => Reg!RestFreesSlot
  BY DEF TreesIInv, Tracking, Reg!RestFreesSlot
<1> QED BY <1>1, TreesInvariance, PTL
=============================================================================
