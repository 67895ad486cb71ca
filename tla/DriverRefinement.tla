-------------------------- MODULE DriverRefinement --------------------------
(***************************************************************************)
(* DriverLifecycle implements ManagedNode: every step of a thread, of a    *)
(* client or of the firmware is a step of the managed node or leaves it    *)
(* alone.  The last parts are about what the documents say and the code    *)
(* does not do: the serialisation which the comments promise, and the two  *)
(* callback groups do not give, would be enough for what they say of       *)
(* deactivation and of destroyed Arms; after a refused ENABLE nothing is.  *)
(***************************************************************************)
EXTENDS DriverLifecycleProofs

USE DEF SdkPcs, LifecyclePcs

Configuring == {"create", "connect", "describe", "advertise"}
Activating  == {"enable", "enabling", "serve", "activate_publishers", "start_timers"}
LeavingZeroG == {"leave_zero_g", "leaving_zero_g"}
TearingDown == {"stop_timers", "unserve", "deactivate_publishers", "closing", "destroy"}

\* Where a thread is tells which transition the node is in and what is there already.
StepInv(t) ==
  /\ pc[t] \in Configuring => state = "configuring"
  /\ pc[t] \in Configuring \ {"create"} => arm # NoSession
  /\ pc[t] \in Activating => state = "activating"
  /\ pc[t] \in Activating \ {"enable"} => arm # NoSession
  /\ pc[t] \in {"activate_publishers", "start_timers"} => serving
  /\ pc[t] \in LeavingZeroG => job[t] = "deactivate" /\ state = "deactivating"
  /\ pc[t] \in TearingDown => \/ job[t] = "deactivate" /\ state = "deactivating"
                              \/ job[t] = "cleanup" /\ state = "cleaning_up"
                              \/ job[t] = "shutdown" /\ state = "shutting_down"
  /\ pc[t] \in {"closing", "destroy"} => job[t] # "deactivate"
  /\ pc[t] \in {"deactivate_publishers", "closing", "destroy"} => ~ serving
  /\ pc[t] = "on_error" => state = "error_processing"

StepsInv ==
  /\ \A t \in Threads : pc[t] \in LifecyclePcs => StepInv(t)
  /\ state \in Passing => \E t \in Threads : pc[t] \in LifecyclePcs

-----------------------------------------------------------------------------
(* The strengthening is an invariant.                                        *)

\* A transition callback moves on: there is no other one to disturb.
LEMMA StepsMoved ==
  ASSUME TypeOK, ExclusionInv, NEW t \in Threads, pc[t] \in LifecyclePcs,
         NEW next \in LifecyclePcs, Goto(t, next), StepInv(t)'
  PROVE  StepsInv'
<1>1. \A u \in Threads : pc'[u] \in LifecyclePcs => u = t
  BY DEF TypeOK, ExclusionInv, CallbackExclusion, Goto
<1>2. pc'[t] \in LifecyclePcs
  BY DEF TypeOK, Goto
<1> QED
  BY <1>1, <1>2 DEF StepsInv

\* A transition callback returns in a primary state.
LEMMA StepsEnded ==
  ASSUME TypeOK, ExclusionInv, NEW t \in Threads, pc[t] \in LifecyclePcs,
         Release(t), state' \in Primary
  PROVE  StepsInv'
<1>1. \A u \in Threads : pc'[u] \notin LifecyclePcs
  BY DEF TypeOK, ExclusionInv, CallbackExclusion, Release
<1> QED
  BY <1>1 DEF StepsInv, Primary, Passing

\* A step outside the transition callbacks.
LEMMA StepsKept ==
  ASSUME StepsInv, UNCHANGED <<state, arm, serving>>,
         \A t \in Threads : /\ pc'[t] \in LifecyclePcs <=> pc[t] \in LifecyclePcs
                            /\ pc[t] \in LifecyclePcs => pc'[t] = pc[t] /\ job'[t] = job[t]
  PROVE  StepsInv'
<1>1. ASSUME NEW t \in Threads, pc'[t] \in LifecyclePcs PROVE StepInv(t)'
  <2>1. StepInv(t) /\ pc'[t] = pc[t] /\ job'[t] = job[t]
    BY <1>1 DEF StepsInv
  <2> QED
    BY <2>1 DEF StepInv
<1> QED
  BY <1>1 DEF StepsInv

LEMMA StepsInit == Init => StepsInv
  BY DEF Init, StepsInv, Passing

LEMMA StepsStep == TypeOK /\ ExclusionInv /\ StepsInv /\ [Next]_vars => StepsInv'
<1> SUFFICES ASSUME TypeOK, ExclusionInv, StepsInv, [Next]_vars PROVE StepsInv'
  OBVIOUS
<1> USE DEF Configuring, Activating, LeavingZeroG, TearingDown
<1>0. ASSUME NEW t \in Threads, pc[t] \in LifecyclePcs PROVE StepInv(t)
  BY <1>0 DEF StepsInv
<1>1. ASSUME NEW t \in Threads, BeginCall(t) \/ RefuseCall(t) \/ ReturnCall(t)
      PROVE  StepsInv'
  BY <1>1, StepsKept DEF TypeOK, BeginCall, RefuseCall, ReturnCall, Goto, Release
<1>2. ASSUME NEW t \in Threads, CreateArm(t) PROVE StepsInv'
  <2>1. arm' # NoSession /\ state' = state /\ state = "configuring"
    BY <1>0, <1>2, SessionAssumption DEF StepInv, CreateArm
  <2>2. pc'[t] = "connect"
    BY <1>2 DEF TypeOK, CreateArm, Goto
  <2>3. StepInv(t)'
    BY <2>1, <2>2 DEF StepInv
  <2> QED
    BY <1>2, <2>3, StepsMoved DEF CreateArm
<1>3. ASSUME NEW t \in Threads, ConnectOk(t) PROVE StepsInv'
  BY <1>0, <1>3, StepsMoved DEF TypeOK, StepInv, ConnectOk, Goto
<1>4. ASSUME NEW t \in Threads, ConfigureFails(t) PROVE StepsInv'
  BY <1>0, <1>4, StepsMoved DEF TypeOK, StepInv, ConfigureFails, Fail, Goto
<1>5. ASSUME NEW t \in Threads, ReadLicense(t) PROVE StepsInv'
  BY <1>0, <1>5, StepsMoved DEF TypeOK, StepInv, ReadLicense, Goto
<1>6. ASSUME NEW t \in Threads, CreatePublishers(t) PROVE StepsInv'
  BY <1>6, StepsEnded DEF CreatePublishers, Succeed, Primary
<1>7. ASSUME NEW t \in Threads, CreatePublishersThrows(t) PROVE StepsInv'
  BY <1>0, <1>7, StepsMoved DEF TypeOK, StepInv, CreatePublishersThrows, Fail, Goto
<1>8. ASSUME NEW t \in Threads, BeginActivate(t) PROVE StepsInv'
  BY <1>0, <1>8, StepsMoved DEF TypeOK, StepInv, BeginActivate, Fail, Goto
<1>9. ASSUME NEW t \in Threads, EnableAcked(t) PROVE StepsInv'
  BY <1>0, <1>9, StepsMoved DEF TypeOK, StepInv, EnableAcked, Goto
<1>10. ASSUME NEW t \in Threads, EnableRefused(t) PROVE StepsInv'
  BY <1>0, <1>10, StepsMoved DEF TypeOK, StepInv, EnableRefused, Fail, Goto
<1>11. ASSUME NEW t \in Threads, CreateServices(t) PROVE StepsInv'
  BY <1>0, <1>11, StepsMoved DEF TypeOK, StepInv, CreateServices, Goto
<1>12. ASSUME NEW t \in Threads, ActivatePublishers(t) PROVE StepsInv'
  BY <1>0, <1>12, StepsMoved DEF TypeOK, StepInv, ActivatePublishers, Goto
<1>13. ASSUME NEW t \in Threads, StartTimers(t) PROVE StepsInv'
  BY <1>13, StepsEnded DEF StartTimers, Succeed, Primary
<1>14. ASSUME NEW t \in Threads, StartTimersThrows(t) PROVE StepsInv'
  BY <1>0, <1>14, StepsMoved DEF TypeOK, StepInv, StartTimersThrows, Fail, Goto
<1>15. ASSUME NEW t \in Threads, BeginDeactivate(t) PROVE StepsInv'
  BY <1>0, <1>15, StepsMoved DEF TypeOK, StepInv, BeginDeactivate, Goto
<1>16. ASSUME NEW t \in Threads, LeaveZeroG(t) PROVE StepsInv'
  BY <1>0, <1>16, StepsMoved DEF TypeOK, StepInv, LeaveZeroG, Goto
<1>17. ASSUME NEW t \in Threads, StopTimers(t) PROVE StepsInv'
  BY <1>0, <1>17, StepsMoved DEF TypeOK, StepInv, StopTimers, Goto
<1>18. ASSUME NEW t \in Threads, DestroyServices(t) PROVE StepsInv'
  BY <1>0, <1>18, StepsMoved DEF TypeOK, StepInv, DestroyServices, Goto
<1>19. ASSUME NEW t \in Threads, DeactivatePublishers(t) PROVE StepsInv'
  <2>1. CASE job[t] = "deactivate"
    BY <1>19, <2>1, StepsEnded DEF DeactivatePublishers, Succeed, Primary
  <2>2. CASE job[t] # "deactivate"
    BY <1>0, <1>19, <2>2, StepsMoved DEF TypeOK, StepInv, DeactivatePublishers, Goto
  <2> QED
    BY <2>1, <2>2
<1>20. ASSUME NEW t \in Threads, CloseArm(t) PROVE StepsInv'
  BY <1>0, <1>20, StepsMoved DEF TypeOK, StepInv, CloseArm, Goto
<1>21. ASSUME NEW t \in Threads, FinishCleanup(t) PROVE StepsInv'
  <2>1. state' \in Primary
    BY <1>21 DEF FinishCleanup, Succeed, Primary
  <2> QED
    BY <1>21, <2>1, StepsEnded DEF FinishCleanup, Succeed
<1>22. ASSUME NEW t \in Threads, OnError(t) PROVE StepsInv'
  BY <1>22, StepsEnded DEF OnError, Succeed, Primary
<1>23. ASSUME NEW t \in Threads, \/ \E s \in Services : TakeService(t, s)
                                \/ \E m \in Timers : TakeTimer(t, m)
      PROVE  StepsInv'
  BY <1>23, StepsKept DEF TypeOK, TakeService, TakeTimer, Take
<1>24. ASSUME NEW t \in Threads, NEW tr \in Transitions, TakeTransition(t, tr)
      PROVE  StepsInv'
  <2>1. \A u \in Threads : u # t => pc'[u] \notin LifecyclePcs
    BY <1>24, Grouping DEF TypeOK, ExclusionInv, TakeTransition, Take
  <2>2. pc'[t] = FirstStep(tr) /\ job'[t] = tr /\ state' = During(tr)
    BY <1>24 DEF TypeOK, TakeTransition, Take
  <2>3. StepInv(t)' /\ pc'[t] \in LifecyclePcs
    BY <2>2 DEF StepInv, FirstStep, During, Transitions
  <2> QED
    BY <2>1, <2>3 DEF StepsInv
<1>25. CASE Environment
  BY <1>25, StepsKept DEF Environment, ClientCalls, SetParam, LinkLost, FaultLatches, Interrupt
<1>26. CASE Exit
  <2>1. \A t \in Threads : pc'[t] \notin LifecyclePcs
    BY <1>26 DEF Exit
  <2>2. state' \notin Passing
    BY <1>26 DEF Exit, StepsInv
  <2> QED
    BY <2>1, <2>2 DEF StepsInv
<1>27. CASE UNCHANGED vars
  BY <1>27, StepsKept DEF vars
<1> QED
  BY <1>1, <1>2, <1>3, <1>4, <1>5, <1>6, <1>7, <1>8, <1>9, <1>10, <1>11, <1>12, <1>13, <1>14, <1>15, <1>16, <1>17, <1>18, <1>19, <1>20, <1>21, <1>22, <1>23, <1>24, <1>25, <1>26, <1>27
  DEF Next, Work, Accept, Ended

-----------------------------------------------------------------------------
(* What a teardown leaves.                                                   *)

\* Each step of a teardown finds what the steps before it took away still gone: nothing else
\* makes servers or timers, or activates publishers, while its thread has the default group.
TeardownInv ==
  \A t \in Threads :
    /\ pc[t] \in {"unserve", "deactivate_publishers", "closing", "destroy"} => timers = {}
    /\ pc[t] \in {"deactivate_publishers", "closing", "destroy"} => ~ serving
    /\ pc[t] \in {"closing", "destroy"} => Quiet

\* A step that goes past no step of a teardown.
LEMMA TeardownUnbegun ==
  ASSUME \A t \in Threads :
           pc'[t] \notin {"unserve", "deactivate_publishers", "closing", "destroy"}
  PROVE  TeardownInv'
  BY DEF TeardownInv

\* A step outside the transition callbacks.
LEMMA TeardownKept ==
  ASSUME TeardownInv, UNCHANGED <<serving, timers, pub>>,
         \A t \in Threads : pc'[t] \in LifecyclePcs => pc'[t] = pc[t]
  PROVE  TeardownInv'
  BY DEF TeardownInv, Quiet

\* The step of a transition callback: no other thread is in one.
LEMMA TeardownAlone ==
  ASSUME TypeOK, ExclusionInv, NEW t \in Threads, pc[t] \in LifecyclePcs,
         NEW next \in LifecyclePcs, Goto(t, next)
  PROVE  pc'[t] = next /\ \A u \in Threads : pc'[u] \in LifecyclePcs => u = t
  BY DEF TypeOK, ExclusionInv, CallbackExclusion, Goto

LEMMA TeardownStep == TypeOK /\ ExclusionInv /\ TeardownInv /\ [Next]_vars => TeardownInv'
<1> SUFFICES ASSUME TypeOK, ExclusionInv, TeardownInv, [Next]_vars PROVE TeardownInv'
  OBVIOUS
<1>1. ASSUME NEW t \in Threads, BeginCall(t) \/ RefuseCall(t) \/ ReturnCall(t)
      PROVE  TeardownInv'
  BY <1>1, TeardownKept DEF TypeOK, BeginCall, RefuseCall, ReturnCall, Goto, Release
\* These lead to no step of a teardown, or only to its first.
<1>2. ASSUME NEW t \in Threads, pc[t] \in LifecyclePcs, NEW next \in LifecyclePcs,
             next \notin {"unserve", "deactivate_publishers", "closing", "destroy"},
             Goto(t, next) \/ Release(t)
      PROVE  TeardownInv'
  BY <1>2, TeardownUnbegun DEF TypeOK, ExclusionInv, CallbackExclusion, Goto, Release
<1>3. ASSUME NEW t \in Threads,
             \/ CreateArm(t) \/ ConnectOk(t) \/ ConfigureFails(t) \/ ReadLicense(t)
             \/ CreatePublishers(t) \/ CreatePublishersThrows(t)
      PROVE  TeardownInv'
  BY <1>2, <1>3 DEF CreateArm, ConnectOk, ConfigureFails, ReadLicense, CreatePublishers,
  CreatePublishersThrows, Fail, Succeed
<1>4. ASSUME NEW t \in Threads,
             \/ BeginActivate(t) \/ EnableAcked(t) \/ EnableRefused(t) \/ CreateServices(t)
             \/ ActivatePublishers(t) \/ StartTimers(t) \/ StartTimersThrows(t)
      PROVE  TeardownInv'
  BY <1>2, <1>4 DEF BeginActivate, EnableAcked, EnableRefused, CreateServices,
  ActivatePublishers, StartTimers, StartTimersThrows, Fail, Succeed
<1>5. ASSUME NEW t \in Threads,
             BeginDeactivate(t) \/ LeaveZeroG(t) \/ FinishCleanup(t) \/ OnError(t)
      PROVE  TeardownInv'
  BY <1>2, <1>5 DEF BeginDeactivate, LeaveZeroG, FinishCleanup, OnError, Succeed
<1>6. ASSUME NEW t \in Threads, StopTimers(t) PROVE TeardownInv'
  BY <1>6, TeardownAlone DEF StopTimers, TeardownInv
<1>7. ASSUME NEW t \in Threads, DestroyServices(t) PROVE TeardownInv'
  BY <1>7, TeardownAlone DEF DestroyServices, TeardownInv
<1>8. ASSUME NEW t \in Threads, DeactivatePublishers(t) PROVE TeardownInv'
  <2>1. CASE job[t] = "deactivate"
    BY <1>2, <1>8, <2>1 DEF DeactivatePublishers, Succeed
  <2>2. CASE job[t] # "deactivate"
    <3>1. Quiet'
      BY <1>8, <2>2 DEF DeactivatePublishers, TeardownInv, Quiet
    <3> QED
      BY <3>1 DEF TeardownInv, Quiet
  <2> QED
    BY <2>1, <2>2
<1>9. ASSUME NEW t \in Threads, CloseArm(t) PROVE TeardownInv'
  BY <1>9, TeardownAlone DEF CloseArm, TeardownInv, Quiet
<1>10. ASSUME NEW t \in Threads, \/ \E s \in Services : TakeService(t, s)
                                \/ \E m \in Timers : TakeTimer(t, m)
       PROVE  TeardownInv'
  BY <1>10, TeardownKept DEF TypeOK, TakeService, TakeTimer, Take
<1>11. ASSUME NEW t \in Threads, NEW tr \in Transitions, TakeTransition(t, tr)
       PROVE  TeardownInv'
  <2>1. \A u \in Threads : u # t => pc'[u] \notin LifecyclePcs
    BY <1>11, Grouping DEF TypeOK, ExclusionInv, TakeTransition, Take
  <2>2. pc'[t] = FirstStep(tr)
    BY <1>11 DEF TypeOK, TakeTransition, Take
  <2>3. FirstStep(tr) \in {"create", "enable", "leave_zero_g", "stop_timers"}
    BY DEF FirstStep, Transitions
  <2> QED
    BY <2>1, <2>2, <2>3, TeardownUnbegun
<1>12. CASE Environment
  BY <1>12, TeardownKept DEF Environment, ClientCalls, SetParam, LinkLost, FaultLatches, Interrupt
<1>13. CASE Exit
  BY <1>13, TeardownUnbegun DEF Exit
<1>14. CASE UNCHANGED vars
  BY <1>14, TeardownKept DEF vars
<1> QED
  BY <1>1, <1>3, <1>4, <1>5, <1>6, <1>7, <1>8, <1>9, <1>10, <1>11, <1>12, <1>13, <1>14
  DEF Next, Work, Accept, Ended

\* A teardown callback ends in on_deactivate's or on_cleanup's last step.
LEMMA TeardownEnds ==
  ASSUME TypeOK, ExclusionInv, StepsInv, TeardownInv, [Next]_vars, state' \in Primary,
         state \in {"deactivating", "cleaning_up", "shutting_down"}
  PROVE  Quiet'
<1>1. state' # state
  BY DEF Primary
<1>2. \A t \in Threads : pc[t] \in LifecyclePcs => StepInv(t)
  BY DEF StepsInv
<1>3. ASSUME NEW t \in Threads, BeginCall(t) \/ RefuseCall(t) \/ ReturnCall(t) PROVE FALSE
  BY <1>1, <1>3 DEF BeginCall, RefuseCall, ReturnCall
<1>4. ASSUME NEW t \in Threads,
             \/ CreateArm(t) \/ ConnectOk(t) \/ ConfigureFails(t) \/ ReadLicense(t)
             \/ CreatePublishers(t) \/ CreatePublishersThrows(t)
      PROVE  FALSE
  <2>1. pc[t] \in Configuring
    BY <1>4 DEF CreateArm, ConnectOk, ConfigureFails, ReadLicense, CreatePublishers,
    CreatePublishersThrows, Configuring
  <2> QED
    BY <1>2, <2>1 DEF StepInv, Configuring
<1>5. ASSUME NEW t \in Threads,
             \/ BeginActivate(t) \/ EnableAcked(t) \/ EnableRefused(t) \/ CreateServices(t)
             \/ ActivatePublishers(t) \/ StartTimers(t) \/ StartTimersThrows(t)
      PROVE  FALSE
  <2>1. pc[t] \in Activating
    BY <1>5 DEF BeginActivate, EnableAcked, EnableRefused, CreateServices, ActivatePublishers,
    StartTimers, StartTimersThrows, Activating
  <2> QED
    BY <1>2, <2>1 DEF StepInv, Activating
<1>6. ASSUME NEW t \in Threads,
             \/ BeginDeactivate(t) \/ LeaveZeroG(t) \/ StopTimers(t) \/ DestroyServices(t)
             \/ CloseArm(t)
      PROVE  FALSE
  BY <1>1, <1>6 DEF BeginDeactivate, LeaveZeroG, StopTimers, DestroyServices, CloseArm
<1>7. ASSUME NEW t \in Threads, OnError(t) PROVE FALSE
  BY <1>2, <1>7 DEF OnError, StepInv
<1>8. ASSUME NEW t \in Threads, DeactivatePublishers(t) PROVE Quiet'
  BY <1>8 DEF DeactivatePublishers, TeardownInv, Quiet
<1>9. ASSUME NEW t \in Threads, FinishCleanup(t) PROVE Quiet'
  BY <1>9 DEF FinishCleanup, TeardownInv, Quiet
<1>10. ASSUME NEW t \in Threads, Accept(t) PROVE FALSE
  BY <1>1, <1>10 DEF Accept, TakeService, TakeTimer, TakeTransition, Offered, Transitions
<1>11. CASE Environment \/ Exit \/ UNCHANGED vars
  BY <1>1, <1>11 DEF Environment, ClientCalls, SetParam, LinkLost, FaultLatches, Interrupt, Exit, vars
<1> QED
  BY <1>3, <1>4, <1>5, <1>6, <1>7, <1>8, <1>9, <1>10, <1>11 DEF Next, Work, Ended

\* For any parameters, rates that no timer can have included: what an activation that threw has
\* left behind, the next deactivate, cleanup or shutdown takes away (on_deactivate, on_cleanup,
\* litearm_driver_node.cpp 195-250).
THEOREM TeardownIsComplete == Spec => TeardownSilences
<1>1. Init => TeardownInv
  BY DEF Init, TeardownInv
<1>2. TypeOK /\ ExclusionInv /\ StepsInv /\ TeardownInv /\ [Next]_vars =>
        [state' \in Primary /\ state \in {"deactivating", "cleaning_up", "shutting_down"}
         => Quiet']_vars
  BY TeardownEnds
<1> QED
  BY <1>1, <1>2, TeardownStep, StepsInit, StepsStep, TypeCorrect, ExclusionInvariant, PTL
  DEF Spec, TeardownSilences

-----------------------------------------------------------------------------
(* The simulation.                                                           *)

\* What the managed node does not see.
LEMMA Unseen ==
  ASSUME UNCHANGED <<proc, state, arm, session, serving>>
  PROVE  UNCHANGED Node!vars
  BY DEF Node!vars, Port

LEMMA InterruptUnseen == ASSUME Interrupt PROVE UNCHANGED Node!vars
<1>1. UNCHANGED Port
  BY DEF Interrupt, Port
<1>2. UNCHANGED (proc # "exited")
  BY DEF Interrupt
<1> QED
  BY <1>1, <1>2 DEF Interrupt, Node!vars

\* The link of the Arm that arm_ owns, or of one it does not, comes up or goes down.
LEMMA Relinked ==
  ASSUME TypeOK, NEW s, NEW up \in {"open", "down"}, session' = [session EXCEPT ![s] = up],
         UNCHANGED <<proc, state, arm, serving>>
  PROVE  Node!Relink \/ UNCHANGED Node!vars
<1>1. CASE arm = NoSession
  <2>1. UNCHANGED Port
    BY <1>1 DEF Port
  <2> QED
    BY <2>1 DEF Node!vars
<1>2. CASE arm # NoSession
  BY <1>2 DEF Node!Relink, Port
<1> QED
  BY <1>1, <1>2

LEMMA SameGraph ==
  ASSUME NEW tr \in Transitions
  PROVE  tr \in Node!Transitions /\ Node!Offered(tr) = Offered(tr) /\ Node!During(tr) = During(tr)
  BY DEF Transitions, Offered, During, Node!Transitions, Node!Offered, Node!During

LEMMA NoArmNoPort == (arm = NoSession) <=> Port = "none"
  BY DEF Port

LEMMA Destroyed == ASSUME DestroyArm PROVE Port' = "none"
  BY DEF DestroyArm, Port

LEMMA InitRefines == Init => Node!Init
  BY DEF Init, Node!Init, Port

LEMMA StepRefines ==
  TypeOK /\ PhaseInv /\ StepsInv /\ [Next]_vars => [Node!Next]_Node!vars
<1> SUFFICES ASSUME TypeOK, PhaseInv, StepsInv, [Next]_vars
             PROVE  [Node!Next]_Node!vars
  OBVIOUS
<1> USE DEF Configuring, Activating, LeavingZeroG, TearingDown
<1>0. ASSUME NEW t \in Threads, pc[t] \in LifecyclePcs
      PROVE  StepInv(t) /\ proc # "exited"
  BY <1>0 DEF StepsInv, PhaseInv
<1>1. ASSUME NEW t \in Threads,
             \/ BeginCall(t) \/ RefuseCall(t) \/ ReadLicense(t) \/ EnableAcked(t)
             \/ ActivatePublishers(t) \/ BeginDeactivate(t) \/ LeaveZeroG(t) \/ StopTimers(t)
             \/ \E s \in Services : TakeService(t, s)
             \/ \E m \in Timers : TakeTimer(t, m)
      PROVE  UNCHANGED Node!vars
  BY <1>1, Unseen DEF BeginCall, RefuseCall, ReadLicense, EnableAcked, ActivatePublishers,
  BeginDeactivate, LeaveZeroG, StopTimers, TakeService, TakeTimer, Take
<1>2. ASSUME NEW t \in Threads, ReturnCall(t)
      PROVE  Node!Relink \/ UNCHANGED Node!vars
  <2>1. CASE UNCHANGED session
    BY <1>2, <2>1, Unseen DEF ReturnCall
  <2>2. CASE \E up \in {"open", "down"} : session' = [session EXCEPT ![held[t]] = up]
    BY <1>2, <2>2, Relinked DEF ReturnCall
  <2> QED
    BY <1>2, <2>1, <2>2 DEF ReturnCall, Effect
<1>3. ASSUME NEW t \in Threads, CreateArm(t) PROVE Node!MakeArm
  <2>1. PICK s \in Sessions : arm' = s /\ session'[s] = "new"
    BY <1>3 DEF CreateArm
  <2>2. Port' = "closed"
    BY <2>1, SessionAssumption DEF Port
  <2> QED
    BY <1>0, <1>3, <2>2 DEF CreateArm, StepInv, Node!MakeArm
<1>4. ASSUME NEW t \in Threads, ConnectOk(t) \/ CloseArm(t)
      PROVE  Node!Relink \/ UNCHANGED Node!vars
  BY <1>4, Relinked DEF ConnectOk, CloseArm
<1>5. ASSUME NEW t \in Threads, ConfigureFails(t) PROVE Node!ConfigureFailed
  BY <1>0, <1>5, Destroyed DEF ConfigureFails, Fail, StepInv, Node!ConfigureFailed
<1>6. ASSUME NEW t \in Threads, CreatePublishers(t) PROVE Node!Configured
  BY <1>0, <1>6, NoArmNoPort
  DEF CreatePublishers, Succeed, StepInv, Node!Configured, Port
<1>7. ASSUME NEW t \in Threads, CreatePublishersThrows(t) PROVE Node!ConfigureFailed
  BY <1>0, <1>7 DEF CreatePublishersThrows, Fail, StepInv, Node!ConfigureFailed, Port
<1>8. ASSUME NEW t \in Threads, BeginActivate(t)
      PROVE  Node!ActivateFailed \/ UNCHANGED Node!vars
  <2>1. CASE arm = NoSession
    BY <1>0, <1>8, <2>1 DEF BeginActivate, Fail, StepInv, Node!ActivateFailed, Port
  <2>2. CASE arm # NoSession
    BY <1>8, <2>2, Unseen DEF BeginActivate
  <2> QED
    BY <2>1, <2>2
<1>9. ASSUME NEW t \in Threads, EnableRefused(t) \/ StartTimersThrows(t)
      PROVE  Node!ActivateFailed
  BY <1>0, <1>9
  DEF EnableRefused, StartTimersThrows, Fail, StepInv, Node!ActivateFailed, Port
<1>10. ASSUME NEW t \in Threads, CreateServices(t) PROVE Node!Serve
  BY <1>0, <1>10, NoArmNoPort DEF CreateServices, StepInv, Node!Serve, Port
<1>11. ASSUME NEW t \in Threads, StartTimers(t) PROVE Node!Activated
  BY <1>0, <1>11, NoArmNoPort DEF StartTimers, Succeed, StepInv, Node!Activated, Port
<1>12. ASSUME NEW t \in Threads, DestroyServices(t) PROVE Node!StopServing
  BY <1>0, <1>12 DEF DestroyServices, StepInv, Node!StopServing, Port
<1>13. ASSUME NEW t \in Threads, DeactivatePublishers(t)
       PROVE  Node!Deactivated \/ UNCHANGED Node!vars
  <2>1. CASE job[t] = "deactivate"
    BY <1>0, <1>13, <2>1
    DEF DeactivatePublishers, Succeed, StepInv, Node!Deactivated, Port
  <2>2. CASE job[t] # "deactivate"
    BY <1>13, <2>2, Unseen DEF DeactivatePublishers
  <2> QED
    BY <2>1, <2>2
<1>14. ASSUME NEW t \in Threads, FinishCleanup(t) PROVE Node!CleanedUp
  BY <1>0, <1>14, Destroyed DEF FinishCleanup, Succeed, StepInv, Node!CleanedUp
<1>15. ASSUME NEW t \in Threads, OnError(t) PROVE Node!Recovered
  BY <1>0, <1>15 DEF OnError, Succeed, StepInv, Node!Recovered, Port
<1>16. ASSUME NEW t \in Threads, NEW tr \in Transitions, TakeTransition(t, tr)
       PROVE  Node!Begin(tr)
  <2>1. UNCHANGED Port
    BY <1>16 DEF TakeTransition, Take, Port
  <2> QED
    BY <1>16, <2>1, SameGraph DEF TakeTransition, Take, Node!Begin
<1>17. CASE Environment
  <2>1. CASE LinkLost
    BY <2>1, Relinked DEF LinkLost, Node!Next
  <2>2. CASE (\E s \in Services : ClientCalls(s)) \/ SetParam \/ FaultLatches
    BY <2>2, Unseen DEF ClientCalls, SetParam, FaultLatches
  <2> QED
    BY <1>17, <2>1, <2>2, InterruptUnseen DEF Environment
<1>18. CASE Exit
  <2>1. state \in Primary
    BY <1>18 DEF Exit, StepsInv, TypeOK
  <2>2. Node!Exit
    BY <1>18, <2>1, Destroyed DEF Exit, Node!Exit, Node!Primary, Primary
  <2> QED
    BY <2>2 DEF Node!Next
<1>19. CASE UNCHANGED vars
  BY <1>19, Unseen DEF vars
<1>20. ASSUME NEW t \in Threads, Work(t) PROVE Node!Next \/ UNCHANGED Node!vars
  BY <1>1, <1>2, <1>3, <1>4, <1>5, <1>6, <1>7, <1>8, <1>9, <1>10, <1>11, <1>12, <1>13, <1>14,
     <1>15, <1>20
  DEF Work, Node!Next, Node!Succeed, Node!Fail
<1>21. ASSUME NEW t \in Threads, Accept(t) PROVE Node!Next \/ UNCHANGED Node!vars
  BY <1>1, <1>16, <1>21, SameGraph DEF Accept, Node!Next
<1> QED
  BY <1>17, <1>18, <1>19, <1>20, <1>21 DEF Next, Ended

\* For any threads, Arms, services and parameters: the process is a managed node, with the Arm,
\* the port and the servers where its operator expects them (litearm_driver_node.cpp 85-265).
THEOREM DriverImplements == Spec => NodeRefined
<1>1. TypeOK /\ PhaseInv /\ StepsInv /\ [Next]_vars => [Node!Next]_Node!vars
  BY StepRefines
<1> QED
  BY InitRefines, <1>1, StepsInit, StepsStep, TypeCorrect, ExclusionInvariant, PhaseInvariant,
     PTL DEF Spec, NodeRefined, Node!Spec

-----------------------------------------------------------------------------
(* What ManagedNode's theorem says of the driver.                            *)

Managed == INSTANCE ManagedNodeProofs WITH alive <- proc # "exited", port <- Port

\* What ManagedNode and its theorem are instantiated with is one and the same.
LEMMA SameNode ==
  /\ Node!Init = Managed!Init
  /\ [Node!Next]_(Node!vars) = [Managed!Next]_(Managed!vars)
  /\ Node!Promise = Managed!Promise
  BY DEF Node!Init, Node!Next, Node!vars, Node!Promise, Node!Transitions, Node!Begin,
  Node!Offered, Node!During, Node!MakeArm, Node!Relink, Node!Serve, Node!StopServing,
  Node!Succeed, Node!Configured, Node!Activated, Node!Deactivated, Node!CleanedUp, Node!Fail,
  Node!ConfigureFailed, Node!ActivateFailed, Node!Recovered, Node!Exit, Node!Primary,
  Managed!Init, Managed!Next, Managed!vars, Managed!Promise, Managed!Transitions, Managed!Begin,
  Managed!Offered, Managed!During, Managed!MakeArm, Managed!Relink, Managed!Serve,
  Managed!StopServing, Managed!Succeed, Managed!Configured, Managed!Activated,
  Managed!Deactivated, Managed!CleanedUp, Managed!Fail, Managed!ConfigureFailed,
  Managed!ActivateFailed, Managed!Recovered, Managed!Exit, Managed!Primary

\* For any threads, Arms and parameters: an inactive or active driver has its Arm, an active one
\* serves, a finalized or exited one has freed the port (on_configure to on_shutdown, main).
THEOREM DriverKeepsPromise == Spec => []Node!Promise
<1>1. Managed!Init /\ [][Managed!Next]_(Managed!vars) => []Managed!PromiseInv
  BY Managed!PromiseInit, Managed!PromiseStep, PTL
<1>2. [Node!Next]_(Node!vars) => [Managed!Next]_(Managed!vars)
  BY SameNode
<1>3. Node!Init => Managed!Init
  BY SameNode
<1>4. Managed!PromiseInv => Node!Promise
  BY SameNode, Managed!PromiseInvKeeps
<1> QED
  BY <1>1, <1>2, <1>3, <1>4, DriverImplements, PTL DEF NodeRefined, Node!Spec

-----------------------------------------------------------------------------
(* What serialised callbacks would give.                                     *)

\* No handler or timer runs while a transition does: the transitions are in sdk_group_ too,
\* or the executor has a single thread.
Serialised == \A t, u \in Threads : ~ (pc[t] \in SdkPcs /\ pc[u] \in LifecyclePcs)
OneThread  == \A t, u \in Threads : t = u

LEMMA OneThreadSerialises == OneThread => Serialised
  BY DEF OneThread, Serialised

\* A call in progress is inside the Arm that arm_ owns.
InsideArm == \A t \in Threads : pc[t] = "call" => held[t] = arm

LEMMA InsideArmInit == Init => InsideArm
  BY DEF Init, InsideArm

LEMMA InsideArmStep == TypeOK /\ Serialised /\ InsideArm /\ [Next]_vars => InsideArm'
<1> SUFFICES ASSUME TypeOK, Serialised, InsideArm, [Next]_vars PROVE InsideArm'
  OBVIOUS
\* The threads inside an Arm stay there, or the step leaves none there.
<1>0. ASSUME UNCHANGED <<arm, held>>, \A t \in Threads : pc'[t] = "call" => pc[t] = "call"
      PROVE  InsideArm'
  BY <1>0 DEF InsideArm
<1>1. ASSUME NEW t \in Threads, BeginCall(t) PROVE InsideArm'
  BY <1>1 DEF TypeOK, BeginCall, Goto, InsideArm
<1>2. ASSUME NEW t \in Threads, ReturnCall(t) PROVE InsideArm'
  BY <1>2 DEF TypeOK, ReturnCall, Release, InsideArm
<1>3. ASSUME NEW t \in Threads, CreateArm(t) \/ ConfigureFails(t) \/ FinishCleanup(t)
      PROVE  InsideArm'
  <2>1. \A u \in Threads : pc[u] # "call"
    BY <1>3 DEF Serialised, CreateArm, ConfigureFails, FinishCleanup
  <2>2. \A u \in Threads : pc'[u] # "call"
    BY <1>3, <2>1 DEF TypeOK, CreateArm, ConfigureFails, FinishCleanup, Goto, Fail, Succeed, Release
  <2> QED
    BY <2>2 DEF InsideArm
<1>4. ASSUME NEW t \in Threads,
             \/ RefuseCall(t) \/ ConnectOk(t) \/ ReadLicense(t) \/ CreatePublishers(t)
             \/ CreatePublishersThrows(t) \/ BeginActivate(t) \/ EnableAcked(t)
             \/ EnableRefused(t) \/ CreateServices(t) \/ ActivatePublishers(t)
      PROVE  InsideArm'
  BY <1>0, <1>4 DEF TypeOK, RefuseCall, ConnectOk, ReadLicense, CreatePublishers,
  CreatePublishersThrows, BeginActivate, EnableAcked, EnableRefused, CreateServices,
  ActivatePublishers, Goto, Fail, Succeed, Release
<1>5. ASSUME NEW t \in Threads,
             \/ StartTimers(t) \/ StartTimersThrows(t) \/ BeginDeactivate(t) \/ LeaveZeroG(t)
             \/ StopTimers(t) \/ DestroyServices(t) \/ DeactivatePublishers(t) \/ CloseArm(t)
             \/ OnError(t)
      PROVE  InsideArm'
  BY <1>0, <1>5 DEF TypeOK, StartTimers, StartTimersThrows, BeginDeactivate, LeaveZeroG,
  StopTimers, DestroyServices, DeactivatePublishers, CloseArm, OnError, Goto, Fail, Succeed,
  Release
<1>6. ASSUME NEW t \in Threads, \/ \E s \in Services : TakeService(t, s)
                               \/ \E m \in Timers : TakeTimer(t, m)
      PROVE  InsideArm'
  BY <1>0, <1>6 DEF TypeOK, TakeService, TakeTimer, Take
<1>7. ASSUME NEW t \in Threads, NEW tr \in Transitions, TakeTransition(t, tr)
      PROVE  InsideArm'
  <2>1. FirstStep(tr) # "call"
    BY DEF FirstStep, Transitions
  <2> QED
    BY <1>0, <1>7, <2>1 DEF TypeOK, TakeTransition, Take
<1>8. CASE Environment
  BY <1>0, <1>8 DEF Environment, ClientCalls, SetParam, LinkLost, FaultLatches, Interrupt
<1>9. CASE Exit
  BY <1>9 DEF Exit, InsideArm
<1>10. CASE UNCHANGED vars
  BY <1>0, <1>10 DEF vars
<1> QED
  BY <1>1, <1>2, <1>3, <1>4, <1>5, <1>6, <1>7, <1>8, <1>9, <1>10 DEF Next, Work, Accept, Ended

\* Were every SDK call serialised with the transitions, no handler would ever be inside an Arm
\* that a transition has destroyed, for any threads, services and parameters (create_service,
\* litearm_driver_node.cpp 271-310, and the lifecycle services that rclcpp makes).
THEOREM SerialisedCallsAreSafe == Spec /\ []Serialised => []NoCallOnDestroyedArm
<1>1. TypeOK /\ OwnershipInv /\ InsideArm => NoCallOnDestroyedArm
  BY DEF TypeOK, OwnershipInv, ArmOwned, Live, InsideArm, NoCallOnDestroyedArm, Undefined
<1> QED
  BY <1>1, InsideArmInit, InsideArmStep, TypeCorrect, OwnershipInvariant, PTL DEF Spec

\* The keep-alive thread of zero gravity lives in the active state, where a handler starts it,
\* and until deactivation stops it or shutdown destroys its Arm.
ZeroGInv ==
  /\ \A t \in Threads : pc[t] \in SdkPcs => state = "active"
  /\ zeroG => arm # NoSession
  /\ zeroG => \/ state \in {"active", "shutting_down"}
              \/ \E t \in Threads : pc[t] \in LeavingZeroG

LEMMA ZeroGInit == Init => ZeroGInv
  BY DEF Init, ZeroGInv

\* A step that ends zero gravity, or follows its end, and starts no handler.
LEMMA ZeroGOff ==
  ASSUME ~ zeroG', \A t \in Threads : pc'[t] \notin SdkPcs
  PROVE  ZeroGInv'
  BY DEF ZeroGInv

\* A step that leaves the state alone and starts no handler.
LEMMA ZeroGKept ==
  ASSUME ZeroGInv, UNCHANGED <<state, arm>>, zeroG' => zeroG,
         \A t \in Threads : /\ pc'[t] \in SdkPcs => pc[t] \in SdkPcs
                            /\ pc[t] \in LeavingZeroG => pc'[t] \in LeavingZeroG
  PROVE  ZeroGInv'
  BY DEF ZeroGInv

\* The step of a transition callback, which runs alone: no zero gravity outside deactivation
\* and shutdown.
LEMMA ZeroGAlone ==
  ASSUME TypeOK, ExclusionInv, Serialised, ZeroGInv, NEW t \in Threads, pc[t] \in LifecyclePcs
  PROVE  /\ \A u \in Threads : u # t => pc[u] = "idle"
         /\ zeroG => state \in {"active", "shutting_down"} \/ pc[t] \in LeavingZeroG
<1>1. ASSUME NEW u \in Threads, u # t PROVE pc[u] = "idle"
  BY <1>1 DEF TypeOK, ExclusionInv, CallbackExclusion, Serialised
<1>2. "idle" \notin LeavingZeroG
  BY DEF LeavingZeroG
<1> QED
  BY <1>1, <1>2 DEF ZeroGInv

\* Something to serve is there only between activation and deactivation.
LEMMA ServedWhenActive ==
  ASSUME SilentInv, StepsInv, PendingServed, TypeOK,
         \A t \in Threads : pc[t] \notin LifecyclePcs,
         pending # {} \/ timers # {}
  PROVE  state = "active"
<1>1. serving \/ timers # {}
  BY DEF PendingServed
<1>2. state \in Primary
  BY DEF TypeOK, StepsInv
<1> QED
  BY <1>1, <1>2 DEF SilentInv, Quiet, Primary

LEMMA ZeroGStep ==
  /\ TypeOK /\ ExclusionInv /\ StepsInv /\ SilentInv /\ PendingServed /\ InsideArm
  /\ Serialised /\ Serialised' /\ ZeroGInv /\ [Next]_vars
  => ZeroGInv'
<1> SUFFICES ASSUME TypeOK, ExclusionInv, StepsInv, SilentInv, PendingServed, InsideArm,
                    Serialised, Serialised', ZeroGInv, [Next]_vars
             PROVE  ZeroGInv'
  OBVIOUS
<1>0. ASSUME NEW t \in Threads, pc[t] \in LifecyclePcs PROVE StepInv(t)
  BY <1>0 DEF StepsInv
<1>1. ASSUME NEW t \in Threads, BeginCall(t) PROVE ZeroGInv'
  BY <1>1 DEF TypeOK, BeginCall, Goto, ZeroGInv, LeavingZeroG
<1>2. ASSUME NEW t \in Threads, RefuseCall(t) PROVE ZeroGInv'
  BY <1>2 DEF TypeOK, RefuseCall, Release, ZeroGInv, LeavingZeroG
\* What a handler leaves behind, it leaves in the active state.
<1>3. ASSUME NEW t \in Threads, ReturnCall(t) PROVE ZeroGInv'
  <2>1. state = "active" /\ state' = "active" /\ arm' = arm
    BY <1>3 DEF ReturnCall, ZeroGInv
  <2>2. arm # NoSession
    BY <1>3, SessionAssumption DEF TypeOK, ReturnCall, InsideArm
  <2> QED
    BY <1>3, <2>1, <2>2 DEF TypeOK, ReturnCall, Release, ZeroGInv
<1>4. ASSUME NEW t \in Threads, CreateArm(t) \/ ConfigureFails(t) \/ FinishCleanup(t)
      PROVE  ZeroGInv'
  <2>1. pc[t] \in LifecyclePcs /\ ~ zeroG'
    BY <1>4 DEF CreateArm, ConfigureFails, FinishCleanup, DestroyArm
  <2>2. \A u \in Threads : pc'[u] \notin SdkPcs
    BY <1>4, <2>1, ZeroGAlone
    DEF TypeOK, CreateArm, ConfigureFails, FinishCleanup, Goto, Fail, Succeed, Release
  <2> QED
    BY <2>1, <2>2, ZeroGOff
<1>5. ASSUME NEW t \in Threads,
             \/ ConnectOk(t) \/ ReadLicense(t) \/ CreatePublishers(t)
             \/ CreatePublishersThrows(t) \/ BeginActivate(t) \/ EnableAcked(t)
             \/ EnableRefused(t) \/ CreateServices(t) \/ ActivatePublishers(t)
             \/ StartTimers(t) \/ StartTimersThrows(t) \/ OnError(t)
      PROVE  ZeroGInv'
  <2>1. pc[t] \in Configuring \cup Activating \cup {"on_error"}
    BY <1>5 DEF ConnectOk, ReadLicense, CreatePublishers, CreatePublishersThrows, BeginActivate,
    EnableAcked, EnableRefused, CreateServices, ActivatePublishers, StartTimers,
    StartTimersThrows, OnError, Configuring, Activating
  <2>2. pc[t] \in LifecyclePcs /\ state \in {"configuring", "activating", "error_processing"}
    BY <1>0, <2>1 DEF StepInv, Configuring, Activating
  <2>3. ~ zeroG
    BY <2>1, <2>2, ZeroGAlone DEF Configuring, Activating, LeavingZeroG
  <2>4. UNCHANGED zeroG
    BY <1>5 DEF ConnectOk, ReadLicense, CreatePublishers, CreatePublishersThrows, BeginActivate,
    EnableAcked, EnableRefused, CreateServices, ActivatePublishers, StartTimers,
    StartTimersThrows, OnError
  <2>5. \A u \in Threads : pc'[u] \notin SdkPcs
    BY <1>5, <2>2, ZeroGAlone
    DEF TypeOK, ConnectOk, ReadLicense, CreatePublishers, CreatePublishersThrows, BeginActivate,
    EnableAcked, EnableRefused, CreateServices, ActivatePublishers, StartTimers,
    StartTimersThrows, OnError, Goto, Fail, Succeed, Release
  <2> QED
    BY <2>3, <2>4, <2>5, ZeroGOff
\* on_deactivate goes past its zero-gravity check only with the mode off.
<1>6. ASSUME NEW t \in Threads, BeginDeactivate(t) PROVE ZeroGInv'
  <2>1. CASE zeroG
    <3>1. pc' = [pc EXCEPT ![t] = "leaving_zero_g"]
      BY <1>6, <2>1 DEF BeginDeactivate, Goto, ZeroGInv
    <3> QED
      BY <1>6, <3>1, ZeroGKept DEF TypeOK, BeginDeactivate, LeavingZeroG
  <2>2. CASE ~ zeroG
    <3>1. \A u \in Threads : pc'[u] \notin SdkPcs
      BY <1>6, ZeroGAlone DEF TypeOK, BeginDeactivate, Goto
    <3> QED
      BY <1>6, <2>2, <3>1, ZeroGOff DEF BeginDeactivate
  <2> QED
    BY <2>1, <2>2
<1>7. ASSUME NEW t \in Threads, LeaveZeroG(t) \/ CloseArm(t) PROVE ZeroGInv'
  <2>1. \A u \in Threads : pc'[u] \notin SdkPcs
    BY <1>7, ZeroGAlone DEF TypeOK, LeaveZeroG, CloseArm, Goto
  <2> QED
    BY <1>7, <2>1, ZeroGOff DEF LeaveZeroG, CloseArm
\* Past that check, a teardown with zero gravity on is a shutdown.
<1>8. ASSUME NEW t \in Threads, StopTimers(t) \/ DestroyServices(t) \/ DeactivatePublishers(t)
      PROVE  ZeroGInv'
  <2>1. pc[t] \in TearingDown /\ pc[t] \in LifecyclePcs /\ pc[t] \notin LeavingZeroG
    BY <1>8 DEF StopTimers, DestroyServices, DeactivatePublishers, TearingDown, LeavingZeroG
  <2>2. zeroG => state = "shutting_down" /\ job[t] = "shutdown"
    BY <1>0, <2>1, ZeroGAlone DEF StepInv
  <2>3. \A u \in Threads : pc'[u] \notin SdkPcs
    BY <1>8, <2>1, ZeroGAlone
    DEF TypeOK, StopTimers, DestroyServices, DeactivatePublishers, Goto, Succeed, Release
  <2>4. zeroG => state' = state
    BY <1>8, <2>2 DEF StopTimers, DestroyServices, DeactivatePublishers
  <2>5. UNCHANGED <<zeroG, arm>>
    BY <1>8 DEF StopTimers, DestroyServices, DeactivatePublishers
  <2> QED
    BY <2>2, <2>3, <2>4, <2>5 DEF ZeroGInv
\* A handler is taken only when it is offered, so in the active state.
<1>9. ASSUME NEW t \in Threads, \/ \E s \in Services : TakeService(t, s)
                               \/ \E m \in Timers : TakeTimer(t, m)
      PROVE  ZeroGInv'
  <2>1. pc[t] = "idle" /\ pc' = [pc EXCEPT ![t] = "begin"] /\ UNCHANGED <<state, arm, zeroG>>
    BY <1>9 DEF TakeService, TakeTimer, Take
  <2>2. \A u \in Threads : pc[u] \notin LifecyclePcs
    BY <2>1 DEF TypeOK, Serialised
  <2>3. state = "active"
    BY <1>9, <2>2, ServedWhenActive DEF TakeService, TakeTimer
  <2> QED
    BY <2>1, <2>3 DEF ZeroGInv
<1>10. ASSUME NEW t \in Threads, NEW tr \in Transitions, TakeTransition(t, tr)
       PROVE  ZeroGInv'
  <2>1. /\ pc[t] = "idle" /\ pc' = [pc EXCEPT ![t] = FirstStep(tr)]
        /\ state \in Offered(tr) /\ state' = During(tr)
        /\ UNCHANGED <<arm, zeroG>>
    BY <1>10 DEF TakeTransition, Take
  <2>2. FirstStep(tr) \in LifecyclePcs /\ pc'[t] = FirstStep(tr)
    BY <2>1 DEF TypeOK, FirstStep, Transitions
  <2>3. \A u \in Threads : pc'[u] \notin SdkPcs
    BY <2>2 DEF Serialised
  <2>4. zeroG => state = "active"
    <3>1. \A u \in Threads : pc[u] \notin LifecyclePcs
      BY <1>10, Grouping DEF ExclusionInv, TakeTransition, Take
    <3>2. state # "shutting_down"
      BY <2>1 DEF Offered, Transitions
    <3> QED
      BY <3>1, <3>2 DEF ZeroGInv, LeavingZeroG
  <2>5. state = "active" => \/ tr = "shutdown" /\ state' = "shutting_down"
                            \/ tr = "deactivate" /\ pc'[t] \in LeavingZeroG
    BY <2>1, <2>2 DEF Offered, During, FirstStep, Transitions, LeavingZeroG
  <2> QED
    BY <2>1, <2>3, <2>4, <2>5 DEF ZeroGInv
<1>11. CASE Environment
  BY <1>11, ZeroGKept DEF Environment, ClientCalls, SetParam, LinkLost, FaultLatches, Interrupt
<1>12. CASE Exit
  BY <1>12, ZeroGOff DEF Exit, DestroyArm
<1>13. CASE UNCHANGED vars
  BY <1>13, ZeroGKept DEF vars
<1> QED
  BY <1>1, <1>2, <1>3, <1>4, <1>5, <1>6, <1>7, <1>8, <1>9, <1>10, <1>11, <1>12, <1>13
  DEF Next, Work, Accept, Ended

\* Were every SDK call serialised with the transitions, and every rate one that a timer can
\* have, deactivation would end zero gravity and nothing could bring it back while the node is
\* inactive (on_deactivate, litearm_driver_node.cpp 195-219).
THEOREM SerialisedDeactivationEndsZeroG ==
  PeriodsFit => (Spec /\ []Serialised => []ZeroGravityEndsAtDeactivate)
<1> SUFFICES ASSUME PeriodsFit PROVE Spec /\ []Serialised => []ZeroGravityEndsAtDeactivate
  OBVIOUS
<1>1. Spec => []SilentInv
  BY SilentInvariant
<1>2. StepsInv /\ ZeroGInv => ZeroGravityEndsAtDeactivate
  BY DEF StepsInv, StepInv, ZeroGInv, ZeroGravityEndsAtDeactivate, LeavingZeroG
<1> QED
  BY <1>1, <1>2, ZeroGInit, ZeroGStep, InsideArmInit, InsideArmStep, StepsInit, StepsStep,
     TypeCorrect, ExclusionInvariant, PendingInvariant, PTL DEF Spec

\* An executor with a single thread serialises: with one, both hold.
COROLLARY OneThreadSuffices ==
  OneThread /\ PeriodsFit => (Spec => [](NoCallOnDestroyedArm /\ ZeroGravityEndsAtDeactivate))
<1> SUFFICES ASSUME OneThread, PeriodsFit
             PROVE  Spec => [](NoCallOnDestroyedArm /\ ZeroGravityEndsAtDeactivate)
  OBVIOUS
<1>1. Serialised
  BY OneThreadSerialises
<1>2. Spec /\ []Serialised => []ZeroGravityEndsAtDeactivate
  BY SerialisedDeactivationEndsZeroG
<1> QED
  BY <1>1, <1>2, SerialisedCallsAreSafe, PTL

-----------------------------------------------------------------------------
(* After a refused ENABLE.                                                   *)

\* A refused ENABLE leads to on_error, and from there to unconfigured, until the next transition.
RefusedInv == enableReply = "refused" => state \in {"error_processing", "unconfigured"}

\* Where the documents send the operator to /litearm/reset there is no such service.
NoResetAfterRefusal ==
  enableReply = "refused" /\ state \in Primary => state = "unconfigured" /\ ~ serving

LEMMA RefusedStep == TypeOK /\ StepsInv /\ RefusedInv /\ [Next]_vars => RefusedInv'
<1> SUFFICES ASSUME TypeOK, StepsInv, RefusedInv, [Next]_vars PROVE RefusedInv'
  OBVIOUS
<1> USE DEF RefusedInv
<1>0. ASSUME NEW t \in Threads, pc[t] \in LifecyclePcs, enableReply = "refused"
      PROVE  pc[t] = "on_error"
  BY <1>0 DEF StepsInv, StepInv, Configuring, Activating, LeavingZeroG, TearingDown
<1>1. ASSUME UNCHANGED <<enableReply, state>> PROVE RefusedInv'
  BY <1>1
<1>2. ASSUME NEW t \in Threads, BeginCall(t) \/ RefuseCall(t) \/ ReturnCall(t) PROVE RefusedInv'
  BY <1>1, <1>2 DEF BeginCall, RefuseCall, ReturnCall
<1>3. ASSUME NEW t \in Threads,
             \/ CreateArm(t) \/ ConnectOk(t) \/ ConfigureFails(t) \/ ReadLicense(t)
             \/ CreatePublishers(t) \/ CreatePublishersThrows(t) \/ BeginActivate(t)
             \/ CreateServices(t) \/ ActivatePublishers(t) \/ StartTimers(t)
             \/ StartTimersThrows(t)
      PROVE  RefusedInv'
  <2>1. pc[t] \in LifecyclePcs \ {"on_error"} /\ UNCHANGED enableReply
    BY <1>3 DEF CreateArm, ConnectOk, ConfigureFails, ReadLicense, CreatePublishers,
    CreatePublishersThrows, BeginActivate, CreateServices, ActivatePublishers, StartTimers,
    StartTimersThrows
  <2> QED
    BY <1>0, <2>1
<1>4. ASSUME NEW t \in Threads,
             \/ BeginDeactivate(t) \/ LeaveZeroG(t) \/ StopTimers(t) \/ DestroyServices(t)
             \/ DeactivatePublishers(t) \/ CloseArm(t) \/ FinishCleanup(t)
      PROVE  RefusedInv'
  <2>1. pc[t] \in LifecyclePcs \ {"on_error"} /\ UNCHANGED enableReply
    BY <1>4 DEF BeginDeactivate, LeaveZeroG, StopTimers, DestroyServices, DeactivatePublishers,
    CloseArm, FinishCleanup
  <2> QED
    BY <1>0, <2>1
<1>5. ASSUME NEW t \in Threads, EnableAcked(t) \/ EnableRefused(t) \/ OnError(t)
      PROVE  RefusedInv'
  BY <1>5 DEF EnableAcked, EnableRefused, OnError, Fail, Succeed
<1>6. ASSUME NEW t \in Threads, Accept(t) PROVE RefusedInv'
  BY <1>6 DEF Accept, TakeService, TakeTimer, TakeTransition
<1>7. CASE Environment \/ Exit \/ UNCHANGED vars
  BY <1>1, <1>7 DEF Environment, ClientCalls, SetParam, LinkLost, FaultLatches, Interrupt, Exit, vars
<1> QED
  BY <1>2, <1>3, <1>4, <1>5, <1>6, <1>7 DEF Next, Work, Ended

\* What the documents offer after a refused ENABLE is never there: the node is unconfigured and
\* serves nothing, until the operator asks for another transition (on_activate returns ERROR,
\* litearm_driver_node.cpp 162-193, and on_error).
THEOREM RefusalTakesServices == PeriodsFit => (Spec => []NoResetAfterRefusal)
<1> SUFFICES ASSUME PeriodsFit PROVE Spec => []NoResetAfterRefusal
  OBVIOUS
<1>1. Spec => []SilentInv
  BY SilentInvariant
<1>2. SilentInv /\ RefusedInv => NoResetAfterRefusal
  BY DEF SilentInv, Quiet, RefusedInv, NoResetAfterRefusal, Primary
<1>3. Init => RefusedInv
  BY DEF Init, RefusedInv
<1> QED
  BY <1>1, <1>2, <1>3, RefusedStep, StepsInit, StepsStep, TypeCorrect, ExclusionInvariant, PTL
  DEF Spec
=============================================================================
