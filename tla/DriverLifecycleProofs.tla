------------------------ MODULE DriverLifecycleProofs ------------------------
(* Theorems about DriverLifecycle, for any number of threads, Arms and services. *)
EXTENDS DriverLifecycle, TLAPS

USE DEF SdkPcs, LifecyclePcs, Groups, Live

\* Every variable keeps its type.
THEOREM TypeCorrect == Spec => []TypeOK
<1>1. Init => TypeOK
  <2> SUFFICES ASSUME Init PROVE TypeOK
    OBVIOUS
  <2>1. /\ pc \in [Threads -> {"idle"} \cup SdkPcs \cup LifecyclePcs]
        /\ \A t \in Threads : pc[t] # "call"
        /\ job \in [Threads -> {"none"} \cup Services \cup Timers \cup Transitions]
        /\ held \in [Threads -> Sessions \cup {NoSession}]
    BY DEF Init
  <2>2. /\ session \in [Sessions -> Live \cup {"unused", "gone"}]
        /\ pub \in [Topics -> {"none", "inactive", "active"}]
    BY DEF Init
  <2>3. QED
    BY <2>1, <2>2 DEF Init, TypeOK, Primary
<1>2. TypeOK /\ [Next]_vars => TypeOK'
  <2> SUFFICES ASSUME TypeOK, [Next]_vars PROVE TypeOK'
    OBVIOUS
  <2> USE ServicesAssumption, SessionAssumption, ParamAssumption
  <2> USE DEF Primary, Passing, Transitions
  <2>1. ASSUME NEW t \in Threads, BeginCall(t)
        PROVE  TypeOK'
    BY <2>1 DEF BeginCall, Goto, MayCall, Connected, TypeOK, Timers, Topics
  <2>2. ASSUME NEW t \in Threads, RefuseCall(t)
        PROVE  TypeOK'
    BY <2>2 DEF RefuseCall, Release, MayCall, GroupOf, Connected, ServiceGroup, TimerGroup, LifecycleGroup, TypeOK, Timers, Topics
  <2>3. ASSUME NEW t \in Threads, ReturnCall(t)
        PROVE  TypeOK'
    <3>1. /\ session' \in [Sessions -> Live \cup {"unused", "gone"}]
          /\ zeroG' \in BOOLEAN /\ fault' \in BOOLEAN
      BY <2>3 DEF ReturnCall, Effect, TypeOK
    <3>2. /\ pc' \in [Threads -> {"idle"} \cup SdkPcs \cup LifecyclePcs]
          /\ \A u \in Threads : pc'[u] = "call" => u # t /\ pc[u] = "call"
          /\ job' \in [Threads -> {"none"} \cup Services \cup Timers \cup Transitions]
          /\ busy' \subseteq Groups
      BY <2>3 DEF ReturnCall, Release, TypeOK
    <3>3. held' = [held EXCEPT ![t] = NoSession]
      BY <2>3 DEF ReturnCall
    <3>4. QED
      <4>1. \A u \in Threads : pc'[u] = "call" => held'[u] \in Sessions
        BY <3>2, <3>3 DEF TypeOK
      <4>2. held' \in [Threads -> Sessions \cup {NoSession}]
        BY <3>3 DEF TypeOK
      <4>3. QED
        BY <2>3, <3>1, <3>2, <4>1, <4>2 DEF ReturnCall, TypeOK
  <2>4. ASSUME NEW t \in Threads, CreateArm(t)
        PROVE  TypeOK'
    <3>1. PICK s \in Sessions : arm' = s
      BY <2>4 DEF CreateArm
    <3>2. session' \in [Sessions -> Live \cup {"unused", "gone"}]
      BY <2>4 DEF CreateArm, TypeOK
    <3>3. QED
      BY <2>4, <3>1, <3>2 DEF CreateArm, Goto, TypeOK
  <2>5. ASSUME NEW t \in Threads, ConnectOk(t)
        PROVE  TypeOK'
    BY <2>5 DEF ConnectOk, Goto, TypeOK, Timers, Topics
  <2>6. ASSUME NEW t \in Threads, ConfigureFails(t)
        PROVE  TypeOK'
    BY <2>6 DEF ConfigureFails, Fail, DestroyArm, Goto, TypeOK, Timers, Topics
  <2>7. ASSUME NEW t \in Threads, ReadLicense(t)
        PROVE  TypeOK'
    BY <2>7 DEF ReadLicense, Goto, TypeOK, Timers, Topics
  <2>8. ASSUME NEW t \in Threads, CreatePublishers(t)
        PROVE  TypeOK'
    BY <2>8 DEF CreatePublishers, Succeed, Created, Release, GroupOf, ServiceGroup, TimerGroup, LifecycleGroup, TypeOK, Timers, Topics
  <2>9. ASSUME NEW t \in Threads, CreatePublishersThrows(t)
        PROVE  TypeOK'
    BY <2>9 DEF CreatePublishersThrows, Fail, Created, Goto, TypeOK, Timers, Topics
  <2>10. ASSUME NEW t \in Threads, BeginActivate(t)
        PROVE  TypeOK'
    <3>1. CASE arm = NoSession
      BY <2>10, <3>1 DEF BeginActivate, Goto, Fail, TypeOK
    <3>2. CASE arm # NoSession
      <4>1. PICK next \in {"enabling", "serve"} : Goto(t, next)
        BY <2>10, <3>2 DEF BeginActivate
      <4>2. QED
        BY <2>10, <3>2, <4>1 DEF BeginActivate, Goto, TypeOK
    <3>3. QED
      BY <3>1, <3>2
  <2>11. ASSUME NEW t \in Threads, EnableAcked(t)
        PROVE  TypeOK'
    BY <2>11 DEF EnableAcked, Goto, TypeOK, Timers, Topics
  <2>12. ASSUME NEW t \in Threads, EnableRefused(t)
        PROVE  TypeOK'
    BY <2>12 DEF EnableRefused, Fail, Goto, TypeOK, Timers, Topics
  <2>13. ASSUME NEW t \in Threads, CreateServices(t)
        PROVE  TypeOK'
    BY <2>13 DEF CreateServices, Goto, TypeOK, Timers, Topics
  <2>14. ASSUME NEW t \in Threads, ActivatePublishers(t)
        PROVE  TypeOK'
    BY <2>14 DEF ActivatePublishers, Goto, TypeOK, Timers, Topics
  <2>15. ASSUME NEW t \in Threads, StartTimers(t)
        PROVE  TypeOK'
    <3>1. timers' \subseteq Timers
      BY <2>15 DEF StartTimers, TimersToStart, TypeOK, ParamSet
    <3>2. QED
      BY <2>15, <3>1 DEF StartTimers, Succeed, Release, TypeOK
  <2>16. ASSUME NEW t \in Threads, StartTimersThrows(t)
        PROVE  TypeOK'
    <3>1. timers' \subseteq Timers
      BY <2>16 DEF StartTimersThrows, TypeOK, Timers
    <3>2. QED
      BY <2>16, <3>1 DEF StartTimersThrows, Fail, Goto, TypeOK
  <2>17. ASSUME NEW t \in Threads, BeginDeactivate(t)
        PROVE  TypeOK'
    BY <2>17 DEF BeginDeactivate, Goto, TypeOK, Timers, Topics
  <2>18. ASSUME NEW t \in Threads, LeaveZeroG(t)
        PROVE  TypeOK'
    BY <2>18 DEF LeaveZeroG, Goto, TypeOK, Timers, Topics
  <2>19. ASSUME NEW t \in Threads, StopTimers(t)
        PROVE  TypeOK'
    BY <2>19 DEF StopTimers, Goto, TypeOK, Timers, Topics
  <2>20. ASSUME NEW t \in Threads, DestroyServices(t)
        PROVE  TypeOK'
    BY <2>20 DEF DestroyServices, Goto, TypeOK, Timers, Topics
  <2>21. ASSUME NEW t \in Threads, DeactivatePublishers(t)
        PROVE  TypeOK'
    <3>1. pub' \in [Topics -> {"none", "inactive", "active"}]
      BY <2>21 DEF DeactivatePublishers, TypeOK
    <3>2. CASE job[t] = "deactivate"
      BY <2>21, <3>1, <3>2 DEF DeactivatePublishers, Succeed, Release, TypeOK
    <3>3. CASE job[t] # "deactivate"
      <4>1. PICK next \in {"destroy", "closing"} : Goto(t, next)
        BY <2>21, <3>3 DEF DeactivatePublishers
      <4>2. QED
        BY <2>21, <3>1, <3>3, <4>1 DEF DeactivatePublishers, Goto, TypeOK
    <3>4. QED
      BY <3>2, <3>3
  <2>22. ASSUME NEW t \in Threads, CloseArm(t)
        PROVE  TypeOK'
    BY <2>22 DEF CloseArm, Goto, TypeOK, Timers, Topics
  <2>23. ASSUME NEW t \in Threads, FinishCleanup(t)
        PROVE  TypeOK'
    BY <2>23 DEF FinishCleanup, Succeed, DestroyArm, Release, GroupOf, ServiceGroup, TimerGroup, LifecycleGroup, TypeOK, Timers, Topics
  <2>24. ASSUME NEW t \in Threads, OnError(t)
        PROVE  TypeOK'
    BY <2>24 DEF OnError, Succeed, Release, GroupOf, ServiceGroup, TimerGroup, LifecycleGroup, TypeOK, Timers, Topics
  <2>25. ASSUME NEW t \in Threads, NEW s \in Services, TakeService(t, s)
        PROVE  TypeOK'
    BY <2>25 DEF TakeService, Take, GroupOf, ServiceGroup, TimerGroup, LifecycleGroup, TypeOK, Timers, Topics
  <2>26. ASSUME NEW t \in Threads, NEW m \in Timers, TakeTimer(t, m)
        PROVE  TypeOK'
    BY <2>26 DEF TakeTimer, Take, GroupOf, ServiceGroup, TimerGroup, LifecycleGroup, TypeOK, Timers, Topics
  <2>27. ASSUME NEW t \in Threads, NEW tr \in Transitions, TakeTransition(t, tr)
        PROVE  TypeOK'
    BY <2>27 DEF TakeTransition, Take, Offered, During, FirstStep, GroupOf, ServiceGroup, TimerGroup, LifecycleGroup, TypeOK, Timers, Topics
  <2>28. ASSUME NEW s \in Services, ClientCalls(s)
        PROVE  TypeOK'
    BY <2>28 DEF ClientCalls, TypeOK, Timers, Topics
  <2>29. ASSUME SetParam
        PROVE  TypeOK'
    BY <2>29 DEF SetParam, LifecycleGroup, TypeOK, Timers, Topics
  <2>30. ASSUME LinkLost
        PROVE  TypeOK'
    BY <2>30 DEF LinkLost, Connected, TypeOK, Timers, Topics
  <2>31. ASSUME FaultLatches
        PROVE  TypeOK'
    BY <2>31 DEF FaultLatches, TypeOK, Timers, Topics
  <2>32. ASSUME Interrupt
        PROVE  TypeOK'
    BY <2>32 DEF Interrupt, TypeOK, Timers, Topics
  <2>33. ASSUME Exit
        PROVE  TypeOK'
    BY <2>33 DEF Exit, DestroyArm, TypeOK, Timers, Topics
  <2>34. CASE UNCHANGED vars
    BY <2>34 DEF vars, TypeOK, Timers, Topics
  <2>35. QED
    BY <2>1, <2>2, <2>3, <2>4, <2>5, <2>6, <2>7, <2>8, <2>9, <2>10, <2>11, <2>12, <2>13, <2>14, <2>15, <2>16, <2>17, <2>18, <2>19, <2>20, <2>21, <2>22, <2>23, <2>24, <2>25, <2>26, <2>27, <2>28, <2>29, <2>30, <2>31, <2>32, <2>33, <2>34
    DEF Next, Work, Accept, Environment, Ended
<1>3. QED
  BY <1>1, <1>2, PTL DEF Spec

-----------------------------------------------------------------------------
(* Mutual exclusion.  A callback in progress holds its group, so taking the    *)
(* next one of that group waits for it.                                        *)

ExclusionInv ==
  /\ \A t \in Threads : pc[t] \in SdkPcs => job[t] \in Services \cup Timers /\ "sdk" \in busy
  /\ \A t \in Threads : pc[t] \in LifecyclePcs => job[t] \in Transitions /\ "default" \in busy
  /\ CallbackExclusion

\* sdk_group_ holds every service and timer, and no transition.
LEMMA Grouping ==
  /\ \A j \in Services \cup Timers : GroupOf(j) = "sdk"
  /\ \A j \in Transitions : GroupOf(j) = "default"
  BY ServicesAssumption
  DEF GroupOf, ServiceKinds, Timers, Transitions, ServiceGroup, TimerGroup, LifecycleGroup

\* A callback that moves on inside its own steps keeps exclusion.
LEMMA GotoExclusion ==
  ASSUME TypeOK, ExclusionInv, NEW t \in Threads, NEW next, Goto(t, next),
         \/ pc[t] \in SdkPcs /\ next \in SdkPcs
         \/ pc[t] \in LifecyclePcs /\ next \in LifecyclePcs
  PROVE  ExclusionInv'
  BY DEF TypeOK, ExclusionInv, CallbackExclusion, Goto

\* A callback that returns frees its group, which no other callback in progress has.
LEMMA ReleaseExclusion ==
  ASSUME TypeOK, ExclusionInv, NEW t \in Threads, pc[t] # "idle", Release(t)
  PROVE  ExclusionInv'
<1>1. CASE pc[t] \in SdkPcs
  <2>1. busy' = busy \ {"sdk"}
    BY <1>1, Grouping DEF ExclusionInv, Release
  <2>2. \A u \in Threads : u # t => pc[u] \notin SdkPcs
    BY <1>1 DEF ExclusionInv, CallbackExclusion
  <2>3. QED
    BY <2>1, <2>2 DEF TypeOK, ExclusionInv, CallbackExclusion, Release
<1>2. CASE pc[t] \in LifecyclePcs
  <2>1. busy' = busy \ {"default"}
    BY <1>2, Grouping DEF ExclusionInv, Release
  <2>2. \A u \in Threads : u # t => pc[u] \notin LifecyclePcs
    BY <1>2 DEF ExclusionInv, CallbackExclusion
  <2>3. QED
    BY <2>1, <2>2 DEF TypeOK, ExclusionInv, CallbackExclusion, Release
<1>3. QED
  BY <1>1, <1>2 DEF TypeOK

\* The executor takes a callback only when its group is free.
LEMMA TakeExclusion ==
  ASSUME TypeOK, ExclusionInv, NEW t \in Threads, NEW j, NEW first, Take(t, j, first),
         \/ j \in Services \cup Timers /\ first \in SdkPcs
         \/ j \in Transitions /\ first \in LifecyclePcs
  PROVE  ExclusionInv'
<1>1. CASE j \in Services \cup Timers /\ first \in SdkPcs
  <2>1. "sdk" \notin busy /\ busy' = busy \cup {"sdk"}
    BY <1>1, Grouping DEF Take
  <2>2. QED
    BY <1>1, <2>1 DEF TypeOK, ExclusionInv, CallbackExclusion, Take
<1>2. CASE j \in Transitions /\ first \in LifecyclePcs
  <2>1. "default" \notin busy /\ busy' = busy \cup {"default"}
    BY <1>2, Grouping DEF Take
  <2>2. QED
    BY <1>2, <2>1 DEF TypeOK, ExclusionInv, CallbackExclusion, Take
<1>3. QED
  BY <1>1, <1>2

LEMMA ExclusionInvariant == Spec => []ExclusionInv
<1>1. Init => ExclusionInv
  BY DEF Init, ExclusionInv, CallbackExclusion
<1>2. TypeOK /\ ExclusionInv /\ [Next]_vars => ExclusionInv'
  <2> SUFFICES ASSUME TypeOK, ExclusionInv, [Next]_vars PROVE ExclusionInv'
    OBVIOUS
  <2>1. ASSUME NEW t \in Threads, BeginCall(t)
        PROVE  ExclusionInv'
    BY <2>1, GotoExclusion DEF BeginCall
  <2>2. ASSUME NEW t \in Threads, RefuseCall(t)
        PROVE  ExclusionInv'
    BY <2>2, ReleaseExclusion DEF RefuseCall
  <2>3. ASSUME NEW t \in Threads, ReturnCall(t)
        PROVE  ExclusionInv'
    BY <2>3, ReleaseExclusion DEF ReturnCall
  <2>4. ASSUME NEW t \in Threads, CreateArm(t)
        PROVE  ExclusionInv'
    BY <2>4, GotoExclusion DEF CreateArm
  <2>5. ASSUME NEW t \in Threads, ConnectOk(t)
        PROVE  ExclusionInv'
    BY <2>5, GotoExclusion DEF ConnectOk
  <2>6. ASSUME NEW t \in Threads, ConfigureFails(t)
        PROVE  ExclusionInv'
    BY <2>6, GotoExclusion DEF ConfigureFails, Fail
  <2>7. ASSUME NEW t \in Threads, ReadLicense(t)
        PROVE  ExclusionInv'
    BY <2>7, GotoExclusion DEF ReadLicense
  <2>8. ASSUME NEW t \in Threads, CreatePublishers(t)
        PROVE  ExclusionInv'
    BY <2>8, ReleaseExclusion DEF CreatePublishers, Succeed
  <2>9. ASSUME NEW t \in Threads, CreatePublishersThrows(t)
        PROVE  ExclusionInv'
    BY <2>9, GotoExclusion DEF CreatePublishersThrows, Fail
  <2>10. ASSUME NEW t \in Threads, BeginActivate(t)
        PROVE  ExclusionInv'
    BY <2>10, GotoExclusion DEF BeginActivate, Fail
  <2>11. ASSUME NEW t \in Threads, EnableAcked(t)
        PROVE  ExclusionInv'
    BY <2>11, GotoExclusion DEF EnableAcked
  <2>12. ASSUME NEW t \in Threads, EnableRefused(t)
        PROVE  ExclusionInv'
    BY <2>12, GotoExclusion DEF EnableRefused, Fail
  <2>13. ASSUME NEW t \in Threads, CreateServices(t)
        PROVE  ExclusionInv'
    BY <2>13, GotoExclusion DEF CreateServices
  <2>14. ASSUME NEW t \in Threads, ActivatePublishers(t)
        PROVE  ExclusionInv'
    BY <2>14, GotoExclusion DEF ActivatePublishers
  <2>15. ASSUME NEW t \in Threads, StartTimers(t)
        PROVE  ExclusionInv'
    BY <2>15, ReleaseExclusion DEF StartTimers, Succeed
  <2>16. ASSUME NEW t \in Threads, StartTimersThrows(t)
        PROVE  ExclusionInv'
    BY <2>16, GotoExclusion DEF StartTimersThrows, Fail
  <2>17. ASSUME NEW t \in Threads, BeginDeactivate(t)
        PROVE  ExclusionInv'
    BY <2>17, GotoExclusion DEF BeginDeactivate
  <2>18. ASSUME NEW t \in Threads, LeaveZeroG(t)
        PROVE  ExclusionInv'
    BY <2>18, GotoExclusion DEF LeaveZeroG
  <2>19. ASSUME NEW t \in Threads, StopTimers(t)
        PROVE  ExclusionInv'
    BY <2>19, GotoExclusion DEF StopTimers
  <2>20. ASSUME NEW t \in Threads, DestroyServices(t)
        PROVE  ExclusionInv'
    BY <2>20, GotoExclusion DEF DestroyServices
  <2>21. ASSUME NEW t \in Threads, DeactivatePublishers(t)
        PROVE  ExclusionInv'
    BY <2>21, GotoExclusion, ReleaseExclusion DEF DeactivatePublishers, Succeed
  <2>22. ASSUME NEW t \in Threads, CloseArm(t)
        PROVE  ExclusionInv'
    BY <2>22, GotoExclusion DEF CloseArm
  <2>23. ASSUME NEW t \in Threads, FinishCleanup(t)
        PROVE  ExclusionInv'
    BY <2>23, ReleaseExclusion DEF FinishCleanup, Succeed
  <2>24. ASSUME NEW t \in Threads, OnError(t)
        PROVE  ExclusionInv'
    BY <2>24, ReleaseExclusion DEF OnError, Succeed
  <2>25. ASSUME NEW t \in Threads, NEW s \in Services, TakeService(t, s)
        PROVE  ExclusionInv'
    BY <2>25, TakeExclusion DEF TakeService
  <2>26. ASSUME NEW t \in Threads, NEW m \in Timers, TakeTimer(t, m)
        PROVE  ExclusionInv'
    BY <2>26, TakeExclusion DEF TakeTimer
  <2>27. ASSUME NEW t \in Threads, NEW tr \in Transitions, TakeTransition(t, tr)
        PROVE  ExclusionInv'
    <3>1. FirstStep(tr) \in LifecyclePcs
      BY DEF FirstStep, Transitions
    <3>2. QED
      BY <2>27, <3>1, TakeExclusion DEF TakeTransition
  <2>28. ASSUME NEW s \in Services, ClientCalls(s)
        PROVE  ExclusionInv'
    BY <2>28 DEF ClientCalls, ExclusionInv, CallbackExclusion
  <2>29. ASSUME SetParam
        PROVE  ExclusionInv'
    BY <2>29 DEF SetParam, ExclusionInv, CallbackExclusion
  <2>30. ASSUME LinkLost
        PROVE  ExclusionInv'
    BY <2>30 DEF LinkLost, ExclusionInv, CallbackExclusion
  <2>31. ASSUME FaultLatches
        PROVE  ExclusionInv'
    BY <2>31 DEF FaultLatches, ExclusionInv, CallbackExclusion
  <2>32. ASSUME Interrupt
        PROVE  ExclusionInv'
    BY <2>32 DEF Interrupt, ExclusionInv, CallbackExclusion
  <2>33. ASSUME Exit
        PROVE  ExclusionInv'
    BY <2>33 DEF Exit, ExclusionInv, CallbackExclusion
  <2>34. CASE UNCHANGED vars
    BY <2>34 DEF vars, ExclusionInv, CallbackExclusion
  <2>35. QED
    BY <2>1, <2>2, <2>3, <2>4, <2>5, <2>6, <2>7, <2>8, <2>9, <2>10, <2>11, <2>12, <2>13, <2>14, <2>15, <2>16, <2>17, <2>18, <2>19, <2>20, <2>21, <2>22, <2>23, <2>24, <2>25, <2>26, <2>27, <2>28, <2>29, <2>30, <2>31, <2>32, <2>33, <2>34
    DEF Next, Work, Accept, Environment, Ended
<1>3. QED
  BY <1>1, <1>2, TypeCorrect, PTL DEF Spec

\* However many threads the executor has, no two handlers or timers overlap and no two
\* transitions do.
THEOREM Exclusion == Spec => []CallbackExclusion
<1>1. ExclusionInv => CallbackExclusion
  BY DEF ExclusionInv
<1>2. QED
  BY <1>1, ExclusionInvariant, PTL

-----------------------------------------------------------------------------
(* Ownership of the Arm objects.                                               *)

OwnershipInv ==
  /\ ArmOwned
  /\ \A t \in Threads : pc[t] = "call" => session[held[t]] # "unused"

\* A step that neither touches an Arm nor enters one.
LEMMA OwnershipKept ==
  ASSUME OwnershipInv, UNCHANGED <<arm, session, held>>,
         \A t \in Threads : pc'[t] = "call" => pc[t] = "call"
  PROVE  OwnershipInv'
  BY DEF OwnershipInv, ArmOwned

\* Destroying what arm_ owns, or closing it, keeps arm_ the only owner.
LEMMA OwnershipDestroyed ==
  ASSUME TypeOK, OwnershipInv, DestroyArm, UNCHANGED held,
         \A t \in Threads : pc'[t] = "call" => pc[t] = "call"
  PROVE  OwnershipInv'
  BY SessionAssumption DEF TypeOK, OwnershipInv, ArmOwned, DestroyArm

LEMMA OwnershipRelinked ==
  ASSUME TypeOK, OwnershipInv, NEW up \in Live, UNCHANGED <<arm, held>>,
         session' = [session EXCEPT ![arm] = up],
         \A t \in Threads : pc'[t] = "call" => pc[t] = "call"
  PROVE  OwnershipInv'
  BY SessionAssumption DEF TypeOK, OwnershipInv, ArmOwned

LEMMA OwnershipInvariant == Spec => []OwnershipInv
<1>1. Init => OwnershipInv
  BY SessionAssumption DEF Init, OwnershipInv, ArmOwned
<1>2. TypeOK /\ OwnershipInv /\ [Next]_vars => OwnershipInv'
  <2> SUFFICES ASSUME TypeOK, OwnershipInv, [Next]_vars PROVE OwnershipInv'
    OBVIOUS
  <2>1. ASSUME NEW t \in Threads, BeginCall(t)
        PROVE  OwnershipInv'
    BY <2>1, SessionAssumption DEF TypeOK, OwnershipInv, ArmOwned, BeginCall, MayCall, Connected, Goto
  <2>2. ASSUME NEW t \in Threads, RefuseCall(t)
        PROVE  OwnershipInv'
    BY <2>2, OwnershipKept DEF TypeOK, RefuseCall, Release
  <2>3. ASSUME NEW t \in Threads, ~ Undefined, ReturnCall(t)
        PROVE  OwnershipInv'
    <3>1. /\ \A u \in Threads : pc'[u] = "call" => u # t /\ pc[u] = "call"
          /\ \A u \in Threads : u # t => held'[u] = held[u]
      BY <2>3 DEF TypeOK, ReturnCall, Release
    <3>2. CASE UNCHANGED session
      BY <2>3, <3>1, <3>2 DEF TypeOK, OwnershipInv, ArmOwned, ReturnCall
    <3>3. CASE \E up \in {"open", "down"} : session' = [session EXCEPT ![held[t]] = up]
      <4>1. held[t] \in Sessions /\ session[held[t]] # "gone"
        BY <2>3 DEF TypeOK, ReturnCall, Undefined
      <4>2. held[t] = arm
        BY <2>3, <4>1 DEF TypeOK, OwnershipInv, ArmOwned, ReturnCall
      <4>3. QED
        BY <2>3, <3>1, <3>3, <4>1, <4>2 DEF TypeOK, OwnershipInv, ArmOwned, ReturnCall
    <3>4. QED
      BY <2>3, <3>2, <3>3 DEF ReturnCall, Effect
  <2>4. ASSUME NEW t \in Threads, CreateArm(t)
        PROVE  OwnershipInv'
    BY <2>4, SessionAssumption DEF TypeOK, OwnershipInv, ArmOwned, CreateArm, Goto
  <2>5. ASSUME NEW t \in Threads, ConnectOk(t)
        PROVE  OwnershipInv'
    BY <2>5, OwnershipRelinked DEF TypeOK, ConnectOk, Goto
  <2>6. ASSUME NEW t \in Threads, ConfigureFails(t)
        PROVE  OwnershipInv'
    BY <2>6, OwnershipDestroyed DEF TypeOK, ConfigureFails, Fail, Goto
  <2>7. ASSUME NEW t \in Threads, ReadLicense(t)
        PROVE  OwnershipInv'
    BY <2>7, OwnershipKept DEF TypeOK, ReadLicense, Goto
  <2>8. ASSUME NEW t \in Threads, CreatePublishers(t)
        PROVE  OwnershipInv'
    BY <2>8, OwnershipKept DEF TypeOK, CreatePublishers, Succeed, Release
  <2>9. ASSUME NEW t \in Threads, CreatePublishersThrows(t)
        PROVE  OwnershipInv'
    BY <2>9, OwnershipKept DEF TypeOK, CreatePublishersThrows, Fail, Goto
  <2>10. ASSUME NEW t \in Threads, BeginActivate(t)
        PROVE  OwnershipInv'
    BY <2>10, OwnershipKept DEF TypeOK, BeginActivate, Fail, Goto
  <2>11. ASSUME NEW t \in Threads, EnableAcked(t)
        PROVE  OwnershipInv'
    BY <2>11, OwnershipKept DEF TypeOK, EnableAcked, Goto
  <2>12. ASSUME NEW t \in Threads, EnableRefused(t)
        PROVE  OwnershipInv'
    BY <2>12, OwnershipKept DEF TypeOK, EnableRefused, Fail, Goto
  <2>13. ASSUME NEW t \in Threads, CreateServices(t)
        PROVE  OwnershipInv'
    BY <2>13, OwnershipKept DEF TypeOK, CreateServices, Goto
  <2>14. ASSUME NEW t \in Threads, ActivatePublishers(t)
        PROVE  OwnershipInv'
    BY <2>14, OwnershipKept DEF TypeOK, ActivatePublishers, Goto
  <2>15. ASSUME NEW t \in Threads, StartTimers(t)
        PROVE  OwnershipInv'
    BY <2>15, OwnershipKept DEF TypeOK, StartTimers, Succeed, Release
  <2>16. ASSUME NEW t \in Threads, StartTimersThrows(t)
        PROVE  OwnershipInv'
    BY <2>16, OwnershipKept DEF TypeOK, StartTimersThrows, Fail, Goto
  <2>17. ASSUME NEW t \in Threads, BeginDeactivate(t)
        PROVE  OwnershipInv'
    BY <2>17, OwnershipKept DEF TypeOK, BeginDeactivate, Goto
  <2>18. ASSUME NEW t \in Threads, LeaveZeroG(t)
        PROVE  OwnershipInv'
    BY <2>18, OwnershipKept DEF TypeOK, LeaveZeroG, Goto
  <2>19. ASSUME NEW t \in Threads, StopTimers(t)
        PROVE  OwnershipInv'
    BY <2>19, OwnershipKept DEF TypeOK, StopTimers, Goto
  <2>20. ASSUME NEW t \in Threads, DestroyServices(t)
        PROVE  OwnershipInv'
    BY <2>20, OwnershipKept DEF TypeOK, DestroyServices, Goto
  <2>21. ASSUME NEW t \in Threads, DeactivatePublishers(t)
        PROVE  OwnershipInv'
    BY <2>21, OwnershipKept DEF TypeOK, DeactivatePublishers, Fail, Goto, Succeed, Release
  <2>22. ASSUME NEW t \in Threads, CloseArm(t)
        PROVE  OwnershipInv'
    BY <2>22, OwnershipRelinked DEF TypeOK, CloseArm, Goto
  <2>23. ASSUME NEW t \in Threads, FinishCleanup(t)
        PROVE  OwnershipInv'
    BY <2>23, OwnershipDestroyed DEF TypeOK, FinishCleanup, Succeed, Release
  <2>24. ASSUME NEW t \in Threads, OnError(t)
        PROVE  OwnershipInv'
    BY <2>24, OwnershipKept DEF TypeOK, OnError, Succeed, Release
  <2>25. ASSUME NEW t \in Threads, NEW s \in Services, TakeService(t, s)
        PROVE  OwnershipInv'
    BY <2>25, OwnershipKept DEF TypeOK, TakeService, Take
  <2>26. ASSUME NEW t \in Threads, NEW m \in Timers, TakeTimer(t, m)
        PROVE  OwnershipInv'
    BY <2>26, OwnershipKept DEF TypeOK, TakeTimer, Take
  <2>27. ASSUME NEW t \in Threads, NEW tr \in Transitions, TakeTransition(t, tr)
        PROVE  OwnershipInv'
    <3>1. FirstStep(tr) # "call"
      BY DEF FirstStep, Transitions
    <3>2. QED
      BY <2>27, <3>1, OwnershipKept DEF TypeOK, TakeTransition, Take
  <2>28. ASSUME NEW s \in Services, ClientCalls(s)
        PROVE  OwnershipInv'
    BY <2>28, OwnershipKept DEF ClientCalls
  <2>29. ASSUME SetParam
        PROVE  OwnershipInv'
    BY <2>29, OwnershipKept DEF SetParam
  <2>30. ASSUME LinkLost
        PROVE  OwnershipInv'
    BY <2>30, OwnershipRelinked DEF LinkLost
  <2>31. ASSUME FaultLatches
        PROVE  OwnershipInv'
    BY <2>31, OwnershipKept DEF FaultLatches
  <2>32. ASSUME Interrupt
        PROVE  OwnershipInv'
    BY <2>32, OwnershipKept DEF Interrupt
  <2>33. ASSUME Exit
        PROVE  OwnershipInv'
    BY <2>33, OwnershipDestroyed DEF Exit
  <2>34. CASE UNCHANGED vars
    BY <2>34 DEF vars, OwnershipInv, ArmOwned
  <2>35. QED
    BY <2>1, <2>2, <2>3, <2>4, <2>5, <2>6, <2>7, <2>8, <2>9, <2>10, <2>11, <2>12, <2>13, <2>14, <2>15, <2>16, <2>17, <2>18, <2>19, <2>20, <2>21, <2>22, <2>23, <2>24, <2>25, <2>26, <2>27, <2>28, <2>29, <2>30, <2>31, <2>32, <2>33, <2>34
    DEF Next, Work, Accept, Environment, Ended
<1>3. QED
  BY <1>1, <1>2, TypeCorrect, PTL DEF Spec

\* arm_ is always the owner of the one Arm that exists, through every failure path and with
\* handlers in flight, as long as no handler was left inside a destroyed Arm.
THEOREM Ownership == Spec => []ArmOwned
<1>1. OwnershipInv => ArmOwned
  BY DEF OwnershipInv
<1>2. QED
  BY <1>1, OwnershipInvariant, PTL

-----------------------------------------------------------------------------
(* Where the node's state can be while a transition callback runs, and what an *)
(* end state leaves behind.                                                    *)

PhaseInv ==
  /\ \A t \in Threads : pc[t] \in LifecyclePcs => state \in Passing
  /\ state = "finalized" => arm = NoSession
  /\ proc = "exited" => arm = NoSession /\ \A t \in Threads : pc[t] = "idle"

\* A step inside a callback, on a thread that is not idle.
LEMMA PhaseMoved ==
  ASSUME TypeOK, PhaseInv, NEW t \in Threads, pc[t] \in LifecyclePcs, NEW next, Goto(t, next),
         state' \in Passing, UNCHANGED proc
  PROVE  PhaseInv'
  BY DEF TypeOK, PhaseInv, Goto, Primary, Passing

\* A transition callback that returns: no other is in progress.
LEMMA PhaseEnded ==
  ASSUME TypeOK, ExclusionInv, PhaseInv, NEW t \in Threads, pc[t] \in LifecyclePcs, Release(t),
         UNCHANGED proc, state' = "finalized" => arm' = NoSession
  PROVE  PhaseInv'
<1>1. \A u \in Threads : pc'[u] \notin LifecyclePcs
  BY DEF TypeOK, ExclusionInv, CallbackExclusion, Release
<1>2. proc # "exited"
  BY DEF PhaseInv
<1>3. QED
  BY <1>1, <1>2 DEF PhaseInv

\* A step of a handler or of the environment, which leaves arm_ and the state alone.
LEMMA PhaseKept ==
  ASSUME PhaseInv, UNCHANGED <<state, arm>>, proc' = "exited" => proc = "exited",
         \A t \in Threads : pc'[t] \in LifecyclePcs => pc[t] \in LifecyclePcs,
         proc = "exited" => UNCHANGED pc
  PROVE  PhaseInv'
  BY DEF PhaseInv

LEMMA PhaseInvariant == Spec => []PhaseInv
<1>1. Init => PhaseInv
  BY DEF Init, PhaseInv
<1>2. TypeOK /\ ExclusionInv /\ PhaseInv /\ [Next]_vars => PhaseInv'
  <2> SUFFICES ASSUME TypeOK, ExclusionInv, PhaseInv, [Next]_vars PROVE PhaseInv'
    OBVIOUS
  <2>1. ASSUME NEW t \in Threads, BeginCall(t)
        PROVE  PhaseInv'
    BY <2>1, PhaseKept DEF TypeOK, PhaseInv, BeginCall, Goto
  <2>2. ASSUME NEW t \in Threads, RefuseCall(t)
        PROVE  PhaseInv'
    BY <2>2, PhaseKept DEF TypeOK, PhaseInv, RefuseCall, Release
  <2>3. ASSUME NEW t \in Threads, ReturnCall(t)
        PROVE  PhaseInv'
    BY <2>3, PhaseKept DEF TypeOK, PhaseInv, ReturnCall, Release
  <2>4. ASSUME NEW t \in Threads, CreateArm(t)
        PROVE  PhaseInv'
    BY <2>4, PhaseMoved DEF PhaseInv, CreateArm
  <2>5. ASSUME NEW t \in Threads, ConnectOk(t)
        PROVE  PhaseInv'
    BY <2>5, PhaseMoved DEF PhaseInv, ConnectOk
  <2>6. ASSUME NEW t \in Threads, ConfigureFails(t)
        PROVE  PhaseInv'
    BY <2>6, PhaseMoved DEF Passing, ConfigureFails, Fail
  <2>7. ASSUME NEW t \in Threads, ReadLicense(t)
        PROVE  PhaseInv'
    BY <2>7, PhaseMoved DEF PhaseInv, ReadLicense
  <2>8. ASSUME NEW t \in Threads, CreatePublishers(t)
        PROVE  PhaseInv'
    BY <2>8, PhaseEnded DEF CreatePublishers, Succeed
  <2>9. ASSUME NEW t \in Threads, CreatePublishersThrows(t)
        PROVE  PhaseInv'
    BY <2>9, PhaseMoved DEF Passing, CreatePublishersThrows, Fail
  <2>10. ASSUME NEW t \in Threads, BeginActivate(t)
        PROVE  PhaseInv'
    BY <2>10, PhaseMoved DEF PhaseInv, Passing, BeginActivate, Fail
  <2>11. ASSUME NEW t \in Threads, EnableAcked(t)
        PROVE  PhaseInv'
    BY <2>11, PhaseMoved DEF PhaseInv, EnableAcked
  <2>12. ASSUME NEW t \in Threads, EnableRefused(t)
        PROVE  PhaseInv'
    BY <2>12, PhaseMoved DEF Passing, EnableRefused, Fail
  <2>13. ASSUME NEW t \in Threads, CreateServices(t)
        PROVE  PhaseInv'
    BY <2>13, PhaseMoved DEF PhaseInv, CreateServices
  <2>14. ASSUME NEW t \in Threads, ActivatePublishers(t)
        PROVE  PhaseInv'
    BY <2>14, PhaseMoved DEF PhaseInv, ActivatePublishers
  <2>15. ASSUME NEW t \in Threads, StartTimers(t)
        PROVE  PhaseInv'
    BY <2>15, PhaseEnded DEF StartTimers, Succeed
  <2>16. ASSUME NEW t \in Threads, StartTimersThrows(t)
        PROVE  PhaseInv'
    BY <2>16, PhaseMoved DEF Passing, StartTimersThrows, Fail
  <2>17. ASSUME NEW t \in Threads, BeginDeactivate(t)
        PROVE  PhaseInv'
    BY <2>17, PhaseMoved DEF PhaseInv, BeginDeactivate
  <2>18. ASSUME NEW t \in Threads, LeaveZeroG(t)
        PROVE  PhaseInv'
    BY <2>18, PhaseMoved DEF PhaseInv, LeaveZeroG
  <2>19. ASSUME NEW t \in Threads, StopTimers(t)
        PROVE  PhaseInv'
    BY <2>19, PhaseMoved DEF PhaseInv, StopTimers
  <2>20. ASSUME NEW t \in Threads, DestroyServices(t)
        PROVE  PhaseInv'
    BY <2>20, PhaseMoved DEF PhaseInv, DestroyServices
  <2>21. ASSUME NEW t \in Threads, DeactivatePublishers(t)
        PROVE  PhaseInv'
    BY <2>21, PhaseMoved, PhaseEnded DEF PhaseInv, DeactivatePublishers, Succeed
  <2>22. ASSUME NEW t \in Threads, CloseArm(t)
        PROVE  PhaseInv'
    BY <2>22, PhaseMoved DEF PhaseInv, CloseArm
  <2>23. ASSUME NEW t \in Threads, FinishCleanup(t)
        PROVE  PhaseInv'
    BY <2>23, PhaseEnded DEF FinishCleanup, Succeed, DestroyArm
  <2>24. ASSUME NEW t \in Threads, OnError(t)
        PROVE  PhaseInv'
    BY <2>24, PhaseEnded DEF OnError, Succeed
  <2>25. ASSUME NEW t \in Threads, NEW s \in Services, TakeService(t, s)
        PROVE  PhaseInv'
    BY <2>25, PhaseKept DEF TypeOK, PhaseInv, TakeService, Take
  <2>26. ASSUME NEW t \in Threads, NEW m \in Timers, TakeTimer(t, m)
        PROVE  PhaseInv'
    BY <2>26, PhaseKept DEF TypeOK, PhaseInv, TakeTimer, Take
  <2>27. ASSUME NEW t \in Threads, NEW tr \in Transitions, TakeTransition(t, tr)
        PROVE  PhaseInv'
    <3>1. During(tr) \in Passing
      BY DEF During, Transitions, Passing
    <3>2. proc = "running" /\ proc' = proc /\ state' \in Passing
      BY <2>27, <3>1 DEF TakeTransition, Take
    <3>3. QED
      BY <3>2 DEF PhaseInv, Passing
  <2>28. ASSUME NEW s \in Services, ClientCalls(s)
        PROVE  PhaseInv'
    BY <2>28, PhaseKept DEF ClientCalls
  <2>29. ASSUME SetParam
        PROVE  PhaseInv'
    BY <2>29, PhaseKept DEF SetParam
  <2>30. ASSUME LinkLost
        PROVE  PhaseInv'
    BY <2>30, PhaseKept DEF LinkLost
  <2>31. ASSUME FaultLatches
        PROVE  PhaseInv'
    BY <2>31, PhaseKept DEF FaultLatches
  <2>32. ASSUME Interrupt
        PROVE  PhaseInv'
    BY <2>32, PhaseKept DEF Interrupt
  <2>33. ASSUME Exit
        PROVE  PhaseInv'
    BY <2>33 DEF Exit, DestroyArm, PhaseInv
  <2>34. CASE UNCHANGED vars
    BY <2>34 DEF vars, PhaseInv
  <2>35. QED
    BY <2>1, <2>2, <2>3, <2>4, <2>5, <2>6, <2>7, <2>8, <2>9, <2>10, <2>11, <2>12, <2>13, <2>14, <2>15, <2>16, <2>17, <2>18, <2>19, <2>20, <2>21, <2>22, <2>23, <2>24, <2>25, <2>26, <2>27, <2>28, <2>29, <2>30, <2>31, <2>32, <2>33, <2>34
    DEF Next, Work, Accept, Environment, Ended
<1>3. QED
  BY <1>1, <1>2, TypeCorrect, ExclusionInvariant, PTL DEF Spec

\* Whatever handlers and transitions were under way, a finalized node and an exited process
\* leave the serial port to others.
THEOREM PortFreed == Spec => []PortReleased
<1>1. PhaseInv /\ OwnershipInv => PortReleased
  BY SessionAssumption DEF PhaseInv, OwnershipInv, ArmOwned, PortReleased
<1>2. QED
  BY <1>1, PhaseInvariant, OwnershipInvariant, PTL

-----------------------------------------------------------------------------
(* Activation.                                                                 *)

EnabledInv ==
  /\ \A t \in Threads :
       pc[t] \in {"serve", "activate_publishers", "start_timers"} /\ cfg.auto_enable
       => enableReply = "acked"
  /\ ActiveWasEnabled

\* A step of a thread that is not about to serve, or already was.
LEMMA EnabledKept ==
  ASSUME EnabledInv, UNCHANGED <<cfg, enableReply>>,
         state' = "active" => state = "active",
         \A t \in Threads : pc'[t] \in {"serve", "activate_publishers", "start_timers"} =>
                            pc[t] \in {"serve", "activate_publishers", "start_timers"}
  PROVE  EnabledInv'
  BY DEF EnabledInv, ActiveWasEnabled

\* The step of the one transition callback in progress, which does not lead to serving.
LEMMA EnabledReset ==
  ASSUME state' # "active",
         \A t \in Threads : pc'[t] \notin {"serve", "activate_publishers", "start_timers"}
  PROVE  EnabledInv'
  BY DEF EnabledInv, ActiveWasEnabled

LEMMA EnabledInvariant == Spec => []EnabledInv
<1>1. Init => EnabledInv
  BY DEF Init, EnabledInv, ActiveWasEnabled
<1>2. TypeOK /\ ExclusionInv /\ PhaseInv /\ EnabledInv /\ [Next]_vars => EnabledInv'
  <2> SUFFICES ASSUME TypeOK, ExclusionInv, PhaseInv, EnabledInv, [Next]_vars
               PROVE  EnabledInv'
    OBVIOUS
  <2>1. ASSUME NEW t \in Threads, BeginCall(t)
        PROVE  EnabledInv'
    BY <2>1, EnabledKept DEF TypeOK, BeginCall, Goto
  <2>2. ASSUME NEW t \in Threads, RefuseCall(t)
        PROVE  EnabledInv'
    BY <2>2, EnabledKept DEF TypeOK, RefuseCall, Release
  <2>3. ASSUME NEW t \in Threads, ReturnCall(t)
        PROVE  EnabledInv'
    BY <2>3, EnabledKept DEF TypeOK, ReturnCall, Release
  <2>4. ASSUME NEW t \in Threads, CreateArm(t)
        PROVE  EnabledInv'
    BY <2>4, EnabledReset DEF TypeOK, ExclusionInv, CallbackExclusion, PhaseInv, Passing, CreateArm, Goto
  <2>5. ASSUME NEW t \in Threads, ConnectOk(t)
        PROVE  EnabledInv'
    BY <2>5, EnabledReset DEF TypeOK, ExclusionInv, CallbackExclusion, PhaseInv, Passing, ConnectOk, Goto
  <2>6. ASSUME NEW t \in Threads, ConfigureFails(t)
        PROVE  EnabledInv'
    BY <2>6, EnabledReset DEF TypeOK, ExclusionInv, CallbackExclusion, PhaseInv, Passing, ConfigureFails, Fail, Goto
  <2>7. ASSUME NEW t \in Threads, ReadLicense(t)
        PROVE  EnabledInv'
    BY <2>7, EnabledReset DEF TypeOK, ExclusionInv, CallbackExclusion, PhaseInv, Passing, ReadLicense, Goto
  <2>8. ASSUME NEW t \in Threads, CreatePublishers(t)
        PROVE  EnabledInv'
    BY <2>8, EnabledReset DEF TypeOK, ExclusionInv, CallbackExclusion, PhaseInv, Passing, CreatePublishers, Succeed, Release
  <2>9. ASSUME NEW t \in Threads, CreatePublishersThrows(t)
        PROVE  EnabledInv'
    BY <2>9, EnabledReset DEF TypeOK, ExclusionInv, CallbackExclusion, PhaseInv, Passing, CreatePublishersThrows, Fail, Goto
  <2>10. ASSUME NEW t \in Threads, BeginActivate(t)
        PROVE  EnabledInv'
    BY <2>10 DEF TypeOK, ExclusionInv, CallbackExclusion, PhaseInv, Passing, EnabledInv, ActiveWasEnabled, BeginActivate, Fail, Goto, Succeed, Release
  <2>11. ASSUME NEW t \in Threads, EnableAcked(t)
        PROVE  EnabledInv'
    BY <2>11 DEF TypeOK, ExclusionInv, CallbackExclusion, PhaseInv, Passing, EnabledInv, ActiveWasEnabled, EnableAcked, Goto
  <2>12. ASSUME NEW t \in Threads, EnableRefused(t)
        PROVE  EnabledInv'
    BY <2>12, EnabledReset DEF TypeOK, ExclusionInv, CallbackExclusion, PhaseInv, Passing, EnableRefused, Fail, Goto
  <2>13. ASSUME NEW t \in Threads, CreateServices(t)
        PROVE  EnabledInv'
    BY <2>13 DEF TypeOK, ExclusionInv, CallbackExclusion, PhaseInv, Passing, EnabledInv, ActiveWasEnabled, CreateServices, Goto
  <2>14. ASSUME NEW t \in Threads, ActivatePublishers(t)
        PROVE  EnabledInv'
    BY <2>14 DEF TypeOK, ExclusionInv, CallbackExclusion, PhaseInv, Passing, EnabledInv, ActiveWasEnabled, ActivatePublishers, Goto
  <2>15. ASSUME NEW t \in Threads, StartTimers(t)
        PROVE  EnabledInv'
    BY <2>15 DEF TypeOK, ExclusionInv, CallbackExclusion, PhaseInv, Passing, EnabledInv, ActiveWasEnabled, StartTimers, Succeed, Release
  <2>16. ASSUME NEW t \in Threads, StartTimersThrows(t)
        PROVE  EnabledInv'
    BY <2>16, EnabledReset DEF TypeOK, ExclusionInv, CallbackExclusion, PhaseInv, Passing, StartTimersThrows, Fail, Goto
  <2>17. ASSUME NEW t \in Threads, BeginDeactivate(t)
        PROVE  EnabledInv'
    BY <2>17, EnabledReset DEF TypeOK, ExclusionInv, CallbackExclusion, PhaseInv, Passing, BeginDeactivate, Goto
  <2>18. ASSUME NEW t \in Threads, LeaveZeroG(t)
        PROVE  EnabledInv'
    BY <2>18, EnabledReset DEF TypeOK, ExclusionInv, CallbackExclusion, PhaseInv, Passing, LeaveZeroG, Goto
  <2>19. ASSUME NEW t \in Threads, StopTimers(t)
        PROVE  EnabledInv'
    BY <2>19, EnabledReset DEF TypeOK, ExclusionInv, CallbackExclusion, PhaseInv, Passing, StopTimers, Goto
  <2>20. ASSUME NEW t \in Threads, DestroyServices(t)
        PROVE  EnabledInv'
    BY <2>20, EnabledReset DEF TypeOK, ExclusionInv, CallbackExclusion, PhaseInv, Passing, DestroyServices, Goto
  <2>21. ASSUME NEW t \in Threads, DeactivatePublishers(t)
        PROVE  EnabledInv'
    BY <2>21, EnabledReset DEF TypeOK, ExclusionInv, CallbackExclusion, PhaseInv, Passing, DeactivatePublishers, Fail, Goto, Succeed, Release
  <2>22. ASSUME NEW t \in Threads, CloseArm(t)
        PROVE  EnabledInv'
    BY <2>22, EnabledReset DEF TypeOK, ExclusionInv, CallbackExclusion, PhaseInv, Passing, CloseArm, Goto
  <2>23. ASSUME NEW t \in Threads, FinishCleanup(t)
        PROVE  EnabledInv'
    BY <2>23, EnabledReset DEF TypeOK, ExclusionInv, CallbackExclusion, PhaseInv, Passing, FinishCleanup, Succeed, Release
  <2>24. ASSUME NEW t \in Threads, OnError(t)
        PROVE  EnabledInv'
    BY <2>24, EnabledReset DEF TypeOK, ExclusionInv, CallbackExclusion, PhaseInv, Passing, OnError, Succeed, Release
  <2>25. ASSUME NEW t \in Threads, NEW s \in Services, TakeService(t, s)
        PROVE  EnabledInv'
    BY <2>25, EnabledKept DEF TypeOK, TakeService, Take
  <2>26. ASSUME NEW t \in Threads, NEW m \in Timers, TakeTimer(t, m)
        PROVE  EnabledInv'
    BY <2>26, EnabledKept DEF TypeOK, TakeTimer, Take
  <2>27. ASSUME NEW t \in Threads, NEW tr \in Transitions, TakeTransition(t, tr)
        PROVE  EnabledInv'
    <3>1. During(tr) # "active" /\ FirstStep(tr) \notin {"serve", "activate_publishers", "start_timers"}
      BY DEF During, FirstStep, Transitions
    <3>2. "default" \notin busy
      BY <2>27, Grouping DEF TakeTransition, Take
    <3>3. QED
      BY <2>27, <3>1, <3>2, EnabledReset DEF TypeOK, ExclusionInv, TakeTransition, Take
  <2>28. ASSUME NEW s \in Services, ClientCalls(s)
        PROVE  EnabledInv'
    BY <2>28, EnabledKept DEF ClientCalls
  <2>29. ASSUME SetParam
        PROVE  EnabledInv'
    BY <2>29, EnabledKept DEF SetParam
  <2>30. ASSUME LinkLost
        PROVE  EnabledInv'
    BY <2>30, EnabledKept DEF LinkLost
  <2>31. ASSUME FaultLatches
        PROVE  EnabledInv'
    BY <2>31, EnabledKept DEF FaultLatches
  <2>32. ASSUME Interrupt
        PROVE  EnabledInv'
    BY <2>32, EnabledKept DEF Interrupt
  <2>33. ASSUME Exit
        PROVE  EnabledInv'
    BY <2>33, EnabledKept DEF Exit
  <2>34. CASE UNCHANGED vars
    BY <2>34 DEF vars, EnabledInv, ActiveWasEnabled
  <2>35. QED
    BY <2>1, <2>2, <2>3, <2>4, <2>5, <2>6, <2>7, <2>8, <2>9, <2>10, <2>11, <2>12, <2>13, <2>14, <2>15, <2>16, <2>17, <2>18, <2>19, <2>20, <2>21, <2>22, <2>23, <2>24, <2>25, <2>26, <2>27, <2>28, <2>29, <2>30, <2>31, <2>32, <2>33, <2>34
    DEF Next, Work, Accept, Environment, Ended
<1>3. QED
  BY <1>1, <1>2, TypeCorrect, ExclusionInvariant, PhaseInvariant, PTL DEF Spec

\* An active node configured with auto_enable had its ENABLE acknowledged.
THEOREM ActivationEnables == Spec => []ActiveWasEnabled
<1>1. EnabledInv => ActiveWasEnabled
  BY DEF EnabledInv
<1>2. QED
  BY <1>1, EnabledInvariant, PTL

-----------------------------------------------------------------------------
(* Silence of a node that is not active, when no rate is so small that a timer *)
(* cannot be made.  Without that assumption activation can fail halfway.       *)

QuietPcs == {"create", "connect", "describe", "advertise", "enable", "enabling", "serve",
             "closing", "destroy", "on_error"}

SilentInv ==
  /\ state \in {"unconfigured", "inactive", "finalized"} => Quiet
  /\ \A t \in Threads : pc[t] \in QuietPcs => Quiet
  /\ \A t \in Threads : pc[t] \in {"unserve", "deactivate_publishers"} => timers = {}
  /\ \A t \in Threads : pc[t] = "deactivate_publishers" => ~ serving

\* Handlers, timers and the environment make nothing audible.
LEMMA SilentKept ==
  ASSUME SilentInv, UNCHANGED <<state, serving, timers, pub>>,
         \A t \in Threads : pc'[t] \in LifecyclePcs => pc'[t] = pc[t]
  PROVE  SilentInv'
  BY DEF SilentInv, Quiet, QuietPcs

\* A step of the transition callback in progress that leaves the node quiet.
LEMMA SilentNow ==
  ASSUME Quiet' PROVE SilentInv'
  BY DEF SilentInv, Quiet

LEMMA SilentInvariant == PeriodsFit => (Spec => []SilentInv)
<1>1. Init => SilentInv
  BY SilentNow DEF Init, SilentInv, Quiet, QuietPcs
<1>2. PeriodsFit /\ TypeOK /\ ExclusionInv /\ PhaseInv /\ SilentInv /\ [Next]_vars => SilentInv'
  <2> SUFFICES ASSUME PeriodsFit, TypeOK, ExclusionInv, PhaseInv, SilentInv, [Next]_vars
               PROVE  SilentInv'
    OBVIOUS
  <2>1. ASSUME NEW t \in Threads, BeginCall(t)
        PROVE  SilentInv'
    BY <2>1, SilentKept DEF TypeOK, BeginCall, Goto
  <2>2. ASSUME NEW t \in Threads, RefuseCall(t)
        PROVE  SilentInv'
    BY <2>2, SilentKept DEF TypeOK, RefuseCall, Release
  <2>3. ASSUME NEW t \in Threads, ReturnCall(t)
        PROVE  SilentInv'
    BY <2>3, SilentKept DEF TypeOK, ReturnCall, Release
  <2>4. ASSUME NEW t \in Threads, CreateArm(t)
        PROVE  SilentInv'
    BY <2>4, SilentNow DEF SilentInv, Quiet, QuietPcs, CreateArm
  <2>5. ASSUME NEW t \in Threads, ConnectOk(t)
        PROVE  SilentInv'
    BY <2>5, SilentNow DEF SilentInv, Quiet, QuietPcs, ConnectOk
  <2>6. ASSUME NEW t \in Threads, ConfigureFails(t)
        PROVE  SilentInv'
    BY <2>6, SilentNow DEF SilentInv, Quiet, QuietPcs, ConfigureFails
  <2>7. ASSUME NEW t \in Threads, ReadLicense(t)
        PROVE  SilentInv'
    BY <2>7, SilentNow DEF SilentInv, Quiet, QuietPcs, ReadLicense
  <2>8. ASSUME NEW t \in Threads, CreatePublishers(t)
        PROVE  SilentInv'
    BY <2>8, SilentNow DEF TypeOK, SilentInv, Quiet, QuietPcs, CreatePublishers, Created
  <2>9. ASSUME NEW t \in Threads, CreatePublishersThrows(t)
        PROVE  SilentInv'
    BY <2>9, SilentNow DEF TypeOK, SilentInv, Quiet, QuietPcs, CreatePublishersThrows, Created
  <2>10. ASSUME NEW t \in Threads, BeginActivate(t)
        PROVE  SilentInv'
    BY <2>10, SilentNow DEF SilentInv, Quiet, QuietPcs, BeginActivate
  <2>11. ASSUME NEW t \in Threads, EnableAcked(t)
        PROVE  SilentInv'
    BY <2>11, SilentNow DEF SilentInv, Quiet, QuietPcs, EnableAcked
  <2>12. ASSUME NEW t \in Threads, EnableRefused(t)
        PROVE  SilentInv'
    BY <2>12, SilentNow DEF SilentInv, Quiet, QuietPcs, EnableRefused
  <2>13. ASSUME NEW t \in Threads, CreateServices(t)
        PROVE  SilentInv'
    BY <2>13 DEF TypeOK, ExclusionInv, CallbackExclusion, PhaseInv, Passing, SilentInv, Quiet, QuietPcs, CreateServices, Goto
  <2>14. ASSUME NEW t \in Threads, ActivatePublishers(t)
        PROVE  SilentInv'
    BY <2>14 DEF TypeOK, ExclusionInv, CallbackExclusion, PhaseInv, Passing, SilentInv, Quiet, QuietPcs, ActivatePublishers, Goto
  <2>15. ASSUME NEW t \in Threads, StartTimers(t)
        PROVE  SilentInv'
    BY <2>15 DEF TypeOK, ExclusionInv, CallbackExclusion, PhaseInv, Passing, SilentInv, Quiet, QuietPcs, StartTimers, Succeed, Release
  <2>16. ASSUME NEW t \in Threads, StartTimersThrows(t)
        PROVE  SilentInv'
    <3>1. TimersToStart \subseteq Timers
      BY ParamAssumption DEF TypeOK, TimersToStart, ParamSet
    <3>2. QED
      BY <2>16, <3>1 DEF TypeOK, PeriodsFit, StartTimersThrows
  <2>17. ASSUME NEW t \in Threads, BeginDeactivate(t)
        PROVE  SilentInv'
    BY <2>17 DEF TypeOK, ExclusionInv, CallbackExclusion, PhaseInv, Passing, SilentInv, Quiet, QuietPcs, BeginDeactivate, Goto
  <2>18. ASSUME NEW t \in Threads, LeaveZeroG(t)
        PROVE  SilentInv'
    BY <2>18 DEF TypeOK, ExclusionInv, CallbackExclusion, PhaseInv, Passing, SilentInv, Quiet, QuietPcs, LeaveZeroG, Goto
  <2>19. ASSUME NEW t \in Threads, StopTimers(t)
        PROVE  SilentInv'
    BY <2>19 DEF TypeOK, ExclusionInv, CallbackExclusion, PhaseInv, Passing, SilentInv, Quiet, QuietPcs, StopTimers, Goto
  <2>20. ASSUME NEW t \in Threads, DestroyServices(t)
        PROVE  SilentInv'
    BY <2>20 DEF TypeOK, ExclusionInv, CallbackExclusion, PhaseInv, Passing, SilentInv, Quiet, QuietPcs, DestroyServices, Goto
  <2>21. ASSUME NEW t \in Threads, DeactivatePublishers(t)
        PROVE  SilentInv'
    BY <2>21 DEF TypeOK, ExclusionInv, CallbackExclusion, PhaseInv, Passing, SilentInv, Quiet, QuietPcs, DeactivatePublishers, Fail, Goto, Succeed, Release
  <2>22. ASSUME NEW t \in Threads, CloseArm(t)
        PROVE  SilentInv'
    BY <2>22, SilentNow DEF SilentInv, Quiet, QuietPcs, CloseArm
  <2>23. ASSUME NEW t \in Threads, FinishCleanup(t)
        PROVE  SilentInv'
    BY <2>23, SilentNow DEF SilentInv, Quiet, QuietPcs, FinishCleanup
  <2>24. ASSUME NEW t \in Threads, OnError(t)
        PROVE  SilentInv'
    BY <2>24, SilentNow DEF SilentInv, Quiet, QuietPcs, OnError
  <2>25. ASSUME NEW t \in Threads, NEW s \in Services, TakeService(t, s)
        PROVE  SilentInv'
    BY <2>25, SilentKept DEF TypeOK, TakeService, Take
  <2>26. ASSUME NEW t \in Threads, NEW m \in Timers, TakeTimer(t, m)
        PROVE  SilentInv'
    BY <2>26, SilentKept DEF TypeOK, TakeTimer, Take
  <2>27. ASSUME NEW t \in Threads, NEW tr \in Transitions, TakeTransition(t, tr)
        PROVE  SilentInv'
    <3>1. CASE tr \in {"configure", "activate", "cleanup"}
      <4>1. state \in {"unconfigured", "inactive"}
        BY <2>27, <3>1 DEF TakeTransition, Offered
      <4>2. QED
        BY <2>27, <4>1, SilentNow DEF TakeTransition, Take, SilentInv, Quiet
    <3>2. CASE tr \in {"deactivate", "shutdown"}
      <4>1. /\ FirstStep(tr) \in LifecyclePcs
            /\ FirstStep(tr) \notin QuietPcs \cup {"unserve", "deactivate_publishers"}
        BY <3>2 DEF FirstStep, QuietPcs
      <4>2. During(tr) \notin {"unconfigured", "inactive", "finalized"}
        BY <3>2 DEF During
      <4>3. "default" \notin busy
        BY <2>27, Grouping DEF TakeTransition, Take
      <4>4. \A u \in Threads : pc'[u] \notin QuietPcs \cup {"unserve", "deactivate_publishers"}
        BY <2>27, <4>1, <4>3 DEF TypeOK, ExclusionInv, TakeTransition, Take, QuietPcs
      <4>5. QED
        BY <2>27, <4>2, <4>4 DEF TakeTransition, SilentInv
    <3>3. QED
      BY <3>1, <3>2 DEF Transitions
  <2>28. ASSUME NEW s \in Services, ClientCalls(s)
        PROVE  SilentInv'
    BY <2>28, SilentKept DEF ClientCalls
  <2>29. ASSUME SetParam
        PROVE  SilentInv'
    BY <2>29, SilentKept DEF SetParam
  <2>30. ASSUME LinkLost
        PROVE  SilentInv'
    BY <2>30, SilentKept DEF LinkLost
  <2>31. ASSUME FaultLatches
        PROVE  SilentInv'
    BY <2>31, SilentKept DEF FaultLatches
  <2>32. ASSUME Interrupt
        PROVE  SilentInv'
    BY <2>32, SilentKept DEF Interrupt
  <2>33. ASSUME Exit
        PROVE  SilentInv'
    BY <2>33, SilentNow DEF Exit, Quiet
  <2>34. CASE UNCHANGED vars
    BY <2>34 DEF vars, SilentInv, Quiet, QuietPcs
  <2>35. QED
    BY <2>1, <2>2, <2>3, <2>4, <2>5, <2>6, <2>7, <2>8, <2>9, <2>10, <2>11, <2>12, <2>13, <2>14, <2>15, <2>16, <2>17, <2>18, <2>19, <2>20, <2>21, <2>22, <2>23, <2>24, <2>25, <2>26, <2>27, <2>28, <2>29, <2>30, <2>31, <2>32, <2>33, <2>34
    DEF Next, Work, Accept, Environment, Ended
<1>3. QED
  <2> SUFFICES ASSUME PeriodsFit PROVE Spec => []SilentInv
    OBVIOUS
  <2>1. TypeOK /\ ExclusionInv /\ PhaseInv /\ SilentInv /\ [Next]_vars => SilentInv'
    BY <1>2
  <2>2. QED
    BY <1>1, <2>1, TypeCorrect, ExclusionInvariant, PhaseInvariant, PTL DEF Spec

\* As long as every period fits a timer, an unconfigured, inactive or finalized node advertises
\* nothing, whichever path of success or failure led there (destroy_service_servers, stop_timers
\* and the error paths before create_service_servers).
THEOREM Silence == Spec => []SilentUnlessActive
<1>1. CASE PeriodsFit
  <2>1. SilentInv => SilentUnlessActive
    BY DEF SilentInv, SilentUnlessActive
  <2> QED
    BY <1>1, <2>1, SilentInvariant, PTL
<1>2. CASE ~ PeriodsFit
  <2>1. SilentUnlessActive
    BY <1>2 DEF SilentUnlessActive
  <2> QED
    BY <2>1, PTL
<1> QED
  BY <1>1, <1>2

\* Requests wait only at servers that exist.
PendingServed == ~ serving => pending = {}

LEMMA PendingInvariant == Spec => []PendingServed
<1>1. Init => PendingServed
  BY DEF Init, PendingServed
<1>2. PendingServed /\ [Next]_vars => PendingServed'
  <2> SUFFICES ASSUME PendingServed, [Next]_vars PROVE PendingServed'
    OBVIOUS
  <2> USE DEF PendingServed
  <2>1. ASSUME NEW t \in Threads, Work(t) PROVE PendingServed'
    <3>1. ASSUME UNCHANGED <<serving, pending>> PROVE PendingServed'
      BY <3>1
    <3>2. CASE BeginCall(t) \/ RefuseCall(t) \/ ReturnCall(t) \/ CreateArm(t) \/ ConnectOk(t)
               \/ ConfigureFails(t) \/ ReadLicense(t) \/ CreatePublishers(t)
               \/ CreatePublishersThrows(t) \/ BeginActivate(t) \/ EnableAcked(t)
      BY <3>1, <3>2 DEF BeginCall, RefuseCall, ReturnCall, CreateArm, ConnectOk, ConfigureFails,
      ReadLicense, CreatePublishers, CreatePublishersThrows, BeginActivate, EnableAcked
    <3>3. CASE EnableRefused(t) \/ ActivatePublishers(t) \/ StartTimers(t) \/ StartTimersThrows(t)
               \/ BeginDeactivate(t) \/ LeaveZeroG(t) \/ StopTimers(t)
               \/ DeactivatePublishers(t) \/ CloseArm(t) \/ FinishCleanup(t) \/ OnError(t)
      BY <3>1, <3>3 DEF EnableRefused, ActivatePublishers, StartTimers, StartTimersThrows,
      BeginDeactivate, LeaveZeroG, StopTimers, DeactivatePublishers, CloseArm, FinishCleanup,
      OnError
    <3>4. CASE CreateServices(t) \/ DestroyServices(t)
      BY <3>4 DEF CreateServices, DestroyServices
    <3> QED
      BY <2>1, <3>2, <3>3, <3>4 DEF Work
  <2>2. ASSUME NEW t \in Threads, Accept(t) PROVE PendingServed'
    BY <2>2 DEF Accept, TakeService, TakeTimer, TakeTransition, Take
  <2>3. CASE Environment \/ Exit \/ UNCHANGED vars
    BY <2>3 DEF Environment, ClientCalls, SetParam, LinkLost, FaultLatches, Interrupt, Exit, vars
  <2> QED
    BY <2>1, <2>2, <2>3 DEF Next, Ended
<1> QED
  BY <1>1, <1>2, PTL DEF Spec

\* With nothing advertised, the executor finds no handler and no timer to start.
LEMMA QuietStep ==
  ASSUME TypeOK, SilentInv, PendingServed, [Next]_vars,
         state \in {"unconfigured", "inactive", "finalized"},
         NEW t \in Threads, pc[t] \notin SdkPcs
  PROVE  pc'[t] \notin SdkPcs
<1>1. timers = {} /\ pending = {}
  BY DEF SilentInv, Quiet, PendingServed
<1>2. ASSUME NEW u \in Threads, Work(u) PROVE pc'[t] \notin SdkPcs
  <2>1. ASSUME NEW next \in LifecyclePcs, Goto(u, next) PROVE pc'[t] \notin SdkPcs
    BY <2>1 DEF TypeOK, Goto
  <2>2. ASSUME Release(u) PROVE pc'[t] \notin SdkPcs
    BY <2>2 DEF TypeOK, Release
  <2>3. CASE BeginCall(u)
    BY <2>3 DEF TypeOK, BeginCall, Goto
  <2>4. CASE RefuseCall(u) \/ ReturnCall(u) \/ CreatePublishers(u) \/ StartTimers(u)
             \/ FinishCleanup(u) \/ OnError(u)
    BY <2>2, <2>4 DEF RefuseCall, ReturnCall, CreatePublishers, StartTimers, FinishCleanup,
    OnError, Succeed
  <2>5. CASE CreateArm(u) \/ ConnectOk(u) \/ ConfigureFails(u) \/ ReadLicense(u)
             \/ CreatePublishersThrows(u) \/ EnableAcked(u) \/ EnableRefused(u)
             \/ CreateServices(u) \/ ActivatePublishers(u) \/ StartTimersThrows(u)
    BY <2>1, <2>5 DEF CreateArm, ConnectOk, ConfigureFails, ReadLicense, CreatePublishersThrows,
    EnableAcked, EnableRefused, CreateServices, ActivatePublishers, StartTimersThrows, Fail
  <2>6. CASE LeaveZeroG(u) \/ StopTimers(u) \/ DestroyServices(u) \/ CloseArm(u)
    BY <2>1, <2>6 DEF LeaveZeroG, StopTimers, DestroyServices, CloseArm
  <2>7. CASE BeginActivate(u) \/ BeginDeactivate(u) \/ DeactivatePublishers(u)
    BY <2>1, <2>2, <2>7 DEF BeginActivate, BeginDeactivate, DeactivatePublishers, Fail, Succeed
  <2> QED
    BY <1>2, <2>3, <2>4, <2>5, <2>6, <2>7 DEF Work
<1>3. ASSUME NEW u \in Threads, Accept(u) PROVE pc'[t] \notin SdkPcs
  <2>1. PICK tr \in Transitions : TakeTransition(u, tr)
    BY <1>1, <1>3 DEF Accept, TakeService, TakeTimer
  <2>2. FirstStep(tr) \in LifecyclePcs
    BY DEF FirstStep, Transitions
  <2> QED
    BY <2>1, <2>2 DEF TypeOK, TakeTransition, Take
<1>4. CASE Environment \/ Exit \/ UNCHANGED vars
  BY <1>4 DEF Environment, ClientCalls, SetParam, LinkLost, FaultLatches, Interrupt, Exit, vars
<1> QED
  BY <1>2, <1>3, <1>4 DEF Next, Ended

\* No handler or timer begins on a node at rest outside the active state, for any threads,
\* services and parameters whose rates fit (destroy_service_servers and stop_timers).
THEOREM NoStartAtRest == Spec => NothingStarts
<1>1. CASE PeriodsFit
  <2>1. Spec => []SilentInv
    BY <1>1, SilentInvariant
  <2>2. TypeOK /\ SilentInv /\ PendingServed /\ [Next]_vars =>
          [PeriodsFit =>
             \A t \in Threads :
               state \in {"unconfigured", "inactive", "finalized"} /\ pc'[t] \in SdkPcs
               => pc[t] \in SdkPcs]_vars
    BY QuietStep
  <2> QED
    BY <2>1, <2>2, PendingInvariant, TypeCorrect, PTL DEF Spec, NothingStarts
<1>2. CASE ~ PeriodsFit
  <2>1. [PeriodsFit =>
           \A t \in Threads :
             state \in {"unconfigured", "inactive", "finalized"} /\ pc'[t] \in SdkPcs
             => pc[t] \in SdkPcs]_vars
    BY <1>2
  <2> QED
    BY <2>1, PTL DEF NothingStarts
<1> QED
  BY <1>1, <1>2

=============================================================================
