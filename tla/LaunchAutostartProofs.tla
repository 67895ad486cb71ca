------------------------ MODULE LaunchAutostartProofs ------------------------
(***************************************************************************)
(* Theorems about LaunchAutostart: the node it drives keeps its promise    *)
(* because every step of the launch process, of the operator or of the     *)
(* node is one of ManagedNode.                                             *)
(***************************************************************************)
EXTENDS LaunchAutostart, TLAPS

Managed == INSTANCE ManagedNodeProofs

\* What ManagedNode and its theorems are instantiated with is one and the same.
LEMMA SameNode ==
  /\ Node!Init = Managed!Init
  /\ [Node!Next]_(Node!vars) = [Managed!Next]_(Managed!vars)
  /\ Node!Promise = Managed!Promise
  BY DEF Node!Init, Node!Next, Node!vars, Node!Promise, Node!Transitions, Node!Begin,
  Node!Offered, Node!During, Node!MakeArm, Node!Relink, Node!Serve, Node!StopServing,
  Node!Succeed, Node!Configured, Node!Activated, Node!Deactivated, Node!CleanedUp, Node!Fail,
  Node!ConfigureFailed, Node!ActivateFailed, Node!Recovered, Node!Exit, Node!Primary,
  Managed!Init, Managed!Next, Managed!vars, Managed!Promise, Managed!Transitions, Managed!Begin,
  Managed!Offered, Managed!During, Managed!MakeArm, Managed!Relink, Managed!Serve,
  Managed!StopServing, Managed!Succeed, Managed!Configured, Managed!Activated,
  Managed!Deactivated, Managed!CleanedUp, Managed!Fail, Managed!ConfigureFailed,
  Managed!ActivateFailed, Managed!Recovered, Managed!Exit, Managed!Primary

\* No step does to the node what a managed node would not do.
LEMMA NodeStep == TypeOK /\ [Next]_vars => [Node!Next]_(Node!vars)
<1> SUFFICES ASSUME TypeOK, [Next]_vars PROVE [Node!Next]_(Node!vars)
  OBVIOUS
<1>1. CASE OnProcessStart \/ OnStateTransition \/ OperatorAsks \/ Over \/ UNCHANGED vars
  BY <1>1 DEF OnProcessStart, OnStateTransition, OperatorAsks, Over, vars, node, Node!vars
<1>2. ASSUME NEW tr \in Transitions, Arrives(tr) PROVE [Node!Next]_(Node!vars)
  BY <1>2 DEF Arrives, node, Node!vars, Node!Next, Transitions, Node!Transitions
<1>3. CASE LaunchArrives
  BY <1>2, <1>3 DEF LaunchArrives, TypeOK, Transitions
<1>4. CASE OperatorArrives
  BY <1>2, <1>4 DEF OperatorArrives, TypeOK
<1>5. CASE MakeArm \/ Relink \/ Serve \/ StopServing \/ Ends \/ Exit
  BY <1>5 DEF MakeArm, Relink, Serve, StopServing, Ends, Exit, Node!Next
<1> QED
  BY <1>1, <1>3, <1>4, <1>5 DEF Next

-----------------------------------------------------------------------------
(* How many events and requests can be under way.                            *)

Tr == {"configure", "activate"}
One(b) == IF b THEN 1 ELSE 0

\* Each arrival in inactive, to come or not yet answered, is paid for by one request of the
\* operator's or by the start of the process.
Budget ==
  One(~ started) + asked["configure"] + asks + One(op # "none")
    + One(state \in {"configuring", "deactivating"}) + heard + asked["activate"]

Flags ==
  /\ Node!TypeOK
  /\ autostart \in BOOLEAN /\ started \in BOOLEAN
  /\ op \in Transitions \cup {"none"}
  /\ mishap \in BOOLEAN /\ lost \in BOOLEAN
Counters ==
  /\ heard \in Nat /\ asks \in Nat /\ asks <= MaxAsks
  /\ asked \in [Tr -> Nat]
  /\ Budget <= MaxAsks + 1

CountInv == Flags /\ Counters

LEMMA CountImpliesType == CountInv => TypeOK
<1> SUFFICES ASSUME CountInv PROVE TypeOK
  OBVIOUS
<1>1. One(~ started) \in Nat /\ One(op # "none") \in Nat
      /\ One(state \in {"configuring", "deactivating"}) \in Nat
  BY DEF One
<1>2. MaxAsks \in Nat /\ asked["configure"] \in Nat /\ asked["activate"] \in Nat
  BY MaxAsksAssumption DEF CountInv, Flags, Counters, Tr
<1>3. /\ heard \in 0 .. MaxAsks + 1
      /\ asked["configure"] \in 0 .. MaxAsks + 1
      /\ asked["activate"] \in 0 .. MaxAsks + 1
  BY <1>1, <1>2 DEF CountInv, Flags, Counters, Budget
<1>4. asked \in [Tr -> 0 .. MaxAsks + 1]
  BY <1>3 DEF CountInv, Flags, Counters, Tr
<1> QED
  BY <1>2, <1>3, <1>4 DEF CountInv, Flags, Counters, TypeOK, Tr

LEMMA CountInit == Init => CountInv
<1> SUFFICES ASSUME Init PROVE CountInv
  OBVIOUS
<1>1. Node!TypeOK /\ state = "unconfigured"
  BY DEF Init, Node!Init, Node!TypeOK, Node!Primary, Node!Passing
<1>2. asked["configure"] = 0 /\ asked["activate"] = 0 /\ asked \in [Tr -> Nat]
  BY DEF Init, Tr
<1>3. Budget <= MaxAsks + 1 /\ heard \in Nat /\ asks \in Nat /\ asks <= MaxAsks
  BY <1>1, <1>2, MaxAsksAssumption DEF Init, Budget, One
<1>4. autostart \in BOOLEAN /\ started \in BOOLEAN /\ mishap \in BOOLEAN /\ lost \in BOOLEAN
  BY DEF Init
<1> QED
  BY <1>1, <1>2, <1>3, <1>4 DEF Init, CountInv, Flags, Counters

\* The node's type, whoever asks for its transitions.
LEMMA NodeTypeStep == Node!TypeOK /\ [Node!Next]_(Node!vars) => Node!TypeOK'
<1> USE DEF Node!TypeOK, Node!Primary, Node!Passing
<1>1. ASSUME Node!TypeOK, NEW tr \in Node!Transitions, Node!Begin(tr) PROVE Node!TypeOK'
  BY <1>1 DEF Node!Begin, Node!Transitions, Node!During
<1>2. ASSUME Node!TypeOK, Node!MakeArm \/ Node!Relink \/ Node!Serve \/ Node!StopServing
      PROVE  Node!TypeOK'
  BY <1>2 DEF Node!MakeArm, Node!Relink, Node!Serve, Node!StopServing
<1>3. ASSUME Node!TypeOK, Node!Succeed \/ Node!Fail \/ Node!Recovered \/ Node!Exit
      PROVE  Node!TypeOK'
  BY <1>3 DEF Node!Succeed, Node!Configured, Node!Activated, Node!Deactivated, Node!CleanedUp,
  Node!Fail, Node!ConfigureFailed, Node!ActivateFailed, Node!Recovered, Node!Exit
<1>4. ASSUME Node!TypeOK, UNCHANGED Node!vars PROVE Node!TypeOK'
  BY <1>4 DEF Node!vars
<1> QED
  BY <1>1, <1>2, <1>3, <1>4 DEF Node!Next

LEMMA FlagsStep == CountInv /\ [Next]_vars => Flags'
<1> SUFFICES ASSUME CountInv, [Next]_vars PROVE Flags'
  OBVIOUS
<1>1. TypeOK
  BY CountImpliesType
<1>2. Node!TypeOK'
  BY <1>1, NodeStep, NodeTypeStep DEF CountInv, Flags
<1> USE DEF CountInv
<1>3. CASE OnProcessStart \/ OnStateTransition
  BY <1>2, <1>3 DEF Flags, OnProcessStart, OnStateTransition
<1>4. CASE OperatorAsks
  BY <1>2, <1>4 DEF Flags, OperatorAsks, launch
<1>5. CASE LaunchArrives
  BY <1>2, <1>5 DEF Flags, LaunchArrives, Arrives
<1>6. CASE OperatorArrives
  BY <1>2, <1>6 DEF Flags, OperatorArrives, Arrives
<1>7. CASE MakeArm \/ Relink \/ Serve \/ StopServing
  BY <1>2, <1>7 DEF Flags, MakeArm, Relink, Serve, StopServing, Unheard, launch
<1>8. CASE Ends
  BY <1>2, <1>8 DEF Flags, Ends, Hear
<1>9. CASE Exit
  BY <1>2, <1>9 DEF Flags, Exit, launch
<1>10. CASE Over \/ UNCHANGED vars
  BY <1>2, <1>10 DEF Flags, Over, vars, launch
<1> QED
  BY <1>3, <1>4, <1>5, <1>6, <1>7, <1>8, <1>9, <1>10 DEF Next

LEMMA CountOne == One(TRUE) = 1 /\ One(FALSE) = 0 /\ \A b \in BOOLEAN : One(b) \in {0, 1}
  BY DEF One

\* What the launch process asks for, before and after a request.
LEMMA AskedMore ==
  ASSUME asked \in [Tr -> Nat], NEW tr \in Tr, Emit(tr)
  PROVE  /\ asked' \in [Tr -> Nat]
         /\ asked'["configure"] \in {asked["configure"], asked["configure"] + 1}
         /\ asked'["activate"] \in {asked["activate"], asked["activate"] + 1}
         /\ tr = "configure" => asked'["activate"] = asked["activate"]
         /\ tr = "activate" => asked'["configure"] = asked["configure"]
  BY DEF Emit, Tr

LEMMA AskedLess ==
  ASSUME asked \in [Tr -> Nat], NEW tr \in Tr, asked[tr] > 0,
         asked' = [asked EXCEPT ![tr] = @ - 1]
  PROVE  /\ asked' \in [Tr -> Nat]
         /\ asked'[tr] = asked[tr] - 1
         /\ \A other \in Tr \ {tr} : asked'[other] = asked[other]
  BY DEF Tr

\* A request that arrives puts the node into the state of its callback, or leaves it alone.
LEMMA ArrivesState ==
  ASSUME NEW tr \in Transitions, Arrives(tr)
  PROVE  /\ state \in Primary
         /\ state' = state \/ (state' = Node!During(tr))
         /\ UNCHANGED <<started, heard, asks>>
  BY DEF Arrives, node, Node!Begin

\* How a step moves what Budget counts.
LEMMA CountersStep == CountInv /\ [Next]_vars => Counters'
<1> SUFFICES ASSUME CountInv, [Next]_vars PROVE Counters'
  OBVIOUS
<1>0. /\ asked \in [Tr -> Nat] /\ asked["configure"] \in Nat /\ asked["activate"] \in Nat
      /\ heard \in Nat /\ asks \in Nat /\ MaxAsks \in Nat
      /\ asks <= MaxAsks /\ Budget <= MaxAsks + 1
  BY MaxAsksAssumption DEF CountInv, Counters, Tr
<1> USE <1>0 DEF Counters, Budget
<1>1. CASE OnProcessStart
  <2>1. /\ asked' \in [Tr -> Nat] /\ asked'["activate"] = asked["activate"]
        /\ asked'["configure"] \in {asked["configure"], asked["configure"] + 1}
    BY <1>1, AskedMore DEF OnProcessStart, Tr
  <2>2. UNCHANGED <<heard, asks, op, state>> /\ started = FALSE /\ started' = TRUE
    BY <1>1 DEF OnProcessStart, node, CountInv, Flags
  <2> QED
    BY <2>1, <2>2 DEF One
<1>2. CASE OnStateTransition
  <2>1. /\ asked' \in [Tr -> Nat] /\ asked'["configure"] = asked["configure"]
        /\ asked'["activate"] \in {asked["activate"], asked["activate"] + 1}
    BY <1>2, AskedMore DEF OnStateTransition, Tr
  <2>2. UNCHANGED <<asks, op, state, started>> /\ heard > 0 /\ heard' = heard - 1
    BY <1>2 DEF OnStateTransition, node
  <2> QED
    BY <2>1, <2>2 DEF One
<1>3. ASSUME NEW tr \in Tr, asked[tr] > 0, asked' = [asked EXCEPT ![tr] = @ - 1],
             Arrives(tr), UNCHANGED op
      PROVE  Counters'
  <2>1. /\ state \in Primary /\ UNCHANGED <<started, heard, asks, op>>
        /\ state' = state \/ state' = Node!During(tr)
    BY <1>3, ArrivesState DEF Tr, Transitions
  <2>2. CASE tr = "configure"
    <3>1. asked' \in [Tr -> Nat] /\ asked'["configure"] = asked["configure"] - 1
          /\ asked'["activate"] = asked["activate"]
      BY <1>3, <2>2, AskedLess DEF Tr
    <3> QED
      BY <2>1, <3>1 DEF One, Primary
  <2>3. CASE tr = "activate"
    <3>1. asked' \in [Tr -> Nat] /\ asked'["activate"] = asked["activate"] - 1
          /\ asked'["configure"] = asked["configure"]
      BY <1>3, <2>3, AskedLess DEF Tr
    <3>2. state' = state \/ state' = "activating"
      BY <2>1, <2>3 DEF Node!During
    <3> QED
      BY <2>1, <3>1, <3>2 DEF One, Primary
  <2> QED
    BY <2>2, <2>3 DEF Tr
<1>4. CASE OperatorAsks
  <2>1. UNCHANGED <<asked, heard, state, started>> /\ op = "none" /\ asks > 0 /\ asks' = asks - 1
    BY <1>4 DEF OperatorAsks, node, launch
  <2> QED
    BY <2>1 DEF One
<1>5. CASE OperatorArrives
  <2>1. op \in Transitions /\ op # "none" /\ op' = "none" /\ UNCHANGED asked /\ Arrives(op)
    BY <1>5 DEF OperatorArrives, CountInv, Flags
  <2>2. state \in Primary /\ UNCHANGED <<started, heard, asks>>
    BY <2>1, ArrivesState
  <2> QED
    BY <2>1, <2>2 DEF One, Primary
<1>6. CASE MakeArm \/ Relink \/ Serve \/ StopServing
  BY <1>6 DEF One, MakeArm, Relink, Serve, StopServing, Unheard, launch, Node!MakeArm,
  Node!Relink, Node!Serve, Node!StopServing
<1>7. CASE Ends
  <2>1. /\ UNCHANGED <<started, asked, op, asks>> /\ Hear
        /\ state' = "inactive" => state \in {"configuring", "deactivating"}
        /\ state' \notin {"configuring", "deactivating"}
    BY <1>7 DEF Ends, Node!Succeed, Node!Configured, Node!Activated, Node!Deactivated,
    Node!CleanedUp, Node!Fail, Node!ConfigureFailed, Node!ActivateFailed, Node!Recovered
  <2>2. heard' = heard \/ (heard' = heard + 1 /\ state \in {"configuring", "deactivating"})
    BY <2>1 DEF Hear, GoalInactive
  <2> QED
    BY <2>1, <2>2 DEF One
<1>8. CASE Exit
  BY <1>8 DEF One, Exit, launch, Node!Exit
<1>9. CASE Over \/ UNCHANGED vars
  BY <1>9 DEF One, Over, vars, node, launch
<1> QED
  BY <1>1, <1>2, <1>3, <1>4, <1>5, <1>6, <1>7, <1>8, <1>9
  DEF Next, LaunchArrives, CountInv, Tr

LEMMA CountAlways == Spec => []CountInv
<1>1. CountInv /\ [Next]_vars => CountInv'
  BY FlagsStep, CountersStep DEF CountInv
<1> QED
  BY CountInit, <1>1, PTL DEF Spec

\* Type correctness: no more events and requests are under way than the process's start and
\* the operator's requests pay for (OnProcessStart, OnStateTransition).
THEOREM LaunchTypeCorrect == Spec => []TypeOK
  BY CountAlways, CountImpliesType, PTL

\* The node beside the launch file and an operator is a managed node, so it keeps the promise
\* every managed node keeps (change_state refuses what its state does not offer).
THEOREM LaunchedNodeKeepsPromise == Spec => []Promise
<1>1. TypeOK /\ [Next]_vars => [Managed!Next]_(Managed!vars)
  BY NodeStep, SameNode
<1>2. Init => Managed!PromiseInv
  BY SameNode, Managed!PromiseInit DEF Init
<1>3. Managed!PromiseInv => Promise
  BY SameNode, Managed!PromiseInvKeeps DEF Promise
<1> QED
  BY <1>1, <1>2, <1>3, Managed!PromiseStep, LaunchTypeCorrect, PTL DEF Spec

-----------------------------------------------------------------------------
(* autostart:=false.                                                         *)

NothingAsked == ~ autostart => \A tr \in Tr : asked[tr] = 0

LEMMA NothingAskedStep == CountInv /\ NothingAsked /\ [Next]_vars => NothingAsked'
<1> SUFFICES ASSUME CountInv, NothingAsked, [Next]_vars PROVE NothingAsked'
  OBVIOUS
<1> USE DEF NothingAsked, CountInv, Counters
<1>1. CASE OnProcessStart \/ OnStateTransition
  BY <1>1 DEF OnProcessStart, OnStateTransition, Emit
<1>2. CASE LaunchArrives
  BY <1>2 DEF LaunchArrives, Arrives, Tr
<1>3. CASE UNCHANGED <<autostart, asked>>
  BY <1>3
<1>4. CASE OperatorAsks \/ OperatorArrives \/ MakeArm \/ Relink \/ Serve \/ StopServing
  BY <1>3, <1>4 DEF OperatorAsks, OperatorArrives, Arrives, MakeArm, Relink, Serve, StopServing,
  Unheard, launch
<1>5. CASE Ends \/ Exit \/ Over \/ UNCHANGED vars
  BY <1>3, <1>5 DEF Ends, Exit, Over, vars, launch
<1> QED
  BY <1>1, <1>2, <1>4, <1>5 DEF Next

\* Of all steps only the arrival of a request leaves a primary state, and without autostart
\* every request is the operator's.
LEMMA ByHandStep ==
  CountInv /\ NothingAsked /\ [Next]_vars =>
    (~ autostart /\ state \in Primary /\ state' \in Passing =>
       op # "none" /\ state' = During(op) /\ op' = "none")
<1> SUFFICES ASSUME CountInv, NothingAsked, [Next]_vars, ~ autostart,
                    state \in Primary, state' \in Passing
             PROVE  op # "none" /\ state' = During(op) /\ op' = "none"
  OBVIOUS
<1>1. state' # state
  BY DEF Primary, Passing
<1>2. CASE OnProcessStart \/ OnStateTransition \/ OperatorAsks \/ Over \/ UNCHANGED vars
  BY <1>1, <1>2 DEF OnProcessStart, OnStateTransition, OperatorAsks, Over, vars, node
<1>3. CASE LaunchArrives
  BY <1>3, CountImpliesType DEF LaunchArrives, NothingAsked, Tr, TypeOK
<1>4. CASE OperatorArrives
  BY <1>1, <1>4 DEF OperatorArrives, Arrives, node, Node!Begin, Node!During, During
<1>5. CASE MakeArm \/ Relink \/ Serve \/ StopServing \/ Exit
  BY <1>1, <1>5 DEF MakeArm, Relink, Serve, StopServing, Exit, Node!MakeArm, Node!Relink,
  Node!Serve, Node!StopServing, Node!Exit
<1>6. CASE Ends
  BY <1>6 DEF Ends, Passing, Node!Succeed, Node!Configured, Node!Activated, Node!Deactivated,
  Node!CleanedUp, Node!Fail, Node!ConfigureFailed, Node!ActivateFailed, Node!Recovered, Primary
<1> QED
  BY <1>2, <1>3, <1>4, <1>5, <1>6 DEF Next

\* With autostart:=false the launch process never asks for a transition, whatever it hears
\* (both handlers emit under IfCondition(autostart)).
THEOREM LifecycleByHand == Spec => ByHand
<1>1. Init => NothingAsked
  BY DEF Init, NothingAsked, Tr
<1>2. CountInv /\ NothingAsked /\ [Next]_vars =>
        [~ autostart /\ state \in Primary /\ state' \in Passing =>
           op # "none" /\ state' = During(op) /\ op' = "none"]_vars
  BY ByHandStep
<1> QED
  BY <1>1, <1>2, NothingAskedStep, CountAlways, PTL DEF Spec, ByHand

-----------------------------------------------------------------------------
(* autostart:=true.                                                          *)

\* The transitions that only the operator asks for, and what comes of a failure.
ByOperator == {"deactivating", "cleaning_up", "shutting_down", "error_processing", "finalized"}

PendingInv ==
  /\ StartPending
  /\ asks = MaxAsks => op = "none"
  /\ asks = MaxAsks /\ ~ mishap => state \notin ByOperator

LEMMA PendingInit == Init => PendingInv
  BY DEF Init, Node!Init, PendingInv, StartPending, ByOperator

\* A step that takes nothing from what is under way and enters no state that waits for it.
LEMMA PendingKept ==
  ASSUME PendingInv, CountInv, UNCHANGED <<alive, state, autostart, started, op, asks, mishap, lost>>,
         heard' = heard, \A tr \in Tr : asked'[tr] = asked[tr]
  PROVE  PendingInv'
  BY DEF PendingInv, StartPending, Tr

LEMMA PendingStep == CountInv /\ PendingInv /\ [Next]_vars => PendingInv'
<1> SUFFICES ASSUME CountInv, PendingInv, [Next]_vars PROVE PendingInv'
  OBVIOUS
<1>0. asked \in [Tr -> Nat] /\ heard \in Nat /\ asks \in Nat /\ asks <= MaxAsks /\ MaxAsks \in Nat
  BY MaxAsksAssumption DEF CountInv, Counters
<1>1. CASE OnProcessStart
  <2>1. autostart => asked'["configure"] = asked["configure"] + 1 /\ asked'["activate"] = asked["activate"]
    BY <1>0, <1>1 DEF OnProcessStart, Emit, Tr
  <2>2. UNCHANGED <<alive, state, autostart, heard, op, asks, mishap, lost>>
    BY <1>1 DEF OnProcessStart, node
  <2> QED
    BY <1>0, <2>1, <2>2 DEF PendingInv, StartPending, Tr
<1>2. CASE OnStateTransition
  <2>1. autostart => asked'["activate"] = asked["activate"] + 1 /\ asked'["configure"] = asked["configure"]
    BY <1>0, <1>2 DEF OnStateTransition, Emit, Tr
  <2>2. UNCHANGED <<alive, state, autostart, started, op, asks, mishap, lost>>
    BY <1>2 DEF OnStateTransition, node
  <2> QED
    BY <1>0, <2>1, <2>2 DEF PendingInv, StartPending, Tr
\* The launch process's request is spent only where it does what it was for, or where nothing
\* waits for it.
<1>3. ASSUME NEW tr \in Tr, asked[tr] > 0, asked' = [asked EXCEPT ![tr] = @ - 1], Arrives(tr),
             UNCHANGED op
      PROVE  PendingInv'
  <2>1. UNCHANGED <<alive, autostart, started, heard, asks, mishap, lost>>
    BY <1>3 DEF Arrives, node, Node!Begin
  <2>2. CASE tr = "configure"
    <3>1. asked'["activate"] = asked["activate"]
      BY <1>0, <1>3, <2>2 DEF Tr
    <3>2. \/ state = "unconfigured" /\ state' = "configuring"
          \/ state # "unconfigured" /\ state' = state
      BY <1>3, <2>2 DEF Arrives, node, Offered, Node!Begin, Node!During
    <3> QED
      BY <1>3, <2>1, <3>1, <3>2 DEF PendingInv, StartPending, ByOperator
  <2>3. CASE tr = "activate"
    <3>1. asked'["configure"] = asked["configure"]
      BY <1>0, <1>3, <2>3 DEF Tr
    <3>2. \/ state = "inactive" /\ state' = "activating"
          \/ state # "inactive" /\ state' = state
      BY <1>3, <2>3 DEF Arrives, node, Offered, Node!Begin, Node!During
    <3> QED
      BY <1>3, <2>1, <3>1, <3>2 DEF PendingInv, StartPending, ByOperator
  <2> QED
    BY <2>2, <2>3 DEF Tr
<1>4. CASE OperatorAsks
  <2>1. asks' # MaxAsks /\ UNCHANGED <<alive, state, autostart, heard, asked, lost>>
    BY <1>0, <1>4 DEF OperatorAsks, node, launch
  <2> QED
    BY <2>1 DEF PendingInv, StartPending
<1>5. CASE OperatorArrives
  <2>1. /\ asks # MaxAsks /\ op \in Transitions /\ Arrives(op)
        /\ UNCHANGED <<alive, autostart, asks, heard, asked, lost>>
    BY <1>5 DEF OperatorArrives, Arrives, node, Node!Begin, PendingInv, CountInv, Flags
  <2>2. state' = "inactive" => state = "inactive"
    BY <2>1, ArrivesState DEF Node!During, Transitions
  <2> QED
    BY <2>1, <2>2 DEF PendingInv, StartPending
<1>6. CASE MakeArm \/ Relink \/ Serve \/ StopServing
  BY <1>6, PendingKept DEF MakeArm, Relink, Serve, StopServing, Unheard, launch, Node!MakeArm,
  Node!Relink, Node!Serve, Node!StopServing
\* Every way into inactive is heard of, or the event is lost.
<1>7. CASE Ends
  <2>1. UNCHANGED <<alive, autostart, started, asked, op, asks>> /\ Hear
    BY <1>7 DEF Ends, Node!Succeed, Node!Configured, Node!Activated, Node!Deactivated,
    Node!CleanedUp, Node!Fail, Node!ConfigureFailed, Node!ActivateFailed, Node!Recovered
  <2>2. state' = "inactive" => state # "inactive"
    BY <1>7 DEF Ends, Node!Succeed, Node!Configured, Node!Activated, Node!Deactivated,
    Node!CleanedUp, Node!Fail, Node!ConfigureFailed, Node!ActivateFailed, Node!Recovered
  <2>3. state' = "inactive" /\ ~ lost' => heard' > 0
    BY <1>0, <2>1, <2>2 DEF Hear, GoalInactive
  <2>4. state' \in {"unconfigured"} \cup ByOperator => state \in ByOperator \/ mishap'
    BY <1>7 DEF Ends, Node!Succeed, Node!Configured, Node!Activated, Node!Deactivated,
    Node!CleanedUp, Node!Fail, Node!ConfigureFailed, Node!ActivateFailed, Node!Recovered, ByOperator
  <2>5. mishap => mishap'
    BY <1>7 DEF Ends
  <2> QED
    BY <2>1, <2>3, <2>4, <2>5 DEF PendingInv, StartPending
<1>8. CASE Exit
  BY <1>8 DEF Exit, Node!Exit, PendingInv, StartPending
<1>9. CASE Over \/ UNCHANGED vars
  BY <1>9, PendingKept DEF Over, vars, node, launch
<1> QED
  BY <1>1, <1>2, <1>3, <1>4, <1>5, <1>6, <1>7, <1>8, <1>9 DEF Next, LaunchArrives, CountInv,
  Counters, Tr

\* An autostarted node never waits for nobody: until it is active, or an event is lost, an event
\* or a request that moves it on is under way, for any number of the operator's own requests
\* crossing the launch process's (the two event handlers and change_state).
THEOREM StartIsPending == Spec => []StartPending
<1>1. PendingInv => StartPending
  BY DEF PendingInv
<1> QED
  BY <1>1, PendingInit, PendingStep, CountAlways, PTL DEF Spec

=============================================================================
