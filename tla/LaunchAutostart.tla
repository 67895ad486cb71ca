--------------------------- MODULE LaunchAutostart ---------------------------
(***************************************************************************)
(* litearm_driver.launch.py beside the managed node it starts, and an      *)
(* operator who calls the same change_state service.  The launch process   *)
(* knows the node only by the transition events it hears, and its requests *)
(* arrive when the node has moved on: one that the node's state does not   *)
(* offer by then is refused, which the launch process only logs.           *)
(***************************************************************************)
EXTENDS Naturals, NodeStates

CONSTANT MaxAsks      \* transitions the operator asks for, in all

ASSUME MaxAsksAssumption == MaxAsks \in Nat

VARIABLES
  alive, state, port, serving,    \* the node (ManagedNode)
  autostart,    \* the launch argument
  started,      \* the launch process has seen the node's process start
  heard,        \* "inactive" transition events not yet handled
  asked,        \* transitions the launch process has asked for and not yet got
  op,           \* the operator's request under way
  asks,         \* how many the operator still makes
  mishap,       \* a transition failed, or the node was stopped
  lost          \* a transition event did not reach the launch process

node   == <<alive, state, port, serving>>
launch == <<started, heard, asked>>
vars   == <<node, autostart, launch, op, asks, mishap, lost>>

Node == INSTANCE ManagedNode

Init ==
  /\ Node!Init
  /\ autostart \in BOOLEAN
  /\ started = FALSE
  /\ heard = 0
  /\ asked = [tr \in {"configure", "activate"} |-> 0]
  /\ op = "none" /\ asks = MaxAsks
  /\ mishap = FALSE /\ lost = FALSE

-----------------------------------------------------------------------------
(* The launch file's two event handlers.                                     *)

\* EmitEvent(ChangeState(tr)), under IfCondition(autostart).
EmitAlways(tr) == asked' = [asked EXCEPT ![tr] = @ + 1]          \* mutant: no condition
EmitUnless(tr) ==                                                \* mutant: UnlessCondition
  asked' = IF autostart THEN asked ELSE [asked EXCEPT ![tr] = @ + 1]
Emit(tr) == asked' = IF autostart THEN [asked EXCEPT ![tr] = @ + 1] ELSE asked

OnProcessStart ==
  /\ ~ started /\ started' = TRUE
  /\ Emit("configure")
  /\ UNCHANGED <<node, autostart, heard, op, asks, mishap, lost>>

OnStateTransition ==
  /\ heard > 0 /\ heard' = heard - 1
  /\ Emit("activate")
  /\ UNCHANGED <<node, autostart, started, op, asks, mishap, lost>>

-----------------------------------------------------------------------------
(* change_state: a request waits for the transition in progress, then begins *)
(* its own or is refused.                                                    *)

Arrives(tr) ==
  /\ alive /\ state \in Primary
  /\ IF state \in Offered(tr) THEN Node!Begin(tr) ELSE UNCHANGED node
  /\ UNCHANGED <<autostart, started, heard, asks, mishap, lost>>

LaunchArrives ==
  \E tr \in DOMAIN asked :
    /\ asked[tr] > 0
    /\ asked' = [asked EXCEPT ![tr] = @ - 1]
    /\ Arrives(tr) /\ UNCHANGED op

OperatorAsks ==
  /\ op = "none" /\ asks > 0
  /\ op' \in Transitions
  /\ asks' = asks - 1
  /\ UNCHANGED <<node, autostart, launch, mishap, lost>>

OperatorArrives ==
  /\ op # "none" /\ op' = "none"
  /\ Arrives(op) /\ UNCHANGED asked

-----------------------------------------------------------------------------
(* The node; it publishes an event whenever a transition ends.               *)

\* goal_state="inactive" and no start_state: the end of a deactivate counts as well.
GoalAfterConfigure == state = "configuring" /\ state' = "inactive"        \* mutant
GoalInactive       == state # "inactive" /\ state' = "inactive"

\* The event may come before the launch process has discovered the topic.
HearTwice ==                                                     \* mutant: registered twice
  /\ heard' = IF GoalInactive THEN heard + 2 ELSE heard
  /\ UNCHANGED lost
Hear ==
  IF GoalInactive
  THEN \/ heard' = heard + 1 /\ UNCHANGED lost
       \/ lost' = TRUE /\ UNCHANGED heard
  ELSE UNCHANGED <<heard, lost>>

Unheard     == UNCHANGED <<autostart, launch, op, asks, mishap, lost>>
MakeArm     == Node!MakeArm /\ Unheard
Relink      == Node!Relink /\ Unheard
Serve       == Node!Serve /\ Unheard
StopServing == Node!StopServing /\ Unheard

Ends ==
  /\ \/ (Node!Succeed \/ Node!Recovered) /\ UNCHANGED mishap
     \/ Node!Fail /\ mishap' = TRUE
  /\ Hear
  /\ UNCHANGED <<autostart, started, asked, op, asks>>

Exit ==
  /\ Node!Exit
  /\ mishap' = TRUE
  /\ UNCHANGED <<autostart, launch, op, asks, lost>>

Over == ~ alive /\ UNCHANGED vars

Next ==
  \/ OnProcessStart \/ OnStateTransition \/ LaunchArrives
  \/ OperatorAsks \/ OperatorArrives
  \/ MakeArm \/ Relink \/ Serve \/ StopServing \/ Ends \/ Exit
  \/ Over

Spec == Init /\ [][Next]_vars

\* Events and requests are delivered, and a transition ends (DriverLifecycle's
\* TransitionsEnd); nothing obliges the operator, and nothing says which way it ends.
Fairness ==
  /\ WF_vars(OnProcessStart) /\ WF_vars(OnStateTransition)
  /\ WF_vars(LaunchArrives)
  /\ WF_vars(MakeArm) /\ WF_vars(Serve) /\ WF_vars(StopServing) /\ WF_vars(Ends)

FairSpec == Spec /\ Fairness

-----------------------------------------------------------------------------
(* Properties.                                                               *)

TypeOK ==
  /\ Node!TypeOK
  /\ autostart \in BOOLEAN /\ started \in BOOLEAN
  /\ heard \in 0 .. MaxAsks + 1
  /\ asked \in [{"configure", "activate"} -> 0 .. MaxAsks + 1]
  /\ op \in Transitions \cup {"none"}
  /\ asks \in 0 .. MaxAsks
  /\ mishap \in BOOLEAN /\ lost \in BOOLEAN

\* What ManagedNode promises also holds when requests of two parties cross: an inactive or
\* active node has its Arm, an active one serves, a finalized or exited one freed the port.
Promise == Node!Promise

\* An autostarted node never waits for nobody.  While it is inactive, an event that the launch
\* process will answer or an activate it has sent is still on its way, whatever the operator's
\* requests crossed with; and before its configure, as long as the operator has left it alone,
\* the process's start or the configure is.
StartPending ==
  autostart /\ alive =>
    /\ state = "inactive" /\ ~ lost => heard > 0 \/ asked["activate"] > 0
    /\ state = "unconfigured" /\ ~ mishap /\ asks = MaxAsks =>
         ~ started \/ asked["configure"] > 0

\* autostart:=false leaves the lifecycle to the operator, also after transitions of the
\* operator's that the launch process hears of: none begins that was not asked for by hand.
ByHand == [][~ autostart /\ state \in Primary /\ state' \in Passing =>
             op # "none" /\ state' = During(op) /\ op' = "none"]_vars

\* "Start litearm_driver and bring it to the active state": it comes, unless the operator
\* interferes, a transition fails or an event is lost, and none of these is tried again.
Autostarts ==
  autostart => <>(state = "active" \/ mishap \/ lost \/ asks < MaxAsks)

\* An autostarted node does not rest inactive: every arrival there is answered by an activate,
\* the operator's deactivate, which is meant to stick, included.
NeverRests == autostart /\ state = "inactive" ~> state # "inactive" \/ ~ alive \/ lost
=============================================================================
