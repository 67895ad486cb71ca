----------------------------- MODULE ManagedNode -----------------------------
(***************************************************************************)
(* What the operator of the driver, a launch file or another process that  *)
(* wants the arm may count on: which transitions the node goes through,    *)
(* when it holds an Arm and its port, and when it offers services.  How    *)
(* threads, handlers and errors bring it about is DriverLifecycle's, which *)
(* implements this specification.                                          *)
(***************************************************************************)
EXTENDS NodeStates

VARIABLES
  alive,        \* the process has not exited
  state,        \* the managed node's state
  port,         \* "none" (no Arm), "closed" (an Arm without a link) or "open"
  serving       \* the services are advertised

vars == <<alive, state, port, serving>>

Init ==
  /\ alive = TRUE
  /\ state = "unconfigured"
  /\ port = "none"
  /\ serving = FALSE

-----------------------------------------------------------------------------
Begin(tr) ==
  /\ alive
  /\ state \in Offered(tr)
  /\ state' = During(tr)
  /\ UNCHANGED <<alive, port, serving>>

\* configure makes a new Arm, whatever an earlier one left behind.
MakeArm ==
  /\ state = "configuring"
  /\ port' = "closed"
  /\ UNCHANGED <<alive, state, serving>>

\* The link of an existing Arm comes and goes: connect, reconnect, close, a pulled cable.
Relink ==
  /\ port # "none"
  /\ port' \in {"closed", "open"}
  /\ UNCHANGED <<alive, state, serving>>

Serve ==
  /\ state = "activating"
  /\ port # "none"
  /\ serving' = TRUE
  /\ UNCHANGED <<alive, state, port>>

StopServing ==
  /\ state \in {"deactivating", "cleaning_up", "shutting_down"}
  /\ serving' = FALSE
  /\ UNCHANGED <<alive, state, port>>

\* A transition that succeeds.
Configured ==
  /\ state = "configuring" /\ state' = "inactive"
  /\ port # "none"
  /\ UNCHANGED <<alive, port, serving>>
Activated ==
  /\ state = "activating" /\ state' = "active"
  /\ serving /\ port # "none"
  /\ UNCHANGED <<alive, port, serving>>
Deactivated ==
  /\ state = "deactivating" /\ state' = "inactive"
  /\ ~ serving
  /\ UNCHANGED <<alive, port, serving>>
CleanedUpKeepsArm ==               \* mutant
  /\ \/ state = "cleaning_up" /\ state' = "unconfigured"
     \/ state = "shutting_down" /\ state' = "finalized"
  /\ UNCHANGED <<alive, port, serving>>
CleanedUp ==
  /\ \/ state = "cleaning_up" /\ state' = "unconfigured"
     \/ state = "shutting_down" /\ state' = "finalized"
  /\ ~ serving
  /\ port' = "none"
  /\ UNCHANGED <<alive, serving>>

\* Only configure and activate fail.  A failed configure may keep its Arm.
ConfigureFailed ==
  /\ state = "configuring" /\ state' = "error_processing"
  /\ port' \in {port, "none"}
  /\ UNCHANGED <<alive, serving>>
ActivateFailed ==
  /\ state = "activating" /\ state' = "error_processing"
  /\ UNCHANGED <<alive, port, serving>>
Recovered ==
  /\ state = "error_processing" /\ state' = "unconfigured"
  /\ UNCHANGED <<alive, port, serving>>

\* Ctrl-C lets a transition in progress end first.
Exit ==
  /\ alive /\ alive' = FALSE
  /\ state \in Primary
  /\ port' = "none" /\ serving' = FALSE
  /\ UNCHANGED state

Succeed == Configured \/ Activated \/ Deactivated \/ CleanedUp
Fail    == ConfigureFailed \/ ActivateFailed

Next ==
  \/ \E tr \in Transitions : Begin(tr)
  \/ MakeArm \/ Relink \/ Serve \/ StopServing
  \/ Succeed \/ Fail \/ Recovered
  \/ Exit

Spec == Init /\ [][Next]_vars

-----------------------------------------------------------------------------
TypeOK ==
  /\ alive \in BOOLEAN
  /\ state \in Primary \cup Passing
  /\ port \in {"none", "closed", "open"}
  /\ serving \in BOOLEAN

\* An inactive or active node has an Arm, an active one serves, and a finalized or exited one
\* has let go of the port.
Promise ==
  /\ alive /\ state \in {"inactive", "active"} => port # "none"
  /\ alive /\ state = "active" => serving
  /\ ~ alive \/ state = "finalized" => port = "none"
=============================================================================
