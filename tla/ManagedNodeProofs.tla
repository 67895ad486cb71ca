-------------------------- MODULE ManagedNodeProofs --------------------------
(* Theorems about ManagedNode: what follows of it for every implementation. *)
EXTENDS ManagedNode, TLAPS

\* The Promise, with the states on the way: an Arm is held from configure to cleanup, a node
\* that exited is in a primary state with nothing left, and keeps none of a finalized one's.
PromiseInv ==
  /\ TypeOK
  /\ alive \/ (state \in Primary /\ port = "none")
  /\ alive /\ state \in {"inactive", "activating", "active", "deactivating"} => port # "none"
  /\ alive /\ state = "active" => serving
  /\ state = "finalized" => port = "none"

LEMMA PromiseStep == PromiseInv /\ [Next]_vars => PromiseInv'
<1> SUFFICES ASSUME PromiseInv, [Next]_vars PROVE PromiseInv'
  OBVIOUS
<1> USE DEF PromiseInv, TypeOK, Primary, Passing
<1>1. ASSUME NEW tr \in Transitions, Begin(tr) PROVE PromiseInv'
  BY <1>1 DEF Begin, Transitions, Offered, During
<1>2. CASE MakeArm \/ Relink \/ Serve \/ StopServing
  BY <1>2 DEF MakeArm, Relink, Serve, StopServing
<1>3. CASE Succeed
  BY <1>3 DEF Succeed, Configured, Activated, Deactivated, CleanedUp
<1>4. CASE Fail \/ Recovered
  BY <1>4 DEF Fail, ConfigureFailed, ActivateFailed, Recovered
<1>5. CASE Exit
  BY <1>5 DEF Exit
<1>6. CASE UNCHANGED vars
  BY <1>6 DEF vars
<1> QED
  BY <1>1, <1>2, <1>3, <1>4, <1>5, <1>6 DEF Next

LEMMA PromiseInit == Init => PromiseInv
  BY DEF Init, PromiseInv, TypeOK, Primary, Passing

LEMMA PromiseInvKeeps == PromiseInv => Promise
  BY DEF PromiseInv, Promise

\* An inactive or active node has an Arm, an active one serves, and a finalized or exited one
\* has let go of the port (on_configure to on_shutdown, main).
THEOREM PromiseKept == Spec => []Promise
  BY PromiseInit, PromiseStep, PromiseInvKeeps, PTL DEF Spec
=============================================================================
