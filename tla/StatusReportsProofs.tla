------------------------ MODULE StatusReportsProofs -------------------------
(* Theorems about StatusReports. *)
EXTENDS StatusReports, FiniteSetTheorems, TLAPS

\* Every frame, session and name is of a device that answered in this configuration.
MetInv ==
  /\ OwnFrames
  /\ open => peer \in seen
  /\ state \in {"inactive", "active"} => seen # {}
  /\ seen # {} => named \in seen
  /\ IsFiniteSet(seen)

Inv == TypeOK /\ MetInv

LEMMA FrameOfType == ASSUME NEW d \in Devices PROVE FrameOf(d) \in Frames /\ FrameOf(d).of = d
  BY DEF FrameOf, Frames

LEMMA OneFrame == ASSUME NEW d \in Devices PROVE {FrameOf(d)} \in NoneOrOne
  BY FrameOfType DEF NoneOrOne

LEMMA NoFrame == {} \in NoneOrOne
  BY DEF NoneOrOne

LEMMA InvInit == Init => Inv
<1> SUFFICES ASSUME Init PROVE Inv
  OBVIOUS
<1>1. Silence \in Reports
  BY NoFrame DEF Silence, Reports
<1>2. TypeOK
  BY <1>1, NoFrame, DeviceAssumption DEF Init, TypeOK
<1>3. MetInv
  BY FS_EmptySet DEF Init, MetInv, OwnFrames
<1> QED
  BY <1>2, <1>3 DEF Inv

LEMMA TypeStep == TypeOK /\ [Next]_vars => TypeOK'
<1> SUFFICES ASSUME TypeOK, [Next]_vars PROVE TypeOK'
  OBVIOUS
<1> USE DeviceAssumption, NoFrame DEF TypeOK
<1>1. CASE Configure
  BY <1>1, OneFrame DEF Configure, Forget, NameAxes
<1>2. CASE Activate
  BY <1>2 DEF Activate
<1>3. CASE Deactivate
  BY <1>3 DEF Deactivate
<1>4. CASE Cleanup
  BY <1>4 DEF Cleanup, Forget
<1>5. CASE ReadCached
  BY <1>5 DEF ReadCached, CachedState
<1>6. CASE PublishStatus
  <2>1. status' \in Reports
    BY <1>6 DEF PublishStatus, Reports
  <2> QED
    BY <1>6, <2>1 DEF PublishStatus
<1>7. CASE PublishDiagnostics
  <2>1. diagnostics' \in Reports
    BY <1>7 DEF PublishDiagnostics, Reports
  <2> QED
    BY <1>7, <2>1 DEF PublishDiagnostics
<1>8. CASE GetStatus
  BY <1>8, OneFrame DEF GetStatus
<1>9. CASE Reconnect
  BY <1>9, OneFrame DEF Reconnect
<1>10. CASE FrameArrives
  BY <1>10, OneFrame DEF FrameArrives
<1>11. CASE Unplug
  BY <1>11 DEF Unplug
<1>12. ASSUME NEW d \in Devices, Plug(d) PROVE TypeOK'
  BY <1>12 DEF Plug
<1>13. ASSUME NEW d \in Devices, FaultChanges(d) PROVE TypeOK'
  BY <1>13 DEF FaultChanges
<1>14. CASE PublishRemembered
  <2>1. status' \in Reports
    BY <1>14 DEF PublishRemembered, Reports
  <2> QED
    BY <1>14, <2>1 DEF PublishRemembered
<1>15. CASE UNCHANGED vars
  BY <1>15 DEF vars
<1> QED
  BY <1>1, <1>2, <1>3, <1>4, <1>5, <1>6, <1>7, <1>8, <1>9, <1>10, <1>11, <1>12, <1>13,
     <1>14, <1>15 DEF Next

\* A frame comes into the cache or into last_state_ from the session only, and whoever opens
\* a session is met by it.
LEMMA MetStep == TypeOK /\ MetInv /\ [Next]_vars => MetInv'
<1> SUFFICES ASSUME TypeOK, MetInv, [Next]_vars PROVE MetInv'
  OBVIOUS
<1> USE DEF MetInv, OwnFrames
<1>1. CASE Configure
  <2>1. CASE /\ plugged # NoDevice
             /\ peer' = plugged /\ named' = plugged /\ seen' = {plugged}
             /\ cache' \in {{}, {FrameOf(plugged)}} /\ last' = {}
    <3>1. plugged \in Devices
      BY <2>1 DEF TypeOK
    <3>2. \A f \in cache' \cup last' : f.of \in seen'
      BY <2>1, <3>1, FrameOfType
    <3>3. IsFiniteSet(seen')
      BY <2>1, FS_Singleton
    <3> QED
      BY <2>1, <3>2, <3>3
  <2>2. CASE /\ open' = FALSE /\ seen' = {} /\ cache' = {} /\ last' = {}
             /\ state' = state /\ state = "unconfigured"
    BY <2>2, FS_EmptySet
  <2> QED
    BY <1>1, <2>1, <2>2 DEF Configure, Forget, NameAxes
<1>2. CASE Activate \/ Deactivate
  BY <1>2 DEF Activate, Deactivate
<1>3. CASE Cleanup
  BY <1>3, FS_EmptySet DEF Cleanup, Forget
<1>4. CASE ReadCached
  BY <1>4 DEF ReadCached, CachedState
<1>5. CASE PublishStatus \/ PublishRemembered \/ PublishDiagnostics
  BY <1>5 DEF PublishStatus, PublishRemembered, PublishDiagnostics
<1>6. CASE GetStatus \/ FrameArrives
  BY <1>6, FrameOfType DEF GetStatus, FrameArrives, TypeOK
<1>7. CASE Reconnect
  <2>1. CASE /\ plugged # NoDevice
             /\ peer' = plugged /\ seen' = seen \cup {plugged}
             /\ cache' \in {{}, {FrameOf(plugged)}}
    <3>1. plugged \in Devices
      BY <2>1 DEF TypeOK
    <3>2. \A f \in cache' \cup last : f.of \in seen'
      BY <2>1, <3>1, FrameOfType
    <3>3. IsFiniteSet(seen')
      BY <2>1, FS_AddElement
    <3> QED
      BY <1>7, <2>1, <3>2, <3>3 DEF Reconnect
  <2>2. CASE open' = FALSE /\ cache' = {} /\ UNCHANGED seen
    BY <1>7, <2>2 DEF Reconnect
  <2> QED
    BY <1>7, <2>1, <2>2 DEF Reconnect
<1>8. CASE Unplug
  BY <1>8 DEF Unplug
<1>9. ASSUME NEW d \in Devices, Plug(d) \/ FaultChanges(d) PROVE MetInv'
  BY <1>9 DEF Plug, FaultChanges
<1>10. CASE UNCHANGED vars
  BY <1>10 DEF vars
<1> QED
  BY <1>1, <1>2, <1>3, <1>4, <1>5, <1>6, <1>7, <1>8, <1>9, <1>10 DEF Next

LEMMA InvAlways == Spec => []Inv
<1>1. Inv /\ [Next]_vars => Inv'
  BY TypeStep, MetStep DEF Inv
<1> QED
  BY InvInit, <1>1, PTL DEF Spec

\* Type correctness: no more than one frame is ever remembered.
THEOREM ReportsTypeCorrect == Spec => []TypeOK
  BY InvAlways, PTL DEF Inv

\* No frame of a device met in an earlier configuration is reported (last_state_ is reset by
\* on_configure and on_cleanup).
THEOREM FramesAreOwn == Spec => []OwnFrames
  BY InvAlways, PTL DEF Inv, MetInv

\* The axes are named after the arm that reports, when no reconnect met another
\* (on_configure fills joint_names_, which read_parameters emptied).
THEOREM NamesAreOwn == Spec => JointsNamed
<1>1. ASSUME Inv, PublishStatus \/ PublishRemembered,
             NEW f \in status'.frame, f.of # named
      PROVE  Cardinality(seen) > 1
  <2>1. f.of \in seen /\ named \in seen
    BY <1>1 DEF PublishStatus, PublishRemembered, Inv, MetInv, OwnFrames
  <2>2. Cardinality(seen) \in Nat /\ Cardinality(seen) # 0 /\ Cardinality(seen) # 1
    BY <1>1, <2>1, FS_CardinalityType, FS_EmptySet, FS_Singleton DEF Inv, MetInv
  <2> QED
    BY <2>2
<1>2. Inv => [PublishStatus \/ PublishRemembered =>
                \A f \in status'.frame : f.of = named \/ Cardinality(seen) > 1]_vars
  BY <1>1
<1> QED
  BY InvAlways, <1>2, PTL DEF JointsNamed
=============================================================================
