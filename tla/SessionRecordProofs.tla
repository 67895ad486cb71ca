------------------------ MODULE SessionRecordProofs -------------------------
(***************************************************************************)
(* Theorems about SessionRecord.  Its invariants are inductive together:   *)
(* a session that is open is with the device at the cable (in TypeOK), so  *)
(* no cable, device or power can change under it without closing it.       *)
(***************************************************************************)
EXTENDS SessionRecord, TLAPS

Inv == TypeOK /\ LicenseKnown /\ SpeedTracksGovernor

LEMMA InvInit == Init => Inv
<1> SUFFICES ASSUME Init PROVE Inv
  OBVIOUS
<1>1. Full \in 0 .. 100
  BY DEF Full
<1>2. governor \in [Devices -> 0 .. 100] /\ speed \in 0 .. 100
  BY <1>1 DEF Init
<1>3. TypeOK
  BY <1>2, DeviceAssumption DEF Init, TypeOK
<1> QED
  BY <1>3 DEF Init, Inv, LicenseKnown, SpeedTracksGovernor

\* Every step keeps the types, and a session that is open with the device at the cable.
LEMMA TypeStep == TypeOK /\ [Next]_vars => TypeOK'
<1> SUFFICES ASSUME TypeOK, [Next]_vars PROVE TypeOK'
  OBVIOUS
<1> USE DeviceAssumption DEF TypeOK, device, session
<1>0. Full \in 0 .. 100
  BY DEF Full
<1>1. CASE Configure
  BY <1>0, <1>1 DEF Configure, Forget
<1>2. CASE ConfigureFails
  BY <1>0, <1>2 DEF ConfigureFails, Forget
<1>3. CASE Activate
  BY <1>3 DEF Activate
<1>4. CASE Deactivate
  BY <1>4 DEF Deactivate
<1>5. CASE Cleanup
  BY <1>5 DEF Cleanup
<1>6. ASSUME NEW p \in Percents, SetSpeed(p) PROVE TypeOK'
  <2>1. p \in 0 .. 100
    BY <1>6, SpeedAssumption DEF SetSpeed, CheckSpeedPercent
  <2> QED
    BY <1>6, <2>1 DEF SetSpeed
<1>7. ASSUME NEW p \in Percents, SetSpeedRefused(p) PROVE TypeOK'
  BY <1>7 DEF SetSpeedRefused, RecordedOnRefusal
<1>8. ASSUME NEW p \in Percents, SetSpeedUnanswered(p) PROVE TypeOK'
  <2>1. p \in 0 .. 100
    BY <1>8, SpeedAssumption DEF SetSpeedUnanswered, CheckSpeedPercent
  <2>2. governor' \in [Devices -> 0 .. 100]
    BY <1>8, <2>1 DEF SetSpeedUnanswered
  <2> QED
    BY <1>8, <2>2 DEF SetSpeedUnanswered
<1>9. CASE Reconnect
  BY <1>9 DEF Reconnect, RefreshLicense
<1>10. CASE ReconnectFails
  BY <1>10 DEF ReconnectFails
<1>11. CASE Unplug
  BY <1>11 DEF Unplug
<1>12. CASE ReadableChanges
  BY <1>12 DEF ReadableChanges
<1>13. ASSUME NEW d \in Devices, Plug(d) PROVE TypeOK'
  BY <1>13 DEF Plug
<1>14. ASSUME NEW d \in Devices, PowerCycle(d) PROVE TypeOK'
  BY <1>0, <1>14 DEF PowerCycle
<1>15. CASE UNCHANGED vars
  BY <1>15 DEF vars
<1> QED
  BY <1>1, <1>2, <1>3, <1>4, <1>5, <1>6, <1>7, <1>8, <1>9, <1>10, <1>11, <1>12, <1>13,
     <1>14, <1>15 DEF Next

\* A session opens with a licence just read, or with a reconnect that answers "failed".
LEMMA LicenseStep == TypeOK /\ LicenseKnown /\ [Next]_vars => LicenseKnown'
<1> SUFFICES ASSUME TypeOK, LicenseKnown, [Next]_vars PROVE LicenseKnown'
  OBVIOUS
<1> USE DEF LicenseKnown, device, session
<1>1. CASE Configure
  BY <1>1 DEF Configure
<1>2. CASE ConfigureFails \/ ReconnectFails \/ Cleanup \/ Unplug
  BY <1>2 DEF ConfigureFails, ReconnectFails, Cleanup, Unplug
<1>3. CASE Activate \/ Deactivate \/ ReadableChanges \/ UNCHANGED vars
  BY <1>3 DEF Activate, Deactivate, ReadableChanges, vars
<1>4. ASSUME NEW p \in Percents,
             SetSpeed(p) \/ SetSpeedRefused(p) \/ SetSpeedUnanswered(p)
      PROVE  LicenseKnown'
  BY <1>4 DEF SetSpeed, SetSpeedRefused, SetSpeedUnanswered
<1>5. CASE Reconnect
  BY <1>5 DEF Reconnect, RefreshLicense
<1>6. ASSUME NEW d \in Devices, Plug(d) \/ PowerCycle(d) PROVE LicenseKnown'
  BY <1>6 DEF Plug, PowerCycle
<1> QED
  BY <1>1, <1>2, <1>3, <1>4, <1>5, <1>6 DEF Next

\* Only an acknowledged write makes the record sure, and it is of the device in the session;
\* a power cycle of that device closes the session.
LEMMA SpeedStep == TypeOK /\ SpeedTracksGovernor /\ [Next]_vars => SpeedTracksGovernor'
<1> SUFFICES ASSUME TypeOK, SpeedTracksGovernor, [Next]_vars PROVE SpeedTracksGovernor'
  OBVIOUS
<1> USE DEF SpeedTracksGovernor, device, session
<1>1. CASE Configure \/ ConfigureFails
  BY <1>1 DEF Configure, ConfigureFails, Forget
<1>2. CASE Cleanup \/ Reconnect \/ ReconnectFails \/ Unplug
  BY <1>2 DEF Cleanup, Reconnect, ReconnectFails, Unplug
<1>3. CASE Activate \/ Deactivate \/ ReadableChanges \/ UNCHANGED vars
  BY <1>3 DEF Activate, Deactivate, ReadableChanges, vars
<1>4. ASSUME NEW p \in Percents, SetSpeed(p) PROVE SpeedTracksGovernor'
  BY <1>4 DEF SetSpeed, TypeOK
<1>5. ASSUME NEW p \in Percents, SetSpeedRefused(p) \/ SetSpeedUnanswered(p)
      PROVE  SpeedTracksGovernor'
  BY <1>5 DEF SetSpeedRefused, SetSpeedUnanswered, RecordedOnRefusal
<1>6. ASSUME NEW d \in Devices, Plug(d) PROVE SpeedTracksGovernor'
  BY <1>6 DEF Plug
<1>7. ASSUME NEW d \in Devices, PowerCycle(d) PROVE SpeedTracksGovernor'
  BY <1>7 DEF PowerCycle, TypeOK
<1> QED
  BY <1>1, <1>2, <1>3, <1>4, <1>5, <1>6, <1>7 DEF Next

LEMMA InvAlways == Spec => []Inv
<1>1. Inv /\ [Next]_vars => Inv'
  BY TypeStep, LicenseStep, SpeedStep DEF Inv
<1> QED
  BY InvInit, <1>1, PTL DEF Spec

\* Type correctness; a session that is open is with the device at the cable.
THEOREM SessionTypeCorrect == Spec => []TypeOK
  BY InvAlways, PTL DEF Inv

\* license_ is of the device that answers, unless a reconnect answered "failed" (reconnect
\* and refresh_license_record).
THEOREM LicenceOfPeer == Spec => []LicenseKnown
  BY InvAlways, PTL DEF Inv

\* speed_scaling_ is the governor's percentage as long as nothing put it in doubt
\* (handle_set_speed_scaling assigns after the SDK call, not before it).
THEOREM SpeedIsGovernors == Spec => []SpeedTracksGovernor
  BY InvAlways, PTL DEF Inv
=============================================================================
