---------------------------- MODULE SessionRecord -----------------------------
(***************************************************************************)
(* What the driver remembers of the arm it opened and never reads back:    *)
(* the licence record and the speed percentage it wrote.                   *)
(*                                                                         *)
(* The arm behind the port changes under the driver: a cable is pulled,    *)
(* another device answers, a power cycle resets the speed governor.        *)
(* Handlers share sdk_group_, and the transitions are taken here between   *)
(* them (DriverLifecycle has the overlaps).                                *)
(***************************************************************************)
EXTENDS Naturals

CONSTANTS
  Devices,       \* the arms that may be plugged in
  NoDevice,      \* nothing is plugged in, or no session was opened
  Percents       \* percentages clients send, a uint8

Full == 100      \* the governor after a power cycle, and what on_configure assumes

ASSUME DeviceAssumption == NoDevice \notin Devices
ASSUME SpeedAssumption  == Percents \subseteq 0 .. 255

VARIABLES
  plugged,       \* the device at the port
  governor,      \* each device's speed governor
  readable,      \* the firmware answers a licence read
  state,         \* the managed node's state
  peer,          \* the device of the SDK session
  open,          \* the session's link is up
  license,       \* license_, when license_valid_: {} or the device it is of
  speed,         \* speed_scaling_
  sure,          \* nothing since it was last acknowledged could have moved the governor
  reply          \* the last reconnect's answer in this configuration

device == <<plugged, governor, readable>>
session == <<state, peer, open>>
vars == <<device, session, license, speed, sure, reply>>

Init ==
  /\ plugged \in Devices
  /\ governor \in [Devices -> (Percents \cap 0 .. 100) \cup {Full}]
  /\ readable \in BOOLEAN
  /\ state = "unconfigured"
  /\ peer = NoDevice /\ open = FALSE
  /\ license = {}
  /\ speed = Full
  /\ sure = FALSE
  /\ reply = "none"

-----------------------------------------------------------------------------
(* The transitions.                                                          *)

\* on_configure resets the record before anything can fail.
Forget ==
  /\ speed' = Full
  /\ sure' = FALSE
  /\ reply' = "none"
  /\ UNCHANGED device

\* A licence that cannot be read is only a warning.  A throw while the publishers are made
\* leaves the node unconfigured with the session open.
Configure ==
  /\ state = "unconfigured"
  /\ plugged # NoDevice
  /\ Forget
  /\ peer' = plugged /\ open' = TRUE
  /\ license' = IF readable THEN {plugged} ELSE {}
  /\ state' \in {"inactive", "unconfigured"}

\* connect() threw: no session.
ConfigureFails ==
  /\ state = "unconfigured"
  /\ Forget
  /\ peer' = NoDevice /\ open' = FALSE
  /\ license' = {}
  /\ UNCHANGED state

\* A refused ENABLE goes through on_error, which leaves the session and the record alone.
Activate ==
  /\ state = "inactive"
  /\ state' \in {"active", "unconfigured"}
  /\ UNCHANGED <<device, peer, open, license, speed, sure, reply>>

Deactivate ==
  /\ state = "active"
  /\ state' = "inactive"
  /\ UNCHANGED <<device, peer, open, license, speed, sure, reply>>

\* on_cleanup, and on_shutdown from any state.
Cleanup ==
  /\ \/ state = "inactive" /\ state' = "unconfigured"
     \/ state # "finalized" /\ state' = "finalized"
  /\ peer' = NoDevice /\ open' = FALSE
  /\ license' = {}
  /\ UNCHANGED <<device, speed, sure, reply>>

-----------------------------------------------------------------------------
(* Services, of an active node.                                              *)

\* Mutant: the gate lets every byte through.
CheckNothing(p) == TRUE
CheckSpeedPercent(p) == p >= 0 /\ p <= 100

\* Mutant: speed_scaling_ is assigned before the SDK call, which then throws.
RecordedBeforeCall(p) == p
RecordedOnRefusal(p) == speed

\* set_speed_scaling: acknowledged; refused by its gates or by the firmware; or not
\* answered, in which case the firmware may have taken it.
SetSpeed(p) ==
  /\ state = "active" /\ open
  /\ CheckSpeedPercent(p)
  /\ governor' = [governor EXCEPT ![peer] = p]
  /\ speed' = p /\ sure' = TRUE
  /\ UNCHANGED <<plugged, readable, session, license, reply>>

SetSpeedRefused(p) ==
  /\ state = "active"
  /\ speed' = RecordedOnRefusal(p)
  /\ UNCHANGED <<device, session, license, sure, reply>>

SetSpeedUnanswered(p) ==
  /\ state = "active" /\ open
  /\ CheckSpeedPercent(p)
  /\ governor' \in {governor, [governor EXCEPT ![peer] = p]}
  /\ sure' = FALSE
  /\ UNCHANGED <<plugged, readable, session, license, speed, reply>>

\* Mutant: the licence is not read again.
KeepLicense == UNCHANGED license
RefreshLicense == license' = IF readable THEN {plugged} ELSE license

\* handle_reconnect: close() and connect(), then the licence; a throw of either is
\* "reconnect failed".
Reconnect ==
  /\ state = "active"
  /\ plugged # NoDevice
  /\ peer' = plugged /\ open' = TRUE
  /\ RefreshLicense
  /\ reply' = IF readable THEN "ok" ELSE "failed"
  /\ sure' = FALSE
  /\ UNCHANGED <<device, state, speed>>

ReconnectFails ==
  /\ state = "active"
  /\ open' = FALSE
  /\ reply' = "failed"
  /\ sure' = FALSE
  /\ UNCHANGED <<device, state, peer, license, speed>>

-----------------------------------------------------------------------------
(* The world.                                                                *)

Unplug ==
  /\ plugged # NoDevice
  /\ plugged' = NoDevice
  /\ open' = FALSE
  /\ UNCHANGED <<governor, readable, state, peer, license, speed, sure, reply>>

Plug(d) ==
  /\ plugged = NoDevice
  /\ plugged' = d
  /\ UNCHANGED <<governor, readable, session, license, speed, sure, reply>>

ReadableChanges ==
  /\ readable' = ~ readable
  /\ UNCHANGED <<plugged, governor, session, license, speed, sure, reply>>

PowerCycle(d) ==
  /\ governor' = [governor EXCEPT ![d] = Full]
  /\ open' = (open /\ plugged # d)
  /\ sure' = (sure /\ peer # d)
  /\ UNCHANGED <<plugged, readable, state, peer, license, speed, reply>>

Next ==
  \/ Configure \/ ConfigureFails \/ Activate \/ Deactivate \/ Cleanup
  \/ \E p \in Percents : SetSpeed(p) \/ SetSpeedRefused(p) \/ SetSpeedUnanswered(p)
  \/ Reconnect \/ ReconnectFails
  \/ Unplug \/ ReadableChanges
  \/ \E d \in Devices : Plug(d) \/ PowerCycle(d)

Spec == Init /\ [][Next]_vars

-----------------------------------------------------------------------------
(* Properties.                                                               *)

TypeOK ==
  /\ plugged \in Devices \cup {NoDevice}
  /\ governor \in [Devices -> 0 .. 100]
  /\ readable \in BOOLEAN
  /\ state \in {"unconfigured", "inactive", "active", "finalized"}
  /\ peer \in Devices \cup {NoDevice}
  /\ open \in BOOLEAN /\ (open => peer = plugged /\ peer # NoDevice)
  /\ license \subseteq Devices
  /\ speed \in 0 .. 100
  /\ sure \in BOOLEAN
  /\ reply \in {"none", "ok", "failed"}

\* The licence the status message reports is that of the device the session talks to, over
\* unplugged cables, swapped devices, failed transitions and reconnects, unless a reconnect
\* answered that it failed.
LicenseKnown == open /\ reply # "failed" => license \subseteq {peer}

\* speed_scaling_ is what the device's governor is set to, from an acknowledged
\* set_speed_scaling until an unanswered one, a reconnect, a power cycle or a configure puts
\* it in doubt: a refused one does not.
SpeedTracksGovernor == open /\ sure => governor[peer] = speed
=============================================================================
