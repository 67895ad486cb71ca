---------------------------- MODULE StatusReports -----------------------------
(***************************************************************************)
(* How a state frame reaches the two messages the driver publishes.        *)
(*                                                                         *)
(* The firmware pushes frames; the SDK's reader thread keeps the last one; *)
(* publish_status copies it to last_state_ and publishes from there, while *)
(* publish_diagnostics publishes last_state_ as it finds it.  A status     *)
(* timer step is split where the reader thread, and a transition, can run  *)
(* inside it.                                                              *)
(***************************************************************************)
EXTENDS Naturals, FiniteSets

CONSTANTS
  Devices,       \* the arms that may be plugged in
  NoDevice,      \* nothing is plugged in, or no session was opened
  StatusTimer    \* status_rate_hz > 0

ASSUME DeviceAssumption == NoDevice \notin Devices
ASSUME TimerAssumption  == StatusTimer \in BOOLEAN

VARIABLES
  plugged,       \* the device at the port
  fault,         \* the devices with a latched fault
  state,         \* the managed node's state
  peer,          \* the device of the SDK session
  open,          \* the session's link is up
  cache,         \* the SDK's cached frame: {} or one frame
  last,          \* last_state_, when have_state_: {} or one frame
  named,         \* the device whose axes joint_names_ lists (NoDevice: it is empty)
  seen,          \* the devices that answered connect() in this configuration
  building,      \* publish_status is between cached_state() and build_status()
  status,        \* what the last /status message said
  diagnostics    \* what the last /diagnostics message said

vars == <<plugged, fault, state, peer, open, cache, last, named, seen, building,
          status, diagnostics>>

Frames == [of : Devices, faulted : BOOLEAN]
FrameOf(d) == [of |-> d, faulted |-> d \in fault]
Silence == [frame |-> {}, connected |-> FALSE]

Init ==
  /\ plugged \in Devices
  /\ fault = {}
  /\ state = "unconfigured"
  /\ peer = NoDevice /\ open = FALSE
  /\ cache = {} /\ last = {} /\ named = NoDevice /\ seen = {}
  /\ building = FALSE
  /\ status = Silence /\ diagnostics = Silence

-----------------------------------------------------------------------------
(* The transitions, between two handlers.                                    *)

KeepsFrame == UNCHANGED last        \* mutant: have_state_ is not reset
Forget == last' = {}

\* joint_names_ was emptied by read_parameters, so the axes are named after this device.
\* Mutant: joint_names_ still holds the names of the last configuration.
NamesKept == named' = IF named = NoDevice THEN plugged ELSE named
NameAxes  == named' = plugged

Configure ==
  /\ state = "unconfigured" /\ ~ building
  /\ Forget
  /\ \/ /\ plugged # NoDevice                 \* connect()
        /\ peer' = plugged /\ open' = TRUE
        /\ cache' \in {{}, {FrameOf(plugged)}}
        /\ NameAxes
        /\ seen' = {plugged}
        /\ state' \in {"inactive", "unconfigured"}
     \/ /\ peer' = NoDevice /\ open' = FALSE  \* it threw
        /\ cache' = {} /\ named' = NoDevice /\ seen' = {}
        /\ UNCHANGED state
  /\ UNCHANGED <<plugged, fault, building, status, diagnostics>>

Activate ==
  /\ state = "inactive"
  /\ state' \in {"active", "unconfigured"}
  /\ UNCHANGED <<plugged, fault, peer, open, cache, last, named, seen, building,
                 status, diagnostics>>

Deactivate ==
  /\ state = "active"
  /\ state' = "inactive"
  /\ UNCHANGED <<plugged, fault, peer, open, cache, last, named, seen, building,
                 status, diagnostics>>

\* on_cleanup, and on_shutdown from any state; not under a handler, which is undefined
\* (NoCallOnDestroyedArm of DriverLifecycle).
Cleanup ==
  /\ ~ building
  /\ \/ state = "inactive" /\ state' = "unconfigured"
     \/ state # "finalized" /\ state' = "finalized"
  /\ peer' = NoDevice /\ open' = FALSE
  /\ Forget
  /\ cache' = {} /\ seen' = {}
  /\ UNCHANGED <<plugged, fault, named, building, status, diagnostics>>

-----------------------------------------------------------------------------
(* Timers and services.                                                      *)

\* cached_state(): the SDK's frame when it has one, what is remembered otherwise.
\* Mutants: the frame is not remembered; it is added to the one that was.
ForgetsFrame == UNCHANGED last
AddsFrame == last' = last \cup cache
CachedState == last' = IF cache # {} THEN cache ELSE last

ReadCached ==
  /\ state = "active" /\ StatusTimer
  /\ ~ building
  /\ CachedState
  /\ building' = TRUE
  /\ UNCHANGED <<plugged, fault, state, peer, open, cache, named, seen, status, diagnostics>>

PublishStatus ==
  /\ building
  /\ building' = FALSE
  /\ status' = [frame |-> last, connected |-> open]
  /\ UNCHANGED <<plugged, fault, state, peer, open, cache, last, named, seen, diagnostics>>

\* get_state() throws: the status is built from what is remembered.  Nothing is copied, so what
\* the reader thread and the transitions do meanwhile could as well come first.
PublishRemembered ==
  /\ state = "active" /\ StatusTimer
  /\ ~ building
  /\ status' = [frame |-> last, connected |-> open]
  /\ UNCHANGED <<plugged, fault, state, peer, open, cache, last, named, seen, building,
                 diagnostics>>

\* publish_diagnostics reads last_state_ and does not refresh it.
PublishDiagnostics ==
  /\ state = "active" /\ ~ building
  /\ diagnostics' = [frame |-> last, connected |-> open]
  /\ UNCHANGED <<plugged, fault, state, peer, open, cache, last, named, seen, building, status>>

\* handle_get_status: a frame asked for now or, with a timeout of 0 or less, the cached one.
GetStatus ==
  /\ state = "active" /\ ~ building
  /\ open
  /\ cache' = {FrameOf(peer)} \/ (cache # {} /\ UNCHANGED cache)
  /\ last' = cache'
  /\ UNCHANGED <<plugged, fault, state, peer, open, named, seen, building, status, diagnostics>>

\* handle_reconnect leaves last_state_ to the old device's last frame.
Reconnect ==
  /\ state = "active" /\ ~ building
  /\ \/ /\ plugged # NoDevice
        /\ peer' = plugged /\ open' = TRUE
        /\ cache' \in {{}, {FrameOf(plugged)}}
        /\ seen' = seen \cup {plugged}
     \/ /\ open' = FALSE /\ cache' = {}
        /\ UNCHANGED <<peer, seen>>
  /\ UNCHANGED <<plugged, fault, state, last, named, building, status, diagnostics>>

-----------------------------------------------------------------------------
(* The SDK's reader thread and the world.                                    *)

FrameArrives ==
  /\ open
  /\ cache' = {FrameOf(peer)}
  /\ UNCHANGED <<plugged, fault, state, peer, open, last, named, seen, building, status,
                 diagnostics>>

Unplug ==
  /\ plugged # NoDevice
  /\ plugged' = NoDevice
  /\ open' = FALSE
  /\ UNCHANGED <<fault, state, peer, cache, last, named, seen, building,
                 status, diagnostics>>

Plug(d) ==
  /\ plugged = NoDevice
  /\ plugged' = d
  /\ UNCHANGED <<fault, state, peer, open, cache, last, named, seen, building,
                 status, diagnostics>>

FaultChanges(d) ==
  /\ fault' = IF d \in fault THEN fault \ {d} ELSE fault \cup {d}
  /\ UNCHANGED <<plugged, state, peer, open, cache, last, named, seen, building,
                 status, diagnostics>>

Next ==
  \/ Configure \/ Activate \/ Deactivate \/ Cleanup
  \/ ReadCached \/ PublishStatus \/ PublishRemembered \/ PublishDiagnostics
  \/ GetStatus \/ Reconnect
  \/ FrameArrives \/ Unplug
  \/ \E d \in Devices : Plug(d) \/ FaultChanges(d)

Spec == Init /\ [][Next]_vars

\* The timers fire at their rates and the firmware pushes frames; no one is obliged to
\* call a service or a transition.  get_state() of a live session does not throw for ever.  The
\* diagnostics timer is ready between any two status publications, whose group it shares, and the
\* executor does not starve it.
Fairness ==
  /\ WF_vars(ReadCached) /\ WF_vars(PublishStatus)
  /\ SF_vars(PublishDiagnostics)
  /\ WF_vars(FrameArrives)
FairSpec == Spec /\ Fairness

-----------------------------------------------------------------------------
(* Properties.                                                               *)

NoneOrOne == {{}} \cup {{f} : f \in Frames}
Reports == [frame : NoneOrOne, connected : BOOLEAN]

TypeOK ==
  /\ plugged \in Devices \cup {NoDevice}
  /\ fault \subseteq Devices
  /\ state \in {"unconfigured", "inactive", "active", "finalized"}
  /\ peer \in Devices \cup {NoDevice}
  /\ open \in BOOLEAN /\ (open => peer = plugged /\ peer # NoDevice)
  /\ cache \in NoneOrOne /\ last \in NoneOrOne
  /\ named \in Devices \cup {NoDevice}
  /\ seen \subseteq Devices
  /\ building \in BOOLEAN
  /\ status \in Reports /\ diagnostics \in Reports

\* The driver never reports a frame of a device it met in an earlier configuration, over
\* failed configures, cleanups, reconnects and swapped devices.
OwnFrames == \A f \in cache \cup last : f.of \in seen

\* /status, and /joint_states with it, name the axes of the arm the values come from, however
\* many configurations, of whichever arms, came before; unless a reconnect met another arm.
JointsNamed ==
  [][PublishStatus \/ PublishRemembered =>
       \A f \in status'.frame : f.of = named \/ Cardinality(seen) > 1]_vars

\* When the active node's link, device and fault stop changing, /status and /diagnostics
\* both come to say so, although the second never asks the SDK.
Steady(d, b) == state = "active" /\ open /\ cache # {} /\ peer = d /\ ((d \in fault) <=> b)
Tells(message, d, b) == message.frame = {[of |-> d, faulted |-> b]} /\ message.connected
ReportsSettle ==
  \A d \in Devices, b \in BOOLEAN :
    <>[]Steady(d, b) => <>[](Tells(status, d, b) /\ Tells(diagnostics, d, b))

=============================================================================
