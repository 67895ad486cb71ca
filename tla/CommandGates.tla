---------------------------- MODULE CommandGates ----------------------------
(***************************************************************************)
(* One service call at a time on its way through the driver: the gates of  *)
(* its handler, the test of the link, the frame on the wire, the answer.   *)
(* Beside it, in the default callback group, parameters are set and the    *)
(* node is configured anew; the cable is pulled and devices are swapped.   *)
(*                                                                         *)
(* Numbers are in the unit that makes them whole: a speed in percent of    *)
(* full speed, the keep-alive period in milliseconds, a mass in kg.        *)
(***************************************************************************)
EXTENDS Integers, Sequences

CONSTANTS
  Axes,         \* axis count of each device: a function on the devices
  NotFinite,    \* a NaN or an infinity
  Requests,     \* the requests clients make
  Params,       \* the parameter values `ros2 param set` may install
  SdkTimeout    \* what a call waits for an answer when its caller names no time

Motion == {"move_j", "move_j_sync", "move_p", "move_js", "send_mit", "send_mit_all", "home",
           "move_l", "move_c", "move_path"}
JointTable == {"get_joint_params", "set_joint_gains", "set_joint_limits"}
Waits == {"inverse_kinematics", "kin_bench", "log_dump"}
ZeroGOn == "zero_g_on"          \* zero_g with data=true

GetStatus == "get_status"       \* passes its client's timeout on as it is

\* The services without a gate of their own.
Commands      == {"enable", "disable", "reset", "clear_faults", "emergency_stop", "park"}
FirmwareReads == {"get_feedforward_vector", "get_feedforward_mask"}
SessionReads  == {"get_tcp", "get_diagnostics"}
Ungated == Commands \cup FirmwareReads \cup SessionReads \cup
           {"zero_g_off", "set_motion_mode", "set_feedforward_mask", "set_feedforward_scalar",
            "get_feedforward_scalar", "poll_cart", "log_stop", "reconnect", GetStatus}
Gated == {"inverse_kinematics", "kin_bench", "log_start", "log_dump", "enter_dfu",
          "set_payload", "set_feedforward_preset", "set_feedforward_vector",
          "set_gravity_scale", "set_inertia_scale", "set_gravity_vector", ZeroGOn}
Services == Motion \cup JointTable \cup Gated \cup Ungated

Devices == DOMAIN Axes
Number  == Int \cup {NotFinite}
Vector  == [len : Nat, finite : BOOLEAN]

\* A request: its array fields in the order of the message, its number (a speed, mass,
\* preset, timeout or tick count), its axis index, and the kind of its file name.
Request == [svc : Services, vectors : Seq(Vector), number : Number, index : Int,
            name : {"plain", "path", "empty"}]

\* What the message types fix: how many arrays there are, and which number is an integer.
Arrays(s) == CASE s \in {"move_js", "move_c"} -> 3
               [] s = "send_mit_all" -> 5
               [] s = "inverse_kinematics" -> 2
               [] s \in {"move_j", "move_j_sync", "move_p", "move_l", "move_path", "send_mit",
                         "set_payload", "set_feedforward_vector", "set_gravity_scale",
                         "set_inertia_scale", "set_gravity_vector", "set_joint_gains",
                         "set_joint_limits"} -> 1
               [] OTHER -> 0
Counts == {"set_feedforward_preset", "log_start"}

ParamSet == [allow_motion : BOOLEAN, allow_dfu : BOOLEAN, period : Number]

ASSUME AxesAssumption    == \A d \in Devices : Axes[d] \in Nat
ASSUME FiniteAssumption  == NotFinite \notin Int
ASSUME RequestAssumption ==
  \A r \in Requests : /\ r \in Request
                      /\ Len(r.vectors) = Arrays(r.svc)
                      /\ r.svc \in Counts => r.number \in Int
ASSUME ParamAssumption   == Params \subseteq ParamSet /\ Params # {}
ASSUME TimeoutAssumption == SdkTimeout \in Nat \ {0}

Stop == [svc |-> "emergency_stop", vectors |-> <<>>, number |-> 0, index |-> 0,
         name |-> "empty"]
Idle == [req |-> Stop, at |-> "idle", value |-> 0, wait |-> SdkTimeout, overtaken |-> FALSE]

VARIABLES
  param,        \* the parameters as declared on the node, read at call time
  joints,       \* joint_count(): the axes of the device the node was configured with
  session,      \* the device of the SDK's last handshake, whose axes arm_->n() counts
  link,         \* arm_->is_connected()
  call,         \* the call in progress, the value it passes on and what it waits at most
  late,         \* frames sent with their opt-in switch off since the last parameter change
  stop,         \* an emergency_stop request waits for its handler
  quiet         \* the other clients and the operator have stopped calling for good

vars == <<param, joints, session, link, call, late, stop, quiet>>

Init ==
  /\ param \in Params
  /\ session \in Devices
  /\ joints = Axes[session]
  /\ link = TRUE
  /\ call = Idle
  /\ late = 0
  /\ stop = FALSE
  /\ quiet = FALSE

-----------------------------------------------------------------------------
(* The gates.                                                                *)

CheckFfPreset(n)      == 0 <= n /\ n <= 2
CheckZeroGPeriod(p)   == p # NotFinite /\ p >= 5 /\ p < 100
CheckJointIndex(i, n) == n > 0 /\ 0 <= i /\ i < n
CheckMass(m)          == m # NotFinite /\ 0 <= m /\ m <= 20
CheckCom(v)           == v.finite
CheckFfValues(v)      == v.len > 0 /\ v.finite
CheckSpeedFraction(s) == s # NotFinite /\ 0 < s /\ s <= 100
CheckLogFilename(f)   == f = "plain"
CheckTimeoutSign(t)   == t = NotFinite \/ t >= 0     \* mutant: infinity is a long time
CheckTimeout(t)       == t # NotFinite /\ t >= 0
\* An expected length of 0 stands for "any".
CheckFiniteValues(v, expected) == v.len > 0 /\ (expected > 0 => v.len = expected) /\ v.finite
CheckFinitePose(v)    == CheckFiniteValues(v, 6)
CheckFiniteVector3(v) == CheckFiniteValues(v, 3)

-----------------------------------------------------------------------------
(* What each handler checks before run_command.                              *)

RequireMotionAllowed == param.allow_motion

MoveJ(r) == /\ RequireMotionAllowed
            /\ CheckFiniteValues(r.vectors[1], joints)
            /\ CheckSpeedFraction(r.number)
MoveP(r) == /\ RequireMotionAllowed
            /\ CheckFinitePose(r.vectors[1])
            /\ CheckSpeedFraction(r.number)
MoveL(r) == MoveP(r)
\* dq and tau_ff may be empty.
MoveJs(r) == /\ RequireMotionAllowed
             /\ \A i \in DOMAIN r.vectors :
                  (i > 1 /\ r.vectors[i].len = 0) \/ CheckFiniteValues(r.vectors[i], joints)
SendMit(r) == /\ RequireMotionAllowed
              /\ CheckJointIndex(r.index, joints)
              /\ CheckFiniteValues(r.vectors[1], 0)
SendMitAll(r) == /\ RequireMotionAllowed
                 /\ \A i \in DOMAIN r.vectors : CheckFiniteValues(r.vectors[i], joints)
HomeUngated(r) == TRUE             \* mutant: home forgets its switch
Home(r) == RequireMotionAllowed
MoveC(r) == /\ RequireMotionAllowed
            /\ \A i \in DOMAIN r.vectors : CheckFinitePose(r.vectors[i])
            /\ CheckSpeedFraction(r.number)
\* A flat array, six values to a waypoint.
ReadPoses(v) == CheckFiniteValues(v, 0) /\ v.len % 6 = 0
MovePath(r) == /\ RequireMotionAllowed
               /\ ReadPoses(r.vectors[1])
               /\ CheckSpeedFraction(r.number)

\* The seed may be empty; the solver wants seven values of it, whatever the arm.
InverseKinematics(r) == /\ CheckFinitePose(r.vectors[1])
                        /\ r.vectors[2].len = 0 \/ CheckFiniteValues(r.vectors[2], 7)
                        /\ CheckTimeout(r.number)
KinBench(r) == CheckTimeout(r.number)
LogStart(r) == r.number > 0
LogDump(r)  == CheckLogFilename(r.name) /\ CheckTimeout(r.number)

EnterDfu(r) == param.allow_dfu
ZeroG(r)    == CheckZeroGPeriod(param.period)

SetPayload(r)     == CheckMass(r.number) /\ CheckCom(r.vectors[1])
FfPreset(r)       == CheckFfPreset(r.number)
FfVector(r)       == CheckFfValues(r.vectors[1])
PerAxisScale(r)   == CheckFiniteValues(r.vectors[1], 7)
GravityVector(r)  == CheckFiniteVector3(r.vectors[1])

\* These three ask the session, not joint_names_, for its axes; -1 reads them all.
JointsOfConfigure(r) ==            \* mutant: joint_count() here too
  link /\ ((r.svc = "get_joint_params" /\ r.index < 0) \/ CheckJointIndex(r.index, joints))
JointsOfSession(r) ==
  /\ link
  /\ (r.svc = "get_joint_params" /\ r.index < 0) \/ CheckJointIndex(r.index, Axes[session])

Passes(r) ==
  /\ r.svc \in {"move_j", "move_j_sync"} => MoveJ(r)
  /\ r.svc = "move_p"                    => MoveP(r)
  /\ r.svc = "move_l"                    => MoveL(r)
  /\ r.svc = "move_js"                   => MoveJs(r)
  /\ r.svc = "send_mit"                  => SendMit(r)
  /\ r.svc = "send_mit_all"              => SendMitAll(r)
  /\ r.svc = "home"                      => Home(r)
  /\ r.svc = "move_c"                    => MoveC(r)
  /\ r.svc = "move_path"                 => MovePath(r)
  /\ r.svc = "inverse_kinematics"        => InverseKinematics(r)
  /\ r.svc = "kin_bench"                 => KinBench(r)
  /\ r.svc = "log_start"                 => LogStart(r)
  /\ r.svc = "log_dump"                  => LogDump(r)
  /\ r.svc = "enter_dfu"                 => EnterDfu(r)
  /\ r.svc = ZeroGOn                     => ZeroG(r)
  /\ r.svc = "set_payload"               => SetPayload(r)
  /\ r.svc = "set_feedforward_preset"    => FfPreset(r)
  /\ r.svc = "set_feedforward_vector"    => FfVector(r)
  /\ r.svc \in {"set_gravity_scale", "set_inertia_scale"} => PerAxisScale(r)
  /\ r.svc = "set_gravity_vector"        => GravityVector(r)
  /\ r.svc \in JointTable                => JointsOfSession(r)

-----------------------------------------------------------------------------
(* A call.                                                                   *)

\* zero_g reads its period once, into a local: what it checked is what it starts with.
ReadAgain(r, checked) == IF r.svc = ZeroGOn THEN param.period ELSE checked    \* mutant
ReadOnce(r, checked)  == checked
Passed(r) == IF r.svc = ZeroGOn THEN param.period ELSE r.number

\* get_status asks for the cached frame, which is there or not, and sends nothing.
FromCache(r) == r.svc = GetStatus /\ r.number # NotFinite /\ r.number <= 0

\* A timeout of 0 asks for the SDK's own; get_status may name an endless one.
WaitNamed(r) == IF r.svc \in Waits THEN r.number ELSE SdkTimeout              \* mutant
Wait(r) == IF \/ r.svc \in Waits /\ r.number # 0
              \/ r.svc = GetStatus /\ ~ FromCache(r)
           THEN r.number ELSE SdkTimeout

\* The executor takes a request and its handler passes or refuses it.
Take(r) ==
  /\ call.at \in {"idle", "ok"}
  /\ call' = IF Passes(r)
             THEN [req |-> r, at |-> "checked", value |-> Passed(r), wait |-> Wait(r),
                   overtaken |-> FALSE]
             ELSE Idle
  /\ UNCHANGED <<param, joints, session, link, late, quiet>>

TakeStop == stop /\ stop' = FALSE /\ Take(Stop)
TakeOther == \E r \in Requests : ~ quiet /\ Take(r) /\ UNCHANGED stop

\* The switch a service is behind, as the parameters stand now.
Allowed(r) == /\ r.svc \in Motion => param.allow_motion
              /\ r.svc = "enter_dfu" => param.allow_dfu

\* run_command finds a link and calls the SDK; reconnect does not look for one.
Send ==
  /\ call.at = "checked"
  /\ link \/ call.req.svc = "reconnect"
  /\ call' = [call EXCEPT !.at = "sent", !.value = ReadOnce(call.req, call.value)]
  /\ late' = IF Allowed(call.req) THEN late ELSE late + 1
  /\ UNCHANGED <<param, joints, session, link, stop, quiet>>

NoLink ==
  /\ call.at = "checked"
  /\ ~ link /\ call.req.svc # "reconnect"
  /\ call' = Idle
  /\ UNCHANGED <<param, joints, session, link, late, stop, quiet>>

\* reconnect: the SDK shakes hands with whatever device is there, and joint_names_ stays.  When
\* the licence cannot be read after that, the answer is "failed" with the link up.
Reconnected ==
  \/ /\ link' = TRUE /\ session' \in Devices
     /\ call' \in {[call EXCEPT !.at = "ok"], Idle}
  \/ link' = FALSE /\ UNCHANGED session /\ call' = Idle

\* The firmware, or the cache, answers; after enter_dfu the firmware is gone.
Answered ==
  /\ call.at = "sent"
  /\ IF call.req.svc = "reconnect" THEN Reconnected
     ELSE /\ link \/ FromCache(call.req)
          /\ call' = [call EXCEPT !.at = "ok"]
          /\ link' = (link /\ call.req.svc # "enter_dfu")
          /\ UNCHANGED session
  /\ UNCHANGED <<param, joints, late, stop, quiet>>

Rejected ==
  /\ call.at = "sent"
  /\ link /\ call.req.svc # "reconnect"
  /\ call' = Idle
  /\ UNCHANGED <<param, joints, session, link, late, stop, quiet>>

\* Nothing came: the SDK throws when the time it was given is over.
TimeOut ==
  /\ call.at = "sent"
  /\ call.wait # NotFinite
  /\ call' = Idle
  /\ link' = (link /\ call.req.svc # "reconnect")
  /\ UNCHANGED <<param, joints, session, late, stop, quiet>>

-----------------------------------------------------------------------------
(* Beside the call.                                                          *)

SetParam ==
  /\ param' \in Params \ {param}
  /\ late' = 0
  /\ UNCHANGED <<joints, session, link, call, stop, quiet>>

\* deactivate, cleanup, configure and activate, with a handler still between its gates and the
\* SDK.  (Inside the SDK it would be inside an Arm that is destroyed: DriverLifecycle's
\* Undefined.)  services_.clear() drops an emergency_stop that waits at its server.
Reconfigure ==
  /\ ~ quiet /\ call.at # "sent"
  /\ \E d \in Devices : session' = d /\ joints' = Axes[d]
  /\ link' = TRUE
  /\ call' = [call EXCEPT !.overtaken = call.at = "checked"]
  /\ stop' = FALSE
  /\ UNCHANGED <<param, late, quiet>>

LinkLost == link /\ link' = FALSE /\ UNCHANGED <<param, joints, session, call, late, stop, quiet>>

CallStop == ~ stop /\ stop' = TRUE /\ UNCHANGED <<param, joints, session, link, call, late, quiet>>

FallQuiet ==
  ~ quiet /\ quiet' = TRUE /\ UNCHANGED <<param, joints, session, link, call, late, stop>>

Work == Send \/ NoLink \/ Answered \/ Rejected \/ TimeOut
Next ==
  \/ TakeStop \/ TakeOther \/ Work
  \/ SetParam \/ Reconfigure \/ LinkLost \/ CallStop \/ FallQuiet

Spec == Init /\ [][Next]_vars

\* The executor takes some request when it can, a handler does not stop half-way, and the SDK
\* gives up when the time it was given is over.  Which of several requests the executor takes
\* first is up to it, and nothing obliges the firmware to answer.
Fairness == WF_vars(TakeStop \/ TakeOther) /\ WF_vars(Send \/ NoLink) /\ WF_vars(TimeOut)

FairSpec == Spec /\ Fairness

-----------------------------------------------------------------------------
(* Properties.                                                               *)

TypeOK ==
  /\ param \in Params
  /\ joints \in Nat
  /\ session \in Devices
  /\ link \in BOOLEAN
  /\ call \in [req : Requests \cup {Stop}, at : {"idle", "checked", "sent", "ok"},
               value : Number, wait : (Nat \ {0}) \cup {NotFinite}, overtaken : BOOLEAN]
  /\ call.wait = NotFinite => call.req.svc = GetStatus
  /\ late \in Nat
  /\ stop \in BOOLEAN /\ quiet \in BOOLEAN

\* allow_motion and allow_dfu are read when a handler starts, so turning one off does not
\* recall the call in progress; but no more than that one frame follows, because handlers
\* never overlap.
RevokedStops == late <= 1

\* The documented range of the numbers that have a gate: outside, the firmware clamps the mass,
\* trips its watchdog on the period, or reads the preset as another.
Domains == [set_payload |-> 0 .. 20, set_feedforward_preset |-> 0 .. 2, zero_g_on |-> 5 .. 99,
            move_j |-> 1 .. 100, move_j_sync |-> 1 .. 100, move_p |-> 1 .. 100,
            move_l |-> 1 .. 100, move_c |-> 1 .. 100, move_path |-> 1 .. 100]

\* These hand the firmware any value at all.
Unchecked == {"set_joint_gains", "set_joint_limits", "set_feedforward_scalar"}

\* What goes out to the firmware has passed its gates: a number of Domains is in its documented
\* range, also when zero_g_period is set again while zero_g is under way, and no array holds a
\* NaN, but for three services.  What the firmware makes of the entries of a feedforward vector,
\* a scale, a gravity vector or a centre of mass is not said: it clamps them in silence.
SentInRange ==
  call.at \in {"sent", "ok"} /\ call.req.svc \notin Unchecked =>
    /\ call.req.svc \in DOMAIN Domains => call.value \in Domains[call.req.svc]
    /\ \A i \in DOMAIN call.req.vectors : call.req.vectors[i].finite
                                          \/ call.req.vectors[i].len = 0

\* An index or the arrays of a motion fit an arm of n axes.
Fits(r, n) ==
  /\ r.svc = "send_mit" => r.index \in 0 .. n - 1
  /\ r.svc \in {"move_j", "move_j_sync", "send_mit_all"} =>
       \A i \in DOMAIN r.vectors : r.vectors[i].len = n
  /\ r.svc = "move_js" =>
       \A i \in DOMAIN r.vectors : r.vectors[i].len = n \/ (i > 1 /\ r.vectors[i].len = 0)

\* A frame on the wire fits the arm it goes to.  Joint-table accesses do so after a reconnect
\* met another device as well; motions only while joint_names_ is of the device in the
\* session (and has axes at all); neither when a configure overtook the handler.
FramesFit ==
  call.at = "sent" /\ ~ call.overtaken =>
    /\ call.req.svc \in JointTable => call.req.index < Axes[session]
    /\ joints = Axes[session] /\ joints > 0 => Fits(call.req, joints)

\* The one call that no gate bounds: a get_status with an infinite timeout.
Endless == call.at = "sent" /\ call.req.svc = GetStatus /\ call.wait = NotFinite

\* An emergency_stop has no right of way: it waits behind the call in progress, behind whatever
\* else the executor prefers, and a deactivation drops it.  But once the other clients and the
\* operator stop calling it is served, whatever happens to the firmware, the link and the
\* parameters meanwhile, unless the last call is an endless get_status.
StopIsServed == stop /\ quiet ~> ~ stop \/ Endless
=============================================================================
