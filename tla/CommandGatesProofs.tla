------------------------- MODULE CommandGatesProofs -------------------------
(***************************************************************************)
(* Theorems about CommandGates.  What the gates guarantee of a request     *)
(* they let pass comes first; the invariants then carry it past everything *)
(* that happens beside the call until its frame is on the wire.            *)
(***************************************************************************)
EXTENDS CommandGates, TLAPS

Asked == Requests \cup {Stop}

LEMMA StopIsRequest == Stop \in Request /\ Len(Stop.vectors) = 0 /\ Arrays(Stop.svc) = 0
  BY DEF Stop, Request, Services, Ungated, Commands, Arrays, Number

LEMMA AskedType == ASSUME NEW r \in Asked
                   PROVE  /\ r \in Request
                          /\ Len(r.vectors) = Arrays(r.svc)
                          /\ r.svc \in Counts => r.number \in Int
<1>1. CASE r = Stop
  BY <1>1, StopIsRequest DEF Stop, Counts
<1>2. CASE r \in Requests
  BY <1>2, RequestAssumption
<1> QED
  BY <1>1, <1>2 DEF Asked

LEMMA VectorsOf == ASSUME NEW r \in Asked
                   PROVE  DOMAIN r.vectors = 1 .. Arrays(r.svc) /\ Arrays(r.svc) \in Nat
<1>1. r.vectors \in Seq(Vector)
  BY AskedType DEF Request
<1> QED
  BY <1>1, AskedType

-----------------------------------------------------------------------------
(* What the gates guarantee.                                                 *)

\* A service that waits for as long as its client says is given an end; get_status, which has no
\* gate, is given what its client asked for.
LEMMA WaitEnds == ASSUME NEW r \in Asked, Passes(r)
                  PROVE  Wait(r) \in Nat \ {0} \/ (r.svc = GetStatus /\ Wait(r) = NotFinite)
<1>1. r.number \in Number
  BY AskedType DEF Request
<1>2. CASE r.svc \in Waits
  <2>1. CheckTimeout(r.number)
    BY <1>2 DEF Passes, Waits, InverseKinematics, KinBench, LogDump
  <2> QED
    BY <1>2, <2>1, <1>1, TimeoutAssumption, FiniteAssumption
    DEF Wait, CheckTimeout, Number, Waits, GetStatus
<1>3. CASE r.svc = GetStatus
  BY <1>1, <1>3, TimeoutAssumption, FiniteAssumption
  DEF Wait, FromCache, Number, Waits, GetStatus
<1>4. CASE r.svc \notin Waits \cup {GetStatus}
  BY <1>4, TimeoutAssumption DEF Wait
<1> QED
  BY <1>2, <1>3, <1>4

\* The switch is on when the gates are passed.
LEMMA PassesAllowed == ASSUME NEW r \in Asked, Passes(r) PROVE Allowed(r)
<1>1. ASSUME r.svc \in Motion PROVE param.allow_motion
  BY <1>1 DEF Passes, Motion, MoveJ, MoveP, MoveL, MoveJs, SendMit, SendMitAll, Home, MoveC,
     MovePath, RequireMotionAllowed
<1>2. ASSUME r.svc = "enter_dfu" PROVE param.allow_dfu
  BY <1>2 DEF Passes, EnterDfu
<1> QED
  BY <1>1, <1>2 DEF Allowed

\* The number a passed request carries is one the documentation admits.
LEMMA PassesDomain == ASSUME NEW r \in Asked, Passes(r), param \in ParamSet,
                             r.svc \in DOMAIN Domains
                      PROVE  Passed(r) \in Domains[r.svc]
<1>1. r.number \in Number /\ param.period \in Number
  BY AskedType DEF Request, ParamSet
<1>2. CASE r.svc = "set_payload"
  BY <1>1, <1>2, FiniteAssumption
  DEF Passes, SetPayload, CheckMass, Passed, ZeroGOn, Domains, Number
<1>3. CASE r.svc = "set_feedforward_preset"
  BY <1>3, AskedType DEF Passes, FfPreset, CheckFfPreset, Passed, ZeroGOn, Domains, Counts
<1>4. CASE r.svc = "zero_g_on"
  BY <1>1, <1>4 DEF Passes, ZeroG, CheckZeroGPeriod, Passed, ZeroGOn, Domains, Number
<1>5. CASE r.svc \in {"move_j", "move_j_sync", "move_p", "move_l", "move_c", "move_path"}
  <2>1. CheckSpeedFraction(r.number)
    BY <1>5 DEF Passes, MoveJ, MoveP, MoveL, MoveC, MovePath
  <2>2. r.number \in 1 .. 100
    BY <1>1, <2>1 DEF CheckSpeedFraction, Number
  <2> QED
    BY <1>5, <2>2 DEF Passed, ZeroGOn, Domains
<1> QED
  BY <1>2, <1>3, <1>4, <1>5 DEF Domains

\* Its arrays hold finite numbers; only optional ones may be empty.
LEMMA PassesFinite == ASSUME NEW r \in Asked, Passes(r), r.svc \notin Unchecked
                      PROVE  \A i \in DOMAIN r.vectors :
                               r.vectors[i].finite \/ r.vectors[i].len = 0
<1> SUFFICES ASSUME NEW i \in DOMAIN r.vectors
             PROVE  r.vectors[i].finite \/ r.vectors[i].len = 0
  OBVIOUS
<1>1. i \in 1 .. Arrays(r.svc)
  BY VectorsOf
<1>2. CASE r.svc \in {"move_js", "move_c", "send_mit_all"}
  BY <1>2 DEF Passes, MoveJs, MoveC, SendMitAll, CheckFinitePose, CheckFiniteValues
<1>3. CASE r.svc = "inverse_kinematics"
  <2>1. i = 1 \/ i = 2
    BY <1>1, <1>3 DEF Arrays
  <2> QED
    BY <1>3, <2>1 DEF Passes, InverseKinematics, CheckFinitePose, CheckFiniteValues
<1>4. CASE r.svc \notin {"move_js", "move_c", "send_mit_all", "inverse_kinematics"}
  <2>1. /\ i = 1
        /\ r.svc \in {"move_j", "move_j_sync", "move_p", "move_l", "move_path", "send_mit",
                      "set_payload", "set_feedforward_vector", "set_gravity_scale",
                      "set_inertia_scale", "set_gravity_vector"}
    BY <1>1, <1>4 DEF Arrays, Unchecked
  <2> QED
    BY <2>1 DEF Passes, MoveJ, MoveP, MoveL, MovePath, SendMit, SetPayload, FfVector,
    PerAxisScale, GravityVector, CheckFinitePose, CheckFiniteVector3, CheckFiniteValues,
    CheckCom, CheckFfValues, ReadPoses
<1> QED
  BY <1>2, <1>3, <1>4

\* Its arrays and index fit the axes the node counts, when it counts any.
LEMMA PassesFit == ASSUME NEW r \in Asked, Passes(r), joints \in Nat, joints > 0
                   PROVE  Fits(r, joints)
<1>1. DOMAIN r.vectors = 1 .. Arrays(r.svc)
  BY VectorsOf
<1>2. ASSUME r.svc = "send_mit" PROVE r.index \in 0 .. joints - 1
  BY <1>2, AskedType DEF Passes, SendMit, CheckJointIndex, Request
<1>3. ASSUME r.svc \in {"move_j", "move_j_sync"}, NEW i \in DOMAIN r.vectors
      PROVE  r.vectors[i].len = joints
  BY <1>1, <1>3 DEF Passes, MoveJ, CheckFiniteValues, Arrays
<1>4. ASSUME r.svc = "send_mit_all", NEW i \in DOMAIN r.vectors
      PROVE  r.vectors[i].len = joints
  BY <1>4 DEF Passes, SendMitAll, CheckFiniteValues
<1>5. ASSUME r.svc = "move_js", NEW i \in DOMAIN r.vectors
      PROVE  r.vectors[i].len = joints \/ (i > 1 /\ r.vectors[i].len = 0)
  BY <1>5 DEF Passes, MoveJs, CheckFiniteValues
<1> QED
  BY <1>2, <1>3, <1>4, <1>5 DEF Fits

\* A joint-table access names an axis of the device in the session, or all of them.
LEMMA PassesTable == ASSUME NEW r \in Asked, Passes(r), session \in Devices,
                            r.svc \in JointTable
                     PROVE  r.index < Axes[session]
<1>1. r.index \in Int /\ Axes[session] \in Nat
  BY AskedType, AxesAssumption DEF Request
<1> QED
  BY <1>1 DEF Passes, JointsOfSession, CheckJointIndex

-----------------------------------------------------------------------------
(* Type correctness.                                                         *)

CallType == [req : Asked, at : {"idle", "checked", "sent", "ok"}, value : Number,
             wait : (Nat \ {0}) \cup {NotFinite}, overtaken : BOOLEAN]
Ended(c) == c.wait = NotFinite => c.req.svc = GetStatus

LEMMA IdleType == Idle \in CallType /\ Idle.at = "idle" /\ Ended(Idle)
  BY StopIsRequest, TimeoutAssumption, FiniteAssumption
  DEF Idle, CallType, Asked, Number, Ended

LEMMA TypeInit == Init => TypeOK
<1> SUFFICES ASSUME Init PROVE TypeOK
  OBVIOUS
<1>1. call \in CallType /\ Ended(call)
  BY IdleType DEF Init
<1>2. joints \in Nat
  BY AxesAssumption DEF Init
<1> QED
  BY <1>1, <1>2 DEF Init, TypeOK, CallType, Asked, Ended

\* The call a passed request begins.
LEMMA TakenType == ASSUME NEW r \in Asked, Passes(r), param \in ParamSet
                   PROVE  LET c == [req |-> r, at |-> "checked", value |-> Passed(r),
                                    wait |-> Wait(r), overtaken |-> FALSE]
                          IN  c \in CallType /\ Ended(c)
<1>1. Passed(r) \in Number
  BY AskedType DEF Passed, Request, ParamSet
<1> QED
  BY <1>1, WaitEnds, FiniteAssumption DEF CallType, Ended

LEMMA TypeStep == TypeOK /\ [Next]_vars => TypeOK'
<1> SUFFICES ASSUME TypeOK, [Next]_vars PROVE TypeOK'
  OBVIOUS
<1>1. /\ call \in CallType /\ Ended(call)
      /\ param \in ParamSet
      /\ session \in Devices /\ joints \in Nat /\ late \in Nat
      /\ link \in BOOLEAN /\ stop \in BOOLEAN /\ quiet \in BOOLEAN
  BY ParamAssumption DEF TypeOK, CallType, Asked, Ended
<1>2. ASSUME /\ call' \in CallType /\ Ended(call')
             /\ param' \in Params
             /\ session' \in Devices /\ joints' \in Nat /\ late' \in Nat
             /\ link' \in BOOLEAN /\ stop' \in BOOLEAN /\ quiet' \in BOOLEAN
      PROVE  TypeOK'
  BY <1>2 DEF TypeOK, CallType, Asked, Ended
<1>3. param \in Params
  BY DEF TypeOK
<1>4. ASSUME NEW r \in Asked, Take(r) PROVE call' \in CallType /\ Ended(call')
  BY <1>1, <1>4, TakenType, IdleType DEF Take
<1>5. CASE TakeStop
  BY <1>1, <1>2, <1>3, <1>4, <1>5 DEF TakeStop, Take, Asked
<1>6. CASE TakeOther
  BY <1>1, <1>2, <1>3, <1>4, <1>6 DEF TakeOther, Take, Asked
<1>7. CASE Send
  <2>1. call' \in CallType /\ Ended(call')
    BY <1>1, <1>7 DEF Send, ReadOnce, CallType, Ended
  <2>2. late' \in Nat
    BY <1>1, <1>7 DEF Send
  <2> QED
    BY <1>1, <1>2, <1>3, <1>7, <2>1, <2>2 DEF Send
<1>8. CASE NoLink \/ Rejected \/ TimeOut
  BY <1>1, <1>2, <1>3, <1>8, IdleType DEF NoLink, Rejected, TimeOut
<1>9. CASE Answered
  <2>1. [call EXCEPT !.at = "ok"] \in CallType /\ Ended([call EXCEPT !.at = "ok"])
    BY <1>1 DEF CallType, Ended
  <2>2. call' \in CallType /\ Ended(call') /\ session' \in Devices /\ link' \in BOOLEAN
    BY <1>1, <1>9, <2>1, IdleType DEF Answered, Reconnected
  <2> QED
    BY <1>1, <1>2, <1>3, <1>9, <2>2 DEF Answered
<1>10. CASE SetParam
  BY <1>1, <1>2, <1>10 DEF SetParam
<1>11. CASE Reconfigure
  <2>1. call' \in CallType /\ Ended(call')
    BY <1>1, <1>11 DEF Reconfigure, CallType, Ended
  <2> QED
    BY <1>1, <1>2, <1>3, <1>11, <2>1, AxesAssumption DEF Reconfigure
<1>12. CASE LinkLost \/ CallStop \/ FallQuiet \/ UNCHANGED vars
  BY <1>1, <1>2, <1>3, <1>12 DEF LinkLost, CallStop, FallQuiet, vars
<1> QED
  BY <1>5, <1>6, <1>7, <1>8, <1>9, <1>10, <1>11, <1>12 DEF Next, Work

\* Type correctness; whatever a client asks for, no call but get_status's waits for ever
\* (check_timeout; handle_get_status passes its timeout on as it is).
THEOREM GatesTypeCorrect == Spec => []TypeOK
  BY TypeInit, TypeStep, PTL DEF Spec

-----------------------------------------------------------------------------
(* How the call in progress changes in a step.                               *)

\* A call is taken by passing the gates; until it ends its request and value stay, the
\* configuration and the session stay unless a configure marks it, and no frame is sent but
\* its own.
LEMMA CallStep ==
  ASSUME TypeOK, [Next]_vars
  PROVE  \/ call' = Idle /\ late' \in {late, 0}
         \/ /\ call.at \in {"idle", "ok"} /\ call'.at = "checked"
            /\ call'.req \in Asked /\ Passes(call'.req)
            /\ call'.value = Passed(call'.req)
            /\ UNCHANGED <<param, joints, session, late>>
         \/ /\ Send
            /\ call'.at = "sent" /\ call'.req = call.req /\ call'.value = call.value
            /\ call'.overtaken = call.overtaken
         \/ /\ call.at = "sent" /\ call'.at = "ok"
            /\ call'.req = call.req /\ call'.value = call.value
            /\ UNCHANGED <<param, joints, late>>
         \/ /\ call'.at = call.at
            /\ call'.req = call.req /\ call'.value = call.value
            /\ call.at = "checked" => call'.overtaken
            /\ call.at # "sent" /\ UNCHANGED <<param, late>>
         \/ /\ UNCHANGED <<call, joints, session>>
            /\ late' = 0 \/ UNCHANGED <<late, param>>
<1>1. call \in CallType
  BY DEF TypeOK, CallType, Asked
<1>2. ASSUME NEW r \in Asked, Take(r)
      PROVE  \/ call' = Idle /\ late' \in {late, 0}
             \/ /\ call.at \in {"idle", "ok"} /\ call'.at = "checked"
                /\ call'.req \in Asked /\ Passes(call'.req)
                /\ call'.value = Passed(call'.req)
                /\ UNCHANGED <<param, joints, session, late>>
  BY <1>2 DEF Take
<1>3. CASE TakeStop \/ TakeOther
  BY <1>2, <1>3 DEF TakeStop, TakeOther, Asked
<1>4. CASE Send
  BY <1>1, <1>4 DEF Send, ReadOnce, CallType
<1>5. CASE NoLink \/ Rejected \/ TimeOut
  BY <1>5 DEF NoLink, Rejected, TimeOut
<1>6. CASE Answered
  BY <1>1, <1>6 DEF Answered, Reconnected, CallType
<1>7. CASE Reconfigure
  BY <1>1, <1>7 DEF Reconfigure, CallType
<1>8. CASE SetParam
  BY <1>8 DEF SetParam
<1>9. CASE LinkLost \/ CallStop \/ FallQuiet \/ UNCHANGED vars
  BY <1>9 DEF LinkLost, CallStop, FallQuiet, vars
<1> QED
  BY <1>3, <1>4, <1>5, <1>6, <1>7, <1>8, <1>9 DEF Next, Work

-----------------------------------------------------------------------------
(* A switch that is turned off.                                              *)

\* A call that passed its gates is allowed until a parameter is set, which resets the count.
RevokedInv == late \in {0, 1} /\ (late = 1 /\ call.at = "checked" => Allowed(call.req))

LEMMA RevokedStep == TypeOK /\ RevokedInv /\ [Next]_vars => RevokedInv'
<1> SUFFICES ASSUME TypeOK, RevokedInv, [Next]_vars PROVE RevokedInv'
  OBVIOUS
<1> USE DEF RevokedInv
<1>1. CASE call' = Idle /\ late' \in {late, 0}
  BY <1>1, IdleType
<1>2. CASE /\ call'.at = "checked" /\ call'.req \in Asked /\ Passes(call'.req)
           /\ UNCHANGED <<param, late>>
  <2>1. Allowed(call'.req)
    BY <1>2, PassesAllowed
  <2> QED
    BY <1>2, <2>1 DEF Allowed
<1>3. CASE Send /\ call'.at = "sent"
  BY <1>3 DEF Send
<1>4. CASE call'.at = "ok" /\ UNCHANGED late
  BY <1>4
<1>5. CASE call'.at = call.at /\ call'.req = call.req /\ UNCHANGED <<param, late>>
  BY <1>5 DEF Allowed
<1>6. CASE UNCHANGED call /\ (late' = 0 \/ UNCHANGED <<late, param>>)
  BY <1>6 DEF Allowed
<1> QED
  BY <1>1, <1>2, <1>3, <1>4, <1>5, <1>6, CallStep

\* However many calls and parameter changes: of a switch that was turned off, no more than one
\* frame takes no notice (require_motion_allowed, handle_enter_dfu).
THEOREM SwitchesStop == Spec => []RevokedStops
<1>1. Init => RevokedInv
  BY DEF Init, RevokedInv
<1>2. RevokedInv => RevokedStops
  BY DEF RevokedInv, RevokedStops
<1> QED
  BY <1>1, <1>2, RevokedStep, GatesTypeCorrect, PTL DEF Spec

-----------------------------------------------------------------------------
(* What reaches the firmware.                                                *)

\* What SentInRange says of a frame on the wire holds from the gates on.
Sound(r, value) ==
  r.svc \notin Unchecked =>
    /\ r.svc \in DOMAIN Domains => value \in Domains[r.svc]
    /\ \A i \in DOMAIN r.vectors : r.vectors[i].finite \/ r.vectors[i].len = 0
TakenInv == call.at # "idle" => Sound(call.req, call.value)

LEMMA TakenStep == TypeOK /\ TakenInv /\ [Next]_vars => TakenInv'
<1> SUFFICES ASSUME TypeOK, TakenInv, [Next]_vars PROVE TakenInv'
  OBVIOUS
<1> USE DEF TakenInv
<1>1. CASE call' = Idle
  BY <1>1, IdleType
<1>2. CASE /\ call'.req \in Asked /\ Passes(call'.req) /\ call'.value = Passed(call'.req)
  <2>1. param \in ParamSet
    BY ParamAssumption DEF TypeOK
  <2> QED
    BY <1>2, <2>1, PassesDomain, PassesFinite DEF Sound
<1>3. CASE Send /\ call'.req = call.req /\ call'.value = call.value
  BY <1>3 DEF Send
<1>4. CASE call.at = "sent" /\ call'.req = call.req /\ call'.value = call.value
  BY <1>4
<1>5. CASE call'.at = call.at /\ call'.req = call.req /\ call'.value = call.value
  BY <1>5
<1> QED
  BY <1>1, <1>2, <1>3, <1>4, <1>5, CallStep

\* For any requests and any sequence of parameter values: a number with a documented range is in
\* it on the wire, and no array with a NaN goes out, but for the three services of Unchecked (the
\* gates of safety_gates.cpp, and handle_zero_g, which reads its period once).  Within finite
\* arrays the firmware may still clamp an entry: that is outside this theorem.
THEOREM RangesHold == Spec => []SentInRange
<1>1. Init => TakenInv
  BY IdleType DEF Init, TakenInv
<1>2. TakenInv => SentInRange
  BY DEF TakenInv, SentInRange, Sound
<1> QED
  BY <1>1, <1>2, TakenStep, GatesTypeCorrect, PTL DEF Spec

\* A frame fits from the gates on, as long as no configure overtakes its call.
FitInv ==
  call.at \in {"checked", "sent"} /\ ~ call.overtaken =>
    /\ call.req.svc \in JointTable => call.req.index < Axes[session]
    /\ joints > 0 => Fits(call.req, joints)

LEMMA FitStep == TypeOK /\ FitInv /\ [Next]_vars => FitInv'
<1> SUFFICES ASSUME TypeOK, FitInv, [Next]_vars PROVE FitInv'
  OBVIOUS
<1> USE DEF FitInv
<1>1. CASE call' = Idle
  BY <1>1, IdleType
<1>2. CASE call'.req \in Asked /\ Passes(call'.req) /\ UNCHANGED <<joints, session>>
  BY <1>2, PassesFit, PassesTable DEF TypeOK
<1>3. CASE Send /\ call'.req = call.req /\ call'.overtaken = call.overtaken
  BY <1>3 DEF Send
<1>4. CASE call'.at = "ok"
  BY <1>4
<1>5. CASE call'.at = call.at /\ (call.at = "checked" => call'.overtaken) /\ call.at # "sent"
  BY <1>5
<1>6. CASE UNCHANGED <<call, joints, session>>
  BY <1>6
<1> QED
  BY <1>1, <1>2, <1>3, <1>4, <1>5, <1>6, CallStep

\* For any axis counts: a frame fits the arm it goes to, unless a configure overtook its call
\* (check_finite_values with joint_count(), check_joint_index with arm_->n()).
THEOREM FramesFitArm == Spec => []FramesFit
<1>1. Init => FitInv
  BY IdleType DEF Init, FitInv
<1>2. FitInv => FramesFit
  BY DEF FitInv, FramesFit
<1> QED
  BY <1>1, <1>2, FitStep, GatesTypeCorrect, PTL DEF Spec
=============================================================================
