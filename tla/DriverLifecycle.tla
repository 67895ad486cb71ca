--------------------------- MODULE DriverLifecycle ---------------------------
(***************************************************************************)
(* The LiteArm maintenance driver as a process: the managed-node callbacks *)
(* (on_configure ... on_error), the service handlers and the two timers,   *)
(* run by the threads of rclcpp's MultiThreadedExecutor.                   *)
(*                                                                         *)
(* Service and timer callbacks are registered in the node's one mutually   *)
(* exclusive group sdk_group_; the lifecycle transitions and parameter     *)
(* services come from rclcpp_lifecycle and live in the node's default      *)
(* group.  The two groups run concurrently, so every transition callback   *)
(* is split here at the points where a handler can see, or change, what it *)
(* works on.  An SDK call has a beginning and an end of its own.           *)
(***************************************************************************)
EXTENDS Naturals, FiniteSets, NodeStates

CONSTANTS
  Threads,        \* threads of the executor
  Sessions,       \* litearm::Arm objects the node may construct (bounds configures)
  NoSession,      \* the null arm_
  Services,       \* the services clients call, a subset of ServiceKinds
  ParamChoices    \* the parameter sets `ros2 param set` may install

ServiceKinds == {"enable", "reset", "zero_g_on", "zero_g_off", "reconnect", "get_status"}
Timers == {"status_timer", "diagnostics_timer"}
Topics == {"status", "joint_states", "diagnostics"}
Groups == {"sdk", "default"}

\* The parameters whose value changes what the lifecycle callbacks do.
\*   rates:     the timers whose rate is positive
\*   fits:      the timers whose 1/rate fits a timer period; for another one
\*              create_wall_timer throws
\*   topic_ok:  FALSE when joint_states_topic is no legal topic name
\*   names_ok:  FALSE when joint_names disagrees with the firmware's axis count
ParamSet == [auto_enable : BOOLEAN, rates : SUBSET Timers, fits : SUBSET Timers,
             publish : SUBSET {"joint_states", "diagnostics"},
             topic_ok : BOOLEAN, names_ok : BOOLEAN]

ASSUME ServicesAssumption == Services \subseteq ServiceKinds
ASSUME SessionAssumption  == NoSession \notin Sessions
ASSUME ParamAssumption    == ParamChoices \subseteq ParamSet /\ ParamChoices # {}

VARIABLES
  proc,         \* "running", "stopping" (rclcpp shut down) or "exited"
  pc,           \* what each thread is about to do, or is inside of
  job,          \* the service, timer or transition the thread runs
  held,         \* the Arm a handler's SDK call was given
  busy,         \* callback groups with a callback in progress
  state,        \* the managed node's state
  param,        \* the parameters as declared on the node
  cfg,          \* the node's copies, read by read_parameters
  arm,          \* arm_
  session,      \* what became of each Arm object
  serving,      \* services_ is not empty: the servers are advertised
  timers,       \* the timers that exist
  pub,          \* the lifecycle publishers: "none", "inactive" or "active"
  pending,      \* requests waiting at an advertised server
  zeroG,        \* the SDK's keep-alive thread is running
  fault,        \* the firmware has a latched fault
  enableReply   \* the answer to on_activate's ENABLE in the last transition

vars == <<proc, pc, job, held, busy, state, param, cfg, arm, session, serving,
          timers, pub, pending, zeroG, fault, enableReply>>

SdkPcs == {"begin", "call"}
LifecyclePcs ==
  {"create", "connect", "describe", "advertise",
   "enable", "enabling", "serve", "activate_publishers", "start_timers",
   "leave_zero_g", "leaving_zero_g",
   "stop_timers", "unserve", "deactivate_publishers", "closing", "destroy",
   "on_error"}
\* create_service and create_wall_timer pass sdk_group_; the lifecycle services do not.
TimerGroupUnset == "default"      \* mutant: the timers are made without sdk_group_
ServiceGroup   == "sdk"
TimerGroup     == "sdk"
LifecycleGroup == "default"

GroupOf(j) == IF j \in Services THEN ServiceGroup
              ELSE IF j \in Timers THEN TimerGroup ELSE LifecycleGroup

\* A thread runs a callback of group g.
Runs(t, g) == pc[t] # "idle" /\ GroupOf(job[t]) = g

Init ==
  /\ proc = "running"
  /\ pc = [t \in Threads |-> "idle"]
  /\ job = [t \in Threads |-> "none"]
  /\ held = [t \in Threads |-> NoSession]
  /\ busy = {}
  /\ state = "unconfigured"
  /\ param \in ParamChoices
  /\ cfg = param
  /\ arm = NoSession
  /\ session = [s \in Sessions |-> "unused"]
  /\ serving = FALSE
  /\ timers = {}
  /\ pub = [p \in Topics |-> "none"]
  /\ pending = {}
  /\ zeroG = FALSE
  /\ fault \in BOOLEAN
  /\ enableReply = "none"

Connected(a) == a # NoSession /\ session[a] = "open"

-----------------------------------------------------------------------------
(* The executor: a thread takes one ready callback whose group is free.      *)

Take(t, j, first) ==
  /\ proc = "running"
  /\ pc[t] = "idle"
  /\ GroupOf(j) \notin busy
  /\ busy' = busy \cup {GroupOf(j)}
  /\ pc' = [pc EXCEPT ![t] = first]
  /\ job' = [job EXCEPT ![t] = j]
  /\ UNCHANGED <<proc, held, param, cfg, arm, session, serving, timers, pub, zeroG, fault>>

\* The thread's callback has returned: its group is free again.
Release(t) ==
  /\ busy' = busy \ {GroupOf(job[t])}
  /\ pc' = [pc EXCEPT ![t] = "idle"]
  /\ job' = [job EXCEPT ![t] = "none"]

Goto(t, next) == pc' = [pc EXCEPT ![t] = next] /\ UNCHANGED <<job, busy>>

TakeService(t, s) ==
  /\ s \in pending
  /\ pending' = pending \ {s}
  /\ Take(t, s, "begin")
  /\ UNCHANGED <<state, enableReply>>

TakeTimer(t, m) ==
  /\ m \in timers
  /\ Take(t, m, "begin")
  /\ UNCHANGED <<state, pending, enableReply>>

FirstStep(tr) ==
  CASE tr = "configure"  -> "create"
    [] tr = "activate"   -> "enable"
    [] tr = "deactivate" -> "leave_zero_g"
    [] tr \in {"cleanup", "shutdown"} -> "stop_timers"

TakeTransition(t, tr) ==
  /\ state \in Offered(tr)
  /\ tr = "configure" => \E s \in Sessions : session[s] = "unused"
  /\ state' = During(tr)
  /\ enableReply' = "none"
  /\ Take(t, tr, FirstStep(tr))
  /\ UNCHANGED pending

\* A callback that returned SUCCESS, ERROR (or threw): rclcpp_lifecycle calls on_error
\* in the same thread before it lets go of the default group.
Succeed(t, goal) == state' = goal /\ Release(t)
Fail(t)          == state' = "error_processing" /\ Goto(t, "on_error")

-----------------------------------------------------------------------------
(* Service handlers and timers, in sdk_group_.                               *)

MayCallUnchecked(j) == TRUE       \* mutant: no null check
\* run_command tests the link; handle_reconnect and the timers only test for a null arm_.
MayCall(j) == IF j \in Timers \cup {"reconnect"} THEN arm # NoSession ELSE Connected(arm)

BeginCall(t) ==
  /\ pc[t] = "begin"
  /\ MayCall(job[t])
  /\ held' = [held EXCEPT ![t] = arm]
  /\ Goto(t, "call")
  /\ UNCHANGED <<proc, state, param, cfg, arm, session, serving, timers, pub, pending,
                 zeroG, fault, enableReply>>

RefuseCall(t) ==
  /\ pc[t] = "begin"
  /\ ~ MayCall(job[t])
  /\ Release(t)
  /\ UNCHANGED <<proc, held, state, param, cfg, arm, session, serving, timers, pub, pending,
                 zeroG, fault, enableReply>>

\* What an SDK call that the firmware accepted leaves behind.
Effect(t) ==
  LET s == held[t] IN
  \/ /\ job[t] = "reset"
     /\ session[s] = "open"
     /\ fault' = FALSE
     /\ UNCHANGED <<session, zeroG>>
  \/ /\ job[t] = "zero_g_on"
     /\ session[s] = "open" /\ ~ fault
     /\ zeroG' = TRUE
     /\ UNCHANGED <<session, fault>>
  \/ /\ job[t] = "zero_g_off"
     /\ zeroG' = FALSE
     /\ UNCHANGED <<session, fault>>
  \/ /\ job[t] = "reconnect"          \* close() then connect(), which may fail
     /\ \E up \in {"open", "down"} : session' = [session EXCEPT ![s] = up]
     /\ zeroG' = FALSE
     /\ UNCHANGED fault

ReturnCall(t) ==
  /\ pc[t] = "call"
  /\ \/ Effect(t)
     \/ job[t] # "reconnect" /\ UNCHANGED <<session, zeroG, fault>>
  /\ held' = [held EXCEPT ![t] = NoSession]
  /\ Release(t)
  /\ UNCHANGED <<proc, state, param, cfg, arm, serving, timers, pub, pending, enableReply>>

-----------------------------------------------------------------------------
(* on_configure                                                              *)

\* read_parameters, the resets, and arm_ = create_arm(): the old Arm is destroyed.
CreateArm(t) ==
  /\ pc[t] = "create"
  /\ cfg' = param
  /\ \E s \in {u \in Sessions : session[u] = "unused"} :
       /\ arm' = s
       /\ session' = [u \in Sessions |-> IF u = s THEN "new"
                                         ELSE IF u = arm THEN "gone" ELSE session[u]]
  /\ zeroG' = FALSE
  /\ Goto(t, "connect")
  /\ UNCHANGED <<proc, held, state, param, serving, timers, pub, pending, fault, enableReply>>

\* Mutant: arm_ is forgotten without its destructor running.
ForgetArm == arm' = NoSession /\ UNCHANGED session /\ zeroG' = FALSE

\* arm_.reset(): the Arm's destructor closes the link.
DestroyArm ==
  /\ arm' = NoSession
  /\ session' = [u \in Sessions |-> IF u = arm THEN "gone" ELSE session[u]]
  /\ zeroG' = FALSE

ConnectOk(t) ==
  /\ pc[t] = "connect"
  /\ \A s \in Sessions : session[s] # "open"      \* the serial port's exclusive lock
  /\ session' = [session EXCEPT ![arm] = "open"]
  /\ Goto(t, "describe")
  /\ UNCHANGED <<proc, held, state, param, cfg, arm, serving, timers, pub, pending, zeroG,
                 fault, enableReply>>

\* Mutant: configure gives up the Arm and reports success.
ConfigureFailsUnreported(t) ==
  /\ pc[t] = "connect"
  /\ DestroyArm
  /\ Succeed(t, "inactive")
  /\ UNCHANGED <<proc, held, param, cfg, serving, timers, pub, pending, fault, enableReply>>

\* The factory made no Arm, connect() threw, or the firmware's axis count is not that of
\* joint_names.
ConfigureFails(t) ==
  /\ \/ pc[t] = "create" /\ cfg' = param
     \/ pc[t] = "connect" /\ UNCHANGED cfg
     \/ pc[t] = "describe" /\ ~ cfg.names_ok /\ UNCHANGED cfg
  /\ DestroyArm
  /\ Fail(t)
  /\ UNCHANGED <<proc, held, param, serving, timers, pub, pending, fault, enableReply>>

\* The licence record is read; a failure is only a warning.
ReadLicense(t) ==
  /\ pc[t] = "describe"
  /\ cfg.names_ok
  /\ Goto(t, "advertise")
  /\ UNCHANGED <<proc, held, state, param, cfg, arm, session, serving, timers, pub, pending,
                 zeroG, fault, enableReply>>

Created(ps) == [p \in Topics |-> IF p \in ps THEN "inactive" ELSE pub[p]]

CreatePublishers(t) ==
  /\ pc[t] = "advertise"
  /\ "joint_states" \in cfg.publish => cfg.topic_ok
  /\ pub' = Created({"status"} \cup cfg.publish)
  /\ Succeed(t, "inactive")
  /\ UNCHANGED <<proc, held, param, cfg, arm, session, serving, timers, pending, zeroG,
                 fault, enableReply>>

\* create_publisher throws on the joint states' topic name: arm_ stays connected.
CreatePublishersThrows(t) ==
  /\ pc[t] = "advertise"
  /\ "joint_states" \in cfg.publish /\ ~ cfg.topic_ok
  /\ pub' = Created({"status"})
  /\ Fail(t)
  /\ UNCHANGED <<proc, held, param, cfg, arm, session, serving, timers, pending, zeroG,
                 fault, enableReply>>

-----------------------------------------------------------------------------
(* on_activate                                                               *)

BeginActivate(t) ==
  /\ pc[t] = "enable"
  /\ IF arm = NoSession THEN Fail(t)
     ELSE /\ Goto(t, IF cfg.auto_enable THEN "enabling" ELSE "serve")
          /\ UNCHANGED state
  /\ UNCHANGED <<proc, held, param, cfg, arm, session, serving, timers, pub, pending, zeroG,
                 fault, enableReply>>

EnableAcked(t) ==
  /\ pc[t] = "enabling"
  /\ session[arm] = "open" /\ ~ fault
  /\ enableReply' = "acked"
  /\ Goto(t, "serve")
  /\ UNCHANGED <<proc, held, state, param, cfg, arm, session, serving, timers, pub, pending,
                 zeroG, fault>>

\* Mutants: the refusal is only logged; the refusal is retried for ever.
EnableRefusedIgnored(t) ==
  /\ pc[t] = "enabling"
  /\ enableReply' = "refused"
  /\ Goto(t, "serve")
  /\ UNCHANGED <<proc, held, state, param, cfg, arm, session, serving, timers, pub, pending,
                 zeroG, fault>>
EnableRefusedRetries(t) ==
  /\ pc[t] = "enabling"
  /\ UNCHANGED vars

\* A latched fault, a licence that is not activated, or a lost link.
EnableRefused(t) ==
  /\ pc[t] = "enabling"
  /\ enableReply' = "refused"
  /\ Fail(t)
  /\ UNCHANGED <<proc, held, param, cfg, arm, session, serving, timers, pub, pending, zeroG,
                 fault>>

CreateServices(t) ==
  /\ pc[t] = "serve"
  /\ serving' = TRUE
  /\ Goto(t, "activate_publishers")
  /\ UNCHANGED <<proc, held, state, param, cfg, arm, session, timers, pub, pending, zeroG,
                 fault, enableReply>>

ActivatePublishers(t) ==
  /\ pc[t] = "activate_publishers"
  /\ pub' = [p \in Topics |-> IF pub[p] = "none" THEN "none" ELSE "active"]
  /\ Goto(t, "start_timers")
  /\ UNCHANGED <<proc, held, state, param, cfg, arm, session, serving, timers, pending, zeroG,
                 fault, enableReply>>

\* diagnostics_timer_ needs a publisher as well as a positive rate.
TimersToStart == {m \in cfg.rates : m = "status_timer" \/ pub["diagnostics"] # "none"}

StartTimers(t) ==
  /\ pc[t] = "start_timers"
  /\ TimersToStart \subseteq cfg.fits
  /\ timers' = timers \cup TimersToStart
  /\ Succeed(t, "active")
  /\ UNCHANGED <<proc, held, param, cfg, arm, session, serving, pub, pending, zeroG, fault,
                 enableReply>>

\* create_wall_timer throws: the servers and publishers made above stay, and so does the
\* status timer, made first, when only the diagnostics timer's period does not fit.
StartTimersThrows(t) ==
  /\ pc[t] = "start_timers"
  /\ ~ TimersToStart \subseteq cfg.fits
  /\ timers' = timers \cup (TimersToStart \cap cfg.fits \cap {"status_timer"})
  /\ Fail(t)
  /\ UNCHANGED <<proc, held, param, cfg, arm, session, serving, pub, pending, zeroG, fault,
                 enableReply>>

-----------------------------------------------------------------------------
(* on_deactivate; on_cleanup, which is also on_shutdown                      *)

BeginDeactivate(t) ==
  /\ pc[t] = "leave_zero_g"
  /\ Goto(t, IF arm # NoSession /\ zeroG THEN "leaving_zero_g" ELSE "stop_timers")
  /\ UNCHANGED <<proc, held, state, param, cfg, arm, session, serving, timers, pub, pending,
                 zeroG, fault, enableReply>>

\* zero_g_stop(true): an exception is swallowed, the firmware watchdog drops the mode.
LeaveZeroG(t) ==
  /\ pc[t] = "leaving_zero_g"
  /\ zeroG' = FALSE
  /\ Goto(t, "stop_timers")
  /\ UNCHANGED <<proc, held, state, param, cfg, arm, session, serving, timers, pub, pending,
                 fault, enableReply>>

\* Mutant: stop_timers forgets diagnostics_timer_.
StopStatusTimer(t) ==
  /\ pc[t] = "stop_timers"
  /\ timers' = timers \ {"status_timer"}
  /\ Goto(t, "unserve")
  /\ UNCHANGED <<proc, held, state, param, cfg, arm, session, serving, pub, pending, zeroG,
                 fault, enableReply>>

StopTimers(t) ==
  /\ pc[t] = "stop_timers"
  /\ timers' = {}
  /\ Goto(t, "unserve")
  /\ UNCHANGED <<proc, held, state, param, cfg, arm, session, serving, pub, pending, zeroG,
                 fault, enableReply>>

\* services_.clear(): the requests still queued at the servers are lost.
DestroyServices(t) ==
  /\ pc[t] = "unserve"
  /\ serving' = FALSE
  /\ pending' = {}
  /\ Goto(t, "deactivate_publishers")
  /\ UNCHANGED <<proc, held, state, param, cfg, arm, session, timers, pub, zeroG, fault,
                 enableReply>>

DeactivatePublishers(t) ==
  /\ pc[t] = "deactivate_publishers"
  /\ IF job[t] = "deactivate"
     THEN /\ pub' = [p \in Topics |-> IF pub[p] = "none" THEN "none" ELSE "inactive"]
          /\ Succeed(t, "inactive")
     ELSE /\ pub' = [p \in Topics |-> "none"]
          /\ Goto(t, IF arm = NoSession THEN "destroy" ELSE "closing")
          /\ UNCHANGED state
  /\ UNCHANGED <<proc, held, param, cfg, arm, session, serving, timers, pending, zeroG, fault,
                 enableReply>>

CloseArm(t) ==
  /\ pc[t] = "closing"
  /\ session' = [session EXCEPT ![arm] = "down"]
  /\ zeroG' = FALSE
  /\ Goto(t, "destroy")
  /\ UNCHANGED <<proc, held, state, param, cfg, arm, serving, timers, pub, pending, fault,
                 enableReply>>

\* Mutant: the link is closed but arm_ is kept, as on_error keeps it.
FinishCleanupKeepsArm(t) ==
  /\ pc[t] = "destroy"
  /\ Succeed(t, IF job[t] = "cleanup" THEN "unconfigured" ELSE "finalized")
  /\ UNCHANGED <<proc, held, param, cfg, arm, session, serving, timers, pub, pending, zeroG,
                 fault, enableReply>>

FinishCleanup(t) ==
  /\ pc[t] = "destroy"
  /\ DestroyArm
  /\ Succeed(t, IF job[t] = "cleanup" THEN "unconfigured" ELSE "finalized")
  /\ UNCHANGED <<proc, held, param, cfg, serving, timers, pub, pending, fault, enableReply>>

\* on_error only logs, and returns SUCCESS: whatever arm_ is, it stays.
OnError(t) ==
  /\ pc[t] = "on_error"
  /\ Succeed(t, "unconfigured")
  /\ UNCHANGED <<proc, held, param, cfg, arm, session, serving, timers, pub, pending, zeroG,
                 fault, enableReply>>

-----------------------------------------------------------------------------
(* Clients, the operator, the firmware and the operating system.             *)

\* A client calls a service that is advertised, and waits for the answer.
ClientCalls(s) ==
  /\ proc = "running" /\ serving
  /\ s \notin pending
  /\ \A t \in Threads : job[t] # s
  /\ pending' = pending \cup {s}
  /\ UNCHANGED <<proc, pc, job, held, busy, state, param, cfg, arm, session, serving, timers,
                 pub, zeroG, fault, enableReply>>

\* The parameter services are in the default group, and do not wait for anything.
SetParam ==
  /\ proc = "running"
  /\ LifecycleGroup \notin busy
  /\ param' \in ParamChoices \ {param}
  /\ UNCHANGED <<proc, pc, job, held, busy, state, cfg, arm, session, serving, timers, pub,
                 pending, zeroG, fault, enableReply>>

LinkLost ==
  /\ Connected(arm)
  /\ session' = [session EXCEPT ![arm] = "down"]
  /\ zeroG' = FALSE
  /\ UNCHANGED <<proc, pc, job, held, busy, state, param, cfg, arm, serving, timers, pub,
                 pending, fault, enableReply>>

FaultLatches ==
  /\ ~ fault
  /\ fault' = TRUE
  /\ zeroG' = FALSE
  /\ UNCHANGED <<proc, pc, job, held, busy, state, param, cfg, arm, session, serving, timers,
                 pub, pending, enableReply>>

\* Ctrl-C: spin() takes no more callbacks and returns when the threads are idle;
\* the node is destroyed without a transition.
Interrupt ==
  /\ proc = "running"
  /\ proc' = "stopping"
  /\ UNCHANGED <<pc, job, held, busy, state, param, cfg, arm, session, serving, timers, pub,
                 pending, zeroG, fault, enableReply>>

Exit ==
  /\ proc = "stopping"
  /\ \A t \in Threads : pc[t] = "idle"
  /\ proc' = "exited"
  /\ serving' = FALSE /\ pending' = {} /\ timers' = {}
  /\ pub' = [p \in Topics |-> "none"]
  /\ DestroyArm
  /\ UNCHANGED <<pc, job, held, busy, state, param, cfg, fault, enableReply>>

-----------------------------------------------------------------------------
\* A handler is inside an Arm that a transition has destroyed: C++ promises nothing
\* from here on, and no behaviour is modelled past it.
Undefined == \E t \in Threads : pc[t] = "call" /\ session[held[t]] = "gone"

Work(t) ==
  \/ BeginCall(t) \/ RefuseCall(t) \/ ReturnCall(t)
  \/ CreateArm(t) \/ ConnectOk(t) \/ ConfigureFails(t) \/ ReadLicense(t)
  \/ CreatePublishers(t) \/ CreatePublishersThrows(t)
  \/ BeginActivate(t) \/ EnableAcked(t) \/ EnableRefused(t) \/ CreateServices(t)
  \/ ActivatePublishers(t) \/ StartTimers(t) \/ StartTimersThrows(t)
  \/ BeginDeactivate(t) \/ LeaveZeroG(t) \/ StopTimers(t) \/ DestroyServices(t)
  \/ DeactivatePublishers(t) \/ CloseArm(t) \/ FinishCleanup(t) \/ OnError(t)

Accept(t) ==
  \/ \E s \in Services : TakeService(t, s)
  \/ \E m \in Timers : TakeTimer(t, m)
  \/ \E tr \in Transitions : TakeTransition(t, tr)

Environment ==
  \/ \E s \in Services : ClientCalls(s)
  \/ SetParam \/ LinkLost \/ FaultLatches \/ Interrupt

Ended == (Undefined \/ proc = "exited") /\ UNCHANGED vars

Next ==
  \/ ~ Undefined /\ (\/ \E t \in Threads : Work(t) \/ Accept(t)
                     \/ Environment \/ Exit)
  \/ Ended

Spec == Init /\ [][Next]_vars

\* SDK calls return, as their timeouts make them (a get_status whose client asked for an endless
\* one, which no gate stops, is outside this assumption), the executor keeps its threads running,
\* and a process whose threads are idle after Ctrl-C exits.  Nothing obliges a client, the
\* operator or the executor to start anything.
Fairness ==
  /\ \A t \in Threads : WF_vars(~ Undefined /\ Work(t))
  /\ WF_vars(~ Undefined /\ Exit)

FairSpec == Spec /\ Fairness

-----------------------------------------------------------------------------
(* Properties.                                                               *)

Live == {"new", "open", "down"}

TypeOK ==
  /\ proc \in {"running", "stopping", "exited"}
  /\ pc \in [Threads -> {"idle"} \cup SdkPcs \cup LifecyclePcs]
  /\ job \in [Threads -> {"none"} \cup Services \cup Timers \cup Transitions]
  /\ held \in [Threads -> Sessions \cup {NoSession}]
  /\ \A t \in Threads : pc[t] = "call" => held[t] \in Sessions
  /\ busy \subseteq Groups
  /\ state \in Primary \cup Passing
  /\ param \in ParamChoices /\ cfg \in ParamChoices
  /\ arm \in Sessions \cup {NoSession}
  /\ session \in [Sessions -> Live \cup {"unused", "gone"}]
  /\ serving \in BOOLEAN
  /\ timers \subseteq Timers
  /\ pub \in [Topics -> {"none", "inactive", "active"}]
  /\ pending \subseteq Services
  /\ zeroG \in BOOLEAN /\ fault \in BOOLEAN
  /\ enableReply \in {"none", "acked", "refused"}

\* Services and timers never run concurrently, whatever the number of executor threads
\* (the promise of sdk_group_), and no two transitions do.
CallbackExclusion ==
  \A t, u \in Threads :
    \/ pc[t] \in SdkPcs /\ pc[u] \in SdkPcs
    \/ pc[t] \in LifecyclePcs /\ pc[u] \in LifecyclePcs
    => t = u

\* arm_ always owns the only Arm that exists: over failed configures, errors that keep it,
\* reconfigures, cleanups and a reconnect in flight during any of them, none is leaked
\* with the serial port's lock and arm_ never points at a destroyed one.
ArmOwned == \A s \in Sessions : session[s] \in Live <=> s = arm

\* Nothing is advertised, and no timer runs.
Quiet == ~ serving /\ timers = {} /\ \A p \in Topics : pub[p] # "active"

\* No period in use is too long for a timer, so create_wall_timer does not throw.
PeriodsFit == \A p \in ParamChoices : p.fits = Timers

\* As long as every period fits a timer, a node that is not active, nor on its way in or out,
\* advertises nothing: a refused ENABLE, a failed configure or a publisher that throws leaves no
\* server, timer or activated publisher behind.  Without the premise it is false: on_activate
\* that throws in create_wall_timer ends unconfigured with its servers and publishers, and
\* perhaps the status timer.  (TeardownSilences is about those.)
SilentUnlessActive ==
  PeriodsFit /\ state \in {"unconfigured", "inactive", "finalized"} => Quiet

\* on_deactivate, on_cleanup and on_shutdown leave nothing advertised and no timer, whatever an
\* activation that threw in create_wall_timer had left behind and whichever parameters were set
\* since.
TeardownSilences ==
  [][state' \in Primary /\ state \in {"deactivating", "cleaning_up", "shutting_down"}
     => Quiet']_vars

\* A finalized node and an exited process hold no link, so the port is free for another
\* process, whichever handlers and transitions were under way.
PortReleased ==
  state = "finalized" \/ proc = "exited" => \A s \in Sessions : session[s] # "open"

\* An active node that was configured with auto_enable got its ENABLE acknowledged in the
\* activation that made it active ("the silent failure this node exists to prevent").
ActiveWasEnabled == state = "active" /\ cfg.auto_enable => enableReply = "acked"

\* A node at rest outside the active state starts nothing, as long as every period fits a timer:
\* the handler or timer that a deactivation did not wait for may still be running, but no other
\* one begins.  (The servers that an activation leaves when create_wall_timer throws do start
\* handlers.)
NothingStarts ==
  [][PeriodsFit =>
       \A t \in Threads :
         state \in {"unconfigured", "inactive", "finalized"} /\ pc'[t] \in SdkPcs
         => pc[t] \in SdkPcs]_vars

\* Every transition callback ends: the node does not stay between two primary states.
TransitionsEnd ==
  \A t \in Threads : pc[t] \in LifecyclePcs ~> (state \in Primary \/ Undefined)

\* A node that stays inactive falls quiet, as long as every period fits a timer: the handler or
\* timer that deactivation did not wait for returns, and no other one is ever started.  It rests
\* on that SDK call returning, so not on a get_status that its client made endless.
DeactivationQuiesces ==
  PeriodsFit /\ <>[](state = "inactive" /\ ~ Undefined)
  => <>[](\A t \in Threads : pc[t] \notin SdkPcs)

\* Ctrl-C ends the process with the port free, whatever was in progress, once the SDK call in
\* progress has returned (spin() waits for it, and an endless get_status would keep it waiting).
InterruptEnds == proc = "stopping" ~> ((proc = "exited" /\ arm = NoSession) \/ Undefined)

-----------------------------------------------------------------------------
(* The node as its operator sees it.                                         *)

Port == IF arm = NoSession THEN "none" ELSE IF session[arm] = "open" THEN "open" ELSE "closed"

Node == INSTANCE ManagedNode WITH alive <- proc # "exited", port <- Port

\* Whatever the threads, handlers, errors and Ctrl-C do, the process is a managed node: an Arm
\* comes into being and dies only inside the transitions that may do so, servers appear only
\* on the way to active, and every callback ends where its transition leads.
NodeRefined == Node!Spec

-----------------------------------------------------------------------------
(* What the documentation says and the code does not do: each is checked     *)
(* alone, and violated.                                                      *)

\* "Every SDK call is serialised": no handler is ever inside an Arm that a transition, which
\* is not in sdk_group_, has destroyed.
NoCallOnDestroyedArm == ~ Undefined

\* A fault latched at ENABLE: "clear it with /litearm/reset".
RefusedLeavesReset ==
  enableReply = "refused" /\ fault /\ state \in Primary => serving

\* Deactivating "stops zero gravity if it was active": an inactive node has no keep-alive
\* thread writing to the port.
ZeroGravityEndsAtDeactivate == state = "inactive" => ~ zeroG
=============================================================================
