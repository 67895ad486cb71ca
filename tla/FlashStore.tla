------------------------------ MODULE FlashStore ------------------------------
(***************************************************************************)
(* What the maintenance services write into the firmware: the joint        *)
(* parameters and the dynamics model, each with a working copy in RAM and  *)
(* a stored copy in flash.                                                 *)
(*                                                                         *)
(* One service handler runs at a time (sdk_group_).  Its gate reads the    *)
(* SDK's cached status frame, not the firmware; the frame lags, and the    *)
(* firmware may drop the motors between the gate and the command.  The     *)
(* link may fail before the command arrives or before its ACK comes back.  *)
(***************************************************************************)
CONSTANTS
  Values,       \* contents of the joint parameters
  Factory,      \* the factory contents
  Bodies,       \* the model's parts (bodies and joint terms), by their bit in a mask
  Narrow,       \* the bits of the uint16_t the SDK's commit() takes
  Wide          \* the bits of the uint32 expected_mask clients send

ASSUME FactoryAssumption == Factory \in Values
ASSUME MaskAssumption    == Bodies \subseteq Narrow /\ Narrow \subseteq Wide

Masks == SUBSET Bodies

VARIABLES
  link,         \* the SDK session is connected
  enabled,      \* the motors, in the firmware
  frame,        \* the motors, in the SDK's cached frame
  ram,          \* ram.params, ram.model (what is staged, a mask of bits)
  flash,        \* flash.params, flash.model (what was last committed)
  call,         \* the service call in progress, or the last one
  durable       \* the promise of each part's last acknowledged write: {} or one content

vars == <<link, enabled, frame, ram, flash, call, durable>>

Requests ==
  [svc : {"enable", "disable", "save_params", "reset_factory_params", "revert_model"}, arg : {{}}]
  \cup [svc : {"set_joint_params"}, arg : Values]
  \cup [svc : {"set_model_body"}, arg : Bodies]
  \cup [svc : {"commit_model"}, arg : SUBSET Wide]

Steps == {"gate", "wire", "acked", "rejected", "ok", "failed", "refused"}
Calls == {[svc |-> r.svc, arg |-> r.arg, at |-> step] : r \in Requests, step \in Steps}
Idle == call.at \in {"ok", "failed", "refused"}
In(at) == call.at = at
Move(at) == call' = [call EXCEPT !.at = at]

Init ==
  /\ link = TRUE
  /\ enabled \in BOOLEAN
  /\ frame = "none"
  /\ flash \in [params : Values, model : {{}}]
  /\ ram = [params |-> flash.params, model |-> {}]
  /\ call = [svc |-> "enable", arg |-> {}, at |-> "refused"]
  /\ durable = [params |-> {}, model |-> {}]

-----------------------------------------------------------------------------
(* The handlers.                                                             *)

Receive(r) ==
  /\ Idle
  /\ call' = [svc |-> r.svc, arg |-> r.arg, at |-> "gate"]
  /\ UNCHANGED <<link, enabled, frame, ram, flash, durable>>

\* motors_enabled(): the cached frame, and FALSE when there is none.
MotorsEnabled == frame = "enabled"

\* commit_model passes !motors_enabled() to the check that wants disabled motors.
Gate(svc) ==
  CASE svc \in {"save_params", "reset_factory_params"} -> ~ MotorsEnabled
    [] svc = "commit_model" -> MotorsEnabled
    [] OTHER -> TRUE

Refuse ==
  /\ In("gate")
  /\ ~ (Gate(call.svc) /\ link)
  /\ Move("refused")
  /\ UNCHANGED <<link, enabled, frame, ram, flash, durable>>

\* commit() takes static_cast<uint16_t>(expected_mask): the high bits are dropped.
Sent == call.arg \cap Narrow

\* A write that goes out makes the promise of the one before it void.
Voids(svc) == CASE svc \in {"save_params", "reset_factory_params"} -> {"params"}
                [] svc = "commit_model" -> {"model"}
                [] OTHER -> {}

Forward ==
  /\ In("gate")
  /\ Gate(call.svc) /\ link
  /\ Move("wire")
  /\ durable' = [p \in DOMAIN durable |-> IF p \in Voids(call.svc) THEN {} ELSE durable[p]]
  /\ UNCHANGED <<link, enabled, frame, ram, flash>>

\* run_command: the SDK throws on an ERR, a timeout or a lost link, and only then.
AnswerUnchecked == "ok"       \* mutant: the handler does not see the SDK's exception
Answer == IF In("acked") THEN "ok" ELSE "failed"

\* Mutant: a command that failed is sent again.
ReturnRetries ==
  /\ \/ In("acked") /\ Move("ok")
     \/ In("rejected") /\ Move("gate")
  /\ UNCHANGED <<link, enabled, frame, ram, flash, durable>>

Return ==
  /\ In("acked") \/ In("rejected")
  /\ Move(Answer)
  /\ durable' =
       CASE Answer = "ok" /\ call.svc = "save_params"          -> [durable EXCEPT !.params = {ram.params}]
         [] Answer = "ok" /\ call.svc = "reset_factory_params" -> [durable EXCEPT !.params = {Factory}]
         [] Answer = "ok" /\ call.svc = "commit_model"         -> [durable EXCEPT !.model = {Sent}]
         [] OTHER -> durable
  /\ UNCHANGED <<link, enabled, frame, ram, flash>>

-----------------------------------------------------------------------------
(* The firmware, as the driver's comments and documents describe it.          *)

\* It writes flash only with the motors disabled, and commits only what is staged.
AcceptsUnguarded == TRUE      \* mutant: the firmware has no rule of its own
Accepts ==
  /\ call.svc \in {"save_params", "reset_factory_params", "commit_model"} => ~ enabled
  /\ call.svc = "commit_model" => Sent = ram.model

Execute ==
  /\ In("wire") /\ link
  /\ Accepts
  /\ enabled' = CASE call.svc = "enable"  -> TRUE
                  [] call.svc = "disable" -> FALSE
                  [] OTHER -> enabled
  /\ ram' = CASE call.svc = "set_joint_params"     -> [ram EXCEPT !.params = call.arg]
              [] call.svc = "reset_factory_params" -> [ram EXCEPT !.params = Factory]
              [] call.svc = "set_model_body"       -> [ram EXCEPT !.model = @ \cup {call.arg}]
              [] call.svc \in {"revert_model", "commit_model"} -> [ram EXCEPT !.model = {}]
              [] OTHER -> ram
  /\ flash' = CASE call.svc = "save_params"          -> [flash EXCEPT !.params = ram.params]
                [] call.svc = "reset_factory_params" -> [flash EXCEPT !.params = Factory]
                [] call.svc = "commit_model"         -> [flash EXCEPT !.model = ram.model]
                [] OTHER -> flash
  /\ Move("acked")
  /\ UNCHANGED <<link, frame, durable>>

Reject ==
  /\ In("wire") /\ link
  /\ \/ ~ Accepts
     \/ call.svc = "enable"              \* a latched fault, a licence
  /\ Move("rejected")
  /\ UNCHANGED <<link, enabled, frame, ram, flash, durable>>

-----------------------------------------------------------------------------
(* The link and the world.                                                   *)

\* The command, or the ACK of a command that was executed, is lost.
LinkFails ==
  /\ link
  /\ link' = FALSE
  /\ call' = IF In("wire") \/ In("acked") THEN [call EXCEPT !.at = "rejected"] ELSE call
  /\ UNCHANGED <<enabled, frame, ram, flash, durable>>

\* handle_reconnect, between two calls: a new session has no frame yet.
Reconnect ==
  /\ ~ link /\ Idle
  /\ link' = TRUE
  /\ frame' = "none"
  /\ UNCHANGED <<enabled, ram, flash, call, durable>>

StatusFrame ==
  /\ link
  /\ frame' = IF enabled THEN "enabled" ELSE "disabled"
  /\ UNCHANGED <<link, enabled, ram, flash, call, durable>>

\* A fault or an emergency stop drops the motors without the driver.
MotorsDrop ==
  /\ enabled
  /\ enabled' = FALSE
  /\ UNCHANGED <<link, frame, ram, flash, call, durable>>

\* The 24 V supply goes: what was only in RAM is lost.
PowerCycle ==
  /\ link' = FALSE
  /\ enabled' = FALSE
  /\ ram' = [params |-> flash.params, model |-> {}]
  /\ call' = IF In("wire") \/ In("acked") THEN [call EXCEPT !.at = "rejected"] ELSE call
  /\ UNCHANGED <<frame, flash, durable>>

Next ==
  \/ \E r \in Requests : Receive(r)
  \/ Refuse \/ Forward \/ Return
  \/ Execute \/ Reject
  \/ LinkFails \/ Reconnect \/ StatusFrame \/ MotorsDrop \/ PowerCycle

Spec == Init /\ [][Next]_vars

-----------------------------------------------------------------------------
(* Properties.                                                               *)

TypeOK ==
  /\ link \in BOOLEAN /\ enabled \in BOOLEAN
  /\ frame \in {"none", "enabled", "disabled"}
  /\ ram \in [params : Values, model : Masks]
  /\ flash \in [params : Values, model : Masks]
  /\ call \in Calls
  /\ durable \in [params : SUBSET Values, model : SUBSET Masks]

\* What an answered save_params, reset_factory_params or commit_model promised is what
\* flash holds until the next such command goes out: over lost ACKs, faults, power cycles,
\* reconnects and frames that lag.
AckedIsDurable ==
  /\ \A v \in durable.params : flash.params = v
  /\ \A m \in durable.model : flash.model = m

-----------------------------------------------------------------------------
(* The firmware's memories as a maintenance client sees them.                 *)

Phase == CASE call.at \in {"gate", "wire"} -> "asked"
           [] In("acked")    -> "done"
           [] In("rejected") -> "over"
           [] OTHER          -> call.at

Store == INSTANCE SerialStore WITH request <- [svc |-> call.svc, arg |-> call.arg], phase <- Phase

\* Over gates that read a late frame, lost commands, lost ACKs and power cycles, the client
\* writes to a serial store: a write takes effect at most once, before its answer, a success
\* says that it did, and a refusal that it did not.
StoreRefined == Store!Spec

-----------------------------------------------------------------------------
(* What the documents say of commit_model, and the code does not do.          *)

\* It "needs the motors disabled": with the motors known to be off and the link up, the
\* driver does not turn a commit away.
CommitOfferedWhenDisabled ==
  [][call.svc = "commit_model" /\ In("gate") /\ frame = "disabled" /\ link
     => call'.at # "refused"]_vars

\* The commit is refused when expected_mask does not match what is staged, "which is what
\* stops a stale belief from being made permanent".
CommitIsWhatWasExpected ==
  call.svc = "commit_model" /\ In("ok") => durable.model = {call.arg}
=============================================================================
