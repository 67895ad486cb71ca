----------------------------- MODULE SerialStore -----------------------------
(***************************************************************************)
(* What a maintenance client may count on when it writes to the firmware:  *)
(* one request at a time, taking effect at most once and only between the  *)
(* call and its answer; an answer of success says that it took effect, a   *)
(* refusal that it did not, a failure that nobody knows.  How gates, wires *)
(* and lost acknowledgements bring it about is FlashStore's, which         *)
(* implements this specification.                                          *)
(***************************************************************************)
CONSTANTS
  Values,       \* contents of the joint parameters
  Factory,      \* the factory contents
  Requests      \* what clients ask: a service and its argument

VARIABLES
  ram,          \* ram.params, ram.model: the working copies
  flash,        \* flash.params, flash.model: what survives a power cycle
  request,      \* the request in progress, or the last one
  phase         \* "asked", "done" (took effect), "over" (nobody knows), or its answer

vars == <<ram, flash, request, phase>>

Answers == {"ok", "failed", "refused"}

Init ==
  /\ flash \in [params : Values, model : {{}}]
  /\ ram = flash
  /\ request \in Requests
  /\ phase = "refused"

-----------------------------------------------------------------------------
Ask ==
  /\ phase \in Answers
  /\ phase' = "asked"
  /\ request' \in Requests
  /\ UNCHANGED <<ram, flash>>

\* The request's effect on the working copies and on flash, all of it or none.
Staged ==
  CASE request.svc = "set_joint_params"     -> [ram EXCEPT !.params = request.arg]
    [] request.svc = "reset_factory_params" -> [ram EXCEPT !.params = Factory]
    [] request.svc = "set_model_body"       -> [ram EXCEPT !.model = @ \cup {request.arg}]
    [] request.svc \in {"revert_model", "commit_model"} -> [ram EXCEPT !.model = {}]
    [] OTHER -> ram
Stored ==
  CASE request.svc = "save_params"          -> [flash EXCEPT !.params = ram.params]
    [] request.svc = "reset_factory_params" -> [flash EXCEPT !.params = Factory]
    [] request.svc = "commit_model"         -> [flash EXCEPT !.model = ram.model]
    [] OTHER -> flash

TakeEffect ==
  /\ phase = "asked" /\ phase' = "done"
  /\ ram' = Staged /\ flash' = Stored
  /\ UNCHANGED request

\* The request is turned away by the firmware, or it or its acknowledgement is lost.
Lose ==
  /\ phase \in {"asked", "done"} /\ phase' = "over"
  /\ UNCHANGED <<ram, flash, request>>

Give ==
  /\ \/ phase = "done"  /\ phase' = "ok"
     \/ phase = "over"  /\ phase' = "failed"
     \/ phase = "asked" /\ phase' = "refused"
  /\ UNCHANGED <<ram, flash, request>>

\* The supply goes: the working copies are read again from flash, and nothing stays staged.
PowerCycle ==
  /\ ram' = [params |-> flash.params, model |-> {}]
  /\ phase' \in IF phase \in {"asked", "done"} THEN {phase, "over"} \ {"done"} ELSE {phase}
  /\ UNCHANGED <<flash, request>>

Next == Ask \/ TakeEffect \/ Lose \/ Give \/ PowerCycle

Spec == Init /\ [][Next]_vars
=============================================================================
