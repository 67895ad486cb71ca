--------------------------- MODULE FlashStoreProofs ---------------------------
(***************************************************************************)
(* Theorems about FlashStore, for any contents of the parameters, any      *)
(* model parts that fit the mask, and any width of the mask.               *)
(***************************************************************************)
EXTENDS FlashStore, TLAPS

Records  == [params : Values, model : Masks]
Promises == [params : SUBSET Values, model : SUBSET Masks]

\* A write on the wire has already voided the promise it is about to break, and an
\* acknowledgement on its way back is of what flash holds.
WireVoids == In("wire") => \A p \in Voids(call.svc) : durable[p] = {}
AckTrue ==
  In("acked") =>
    /\ call.svc = "save_params" => flash.params = ram.params
    /\ call.svc = "reset_factory_params" => flash.params = Factory
    /\ call.svc = "commit_model" => flash.model = Sent
DurableInv == WireVoids /\ AckTrue /\ AckedIsDurable

-----------------------------------------------------------------------------
(* The call in progress.                                                     *)

\* A request at a step is a call.
LEMMA RequestIsCall ==
  ASSUME NEW r \in Requests, NEW step \in Steps
  PROVE  [svc |-> r.svc, arg |-> r.arg, at |-> step] \in Calls
BY DEF Calls

\* A call is a record that only its step can change.
LEMMA CallMoves ==
  ASSUME call \in Calls, NEW step \in Steps, call' = [call EXCEPT !.at = step]
  PROVE  call' \in Calls /\ call'.at = step /\ call'.svc = call.svc /\ call'.arg = call.arg
<1>1. PICK r \in Requests, a \in Steps : call = [svc |-> r.svc, arg |-> r.arg, at |-> a]
  BY DEF Calls
<1>2. call' = [svc |-> r.svc, arg |-> r.arg, at |-> step]
  BY <1>1
<1> QED
  BY <1>1, <1>2 DEF Calls

\* The argument of a call is of the kind its service takes.
LEMMA CallArgument ==
  ASSUME call \in Calls
  PROVE  /\ call.at \in Steps
         /\ call.svc = "set_joint_params" => call.arg \in Values
         /\ call.svc = "set_model_body" => call.arg \in Bodies
         /\ call.svc = "commit_model" => call.arg \subseteq Wide
<1>1. PICK r \in Requests, a \in Steps : call = [svc |-> r.svc, arg |-> r.arg, at |-> a]
  BY DEF Calls
<1>2. call.svc = r.svc /\ call.arg = r.arg /\ call.at = a
  BY <1>1
<1> QED
  BY <1>2 DEF Requests

-----------------------------------------------------------------------------
(* Type correctness.                                                         *)

\* The firmware as the driver finds it, before any call, is well typed.
LEMMA FlashTypeInit == ASSUME Init PROVE TypeOK
<1> USE FactoryAssumption
<1>1. [svc |-> "enable", arg |-> {}] \in Requests
  BY DEF Requests
<1>2. call \in Calls
  <2> DEFINE r == [svc |-> "enable", arg |-> {}]
  <2>1. [svc |-> r.svc, arg |-> r.arg, at |-> "refused"] \in Calls
    BY <1>1, RequestIsCall, "refused" \in Steps DEF Steps
  <2> QED
    BY <2>1 DEF Init
<1>3. ram \in Records /\ flash \in Records
  BY DEF Init, Records, Masks
<1>4. durable \in Promises
  BY DEF Init, Promises
<1>5. QED
  BY <1>2, <1>3, <1>4 DEF Init, TypeOK, Records, Promises

\* Each step of the handlers, of the firmware and of the link keeps the types: the promise
\* of a commit is a mask of existing parts because its acknowledgement is true.
LEMMA FlashTypeStep == ASSUME TypeOK, DurableInv, [Next]_vars PROVE TypeOK'
<1> USE FactoryAssumption
<1>0. ram \in Records /\ flash \in Records /\ durable \in Promises /\ call \in Calls
  BY DEF TypeOK, Records, Promises
<1>1. ASSUME NEW r \in Requests, Receive(r) PROVE TypeOK'
  <2>1. call' \in Calls
    BY <1>1, RequestIsCall DEF Receive, Steps
  <2> QED
    BY <1>1, <2>1 DEF Receive, TypeOK
<1>2. CASE Refuse
  <2>1. call' \in Calls
    BY <1>0, <1>2, CallMoves DEF Refuse, Move, Steps
  <2> QED
    BY <1>2, <2>1 DEF Refuse, TypeOK
<1>3. CASE Forward
  <2>1. call' \in Calls
    BY <1>0, <1>3, CallMoves DEF Forward, Move, Steps
  <2>2. durable' \in Promises
    BY <1>0, <1>3 DEF Forward, Promises
  <2> QED
    BY <1>3, <2>1, <2>2 DEF Forward, TypeOK, Promises
<1>4. CASE Return
  <2>1. call' \in Calls
    BY <1>0, <1>4, CallMoves DEF Return, Move, Answer, Steps
  <2>2. Answer = "ok" /\ call.svc = "commit_model" => Sent \in Masks
    BY <1>0 DEF Answer, DurableInv, AckTrue, Records
  <2>3. durable' \in Promises
    BY <1>0, <1>4, <2>2 DEF Return, Records, Promises
  <2> QED
    BY <1>4, <2>1, <2>3 DEF Return, TypeOK, Promises
<1>5. CASE Execute
  <2>1. call' \in Calls
    BY <1>0, <1>5, CallMoves DEF Execute, Move, Steps
  <2>2. ram' \in Records
    <3>1. call.svc = "set_model_body" => ram.model \cup {call.arg} \in Masks
      BY <1>0, CallArgument DEF Records, Masks
    <3>2. call.svc = "set_joint_params" => call.arg \in Values
      BY <1>0, CallArgument
    <3> QED
      BY <1>0, <1>5, <3>1, <3>2 DEF Execute, Records, Masks
  <2>3. flash' \in Records
    BY <1>0, <1>5 DEF Execute, Records
  <2>4. enabled' \in BOOLEAN
    BY <1>5 DEF Execute, TypeOK
  <2> QED
    BY <1>5, <2>1, <2>2, <2>3, <2>4 DEF Execute, TypeOK, Records
<1>6. CASE Reject
  <2>1. call' \in Calls
    BY <1>0, <1>6, CallMoves DEF Reject, Move, Steps
  <2> QED
    BY <1>6, <2>1 DEF Reject, TypeOK
<1>7. CASE LinkFails
  <2>1. call' \in Calls
    BY <1>0, <1>7, CallMoves DEF LinkFails, Steps
  <2> QED
    BY <1>7, <2>1 DEF LinkFails, TypeOK
<1>8. CASE Reconnect
  BY <1>8 DEF Reconnect, TypeOK
<1>9. CASE StatusFrame
  BY <1>9 DEF StatusFrame, TypeOK
<1>10. CASE MotorsDrop
  BY <1>10 DEF MotorsDrop, TypeOK
<1>11. CASE PowerCycle
  <2>1. call' \in Calls
    BY <1>0, <1>11, CallMoves DEF PowerCycle, Steps
  <2>2. ram' \in Records
    BY <1>0, <1>11 DEF PowerCycle, Records, Masks
  <2> QED
    BY <1>11, <2>1, <2>2 DEF PowerCycle, TypeOK, Records
<1>12. CASE UNCHANGED vars
  BY <1>12 DEF vars, TypeOK
<1> QED
  BY <1>1, <1>2, <1>3, <1>4, <1>5, <1>6, <1>7, <1>8, <1>9, <1>10, <1>11, <1>12 DEF Next


-----------------------------------------------------------------------------
(* Durability.                                                               *)

\* Whatever a step does to the link, the motors and the frame, an invariant of the memories
\* and of the call is kept when those stay.
LEMMA DurableKept ==
  ASSUME DurableInv, UNCHANGED <<ram, flash, durable>>,
         call'.at \notin {"wire", "acked"} \/ call' = call
  PROVE  DurableInv'
BY DEF DurableInv, WireVoids, AckTrue, AckedIsDurable, In, Voids, Sent

\* Each step of the handlers, of the firmware and of the link keeps DurableInv.
LEMMA DurableStep == ASSUME TypeOK, DurableInv, [Next]_vars PROVE DurableInv'
<1>0. ram \in Records /\ flash \in Records /\ durable \in Promises /\ call \in Calls
  BY DEF TypeOK, Records, Promises
<1>1. ASSUME NEW r \in Requests, Receive(r) PROVE DurableInv'
  <2>1. call'.at = "gate"
    BY <1>1 DEF Receive
  <2> QED
    BY <1>1, <2>1, DurableKept DEF Receive
<1>2. CASE Refuse
  <2>1. call'.at = "refused"
    BY <1>0, <1>2, CallMoves DEF Refuse, Move, Steps
  <2> QED
    BY <1>2, <2>1, DurableKept DEF Refuse
<1>3. CASE Forward
  <2>1. call'.at = "wire" /\ call'.svc = call.svc
    BY <1>0, <1>3, CallMoves DEF Forward, Move, Steps
  <2>2. WireVoids'
    <3>1. Voids(call.svc) \subseteq DOMAIN durable
      BY <1>0 DEF Voids, Promises
    <3> QED
      BY <1>3, <2>1, <3>1 DEF Forward, WireVoids, Voids
  <2>3. AckTrue'
    BY <2>1 DEF AckTrue, In
  <2>4. AckedIsDurable'
    <3>1. \A p \in {"params", "model"} : durable'[p] \in {{}, durable[p]}
      BY <1>0, <1>3 DEF Forward, Promises
    <3>2. UNCHANGED flash
      BY <1>3 DEF Forward
    <3> QED
      BY <3>1, <3>2 DEF DurableInv, AckedIsDurable
  <2> QED
    BY <2>2, <2>3, <2>4 DEF DurableInv
<1>4. CASE Return
  <2>1. call'.at \in {"ok", "failed"}
    BY <1>0, <1>4, CallMoves DEF Return, Move, Answer, Steps
  <2>2. UNCHANGED <<ram, flash>>
    BY <1>4 DEF Return
  <2>3. Answer = "ok" => In("acked")
    BY DEF Answer
  <2>4. AckedIsDurable'
    <3>1. CASE Answer = "ok" /\ call.svc = "save_params"
      BY <1>0, <1>4, <2>2, <2>3, <3>1 DEF Return, DurableInv, AckTrue, AckedIsDurable, Promises
    <3>2. CASE Answer = "ok" /\ call.svc = "reset_factory_params"
      BY <1>0, <1>4, <2>2, <2>3, <3>2 DEF Return, DurableInv, AckTrue, AckedIsDurable, Promises
    <3>3. CASE Answer = "ok" /\ call.svc = "commit_model"
      BY <1>0, <1>4, <2>2, <2>3, <3>3
         DEF Return, DurableInv, AckTrue, AckedIsDurable, Promises, Sent
    <3>4. CASE ~ (Answer = "ok" /\ call.svc \in
                    {"save_params", "reset_factory_params", "commit_model"})
      <4>1. UNCHANGED durable
        BY <1>4, <3>4 DEF Return
      <4> QED
        BY <2>2, <4>1 DEF DurableInv, AckedIsDurable
    <3> QED
      BY <3>1, <3>2, <3>3, <3>4
  <2> QED
    BY <2>1, <2>4 DEF DurableInv, WireVoids, AckTrue, In
<1>5. CASE Execute
  <2>1. call'.at = "acked" /\ call'.svc = call.svc /\ call'.arg = call.arg
    BY <1>0, <1>5, CallMoves DEF Execute, Move, Steps
  <2>2. WireVoids'
    BY <2>1 DEF WireVoids, In
  <2>3. AckTrue'
    <3>1. CASE call.svc = "save_params"
      BY <1>0, <1>5, <2>1, <3>1 DEF Execute, AckTrue, Records
    <3>2. CASE call.svc = "reset_factory_params"
      BY <1>0, <1>5, <2>1, <3>2 DEF Execute, AckTrue, Records
    <3>3. CASE call.svc = "commit_model"
      BY <1>0, <1>5, <2>1, <3>3 DEF Execute, AckTrue, Records, Accepts, Sent
    <3> QED
      BY <2>1, <3>1, <3>2, <3>3 DEF AckTrue
  <2>4. AckedIsDurable'
    <3>1. In("wire") /\ UNCHANGED durable
      BY <1>5 DEF Execute
    <3>2. CASE call.svc \in {"save_params", "reset_factory_params"}
      <4>1. durable.params = {} /\ flash'.model = flash.model
        BY <1>0, <1>5, <3>1, <3>2 DEF Execute, DurableInv, WireVoids, Voids, Records
      <4> QED
        BY <3>1, <4>1 DEF DurableInv, AckedIsDurable
    <3>3. CASE call.svc = "commit_model"
      <4>1. durable.model = {} /\ flash'.params = flash.params
        BY <1>0, <1>5, <3>1, <3>3 DEF Execute, DurableInv, WireVoids, Voids, Records
      <4> QED
        BY <3>1, <4>1 DEF DurableInv, AckedIsDurable
    <3>4. CASE call.svc \notin {"save_params", "reset_factory_params", "commit_model"}
      <4>1. UNCHANGED flash
        BY <1>5, <3>4 DEF Execute
      <4> QED
        BY <3>1, <4>1 DEF DurableInv, AckedIsDurable
    <3> QED
      BY <3>2, <3>3, <3>4
  <2> QED
    BY <2>2, <2>3, <2>4 DEF DurableInv
<1>6. CASE Reject
  <2>1. call'.at = "rejected"
    BY <1>0, <1>6, CallMoves DEF Reject, Move, Steps
  <2> QED
    BY <1>6, <2>1, DurableKept DEF Reject
<1>7. CASE LinkFails
  <2>1. call'.at \notin {"wire", "acked"} \/ call' = call
    BY <1>0, <1>7, CallMoves DEF LinkFails, Steps
  <2> QED
    BY <1>7, <2>1, DurableKept DEF LinkFails
<1>8. CASE Reconnect
  BY <1>8, DurableKept DEF Reconnect
<1>9. CASE StatusFrame
  BY <1>9, DurableKept DEF StatusFrame
<1>10. CASE MotorsDrop
  BY <1>10, DurableKept DEF MotorsDrop
<1>11. CASE PowerCycle
  <2>1. call'.at \notin {"wire", "acked"}
    BY <1>0, <1>11, CallMoves DEF PowerCycle, In, Steps
  <2>2. UNCHANGED <<flash, durable>>
    BY <1>11 DEF PowerCycle
  <2> QED
    BY <2>1, <2>2 DEF DurableInv, WireVoids, AckTrue, AckedIsDurable, In
<1>12. CASE UNCHANGED vars
  BY <1>12, DurableKept DEF vars
<1> QED
  BY <1>1, <1>2, <1>3, <1>4, <1>5, <1>6, <1>7, <1>8, <1>9, <1>10, <1>11, <1>12 DEF Next

-----------------------------------------------------------------------------
(* The theorems.                                                             *)

\* The strengthened invariant: types, and DurableInv.
LEMMA FlashInvariant == Spec => [](TypeOK /\ DurableInv)
<1>1. Init => TypeOK /\ DurableInv
  <2> SUFFICES ASSUME Init PROVE TypeOK /\ DurableInv
    OBVIOUS
  <2>1. call.at = "refused" /\ durable = [params |-> {}, model |-> {}]
    BY DEF Init
  <2>2. DurableInv
    BY <2>1 DEF DurableInv, WireVoids, AckTrue, AckedIsDurable, In
  <2> QED
    BY <2>2, FlashTypeInit
<1>2. TypeOK /\ DurableInv /\ [Next]_vars => (TypeOK /\ DurableInv)'
  BY FlashTypeStep, DurableStep
<1> QED
  BY <1>1, <1>2, PTL DEF Spec

\* In every reachable state the firmware's memories hold joint parameters and masks of
\* existing model parts, and the call in progress is one of the services' requests.
THEOREM FlashTypeCorrect == Spec => []TypeOK
BY FlashInvariant, PTL

\* What an answered save_params, reset_factory_params or commit_model promised stays in
\* flash until the next such command goes out, over lost ACKs, faults, power cycles,
\* reconnects and frames that lag.
THEOREM Durability == Spec => []AckedIsDurable
<1>1. DurableInv => AckedIsDurable
  BY DEF DurableInv
<1> QED
  BY <1>1, FlashInvariant, PTL

-----------------------------------------------------------------------------
(* The serial store.                                                         *)

\* A step that leaves the memories and the request alone, and moves the phase from p to q.
LEMMA StorePhase ==
  ASSUME UNCHANGED <<ram, flash>>, call'.svc = call.svc, call'.arg = call.arg,
         \/ Phase' = Phase
         \/ Phase \in {"asked", "done"} /\ Phase' = "over"
         \/ Phase = "done"  /\ Phase' = "ok"
         \/ Phase = "over"  /\ Phase' = "failed"
         \/ Phase = "asked" /\ Phase' = "refused"
  PROVE  [Store!Next]_(Store!vars)
BY DEF Store!Next, Store!Lose, Store!Give, Store!vars

\* The driver's and the firmware's first state is one of the serial store.
LEMMA StoreInit == ASSUME Init PROVE Store!Init
<1>1. [svc |-> call.svc, arg |-> call.arg] \in Requests
  BY DEF Init, Requests
<1>2. Phase = "refused"
  BY DEF Init, Phase, In
<1>3. ram = flash
  BY DEF Init
<1> QED
  BY <1>1, <1>2, <1>3 DEF Init, Store!Init

\* Each step of the handlers, of the firmware and of the link is a step of the serial store,
\* or changes nothing that a client sees of it.
LEMMA StoreStep == ASSUME TypeOK, [Next]_vars PROVE [Store!Next]_(Store!vars)
<1>0. call \in Calls
  BY DEF TypeOK
<1>1. ASSUME NEW r \in Requests, Receive(r) PROVE [Store!Next]_(Store!vars)
  <2>1. Phase \in Store!Answers /\ Phase' = "asked"
    BY <1>1 DEF Receive, Phase, Idle, In, Store!Answers
  <2>2. [svc |-> call'.svc, arg |-> call'.arg] \in Requests
    BY <1>1 DEF Receive, Requests
  <2> QED
    BY <1>1, <2>1, <2>2 DEF Receive, Store!Next, Store!Ask
<1>2. CASE Refuse
  <2>1. call'.at = "refused" /\ call'.svc = call.svc /\ call'.arg = call.arg
    BY <1>0, <1>2, CallMoves DEF Refuse, Move, Steps
  <2> QED
    BY <1>2, <2>1, StorePhase DEF Refuse, Phase, In
<1>3. CASE Forward
  <2>1. call'.at = "wire" /\ call'.svc = call.svc /\ call'.arg = call.arg
    BY <1>0, <1>3, CallMoves DEF Forward, Move, Steps
  <2> QED
    BY <1>3, <2>1, StorePhase DEF Forward, Phase, In
<1>4. CASE Return
  <2>1. call'.at = Answer /\ call'.svc = call.svc /\ call'.arg = call.arg
    BY <1>0, <1>4, CallMoves DEF Return, Move, Answer, Steps
  <2>2. \/ Phase = "done" /\ Phase' = "ok"
        \/ Phase = "over" /\ Phase' = "failed"
    BY <1>4, <2>1 DEF Return, Answer, Phase, In
  <2> QED
    BY <1>4, <2>1, <2>2, StorePhase DEF Return
<1>5. CASE Execute
  <2>1. call'.at = "acked" /\ call'.svc = call.svc /\ call'.arg = call.arg
    BY <1>0, <1>5, CallMoves DEF Execute, Move, Steps
  <2>2. Phase = "asked" /\ Phase' = "done"
    BY <1>5, <2>1 DEF Execute, Phase, In
  <2>3. ram' = Store!Staged /\ flash' = Store!Stored
    BY <1>5 DEF Execute, Store!Staged, Store!Stored
  <2> QED
    BY <2>1, <2>2, <2>3 DEF Store!Next, Store!TakeEffect
<1>6. CASE Reject
  <2>1. call'.at = "rejected" /\ call'.svc = call.svc /\ call'.arg = call.arg
    BY <1>0, <1>6, CallMoves DEF Reject, Move, Steps
  <2> QED
    BY <1>6, <2>1, StorePhase DEF Reject, Phase, In
<1>7. CASE LinkFails
  <2>1. CASE In("wire") \/ In("acked")
    <3>1. call'.at = "rejected" /\ call'.svc = call.svc /\ call'.arg = call.arg
      BY <1>0, <1>7, <2>1, CallMoves DEF LinkFails, Steps
    <3> QED
      BY <1>7, <2>1, <3>1, StorePhase DEF LinkFails, Phase, In
  <2>2. CASE ~ (In("wire") \/ In("acked"))
    BY <1>7, <2>2, StorePhase DEF LinkFails, Phase, In
  <2> QED
    BY <2>1, <2>2
<1>8. CASE PowerCycle
  <2>1. CASE In("wire") \/ In("acked")
    <3>1. call'.at = "rejected" /\ call'.svc = call.svc /\ call'.arg = call.arg
      BY <1>0, <1>8, <2>1, CallMoves DEF PowerCycle, Steps
    <3>2. Phase \in {"asked", "done"} /\ Phase' = "over"
      BY <2>1, <3>1 DEF Phase, In
    <3> QED
      BY <1>8, <3>1, <3>2 DEF PowerCycle, Store!Next, Store!PowerCycle
  <2>2. CASE ~ (In("wire") \/ In("acked"))
    <3>1. call' = call
      BY <1>8, <2>2 DEF PowerCycle
    <3>2. Phase' = Phase /\ Phase # "done"
      BY <1>0, <2>2, <3>1, CallArgument DEF Phase, In, Steps
    <3> QED
      BY <1>8, <3>1, <3>2 DEF PowerCycle, Store!Next, Store!PowerCycle
  <2> QED
    BY <2>1, <2>2
<1>9. CASE Reconnect \/ StatusFrame \/ MotorsDrop \/ UNCHANGED vars
  <2>1. UNCHANGED <<ram, flash, call>>
    BY <1>9 DEF Reconnect, StatusFrame, MotorsDrop, vars
  <2> QED
    BY <2>1, StorePhase DEF Phase, In
<1> QED
  BY <1>1, <1>2, <1>3, <1>4, <1>5, <1>6, <1>7, <1>8, <1>9 DEF Next

\* The driver and the firmware together implement the serial store: whatever is lost on the
\* wire, a write takes effect at most once, before its answer, and as the answer says.
THEOREM StoreImplements == Spec => StoreRefined
<1>1. Init => Store!Init
  BY StoreInit
<1>2. TypeOK /\ [Next]_vars => [Store!Next]_(Store!vars)
  BY StoreStep
<1> QED
  BY <1>1, <1>2, FlashTypeCorrect, PTL DEF Spec, StoreRefined, Store!Spec

-----------------------------------------------------------------------------
(* When commit_model does what its documents say.                            *)

\* The cached frame lags: a session whose frame shows the motors on may have them off.
FrameTrue == link /\ frame = "enabled" => enabled

\* No commit has taken effect, and none was answered with success.
NothingCommitted ==
  /\ flash.model = {}
  /\ ~ (call.svc = "commit_model" /\ call.at \in {"acked", "ok"})

\* A commit on the wire has passed its gate on a frame that shows the motors on.
CommitInv ==
  /\ NothingCommitted
  /\ call.svc = "commit_model" /\ In("wire") => link /\ frame = "enabled"

\* A step that does not send a commit.
LEMMA CommitKept ==
  ASSUME CommitInv, UNCHANGED flash, call'.svc = call.svc,
         call'.at \notin {"wire", "acked", "ok"} \/ (call' = call /\ UNCHANGED <<link, frame>>)
  PROVE  CommitInv'
BY DEF CommitInv, NothingCommitted, In

LEMMA CommitStep == ASSUME TypeOK, FrameTrue, CommitInv, [Next]_vars PROVE CommitInv'
<1>0. ram \in Records /\ flash \in Records /\ call \in Calls
  BY DEF TypeOK, Records
<1>1. ASSUME NEW r \in Requests, Receive(r) PROVE CommitInv'
  BY <1>1 DEF Receive, CommitInv, NothingCommitted, In
<1>2. CASE Refuse
  <2>1. call'.at = "refused" /\ call'.svc = call.svc
    BY <1>0, <1>2, CallMoves DEF Refuse, Move, Steps
  <2> QED
    BY <1>2, <2>1, CommitKept DEF Refuse
\* The gate of commit_model opens on a frame that shows the motors on.
<1>3. CASE Forward
  <2>1. call'.at = "wire" /\ call'.svc = call.svc
    BY <1>0, <1>3, CallMoves DEF Forward, Move, Steps
  <2>2. call.svc = "commit_model" => link /\ frame = "enabled"
    BY <1>3 DEF Forward, Gate, MotorsEnabled
  <2> QED
    BY <1>3, <2>1, <2>2 DEF Forward, CommitInv, NothingCommitted
<1>4. CASE Return
  <2>1. call'.at = Answer /\ call'.svc = call.svc
    BY <1>0, <1>4, CallMoves DEF Return, Move, Answer, Steps
  <2>2. call.svc = "commit_model" => Answer = "failed"
    BY DEF CommitInv, NothingCommitted, In, Answer
  <2> QED
    BY <1>4, <2>1, <2>2 DEF Return, CommitInv, NothingCommitted, In, Answer
\* The firmware writes flash only with the motors off, which the frame would show.
<1>5. CASE Execute
  <2>1. call.svc # "commit_model"
    BY <1>5 DEF Execute, Accepts, CommitInv, FrameTrue
  <2>2. call'.svc = call.svc
    BY <1>0, <1>5, CallMoves DEF Execute, Move, Steps
  <2>3. flash'.model = flash.model
    BY <1>0, <1>5, <2>1 DEF Execute, Records
  <2> QED
    BY <2>1, <2>2, <2>3 DEF CommitInv, NothingCommitted
<1>6. CASE Reject
  <2>1. call'.at = "rejected" /\ call'.svc = call.svc
    BY <1>0, <1>6, CallMoves DEF Reject, Move, Steps
  <2> QED
    BY <1>6, <2>1, CommitKept DEF Reject
<1>7. CASE LinkFails \/ PowerCycle
  <2>1. CASE In("wire") \/ In("acked")
    <3>1. call'.at = "rejected" /\ call'.svc = call.svc
      BY <1>0, <1>7, <2>1, CallMoves DEF LinkFails, PowerCycle, Steps
    <3> QED
      BY <1>7, <3>1, CommitKept DEF LinkFails, PowerCycle
  <2>2. CASE ~ (In("wire") \/ In("acked"))
    BY <1>7, <2>2 DEF LinkFails, PowerCycle, CommitInv, NothingCommitted, In
  <2> QED
    BY <2>1, <2>2
<1>8. CASE Reconnect
  BY <1>8 DEF Reconnect, Idle, In, CommitInv, NothingCommitted
<1>9. CASE StatusFrame
  BY <1>9 DEF StatusFrame, FrameTrue, CommitInv, NothingCommitted, In
<1>10. CASE MotorsDrop \/ UNCHANGED vars
  BY <1>10 DEF MotorsDrop, vars, CommitInv, NothingCommitted, In
<1> QED
  BY <1>1, <1>2, <1>3, <1>4, <1>5, <1>6, <1>7, <1>8, <1>9, <1>10 DEF Next

\* commit_model works only by mistake: as long as no session's frame shows motors on that are
\* off, the driver's inverted gate and the firmware's own rule leave no commit through, and
\* what is in flash stays as it was (commit_model passes !motors_enabled()).
THEOREM CommitNeedsStaleFrame == Spec /\ []FrameTrue => []NothingCommitted
<1>1. Init => CommitInv
  BY DEF Init, CommitInv, NothingCommitted, In
<1>2. TypeOK /\ FrameTrue /\ CommitInv /\ [Next]_vars => CommitInv'
  BY CommitStep
<1>3. CommitInv => NothingCommitted
  BY DEF CommitInv
<1> QED
  BY <1>1, <1>2, <1>3, FlashTypeCorrect, PTL DEF Spec

\* For clients whose masks fit 16 bits, a commit answered with success made permanent exactly
\* what its mask named: the cast to uint16_t is all that stands between the code and its
\* comment.
THEOREM NarrowMasksAreKept == Wide \subseteq Narrow => (Spec => []CommitIsWhatWasExpected)
<1> SUFFICES ASSUME Wide \subseteq Narrow PROVE Spec => []CommitIsWhatWasExpected
  OBVIOUS
<1>1. ASSUME TypeOK, CommitIsWhatWasExpected, [Next]_vars PROVE CommitIsWhatWasExpected'
  <2>0. call \in Calls /\ durable \in Promises
    BY <1>1 DEF TypeOK, Promises
  <2>1. CASE Return
    <3>1. call'.at = Answer /\ call'.svc = call.svc /\ call'.arg = call.arg
      BY <2>0, <2>1, CallMoves DEF Return, Move, Answer, Steps
    <3>2. Answer = "ok" /\ call.svc = "commit_model" => durable'.model = {Sent}
      BY <2>0, <2>1 DEF Return, Promises
    <3>3. call.svc = "commit_model" => Sent = call.arg
      BY <2>0, CallArgument DEF Sent
    <3> QED
      BY <3>1, <3>2, <3>3 DEF CommitIsWhatWasExpected, In
  <2>2. CASE (\E r \in Requests : Receive(r)) \/ Refuse \/ Forward \/ Execute \/ Reject
    <3>1. Move("refused") \/ Move("wire") \/ Move("acked") \/ Move("rejected") => call'.at # "ok"
      BY <2>0, CallMoves DEF Move, Steps
    <3>2. ASSUME NEW r \in Requests, Receive(r) PROVE call'.at # "ok"
      BY <3>2 DEF Receive
    <3>3. Refuse \/ Forward \/ Execute \/ Reject => call'.at # "ok"
      BY <3>1 DEF Refuse, Forward, Execute, Reject
    <3> QED
      BY <2>2, <3>2, <3>3 DEF CommitIsWhatWasExpected, In
  <2>3. CASE LinkFails \/ PowerCycle
    <3>1. UNCHANGED durable /\ (call' = call \/ call'.at # "ok")
      BY <2>0, <2>3, CallMoves DEF LinkFails, PowerCycle, Steps
    <3> QED
      BY <1>1, <3>1 DEF CommitIsWhatWasExpected, In
  <2>4. CASE Reconnect \/ StatusFrame \/ MotorsDrop \/ UNCHANGED vars
    BY <1>1, <2>4 DEF Reconnect, StatusFrame, MotorsDrop, vars, CommitIsWhatWasExpected, In
  <2> QED
    BY <1>1, <2>1, <2>2, <2>3, <2>4 DEF Next
<1>2. Init => CommitIsWhatWasExpected
  BY DEF Init, CommitIsWhatWasExpected, In
<1> QED
  BY <1>1, <1>2, FlashTypeCorrect, PTL DEF Spec
=============================================================================
