--------------------------- MODULE MCCommandGates ---------------------------
(* Requests at and beyond every boundary of the gates, on an arm of two axes and one of one. *)
EXTENDS CommandGates, TLC

CONSTANTS arm, bench

TwoArms == arm :> 2 @@ bench :> 1

Vec(n)  == [len |-> n, finite |-> TRUE]
Bad(n)  == [len |-> n, finite |-> FALSE]
Ask(s)  == [svc |-> s, vectors |-> <<>>, number |-> 0, index |-> 0, name |-> "empty"]
With(s, vectors, number) == [Ask(s) EXCEPT !.vectors = vectors, !.number = number]

Joints == {Vec(2), Vec(1), Vec(0), Bad(2)}
Speeds == {0, 1, 100, 101, NotFinite}

MotionRequests ==
  {Ask("home")}
  \cup {With("move_j", <<q>>, 50) : q \in Joints} \cup {With("move_j", <<Vec(2)>>, s) : s \in Speeds}
  \cup {With("move_p", <<Vec(6)>>, s) : s \in Speeds} \cup {With("move_l", <<Bad(6)>>, 50)}
  \cup {With("move_js", <<Vec(2), dq, Vec(0)>>, 0) : dq \in Joints}
  \cup {[With("send_mit", <<Vec(5)>>, 0) EXCEPT !.index = i] : i \in {-1, 0, 1, 2}}
  \cup {With("send_mit_all", <<Vec(2), Vec(2), Vec(2), Vec(2), tau>>, 0) : tau \in Joints}
  \cup {With("move_c", <<Vec(6), Vec(6), e>>, 100) : e \in {Vec(6), Bad(6)}}
  \cup {With("move_path", <<p>>, 1) : p \in {Vec(12), Vec(11), Vec(0)}}

OtherRequests ==
  {Ask(s) : s \in {ZeroGOn, "zero_g_off", "enter_dfu", "reconnect"}}
  \cup {With("set_payload", <<Vec(3)>>, m) : m \in {-1, 0, 20, 21, NotFinite}}
  \cup {With("set_feedforward_preset", <<>>, n) : n \in {-1, 0, 2, 3}}
  \cup {With("set_feedforward_vector", <<v>>, 0) : v \in {Vec(0), Vec(3), Bad(3)}}
  \cup {With("set_gravity_scale", <<v>>, 0) : v \in {Vec(2), Vec(7), Bad(7)}}
  \cup {With("set_gravity_vector", <<v>>, 0) : v \in {Vec(3), Bad(3)}}
  \cup {With("inverse_kinematics", <<Vec(6), s>>, 3) : s \in {Vec(0), Vec(2), Vec(7)}}
  \cup {With("get_status", <<>>, t) : t \in {0, 3, NotFinite}}
  \cup {With("kin_bench", <<>>, t) : t \in {-1, 0, 8, NotFinite}}
  \cup {With("log_start", <<>>, n) : n \in {0, 1}}
  \cup {[With("log_dump", <<>>, 0) EXCEPT !.name = f] : f \in {"plain", "path"}}
  \cup {[Ask("get_joint_params") EXCEPT !.index = i] : i \in {-1, 0, 1, 2}}
  \cup {[With("set_joint_gains", <<v>>, 0) EXCEPT !.index = i] : v \in {Vec(3), Bad(3)},
                                                               i \in {-1, 0, 1, 2}}

AllRequests == MotionRequests \cup OtherRequests

Switches == [allow_motion |-> TRUE, allow_dfu |-> FALSE, period |-> 40]
SomeParams ==
  {Switches,
   [Switches EXCEPT !.allow_motion = FALSE, !.period = 5],
   [Switches EXCEPT !.allow_motion = FALSE, !.allow_dfu = TRUE, !.period = 100],
   [Switches EXCEPT !.period = NotFinite]}
=============================================================================
