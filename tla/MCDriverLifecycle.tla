-------------------------- MODULE MCDriverLifecycle --------------------------
(* Small instances of DriverLifecycle for TLC. *)
EXTENDS DriverLifecycle, TLC

ThreadSymmetry  == Permutations(Threads)
SessionSymmetry == Permutations(Sessions)
BothSymmetries  == ThreadSymmetry \cup SessionSymmetry

Defaults == [auto_enable |-> TRUE, rates |-> Timers, fits |-> Timers,
             publish |-> {"diagnostics"}, topic_ok |-> TRUE, names_ok |-> TRUE]

DefaultParams == {Defaults}

\* A diagnostics rate too small for a timer period, installed while the node runs with the
\* defaults.
TinyRates == {Defaults, [Defaults EXCEPT !.auto_enable = FALSE, !.fits = {"status_timer"}]}

\* A topic name that create_publisher throws on, and joint names that do not fit the firmware.
BadTopicOrNames == {Defaults,
  [Defaults EXCEPT !.auto_enable = FALSE, !.rates = {"status_timer"},
                   !.publish = {"joint_states"}, !.topic_ok = FALSE],
  [Defaults EXCEPT !.names_ok = FALSE]}
=============================================================================
