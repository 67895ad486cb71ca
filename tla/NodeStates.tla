----------------------------- MODULE NodeStates -----------------------------
(* The state graph of a ROS 2 managed node, as rcl_lifecycle defines it. *)

Transitions == {"configure", "activate", "deactivate", "cleanup", "shutdown"}
Primary     == {"unconfigured", "inactive", "active", "finalized"}
Passing     == {"configuring", "activating", "deactivating", "cleaning_up",
                "shutting_down", "error_processing"}

\* change_state: the primary states that offer a transition, and the state of its callback.
Offered(tr) ==
  CASE tr = "configure"  -> {"unconfigured"}
    [] tr = "activate"   -> {"inactive"}
    [] tr = "deactivate" -> {"active"}
    [] tr = "cleanup"    -> {"inactive"}
    [] tr = "shutdown"   -> {"unconfigured", "inactive", "active"}
During(tr) ==
  CASE tr = "configure"  -> "configuring"
    [] tr = "activate"   -> "activating"
    [] tr = "deactivate" -> "deactivating"
    [] tr = "cleanup"    -> "cleaning_up"
    [] tr = "shutdown"   -> "shutting_down"
=============================================================================
