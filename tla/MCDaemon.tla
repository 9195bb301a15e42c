------------------------------ MODULE MCDaemon ------------------------------
(***************************************************************************)
(* Daemon with two profiles, and the decisions of ConfigDiff over every    *)
(* pair of small configurations.  The running one has a dataplane WAN, or  *)
(* forwarder_init would have refused it.                                   *)
(***************************************************************************)
EXTENDS Daemon
CONSTANTS l1, l2, w1, w2, pol, b1, b2

WanRows == [settings : {0, 1}, dataplane : BOOLEAN]
Configs == ConfigsOver({l1, l2}, {w1, w2}, WanRows, {pol}, {b1, b2})
Running == {c \in Configs : Dataplane(c) # {}}

(* Decisions do not depend on the state: they are compared once, at the start. *)
Untouched == edits = 0 /\ notes = <<>> /\ ids = {} /\ cfg = <<>> /\ tpc = "none" /\ ~gstop

(* Interfaces that only come or go, the others unchanged, never restart the *)
(* dataplane: apply_active_configs finds an incremental way whatever else   *)
(* (policies, profiles) changes with them.                                  *)
PlugAndUnplugNeverRestarts == Untouched =>
  \A prev \in Running, new \in Configs :
    Path(prev, new) = "restart" /\ SharedRowsUnchanged(prev, new) => SameTopology(prev, new)

(* The test after a failed incremental reload repeats the predicates of the *)
(* branches above it: none of those failures falls through to the restart.  *)
FailedIncrementalIsKept == Untouched =>
  \A prev \in Running, new \in Configs :
    Path(prev, new) \in IncrementalPaths => AfterFailure(prev, new) = "kept"
==============================================================================
