----------------------------- MODULE ConfigDiff ------------------------------
(***************************************************************************)
(* How the daemon decides what to do with a new configuration:             *)
(* apply_active_configs (src/main.c) compares the running one with          *)
(* the one just read from the database and picks a way to apply it, with   *)
(* the predicates of main.c, forwarder_reload.c and profile_iface_xdp.c.   *)
(* Rows are looked up by interface name, policy db_id or profile id, so    *)
(* tables are sets and functions here; the columns of a row that are only  *)
(* compared for equality are one value.                                    *)
(***************************************************************************)
EXTENDS Naturals, FiniteSets

(* A configuration (struct app_config): the LAN names, a row per WAN name,   *)
(* the policies, a row per profile id.                                       *)
ConfigsOver(Lans, WanNames, WanRows, Policies, Profiles) ==
  [locals   : SUBSET Lans \ {{}},
   wans     : UNION {[S -> WanRows] : S \in SUBSET WanNames \ {{}}},
   policies : SUBSET Policies,
   profiles : Profiles]

WansOf(c) == DOMAIN c.wans
Dataplane(c) == {w \in WansOf(c) : c.wans[w].dataplane}

------------------------------------------------------------------------------
(* main.c *)

(* local_db_equal returns strcmp(a->ifname, b->ifname) as a truth value. *)
LocalDbEqual(a, b) == a # b

WanDbEqual(x, y) == x = y

LanWanDbUnchanged(old, new) ==
  /\ Cardinality(old.locals) = Cardinality(new.locals)
  /\ Cardinality(WansOf(old)) = Cardinality(WansOf(new))
  /\ \A l \in old.locals : l \in new.locals /\ LocalDbEqual(l, l)
  /\ \A w \in WansOf(old) : w \in WansOf(new) /\ WanDbEqual(old.wans[w], new.wans[w])

PoliciesDbUnchanged(old, new) == old.policies = new.policies
ProfilesFullyUnchanged(old, new) == old.profiles = new.profiles

ConfigDbUnchanged(old, new) == /\ LanWanDbUnchanged(old, new)
                               /\ PoliciesDbUnchanged(old, new)
                               /\ ProfilesFullyUnchanged(old, new)

(* forwarder_same_topology *)
SameTopology(a, b) == a.locals = b.locals /\ WansOf(a) = WansOf(b)

TuningOnlyChange(old, new) == /\ ~LanWanDbUnchanged(old, new)
                              /\ SameTopology(old, new)
                              /\ PoliciesDbUnchanged(old, new)
                              /\ ProfilesFullyUnchanged(old, new)

------------------------------------------------------------------------------
(* profile_iface_xdp.c; a running configuration has profiles. *)
WanAddition(old, new) == ~(WansOf(new) \subseteq WansOf(old))   \* mutant: LANs forgotten
HasAddition(old, new) == ~(new.locals \subseteq old.locals) \/ ~(WansOf(new) \subseteq WansOf(old))
HasRemoval(old, new) == HasAddition(new, old)

SharedRowsUnchanged(old, new) ==
  \A w \in WansOf(old) \cap WansOf(new) : WanDbEqual(old.wans[w], new.wans[w])

CanAdd(old, new) == ~HasRemoval(old, new) /\ HasAddition(old, new)
CanRemove(old, new) == ~HasAddition(old, new) /\ HasRemoval(old, new)

CanDelta(old, new) == /\ HasAddition(old, new) \/ HasRemoval(old, new)
                      /\ SharedRowsUnchanged(old, new)

AddOnly(old, new) == CanAdd(old, new) /\ HasAddition(old, new) /\ ~HasRemoval(old, new)

(* forwarder_reload.c *)
IsWanOnlyRemoval(old, new) ==
  /\ Cardinality(old.locals) = Cardinality(new.locals) /\ old.locals \subseteq new.locals
  /\ Cardinality(Dataplane(new)) < Cardinality(Dataplane(old)) /\ Dataplane(new) # {}
  /\ Dataplane(new) \subseteq Dataplane(old)
  /\ ~(Dataplane(old) \subseteq Dataplane(new))

------------------------------------------------------------------------------
(* apply_active_configs, once the dataplane has been started: the first *)
(* alternative that fits.                                               *)
IncrementalPaths == {"add", "delta", "remove", "drain"}
HotPaths == {"tuning", "policy"}

IncrementalPath(prev, new) ==
  CASE AddOnly(prev, new)  -> "add"
    [] OTHER ->
  CASE CanDelta(prev, new) -> "delta"
    [] OTHER ->
  CASE CanAdd(prev, new)   -> "add"
    [] OTHER ->
  CASE CanRemove(prev, new) -> "remove"
    [] OTHER -> IF IsWanOnlyRemoval(prev, new) THEN "drain" ELSE "restart"

Path(prev, new) ==
  CASE ConfigDbUnchanged(prev, new) -> "none"
    [] OTHER ->
  CASE ~SameTopology(prev, new)     -> IncrementalPath(prev, new)
    [] OTHER ->
  CASE LanWanDbUnchanged(prev, new) -> "policy"
    [] OTHER -> IF TuningOnlyChange(prev, new) THEN "tuning" ELSE "restart"

(* When a reload request fails: an incremental one leaves the dataplane as it *)
(* is, a hot one turns into a full restart.                                   *)
AfterFailureNoDelta(prev, new) ==            \* mutant: one predicate forgotten
  IF \/ CanAdd(prev, new) \/ CanRemove(prev, new) \/ IsWanOnlyRemoval(prev, new)
  THEN "kept" ELSE "restart"
AfterFailure(prev, new) ==
  IF /\ ~SameTopology(prev, new)
     /\ \/ CanAdd(prev, new) \/ CanRemove(prev, new)
        \/ CanDelta(prev, new) \/ IsWanOnlyRemoval(prev, new)
  THEN "kept" ELSE "restart"
==============================================================================
