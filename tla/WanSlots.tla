------------------------------ MODULE WanSlots -------------------------------
(***************************************************************************)
(* The WAN slots of the dataplane (forwarder_wan.c, profile_iface_xdp.c).  *)
(* A reload attaches and detaches single interfaces and leaves the others  *)
(* in their slots, while packets find their slot by the POSITION of their  *)
(* WAN among the dataplane WANs of the configuration.  Worker 0 runs the   *)
(* reload step by step and the drain tick between two reloads; the other   *)
(* workers pick WANs at any moment, so what they may pick is stated for    *)
(* every state; WanPicks follows one pick over several of them.            *)
(* ConfigDiff decides the mode of a reload; one that fails after fwd->cfg  *)
(* is switched is module Reload's and not followed here.                   *)
(***************************************************************************)
EXTENDS ConfigDiff, Integers, Sequences

CONSTANTS
  Wans, Profiles,
  Optional,     \* WANs a row may keep out of the dataplane (dst_ip set)
  MaxSlots,     \* MAX_INTERFACES
  DrainTicks,   \* WAN_DRAIN_GRACE_MS, in clock ticks
  MaxReloads,   \* bound: reloads followed
  None          \* the name in a slot never used

ASSUME SlotsAssumption == /\ MaxSlots \in Nat \ {0} /\ DrainTicks \in Nat \ {0}
                          /\ MaxReloads \in Nat /\ None \notin Wans \cup Profiles
                          /\ IsFiniteSet(Wans)

Slots == 0..MaxSlots-1

(* The merged configuration: a row per WAN, the rows of a profile together. *)
Rows == {r \in [wan : Wans, owner : Profiles, dataplane : BOOLEAN] :
           ~r.dataplane => r.wan \in Optional}
Grouped(c) == \A i, j, k \in DOMAIN c : i < j /\ j < k /\ c[i].owner = c[k].owner
                                           => c[j].owner = c[i].owner
Distinct(c) == \A i, j \in DOMAIN c : c[i].wan = c[j].wan => i = j
MergedConfigs == {c \in UNION {[1..n -> Rows] : n \in 1..Cardinality(Wans)} :
                    Distinct(c) /\ Grouped(c)}

Named(c, p) == {i \in DOMAIN c : c[i].owner = p}
WanNames(c) == {c[i].wan : i \in {j \in DOMAIN c : c[j].dataplane}}
OwnNames(c, p) == {c[i].wan : i \in {j \in Named(c, p) : c[j].dataplane}}
Lowest(S) == {i \in S : \A j \in S : i <= j}     \* the loops go through the rows in order

(* As ConfigDiff sees it; tuned: other columns of the rows differ too. *)
DbRows(c, tuned) ==
  [locals   |-> {"lan"},
   wans     |-> [w \in {c[i].wan : i \in DOMAIN c} |->
                   [settings |-> tuned,
                    dataplane |-> \E i \in DOMAIN c : c[i].wan = w /\ c[i].dataplane]],
   policies |-> {},
   profiles |-> [p \in {c[i].owner : i \in DOMAIN c} |-> Named(c, p)]]

------------------------------------------------------------------------------
VARIABLES
  cfg,        \* fwd->cfg
  name, live, xdp, ring,  \* per slot: interface, wan_live, xdp_wan_on, rings to it set up
  cfgIdx,     \* wan_cfg_idx: row of cfg (0 for -1)
  stopped,    \* wan_stopped
  drain,      \* wan_drains: row and interface of the old configuration, ticks left; or NoDrain
  wanCount, activeDp,     \* wan_count, wan_active_dp_count
  new, mode, trigger, phase, todo, added,   \* the reload in progress
  reloads,
  disturbed,  \* history: some reload did more than append rows or cut off the last ones
  misnamed,   \* history: a drain was recorded for another interface than the slot's
  before      \* history: the live slots and wan_count when the reload began

slotVars == <<name, live, xdp, ring, cfgIdx, stopped, wanCount>>
drainVars == <<drain, activeDp>>
reloadVars == <<new, mode, trigger, phase, todo, added>>
history == <<reloads, disturbed, misnamed, before>>
vars == <<cfg, slotVars, drainVars, reloadVars, history>>

NoDrain == [row |-> 0, wan |-> None, left |-> -1]
Draining(d) == drain[d] # NoDrain

(* config_wan_cfg_to_dp, config_wan_dp_to_cfg *)
ToDp(c, i) == IF i \in DOMAIN c /\ c[i].dataplane
              THEN Cardinality({j \in 1..i-1 : c[j].dataplane}) ELSE -1
RowsOfDps(c) == {row \in [0..Cardinality(WanNames(c))-1 -> DOMAIN c] :
                  \A d \in DOMAIN row : ToDp(c, row[d]) = d}

(* pair_wan_dp_slot_live *)
LiveSlots(w) == {d \in 0..wanCount-1 : live[d] /\ name[d] = w}

Serving(n, l) == {<<d, n[d]>> : d \in {s \in Slots : l[s]}}

(* forwarder_init *)
Init == \E c \in {m \in MergedConfigs : WanNames(m) # {} /\ Cardinality(WanNames(m)) <= MaxSlots} :
  LET n == Cardinality(WanNames(c)) IN
  /\ cfg = c /\ wanCount = n /\ activeDp = n
  /\ \E row \in RowsOfDps(c) :
       /\ name = [d \in Slots |-> IF d < n THEN c[row[d]].wan ELSE None]
       /\ cfgIdx = [d \in Slots |-> IF d < n THEN row[d] ELSE 0]
  /\ live = [d \in Slots |-> d < n] /\ xdp = live /\ ring = live
  /\ stopped = [d \in Slots |-> FALSE] /\ drain = [d \in Slots |-> NoDrain]
  /\ new = <<>> /\ mode = "none" /\ trigger = None /\ phase = "idle"
  /\ todo = {} /\ added = {}
  /\ reloads = 0 /\ disturbed = FALSE /\ misnamed = FALSE
  /\ before = <<{}, 0>>

------------------------------------------------------------------------------
(* Picking a WAN (fwd_wan_pick_for_local). *)

(* fwd_wan_dp_ok_for_new_traffic *)
OkForNew(d) == d \in Slots /\ ~stopped[d] /\ ~Draining(d) /\ d < activeDp

(* fwd_wan_build_profile_pool: rows of the configuration, and of the old one *)
(* for a WAN that tapers off.                                                *)
Tapering == {d \in 0..wanCount-1 : Draining(d) /\ ~stopped[d] /\ drain[d].left > 0}
ProfilePool(p) == {i \in Named(cfg, p) : OkForNew(ToDp(cfg, i))} \cup {drain[d].row : d \in Tapering}

(* fwd_wan_dp_for_legacy_cfg *)
LegacyDps(i) == {d \in Tapering : drain[d].row = i}
LegacyDp(i) == IF LegacyDps(i) = {} THEN -1 ELSE CHOOSE d \in LegacyDps(i) : \A e \in LegacyDps(i) : d <= e

(* The slot of a row the flow table chose: its position, or the slot in which *)
(* its WAN tapers off; slot 0 when that is out of reach or stopped.           *)
DpOf(i) == IF ToDp(cfg, i) >= 0 THEN ToDp(cfg, i) ELSE LegacyDp(i)
Checked(d) == IF d < 0 \/ d >= wanCount THEN 0 ELSE IF stopped[d] THEN 0 ELSE d
Selected(i) == Checked(DpOf(i))

(* pick_least_loaded_wan: when the selected slot has no room, one of the     *)
(* profile's own, or of all when the profile has none.                       *)
OnlyBelowCount(S) == S \cap 0..wanCount-1
Alternatives(p) == OnlyBelowCount(IF Named(cfg, p) # {}
                                  THEN {d \in {ToDp(cfg, i) : i \in Named(cfg, p)} : OkForNew(d)}
                                  ELSE {d \in Slots : OkForNew(d)})
Picks(p) == IF wanCount = 0 THEN {}
            ELSE (IF ProfilePool(p) = {} THEN {0} ELSE {Selected(i) : i \in ProfilePool(p)})
                 \cup Alternatives(p)

------------------------------------------------------------------------------
(* A reload, on worker 0. *)
Goes(from, to) == phase = from /\ phase' = to

(* What belongs to one reload is forgotten with it. *)
Over == /\ phase' = "idle"
        /\ new' = <<>> /\ mode' = "none" /\ trigger' = None /\ todo' = {} /\ added' = {}
        /\ before' = <<{}, 0>>

Prefix(a, b) == Len(a) <= Len(b) /\ SubSeq(b, 1, Len(a)) = a
OwnedBeyond(a, b, p) == \A i \in Len(a)+1..Len(b) : b[i].owner = p

(* Rows are only appended or cut off at the end, all of the trigger profile. *)
AtTheEnd(old, c, p) == \/ Prefix(old, c) /\ OwnedBeyond(old, c, p)
                       \/ Prefix(c, old) /\ OwnedBeyond(c, old, p)

FirstPhase(m) == CASE m \in {"delta", "remove"} -> "detach"
                   [] m = "add" -> "attach"
                   [] m = "drain" -> "drains"
                   [] m \in HotPaths -> "publish"

(* The profile p was notified; its rows, and those of others whose own      *)
(* notification is still to come, have changed.                             *)
Request(p, c, tuned) ==
  /\ phase = "idle" /\ reloads < MaxReloads
  /\ Named(cfg, p) \cup Named(c, p) # {}
  /\ mode' = Path(DbRows(cfg, FALSE), DbRows(c, tuned))
  /\ mode' \in IncrementalPaths \cup HotPaths
  /\ phase' = FirstPhase(mode')
  /\ new' = c /\ trigger' = p /\ added' = {}
  /\ todo' = IF mode' = "add" THEN Named(c, p) ELSE Named(cfg, p)
  /\ reloads' = reloads + 1
  /\ disturbed' = (disturbed \/ ~AtTheEnd(cfg, c, p))
  /\ before' = <<Serving(name, live), wanCount>>
  /\ UNCHANGED <<cfg, slotVars, drainVars, misnamed>>

(* ne_pair_unplumb_wan_dp, wan_cfg_idx and wan_stopped. *)
Unplug(D) == /\ live' = [d \in Slots |-> live[d] /\ d \notin D]
             /\ xdp' = [d \in Slots |-> xdp[d] /\ d \notin D]
             /\ cfgIdx' = [d \in Slots |-> IF d \in D THEN 0 ELSE cfgIdx[d]]
             /\ stopped' = [d \in Slots |-> stopped[d] \/ d \in D]

(* detach_profile_wan_rows: the row leaves, and the profile's new rows do not *)
(* include its index.                                                         *)
Leaves(i) == /\ cfg[i].dataplane /\ i \notin Named(new, trigger)
             /\ cfg[i].wan \notin WanNames(new)

DetachRow == /\ phase = "detach"
             /\ \E i \in Lowest(todo) : /\ Unplug(IF Leaves(i) THEN LiveSlots(cfg[i].wan) ELSE {})
                                        /\ todo' = todo \ {i}
             /\ UNCHANGED <<cfg, name, ring, wanCount, drainVars, new, mode, trigger, phase,
                            added, history>>

DetachDone == /\ todo = {} /\ Goes("detach", IF mode = "delta" THEN "attach" ELSE "publish")
              /\ todo' = IF mode = "delta" THEN Named(new, trigger) ELSE {}
              /\ UNCHANGED <<cfg, slotVars, drainVars, new, mode, trigger, added, history>>

(* Mutant: an interface that has a slot is attached once more. *)
NotYetDataplane(i) == new[i].dataplane
(* attach_profile_wan_rows *)
NeedsSlot(i) == new[i].dataplane /\ LiveSlots(new[i].wan) = {}

SlotLeft == wanCount < MaxSlots

Plug(i) == /\ SlotLeft
           /\ name' = [name EXCEPT ![wanCount] = new[i].wan]
           /\ live' = [live EXCEPT ![wanCount] = TRUE]
           /\ xdp' = [xdp EXCEPT ![wanCount] = TRUE]
           /\ cfgIdx' = [cfgIdx EXCEPT ![wanCount] = i]
           /\ wanCount' = wanCount + 1
           /\ added' = added \cup {wanCount}

AttachRow == /\ phase = "attach"
             /\ \E i \in Lowest(todo) :
                  /\ IF NeedsSlot(i) THEN Plug(i)
                     ELSE UNCHANGED <<name, live, xdp, cfgIdx, wanCount, added>>
                  /\ todo' = todo \ {i}
             /\ UNCHANGED <<cfg, ring, stopped, drainVars, new, mode, trigger, phase, history>>

KeepCount(l, n) == n = wanCount              \* mutant: the count is not brought down again
(* fwd_reconcile_iface_counts *)
Reconciled(l, n) == /\ \A d \in Slots : l[d] => d < n
                    /\ n > 0 => l[n - 1]
BringDownCount(l) == \E n \in 0..MaxSlots : Reconciled(l, n) /\ wanCount' = n

(* Mutant: the slot attached last is kept. *)
AllButLast == added \ {wanCount - 1}
Rollback == added

(* Some LAN or WAN of the profile cannot be attached, or no slot is left: *)
(* profile_attach_sess_rollback, and the reload has failed.               *)
AttachFails ==
  /\ phase = "attach" /\ Named(new, trigger) # {}
  /\ Unplug(Rollback)
  /\ BringDownCount(live')
  /\ disturbed' = (disturbed \/ mode = "delta")
  /\ Over
  /\ UNCHANGED <<cfg, name, ring, drainVars, reloads, misnamed>>

(* fwd_wan_configure_removal_drains *)
DrainsOf(d) == /\ d < wanCount /\ cfgIdx[d] \in DOMAIN cfg
               /\ cfg[cfgIdx[d]].dataplane /\ cfg[cfgIdx[d]].wan \notin WanNames(new)
StartDrains ==
  LET started == [d \in Slots |-> IF DrainsOf(d)
                                 THEN [row |-> cfgIdx[d], wan |-> cfg[cfgIdx[d]].wan,
                                       left |-> DrainTicks]
                                 ELSE drain[d]]
      rowsOf(d) == {i \in DOMAIN new : new[i].dataplane /\ new[i].wan = name[d]}
  IN  /\ Goes("drains", "publish")
      /\ drain' = started
      /\ activeDp' = Cardinality(WanNames(new))
      /\ cfgIdx' = [d \in Slots |-> IF d < wanCount /\ started[d] = NoDrain /\ rowsOf(d) # {}
                                    THEN CHOOSE i \in rowsOf(d) : TRUE ELSE cfgIdx[d]]
      /\ misnamed' = (misnamed \/ \E d \in Slots : started[d].wan \notin {None, name[d]})
      /\ UNCHANGED <<cfg, name, live, xdp, ring, stopped, wanCount,
                     new, mode, trigger, todo, added, reloads, disturbed, before>>

InterfaceModes == {"add", "remove", "delta"}

(* fwd->cfg = cfg *)
Publish == /\ phase = "publish" \/ (phase = "attach" /\ todo = {})
           /\ phase' = "finish"
           /\ cfg' = new
           /\ IF mode \in InterfaceModes THEN BringDownCount(live) ELSE UNCHANGED wanCount
           /\ UNCHANGED <<name, live, xdp, ring, cfgIdx, stopped, drainVars,
                          new, mode, trigger, todo, added, history>>

(* Mutant: without fwd_wan_reset_on_init. *)
NoReset == UNCHANGED <<stopped, drain, activeDp>>
(* fwd_wan_reset_on_init, called by crypto_finish_reload. *)
Reset == IF mode \in InterfaceModes
         THEN /\ stopped' = [d \in Slots |-> FALSE] /\ drain' = [d \in Slots |-> NoDrain]
              /\ activeDp' = wanCount
         ELSE UNCHANGED <<stopped, drain, activeDp>>

Finish == /\ phase = "finish"
          /\ Reset
          /\ Over
          /\ UNCHANGED <<cfg, name, live, xdp, ring, cfgIdx, wanCount,
                         reloads, disturbed, misnamed>>

------------------------------------------------------------------------------
(* Time passes. *)
Clock == /\ \E d \in Slots : drain[d].left > 0
         /\ drain' = [d \in Slots |-> IF drain[d].left > 0 THEN [drain[d] EXCEPT !.left = @ - 1]
                                                           ELSE drain[d]]
         /\ UNCHANGED <<cfg, slotVars, activeDp, reloadVars, history>>

(* fwd_wan_drain_tick, wan_drain_finish_slot; the flush is in FramePipeline. *)
DrainExpires(d) == /\ phase = "idle" /\ d < wanCount /\ drain[d].left = 0
                   /\ xdp' = [e \in Slots |-> xdp[e] /\ name[e] # drain[d].wan]
                   /\ stopped' = [stopped EXCEPT ![d] = TRUE]
                   /\ drain' = [drain EXCEPT ![d] = NoDrain]
                   /\ UNCHANGED <<cfg, name, live, ring, cfgIdx, wanCount, activeDp,
                                  reloadVars, history>>

(* The bound on reloads is reached, no drain is left. *)
Quiet == /\ phase = "idle" /\ reloads = MaxReloads /\ \A d \in Slots : ~Draining(d)
         /\ UNCHANGED vars

ReloadStep == \/ DetachRow \/ DetachDone \/ AttachRow \/ AttachFails
              \/ StartDrains \/ Publish \/ Finish

Next == \/ \E p \in Profiles, c \in MergedConfigs, t \in BOOLEAN : Request(p, c, t)
        \/ ReloadStep
        \/ Clock \/ \E d \in Slots : DrainExpires(d)
        \/ Quiet

Spec == Init /\ [][Next]_vars

------------------------------------------------------------------------------
(* Every variable has its type. *)
TypeOK ==
  /\ cfg \in MergedConfigs /\ new \in MergedConfigs \cup {<<>>}
  /\ name \in [Slots -> Wans \cup {None}]
  /\ live \in [Slots -> BOOLEAN] /\ xdp \in [Slots -> BOOLEAN]
  /\ ring \in [Slots -> BOOLEAN] /\ stopped \in [Slots -> BOOLEAN]
  /\ cfgIdx \in [Slots -> 0..Cardinality(Wans)]
  /\ drain \in [Slots -> [row : 0..Cardinality(Wans), wan : Wans \cup {None},
                         left : -1..DrainTicks]]
  /\ wanCount \in 0..MaxSlots /\ activeDp \in Nat
  /\ mode \in IncrementalPaths \cup HotPaths \cup {"none"} /\ trigger \in Profiles \cup {None}
  /\ phase \in {"idle", "detach", "attach", "drains", "publish", "finish"}
  /\ todo \subseteq 1..Cardinality(Wans) /\ added \subseteq Slots
  /\ reloads \in 0..MaxReloads
  /\ disturbed \in BOOLEAN /\ misnamed \in BOOLEAN

(* No interface is open in two slots, and no open slot is out of the reach of *)
(* the loops over wan_count, through failed attaches and holes.               *)
OneSlotPerWan == /\ \A d, e \in Slots : live[d] /\ live[e] /\ name[d] = name[e] => d = e
                 /\ \A d \in Slots : live[d] => d < wanCount

(* A packet is sent on a WAN of its own profile: as long as reloads only      *)
(* append rows or cut off the last ones, the slot any worker picks is open,   *)
(* not stopped and belongs to the packet's profile, also while a reload is    *)
(* under way for another profile.                                             *)
ServesOwn(p) == \A d \in Picks(p) : live[d] /\ ~stopped[d] /\ name[d] \in OwnNames(cfg, p)
PicksServe == ~disturbed => \A p \in Profiles :
                 OwnNames(cfg, p) # {} /\ (p # trigger \/ phase = "idle") => ServesOwn(p)

(* An attach that fails is undone completely, also one that had already       *)
(* attached some of the profile's interfaces: same slots, same wan_count.     *)
FailedAddRestores == [][phase = "attach" /\ phase' = "idle" /\ mode = "add"
                          => <<Serving(name', live'), wanCount'>> = before]_vars

(* Between reloads no WAN that receives is stopped: the receive threads drop  *)
(* every packet of a stopped WAN.  Only a drain that took another interface's *)
(* row, because wan_cfg_idx was out of date, does that.                       *)
StoppedIsDetached == phase = "idle" /\ ~misnamed => \A d \in Slots : stopped[d] => ~xdp[d]

(* "[RELOAD] OK profile %d -- applied (incremental)": each WAN the profile    *)
(* has been given is open and has rings for the workers to push to.           *)
AppliedIsReachable ==
  phase = "finish" /\ mode \in InterfaceModes =>
     \A w \in OwnNames(cfg, trigger) : \E d \in LiveSlots(w) : ring[d]
==============================================================================
