------------------------------- MODULE WanPicks --------------------------------
(***************************************************************************)
(* The steps in which a worker picks a WAN for a packet from a LAN, without *)
(* a lock, while worker 0 reloads (fwd_wan_pick_for_local,                  *)
(* dataplane_process_local).  It takes a row out of the pool of the         *)
(* packet's profile, looks its position up in the configuration of a later  *)
(* moment, tests the slot later still, and pushes to it after the           *)
(* encryption.  WanSlots has the reload and what each of the steps reads.   *)
(*                                                                         *)
(* One packet at a time, on a worker other than 0.  Bounds: a packet is     *)
(* followed only while reloads append rows or cut off the last ones         *)
(* (~disturbed); elsewhere nothing is stated of it.  Until then the index   *)
(* of a profile, which the code keeps between the steps, names one profile. *)
(***************************************************************************)
EXTENDS WanSlots

VARIABLE pick   \* the packet: its next step, its profile, the row and the slot it holds

NoPick == [at |-> "none", of |-> None, row |-> 0, slot |-> 0, overtaken |-> FALSE]

pickVars == <<vars, pick>>

(* fwd_wan_pick_for_local up to the flow table; row 0 for an empty pool.     *)
(* overtaken: a reload of the packet's own profile has been under way since. *)
ChooseRow(p) ==
  /\ pick = NoPick /\ ~disturbed
  /\ wanCount > 0 /\ Named(cfg, p) # {}
  /\ \E i \in (IF ProfilePool(p) = {} THEN {0} ELSE ProfilePool(p)) :
       pick' = [at |-> "row", of |-> p, row |-> i, slot |-> 0, overtaken |-> p = trigger]

(* config_wan_cfg_to_dp, fwd_wan_dp_for_legacy_cfg *)
FindSlot == /\ pick.at = "row"
            /\ pick' = [pick EXCEPT !.at = "slot", !.row = 0, !.slot = DpOf(pick.row)]

(* Mutant: for want of room, any WAN with room, whatever the profile has.     *)
TestAnySlot == /\ pick.at = "slot"
               /\ \E d \in {Checked(pick.slot)} \cup {e \in Slots : OkForNew(e)} :
                    pick' = [pick EXCEPT !.at = "push", !.slot = d]
(* The tests of wan_count and wan_stopped, and pick_least_loaded_wan.        *)
TestSlot == /\ pick.at = "slot"
            /\ \E d \in {Checked(pick.slot)} \cup Alternatives(pick.of) :
                 pick' = [pick EXCEPT !.at = "push", !.slot = d]

(* push_to_wan or push_split_to_wan after the encryption; or the packet is   *)
(* dropped, for lack of room, of a key or of a frame.                        *)
PushOrDrop == pick.at = "push" /\ pick' = NoPick

PickStep == (\E p \in Profiles : ChooseRow(p)) \/ FindSlot \/ TestSlot \/ PushOrDrop

(* What a step of worker 0 means for the packet. *)
Overtake == pick' = IF disturbed' THEN NoPick
                    ELSE [pick EXCEPT !.overtaken = @ \/ (pick.at # "none" /\ trigger' = pick.of)]

PickNext ==
  \/ \E p \in Profiles, c \in MergedConfigs, t \in BOOLEAN : Request(p, c, t) /\ Overtake
  \/ ReloadStep /\ Overtake
  \/ Clock /\ Overtake
  \/ \E d \in Slots : DrainExpires(d) /\ Overtake
  \/ Quiet /\ Overtake
  \/ PickStep /\ UNCHANGED vars

PickInit == Init /\ pick = NoPick

PickSpec == PickInit /\ [][PickNext]_pickVars

------------------------------------------------------------------------------
(* The packet has its type. *)
PickTypeOK == pick \in [at : {"none", "row", "slot", "push"}, of : Profiles \cup {None},
                        row : Nat, slot : Int, overtaken : BOOLEAN]

(* A packet whose row, slot, test and push belong to different moments still *)
(* goes to an open WAN of its profile that is not stopped, whatever reloads  *)
(* of OTHER profiles attach, detach, roll back or finish between its steps.  *)
PushesServe ==
  pick.at = "push" /\ ~pick.overtaken /\ ~disturbed /\ OwnNames(cfg, pick.of) # {} =>
    /\ live[pick.slot] /\ ~stopped[pick.slot]
    /\ name[pick.slot] \in OwnNames(cfg, pick.of)
==============================================================================
