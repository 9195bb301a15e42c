--------------------------- MODULE WanSlots_proofs ---------------------------
(***************************************************************************)
(* Proofs about WANs: the slots they have (WanSlots) and the choice of one *)
(* for a flow (FlowTable).                                                 *)
(* For any WANs, profiles, number of slots, length of a drain and number   *)
(* of reloads: a WAN never has two slots, a failed attach leaves nothing   *)
(* behind, a WAN that receives is not stopped between reloads, and a       *)
(* packet goes out on a slot of a WAN of its profile, also when reloads of *)
(* other profiles come between the steps that choose it.                   *)
(* For any flows, hash, configurations, weights and packet sizes: a flow   *)
(* gets a WAN its profile offers and keeps it for its share of bytes, and  *)
(* is not forgotten while it is fresh.                                     *)
(***************************************************************************)
EXTENDS WanPicks, FlowTable, FiniteSetTheorems, TLAPS

(* The inductive invariant.  Which phases a mode goes through, and when wan_count *)
(* is one more than the last open slot.                                          *)
Phases == /\ phase = "idle" => added = {}
          /\ added # {} => mode \in {"add", "delta"}
          /\ phase = "attach" => mode \in {"add", "delta"}
          /\ phase = "detach" => mode \in {"delta", "remove"}
          /\ phase = "drains" => mode = "drain"
          /\ phase \notin {"idle", "finish"} => new \in MergedConfigs
          /\ phase = "attach" => todo \subseteq DOMAIN new
Settled == phase \in {"idle", "drains", "finish"} \/ (phase = "publish" /\ mode \notin InterfaceModes)
Tight == Settled => Reconciled(live, wanCount)

(* The slots attached last are the highest; without them all is as before. *)
Kept == [d \in Slots |-> live[d] /\ d \notin added]
AddedLast == \A a \in added, d \in Slots : Kept[d] => d < a
AsBefore == phase = "attach" /\ mode = "add" =>
              \E n \in 0..MaxSlots : Reconciled(Kept, n) /\ before = <<Serving(name, Kept), n>>

(* Drains are of the interface in the slot, and what is stopped is detached, *)
(* but for slots the reload in progress has attached.                        *)
DrainNames == /\ \A d \in Slots : drain[d].left >= 0 => drain[d].wan # None
              /\ ~misnamed => \A d \in Slots : d < wanCount /\ d \notin added
                                                 => drain[d].wan \in {None, name[d]}
StoppedOff == ~misnamed => \A d \in Slots : stopped[d] /\ xdp[d] => d \in added

IInv == /\ TypeOK /\ OneSlotPerWan
        /\ Phases /\ Tight /\ AddedLast /\ AsBefore
        /\ DrainNames /\ StoppedOff

------------------------------------------------------------------------------
LEMMA Counts ==
  /\ Cardinality(Wans) \in Nat
  /\ \A c : Cardinality(WanNames(c)) \in Nat \/ ~(WanNames(c) \subseteq Wans)
<1>1. Cardinality(Wans) \in Nat BY SlotsAssumption, FS_CardinalityType
<1>2. ASSUME NEW c, WanNames(c) \subseteq Wans PROVE Cardinality(WanNames(c)) \in Nat
  <2>1. IsFiniteSet(WanNames(c)) BY <1>2, SlotsAssumption, FS_Subset
  <2> QED BY <2>1, FS_CardinalityType
<1> QED BY <1>1, <1>2

LEMMA LeastNat == ASSUME NEW T \in SUBSET Nat, T # {} PROVE \E x \in T : \A y \in T : x <= y
<1>1. PICK x \in T : \A y \in T : <<y, x>> \notin OpToRel(<, Nat)
  BY NatLessThanWellFounded, WFMin
<1>2. \A y \in T : ~(y < x)
  <2> SUFFICES ASSUME NEW y \in T, y < x PROVE FALSE
    BY DEF OpToRel
  <2>1. <<y, x>> \in OpToRel(<, Nat) BY DEF OpToRel
  <2> QED BY <1>1, <2>1
<1> QED BY <1>2

LEMMA ConfigFacts ==
  ASSUME NEW c \in MergedConfigs
  PROVE  /\ DOMAIN c \subseteq 1..Cardinality(Wans)
         /\ \A i \in DOMAIN c : c[i] \in Rows /\ c[i].wan \in Wans
         /\ \A i, j \in DOMAIN c : c[i].wan = c[j].wan => i = j
         /\ WanNames(c) \subseteq Wans /\ Cardinality(WanNames(c)) \in Nat
         /\ \A p : Named(c, p) \subseteq 1..Cardinality(Wans)
<1>1. PICK n \in 1..Cardinality(Wans) : c \in [1..n -> Rows] BY DEF MergedConfigs
<1>2. DOMAIN c \subseteq 1..Cardinality(Wans) BY <1>1, Counts
<1>3. \A i \in DOMAIN c : c[i] \in Rows /\ c[i].wan \in Wans BY <1>1 DEF Rows
<1>4. \A i, j \in DOMAIN c : c[i].wan = c[j].wan => i = j BY DEF MergedConfigs, Distinct
<1>5. WanNames(c) \subseteq Wans BY <1>3 DEF WanNames
<1>6. \A p : Named(c, p) \subseteq DOMAIN c BY DEF Named
<1> QED BY <1>2, <1>3, <1>4, <1>5, <1>6, Counts

(* The configurations that are compared: a merged one, or none yet. *)
NamesIn(c) == /\ DOMAIN c \subseteq 1..Cardinality(Wans)
              /\ \A p : Named(c, p) \subseteq 1..Cardinality(Wans)
              /\ \A i \in DOMAIN c : c[i].wan \in Wans
              /\ WanNames(c) \subseteq Wans /\ Cardinality(WanNames(c)) \in Nat

LEMMA NamesAreIn == ASSUME NEW c \in MergedConfigs \cup {<<>>} PROVE NamesIn(c)
<1>1. CASE c \in MergedConfigs BY <1>1, ConfigFacts DEF NamesIn
<1>2. CASE c = <<>>
  <2>1. DOMAIN c = {} BY <1>2
  <2>2. WanNames(c) = {} /\ \A p : Named(c, p) = {} BY <2>1 DEF WanNames, Named
  <2> QED BY <2>1, <2>2, Counts DEF NamesIn
<1> QED BY <1>1, <1>2

(* The count that fits the open slots is unique. *)
LEMMA OneCount ==
  ASSUME NEW l, NEW n \in 0..MaxSlots, NEW m \in 0..MaxSlots, Reconciled(l, n), Reconciled(l, m)
  PROVE  n = m
<1>1. \A x, y \in 0..MaxSlots : Reconciled(l, x) /\ Reconciled(l, y) => ~(x < y)
  <2> SUFFICES ASSUME NEW x \in 0..MaxSlots, NEW y \in 0..MaxSlots,
                      Reconciled(l, x), Reconciled(l, y), x < y
               PROVE  FALSE
    OBVIOUS
  <2>1. y - 1 \in Slots /\ y > 0 BY SlotsAssumption DEF Slots
  <2>2. y - 1 < x BY <2>1 DEF Reconciled
  <2> QED BY <2>2, SlotsAssumption
<1> QED BY <1>1, SlotsAssumption

LEMMA TopSlot == ASSUME NEW n \in 0..MaxSlots, n # 0 PROVE n - 1 \in Slots /\ n > 0
  BY SlotsAssumption DEF Slots

(* A count that fits open slots which are all below m is at most m. *)
LEMMA CountBelow ==
  ASSUME NEW l, NEW n \in 0..MaxSlots, NEW m \in 0..MaxSlots, Reconciled(l, n),
         \A d \in Slots : l[d] => d < m
  PROVE  n <= m
<1>1. CASE n = 0 BY <1>1, SlotsAssumption
<1>2. CASE n # 0
  <2>1. n - 1 \in Slots /\ n > 0 BY <1>2, TopSlot
  <2>2. n - 1 < m BY <2>1 DEF Reconciled
  <2> QED BY <2>2, SlotsAssumption
<1> QED BY <1>1, <1>2

LEMMA ReconciledSame ==
  ASSUME NEW l, NEW m, NEW n \in 0..MaxSlots, Reconciled(l, n), \A d \in Slots : m[d] = l[d]
  PROVE  Reconciled(m, n)
<1>1. n > 0 => n - 1 \in Slots BY SlotsAssumption DEF Slots
<1> QED BY <1>1 DEF Reconciled

LEMMA InitIInv == Init => IInv
<1> SUFFICES ASSUME Init PROVE IInv OBVIOUS
<1>1. PICK c \in MergedConfigs :
        /\ Cardinality(WanNames(c)) <= MaxSlots /\ cfg = c
        /\ wanCount = Cardinality(WanNames(c)) /\ activeDp = wanCount
        /\ \E row \in RowsOfDps(c) :
             /\ name = [d \in Slots |-> IF d < wanCount THEN c[row[d]].wan ELSE None]
             /\ cfgIdx = [d \in Slots |-> IF d < wanCount THEN row[d] ELSE 0]
        /\ live = [d \in Slots |-> d < wanCount] /\ xdp = live /\ ring = live
        /\ stopped = [d \in Slots |-> FALSE] /\ drain = [d \in Slots |-> NoDrain]
  BY DEF Init
<1>2. PICK row \in RowsOfDps(c) :
        /\ name = [d \in Slots |-> IF d < wanCount THEN c[row[d]].wan ELSE None]
        /\ cfgIdx = [d \in Slots |-> IF d < wanCount THEN row[d] ELSE 0]
  BY <1>1
<1>3. wanCount \in 0..MaxSlots BY <1>1, ConfigFacts, SlotsAssumption
<1>4. \A d \in Slots : d < wanCount => d \in 0..wanCount-1 BY <1>3 DEF Slots
<1>5. row \in [0..wanCount-1 -> DOMAIN c] /\ \A d \in 0..wanCount-1 : ToDp(c, row[d]) = d
  BY <1>1, <1>2 DEF RowsOfDps
<1>6. \A d \in Slots : d < wanCount => row[d] \in DOMAIN c /\ ToDp(c, row[d]) = d
  BY <1>4, <1>5
<1>7. NoDrain \in [row : 0..Cardinality(Wans), wan : Wans \cup {None}, left : -1..DrainTicks]
  BY Counts, SlotsAssumption DEF NoDrain
<1>8. TypeOK
  <2>1. name \in [Slots -> Wans \cup {None}] BY <1>2, <1>6, ConfigFacts
  <2>2. cfgIdx \in [Slots -> 0..Cardinality(Wans)] BY <1>2, <1>6, ConfigFacts, Counts
  <2>3. activeDp \in Nat BY <1>1, <1>3
  <2>4. reloads \in 0..MaxReloads BY SlotsAssumption DEF Init
  <2>5. drain \in [Slots -> [row : 0..Cardinality(Wans), wan : Wans \cup {None},
                             left : -1..DrainTicks]]
    BY <1>1, <1>7
  <2>6. live \in [Slots -> BOOLEAN] /\ stopped \in [Slots -> BOOLEAN] BY <1>1
  <2> QED BY <1>1, <1>3, <2>1, <2>2, <2>3, <2>4, <2>5, <2>6 DEF Init, TypeOK
<1>9. OneSlotPerWan
  <2>1. ASSUME NEW d \in Slots, NEW e \in Slots, live[d], live[e], name[d] = name[e] PROVE d = e
    <3>1. c[row[d]].wan = c[row[e]].wan BY <1>1, <1>2, <2>1
    <3>2. row[d] = row[e] BY <1>1, <1>6, <2>1, <3>1, ConfigFacts
    <3> QED BY <1>1, <1>6, <2>1, <3>2
  <2>2. \A d \in Slots : live[d] => d < wanCount BY <1>1
  <2> QED BY <2>1, <2>2 DEF OneSlotPerWan
<1>10. Tight
  <2>1. wanCount > 0 => wanCount - 1 \in Slots /\ wanCount - 1 < wanCount
    BY <1>3, SlotsAssumption DEF Slots
  <2>2. \A d \in Slots : live[d] = (d < wanCount) BY <1>1
  <2>3. Reconciled(live, wanCount) BY <2>1, <2>2 DEF Reconciled
  <2> QED BY <2>3 DEF Tight
<1>11. Phases /\ AddedLast /\ AsBefore BY DEF Init, Phases, AddedLast, AsBefore
<1>12. DrainNames /\ StoppedOff BY <1>1 DEF DrainNames, StoppedOff, NoDrain
<1> QED BY <1>8, <1>9, <1>10, <1>11, <1>12 DEF IInv

(* Type correctness. *)
LEMMA ModeFacts ==
  /\ \A m \in IncrementalPaths \cup HotPaths :
       FirstPhase(m) \in {"detach", "attach", "drains", "publish"}
  /\ \A m \in IncrementalPaths \cup HotPaths :
       /\ FirstPhase(m) = "attach" => m = "add"
       /\ FirstPhase(m) = "detach" => m \in {"delta", "remove"}
       /\ FirstPhase(m) = "drains" => m = "drain"
       /\ FirstPhase(m) = "publish" => m \notin InterfaceModes
  BY DEF FirstPhase, IncrementalPaths, HotPaths, InterfaceModes

LEMMA UnplugTypes ==
  ASSUME TypeOK, NEW D, Unplug(D)
  PROVE  /\ live' \in [Slots -> BOOLEAN] /\ xdp' \in [Slots -> BOOLEAN]
         /\ stopped' \in [Slots -> BOOLEAN] /\ cfgIdx' \in [Slots -> 0..Cardinality(Wans)]
<1>1. Cardinality(Wans) \in Nat BY Counts
<1> QED BY <1>1 DEF Unplug, TypeOK

LEMMA TypeKept == TypeOK /\ Phases /\ [Next]_vars => TypeOK'
<1> SUFFICES ASSUME TypeOK, Phases, [Next]_vars PROVE TypeOK' OBVIOUS
<1>0. NamesIn(cfg) /\ NamesIn(new)
  BY NamesAreIn DEF TypeOK
<1>1. ASSUME NEW p \in Profiles, NEW c \in MergedConfigs, NEW u \in BOOLEAN, Request(p, c, u)
      PROVE  TypeOK'
  <2>1. mode' \in IncrementalPaths \cup HotPaths /\ phase' = FirstPhase(mode')
    BY <1>1 DEF Request
  <2>2. phase' \in {"detach", "attach", "drains", "publish"} BY <2>1, ModeFacts
  <2>3. todo' \subseteq 1..Cardinality(Wans)
    BY <1>0, <1>1, ConfigFacts DEF Request, NamesIn
  <2>4. reloads' \in 0..MaxReloads BY <1>1, SlotsAssumption DEF Request, TypeOK
  <2>5. disturbed' \in BOOLEAN BY <1>1 DEF Request, TypeOK
  <2> QED BY <1>1, <2>1, <2>2, <2>3, <2>4, <2>5 DEF Request, slotVars, drainVars, TypeOK
<1>2. ASSUME DetachRow PROVE TypeOK'
  <2>1. PICK i \in Lowest(todo) : /\ Unplug(IF Leaves(i) THEN LiveSlots(cfg[i].wan) ELSE {})
                                  /\ todo' = todo \ {i}
    BY <1>2 DEF DetachRow
  <2>2. /\ live' \in [Slots -> BOOLEAN] /\ xdp' \in [Slots -> BOOLEAN]
        /\ stopped' \in [Slots -> BOOLEAN] /\ cfgIdx' \in [Slots -> 0..Cardinality(Wans)]
    BY <2>1, UnplugTypes
  <2>3. todo' \subseteq 1..Cardinality(Wans) BY <2>1 DEF TypeOK
  <2> QED BY <1>2, <2>2, <2>3 DEF DetachRow, drainVars, history, TypeOK
<1>3. ASSUME DetachDone PROVE TypeOK'
  <2>1. todo' \subseteq 1..Cardinality(Wans) BY <1>0, <1>3 DEF DetachDone, NamesIn
  <2> QED BY <1>3, <2>1 DEF DetachDone, Goes, slotVars, drainVars, history, TypeOK
<1>4. ASSUME AttachRow PROVE TypeOK'
  <2>1. PICK i \in Lowest(todo) :
          /\ IF NeedsSlot(i) THEN Plug(i)
             ELSE UNCHANGED <<name, live, xdp, cfgIdx, wanCount, added>>
          /\ todo' = todo \ {i}
    BY <1>4 DEF AttachRow
  <2>2. i \in 1..Cardinality(Wans) /\ todo' \subseteq 1..Cardinality(Wans)
    BY <2>1 DEF Lowest, TypeOK
  <2>3. CASE Plug(i) /\ NeedsSlot(i)
    <3>1. wanCount \in Slots /\ wanCount + 1 \in 0..MaxSlots
      BY <2>3, SlotsAssumption DEF Plug, SlotLeft, TypeOK, Slots
    <3>2. new[i].wan \in Wans \cup {None}
      BY <1>0, <1>4, <2>1 DEF AttachRow, Lowest, Phases, NamesIn
    <3>3. i \in 0..Cardinality(Wans) BY <2>2, Counts
    <3>4. /\ name' \in [Slots -> Wans \cup {None}] /\ live' \in [Slots -> BOOLEAN]
          /\ xdp' \in [Slots -> BOOLEAN] /\ cfgIdx' \in [Slots -> 0..Cardinality(Wans)]
          /\ wanCount' \in 0..MaxSlots /\ added' \subseteq Slots
      BY <2>3, <3>1, <3>2, <3>3 DEF Plug, TypeOK
    <3> QED BY <1>4, <2>2, <3>4 DEF AttachRow, drainVars, history, TypeOK
  <2>4. CASE UNCHANGED <<name, live, xdp, cfgIdx, wanCount, added>>
    BY <1>4, <2>2, <2>4 DEF AttachRow, drainVars, history, TypeOK
  <2> QED BY <2>1, <2>3, <2>4
<1>5. ASSUME AttachFails PROVE TypeOK'
  <2>1. /\ live' \in [Slots -> BOOLEAN] /\ xdp' \in [Slots -> BOOLEAN]
        /\ stopped' \in [Slots -> BOOLEAN] /\ cfgIdx' \in [Slots -> 0..Cardinality(Wans)]
    BY <1>5, UnplugTypes DEF AttachFails
  <2>2. wanCount' \in 0..MaxSlots BY <1>5 DEF AttachFails, BringDownCount
  <2>3. disturbed' \in BOOLEAN BY <1>5 DEF AttachFails, TypeOK
  <2>4. new' = <<>> /\ mode' = "none" /\ phase' = "idle" /\ trigger' = None /\ todo' = {} /\ added' = {}
    BY <1>5 DEF AttachFails, Over
  <2> QED BY <1>5, <2>1, <2>2, <2>3, <2>4 DEF AttachFails, drainVars, TypeOK
<1>6. ASSUME StartDrains PROVE TypeOK'
  <2>1. drain' \in [Slots -> [row : 0..Cardinality(Wans), wan : Wans \cup {None}, left : -1..DrainTicks]]
    <3> SUFFICES ASSUME NEW d \in Slots, DrainsOf(d)
                 PROVE  [row |-> cfgIdx[d], wan |-> cfg[cfgIdx[d]].wan, left |-> DrainTicks]
                          \in [row : 0..Cardinality(Wans), wan : Wans \cup {None}, left : -1..DrainTicks]
      BY <1>6 DEF StartDrains, TypeOK
    <3>1. cfg[cfgIdx[d]].wan \in Wans BY ConfigFacts DEF DrainsOf, TypeOK
    <3>2. DrainTicks \in -1..DrainTicks BY SlotsAssumption
    <3> QED BY <3>1, <3>2 DEF TypeOK
  <2>2. activeDp' \in Nat BY <1>0, <1>6 DEF StartDrains, NamesIn
  <2>3. cfgIdx' \in [Slots -> 0..Cardinality(Wans)]
    <3>1. DOMAIN new \subseteq 0..Cardinality(Wans) BY <1>0, Counts DEF NamesIn
    <3>2. \A d \in Slots : cfgIdx'[d] \in 0..Cardinality(Wans)
      BY <1>6, <3>1 DEF StartDrains, TypeOK
    <3> QED BY <1>6, <3>2 DEF StartDrains
  <2>4. misnamed' \in BOOLEAN BY <1>6 DEF StartDrains, TypeOK
  <2> QED BY <1>6, <2>1, <2>2, <2>3, <2>4 DEF StartDrains, Goes, TypeOK
<1>7. ASSUME Publish PROVE TypeOK'
  <2>1. wanCount' \in 0..MaxSlots BY <1>7 DEF Publish, BringDownCount, TypeOK
  <2>2. cfg' \in MergedConfigs BY <1>7 DEF Publish, Phases
  <2> QED BY <1>7, <2>1, <2>2 DEF Publish, drainVars, history, TypeOK
<1>8. ASSUME Finish PROVE TypeOK'
  <2>1. /\ stopped' \in [Slots -> BOOLEAN] /\ activeDp' \in Nat
        /\ drain' \in [Slots -> [row : 0..Cardinality(Wans), wan : Wans \cup {None},
                                 left : -1..DrainTicks]]
    <3>1. NoDrain \in [row : 0..Cardinality(Wans), wan : Wans \cup {None}, left : -1..DrainTicks]
      BY Counts, SlotsAssumption DEF NoDrain
    <3>2. CASE mode \in InterfaceModes
      <4>1. stopped' = [d \in Slots |-> FALSE] /\ drain' = [d \in Slots |-> NoDrain]
            /\ activeDp' = wanCount
        BY <1>8, <3>2 DEF Finish, Reset
      <4>2. wanCount \in Nat BY SlotsAssumption DEF TypeOK
      <4> QED BY <3>1, <4>1, <4>2
    <3>3. CASE mode \notin InterfaceModes BY <1>8, <3>3 DEF Finish, Reset, TypeOK
    <3> QED BY <3>2, <3>3
  <2>2. new' = <<>> /\ mode' = "none" /\ phase' = "idle" /\ trigger' = None /\ todo' = {} /\ added' = {}
    BY <1>8 DEF Finish, Over
  <2> QED BY <1>8, <2>1, <2>2 DEF Finish, TypeOK
<1>9. ASSUME Clock PROVE TypeOK'
  <2>1. drain' \in [Slots -> [row : 0..Cardinality(Wans), wan : Wans \cup {None}, left : -1..DrainTicks]]
    <3>1. \A d \in Slots : drain[d].left > 0 => drain[d].left - 1 \in -1..DrainTicks
      BY SlotsAssumption DEF TypeOK
    <3> QED BY <1>9, <3>1 DEF Clock, TypeOK
  <2> QED BY <1>9, <2>1 DEF Clock, slotVars, reloadVars, history, TypeOK
<1>10. ASSUME NEW d \in Slots, DrainExpires(d) PROVE TypeOK'
  <2>1. drain' \in [Slots -> [row : 0..Cardinality(Wans), wan : Wans \cup {None}, left : -1..DrainTicks]]
    <3>1. NoDrain \in [row : 0..Cardinality(Wans), wan : Wans \cup {None}, left : -1..DrainTicks]
      BY Counts, SlotsAssumption DEF NoDrain
    <3> QED BY <1>10, <3>1 DEF DrainExpires, TypeOK
  <2>2. xdp' \in [Slots -> BOOLEAN] /\ stopped' \in [Slots -> BOOLEAN]
    BY <1>10 DEF DrainExpires, TypeOK
  <2> QED BY <1>10, <2>1, <2>2 DEF DrainExpires, reloadVars, history, TypeOK
<1>11. UNCHANGED vars => TypeOK'
  BY DEF vars, slotVars, drainVars, reloadVars, history, TypeOK
<1>12. Quiet => UNCHANGED vars BY DEF Quiet
<1> QED BY <1>1, <1>2, <1>3, <1>4, <1>5, <1>6, <1>7, <1>8, <1>9, <1>10, <1>11, <1>12
        DEF Next, ReloadStep

------------------------------------------------------------------------------
Rest == /\ OneSlotPerWan /\ Phases /\ Tight /\ AddedLast /\ AsBefore /\ DrainNames /\ StoppedOff

(* Steps that touch no slot and no drain. *)
LEMMA SlotsSame ==
  ASSUME IInv, UNCHANGED <<name, live, xdp, stopped, wanCount, added, drain, misnamed>>
  PROVE  OneSlotPerWan' /\ AddedLast' /\ DrainNames' /\ StoppedOff'
  BY DEF IInv, OneSlotPerWan, AddedLast, Kept, DrainNames, StoppedOff

LEMMA RequestKeeps ==
  ASSUME IInv, NEW p \in Profiles, NEW c \in MergedConfigs, NEW u \in BOOLEAN, Request(p, c, u)
  PROVE  Rest'
<1>1. /\ UNCHANGED <<name, live, xdp, stopped, wanCount, drain, misnamed>>
      /\ phase = "idle" /\ added = {} /\ added' = {} /\ new' = c /\ trigger' = p
      /\ mode' \in IncrementalPaths \cup HotPaths /\ phase' = FirstPhase(mode')
      /\ todo' = IF mode' = "add" THEN Named(c, p) ELSE Named(cfg, p)
      /\ before' = <<Serving(name, live), wanCount>>
  BY DEF Request, slotVars, drainVars, IInv, Phases
<1>2. OneSlotPerWan' /\ AddedLast' /\ DrainNames' /\ StoppedOff' BY <1>1, SlotsSame
<1>3. /\ phase' \in {"detach", "attach", "drains", "publish"}
      /\ phase' = "attach" => mode' = "add"
      /\ phase' = "detach" => mode' \in {"delta", "remove"}
      /\ phase' = "drains" => mode' = "drain"
  BY <1>1, ModeFacts
<1>4. Named(c, p) \subseteq DOMAIN c BY DEF Named
<1>5. Phases' BY <1>1, <1>3, <1>4 DEF Phases
<1>6. Reconciled(live, wanCount) BY <1>1 DEF IInv, Tight, Settled
<1>7. Tight' BY <1>1, <1>6 DEF Tight, Reconciled
<1>8. AsBefore'
  <2>1. \A d \in Slots : Kept'[d] = live[d] BY <1>1 DEF Kept, IInv, TypeOK
  <2>2. Serving(name', Kept') = Serving(name, live) BY <1>1, <2>1 DEF Serving
  <2>3. wanCount \in 0..MaxSlots BY DEF IInv, TypeOK
  <2>4. Reconciled(Kept', wanCount) BY <1>6, <2>1, <2>3, ReconciledSame
  <2> QED BY <1>1, <2>2, <2>3, <2>4 DEF AsBefore, Kept, Serving, Reconciled
<1> QED BY <1>2, <1>5, <1>7, <1>8 DEF Rest

LEMMA DetachRowKeeps == ASSUME IInv, TypeOK', DetachRow PROVE Rest'
<1>1. PICK D : Unplug(D) BY DEF DetachRow
<1>2. /\ UNCHANGED <<cfg, name, wanCount, drain, new, mode, phase, added, misnamed, before>>
      /\ phase = "detach"
  BY DEF DetachRow, drainVars, history
<1>3. /\ \A d \in Slots : live'[d] <=> live[d] /\ d \notin D
      /\ \A d \in Slots : xdp'[d] <=> xdp[d] /\ d \notin D
      /\ \A d \in Slots : stopped'[d] <=> stopped[d] \/ d \in D
  BY <1>1 DEF Unplug
<1>4. OneSlotPerWan' BY <1>2, <1>3 DEF IInv, OneSlotPerWan
<1>5. Phases' /\ Tight' /\ AsBefore'
  BY <1>2 DEF IInv, Phases, Tight, Settled, AsBefore
<1>6. AddedLast'
  <2>1. \A d \in Slots : Kept'[d] => Kept[d] BY <1>2, <1>3 DEF Kept
  <2> QED BY <1>2, <2>1 DEF IInv, AddedLast
<1>7. DrainNames' /\ StoppedOff' BY <1>2, <1>3 DEF IInv, DrainNames, StoppedOff
<1> QED BY <1>4, <1>5, <1>6, <1>7 DEF Rest

LEMMA DetachDoneKeeps == ASSUME IInv, DetachDone PROVE Rest'
<1>1. /\ UNCHANGED <<name, live, xdp, stopped, wanCount, drain, misnamed, added, new, mode, trigger>>
      /\ phase = "detach" /\ phase' = IF mode = "delta" THEN "attach" ELSE "publish"
      /\ todo' = IF mode = "delta" THEN Named(new, trigger) ELSE {}
  BY DEF DetachDone, Goes, slotVars, drainVars, history
<1>2. OneSlotPerWan' /\ AddedLast' /\ DrainNames' /\ StoppedOff' BY <1>1, SlotsSame
<1>3. Named(new, trigger) \subseteq DOMAIN new BY DEF Named
<1>4. mode \in {"delta", "remove"} BY <1>1 DEF IInv, Phases
<1>5. Phases' BY <1>1, <1>3, <1>4 DEF IInv, Phases
<1>6. Tight' /\ AsBefore' BY <1>1, <1>4 DEF Tight, Settled, InterfaceModes, AsBefore
<1> QED BY <1>2, <1>5, <1>6 DEF Rest

LEMMA AttachRowKeeps == ASSUME IInv, TypeOK', AttachRow PROVE Rest'
<1> USE SlotsAssumption
<1>1. PICK i \in Lowest(todo) :
        /\ IF NeedsSlot(i) THEN Plug(i)
           ELSE UNCHANGED <<name, live, xdp, cfgIdx, wanCount, added>>
        /\ todo' = todo \ {i}
  BY DEF AttachRow
<1>2. /\ UNCHANGED <<stopped, drain, misnamed, new, mode, phase, before>> /\ phase = "attach"
      /\ mode \in {"add", "delta"}
  BY DEF AttachRow, drainVars, history, IInv, Phases
<1>3. Phases' /\ Tight' BY <1>1, <1>2 DEF IInv, Phases, Tight, Settled
<1>4. CASE UNCHANGED <<name, live, xdp, cfgIdx, wanCount, added>>
  <2>1. OneSlotPerWan' /\ AddedLast' /\ DrainNames' /\ StoppedOff' BY <1>2, <1>4, SlotsSame
  <2>2. AsBefore' BY <1>2, <1>4 DEF IInv, AsBefore, Kept, Serving, Reconciled
  <2> QED BY <1>3, <2>1, <2>2 DEF Rest
<1>5. CASE NeedsSlot(i) /\ Plug(i)
  <2> DEFINE w == new[i].wan
  <2>1. wanCount \in Slots /\ wanCount < MaxSlots /\ wanCount' = wanCount + 1
    BY <1>5 DEF Plug, SlotLeft, IInv, TypeOK, Slots
  <2>2. /\ \A d \in Slots : d # wanCount => name'[d] = name[d] /\ live'[d] = live[d] /\ xdp'[d] = xdp[d]
        /\ name'[wanCount] = w /\ live'[wanCount] /\ xdp'[wanCount]
        /\ added' = added \cup {wanCount}
    BY <1>5, <2>1 DEF Plug, IInv, TypeOK
  <2>3. \A d \in Slots : live[d] => d < wanCount /\ d # wanCount /\ name[d] # w
    <3> SUFFICES ASSUME NEW d \in Slots, live[d] PROVE d < wanCount /\ d # wanCount /\ name[d] # w
      OBVIOUS
    <3>1. d < wanCount /\ d \in 0..wanCount-1 BY <2>1 DEF IInv, OneSlotPerWan, Slots
    <3>2. name[d] # w BY <1>5, <3>1 DEF NeedsSlot, LiveSlots
    <3> QED BY <2>1, <3>1, <3>2 DEF Slots
  <2> HIDE DEF w
  <2>4. OneSlotPerWan'
    <3>1. \A d, e \in Slots : live'[d] /\ live'[e] /\ name'[d] = name'[e] => d = e
      BY <2>2, <2>3 DEF IInv, OneSlotPerWan
    <3>2. \A d \in Slots : live'[d] => d < wanCount'
      BY <2>1, <2>2, <2>3 DEF Slots
    <3> QED BY <3>1, <3>2 DEF OneSlotPerWan
  <2>5. \A d \in Slots : Kept'[d] <=> Kept[d]
    BY <2>2, <2>3 DEF Kept
  <2>6. AddedLast'
    <3>1. \A d \in Slots : Kept[d] => d < wanCount BY <2>3 DEF Kept
    <3> QED BY <2>2, <2>5, <3>1 DEF IInv, AddedLast
  <2>7. AsBefore'
    <3>1. \A d \in Slots : Kept[d] => name'[d] = name[d] BY <2>2, <2>3 DEF Kept
    <3>2. Serving(name', Kept') = Serving(name, Kept) BY <2>5, <3>1 DEF Serving
    <3>3. \A d \in Slots : Kept'[d] = Kept[d] BY <2>5 DEF Kept
    <3>4. ASSUME NEW n \in 0..MaxSlots, Reconciled(Kept, n) PROVE Reconciled(Kept', n)
      BY <3>3, <3>4, ReconciledSame
    <3>5. phase = "attach" /\ mode = "add" =>
            \E n \in 0..MaxSlots : Reconciled(Kept', n) /\ before = <<Serving(name', Kept'), n>>
      BY <3>2, <3>4 DEF IInv, AsBefore
    <3>6. UNCHANGED <<phase, mode, before>> BY <1>2
    <3> QED BY <3>5, <3>6 DEF AsBefore
  <2>8. DrainNames'
    BY <1>2, <2>1, <2>2 DEF IInv, DrainNames, Slots, TypeOK
  <2>9. StoppedOff' BY <1>2, <2>2 DEF IInv, StoppedOff
  <2> QED BY <1>3, <2>4, <2>6, <2>7, <2>8, <2>9 DEF Rest
<1> QED BY <1>1, <1>4, <1>5

LEMMA AttachFailsKeeps == ASSUME IInv, TypeOK', AttachFails PROVE Rest'
<1>1. /\ UNCHANGED <<name, drain, misnamed>> /\ phase = "attach"
      /\ phase' = "idle" /\ added' = {} /\ mode' = "none"
      /\ Reconciled(live', wanCount') /\ wanCount' \in 0..MaxSlots
  BY DEF AttachFails, drainVars, Over, BringDownCount
<1>2. /\ \A d \in Slots : live'[d] <=> live[d] /\ d \notin added
      /\ \A d \in Slots : xdp'[d] <=> xdp[d] /\ d \notin added
      /\ \A d \in Slots : stopped'[d] <=> stopped[d] \/ d \in added
  BY DEF AttachFails, Unplug, Rollback
<1>3. OneSlotPerWan' BY <1>1, <1>2 DEF IInv, OneSlotPerWan, Reconciled
<1>4. Phases' /\ AddedLast' /\ AsBefore' BY <1>1 DEF Phases, AddedLast, AsBefore
<1>5. Tight' BY <1>1 DEF Tight, Reconciled
<1>6. wanCount' <= wanCount /\ \A a \in added : ~(a < wanCount')
  <2>1. PICK n \in 0..MaxSlots : n = wanCount' BY <1>1
  <2>2. Reconciled(Kept, n)
    <3>1. \A d \in Slots : Kept[d] = live'[d] BY <1>2 DEF Kept, AttachFails, Unplug, Rollback
    <3> QED BY <1>1, <2>1, <3>1, ReconciledSame
  <2>3. wanCount \in 0..MaxSlots /\ added \subseteq Slots BY DEF IInv, TypeOK
  <2>4. n <= wanCount
    <3>1. \A d \in Slots : Kept[d] => d < wanCount BY DEF Kept, IInv, OneSlotPerWan
    <3> QED BY <2>2, <2>3, <3>1, CountBelow
  <2>5. ASSUME NEW a \in added PROVE n <= a
    <3>1. a \in 0..MaxSlots BY <2>3, SlotsAssumption DEF Slots
    <3>2. \A d \in Slots : Kept[d] => d < a BY <2>5 DEF IInv, AddedLast
    <3> QED BY <2>2, <3>1, <3>2, CountBelow
  <2>6. \A a \in added : a \in 0..MaxSlots BY <2>3, SlotsAssumption DEF Slots
  <2>7. ASSUME NEW a \in added PROVE ~(a < n) BY <2>5, <2>6, SlotsAssumption
  <2> QED BY <2>1, <2>4, <2>7
<1>7. DrainNames'
  <2>1. \A d \in Slots : d < wanCount' => d < wanCount /\ d \notin added
    BY <1>1, <1>6, SlotsAssumption DEF IInv, TypeOK, Slots
  <2> QED BY <1>1, <2>1 DEF IInv, DrainNames
<1>8. StoppedOff' BY <1>1, <1>2 DEF IInv, StoppedOff
<1> QED BY <1>3, <1>4, <1>5, <1>7, <1>8 DEF Rest

LEMMA StartDrainsKeeps == ASSUME IInv, TypeOK', StartDrains PROVE Rest'
<1>1. /\ UNCHANGED <<name, live, xdp, stopped, wanCount, new, mode, added>>
      /\ phase = "drains" /\ phase' = "publish" /\ added = {}
  <2>1. mode = "drain" /\ phase = "drains" BY DEF StartDrains, Goes, IInv, Phases
  <2>2. added = {} BY <2>1 DEF IInv, Phases
  <2> QED BY <2>1, <2>2 DEF StartDrains, Goes
<1>2. OneSlotPerWan' /\ AddedLast' BY <1>1 DEF IInv, OneSlotPerWan, AddedLast
<1>3. Phases' /\ Tight' /\ AsBefore' BY <1>1 DEF IInv, Phases, Tight, Settled, AsBefore, Reconciled
<1>4. \A d \in Slots : drain'[d].left >= 0 => drain'[d].wan # None
  <2> SUFFICES ASSUME NEW d \in Slots, drain'[d].left >= 0 PROVE drain'[d].wan # None
    OBVIOUS
  <2>1. CASE DrainsOf(d)
    <3>1. drain'[d].wan = cfg[cfgIdx[d]].wan BY <2>1 DEF StartDrains
    <3>2. cfg[cfgIdx[d]].wan \in Wans BY <2>1, ConfigFacts DEF DrainsOf, IInv, TypeOK
    <3> QED BY <3>1, <3>2, SlotsAssumption
  <2>2. CASE ~DrainsOf(d)
    <3>1. drain'[d] = drain[d] BY <2>2 DEF StartDrains
    <3> QED BY <3>1 DEF IInv, DrainNames
  <2> QED BY <2>1, <2>2
<1>5. ~misnamed' => \A d \in Slots : drain'[d].wan \in {None, name[d]}
  BY DEF StartDrains
<1>6. misnamed => misnamed' BY DEF StartDrains
<1>7. DrainNames' BY <1>1, <1>4, <1>5 DEF DrainNames
<1>8. StoppedOff' BY <1>1, <1>6 DEF IInv, StoppedOff, TypeOK
<1> QED BY <1>2, <1>3, <1>7, <1>8 DEF Rest

LEMMA PublishKeeps == ASSUME IInv, TypeOK', Publish PROVE Rest'
<1>1. /\ UNCHANGED <<name, live, xdp, stopped, drain, new, mode, added, misnamed>>
      /\ phase \in {"publish", "attach"} /\ phase' = "finish"
  BY DEF Publish, drainVars, history
<1>2. CASE mode \in InterfaceModes
  <2>1. Reconciled(live, wanCount') /\ wanCount' \in 0..MaxSlots
    BY <1>2 DEF Publish, BringDownCount
  <2>2. OneSlotPerWan' BY <1>1, <2>1 DEF IInv, OneSlotPerWan, Reconciled
  <2>3. Tight' BY <1>1, <2>1 DEF Tight, Reconciled
  <2>4. wanCount' <= wanCount
    <3>1. PICK n \in 0..MaxSlots : n = wanCount' BY <2>1
    <3>2. wanCount \in 0..MaxSlots /\ \A d \in Slots : live[d] => d < wanCount
      BY DEF IInv, TypeOK, OneSlotPerWan
    <3>3. Reconciled(live, n) BY <2>1, <3>1
    <3>4. n <= wanCount BY <3>2, <3>3, CountBelow
    <3> QED BY <3>1, <3>4
  <2>5. \A d \in Slots : d < wanCount' => d < wanCount
    BY <2>1, <2>4, SlotsAssumption DEF IInv, TypeOK, Slots
  <2>6. DrainNames' BY <1>1, <2>5 DEF IInv, DrainNames
  <2>7. AddedLast' /\ StoppedOff' BY <1>1 DEF IInv, AddedLast, Kept, StoppedOff
  <2>8. Phases' /\ AsBefore' BY <1>1 DEF IInv, Phases, AsBefore
  <2> QED BY <2>2, <2>3, <2>6, <2>7, <2>8 DEF Rest
<1>3. CASE mode \notin InterfaceModes
  <2>1. UNCHANGED wanCount BY <1>3 DEF Publish
  <2>2. phase = "publish" BY <1>1, <1>3 DEF IInv, Phases, InterfaceModes
  <2>3. Tight' BY <1>1, <1>3, <2>1, <2>2 DEF IInv, Tight, Settled, Reconciled
  <2>4. Phases' /\ AsBefore' BY <1>1 DEF IInv, Phases, AsBefore
  <2> QED BY <1>1, <2>1, <2>3, <2>4, SlotsSame DEF Rest
<1> QED BY <1>2, <1>3

LEMMA FinishKeeps == ASSUME IInv, TypeOK', Finish PROVE Rest'
<1>1. /\ UNCHANGED <<name, live, xdp, wanCount, misnamed>>
      /\ phase = "finish" /\ phase' = "idle" /\ added' = {} /\ mode' = "none"
  BY DEF Finish, Over
<1>2. OneSlotPerWan' BY <1>1 DEF IInv, OneSlotPerWan
<1>3. Phases' /\ AddedLast' /\ AsBefore' BY <1>1 DEF Phases, AddedLast, AsBefore
<1>4. Tight' BY <1>1 DEF IInv, Tight, Settled, Reconciled
<1>5. CASE mode \in InterfaceModes
  <2>1. /\ \A d \in Slots : ~stopped'[d]
        /\ \A d \in Slots : drain'[d] = NoDrain
    BY <1>5 DEF Finish, Reset
  <2>2. NoDrain.wan = None /\ NoDrain.left = -1 BY DEF NoDrain
  <2>3. DrainNames' /\ StoppedOff' BY <1>1, <2>1, <2>2 DEF DrainNames, StoppedOff
  <2> QED BY <1>2, <1>3, <1>4, <2>3 DEF Rest
<1>6. CASE mode \notin InterfaceModes
  <2>1. UNCHANGED <<stopped, drain>> BY <1>6 DEF Finish, Reset
  <2>2. added = {} BY <1>6 DEF IInv, Phases, InterfaceModes
  <2>3. DrainNames' /\ StoppedOff' BY <1>1, <2>1, <2>2 DEF IInv, DrainNames, StoppedOff
  <2> QED BY <1>2, <1>3, <1>4, <2>3 DEF Rest
<1> QED BY <1>5, <1>6

LEMMA ClockKeeps == ASSUME IInv, TypeOK', Clock PROVE Rest'
<1>1. UNCHANGED <<name, live, xdp, stopped, wanCount, phase, mode, new, todo, added, misnamed, before>>
  BY DEF Clock, slotVars, reloadVars, history
<1>2. \A d \in Slots : drain'[d].wan = drain[d].wan
                       /\ (drain'[d].left >= 0 => drain[d].left >= 0)
  BY DEF Clock, IInv, TypeOK
<1>3. DrainNames' BY <1>1, <1>2 DEF IInv, DrainNames
<1>4. OneSlotPerWan' /\ AddedLast' /\ StoppedOff'
  BY <1>1 DEF IInv, OneSlotPerWan, AddedLast, Kept, StoppedOff
<1>5. Phases' /\ Tight' /\ AsBefore'
  BY <1>1 DEF IInv, Phases, Tight, Settled, AsBefore, Kept, Serving, Reconciled
<1> QED BY <1>3, <1>4, <1>5 DEF Rest

LEMMA DrainExpiresKeeps == ASSUME IInv, TypeOK', NEW d \in Slots, DrainExpires(d) PROVE Rest'
<1>1. /\ UNCHANGED <<name, live, wanCount, phase, mode, new, todo, added, misnamed, before>>
      /\ phase = "idle" /\ d < wanCount /\ drain[d].left = 0
  BY DEF DrainExpires, reloadVars, history
<1>2. /\ \A e \in Slots : xdp'[e] <=> xdp[e] /\ name[e] # drain[d].wan
      /\ \A e \in Slots : stopped'[e] <=> stopped[e] \/ e = d
      /\ \A e \in Slots : drain'[e] = IF e = d THEN NoDrain ELSE drain[e]
  BY DEF DrainExpires, IInv, TypeOK
<1>3. added = {} BY <1>1 DEF IInv, Phases
<1>4. NoDrain.wan = None /\ NoDrain.left = -1 BY DEF NoDrain
<1>5. DrainNames' BY <1>1, <1>2, <1>4 DEF IInv, DrainNames
<1>6. ~misnamed => drain[d].wan = name[d]
  BY <1>1, <1>3 DEF IInv, DrainNames
<1>7. StoppedOff' BY <1>1, <1>2, <1>6 DEF IInv, StoppedOff
<1>8. OneSlotPerWan' /\ AddedLast' BY <1>1 DEF IInv, OneSlotPerWan, AddedLast, Kept
<1>9. Phases' /\ Tight' /\ AsBefore'
  BY <1>1 DEF IInv, Phases, Tight, Settled, AsBefore, Reconciled
<1> QED BY <1>5, <1>7, <1>8, <1>9 DEF Rest

LEMMA NextKeeps == IInv /\ [Next]_vars => IInv'
<1> SUFFICES ASSUME IInv, [Next]_vars PROVE IInv' OBVIOUS
<1>1. TypeOK' BY TypeKept DEF IInv
<1>2. CASE UNCHANGED vars
  BY <1>1, <1>2 DEF vars, slotVars, drainVars, reloadVars, history, IInv, OneSlotPerWan, Phases,
                    Tight, Settled, AddedLast, AsBefore, Kept, Serving, Reconciled, DrainNames,
                    StoppedOff
<1>3. Next => Rest' \/ UNCHANGED vars
  BY <1>1, RequestKeeps, DetachRowKeeps, DetachDoneKeeps, AttachRowKeeps, AttachFailsKeeps,
     StartDrainsKeeps, PublishKeeps, FinishKeeps, ClockKeeps, DrainExpiresKeeps
     DEF Next, ReloadStep, Quiet
<1> QED BY <1>1, <1>2, <1>3 DEF Rest, IInv

(* The inductive invariant of the slots, through reloads, drains and rollbacks. *)
THEOREM Invariant == Spec => []IInv
<1>1. Init => IInv BY InitIInv
<1>2. IInv /\ [Next]_vars => IInv' BY NextKeeps
<1> QED BY <1>1, <1>2, PTL DEF Spec

(* Slots, drains and counts have their types. *)
THEOREM TypeCorrect == Spec => []TypeOK
<1>1. IInv => TypeOK BY DEF IInv
<1> QED BY <1>1, Invariant, PTL

(* attach_profile_wan_rows never opens a WAN twice, and the loops over *)
(* wan_count reach every open slot (fwd_reconcile_iface_counts).       *)
THEOREM OneSlot == Spec => []OneSlotPerWan
<1>1. IInv => OneSlotPerWan BY DEF IInv
<1> QED BY <1>1, Invariant, PTL

(* profile_attach_sess_rollback and fwd_reconcile_iface_counts undo a failed *)
(* attach completely.                                                        *)
RestoreStep == phase = "attach" /\ phase' = "idle" /\ mode = "add"
                 => <<Serving(name', live'), wanCount'>> = before
THEOREM Restores == Spec => FailedAddRestores
<1>1. IInv /\ [Next]_vars => [RestoreStep]_vars
  <2> SUFFICES ASSUME IInv, [Next]_vars, phase = "attach", phase' = "idle", mode = "add"
               PROVE  <<Serving(name', live'), wanCount'>> = before
    BY DEF RestoreStep
  <2>1. AttachFails
    BY DEF Next, ReloadStep, Request, DetachRow, DetachDone, AttachRow, StartDrains, Publish,
           Finish, Goes, Clock, reloadVars, DrainExpires, Quiet, vars
  <2>2. \A s \in Slots : live'[s] = Kept[s]
    BY <2>1 DEF AttachFails, Unplug, Rollback, Kept, IInv, TypeOK
  <2>3. name' = name /\ Reconciled(live', wanCount') /\ wanCount' \in 0..MaxSlots
    BY <2>1 DEF AttachFails, BringDownCount
  <2>4. Serving(name', live') = Serving(name, Kept) BY <2>2, <2>3 DEF Serving
  <2>5. PICK n \in 0..MaxSlots : Reconciled(Kept, n) /\ before = <<Serving(name, Kept), n>>
    BY DEF IInv, AsBefore
  <2>6. Reconciled(Kept, wanCount') BY <2>2, <2>3, ReconciledSame
  <2>7. wanCount' = n BY <2>3, <2>5, <2>6, OneCount
  <2> QED BY <2>4, <2>5, <2>7
<1> QED BY <1>1, Invariant, PTL DEF Spec, FailedAddRestores, RestoreStep

(* Between reloads fwd_wan_drain_tick leaves no WAN stopped that receives, *)
(* unless a drain was recorded for another interface.                      *)
THEOREM StoppedDetached == Spec => []StoppedIsDetached
<1>1. IInv => StoppedIsDetached
  BY DEF IInv, Phases, StoppedOff, StoppedIsDetached
<1> QED BY <1>1, Invariant, PTL

------------------------------------------------------------------------------
(* The rows that are in the dataplane, and how a row and a slot agree: the slot *)
(* of its position is open with its interface; packets may be sent to it.       *)
Dp(c) == {i \in DOMAIN c : c[i].dataplane}
Sits(c, i) == /\ ToDp(c, i) \in Slots /\ ToDp(c, i) < wanCount
              /\ live[ToDp(c, i)] /\ name[ToDp(c, i)] = c[i].wan
Serves(i) == Sits(cfg, i) /\ ~stopped[ToDp(cfg, i)] /\ ToDp(cfg, i) < activeDp
LiveFrom(c, T) == \A d \in Slots : live[d] =>
                    \E i \in Dp(c) \cap T : ToDp(c, i) = d /\ name[d] = c[i].wan

(* As long as reloads only append rows or cut off the last ones: between       *)
(* reloads every row serves; during one, those it keeps do, and a slot is open *)
(* for a row that is kept, still to be detached, or attached already.          *)
AllServe == wanCount = activeDp /\ (\A i \in Dp(cfg) : Serves(i)) /\ LiveFrom(cfg, DOMAIN cfg)
Removing == /\ Prefix(new, cfg) /\ OwnedBeyond(new, cfg, trigger)
            /\ LiveFrom(cfg, DOMAIN new \cup (IF phase = "detach" THEN todo ELSE {}))
ToAttach == todo \ DOMAIN cfg
Adding == /\ Prefix(cfg, new) /\ OwnedBeyond(cfg, new, trigger)
          /\ phase = "attach"
          /\ \A i \in Dp(new) \ ToAttach : Sits(new, i)
          /\ \A i \in Dp(new) \cap ToAttach : ToDp(new, i) >= wanCount
          /\ LiveFrom(new, DOMAIN new \ ToAttach)
          /\ Reconciled(Kept, activeDp) /\ activeDp <= MaxSlots
          /\ \A i \in Dp(new) \ DOMAIN cfg : ToDp(new, i) >= activeDp
Underway == /\ \A i \in Dp(cfg) : i \in DOMAIN new => Serves(i)
            /\ mode \in {"add", "delta", "remove", "tuning"}
            /\ mode = "add" => Adding
            /\ mode \in {"delta", "remove"} => Removing
            /\ mode = "tuning" => phase = "publish" /\ new = cfg /\ AllServe
Applied == /\ cfg = new
           /\ mode \in InterfaceModes =>
                /\ \A i \in Dp(cfg) : Sits(cfg, i) /\ (cfg[i].owner # trigger => Serves(i))
                /\ LiveFrom(cfg, DOMAIN cfg)
           /\ mode \notin InterfaceModes => AllServe
Positions == ~disturbed => /\ \A d \in Slots : drain[d] = NoDrain
                           /\ phase # "drains"
                           /\ phase = "idle" => AllServe
                           /\ phase \in {"detach", "attach", "publish"} => Underway
                           /\ phase = "finish" => Applied

------------------------------------------------------------------------------
(* Positions.  The rows before a row that are in the dataplane. *)
Below(c, i) == {j \in 1..i-1 : c[j].dataplane}

LEMMA ConfigLength ==
  ASSUME NEW c \in MergedConfigs
  PROVE  /\ Len(c) \in Nat /\ DOMAIN c = 1..Len(c) /\ Len(c) <= Cardinality(Wans)
         /\ \A i \in DOMAIN c : c[i].dataplane \in BOOLEAN
<1>1. PICK n \in 1..Cardinality(Wans) : c \in [1..n -> Rows] BY DEF MergedConfigs
<1>2. n \in Nat /\ n <= Cardinality(Wans) BY Counts
<1>3. Len(c) = n BY <1>1, <1>2
<1> QED BY <1>1, <1>2, <1>3 DEF Rows

LEMMA PositionFacts ==
  ASSUME NEW c \in MergedConfigs, NEW i \in Dp(c)
  PROVE  /\ i \in Nat /\ i \in DOMAIN c /\ c[i].dataplane
         /\ IsFiniteSet(Below(c, i)) /\ Below(c, i) \subseteq Dp(c)
         /\ ToDp(c, i) = Cardinality(Below(c, i)) /\ ToDp(c, i) \in Nat
<1>1. i \in DOMAIN c /\ c[i].dataplane BY DEF Dp
<1>2. i \in 1..Len(c) /\ Len(c) \in Nat BY <1>1, ConfigLength
<1>3. IsFiniteSet(1..i-1) BY <1>2, FS_Interval
<1>4. IsFiniteSet(Below(c, i)) BY <1>3, FS_Subset DEF Below
<1>5. Below(c, i) \subseteq Dp(c) BY <1>2, ConfigLength DEF Below, Dp
<1>6. ToDp(c, i) = Cardinality(Below(c, i)) BY <1>1 DEF ToDp, Below
<1> QED BY <1>1, <1>2, <1>4, <1>5, <1>6, FS_CardinalityType

(* Later rows have higher positions, so no two have the same. *)
LEMMA Ascending ==
  ASSUME NEW c \in MergedConfigs, NEW i \in Dp(c), NEW j \in Dp(c), i < j
  PROVE  ToDp(c, i) < ToDp(c, j)
<1>1. /\ i \in Nat /\ j \in Nat /\ c[i].dataplane
      /\ IsFiniteSet(Below(c, j)) /\ IsFiniteSet(Below(c, i))
      /\ ToDp(c, i) = Cardinality(Below(c, i)) /\ ToDp(c, j) = Cardinality(Below(c, j))
      /\ ToDp(c, i) \in Nat /\ ToDp(c, j) \in Nat
  BY PositionFacts
<1>2. Below(c, i) \subseteq Below(c, j) BY <1>1 DEF Below
<1>3. i \in Below(c, j) /\ i \notin Below(c, i)
  <2>1. i \in 1..Len(c) BY PositionFacts, ConfigLength
  <2> QED BY <1>1, <2>1 DEF Below
<1>4. Cardinality(Below(c, i)) <= Cardinality(Below(c, j))
      /\ (Cardinality(Below(c, j)) = Cardinality(Below(c, i)) => Below(c, j) = Below(c, i))
  BY <1>1, <1>2, FS_Subset
<1> QED BY <1>1, <1>3, <1>4

LEMMA OnePosition ==
  ASSUME NEW c \in MergedConfigs, NEW i \in Dp(c), NEW j \in Dp(c), ToDp(c, i) = ToDp(c, j)
  PROVE  i = j
<1>1. i \in Nat /\ j \in Nat /\ ToDp(c, i) \in Nat BY PositionFacts
<1>2. ~(i < j) /\ ~(j < i) BY <1>1, Ascending
<1> QED BY <1>1, <1>2

(* Every position below that of a row is that of an earlier row: the rows     *)
(* before it are as many as the positions, and no two have the same.          *)
LEMMA EveryPosition ==
  ASSUME NEW c \in MergedConfigs, NEW i \in Dp(c), NEW d \in Nat, d < ToDp(c, i)
  PROVE  \E j \in Dp(c) : j < i /\ ToDp(c, j) = d
<1> DEFINE S == Below(c, i)
           T == 0..ToDp(c, i)-1
           f == [j \in S |-> ToDp(c, j)]
<1>1. /\ i \in Nat /\ IsFiniteSet(S) /\ S \subseteq Dp(c)
      /\ ToDp(c, i) = Cardinality(S) /\ ToDp(c, i) \in Nat
  BY PositionFacts
<1>2. \A j \in S : j < i BY <1>1 DEF Below
<1>3. \A j \in S : ToDp(c, j) \in T
  <2> SUFFICES ASSUME NEW j \in S PROVE ToDp(c, j) \in T OBVIOUS
  <2>1. j \in Dp(c) /\ j < i BY <1>1, <1>2
  <2>2. ToDp(c, j) \in Nat /\ ToDp(c, j) < ToDp(c, i) BY <2>1, PositionFacts, Ascending
  <2> QED BY <1>1, <2>2
<1>4. IsFiniteSet(T) /\ Cardinality(T) = Cardinality(S)
  <2>1. 0 \in Int /\ ToDp(c, i)-1 \in Int BY <1>1
  <2>2. IsFiniteSet(T) /\ Cardinality(T) = IF 0 > ToDp(c, i)-1 THEN 0 ELSE ToDp(c, i)-1-0+1
    BY <2>1, FS_Interval
  <2> QED BY <1>1, <2>2
<1>5. f \in Injection(S, T)
  <2>1. f \in [S -> T] BY <1>3
  <2>2. \A j, k \in S : f[j] = f[k] => j = k BY <1>1, OnePosition
  <2> QED BY <2>1, <2>2 DEF Injection, IsInjective
<1>6. f \in Surjection(S, T) BY <1>4, <1>5, FS_Injection
<1>7. d \in T BY <1>1
<1>8. PICK j \in S : f[j] = d BY <1>6, <1>7 DEF Surjection
<1> QED BY <1>1, <1>2, <1>8

(* Where one configuration begins like another, its rows have the same places. *)
LEMMA SamePosition ==
  ASSUME NEW a \in MergedConfigs, NEW b \in MergedConfigs, Prefix(a, b), NEW i \in DOMAIN a
  PROVE  i \in DOMAIN b /\ b[i] = a[i] /\ ToDp(b, i) = ToDp(a, i)
<1>1. /\ Len(a) \in Nat /\ DOMAIN a = 1..Len(a) /\ Len(b) \in Nat /\ DOMAIN b = 1..Len(b)
      /\ Len(a) <= Len(b)
  BY ConfigLength DEF Prefix
<1>2. \A j \in 1..Len(a) : b[j] = a[j]
  <2> SUFFICES ASSUME NEW j \in 1..Len(a) PROVE SubSeq(b, 1, Len(a))[j] = b[j]
    BY DEF Prefix
  <2>1. SubSeq(b, 1, Len(a)) = [k \in 1..Len(a) |-> b[k + 1 - 1]] BY <1>1
  <2> QED BY <1>1, <2>1
<1>3. i \in DOMAIN b /\ b[i] = a[i] BY <1>1, <1>2
<1>4. Below(b, i) = Below(a, i) BY <1>1, <1>2 DEF Below
<1> QED BY <1>3, <1>4 DEF ToDp, Below

(* A row that is in the dataplane has a position, and the others have none. *)
LEMMA InDataplane ==
  ASSUME NEW c \in MergedConfigs, NEW i \in DOMAIN c
  PROVE  (i \in Dp(c) /\ ToDp(c, i) >= 0) \/ (i \notin Dp(c) /\ ToDp(c, i) = -1)
<1>1. CASE i \in Dp(c) BY <1>1, PositionFacts
<1>2. CASE i \notin Dp(c) BY <1>2 DEF Dp, ToDp
<1> QED BY <1>1, <1>2

(* What the comparison of two configurations sees of their WANs. *)
LEMMA DbWans ==
  ASSUME NEW c, NEW t
  PROVE  /\ WansOf(DbRows(c, t)) = {c[i].wan : i \in DOMAIN c}
         /\ DbRows(c, t).locals = {"lan"}
  BY DEF WansOf, DbRows

LEMMA NeverUnchanged ==
  ASSUME NEW a, NEW b, NEW t, NEW u
  PROVE  ~LanWanDbUnchanged(DbRows(a, t), DbRows(b, u))
<1>1. DbRows(a, t).locals = {"lan"} BY DbWans
<1>2. ~LocalDbEqual("lan", "lan") BY DEF LocalDbEqual
<1> QED BY <1>1, <1>2 DEF LanWanDbUnchanged

(* Appending a row adds a WAN and removes none. *)
LEMMA Longer ==
  ASSUME NEW a \in MergedConfigs, NEW b \in MergedConfigs, Prefix(a, b), a # b, NEW t, NEW u
  PROVE  /\ HasAddition(DbRows(a, t), DbRows(b, u))
         /\ ~HasRemoval(DbRows(a, t), DbRows(b, u))
<1> DEFINE A == {a[i].wan : i \in DOMAIN a}
           B == {b[i].wan : i \in DOMAIN b}
<1>1. /\ Len(a) \in Nat /\ DOMAIN a = 1..Len(a) /\ Len(b) \in Nat /\ DOMAIN b = 1..Len(b)
      /\ Len(a) <= Len(b)
  BY ConfigLength DEF Prefix
<1>2. \A i \in DOMAIN a : i \in DOMAIN b /\ b[i] = a[i] BY SamePosition
<1>3. A \subseteq B BY <1>2
<1>4. Len(a) < Len(b)
  <2>1. PICK n \in 1..Cardinality(Wans) : a \in [1..n -> Rows] BY DEF MergedConfigs
  <2>2. PICK m \in 1..Cardinality(Wans) : b \in [1..m -> Rows] BY DEF MergedConfigs
  <2>3. a = [i \in DOMAIN a |-> a[i]] /\ b = [i \in DOMAIN b |-> b[i]] BY <2>1, <2>2
  <2>4. DOMAIN a # DOMAIN b BY <1>2, <2>3
  <2>5. Len(a) # Len(b) BY <1>1, <2>4
  <2>6. \A x, y \in Nat : x <= y /\ x # y => x < y OBVIOUS
  <2> QED BY <1>1, <2>5, <2>6
<1>5. b[Len(b)].wan \in B /\ b[Len(b)].wan \notin A
  <2>1. Len(b) \in DOMAIN b /\ Len(b) \notin DOMAIN a BY <1>1, <1>4
  <2>2. ASSUME NEW i \in DOMAIN a, a[i].wan = b[Len(b)].wan PROVE FALSE
    <3>1. i \in DOMAIN b /\ b[i].wan = b[Len(b)].wan BY <1>2, <2>2
    <3>2. i = Len(b) BY <2>1, <3>1, ConfigFacts
    <3> QED BY <2>1, <2>2, <3>2
  <2> QED BY <2>1, <2>2
<1>6. /\ WansOf(DbRows(a, t)) = A /\ WansOf(DbRows(b, u)) = B
      /\ DbRows(a, t).locals = {"lan"} /\ DbRows(b, u).locals = {"lan"}
  BY DbWans
<1> HIDE DEF A, B
<1> QED BY <1>3, <1>5, <1>6 DEF HasAddition, HasRemoval

(* The mode of a reload that appends rows, cuts off the last ones or leaves *)
(* the rows as they are.                                                    *)
ModeFits(m, a, c, p) ==
    \/ m = "tuning" /\ c = a
    \/ m = "add" /\ Prefix(a, c) /\ OwnedBeyond(a, c, p)
    \/ m \in {"delta", "remove"} /\ Prefix(c, a) /\ OwnedBeyond(c, a, p)

(* Path picks the mode that fits, whatever the tuning of the rows. *)
LEMMA PathFits ==
  ASSUME NEW a \in MergedConfigs, NEW c \in MergedConfigs, NEW t, NEW u, NEW p,
         AtTheEnd(a, c, p),
         Path(DbRows(a, t), DbRows(c, u)) \in IncrementalPaths \cup HotPaths
  PROVE  ModeFits(Path(DbRows(a, t), DbRows(c, u)), a, c, p)
<1> SUFFICES ASSUME NEW m, m = Path(DbRows(a, t), DbRows(c, u)),
                    m \in IncrementalPaths \cup HotPaths
             PROVE  ModeFits(m, a, c, p)
  OBVIOUS
<1> DEFINE o == DbRows(a, t)
           n == DbRows(c, u)
<1>1. ~LanWanDbUnchanged(o, n) BY NeverUnchanged
<1>2. ~ConfigDbUnchanged(o, n) BY <1>1 DEF ConfigDbUnchanged
<1>3. o.locals = {"lan"} /\ n.locals = {"lan"}
      /\ WansOf(o) = {a[i].wan : i \in DOMAIN a} /\ WansOf(n) = {c[i].wan : i \in DOMAIN c}
  BY DbWans
<1> HIDE DEF o, n
<1>4. CASE c = a
  <2>1. SameTopology(o, n) BY <1>3, <1>4 DEF SameTopology
  <2>2. m = IF TuningOnlyChange(o, n) THEN "tuning" ELSE "restart"
    BY <1>1, <1>2, <2>1 DEF Path, o, n
  <2> QED BY <1>4, <2>2 DEF IncrementalPaths, HotPaths, ModeFits
<1>5. CASE c # a /\ Prefix(a, c) /\ OwnedBeyond(a, c, p)
  <2>1. HasAddition(o, n) /\ ~HasRemoval(o, n) BY <1>5, Longer DEF o, n
  <2>2. ~SameTopology(o, n) BY <2>1 DEF SameTopology, HasAddition
  <2>3. AddOnly(o, n) BY <2>1 DEF AddOnly, CanAdd
  <2>4. m = "add" BY <1>2, <2>2, <2>3 DEF Path, IncrementalPath, o, n
  <2> QED BY <1>5, <2>4 DEF ModeFits
<1>6. CASE c # a /\ Prefix(c, a) /\ OwnedBeyond(c, a, p)
  <2>1. HasAddition(n, o) /\ ~HasRemoval(n, o) BY <1>6, Longer DEF o, n
  <2>2. HasRemoval(o, n) /\ ~HasAddition(o, n) BY <2>1 DEF HasRemoval
  <2>3. ~SameTopology(o, n) BY <2>1 DEF SameTopology, HasAddition
  <2>4. ~AddOnly(o, n) /\ ~CanAdd(o, n) /\ CanRemove(o, n)
    BY <2>2 DEF AddOnly, CanAdd, CanRemove
  <2>5. m \in {"delta", "remove"}
    BY <1>2, <2>3, <2>4 DEF Path, IncrementalPath, o, n
  <2> QED BY <1>6, <2>5 DEF ModeFits
<1> QED BY <1>4, <1>5, <1>6 DEF AtTheEnd

------------------------------------------------------------------------------
(* Every step keeps Positions. *)
PosVars == <<cfg, name, live, stopped, wanCount, drain, activeDp, new, mode, trigger, phase, todo,
             added, disturbed>>
LEMMA PositionsSame == Positions /\ UNCHANGED PosVars => Positions'
  BY DEF PosVars, Positions, AllServe, Underway, Applied, Removing, Adding, ToAttach, Serves, Sits,
         LiveFrom, Kept, Reconciled

LEMMA InitPositions == Init => Positions
<1> SUFFICES ASSUME Init PROVE Positions OBVIOUS
<1>1. PICK c \in MergedConfigs :
        /\ Cardinality(WanNames(c)) <= MaxSlots /\ cfg = c
        /\ wanCount = Cardinality(WanNames(c)) /\ activeDp = wanCount
        /\ \E row \in RowsOfDps(c) :
             name = [d \in Slots |-> IF d < wanCount THEN c[row[d]].wan ELSE None]
        /\ live = [d \in Slots |-> d < wanCount]
        /\ stopped = [d \in Slots |-> FALSE] /\ drain = [d \in Slots |-> NoDrain]
        /\ phase = "idle"
  BY DEF Init
<1>2. PICK row \in RowsOfDps(c) :
        name = [d \in Slots |-> IF d < wanCount THEN c[row[d]].wan ELSE None]
  BY <1>1
<1>3. wanCount \in 0..MaxSlots BY <1>1, ConfigFacts, SlotsAssumption
<1>4. \A d \in Slots : d < wanCount => row[d] \in Dp(c) /\ ToDp(c, row[d]) = d
  <2> SUFFICES ASSUME NEW d \in Slots, d < wanCount PROVE row[d] \in Dp(c) /\ ToDp(c, row[d]) = d
    OBVIOUS
  <2>1. d \in 0..wanCount-1 BY <1>3 DEF Slots
  <2>2. row[d] \in DOMAIN c /\ ToDp(c, row[d]) = d BY <1>1, <1>2, <2>1 DEF RowsOfDps
  <2>3. d # -1 BY DEF Slots
  <2> QED BY <2>2, <2>3, InDataplane
<1>5. ASSUME NEW i \in Dp(c) PROVE ToDp(c, i) < wanCount
  <2> DEFINE W == WanNames(c)
             B == Below(c, i)
             f == [j \in B |-> c[j].wan]
  <2>1. /\ i \in DOMAIN c /\ c[i].dataplane /\ IsFiniteSet(B) /\ B \subseteq Dp(c) /\ i \in Nat
        /\ ToDp(c, i) = Cardinality(B) /\ Cardinality(B) \in Nat
    BY PositionFacts
  <2>2. IsFiniteSet(W) BY ConfigFacts, SlotsAssumption, FS_Subset
  <2>3. \A j \in Dp(c) : j \in DOMAIN c /\ c[j].wan \in W BY DEF Dp, WanNames
  <2>4. \A j \in B : j # i BY <2>1 DEF Below
  <2>5. \A j \in B : f[j] \in W \ {c[i].wan}
    BY <2>1, <2>3, <2>4, ConfigFacts
  <2>6. f \in Injection(B, W \ {c[i].wan})
    <3>1. f \in [B -> W \ {c[i].wan}] BY <2>5
    <3>2. \A j, k \in B : f[j] = f[k] => j = k BY <2>1, <2>3, ConfigFacts
    <3> QED BY <3>1, <3>2 DEF Injection, IsInjective
  <2>7. IsFiniteSet(W \ {c[i].wan}) /\ Cardinality(W \ {c[i].wan}) = Cardinality(W) - 1
    BY <2>1, <2>2, <2>3, FS_RemoveElement
  <2>9. Cardinality(B) <= Cardinality(W \ {c[i].wan})
    BY <2>6, <2>7, FS_Injection, FS_CardinalityType
  <2>10. Cardinality(W) \in Nat BY ConfigFacts
  <2> QED BY <1>1, <2>1, <2>7, <2>9, <2>10
<1>6. ASSUME NEW i \in Dp(c) PROVE Sits(c, i) /\ ~stopped[ToDp(c, i)]
  <2>1. ToDp(c, i) \in Nat /\ ToDp(c, i) < wanCount BY <1>5, PositionFacts
  <2>2. ToDp(c, i) \in Slots BY <1>3, <2>1, SlotsAssumption DEF Slots
  <2>3. row[ToDp(c, i)] = i BY <1>4, <2>1, <2>2, OnePosition
  <2> QED BY <1>1, <1>2, <2>1, <2>2, <2>3 DEF Sits
<1>7. \A i \in Dp(cfg) : Serves(i) BY <1>1, <1>5, <1>6 DEF Serves
<1>8. LiveFrom(cfg, DOMAIN cfg)
  <2>1. \A d \in Slots : live[d] => d < wanCount BY <1>1
  <2>2. \A d \in Slots : d < wanCount => name[d] = c[row[d]].wan BY <1>2
  <2>3. Dp(c) \cap DOMAIN c = Dp(c) BY DEF Dp
  <2> QED BY <1>1, <1>4, <2>1, <2>2, <2>3 DEF LiveFrom
<1> QED BY <1>1, <1>7, <1>8 DEF Positions, AllServe

LEMMA RequestPositions ==
  ASSUME IInv, Positions, NEW p \in Profiles, NEW c \in MergedConfigs, NEW u \in BOOLEAN,
         Request(p, c, u)
  PROVE  Positions'
<1> SUFFICES ASSUME ~disturbed' PROVE Positions' BY DEF Positions
<1>1. /\ UNCHANGED <<cfg, name, live, stopped, wanCount, drain, activeDp>>
      /\ phase = "idle" /\ added' = {} /\ new' = c /\ trigger' = p
      /\ mode' = Path(DbRows(cfg, FALSE), DbRows(c, u))
      /\ mode' \in IncrementalPaths \cup HotPaths /\ phase' = FirstPhase(mode')
      /\ todo' = IF mode' = "add" THEN Named(c, p) ELSE Named(cfg, p)
      /\ ~disturbed /\ AtTheEnd(cfg, c, p)
  BY DEF Request, slotVars, drainVars
<1>2. /\ \A d \in Slots : drain[d] = NoDrain
      /\ wanCount = activeDp /\ (\A i \in Dp(cfg) : Serves(i)) /\ LiveFrom(cfg, DOMAIN cfg)
      /\ cfg \in MergedConfigs /\ wanCount \in 0..MaxSlots /\ Reconciled(live, wanCount)
      /\ live \in [Slots -> BOOLEAN]
  BY <1>1 DEF Positions, AllServe, IInv, TypeOK, Tight, Settled
<1>3. \A i \in Dp(cfg) : Serves(i)' BY <1>1, <1>2 DEF Serves, Sits
<1>4. /\ DOMAIN c = 1..Len(c) /\ Len(c) \in Nat
      /\ DOMAIN cfg = 1..Len(cfg) /\ Len(cfg) \in Nat
  BY <1>2, ConfigLength
<1>5. CASE mode' = "tuning" /\ c = cfg
  <2>1. phase' = "publish" BY <1>1, <1>5 DEF FirstPhase, HotPaths
  <2>2. AllServe' BY <1>1, <1>2, <1>3 DEF AllServe, LiveFrom
  <2>3. Underway' BY <1>1, <1>3, <1>5, <2>1, <2>2 DEF Underway
  <2> QED BY <1>1, <1>2, <2>1, <2>3 DEF Positions
<1>6. CASE mode' = "add" /\ Prefix(cfg, c) /\ OwnedBeyond(cfg, c, p)
  <2>1. phase' = "attach" /\ todo' = Named(c, p) BY <1>1, <1>6 DEF FirstPhase, HotPaths
  <2>2. \A i \in DOMAIN c : i \in DOMAIN cfg \/ i \in todo'
    BY <1>4, <1>6, <2>1 DEF OwnedBeyond, Named
  <2>3. ToAttach' = DOMAIN c \ DOMAIN cfg
    BY <1>1, <2>1, <2>2 DEF ToAttach, Named
  <2>4. \A i \in DOMAIN cfg : i \in DOMAIN c /\ c[i] = cfg[i] /\ ToDp(c, i) = ToDp(cfg, i)
    BY <1>2, <1>6, SamePosition
  <2>5. \A i \in Dp(c) : i \in DOMAIN cfg => i \in Dp(cfg) BY <2>4 DEF Dp
  <2>6. \A i \in Dp(c) \ ToAttach' : Sits(c, i)'
    <3> SUFFICES ASSUME NEW i \in Dp(c), i \in DOMAIN cfg PROVE Sits(c, i)'
      BY <2>3 DEF Dp
    <3>1. Sits(cfg, i) BY <1>2, <2>5 DEF Serves
    <3> QED BY <1>1, <2>4, <3>1 DEF Sits
  <2>7. ASSUME NEW i \in Dp(c), i \notin DOMAIN cfg PROVE ToDp(c, i) >= wanCount
    <3>1. ToDp(c, i) \in Nat /\ i \in 1..Len(c) BY <1>4, PositionFacts
    <3>2. CASE wanCount = 0 BY <3>1, <3>2
    <3>3. CASE wanCount # 0
      <4>1. wanCount - 1 \in Slots /\ live[wanCount - 1]
        BY <1>2, <3>3, TopSlot DEF Reconciled
      <4>2. PICK j \in Dp(cfg) : ToDp(cfg, j) = wanCount - 1 BY <1>2, <4>1 DEF LiveFrom
      <4>3. j \in DOMAIN cfg BY DEF Dp
      <4>4. j \in Dp(c) /\ ToDp(c, j) = wanCount - 1 BY <2>4, <4>2, <4>3 DEF Dp
      <4>5. j < i BY <1>4, <2>7, <3>1, <4>3
      <4>6. ToDp(c, j) < ToDp(c, i) BY <4>4, <4>5, Ascending
      <4> QED BY <1>2, <3>1, <4>4, <4>6
    <3> QED BY <3>2, <3>3
  <2>8. LiveFrom(new, DOMAIN new \ ToAttach)'
    <3> SUFFICES ASSUME NEW d \in Slots, live[d]
                 PROVE  \E i \in Dp(c) \cap (DOMAIN c \ ToAttach') :
                            ToDp(c, i) = d /\ name[d] = c[i].wan
      BY <1>1 DEF LiveFrom
    <3>1. PICK i \in Dp(cfg) \cap DOMAIN cfg : ToDp(cfg, i) = d /\ name[d] = cfg[i].wan
      BY <1>2 DEF LiveFrom
    <3> QED BY <2>3, <2>4, <3>1 DEF Dp
  <2>9. Reconciled(Kept', wanCount)
    <3>1. \A d \in Slots : Kept'[d] = live[d] BY <1>1, <1>2 DEF Kept
    <3> QED BY <1>2, <3>1, ReconciledSame
  <2>10. Adding'
    <3>1. \A i \in Dp(c) \cap ToAttach' : ToDp(c, i) >= wanCount BY <2>3, <2>7
    <3>2. \A i \in Dp(c) \ DOMAIN cfg : ToDp(c, i) >= wanCount BY <2>7
    <3>3. wanCount <= MaxSlots BY <1>2, SlotsAssumption
    <3> QED BY <1>1, <1>2, <1>6, <2>1, <2>6, <2>8, <2>9, <3>1, <3>2, <3>3
            DEF Adding, Sits, LiveFrom, Reconciled
  <2> QED BY <1>1, <1>2, <1>3, <1>6, <2>1, <2>10 DEF Positions, Underway
<1>7. CASE mode' \in {"delta", "remove"} /\ Prefix(c, cfg) /\ OwnedBeyond(c, cfg, p)
  <2>1. phase' = "detach" /\ todo' = Named(cfg, p) BY <1>1, <1>7 DEF FirstPhase, HotPaths
  <2>2. \A i \in DOMAIN cfg : i \in DOMAIN c \cup todo'
    BY <1>4, <1>7, <2>1 DEF OwnedBeyond, Named
  <2>3. LiveFrom(cfg, DOMAIN c \cup todo') BY <1>2, <2>2 DEF LiveFrom
  <2>4. Removing' BY <1>1, <1>7, <2>1, <2>3 DEF Removing, LiveFrom
  <2> QED BY <1>1, <1>2, <1>3, <1>7, <2>1, <2>4 DEF Positions, Underway
<1>8. \/ mode' = "tuning" /\ c = cfg
      \/ mode' = "add" /\ Prefix(cfg, c) /\ OwnedBeyond(cfg, c, p)
      \/ mode' \in {"delta", "remove"} /\ Prefix(c, cfg) /\ OwnedBeyond(c, cfg, p)
  <2>1. cfg \in MergedConfigs /\ c \in MergedConfigs /\ AtTheEnd(cfg, c, p)
    BY Zenon, <1>1, <1>2
  <2>2. ModeFits(Path(DbRows(cfg, FALSE), DbRows(c, u)), cfg, c, p)
    <3>1. Path(DbRows(cfg, FALSE), DbRows(c, u)) \in IncrementalPaths \cup HotPaths
      BY Zenon, <1>1
    <3> QED BY Zenon, <2>1, <3>1, PathFits
  <2>3. ModeFits(mode', cfg, c, p) BY Zenon, <1>1, <2>2
  <2> QED BY Zenon, <2>3 DEF ModeFits
<1> QED BY <1>5, <1>6, <1>7, <1>8

LEMMA DetachRowPositions == ASSUME IInv, Positions, DetachRow PROVE Positions'
<1> SUFFICES ASSUME ~disturbed' PROVE Positions' BY DEF Positions
<1>1. PICK i \in Lowest(todo) : /\ Unplug(IF Leaves(i) THEN LiveSlots(cfg[i].wan) ELSE {})
                                /\ todo' = todo \ {i}
  BY DEF DetachRow
<1>2. /\ UNCHANGED <<cfg, name, wanCount, drain, activeDp, new, mode, trigger, phase, added, disturbed>>
      /\ phase = "detach" /\ ~disturbed
  BY DEF DetachRow, drainVars, history
<1>3. /\ mode \in {"delta", "remove"} /\ cfg \in MergedConfigs /\ new \in MergedConfigs
      /\ \A d \in Slots : live[d] => d \in 0..wanCount-1
  BY <1>2 DEF IInv, Phases, TypeOK, OneSlotPerWan, Slots
<1>4. /\ \A d \in Slots : drain[d] = NoDrain
      /\ \A j \in Dp(cfg) : j \in DOMAIN new => Serves(j)
      /\ Prefix(new, cfg) /\ OwnedBeyond(new, cfg, trigger)
      /\ LiveFrom(cfg, DOMAIN new \cup todo)
  BY <1>2, <1>3 DEF Positions, Underway, Removing
<1>5. \A j \in DOMAIN new : j \in DOMAIN cfg /\ cfg[j] = new[j] BY <1>3, <1>4, SamePosition
<1> DEFINE D == IF Leaves(i) THEN LiveSlots(cfg[i].wan) ELSE {}
<1>6. /\ \A d \in Slots : live'[d] <=> live[d] /\ d \notin D
      /\ \A d \in Slots : stopped'[d] <=> stopped[d] \/ d \in D
  BY <1>1 DEF Unplug
<1>7. ASSUME NEW j \in Dp(cfg), j \in DOMAIN new PROVE ToDp(cfg, j) \notin D
  <2> SUFFICES ASSUME Leaves(i), name[ToDp(cfg, j)] = cfg[i].wan PROVE FALSE BY DEF LiveSlots
  <2>1. Serves(j) BY <1>4, <1>7
  <2>2. cfg[j].wan = cfg[i].wan BY <2>1 DEF Serves, Sits
  <2>3. cfg[j].wan \in WanNames(new) BY <1>5, <1>7 DEF WanNames, Dp
  <2> QED BY <2>2, <2>3 DEF Leaves
<1>8. ASSUME i \in DOMAIN cfg, cfg[i].dataplane, i \notin DOMAIN new PROVE Leaves(i)
  <2>1. i \notin Named(new, trigger) BY <1>8 DEF Named
  <2>2. ASSUME NEW k \in DOMAIN new, new[k].wan = cfg[i].wan PROVE FALSE
    <3>1. k \in DOMAIN cfg /\ cfg[k].wan = cfg[i].wan BY <1>5, <2>2
    <3> QED BY <1>3, <1>8, <3>1, ConfigFacts
  <2> QED BY <1>8, <2>1, <2>2 DEF Leaves, WanNames
<1>9. \A j \in Dp(cfg) : j \in DOMAIN new => Serves(j)'
  BY <1>2, <1>4, <1>6, <1>7 DEF Serves, Sits
<1>10. LiveFrom(cfg, DOMAIN new \cup todo)'
  <2> SUFFICES ASSUME NEW d \in Slots, live'[d]
               PROVE  \E j \in Dp(cfg) \cap (DOMAIN new \cup (todo \ {i})) :
                          ToDp(cfg, j) = d /\ name[d] = cfg[j].wan
    BY <1>1, <1>2 DEF LiveFrom
  <2>1. live[d] /\ d \notin D BY <1>6
  <2>2. PICK j \in Dp(cfg) \cap (DOMAIN new \cup todo) : ToDp(cfg, j) = d /\ name[d] = cfg[j].wan
    BY <1>4, <2>1 DEF LiveFrom
  <2>3. j # i \/ j \in DOMAIN new
    <3> SUFFICES ASSUME j = i, i \notin DOMAIN new PROVE FALSE OBVIOUS
    <3>1. Leaves(i) BY <1>8, <2>2 DEF Dp
    <3>2. d \in LiveSlots(cfg[i].wan) BY <1>3, <2>1, <2>2 DEF LiveSlots
    <3> QED BY <2>1, <3>1, <3>2
  <2> QED BY <2>2, <2>3
<1>11. Removing' BY <1>2, <1>4, <1>10 DEF Removing
<1>12. Underway' BY <1>2, <1>3, <1>9, <1>11 DEF Underway
<1> QED BY <1>2, <1>4, <1>12 DEF Positions

LEMMA DetachDonePositions == ASSUME IInv, Positions, DetachDone PROVE Positions'
<1> SUFFICES ASSUME ~disturbed' PROVE Positions' BY DEF Positions
<1>1. /\ UNCHANGED <<cfg, name, live, stopped, wanCount, drain, activeDp, new, mode, trigger,
                     added, disturbed>>
      /\ phase = "detach" /\ todo = {} /\ phase' \in {"attach", "publish"} /\ ~disturbed
  BY DEF DetachDone, Goes, slotVars, drainVars, history
<1>2. mode \in {"delta", "remove"} BY <1>1 DEF IInv, Phases
<1>3. (\A d \in Slots : drain[d] = NoDrain) /\ Underway /\ Removing
  BY <1>1, <1>2 DEF Positions, Underway
<1>4. Removing' BY <1>1, <1>3 DEF Removing, LiveFrom
<1>5. Underway' BY <1>1, <1>2, <1>3, <1>4 DEF Underway, Serves, Sits
<1> QED BY <1>1, <1>3, <1>5 DEF Positions

LEMMA AttachRowPositions == ASSUME IInv, Positions, AttachRow PROVE Positions'
<1> SUFFICES ASSUME ~disturbed' PROVE Positions' BY DEF Positions
<1>1. PICK i \in Lowest(todo) :
        /\ IF NeedsSlot(i) THEN Plug(i)
           ELSE UNCHANGED <<name, live, xdp, cfgIdx, wanCount, added>>
        /\ todo' = todo \ {i}
  BY DEF AttachRow
<1>2. /\ UNCHANGED <<cfg, stopped, drain, activeDp, new, mode, trigger, phase, disturbed>>
      /\ phase = "attach" /\ ~disturbed
  BY DEF AttachRow, drainVars, history
<1>3. /\ mode \in {"add", "delta"} /\ cfg \in MergedConfigs /\ new \in MergedConfigs
      /\ i \in DOMAIN new /\ todo \subseteq DOMAIN new
      /\ wanCount \in 0..MaxSlots /\ live \in [Slots -> BOOLEAN] /\ name \in [Slots -> Wans \cup {None}]
      /\ \A d \in Slots : live[d] => d \in 0..wanCount-1
  BY <1>2 DEF IInv, Phases, TypeOK, Lowest, OneSlotPerWan, Slots
<1>4. (\A d \in Slots : drain[d] = NoDrain) /\ Underway BY <1>2 DEF Positions
<1>5. ASSUME NEW j \in Dp(new), Sits(new, j) PROVE ~NeedsSlot(j)
  <2>1. ToDp(new, j) \in LiveSlots(new[j].wan) BY <1>3, <1>5 DEF Sits, LiveSlots
  <2> QED BY <2>1 DEF NeedsSlot
<1>6. CASE mode = "delta"
  <2>1. Removing BY <1>4, <1>6 DEF Underway
  <2>2. ASSUME i \in Dp(new) PROVE ~NeedsSlot(i)
    <3>1. i \in DOMAIN cfg /\ cfg[i] = new[i] /\ ToDp(cfg, i) = ToDp(new, i)
      BY <1>3, <2>1, SamePosition DEF Removing
    <3>2. Serves(i) BY <1>3, <1>4, <2>2, <3>1 DEF Underway, Dp
    <3>3. Sits(new, i) BY <3>1, <3>2 DEF Serves, Sits
    <3> QED BY <1>5, <2>2, <3>3
  <2>3. ~NeedsSlot(i) BY <1>3, <2>2 DEF NeedsSlot, Dp
  <2>4. UNCHANGED <<name, live, wanCount, added>> BY <1>1, <2>3
  <2>5. Removing' BY <1>2, <2>1, <2>4 DEF Removing, LiveFrom
  <2>6. Underway' BY <1>2, <1>4, <1>6, <2>4, <2>5 DEF Underway, Serves, Sits
  <2> QED BY <1>2, <1>4, <2>6 DEF Positions
<1>7. CASE mode = "add"
  <2>1. Adding BY <1>4, <1>7 DEF Underway
  <2>2. ToAttach' = ToAttach \ {i} BY <1>1, <1>2 DEF ToAttach
  <2>3. CASE ~NeedsSlot(i)
    <3>1. UNCHANGED <<name, live, wanCount, added>> BY <1>1, <2>3
    <3>2. i \in Dp(new) => i \notin ToAttach
      <4> SUFFICES ASSUME i \in Dp(new), i \in ToAttach PROVE FALSE OBVIOUS
      <4>1. PICK d \in 0..wanCount-1 : live[d] /\ name[d] = new[i].wan
        BY <2>3 DEF NeedsSlot, LiveSlots, Dp
      <4>2. d \in Slots BY <1>3, <4>1, SlotsAssumption DEF Slots
      <4>3. PICK j \in Dp(new) : j \in DOMAIN new \ ToAttach /\ name[d] = new[j].wan
        BY <2>1, <4>1, <4>2 DEF Adding, LiveFrom
      <4>4. j = i BY <1>3, <4>1, <4>3, ConfigFacts
      <4> QED BY <4>3, <4>4
    <3>3. /\ Dp(new) \ ToAttach' = Dp(new) \ ToAttach /\ Dp(new) \cap ToAttach' = Dp(new) \cap ToAttach
          /\ Dp(new) \cap (DOMAIN new \ ToAttach') = Dp(new) \cap (DOMAIN new \ ToAttach)
      BY <2>2, <3>2
    <3>4. \A j \in Dp(new) \ ToAttach' : Sits(new, j)'
      BY <1>2, <2>1, <3>1, <3>3 DEF Adding, Sits
    <3>5. LiveFrom(new, DOMAIN new \ ToAttach)'
      BY <1>2, <2>1, <3>1, <3>3 DEF Adding, LiveFrom
    <3>6. Reconciled(Kept, activeDp)' BY <1>2, <2>1, <3>1 DEF Adding, Kept, Reconciled
    <3>7. Adding' BY <1>2, <2>1, <3>1, <3>3, <3>4, <3>5, <3>6 DEF Adding
    <3>8. Underway' BY <1>2, <1>4, <1>7, <3>1, <3>7 DEF Underway, Serves, Sits
    <3> QED BY <1>2, <1>4, <3>8 DEF Positions
  <2>4. CASE NeedsSlot(i)
    <3>1. /\ wanCount \in Slots /\ wanCount' = wanCount + 1 /\ wanCount \in Nat
          /\ \A d \in Slots : d # wanCount => name'[d] = name[d] /\ live'[d] = live[d]
          /\ name'[wanCount] = new[i].wan /\ live'[wanCount] /\ added' = added \cup {wanCount}
          /\ live' \in [Slots -> BOOLEAN]
      <4>1. Plug(i) BY <1>1, <2>4
      <4>2. wanCount \in Slots /\ wanCount \in Nat
        BY <1>3, <4>1, SlotsAssumption DEF Plug, SlotLeft, Slots
      <4> QED BY <1>3, <4>1, <4>2 DEF Plug
    <3>2. ~live[wanCount] BY <1>3, <3>1
    <3>3. i \in Dp(new) /\ i \in ToAttach
      <4>1. i \in Dp(new) BY <1>3, <2>4 DEF NeedsSlot, Dp
      <4>2. ~Sits(new, i) BY <1>5, <2>4, <4>1
      <4> QED BY <2>1, <4>1, <4>2 DEF Adding
    <3>4. ToDp(new, i) = wanCount
      <4>1. ToDp(new, i) \in Nat /\ ToDp(new, i) >= wanCount
        BY <1>3, <2>1, <3>3, PositionFacts DEF Adding
      <4> SUFFICES ASSUME wanCount < ToDp(new, i) PROVE FALSE BY <3>1, <4>1
      <4>2. PICK j \in Dp(new) : j < i /\ ToDp(new, j) = wanCount
        BY <1>3, <3>1, <3>3, EveryPosition
      <4>3. j \notin todo
        <5>1. i \in Nat /\ j \in Nat BY <1>3, <3>3, PositionFacts
        <5>2. \A k \in todo : i <= k BY DEF Lowest
        <5> QED BY <4>2, <5>1, <5>2
      <4>4. Sits(new, j) BY <2>1, <4>3 DEF Adding, ToAttach
      <4> QED BY <3>1, <4>2, <4>4 DEF Sits
    <3>5. \A j \in Dp(new) \ ToAttach' : Sits(new, j)'
      <4> SUFFICES ASSUME NEW j \in Dp(new), j \notin ToAttach' PROVE Sits(new, j)'
        OBVIOUS
      <4>1. CASE j = i BY <1>2, <3>1, <3>4, <4>1 DEF Sits
      <4>2. CASE j # i
        <5>1. Sits(new, j) BY <2>1, <2>2, <4>2 DEF Adding
        <5>2. ToDp(new, j) \in Nat BY <1>3, PositionFacts
        <5> QED BY <1>2, <3>1, <5>1, <5>2 DEF Sits
      <4> QED BY <4>1, <4>2
    <3>6. \A j \in Dp(new) \cap ToAttach' : ToDp(new, j) >= wanCount'
      <4> SUFFICES ASSUME NEW j \in Dp(new), j \in ToAttach, j # i PROVE ToDp(new, j) >= wanCount'
        BY <2>2
      <4>1. ToDp(new, j) \in Nat /\ ToDp(new, j) >= wanCount
        BY <1>3, <2>1, PositionFacts DEF Adding
      <4>2. ToDp(new, j) # wanCount BY <1>3, <3>3, <3>4, OnePosition
      <4> QED BY <3>1, <4>1, <4>2
    <3>7. LiveFrom(new, DOMAIN new \ ToAttach)'
      <4> SUFFICES ASSUME NEW d \in Slots, live'[d]
                   PROVE  \E j \in Dp(new) \cap (DOMAIN new \ ToAttach') :
                              ToDp(new, j) = d /\ name'[d] = new[j].wan
        BY <1>2 DEF LiveFrom
      <4>1. CASE d = wanCount BY <1>3, <2>2, <3>1, <3>3, <3>4, <4>1
      <4>2. CASE d # wanCount
        <5>1. live[d] /\ name'[d] = name[d] BY <3>1, <4>2
        <5>2. PICK j \in Dp(new) : j \in DOMAIN new \ ToAttach /\ ToDp(new, j) = d
                                   /\ name[d] = new[j].wan
          BY <2>1, <5>1 DEF Adding, LiveFrom
        <5> QED BY <2>2, <5>1, <5>2
      <4> QED BY <4>1, <4>2
    <3>8. Reconciled(Kept, activeDp)'
      <4>1. \A d \in Slots : Kept'[d] = Kept[d]
        <5> SUFFICES ASSUME NEW d \in Slots PROVE Kept'[d] = Kept[d] OBVIOUS
        <5>1. Kept'[d] = (live'[d] /\ d \notin added') BY DEF Kept
        <5>2. Kept[d] = (live[d] /\ d \notin added) BY DEF Kept
        <5>3. CASE d = wanCount BY <3>1, <3>2, <5>1, <5>2, <5>3
        <5>4. CASE d # wanCount BY <3>1, <5>1, <5>2, <5>4
        <5> QED BY <5>3, <5>4
      <4>2. activeDp \in 0..MaxSlots /\ Reconciled(Kept, activeDp)
        BY <2>1, SlotsAssumption DEF Adding, IInv, TypeOK
      <4>3. Reconciled(Kept', activeDp) BY <4>1, <4>2, ReconciledSame
      <4> QED BY <1>2, <4>3 DEF Reconciled
    <3>9. Adding' BY <1>2, <2>1, <3>5, <3>6, <3>7, <3>8 DEF Adding
    <3>10. \A j \in Dp(cfg) : j \in DOMAIN new => Serves(j)'
      <4> SUFFICES ASSUME NEW j \in Dp(cfg), j \in DOMAIN new PROVE Serves(j)' OBVIOUS
      <4>1. Serves(j) /\ ToDp(cfg, j) \in Nat BY <1>3, <1>4, PositionFacts DEF Underway
      <4> QED BY <1>2, <3>1, <4>1 DEF Serves, Sits
    <3>11. Underway' BY <1>2, <1>7, <3>9, <3>10 DEF Underway
    <3> QED BY <1>2, <1>4, <3>11 DEF Positions
  <2> QED BY <2>3, <2>4
<1> QED BY <1>3, <1>6, <1>7

LEMMA AttachFailsPositions == ASSUME IInv, Positions, AttachFails PROVE Positions'
<1> SUFFICES ASSUME ~disturbed' PROVE Positions' BY DEF Positions
<1>1. /\ UNCHANGED <<cfg, name, drain, activeDp>> /\ phase = "attach" /\ phase' = "idle"
      /\ ~disturbed /\ mode # "delta"
      /\ Reconciled(live', wanCount') /\ wanCount' \in 0..MaxSlots
      /\ \A d \in Slots : live'[d] = Kept[d]
      /\ \A d \in Slots : stopped'[d] <=> stopped[d] \/ d \in added
  BY DEF AttachFails, drainVars, Over, BringDownCount, Unplug, Rollback, Kept
<1>2. mode = "add" /\ cfg \in MergedConfigs /\ new \in MergedConfigs /\ activeDp \in Nat
      /\ \A d \in Slots : Kept[d] => live[d]
  BY <1>1 DEF IInv, Phases, TypeOK, Kept
<1>3. /\ \A d \in Slots : drain[d] = NoDrain
      /\ \A i \in Dp(cfg) : i \in DOMAIN new => Serves(i)
      /\ Adding
  BY <1>1, <1>2 DEF Positions, Underway
<1>4. wanCount' = activeDp
  <2>1. activeDp \in 0..MaxSlots /\ Reconciled(Kept, activeDp)
    BY <1>2, <1>3, SlotsAssumption DEF Adding
  <2>2. Reconciled(live', activeDp) BY <1>1, <2>1, ReconciledSame
  <2> QED BY <1>1, <2>1, <2>2, OneCount
<1>5. \A a \in added : a \in Nat /\ ~(a < activeDp)
  <2> SUFFICES ASSUME NEW a \in added PROVE a \in Nat /\ ~(a < activeDp) OBVIOUS
  <2>1. a \in Slots BY DEF IInv, TypeOK
  <2>2. CASE activeDp = 0 BY <2>1, <2>2 DEF Slots
  <2>3. CASE activeDp # 0
    <3>1. activeDp \in 0..MaxSlots BY <1>2, <1>3, SlotsAssumption DEF Adding
    <3>2. activeDp - 1 \in Slots /\ activeDp > 0 BY <2>3, <3>1, TopSlot
    <3>3. Kept[activeDp - 1] BY <1>3, <3>2 DEF Adding, Reconciled
    <3>4. activeDp - 1 < a BY <3>2, <3>3 DEF IInv, AddedLast
    <3> QED BY <1>2, <2>1, <3>4 DEF Slots
  <2> QED BY <2>2, <2>3
<1>6. \A i \in DOMAIN cfg : i \in DOMAIN new /\ new[i] = cfg[i] /\ ToDp(new, i) = ToDp(cfg, i)
  BY <1>2, <1>3, SamePosition DEF Adding
<1>7. ASSUME NEW i \in Dp(cfg) PROVE Serves(i)'
  <2>1. Serves(i) BY <1>3, <1>6 DEF Dp
  <2>2. ToDp(cfg, i) \in Slots /\ ToDp(cfg, i) \notin added
    BY <1>5, <2>1 DEF Serves, Sits
  <2> QED BY <1>1, <1>4, <2>1, <2>2 DEF Serves, Sits, Kept
<1>8. LiveFrom(cfg, DOMAIN cfg)'
  <2> SUFFICES ASSUME NEW d \in Slots, live'[d]
               PROVE  \E i \in Dp(cfg) \cap DOMAIN cfg : ToDp(cfg, i) = d /\ name[d] = cfg[i].wan
    BY <1>1 DEF LiveFrom
  <2>1. live[d] /\ Kept[d] BY <1>1, <1>2
  <2>2. d < activeDp BY <1>3, <2>1 DEF Adding, Reconciled
  <2>3. PICK i \in Dp(new) : ToDp(new, i) = d /\ name[d] = new[i].wan
    BY <1>3, <2>1 DEF Adding, LiveFrom
  <2>4. i \in DOMAIN cfg
    <3> SUFFICES ASSUME i \notin DOMAIN cfg PROVE FALSE OBVIOUS
    <3>1. d >= activeDp BY <1>3, <2>3 DEF Adding
    <3> QED BY <1>2, <2>2, <3>1 DEF Slots
  <2> QED BY <1>6, <2>3, <2>4 DEF Dp
<1>9. AllServe' BY <1>1, <1>4, <1>7, <1>8 DEF AllServe
<1> QED BY <1>1, <1>3, <1>9 DEF Positions

LEMMA PublishPositions == ASSUME IInv, Positions, Publish PROVE Positions'
<1> SUFFICES ASSUME ~disturbed' PROVE Positions' BY DEF Positions
<1>1. /\ UNCHANGED <<name, live, stopped, drain, activeDp, new, mode, trigger, disturbed>>
      /\ phase \in {"publish", "attach"} /\ (phase = "attach" => todo = {})
      /\ phase' = "finish" /\ cfg' = new /\ ~disturbed
  BY DEF Publish, drainVars, history
<1>2. cfg \in MergedConfigs /\ new \in MergedConfigs BY <1>1 DEF IInv, Phases, TypeOK
<1>3. /\ \A d \in Slots : drain[d] = NoDrain
      /\ \A i \in Dp(cfg) : i \in DOMAIN new => Serves(i)
      /\ Underway
  BY <1>1 DEF Positions, Underway
<1>4. CASE mode = "tuning"
  <2>1. new = cfg /\ AllServe BY <1>3, <1>4 DEF Underway
  <2>2. UNCHANGED wanCount BY <1>4 DEF Publish, InterfaceModes
  <2>3. AllServe' BY <1>1, <2>1, <2>2 DEF AllServe, Serves, Sits, LiveFrom
  <2>4. Applied' BY <1>1, <1>4, <2>3 DEF Applied, InterfaceModes
  <2> QED BY <1>1, <1>3, <2>4 DEF Positions
<1>5. ASSUME mode \in {"add", "delta", "remove"},
             \A i \in Dp(new) : Sits(new, i) /\ (new[i].owner # trigger => i \in Dp(cfg) /\ ToDp(cfg, i) = ToDp(new, i)),
             LiveFrom(new, DOMAIN new)
      PROVE  Positions'
  <2>1. Reconciled(live, wanCount') BY <1>5 DEF Publish, BringDownCount, InterfaceModes
  <2>2. \A i \in Dp(new) : Sits(new, i)' BY <1>1, <1>5, <2>1 DEF Sits, Reconciled
  <2>3. ASSUME NEW i \in Dp(new), new[i].owner # trigger PROVE Serves(i)'
    <3>1. i \in Dp(cfg) /\ ToDp(cfg, i) = ToDp(new, i) BY <1>5, <2>3
    <3>2. Serves(i) BY <1>3, <3>1 DEF Dp
    <3> QED BY <1>1, <2>2, <3>1, <3>2 DEF Serves
  <2>4. LiveFrom(cfg, DOMAIN cfg)' BY <1>1, <1>5 DEF LiveFrom
  <2>5. Applied' BY <1>1, <1>5, <2>2, <2>3, <2>4 DEF Applied, InterfaceModes, Sits
  <2> QED BY <1>1, <1>3, <2>5 DEF Positions
<1>6. CASE mode = "add"
  <2>1. Adding BY <1>3, <1>6 DEF Underway
  <2>2. ToAttach = {} BY <1>1, <2>1 DEF Adding, ToAttach
  <2>3. LiveFrom(new, DOMAIN new) /\ \A i \in Dp(new) : Sits(new, i)
    BY <2>1, <2>2 DEF Adding
  <2>4. ASSUME NEW i \in Dp(new), new[i].owner # trigger
        PROVE  i \in Dp(cfg) /\ ToDp(cfg, i) = ToDp(new, i)
    <3>1. i \in 1..Len(new) /\ DOMAIN cfg = 1..Len(cfg) /\ Len(cfg) \in Nat /\ Len(new) \in Nat
      BY <1>2, ConfigLength DEF Dp
    <3>2. i \notin Len(cfg)+1..Len(new) BY <2>1, <2>4 DEF Adding, OwnedBeyond
    <3>3. i \in DOMAIN cfg BY <3>1, <3>2
    <3>4. new[i] = cfg[i] /\ ToDp(new, i) = ToDp(cfg, i)
      BY <1>2, <2>1, <3>3, SamePosition DEF Adding
    <3> QED BY <3>3, <3>4 DEF Dp
  <2> QED BY <1>5, <1>6, <2>3, <2>4
<1>7. CASE mode \in {"delta", "remove"}
  <2>1. Removing /\ phase # "detach" BY <1>1, <1>3, <1>7 DEF Underway
  <2>2. ASSUME NEW i \in DOMAIN new
        PROVE  i \in DOMAIN cfg /\ cfg[i] = new[i] /\ ToDp(cfg, i) = ToDp(new, i)
    BY <1>2, <2>1, SamePosition DEF Removing
  <2>3. \A i \in Dp(new) : i \in Dp(cfg) /\ ToDp(cfg, i) = ToDp(new, i) BY <2>2 DEF Dp
  <2>4. \A i \in Dp(new) : Sits(new, i)
    <3> SUFFICES ASSUME NEW i \in Dp(new) PROVE Sits(new, i) OBVIOUS
    <3>1. i \in DOMAIN new BY DEF Dp
    <3>2. Sits(cfg, i) BY <1>3, <2>3, <3>1 DEF Serves
    <3> QED BY <2>2, <3>1, <3>2 DEF Sits
  <2>5. LiveFrom(new, DOMAIN new)
    <3> SUFFICES ASSUME NEW d \in Slots, live[d]
                 PROVE  \E i \in Dp(new) \cap DOMAIN new : ToDp(new, i) = d /\ name[d] = new[i].wan
      BY DEF LiveFrom
    <3>1. PICK i \in Dp(cfg) : i \in DOMAIN new /\ ToDp(cfg, i) = d /\ name[d] = cfg[i].wan
      BY <2>1 DEF Removing, LiveFrom
    <3> QED BY <2>2, <3>1 DEF Dp
  <2> QED BY <1>5, <1>7, <2>3, <2>4, <2>5
<1> QED BY <1>3, <1>4, <1>6, <1>7 DEF Underway

LEMMA FinishPositions == ASSUME IInv, Positions, Finish PROVE Positions'
<1> SUFFICES ASSUME ~disturbed' PROVE Positions' BY DEF Positions
<1>1. /\ UNCHANGED <<cfg, name, live, wanCount, disturbed>>
      /\ phase = "finish" /\ phase' = "idle" /\ ~disturbed
  BY DEF Finish, Over
<1>2. (\A d \in Slots : drain[d] = NoDrain) /\ Applied BY <1>1 DEF Positions
<1>3. CASE mode \in InterfaceModes
  <2>1. /\ \A d \in Slots : ~stopped'[d] /\ drain'[d] = NoDrain
        /\ activeDp' = wanCount
    BY <1>3 DEF Finish, Reset
  <2>2. \A i \in Dp(cfg) : Serves(i)' BY <1>1, <1>2, <1>3, <2>1 DEF Applied, Serves, Sits
  <2>3. AllServe' BY <1>1, <1>2, <1>3, <2>1, <2>2 DEF Applied, AllServe, LiveFrom
  <2> QED BY <1>1, <2>1, <2>3 DEF Positions
<1>4. CASE mode \notin InterfaceModes
  <2>1. UNCHANGED <<stopped, drain, activeDp>> BY <1>4 DEF Finish, Reset
  <2>2. AllServe' BY <1>1, <1>2, <1>4, <2>1 DEF Applied, AllServe, Serves, Sits, LiveFrom
  <2> QED BY <1>1, <1>2, <2>1, <2>2 DEF Positions
<1> QED BY <1>3, <1>4

(* No drain runs, and none is begun. *)
LEMMA DrainPositions ==
  ASSUME IInv, Positions, StartDrains \/ Clock \/ \E d \in Slots : DrainExpires(d)
  PROVE  Positions'
<1> SUFFICES ASSUME ~disturbed' PROVE FALSE BY DEF Positions
<1>1. ~disturbed BY DEF StartDrains, Clock, DrainExpires, history
<1>2. phase # "drains" /\ \A d \in Slots : drain[d] = NoDrain BY <1>1 DEF Positions
<1>3. NoDrain.left = -1 BY DEF NoDrain
<1> QED BY <1>2, <1>3 DEF StartDrains, Goes, Clock, DrainExpires

LEMMA PositionsStep == IInv /\ Positions /\ [Next]_vars => Positions'
<1> SUFFICES ASSUME IInv, Positions, [Next]_vars PROVE Positions' OBVIOUS
<1>1. CASE UNCHANGED vars
  BY <1>1, PositionsSame DEF vars, slotVars, drainVars, reloadVars, history, PosVars
<1>2. CASE Next
  BY <1>1, <1>2, RequestPositions, DetachRowPositions, DetachDonePositions, AttachRowPositions,
     AttachFailsPositions, PublishPositions, FinishPositions, DrainPositions
     DEF Next, ReloadStep, Quiet
<1> QED BY <1>1, <1>2

(* The positions of a profile's WANs stay those of its rows.                  *)
THEOREM PositionsKept == Spec => []Positions
<1> QED BY PositionsStep, InitPositions, Invariant, PTL DEF Spec

(* The rows of a profile whose own reload is not under way, and their slots. *)
OwnRows(c, p) == {i \in Named(c, p) : i \in Dp(c)}
Away(p) == ~disturbed /\ (p # trigger \/ phase = "idle")

LEMMA OwnServe ==
  ASSUME IInv, Positions, NEW p, Away(p), NEW i \in OwnRows(cfg, p)
  PROVE  Serves(i)
<1>1. /\ cfg \in MergedConfigs
      /\ phase \in {"idle", "detach", "attach", "publish", "finish"}
  BY DEF Away, Positions, IInv, TypeOK
<1>2. i \in DOMAIN cfg /\ cfg[i].owner = p /\ i \in Dp(cfg) BY DEF OwnRows, Named
<1>3. CASE phase = "idle" BY <1>2, <1>3 DEF Away, Positions, AllServe
<1>4. CASE phase = "finish" BY <1>2, <1>4 DEF Away, Positions, Applied, AllServe
<1>5. CASE phase \in {"detach", "attach", "publish"}
  <2>1. Underway /\ p # trigger BY <1>5 DEF Away, Positions
  <2>2. new \in MergedConfigs BY <1>5 DEF IInv, Phases
  <2>3. CASE mode = "tuning" BY <1>2, <2>1, <2>3 DEF Underway, AllServe
  <2>4. CASE mode = "add"
    <3>1. i \in DOMAIN new
      BY <1>1, <1>2, <2>1, <2>2, <2>4, SamePosition DEF Underway, Adding
    <3> QED BY <1>2, <2>1, <3>1 DEF Underway
  <2>5. CASE mode \in {"delta", "remove"}
    <3>1. OwnedBeyond(new, cfg, trigger) BY <2>1, <2>5 DEF Underway, Removing
    <3>2. /\ i \in 1..Len(cfg) /\ Len(cfg) \in Nat /\ Len(new) \in Nat
          /\ DOMAIN new = 1..Len(new)
      BY <1>1, <1>2, <2>2, ConfigLength
    <3>3. i \in DOMAIN new BY <1>2, <2>1, <3>1, <3>2 DEF OwnedBeyond
    <3> QED BY <1>2, <2>1, <3>3 DEF Underway
  <2> QED BY <2>1, <2>3, <2>4, <2>5 DEF Underway
<1> QED BY <1>1, <1>3, <1>4, <1>5

LEMMA OwnSlot ==
  ASSUME IInv, Positions, NEW p, Away(p), NEW i \in OwnRows(cfg, p)
  PROVE  /\ ToDp(cfg, i) \in Slots /\ ToDp(cfg, i) < wanCount
         /\ live[ToDp(cfg, i)] /\ ~stopped[ToDp(cfg, i)]
         /\ name[ToDp(cfg, i)] \in OwnNames(cfg, p)
         /\ OkForNew(ToDp(cfg, i))
         /\ DpOf(i) = ToDp(cfg, i) /\ Checked(ToDp(cfg, i)) = ToDp(cfg, i)
<1>1. Serves(i) BY OwnServe
<1>2. cfg[i].wan \in OwnNames(cfg, p) BY DEF OwnRows, OwnNames, Dp
<1>3. wanCount \in 0..MaxSlots /\ \A d \in Slots : drain[d] = NoDrain
  BY DEF Away, Positions, IInv, TypeOK
<1>4. /\ ToDp(cfg, i) \in Slots /\ ToDp(cfg, i) < wanCount
      /\ live[ToDp(cfg, i)] /\ ~stopped[ToDp(cfg, i)] /\ name[ToDp(cfg, i)] = cfg[i].wan
  BY <1>1 DEF Serves, Sits
<1>5. OkForNew(ToDp(cfg, i)) BY <1>1, <1>3, <1>4 DEF OkForNew, Draining, Serves
<1>6. ToDp(cfg, i) >= 0 /\ ~(ToDp(cfg, i) < 0) /\ ~(ToDp(cfg, i) >= wanCount)
  BY <1>3, <1>4, SlotsAssumption DEF Slots
<1>7. DpOf(i) = ToDp(cfg, i) BY <1>6 DEF DpOf
<1>8. Checked(ToDp(cfg, i)) = ToDp(cfg, i) BY <1>4, <1>6 DEF Checked
<1> QED BY <1>2, <1>4, <1>5, <1>7, <1>8

LEMMA OwnPool ==
  ASSUME IInv, Positions, NEW p, Away(p), OwnNames(cfg, p) # {}
  PROVE  /\ ProfilePool(p) # {} /\ ProfilePool(p) \subseteq OwnRows(cfg, p)
         /\ \A d \in Alternatives(p) : \E i \in OwnRows(cfg, p) : d = ToDp(cfg, i)
<1>1. /\ cfg \in MergedConfigs /\ wanCount \in 0..MaxSlots
      /\ \A e \in Slots : drain[e] = NoDrain
  BY DEF Away, Positions, IInv, TypeOK
<1>2. Tapering = {}
  <2>1. 0..wanCount-1 \subseteq Slots BY <1>1, SlotsAssumption DEF Slots
  <2> QED BY <1>1, <2>1 DEF Tapering, Draining
<1>3. ProfilePool(p) = {i \in Named(cfg, p) : OkForNew(ToDp(cfg, i))} BY <1>2 DEF ProfilePool
<1>4. ASSUME NEW i \in Named(cfg, p), ToDp(cfg, i) \in Slots PROVE i \in OwnRows(cfg, p)
  <2>1. i \in DOMAIN cfg BY DEF Named
  <2>2. i \in Dp(cfg) BY <1>1, <1>4, <2>1, InDataplane DEF Slots
  <2> QED BY <2>2 DEF OwnRows
<1>5. PICK k \in OwnRows(cfg, p) : TRUE BY DEF OwnNames, OwnRows, Named, Dp
<1>6. OkForNew(ToDp(cfg, k)) /\ k \in Named(cfg, p) BY <1>5, OwnSlot DEF OwnRows
<1>7. \A i \in ProfilePool(p) : i \in OwnRows(cfg, p) BY <1>3, <1>4 DEF OkForNew
<1>8. ASSUME NEW d \in Alternatives(p) PROVE \E i \in OwnRows(cfg, p) : d = ToDp(cfg, i)
  <2>1. \E i \in Named(cfg, p) : ToDp(cfg, i) \in Slots /\ d = ToDp(cfg, i)
    BY <1>6 DEF Alternatives, OnlyBelowCount, OkForNew
  <2> QED BY <1>4, <2>1
<1> QED BY <1>3, <1>6, <1>7, <1>8

(* A packet goes out on a WAN of its own profile (fwd_wan_pick_for_local): as *)
(* long as reloads append rows or cut off the last ones, also during a reload *)
(* for another profile.                                                       *)
THEOREM OwnWans == Spec => []PicksServe
<1>1. IInv /\ Positions => PicksServe
  <2> SUFFICES ASSUME IInv, Positions, NEW p \in Profiles, Away(p), OwnNames(cfg, p) # {},
                      NEW d \in Picks(p)
               PROVE  live[d] /\ ~stopped[d] /\ name[d] \in OwnNames(cfg, p)
    BY DEF PicksServe, ServesOwn, Away
  <2>1. \/ \E i \in ProfilePool(p) : d = Selected(i)
        \/ d \in Alternatives(p)
    BY OwnPool DEF Picks
  <2>2. PICK i \in OwnRows(cfg, p) : d = ToDp(cfg, i)
    BY <2>1, OwnPool, OwnSlot DEF Selected
  <2> QED BY <2>2, OwnSlot
<1> QED BY <1>1, Invariant, PositionsKept, PTL

------------------------------------------------------------------------------
(* Over the steps of a pick: until it is overtaken, what the packet holds is a *)
(* row of its profile, then the position of one.                               *)
Holds(i) == /\ pick.at = "row" => pick.row = i
            /\ pick.at \in {"slot", "push"} => pick.slot = ToDp(cfg, i)
Held == pick.at # "none" /\ ~pick.overtaken =>
          /\ pick.of # trigger /\ ~disturbed
          /\ OwnNames(cfg, pick.of) # {} => \E i \in OwnRows(cfg, pick.of) : Holds(i)
PickIInv == PickTypeOK /\ Held

(* A reload leaves the rows of other profiles and their positions as they are. *)
LEMMA RowsStay ==
  ASSUME IInv, Positions, Publish, ~disturbed, NEW p, p # trigger,
         NEW i
  PROVE  /\ i \in OwnRows(new, p) <=> i \in OwnRows(cfg, p)
         /\ i \in OwnRows(cfg, p) => ToDp(new, i) = ToDp(cfg, i) /\ new[i] = cfg[i]
<1>1. phase \in {"publish", "attach"} BY DEF Publish
<1>2. cfg \in MergedConfigs /\ new \in MergedConfigs BY <1>1 DEF IInv, Phases, TypeOK
<1>3. Underway BY <1>1 DEF Positions
<1>4. /\ Len(cfg) \in Nat /\ DOMAIN cfg = 1..Len(cfg)
      /\ Len(new) \in Nat /\ DOMAIN new = 1..Len(new)
  BY <1>2, ConfigLength
<1>5. ASSUME NEW a \in MergedConfigs, NEW b \in MergedConfigs,
             Prefix(a, b), OwnedBeyond(a, b, trigger),
             Len(a) \in Nat, DOMAIN a = 1..Len(a), Len(b) \in Nat, DOMAIN b = 1..Len(b)
      PROVE  /\ i \in OwnRows(a, p) <=> i \in OwnRows(b, p)
             /\ i \in OwnRows(a, p) => ToDp(a, i) = ToDp(b, i) /\ a[i] = b[i]
  <2>1. i \in DOMAIN a => i \in DOMAIN b /\ b[i] = a[i] /\ ToDp(b, i) = ToDp(a, i)
    BY <1>5, SamePosition
  <2>2. i \in DOMAIN b /\ b[i].owner = p => i \in DOMAIN a
    BY <1>5 DEF OwnedBeyond
  <2> QED BY <2>1, <2>2 DEF OwnRows, Named, Dp
<1>6. CASE mode = "tuning" BY <1>3, <1>6 DEF Underway
<1>7. CASE mode = "add" BY <1>2, <1>3, <1>4, <1>5, <1>7 DEF Underway, Adding
<1>8. CASE mode \in {"delta", "remove"} BY <1>2, <1>3, <1>4, <1>5, <1>8 DEF Underway, Removing
<1> QED BY <1>3, <1>6, <1>7, <1>8 DEF Underway

LEMMA OwnNamesRows == \A c, p : OwnNames(c, p) # {} <=> OwnRows(c, p) # {}
  BY DEF OwnNames, OwnRows, Named, Dp

PickType == [at : {"none", "row", "slot", "push"}, of : Profiles \cup {None},
             row : Nat, slot : Int, overtaken : BOOLEAN]
LEMMA TypeOfNoPick == NoPick \in PickType BY DEF NoPick, PickType

LEMMA PickTyped == IInv /\ PickTypeOK /\ [PickNext]_pickVars => PickTypeOK'
<1> SUFFICES ASSUME IInv, PickTypeOK, [PickNext]_pickVars PROVE PickTypeOK' OBVIOUS
<1>1. CASE Overtake
  <2> DEFINE late == pick.overtaken \/ (pick.at # "none" /\ trigger' = pick.of)
  <2>1. late \in BOOLEAN OBVIOUS
  <2>2. CASE pick' = NoPick BY <2>2, TypeOfNoPick DEF PickTypeOK, PickType
  <2>3. CASE pick' = [pick EXCEPT !.overtaken = late]
    <3> HIDE DEF late
    <3> QED BY <2>1, <2>3 DEF PickTypeOK
  <2> QED BY <1>1, <2>2, <2>3 DEF Overtake
<1>2. CASE UNCHANGED pick BY <1>2 DEF PickTypeOK
<1>3. ASSUME NEW p \in Profiles, ChooseRow(p) PROVE PickTypeOK'
  <2>1. PICK i \in (IF ProfilePool(p) = {} THEN {0} ELSE ProfilePool(p)) :
          pick' = [at |-> "row", of |-> p, row |-> i, slot |-> 0, overtaken |-> p = trigger]
    BY <1>3 DEF ChooseRow
  <2>2. Cardinality(Wans) \in Nat BY Counts
  <2>3. i \in Nat
    <3>1. CASE i \in Named(cfg, p) BY <2>2, <3>1, ConfigFacts DEF Named, IInv, TypeOK
    <3>2. CASE i \in {drain[d].row : d \in Tapering}
      <4>1. Tapering \subseteq Slots BY SlotsAssumption DEF Tapering, Slots, IInv, TypeOK
      <4>2. \A d \in Slots : drain[d].row \in 0..Cardinality(Wans) BY DEF IInv, TypeOK
      <4> QED BY <2>2, <3>2, <4>1, <4>2
    <3> QED BY <2>1, <3>1, <3>2 DEF ProfilePool
  <2> QED BY <2>1, <2>3 DEF PickTypeOK
<1>4. CASE FindSlot
  <2>1. DpOf(pick.row) \in Int
    <3>1. LegacyDp(pick.row) \in Int
      <4>1. LegacyDps(pick.row) \subseteq 0..wanCount-1 BY DEF LegacyDps, Tapering
      <4>2. CASE LegacyDps(pick.row) = {} BY <4>2 DEF LegacyDp
      <4>3. CASE LegacyDps(pick.row) # {}
        <5>1. LegacyDps(pick.row) \in SUBSET Nat
          BY <4>1, SlotsAssumption DEF IInv, TypeOK
        <5>2. \E d \in LegacyDps(pick.row) : \A e \in LegacyDps(pick.row) : d <= e
          BY <4>3, <5>1, LeastNat
        <5>3. LegacyDp(pick.row) \in LegacyDps(pick.row) BY <4>3, <5>2 DEF LegacyDp
        <5> QED BY <5>1, <5>3
      <4> QED BY <4>2, <4>3
    <3>2. ToDp(cfg, pick.row) \in Int
      <4>1. cfg \in MergedConfigs BY DEF IInv, TypeOK
      <4>2. CASE pick.row \in Dp(cfg) BY <4>1, <4>2, PositionFacts
      <4>3. CASE pick.row \notin Dp(cfg) BY <4>3 DEF Dp, ToDp
      <4> QED BY <4>2, <4>3
    <3> QED BY <3>1, <3>2 DEF DpOf
  <2> QED BY <1>4, <2>1 DEF FindSlot, PickTypeOK
<1>5. CASE TestSlot
  <2>1. \A d \in Alternatives(pick.of) : d \in Int BY DEF Alternatives, OnlyBelowCount
  <2>2. Checked(pick.slot) \in Int BY DEF Checked, PickTypeOK
  <2> QED BY <1>5, <2>1, <2>2 DEF TestSlot, PickTypeOK
<1>6. CASE PushOrDrop BY <1>6 DEF PushOrDrop, PickTypeOK, NoPick
<1> QED BY <1>1, <1>2, <1>3, <1>4, <1>5, <1>6 DEF PickNext, PickStep, pickVars

(* A step of worker 0. *)
LEMMA NextHolds ==
  ASSUME IInv, Positions, PickIInv, Next, Overtake
  PROVE  Held'
<1> SUFFICES ASSUME pick'.at # "none", ~pick'.overtaken PROVE Held' BY DEF Held
<1>1. /\ ~disturbed' /\ pick.at # "none" /\ ~pick.overtaken /\ pick.of # trigger'
      /\ UNCHANGED <<pick.at, pick.of, pick.row, pick.slot>>
  BY DEF Overtake, NoPick, PickIInv, PickTypeOK
<1>2. /\ ~disturbed /\ pick.of # trigger
      /\ OwnNames(cfg, pick.of) # {} => \E i \in OwnRows(cfg, pick.of) : Holds(i)
  BY <1>1 DEF PickIInv, Held
<1>3. CASE UNCHANGED cfg BY <1>1, <1>2, <1>3 DEF Held, Holds
<1>4. CASE Publish
  <2>1. cfg' = new BY <1>4 DEF Publish
  <2>2. \A i : /\ i \in OwnRows(new, pick.of) <=> i \in OwnRows(cfg, pick.of)
               /\ i \in OwnRows(cfg, pick.of) => ToDp(new, i) = ToDp(cfg, i)
    BY <1>2, <1>4, RowsStay
  <2>3. ASSUME OwnNames(new, pick.of) # {}
        PROVE  \E i \in OwnRows(new, pick.of) : Holds(i)'
    <3>1. OwnNames(cfg, pick.of) # {} BY <2>2, <2>3, OwnNamesRows
    <3>2. PICK i \in OwnRows(cfg, pick.of) : Holds(i) BY <1>2, <3>1
    <3> QED BY <1>1, <2>1, <2>2, <3>2 DEF Holds
  <2> QED BY <1>1, <2>1, <2>3 DEF Held
<1> QED BY <1>3, <1>4 DEF Next, ReloadStep, Request, DetachRow, DetachDone, AttachRow, AttachFails,
           StartDrains, Finish, Clock, DrainExpires, Quiet, vars

(* A step of the packet. *)
LEMMA StepHolds ==
  ASSUME IInv, Positions, PickIInv, PickStep, UNCHANGED vars
  PROVE  Held'
<1> SUFFICES ASSUME pick'.at # "none", ~pick'.overtaken PROVE Held' BY DEF Held
<1>1. UNCHANGED <<cfg, trigger, disturbed>> BY DEF vars, reloadVars, history
<1>2. ASSUME NEW p \in Profiles, ChooseRow(p) PROVE Held'
  <2>1. PICK i \in (IF ProfilePool(p) = {} THEN {0} ELSE ProfilePool(p)) :
          pick' = [at |-> "row", of |-> p, row |-> i, slot |-> 0, overtaken |-> p = trigger]
    BY <1>2 DEF ChooseRow
  <2>2. p # trigger /\ ~disturbed /\ Away(p) BY <1>2, <2>1 DEF ChooseRow, Away
  <2>3. OwnNames(cfg, p) # {} => i \in OwnRows(cfg, p) BY <2>1, <2>2, OwnPool
  <2> QED BY <1>1, <2>1, <2>2, <2>3 DEF Held, Holds
<1>3. ASSUME FindSlot \/ TestSlot PROVE Held'
  <2>1. /\ UNCHANGED <<pick.of, pick.overtaken>> /\ pick.at \in {"row", "slot"}
        /\ pick'.at \in {"slot", "push"}
    BY <1>3 DEF FindSlot, TestSlot, PickIInv, PickTypeOK
  <2>2. /\ pick.of # trigger /\ ~disturbed /\ Away(pick.of)
        /\ OwnNames(cfg, pick.of) # {} => \E i \in OwnRows(cfg, pick.of) : Holds(i)
    BY <2>1 DEF PickIInv, Held, Away
  <2>3. ASSUME OwnNames(cfg, pick.of) # {}
        PROVE  \E i \in OwnRows(cfg, pick.of) : pick'.slot = ToDp(cfg, i)
    <3>1. PICK i \in OwnRows(cfg, pick.of) : Holds(i) BY <2>2, <2>3
    <3>2. CASE FindSlot
      <4>1. pick.row = i /\ pick'.slot = DpOf(pick.row)
        BY <3>1, <3>2 DEF FindSlot, Holds, PickIInv, PickTypeOK
      <4> QED BY <2>2, <4>1, OwnSlot
    <3>3. CASE TestSlot
      <4>1. pick.slot = ToDp(cfg, i) BY <3>1, <3>3 DEF TestSlot, Holds
      <4>2. pick'.slot \in {Checked(pick.slot)} \cup Alternatives(pick.of)
        BY <3>3 DEF TestSlot, PickIInv, PickTypeOK
      <4>3. Checked(pick.slot) = ToDp(cfg, i) BY <2>2, <4>1, OwnSlot
      <4> QED BY <2>2, <2>3, <4>2, <4>3, OwnPool
    <3> QED BY <1>3, <3>2, <3>3
  <2> QED BY <1>1, <2>1, <2>2, <2>3 DEF Held, Holds
<1> QED BY <1>2, <1>3 DEF PickStep, PushOrDrop, NoPick

LEMMA SpecOfSlots == PickSpec => Spec
<1>1. [PickNext]_pickVars => [Next]_vars BY DEF PickNext, Next, pickVars
<1> QED BY <1>1, PTL DEF PickSpec, PickInit, Spec

(* dataplane_process_local pushes to an open WAN of the packet's profile, though *)
(* the row, its position, the test and the push are read at different moments    *)
(* of reloads for other profiles.                                                *)
THEOREM PushedWell == PickSpec => []PushesServe
<1>1. Init /\ pick = NoPick => PickIInv
  BY SlotsAssumption DEF NoPick, PickIInv, PickTypeOK, Held
<1>2. IInv /\ Positions /\ PickIInv /\ [PickNext]_pickVars => PickIInv'
  <2> SUFFICES ASSUME IInv, Positions, PickIInv, [PickNext]_pickVars PROVE PickIInv' OBVIOUS
  <2>1. PickTypeOK' BY PickTyped DEF PickIInv
  <2>2. CASE UNCHANGED pickVars
    <3>1. UNCHANGED <<pick, cfg, trigger, disturbed>> BY <2>2 DEF pickVars, vars, reloadVars, history
    <3>2. Held' BY <3>1 DEF PickIInv, Held, Holds
    <3> QED BY <2>1, <3>2 DEF PickIInv
  <2>3. CASE PickStep /\ UNCHANGED vars BY <2>1, <2>3, StepHolds DEF PickIInv
  <2>4. CASE Next /\ Overtake BY <2>1, <2>4, NextHolds DEF PickIInv
  <2>5. PickNext => (Next /\ Overtake) \/ (PickStep /\ UNCHANGED vars) BY DEF PickNext, Next
  <2> QED BY <2>2, <2>3, <2>4, <2>5
<1>3. IInv /\ Positions /\ PickIInv => PushesServe
  <2> SUFFICES ASSUME IInv, Positions, PickIInv, pick.at = "push", ~pick.overtaken, ~disturbed,
                      OwnNames(cfg, pick.of) # {}
               PROVE  /\ live[pick.slot] /\ ~stopped[pick.slot]
                      /\ name[pick.slot] \in OwnNames(cfg, pick.of)
    BY DEF PushesServe
  <2>1. Away(pick.of) /\ \E i \in OwnRows(cfg, pick.of) : Holds(i) BY DEF PickIInv, Held, Away
  <2>2. PICK i \in OwnRows(cfg, pick.of) : pick.slot = ToDp(cfg, i) BY <2>1 DEF Holds
  <2> QED BY <2>1, <2>2, OwnSlot
<1> QED BY <1>1, <1>2, <1>3, SpecOfSlots, Invariant, PositionsKept, PTL DEF PickSpec, PickInit

------------------------------------------------------------------------------
(* Induction over the natural numbers, from their well-foundedness.           *)
LEMMA Induct == ASSUME NEW T \in SUBSET Nat, 0 \in T, \A n \in T : n + 1 \in T PROVE T = Nat
<1> SUFFICES ASSUME Nat \ T # {} PROVE FALSE OBVIOUS
<1>1. PICK x \in Nat \ T : \A y \in Nat \ T : x <= y BY LeastNat
<1>2. x # 0 /\ x - 1 \in Nat BY <1>1
<1>3. x - 1 \in T BY <1>1, <1>2
<1> QED BY <1>1, <1>2, <1>3

(* Rows of different WANs can be put in order.                                *)
LEMMA RowsSort ==
  ASSUME NEW S, IsFiniteSet(S), \A x \in S : x.wan \in Nat,
         \A x, y \in S : x.wan = y.wan => x = y
  PROVE  ByRow(S) \in [1..Cardinality(S) -> S]
<1> DEFINE Sorts(s) == \A i, j \in DOMAIN s : i < j => s[i].wan < s[j].wan
           T == {n \in Nat : \A A \in SUBSET S : Cardinality(A) = n => \E s \in [1..n -> A] : Sorts(s)}
<1>1. 0 \in T
  <2> SUFFICES ASSUME NEW A \in SUBSET S, Cardinality(A) = 0
               PROVE  \E s \in [1..0 -> A] : Sorts(s)
    OBVIOUS
  <2>1. PICK s : s = [i \in 1..0 |-> {}] OBVIOUS
  <2>2. s \in [1..0 -> A] /\ DOMAIN s = {} BY <2>1
  <2> QED BY <2>2
<1>2. ASSUME NEW n \in T PROVE n + 1 \in T
  <2> SUFFICES ASSUME NEW A \in SUBSET S, Cardinality(A) = n + 1
               PROVE  \E s \in [1..n + 1 -> A] : Sorts(s)
    OBVIOUS
  <2>1. IsFiniteSet(A) /\ A # {}
    <3>1. IsFiniteSet(A) BY FS_Subset
    <3> QED BY <3>1, FS_EmptySet
  <2>2. PICK a \in A : \A x \in A : a.wan <= x.wan
    <3> DEFINE W == {x.wan : x \in A}
    <3>1. W \in SUBSET Nat /\ W # {} BY <2>1
    <3>2. PICK w \in W : \A y \in W : w <= y BY <3>1, LeastNat
    <3> QED BY <3>2
  <2>3. Cardinality(A \ {a}) = n /\ A \ {a} \in SUBSET S
    <3>1. Cardinality(A \ {a}) = Cardinality(A) - 1 BY <2>1, FS_RemoveElement
    <3> QED BY <3>1
  <2>4. PICK s \in [1..n -> A \ {a}] : Sorts(s) BY <2>3
  <2>5. PICK t : t = [i \in 1..n + 1 |-> IF i = 1 THEN a ELSE s[i - 1]] OBVIOUS
  <2>6. \A i \in 2..n + 1 : i - 1 \in 1..n /\ t[i] = s[i - 1] BY <2>5
  <2>7. t \in [1..n + 1 -> A]
    <3>1. \A i \in 1..n + 1 : t[i] \in A BY <2>4, <2>5, <2>6
    <3> QED BY <2>5, <3>1
  <2>8. ASSUME NEW i \in DOMAIN t, NEW j \in DOMAIN t, i < j PROVE t[i].wan < t[j].wan
    <3>1. i \in 1..n + 1 /\ j \in 2..n + 1 /\ t[j] \in A \ {a} /\ t[j] = s[j - 1] /\ j - 1 \in 1..n
      BY <2>4, <2>5, <2>6, <2>8
    <3>2. CASE i = 1
      <4>1. t[i] = a BY <2>5, <3>2
      <4>2. a.wan <= t[j].wan /\ a.wan # t[j].wan BY <2>2, <3>1
      <4> QED BY <4>1, <4>2, <3>1
    <3>3. CASE i # 1
      <4>1. t[i] = s[i - 1] /\ i - 1 \in 1..n BY <2>6, <3>1, <3>3
      <4>2. i - 1 < j - 1 BY <2>8, <3>1
      <4> QED BY <2>4, <3>1, <4>1, <4>2
    <3> QED BY <3>2, <3>3
  <2> QED BY <2>7, <2>8
<1> HIDE DEF T
<1>3. T = Nat BY <1>1, <1>2, Induct DEF T
<1>4. Cardinality(S) \in Nat BY FS_CardinalityType
<1>5. \E s \in [1..Cardinality(S) -> S] : Sorts(s) BY <1>3, <1>4 DEF T
<1> QED BY <1>5 DEF ByRow

LEMMA ByRowIsSeq ==
  ASSUME NEW S, NEW R, S \subseteq R, \A x \in S : x.wan \in 1..MaxRows,
         \A x, y \in S : x.wan = y.wan => x = y
  PROVE  ByRow(S) \in Seq(R)
<1>1. MaxRows \in Nat BY FS_CardinalityType, FlowAssumption DEF MaxRows
<1>2. IsFiniteSet(1..MaxRows) BY <1>1, FS_Interval
<1> DEFINE f == [x \in S |-> x.wan]
<1>3. f \in Injection(S, 1..MaxRows) BY DEF Injection, IsInjective
<1>4. IsFiniteSet(S) BY <1>2, <1>3, FS_Injection
<1>5. ByRow(S) \in [1..Cardinality(S) -> S] BY <1>1, <1>4, RowsSort
<1>6. Cardinality(S) \in Nat BY <1>4, FS_CardinalityType
<1> QED BY <1>5, <1>6

------------------------------------------------------------------------------
(* Sums of weights.                                                           *)
PoolRows == [wan : 1..MaxRows, weight : Nat \ {0}]
Sums(f, p) == f = [n \in 0..Len(p) |-> IF n = 0 THEN 0 ELSE f[n - 1] + p[n].weight]

LEMMA SumsExist == ASSUME NEW p \in Seq(PoolRows) PROVE \E f : Sums(f, p)
<1> DEFINE Upto(f, m) == f = [n \in 0..m |-> IF n = 0 THEN 0 ELSE f[n - 1] + p[n].weight]
           T == {m \in Nat : \E f : Upto(f, m)}
<1>1. 0 \in T
  <2>1. Upto([n \in 0..0 |-> 0], 0) OBVIOUS
  <2> QED BY <2>1
<1>2. ASSUME NEW m \in T PROVE m + 1 \in T
  <2>1. PICK f : Upto(f, m) OBVIOUS
  <2> DEFINE g == [n \in 0..m + 1 |-> IF n = m + 1 THEN f[m] + p[m + 1].weight ELSE f[n]]
  <2>2. ASSUME NEW n \in 0..m + 1
        PROVE  g[n] = IF n = 0 THEN 0 ELSE g[n - 1] + p[n].weight
    <3>1. CASE n = m + 1 BY <3>1
    <3>2. CASE n # m + 1
      <4>1. n \in 0..m /\ g[n] = f[n] BY <3>2
      <4>2. n # 0 => n - 1 \in 0..m /\ g[n - 1] = f[n - 1] BY <4>1
      <4> QED BY <2>1, <4>1, <4>2
    <3> QED BY <3>1, <3>2
  <2>3. g = [n \in 0..m + 1 |-> g[n]] OBVIOUS
  <2> HIDE DEF g
  <2>4. Upto(g, m + 1) BY <2>2, <2>3
  <2>5. m + 1 \in Nat OBVIOUS
  <2> QED BY <2>4, <2>5
<1> HIDE DEF T
<1>3. T = Nat BY <1>1, <1>2, Induct DEF T
<1>4. Len(p) \in Nat OBVIOUS
<1>5. \E f : Upto(f, Len(p)) BY <1>3, <1>4 DEF T
<1> QED BY Zenon, <1>5 DEF Sums

LEMMA AccSteps ==
  ASSUME NEW p \in Seq(PoolRows)
  PROVE  /\ Acc(p, 0) = 0
         /\ \A n \in 1..Len(p) : Acc(p, n) = Acc(p, n - 1) + p[n].weight
<1> DEFINE f == CHOOSE f : Sums(f, p)
<1>1. Sums(f, p) BY Zenon, SumsExist
<1>2. \A i : Acc(p, i) = f[i] BY Zenon DEF Acc, Sums
<1> HIDE DEF f
<1> QED BY <1>1, <1>2 DEF Sums

LEMMA Positive == ASSUME NEW p \in Seq(PoolRows), NEW i \in 1..Len(p) PROVE p[i].weight \in Nat \ {0}
<1>1. p[i] \in PoolRows OBVIOUS
<1> QED BY <1>1 DEF PoolRows

LEMMA AccNat ==
  ASSUME NEW p \in Seq(PoolRows)
  PROVE  \A n \in 0..Len(p) : Acc(p, n) \in Nat /\ n <= Acc(p, n)
<1> DEFINE T == {n \in Nat : n <= Len(p) => Acc(p, n) \in Nat /\ n <= Acc(p, n)}
<1>1. 0 \in T BY AccSteps
<1>2. ASSUME NEW n \in T PROVE n + 1 \in T
  <2> SUFFICES ASSUME n + 1 <= Len(p) PROVE Acc(p, n + 1) \in Nat /\ n + 1 <= Acc(p, n + 1)
    OBVIOUS
  <2>1. n + 1 \in 1..Len(p) /\ (n + 1) - 1 = n OBVIOUS
  <2>2. Acc(p, n + 1) = Acc(p, n) + p[n + 1].weight BY <2>1, AccSteps
  <2>3. p[n + 1].weight \in Nat \ {0} BY <2>1, Positive
  <2> QED BY <2>2, <2>3
<1> HIDE DEF T
<1>3. T = Nat BY <1>1, <1>2, Induct DEF T
<1> QED BY <1>3 DEF T

LEMMA AccGrows ==
  ASSUME NEW p \in Seq(PoolRows), NEW i \in 0..Len(p), NEW j \in 0..Len(p), i <= j
  PROVE  Acc(p, i) <= Acc(p, j)
<1> DEFINE T == {n \in Nat : i + n <= Len(p) => Acc(p, i) <= Acc(p, i + n)}
<1>1. 0 \in T BY AccNat
<1>2. ASSUME NEW n \in T PROVE n + 1 \in T
  <2> SUFFICES ASSUME i + (n + 1) <= Len(p) PROVE Acc(p, i) <= Acc(p, i + (n + 1)) OBVIOUS
  <2>1. /\ i + (n + 1) \in 1..Len(p) /\ (i + (n + 1)) - 1 = i + n /\ i + n \in 0..Len(p)
    OBVIOUS
  <2>2. Acc(p, i + (n + 1)) = Acc(p, i + n) + p[i + (n + 1)].weight BY <2>1, AccSteps
  <2>3. p[i + (n + 1)].weight \in Nat \ {0} BY <2>1, Positive
  <2>4. Acc(p, i) <= Acc(p, i + n) /\ Acc(p, i + n) \in Nat /\ Acc(p, i) \in Nat BY <2>1, AccNat
  <2> QED BY <2>2, <2>3, <2>4
<1> HIDE DEF T
<1>3. T = Nat BY <1>1, <1>2, Induct DEF T
<1>4. j - i \in Nat /\ i + (j - i) = j OBVIOUS
<1>5. i + (j - i) <= Len(p) => Acc(p, i) <= Acc(p, i + (j - i)) BY <1>3, <1>4 DEF T
<1> QED BY <1>4, <1>5

LEMMA Weighs ==
  ASSUME NEW p \in Seq(PoolRows), NEW i \in 1..Len(p)
  PROVE  p[i].weight \in Nat \ {0} /\ p[i].weight <= Sum(p) /\ Sum(p) \in Nat \ {0}
<1>1. Acc(p, i) <= Sum(p) BY AccGrows DEF Sum
<1>2. Acc(p, i) = Acc(p, i - 1) + p[i].weight BY AccSteps
<1>3. i - 1 \in 0..Len(p) /\ Acc(p, i - 1) \in Nat /\ Sum(p) \in Nat BY AccNat DEF Sum
<1>4. p[i].weight \in Nat \ {0} BY Positive
<1> QED BY <1>1, <1>2, <1>3, <1>4

(* The place whose weight reaches beyond n % Sum.                             *)
LEMMA SlotIs ==
  ASSUME NEW p \in Seq(PoolRows), p # <<>>, NEW n \in Nat
  PROVE  /\ WrrSlot(p, n) \in 1..Len(p)
         /\ n % Sum(p) < Acc(p, WrrSlot(p, n))
         /\ Acc(p, WrrSlot(p, n) - 1) <= n % Sum(p)
<1> DEFINE s == n % Sum(p)
           fits == {i \in DOMAIN p : s < Acc(p, i)}
<1>1. Len(p) \in 1..Len(p) /\ DOMAIN p = 1..Len(p) OBVIOUS
<1>2. Sum(p) \in Nat \ {0} BY <1>1, Weighs
<1>3. s \in Nat /\ s < Sum(p) BY <1>2
<1>4. Len(p) \in fits BY <1>1, <1>3 DEF Sum
<1>5. fits \in SUBSET Nat /\ fits # {} BY <1>1, <1>4
<1>6. \E i \in fits : \A j \in fits : i <= j BY <1>5, LeastNat
<1> HIDE DEF s
<1>7. WrrSlot(p, n) = CHOOSE i \in fits : \A j \in fits : i <= j BY Zenon, <1>5 DEF WrrSlot, s
<1>8. WrrSlot(p, n) \in fits /\ \A j \in fits : WrrSlot(p, n) <= j BY <1>6, <1>7
<1> DEFINE i == WrrSlot(p, n)
<1>9. i \in 1..Len(p) /\ s < Acc(p, i) BY <1>1, <1>8
<1>10. Acc(p, i - 1) <= s
  <2>1. CASE i = 1 BY <1>3, <2>1, AccSteps
  <2>2. CASE i # 1
    <3>1. i - 1 \in 1..Len(p) /\ i - 1 \in 0..Len(p) /\ ~(i <= i - 1) BY <1>9, <2>2
    <3>2. i - 1 \notin fits BY <1>8, <3>1
    <3> QED BY <1>1, <1>3, <3>1, <3>2, AccNat
  <2> QED BY <2>1, <2>2
<1> QED BY <1>9, <1>10 DEF s

------------------------------------------------------------------------------
(* The pool is well formed while weights are blended and WANs taper off: the  *)
(* weights before belong to as many rows, and a row tapers off once.          *)
BlendFits == blend.left # 0 => Len(blend.old) = Len(rows)
OneDrain == \A d, e \in drains : d.wan = e.wan => d = e

(* What the table holds of a flow: its bytes stay below the window on a row   *)
(* with a limit, and are those it has sent since it came to its WAN.          *)
Shares ==
  \A f \in Flows : entry[f] # NoEntry =>
    /\ entry[f].wan \in 1..MaxRows
    /\ entry[f].wan <= count => entry[f].bytes < Window
    /\ ~moved[f] => /\ entry[f].bytes <= sent[f]
                    /\ entry[f].wan <= count => sent[f] = entry[f].bytes

(* A profile without a table has no entries, so no limit changes under one.   *)
EmptyAtFirst == ready \/ \A f \in Flows : entry[f] = NoEntry

FlowIInv == FlowTypeOK /\ BlendFits /\ OneDrain /\ Shares /\ EmptyAtFirst

LEMMA Params ==
  /\ \A w \in Weights : w \in Nat \ {0}
  /\ \A s \in Sizes : s \in Nat \ {0} /\ Window + s <= Word
  /\ Window \in Nat \ {0} /\ Word \in Nat \ {0} /\ BlendTicks \in Nat \ {0}
  /\ Timeout \in Nat /\ MaxLag \in Nat /\ MaxFlowReloads \in Nat /\ MaxSeq \in Nat
BY FlowAssumption

LEMMA RowBounds == MaxRows \in Nat
BY FS_CardinalityType, FlowAssumption DEF MaxRows

LEMMA ConfigRows ==
  ASSUME NEW c \in Configs
  PROVE  /\ c \in Seq(RowType) /\ Len(c) \in 1..MaxRows /\ DOMAIN c = 1..Len(c)
         /\ \A i \in DOMAIN c : /\ i \in 1..MaxRows /\ c[i].weight \in Weights
                               /\ c[i].weight \in Nat \ {0}
<1>1. c \in Seq(RowType) /\ Len(c) \in 1..MaxRows BY ConfigsAssumption
<1>2. \A i \in DOMAIN c : c[i] \in RowType BY <1>1
<1>3. \A i \in DOMAIN c : c[i].weight \in Weights BY <1>2 DEF RowType
<1>4. DOMAIN c = 1..Len(c) BY <1>1
<1>5. \A i \in DOMAIN c : i \in 1..MaxRows BY <1>1, <1>4, RowBounds
<1> QED BY <1>1, <1>3, <1>4, <1>5, Params

LEMMA AtLeast1Positive == \A n \in Int : AtLeast1(n) \in Nat \ {0} /\ AtLeast1(n) >= n
BY DEF AtLeast1

LEMMA BlendedPositive ==
  ASSUME FlowTypeOK, BlendFits, NEW i \in DOMAIN rows
  PROVE  Blended(i) \in Nat \ {0}
<1>1. CASE blend.left = 0 BY <1>1, ConfigRows DEF Blended, FlowTypeOK
<1>2. CASE blend.left # 0
  <2>1. /\ blend.left \in Nat /\ BlendTicks \in Nat \ {0} /\ blend.old \in Seq(Weights)
    BY Params DEF FlowTypeOK
  <2>2. Progress \in Int BY <1>2, <2>1 DEF Progress
  <2>3. i \in 1..Len(blend.old) BY <1>2, ConfigRows DEF FlowTypeOK, BlendFits
  <2>4. blend.old[i] \in Weights BY <2>1, <2>3
  <2>5. blend.old[i] \in Int /\ rows[i].weight \in Int
    <3>1. rows \in Configs BY DEF FlowTypeOK
    <3>2. rows[i].weight \in Nat \ {0} BY <3>1, ConfigRows
    <3> QED BY <2>4, <3>2, Params
  <2>6. blend.old[i] * (100 - Progress) \in Int /\ rows[i].weight * Progress \in Int BY <2>2, <2>5
  <2>7. (blend.old[i] * (100 - Progress) + rows[i].weight * Progress) \div 100 \in Int BY <2>6
  <2> QED BY <1>2, <2>7, AtLeast1Positive DEF Blended
<1> QED BY <1>1, <1>2

LEMMA TaperedPositive ==
  ASSUME FlowTypeOK, NEW d \in drains PROVE Tapered(d) \in Nat \ {0}
<1>1. d.seed \in Nat /\ d.left \in Nat /\ BlendTicks \in Nat \ {0}
  <2>1. d \in [wan : 1..MaxRows, seed : Weights, left : 1..BlendTicks] BY DEF FlowTypeOK
  <2> QED BY <2>1, Params
<1>2. (d.left * 100) \div BlendTicks \in Int BY <1>1
<1>3. d.seed * ((d.left * 100) \div BlendTicks) \in Int BY <1>1, <1>2
<1>4. (d.seed * ((d.left * 100) \div BlendTicks)) \div 100 \in Int BY <1>3
<1> QED BY <1>4, AtLeast1Positive DEF Tapered

LEMMA PoolTyped ==
  ASSUME FlowTypeOK, BlendFits, OneDrain
  PROVE  Pool \in Seq(PoolRows) /\ Offered(Pool) \subseteq 1..MaxRows
<1> DEFINE A == {[wan |-> i, weight |-> Blended(i)] : i \in {j \in DOMAIN rows : rows[j].dataplane}}
           B == {[wan |-> d.wan, weight |-> Tapered(d)] : d \in {e \in drains : e.left > 0}}
<1>1. ByRow(A) \in Seq(PoolRows)
  <2>1. \A i \in DOMAIN rows : i \in 1..MaxRows /\ Blended(i) \in Nat \ {0}
    BY ConfigRows, BlendedPositive DEF FlowTypeOK
  <2>2. A \subseteq PoolRows BY <2>1 DEF PoolRows
  <2>3. \A x, y \in A : x.wan = y.wan => x = y OBVIOUS
  <2>4. \A x \in A : x.wan \in 1..MaxRows BY <2>2 DEF PoolRows
  <2> HIDE DEF A
  <2> QED BY <2>2, <2>3, <2>4, ByRowIsSeq
<1>2. ByRow(B) \in Seq(PoolRows)
  <2>1. \A d \in drains : d.wan \in 1..MaxRows /\ Tapered(d) \in Nat \ {0}
    BY TaperedPositive DEF FlowTypeOK
  <2>2. B \subseteq PoolRows BY <2>1 DEF PoolRows
  <2>3. \A x, y \in B : x.wan = y.wan => x = y BY DEF OneDrain
  <2>4. \A x \in B : x.wan \in 1..MaxRows BY <2>2 DEF PoolRows
  <2> HIDE DEF B
  <2> QED BY <2>2, <2>3, <2>4, ByRowIsSeq
<1> HIDE DEF A, B
<1>3. Pool \in Seq(PoolRows) BY <1>1, <1>2 DEF Pool, A, B
<1>4. \A i \in DOMAIN Pool : Pool[i] \in PoolRows BY <1>3
<1> QED BY <1>3, <1>4 DEF Offered, PoolRows

------------------------------------------------------------------------------
(* What a choice from a pool gives.                                           *)
LEMMA Offers ==
  ASSUME NEW p \in Seq(PoolRows), NEW i \in 1..Len(p)
  PROVE  p[i].wan \in Offered(p) /\ p[i].wan \in 1..MaxRows
<1>1. p[i] \in PoolRows /\ i \in DOMAIN p OBVIOUS
<1> QED BY <1>1 DEF PoolRows, Offered

LEMMA PosIs ==
  ASSUME NEW p \in Seq(PoolRows), NEW w \in Offered(p)
  PROVE  Pos(p, w) \in 1..Len(p) /\ p[Pos(p, w)].wan = w
<1> DEFINE at == {i \in DOMAIN p : p[i].wan = w}
<1>1. at \in SUBSET Nat /\ at # {} BY DEF Offered
<1>2. PICK i \in at : \A j \in at : i <= j BY <1>1, LeastNat
<1>3. i \in DOMAIN p /\ p[i].wan = w /\ \A j \in DOMAIN p : p[j].wan = w => i <= j BY <1>2
<1>4. Pos(p, w) \in DOMAIN p /\ p[Pos(p, w)].wan = w BY <1>3 DEF Pos
<1> QED BY <1>4

LEMMA Choices ==
  ASSUME NEW p \in Seq(PoolRows), p # <<>>
  PROVE  /\ FirstWan(p) \in Offered(p) /\ FirstWan(p) \in 1..MaxRows
         /\ \A w \in Offered(p) : NextWan(p, w) \in Offered(p) /\ NextWan(p, w) \in 1..MaxRows
         /\ \A n \in Nat : /\ p[WrrSlot(p, n)].wan \in Offered(p)
                           /\ p[WrrSlot(p, n)].wan \in 1..MaxRows
<1>1. 1 \in 1..Len(p) OBVIOUS
<1>2. ASSUME NEW w \in Offered(p)
      PROVE  NextWan(p, w) \in Offered(p) /\ NextWan(p, w) \in 1..MaxRows
  <2>1. Pos(p, w) % Len(p) \in 0..Len(p) - 1 BY PosIs
  <2>2. (Pos(p, w) % Len(p)) + 1 \in 1..Len(p) BY <2>1
  <2> QED BY <2>2, Offers DEF NextWan
<1>3. \A n \in Nat : WrrSlot(p, n) \in 1..Len(p) BY <1>1, SlotIs
<1> QED BY <1>1, <1>2, <1>3, Offers DEF FirstWan

(* The bytes of a stay are at most the window.                                *)
LEMMA ShareOfWindow ==
  ASSUME NEW w \in Nat, NEW s \in Nat \ {0}, w <= s, NEW k \in Nat
  PROVE  (k * w) \div s \in Nat /\ (k * w) \div s <= k
<1> DEFINE d == (k * w) \div s
<1>1. k * w \in Nat OBVIOUS
<1>2. d \in Nat /\ s * d <= k * w BY <1>1
<1>3. k * w <= k * s OBVIOUS
<1>4. CASE d > k
  <2>1. s * d >= s * (k + 1) BY <1>2, <1>4
  <2>2. s * (k + 1) = s * k + s OBVIOUS
  <2> QED BY <1>2, <1>3, <2>1, <2>2
<1> QED BY <1>2, <1>4

LEMMA LimitIs ==
  ASSUME NEW p \in Seq(PoolRows), NEW w \in Offered(p), count \in Nat, w <= count
  PROVE  Limit(p, w) \in 1..Window
<1>1. Pos(p, w) \in 1..Len(p) BY PosIs
<1> DEFINE r == p[Pos(p, w)].weight
<1>2. r \in Nat \ {0} /\ Sum(p) \in Nat \ {0} /\ r <= Sum(p) BY <1>1, Weighs
<1>3. Window \in Nat \ {0} BY Params
<1> HIDE DEF r
<1>4. (Window * r) \div Sum(p) \in Nat /\ (Window * r) \div Sum(p) <= Window
  BY <1>2, <1>3, ShareOfWindow
<1>5. Limit(p, w) = AtLeast1((Window * r) \div Sum(p))
  <2>1. w \in Nat BY <1>1, PosIs, Offers
  <2> QED BY <2>1 DEF Limit, r
<1> QED BY <1>3, <1>4, <1>5 DEF AtLeast1

------------------------------------------------------------------------------
(* A packet is counted.                                                       *)
EntryType == [wan : 0..MaxRows, bytes : 0..Word-1]
TableTyped == /\ entry \in [Flows -> EntryType] /\ age \in [Flows -> 0..Oldest]
              /\ last \in [flow : BOOLEAN, offered : SUBSET (1..MaxRows), wan : 0..MaxRows]
              /\ sent \in [Flows -> 0..Word] /\ moved \in [Flows -> BOOLEAN]

(* A packet of flow f goes to the WAN of was, which p offers: that of the    *)
(* flow, or a new one, on which nothing has been sent.                       *)
GoesOn(f, p, was) ==
  /\ p \in Seq(PoolRows) /\ p # <<>> /\ was \in EntryType /\ was.wan \in Offered(p)
  /\ Offered(p) \subseteq 1..MaxRows
  /\ IF entry[f] # NoEntry /\ entry[f].wan = was.wan THEN was = entry[f]
     ELSE was.bytes = 0 /\ entry[f].wan # was.wan

LEMMA CountedTyped ==
  ASSUME NEW e \in EntryType, NEW s \in Sizes
  PROVE  /\ Counted(e, s) \in EntryType /\ Counted(e, s).wan = e.wan
         /\ Counted(e, s).bytes <= e.bytes + s
         /\ e.bytes + s < Word => Counted(e, s).bytes = e.bytes + s
<1>1. e.bytes \in Nat /\ s \in Nat /\ Word \in Nat \ {0} BY Params DEF EntryType
<1>2. (e.bytes + s) % Word \in 0..Word-1 /\ (e.bytes + s) % Word <= e.bytes + s
  BY <1>1
<1>3. e.bytes + s < Word => (e.bytes + s) % Word = e.bytes + s BY <1>1
<1>4. /\ Counted(e, s) = [e EXCEPT !.bytes = (e.bytes + s) % Word]
  BY DEF Counted
<1> QED BY <1>2, <1>3, <1>4 DEF EntryType

LEMMA RotatedTyped ==
  ASSUME NEW p \in Seq(PoolRows), p # <<>>, NEW e \in EntryType, e.wan \in Offered(p)
  PROVE  /\ Rotated(p, e) \in EntryType /\ Rotated(p, e).wan \in Offered(p)
         /\ Rotated(p, e).wan \in 1..MaxRows
         /\ ~Full(p, e) => Rotated(p, e) = e
         /\ Full(p, e) => Rotated(p, e).bytes = 0
<1>1. CASE Full(p, e)
  <2>1. NextWan(p, e.wan) \in Offered(p) /\ NextWan(p, e.wan) \in 1..MaxRows BY Choices
  <2>2. 0 \in 0..Word-1 /\ MaxRows \in Nat BY Params, RowBounds
  <2> QED BY <1>1, <2>1, <2>2 DEF Rotated, EntryType
<1>2. CASE ~Full(p, e)
  <2>1. PICK i \in DOMAIN p : e.wan = p[i].wan BY DEF Offered
  <2>2. e.wan \in 1..MaxRows BY <2>1, Offers
  <2> QED BY <1>2, <2>2 DEF Rotated
<1> QED BY <1>1, <1>2

LEMMA RecordsFacts ==
  ASSUME FlowIInv, NEW f \in Flows, NEW s \in Sizes, NEW p, NEW was,
         GoesOn(f, p, was), Records(f, p, was, s), UNCHANGED count
  PROVE  /\ TableTyped' /\ Shares' /\ PickIsOffered'
         /\ entry'[f].wan \in 1..MaxRows
<1> DEFINE now == Counted(was, s)
           after == Rotated(p, now)
           sum == IF Full(p, now) THEN 0
                  ELSE IF entry[f].wan = was.wan
                       THEN IF sent[f] + s < Word THEN sent[f] + s ELSE Word ELSE s
           off == moved[f] /\ entry[f].wan = was.wan /\ ~Full(p, now)
<1>1. /\ entry' = [entry EXCEPT ![f] = after]
      /\ age' = [age EXCEPT ![f] = 0]
      /\ last' = [flow |-> TRUE, offered |-> Offered(p), wan |-> now.wan]
      /\ sent' = [sent EXCEPT ![f] = sum]
      /\ moved' = [moved EXCEPT ![f] = off]
  BY DEF Records
<1>2. /\ entry \in [Flows -> EntryType] /\ age \in [Flows -> 0..Oldest]
      /\ sent \in [Flows -> 0..Word] /\ moved \in [Flows -> BOOLEAN]
      /\ count \in Nat /\ Oldest \in Nat
  <2>1. FlowTypeOK BY DEF FlowIInv
  <2>2. count \in Nat BY <2>1, RowBounds DEF FlowTypeOK
  <2>3. Oldest \in Nat BY Params DEF Oldest
  <2> QED BY <2>1, <2>2, <2>3 DEF FlowTypeOK, EntryType
<1>3. /\ p \in Seq(PoolRows) /\ p # <<>> /\ was \in EntryType /\ was.wan \in Offered(p)
      /\ Offered(p) \subseteq 1..MaxRows
  BY DEF GoesOn
<1>4. /\ now \in EntryType /\ now.wan = was.wan /\ now.bytes <= was.bytes + s
      /\ was.bytes + s < Word => now.bytes = was.bytes + s
  BY <1>3, CountedTyped
<1> HIDE DEF now
<1>5. /\ after \in EntryType /\ after.wan \in Offered(p) /\ after.wan \in 1..MaxRows
      /\ ~Full(p, now) => after = now
      /\ Full(p, now) => after.bytes = 0
  BY <1>3, <1>4, RotatedTyped
<1> HIDE DEF after
<1>6. s \in Nat \ {0} /\ Window + s <= Word /\ Window \in Nat \ {0} /\ Word \in Nat \ {0} BY Params
<1>7. /\ was.bytes \in Nat /\ now.bytes \in Nat /\ after.bytes \in Nat /\ now.bytes < Word
      /\ sent[f] \in Nat /\ moved[f] \in BOOLEAN
  BY <1>2, <1>3, <1>4, <1>5, <1>6 DEF EntryType
<1>8. ~Full(p, now) /\ now.wan <= count => now.bytes < Window
  <2> SUFFICES ASSUME ~Full(p, now), now.wan <= count PROVE now.bytes < Window OBVIOUS
  <2>1. Limit(p, now.wan) \in 1..Window BY <1>2, <1>3, <1>4, LimitIs
  <2> QED BY <1>6, <1>7, <2>1 DEF Full
<1>9. after.wan <= count => after.bytes < Window BY <1>5, <1>6, <1>8
<1>10. sum \in 0..Word BY <1>6, <1>7
<1>11. ASSUME ~off
       PROVE  after.bytes <= sum /\ (after.wan <= count => sum = after.bytes)
  <2>1. CASE Full(p, now) BY <1>5, <2>1
  <2>2. CASE ~Full(p, now) /\ entry[f].wan # was.wan
    <3>1. was.bytes = 0 BY <2>2 DEF GoesOn
    <3>2. now.bytes = s BY <1>4, <1>6, <3>1
    <3> QED BY <1>5, <1>6, <2>2, <3>2
  <2>3. CASE ~Full(p, now) /\ entry[f].wan = was.wan
    <3>1. ~moved[f] /\ entry[f] # NoEntry /\ was = entry[f] BY <1>7, <1>11, <2>3 DEF GoesOn
    <3>2. /\ was.bytes <= sent[f]
          /\ was.wan <= count => sent[f] = was.bytes /\ was.bytes < Window
      <4>1. /\ entry[f].wan <= count => entry[f].bytes < Window
            /\ ~moved[f] => /\ entry[f].bytes <= sent[f]
                            /\ entry[f].wan <= count => sent[f] = entry[f].bytes
        BY Zenon, <3>1 DEF FlowIInv, Shares
      <4>2. /\ entry[f].wan <= count => entry[f].bytes < Window
            /\ entry[f].bytes <= sent[f]
            /\ entry[f].wan <= count => sent[f] = entry[f].bytes
        BY Zenon, <3>1, <4>1
      <4>3. was.bytes = entry[f].bytes /\ was.wan = entry[f].wan BY <3>1
      <4> QED BY <4>2, <4>3
    <3>3. sum = IF sent[f] + s < Word THEN sent[f] + s ELSE Word BY <2>3
    <3>4. after = now BY <1>5, <2>3
    <3>5. now.bytes <= sum BY <1>4, <1>6, <1>7, <3>2, <3>3
    <3>6. now.wan <= count => sum = now.bytes BY <1>4, <1>6, <1>7, <3>2, <3>3
    <3> QED BY <3>4, <3>5, <3>6
  <2> QED BY <2>1, <2>2, <2>3
<1>12. off \in BOOLEAN OBVIOUS
<1> HIDE DEF sum, off
<1>13. TableTyped'
  <2>1. last' \in [flow : BOOLEAN, offered : SUBSET (1..MaxRows), wan : 0..MaxRows]
    <3>1. now.wan \in 0..MaxRows BY <1>4 DEF EntryType
    <3> QED BY <1>1, <1>3, <3>1
  <2>2. sent' \in [Flows -> 0..Word] /\ moved' \in [Flows -> BOOLEAN] BY <1>1, <1>2, <1>10, <1>12
  <2>3. entry' \in [Flows -> EntryType] /\ age' \in [Flows -> 0..Oldest] BY <1>1, <1>2, <1>5
  <2> QED BY <2>1, <2>2, <2>3 DEF TableTyped
<1>14. Shares'
  <2> SUFFICES ASSUME NEW g \in Flows, entry'[g] # NoEntry
               PROVE  /\ entry'[g].wan \in 1..MaxRows
                      /\ entry'[g].wan <= count => entry'[g].bytes < Window
                      /\ ~moved'[g] => /\ entry'[g].bytes <= sent'[g]
                                       /\ entry'[g].wan <= count => sent'[g] = entry'[g].bytes
    BY DEF Shares
  <2>1. CASE g = f
    <3>1. entry'[g] = after /\ sent'[g] = sum /\ moved'[g] = off BY <1>1, <1>2, <2>1
    <3> QED BY <1>5, <1>9, <1>11, <3>1
  <2>2. CASE g # f
    <3>1. entry'[g] = entry[g] /\ sent'[g] = sent[g] /\ moved'[g] = moved[g]
      BY <1>1, <1>2, <2>2
    <3> QED BY <3>1 DEF FlowIInv, Shares
  <2> QED BY <2>1, <2>2
<1>15. PickIsOffered' BY <1>1, <1>3, <1>4 DEF PickIsOffered
<1>16. entry'[f].wan \in 1..MaxRows BY <1>1, <1>2, <1>5
<1> QED BY <1>13, <1>14, <1>15, <1>16

FlowGood == FlowIInv /\ PickIsOffered

LEMMA SeenGoes ==
  ASSUME FlowGood, NEW f \in Flows, NEW s \in Sizes, Seen(f, s)
  PROVE  LET was == StaysOffered(Pool, entry[f])
         IN /\ GoesOn(f, Pool, was) /\ Records(f, Pool, was, s)
            /\ UNCHANGED <<pool, header, seq, gc, flowReloads>>
            /\ entry[f].wan \in Offered(Pool) => was = entry[f]
<1> DEFINE was == StaysOffered(Pool, entry[f])
<1>1. /\ Len(Pool) > 1 /\ entry[f] # NoEntry /\ Records(f, Pool, was, s)
      /\ UNCHANGED <<pool, header, seq, gc, flowReloads>>
  BY DEF Seen
<1>2. /\ Pool \in Seq(PoolRows) /\ Offered(Pool) \subseteq 1..MaxRows
      /\ entry[f] \in EntryType
  BY PoolTyped DEF FlowGood, FlowIInv, FlowTypeOK, EntryType
<1>3. Pool # <<>> BY <1>1, <1>2
<1>4. CASE entry[f].wan \in Offered(Pool)
  <2>1. was = entry[f] BY <1>4 DEF StaysOffered
  <2> QED BY <1>1, <1>2, <1>3, <1>4, <2>1 DEF GoesOn
<1>5. CASE entry[f].wan \notin Offered(Pool)
  <2>1. was = [wan |-> FirstWan(Pool), bytes |-> 0] BY <1>5 DEF StaysOffered
  <2>2. FirstWan(Pool) \in Offered(Pool) /\ FirstWan(Pool) \in 1..MaxRows BY <1>2, <1>3, Choices
  <2>3. was \in EntryType BY <2>1, <2>2, Params, RowBounds DEF EntryType
  <2>4. was.wan = FirstWan(Pool) /\ was.bytes = 0 /\ entry[f].wan # was.wan
    BY <1>5, <2>1, <2>2
  <2> HIDE DEF was
  <2>5. GoesOn(f, Pool, was) BY <1>2, <1>3, <2>2, <2>3, <2>4 DEF GoesOn
  <2> QED BY <1>1, <1>5, <2>5 DEF was
<1> QED BY <1>4, <1>5

LEMMA NewFlowGoes ==
  ASSUME FlowGood, NEW f \in Flows, NEW s \in Sizes, NewFlow(f, s)
  PROVE  LET was == [wan |-> Pool[WrrSlot(Pool, Hash[f])].wan, bytes |-> 0]
         IN /\ GoesOn(f, Pool, was) /\ Records(f, Pool, was, s)
            /\ UNCHANGED <<pool, header, seq, gc, flowReloads>>
<1> DEFINE was == [wan |-> Pool[WrrSlot(Pool, Hash[f])].wan, bytes |-> 0]
<1>1. /\ Len(Pool) > 1 /\ entry[f] = NoEntry /\ Records(f, Pool, was, s)
      /\ UNCHANGED <<pool, header, seq, gc, flowReloads>>
  BY DEF NewFlow
<1>2. Pool \in Seq(PoolRows) /\ Offered(Pool) \subseteq 1..MaxRows
  BY PoolTyped DEF FlowGood, FlowIInv
<1>3. Pool # <<>> BY <1>1, <1>2
<1>4. Hash[f] \in Nat BY FlowAssumption
<1>5. was.wan \in Offered(Pool) /\ was.wan \in 1..MaxRows /\ was.bytes = 0
  BY <1>2, <1>3, <1>4, Choices
<1>6. was \in EntryType BY <1>5, Params, RowBounds DEF EntryType
<1>7. entry[f].wan = 0 BY <1>1 DEF NoEntry
<1> HIDE DEF was
<1>8. GoesOn(f, Pool, was) BY <1>1, <1>2, <1>3, <1>5, <1>6, <1>7 DEF GoesOn
<1> QED BY <1>1, <1>8 DEF was

LEMMA CountsKeep ==
  ASSUME FlowGood, NEW f \in Flows, NEW s \in Sizes, Seen(f, s) \/ NewFlow(f, s)
  PROVE  FlowGood'
<1>1. PICK was : /\ GoesOn(f, Pool, was) /\ Records(f, Pool, was, s)
                    /\ UNCHANGED <<pool, header, seq, gc, flowReloads>>
  BY SeenGoes, NewFlowGoes
<1>2. TableTyped' /\ Shares' /\ PickIsOffered' BY <1>1, RecordsFacts DEF FlowGood, header
<1>3. FlowTypeOK'
  <2>1. /\ rows' = rows /\ blend' = blend /\ drains' = drains /\ count' = count
        /\ ready' = ready /\ seq' = seq /\ gc' = gc /\ flowReloads' = flowReloads
    BY <1>1 DEF pool, header
  <2> QED BY <1>2, <2>1 DEF FlowGood, FlowIInv, FlowTypeOK, TableTyped, EntryType
<1>4. ready' BY <1>1 DEF Seen, NewFlow, header
<1> QED BY <1>1, <1>2, <1>3, <1>4 DEF FlowGood, FlowIInv, BlendFits, OneDrain, EmptyAtFirst, pool

(* Everything else.                                                           *)
LEMMA OthersChoose ==
  ASSUME FlowGood,
         NoTable \/ OtherDraws \/ OtherTable \/ (\E f \in Flows : NoMemory(f) \/ OnlyWan(f))
         \/ (\E S \in SUBSET Flows : GcStart(S)) \/ UNCHANGED flowVars
  PROVE  FlowGood'
<1>1. /\ UNCHANGED <<pool, header, table, flowReloads, flowHistory>>
      /\ rows' = rows /\ blend' = blend /\ drains' = drains
      /\ ready' = ready /\ count' = count /\ entry' = entry /\ age' = age /\ sent' = sent /\ moved' = moved
      /\ flowReloads' = flowReloads
  BY DEF NoTable, OtherDraws, OtherTable, NoMemory, OnlyWan, GcStart, flowVars, pool, header, table,
         flowHistory
<1>2. seq' \in 0..MaxSeq
  <2>1. seq \in 0..MaxSeq /\ MaxSeq \in Nat BY Params DEF FlowGood, FlowIInv, FlowTypeOK
  <2>2. seq' = seq \/ seq' = 0 \/ (seq < MaxSeq /\ seq' = seq + 1)
    BY DEF NoTable, OtherDraws, OtherTable, NoMemory, OnlyWan, GcStart, flowVars
  <2> QED BY <2>1, <2>2
<1>3. gc' \in [todo : SUBSET Flows, lag : 0..MaxLag]
  <2>1. CASE UNCHANGED gc BY <2>1 DEF FlowGood, FlowIInv, FlowTypeOK
  <2>2. ASSUME NEW S \in SUBSET Flows, GcStart(S) PROVE gc' \in [todo : SUBSET Flows, lag : 0..MaxLag]
    BY <2>2, Params DEF GcStart
  <2> QED BY <2>1, <2>2 DEF NoTable, OtherDraws, OtherTable, NoMemory, OnlyWan, flowVars
<1>4. /\ last' \in [flow : BOOLEAN, offered : SUBSET (1..MaxRows), wan : 0..MaxRows]
      /\ PickIsOffered'
  <2>1. CASE UNCHANGED last BY <2>1 DEF FlowGood, FlowIInv, FlowTypeOK, PickIsOffered
  <2>2. Pool \in Seq(PoolRows) /\ Offered(Pool) \subseteq 1..MaxRows /\ seq \in Nat
    <3>1. FlowTypeOK /\ BlendFits /\ OneDrain BY DEF FlowGood, FlowIInv
    <3>2. seq \in Nat BY <3>1, Params DEF FlowTypeOK
    <3> QED BY <3>1, <3>2, PoolTyped
  <2>3. CASE NoTable
    <3>1. /\ Len(Pool) > 1
          /\ last' = [flow |-> TRUE, offered |-> Offered(Pool), wan |-> Pool[WrrSlot(Pool, seq)].wan]
      BY <2>3 DEF NoTable
    <3>2. Pool # <<>>
      <4> DEFINE P == Pool
      <4>1. Len(P) > 1 BY <3>1
      <4> HIDE DEF P
      <4>2. P # <<>> BY <4>1
      <4> QED BY <4>2 DEF P
    <3>4. Pool[WrrSlot(Pool, seq)].wan \in Offered(Pool) BY <2>2, <3>2, Choices
    <3>3. Pool[WrrSlot(Pool, seq)].wan \in 0..MaxRows BY <2>2, <3>4, RowBounds
    <3> QED BY <2>2, <3>1, <3>3, <3>4 DEF PickIsOffered
  <2>4. ASSUME NEW f \in Flows, NoMemory(f)
        PROVE  /\ last' \in [flow : BOOLEAN, offered : SUBSET (1..MaxRows), wan : 0..MaxRows]
               /\ PickIsOffered'
    <3>1. last' = [flow |-> FALSE, offered |-> Offered(Pool), wan |-> 1] BY <2>4 DEF NoMemory
    <3>2. 1 \in 0..MaxRows BY RowBounds, ConfigRows DEF FlowGood, FlowIInv, FlowTypeOK
    <3> QED BY <2>2, <3>1, <3>2 DEF PickIsOffered
  <2>5. ASSUME NEW f \in Flows, OnlyWan(f)
        PROVE  /\ last' \in [flow : BOOLEAN, offered : SUBSET (1..MaxRows), wan : 0..MaxRows]
               /\ PickIsOffered'
    <3> DEFINE P == Pool
    <3>1. Len(P) = 1 /\ last' = [flow |-> TRUE, offered |-> Offered(Pool), wan |-> FirstWan(Pool)]
      BY <2>5 DEF OnlyWan
    <3>2. P # <<>>
      <4> HIDE DEF P
      <4> QED BY <3>1
    <3>3. FirstWan(Pool) \in Offered(Pool) BY <2>2, <3>2, Choices
    <3>4. FirstWan(Pool) \in 0..MaxRows BY <2>2, <3>3, RowBounds
    <3> QED BY <2>2, <3>1, <3>3, <3>4 DEF PickIsOffered
  <2>6. CASE OtherDraws \/ OtherTable BY <2>1, <2>6 DEF OtherDraws, OtherTable
  <2>7. CASE (\E S \in SUBSET Flows : GcStart(S)) \/ UNCHANGED flowVars
    BY <2>1, <2>7 DEF GcStart, flowVars
  <2>8. CASE \E f \in Flows : NoMemory(f) \/ OnlyWan(f) BY <2>4, <2>5, <2>8
  <2> QED BY <2>3, <2>6, <2>7, <2>8
<1>5. FlowTypeOK' BY <1>1, <1>2, <1>3, <1>4 DEF FlowGood, FlowIInv, FlowTypeOK
<1>6. BlendFits' /\ OneDrain' BY <1>1 DEF FlowGood, FlowIInv, BlendFits, OneDrain
<1>7. Shares' /\ EmptyAtFirst' BY <1>1 DEF FlowGood, FlowIInv, Shares, EmptyAtFirst
<1> QED BY <1>4, <1>5, <1>6, <1>7 DEF FlowGood, FlowIInv

(* The profile gets its table: there is no entry yet that its count limits.   *)
LEMMA TableKeeps == ASSUME FlowGood, GetTable PROVE FlowGood'
<1>1. /\ rows' = rows /\ blend' = blend /\ drains' = drains /\ count' = Len(rows) /\ seq' = 0
      /\ ready' = TRUE /\ entry' = entry /\ age' = age /\ sent' = sent /\ moved' = moved
      /\ gc' = gc /\ last' = last /\ flowReloads' = flowReloads
  BY DEF GetTable, pool, table, flowHistory
<1>2. \A f \in Flows : entry'[f] = NoEntry
  BY <1>1 DEF GetTable, FlowGood, FlowIInv, EmptyAtFirst
<1>3. count' \in 1..MaxRows BY <1>1, ConfigRows DEF FlowGood, FlowIInv, FlowTypeOK
<1>4. 0 \in 0..MaxSeq BY Params
<1>5. FlowTypeOK' BY <1>1, <1>3, <1>4 DEF FlowGood, FlowIInv, FlowTypeOK
<1>6. Shares' /\ EmptyAtFirst' BY <1>2 DEF Shares, EmptyAtFirst
<1> QED BY <1>1, <1>5, <1>6 DEF FlowGood, FlowIInv, BlendFits, OneDrain, PickIsOffered

LEMMA VisitKeeps == ASSUME FlowGood, NEW f \in Flows, GcVisit(f) PROVE FlowGood'
<1>1. /\ rows' = rows /\ blend' = blend /\ drains' = drains /\ count' = count
      /\ ready' = ready /\ seq' = seq /\ last' = last /\ flowReloads' = flowReloads
      /\ gc' = [gc EXCEPT !.todo = @ \ {f}, !.lag = IF gc.todo = {f} THEN 0 ELSE @]
  BY DEF GcVisit, pool, header
<1>2. \/ /\ entry' = [entry EXCEPT ![f] = NoEntry] /\ age' = [age EXCEPT ![f] = 0]
         /\ sent' = [sent EXCEPT ![f] = 0] /\ moved' = [moved EXCEPT ![f] = FALSE]
      \/ entry' = entry /\ age' = age /\ sent' = sent /\ moved' = moved
  BY DEF GcVisit, table, flowHistory
<1>3. gc' \in [todo : SUBSET Flows, lag : 0..MaxLag]
  <2>1. gc \in [todo : SUBSET Flows, lag : 0..MaxLag] BY DEF FlowGood, FlowIInv, FlowTypeOK
  <2>2. gc' = [todo |-> gc.todo \ {f}, lag |-> IF gc.todo = {f} THEN 0 ELSE gc.lag]
    BY <1>1, <2>1
  <2>3. 0 \in 0..MaxLag BY Params
  <2> QED BY <2>1, <2>2, <2>3
<1>4. NoEntry \in EntryType /\ 0 \in 0..Word /\ 0 \in 0..Oldest
  BY Params, RowBounds DEF NoEntry, EntryType, Oldest
<1>5. TableTyped'
  <2>1. TableTyped BY DEF FlowGood, FlowIInv, FlowTypeOK, TableTyped, EntryType
  <2>2. entry' \in [Flows -> EntryType] /\ age' \in [Flows -> 0..Oldest]
    BY <1>2, <1>4, <2>1 DEF TableTyped
  <2>3. sent' \in [Flows -> 0..Word] /\ moved' \in [Flows -> BOOLEAN]
    BY <1>2, <1>4, <2>1 DEF TableTyped
  <2> QED BY <1>1, <2>1, <2>2, <2>3 DEF TableTyped
<1>6. FlowTypeOK' BY <1>1, <1>3, <1>5 DEF FlowGood, FlowIInv, FlowTypeOK, TableTyped, EntryType
<1>7. Shares'
  <2> SUFFICES ASSUME NEW g \in Flows, entry'[g] # NoEntry
               PROVE  entry'[g] = entry[g] /\ sent'[g] = sent[g] /\ moved'[g] = moved[g]
    BY <1>1 DEF Shares, FlowGood, FlowIInv
  <2> QED BY <1>2 DEF FlowGood, FlowIInv, FlowTypeOK
<1>8. EmptyAtFirst'
  <2> SUFFICES ASSUME ~ready, NEW g \in Flows PROVE entry'[g] = NoEntry BY <1>1 DEF EmptyAtFirst
  <2>1. entry[g] = NoEntry BY DEF FlowGood, FlowIInv, EmptyAtFirst
  <2> QED BY <1>2, <2>1 DEF FlowGood, FlowIInv, FlowTypeOK
<1> QED BY <1>1, <1>6, <1>7, <1>8 DEF FlowGood, FlowIInv, BlendFits, OneDrain, PickIsOffered

(* A second passes. *)
LEMMA TickKeeps == ASSUME FlowGood, Tick PROVE FlowGood'
<1>1. /\ rows' = rows /\ ready' = ready /\ count' = count /\ entry' = entry /\ seq' = seq
      /\ last' = last
      /\ flowReloads' = flowReloads /\ sent' = sent /\ moved' = moved
      /\ age' = [f \in Flows |-> IF entry[f] = NoEntry THEN 0 ELSE Older(age[f])]
      /\ gc' = [gc EXCEPT !.lag = IF gc.todo = {} THEN 0 ELSE @ + 1]
      /\ blend' = [blend EXCEPT !.left = Sooner(@), !.old = IF blend.left <= 1 THEN <<>> ELSE @]
      /\ drains' = {[d EXCEPT !.left = @ - 1] : d \in {e \in drains : e.left > 1}}
      /\ gc.todo # {} => gc.lag < MaxLag
  BY DEF Tick, header, flowHistory
<1>2. /\ BlendTicks \in Nat \ {0} /\ MaxLag \in Nat /\ Oldest \in Nat
      /\ blend \in [old : Seq(Weights), left : 0..BlendTicks]
      /\ gc \in [todo : SUBSET Flows, lag : 0..MaxLag]
      /\ age \in [Flows -> 0..Oldest]
      /\ drains \subseteq [wan : 1..MaxRows, seed : Weights, left : 1..BlendTicks]
  BY Params DEF FlowGood, FlowIInv, FlowTypeOK, Oldest
<1>3. blend' = [old |-> IF blend.left <= 1 THEN <<>> ELSE blend.old, left |-> Sooner(blend.left)]
  BY <1>1, <1>2
<1>4. blend' \in [old : Seq(Weights), left : 0..BlendTicks]
  <2>1. blend.left \in 0..BlendTicks /\ blend.old \in Seq(Weights) /\ <<>> \in Seq(Weights)
    BY <1>2
  <2>2. Sooner(blend.left) \in 0..BlendTicks BY <1>2, <2>1 DEF Sooner
  <2> QED BY <1>3, <2>1, <2>2
<1>5. gc' \in [todo : SUBSET Flows, lag : 0..MaxLag]
  <2>1. gc' = [todo |-> gc.todo, lag |-> IF gc.todo = {} THEN 0 ELSE gc.lag + 1] BY <1>1, <1>2
  <2>2. gc.lag \in 0..MaxLag BY <1>2
  <2>3. (IF gc.todo = {} THEN 0 ELSE gc.lag + 1) \in 0..MaxLag BY <1>1, <1>2, <2>2
  <2> QED BY <1>2, <2>1, <2>3
<1>6. age' \in [Flows -> 0..Oldest]
  <2>1. \A n \in 0..Oldest : Older(n) \in 0..Oldest BY <1>2 DEF Older
  <2> QED BY <1>1, <1>2, <2>1
<1>7. \A d \in drains : d.left > 1 =>
         [d EXCEPT !.left = @ - 1] \in [wan : 1..MaxRows, seed : Weights, left : 1..BlendTicks]
  <2> SUFFICES ASSUME NEW d \in drains, d.left > 1
               PROVE  [d EXCEPT !.left = @ - 1] \in [wan : 1..MaxRows, seed : Weights, left : 1..BlendTicks]
    OBVIOUS
  <2>1. d \in [wan : 1..MaxRows, seed : Weights, left : 1..BlendTicks] BY <1>2
  <2>2. d.left \in 1..BlendTicks BY <2>1
  <2>3. d.left - 1 \in 1..BlendTicks BY <1>2, <2>2
  <2> QED BY <2>1, <2>3
<1>8. drains' \subseteq [wan : 1..MaxRows, seed : Weights, left : 1..BlendTicks] BY <1>1, <1>7
<1>9. OneDrain'
  <2> SUFFICES ASSUME NEW d \in drains', NEW e \in drains', d.wan = e.wan PROVE d = e
    BY DEF OneDrain
  <2>1. PICK a \in drains : d = [a EXCEPT !.left = @ - 1] BY <1>1
  <2>2. PICK b \in drains : e = [b EXCEPT !.left = @ - 1] BY <1>1
  <2>3. /\ a \in [wan : 1..MaxRows, seed : Weights, left : 1..BlendTicks]
        /\ b \in [wan : 1..MaxRows, seed : Weights, left : 1..BlendTicks]
    BY <1>2
  <2>4. d.wan = a.wan /\ e.wan = b.wan BY <2>1, <2>2, <2>3
  <2>5. a = b BY <2>4 DEF FlowGood, FlowIInv, OneDrain
  <2> QED BY <2>1, <2>2, <2>5
<1>10. BlendFits'
  <2>1. blend.left \in Nat BY <1>2
  <2>2. blend'.left # 0 => blend.left # 0 /\ blend'.old = blend.old
    <3>1. blend'.left = Sooner(blend.left) /\ blend'.old = IF blend.left <= 1 THEN <<>> ELSE blend.old
      BY <1>3
    <3> QED BY <2>1, <3>1 DEF Sooner
  <2> QED BY <1>1, <2>2 DEF FlowGood, FlowIInv, BlendFits
<1>11. FlowTypeOK' BY <1>1, <1>4, <1>5, <1>6, <1>8 DEF FlowGood, FlowIInv, FlowTypeOK
<1> QED BY <1>1, <1>9, <1>10, <1>11 DEF FlowGood, FlowIInv, Shares, EmptyAtFirst, PickIsOffered

(* A reload. *)
LEMMA ReloadKeeps == ASSUME FlowGood, NEW c \in Configs, Reload(c) PROVE FlowGood'
<1>1. /\ flowReloads < MaxFlowReloads /\ rows' = c /\ flowReloads' = flowReloads + 1
      /\ blend' = IF Len(c) = Len(rows) /\ WeightsOf(c) # WeightsOf(rows)
                  THEN [old |-> WeightsOf(rows), left |-> BlendTicks] ELSE [old |-> <<>>, left |-> 0]
      /\ moved' = [f \in Flows |-> moved[f] \/ Reindexed(c, entry[f])]
      /\ sent' = [f \in Flows |-> IF Reindexed(c, entry[f]) THEN 0 ELSE sent[f]]
      /\ ready' = ready /\ count' = count /\ entry' = entry /\ age' = age /\ seq' = seq
      /\ gc' = gc /\ last' = last
  BY DEF Reload, header, table
<1>2. /\ rows \in Configs /\ sent \in [Flows -> 0..Word] /\ moved \in [Flows -> BOOLEAN]
      /\ flowReloads \in 0..MaxFlowReloads
      /\ drains \subseteq [wan : 1..MaxRows, seed : Weights, left : 1..BlendTicks]
  BY DEF FlowGood, FlowIInv, FlowTypeOK
<1>3. /\ BlendTicks \in Nat \ {0} /\ MaxFlowReloads \in Nat /\ Word \in Nat BY Params
<1>4. WeightsOf(rows) \in Seq(Weights) /\ Len(WeightsOf(rows)) = Len(rows)
  <2>1. /\ rows \in Seq(RowType) /\ DOMAIN rows = 1..Len(rows)
        /\ \A i \in DOMAIN rows : rows[i].weight \in Weights
    BY <1>2, ConfigRows
  <2>2. WeightsOf(rows) = [i \in 1..Len(rows) |-> rows[i].weight] BY <2>1 DEF WeightsOf
  <2> QED BY <2>1, <2>2
<1>5. blend' \in [old : Seq(Weights), left : 0..BlendTicks] /\ BlendFits'
  <2>1. CASE Len(c) = Len(rows) /\ WeightsOf(c) # WeightsOf(rows)
    <3>1. blend' = [old |-> WeightsOf(rows), left |-> BlendTicks] BY <1>1, <2>1
    <3> QED BY <1>1, <1>3, <1>4, <2>1, <3>1 DEF BlendFits
  <2>2. CASE ~(Len(c) = Len(rows) /\ WeightsOf(c) # WeightsOf(rows))
    <3>1. blend' = [old |-> <<>>, left |-> 0] BY <1>1, <2>2
    <3>2. <<>> \in Seq(Weights) /\ 0 \in 0..BlendTicks BY <1>3
    <3> QED BY <3>1, <3>2 DEF BlendFits
  <2> QED BY <2>1, <2>2
<1>6. drains' \subseteq [wan : 1..MaxRows, seed : Weights, left : 1..BlendTicks] /\ OneDrain'
  <2> DEFINE tapering == {[wan |-> i, seed |-> rows[i].weight, left |-> BlendTicks] : i \in Leaving(c)}
             staying == {d \in drains : d.wan \notin Leaving(c)}
  <2>1. drains' = drains \/ drains' = staying \cup tapering \/ drains' = {} BY DEF Reload
  <2>2. tapering \subseteq [wan : 1..MaxRows, seed : Weights, left : 1..BlendTicks]
    <3>1. \A i \in Leaving(c) : i \in 1..MaxRows /\ rows[i].weight \in Weights
      BY <1>2, ConfigRows DEF Leaving
    <3>2. BlendTicks \in 1..BlendTicks BY <1>3
    <3> QED BY <3>1, <3>2
  <2>3. \A d, e \in staying : d.wan = e.wan => d = e BY DEF FlowGood, FlowIInv, OneDrain
  <2>4. \A d, e \in tapering : d.wan = e.wan => d = e OBVIOUS
  <2>5. \A d \in staying, e \in tapering : d.wan # e.wan
    <3>1. \A e \in tapering : e.wan \in Leaving(c) OBVIOUS
    <3>2. \A d \in staying : d.wan \notin Leaving(c) OBVIOUS
    <3> QED BY <3>1, <3>2
  <2>6. staying \subseteq drains OBVIOUS
  <2> HIDE DEF staying, tapering
  <2>7. \A d, e \in staying \cup tapering : d.wan = e.wan => d = e BY <2>3, <2>4, <2>5
  <2>8. \A d, e \in drains : d.wan = e.wan => d = e BY DEF FlowGood, FlowIInv, OneDrain
  <2>9. CASE drains' = drains BY <1>2, <2>8, <2>9 DEF OneDrain
  <2>10. CASE drains' = staying \cup tapering BY <1>2, <2>2, <2>6, <2>7, <2>10 DEF OneDrain
  <2>11. CASE drains' = {} BY <2>11 DEF OneDrain
  <2> QED BY <2>1, <2>9, <2>10, <2>11
<1>7. sent' \in [Flows -> 0..Word] /\ moved' \in [Flows -> BOOLEAN]
  <2>1. \A f \in Flows : Reindexed(c, entry[f]) \in BOOLEAN BY DEF Reindexed
  <2>2. \A f \in Flows : (moved[f] \/ Reindexed(c, entry[f])) \in BOOLEAN OBVIOUS
  <2> QED BY <1>1, <1>2, <1>3, <2>2
<1>8. flowReloads' \in 0..MaxFlowReloads BY <1>1, <1>2, <1>3
<1>9. FlowTypeOK'
  BY <1>1, <1>5, <1>6, <1>7, <1>8 DEF FlowGood, FlowIInv, FlowTypeOK
<1>10. Shares'
  <2> SUFFICES ASSUME NEW f \in Flows, entry[f] # NoEntry
               PROVE  /\ entry[f].wan \in 1..MaxRows
                      /\ entry[f].wan <= count => entry[f].bytes < Window
                      /\ ~moved'[f] => /\ entry[f].bytes <= sent'[f]
                                       /\ entry[f].wan <= count => sent'[f] = entry[f].bytes
    BY <1>1 DEF Shares
  <2>1. CASE moved'[f] BY <2>1 DEF FlowGood, FlowIInv, Shares
  <2>2. CASE ~moved'[f]
    <3>1. ~moved[f] /\ sent'[f] = sent[f] BY <1>1, <2>2
    <3> QED BY <3>1 DEF FlowGood, FlowIInv, Shares
  <2> QED BY <2>1, <2>2
<1>11. PickIsOffered' /\ EmptyAtFirst' BY <1>1 DEF FlowGood, FlowIInv, PickIsOffered, EmptyAtFirst
<1> QED BY <1>5, <1>6, <1>9, <1>10, <1>11 DEF FlowGood, FlowIInv

LEMMA FlowInitGood == ASSUME FlowInit PROVE FlowGood
<1>1. /\ rows \in Configs /\ ready \in BOOLEAN /\ count = Len(rows) /\ blend = [old |-> <<>>, left |-> 0] /\ drains = {}
      /\ entry = [f \in Flows |-> NoEntry] /\ age = [f \in Flows |-> 0]
      /\ seq = 0 /\ gc = [todo |-> {}, lag |-> 0]
      /\ last = [flow |-> FALSE, offered |-> {}, wan |-> 0]
      /\ flowReloads = 0 /\ sent = [f \in Flows |-> 0] /\ moved = [f \in Flows |-> FALSE]
  BY DEF FlowInit
<1>2. /\ NoEntry \in EntryType /\ 0 \in 0..Word /\ 0 \in 0..Oldest /\ 0 \in 0..MaxSeq
      /\ 0 \in 0..MaxLag /\ 0 \in 0..MaxFlowReloads /\ 0 \in 0..MaxRows /\ 0 \in 0..BlendTicks
  BY Params, RowBounds DEF NoEntry, EntryType, Oldest
<1>3. count \in 1..MaxRows BY <1>1, ConfigRows
<1>4. blend \in [old : Seq(Weights), left : 0..BlendTicks]
  <2>1. <<>> \in Seq(Weights) OBVIOUS
  <2> QED BY <1>1, <1>2, <2>1
<1>5. /\ drains \subseteq [wan : 1..MaxRows, seed : Weights, left : 1..BlendTicks]
      /\ entry \in [Flows -> EntryType] /\ age \in [Flows -> 0..Oldest]
      /\ sent \in [Flows -> 0..Word] /\ moved \in [Flows -> BOOLEAN]
  BY <1>1, <1>2
<1>6. /\ gc \in [todo : SUBSET Flows, lag : 0..MaxLag]
      /\ last \in [flow : BOOLEAN, offered : SUBSET (1..MaxRows), wan : 0..MaxRows]
      /\ seq \in 0..MaxSeq /\ flowReloads \in 0..MaxFlowReloads
  BY <1>1, <1>2
<1>7. FlowTypeOK BY <1>1, <1>3, <1>4, <1>5, <1>6 DEF FlowTypeOK, EntryType
<1>8. BlendFits /\ OneDrain /\ Shares /\ EmptyAtFirst /\ PickIsOffered
  BY <1>1 DEF BlendFits, OneDrain, Shares, EmptyAtFirst, PickIsOffered
<1> QED BY <1>7, <1>8 DEF FlowGood, FlowIInv

(* Each step keeps the invariant.                                             *)
LEMMA FlowNextKeeps == FlowGood /\ [FlowNext]_flowVars => FlowGood'
<1> SUFFICES ASSUME FlowGood, [FlowNext]_flowVars PROVE FlowGood' OBVIOUS
<1>1. CASE \E f \in Flows, s \in Sizes : Seen(f, s) \/ NewFlow(f, s) BY <1>1, CountsKeep
<1>2. CASE \E f \in Flows : GcVisit(f) BY <1>2, VisitKeeps
<1>3. CASE Tick BY <1>3, TickKeeps
<1>4. CASE \E c \in Configs : Reload(c) BY <1>4, ReloadKeeps
<1>5. CASE \/ NoTable \/ OtherDraws \/ OtherTable \/ \E f \in Flows : NoMemory(f) \/ OnlyWan(f)
           \/ \E S \in SUBSET Flows : GcStart(S)
           \/ UNCHANGED flowVars
  BY <1>5, OthersChoose
<1>6. CASE GetTable BY <1>6, TableKeeps
<1> QED BY <1>1, <1>2, <1>3, <1>4, <1>5, <1>6 DEF FlowNext

(* The invariant holds: the bytes counted on a WAN with a limit stay below   *)
(* the window, and are what the flow has sent on it since it came.            *)
THEOREM FlowInvariant == FlowSpec => []FlowGood
<1>1. FlowInit => FlowGood BY FlowInitGood
<1> QED BY <1>1, FlowNextKeeps, PTL DEF FlowSpec

(* The variables of the flow table have their types; the byte count is that   *)
(* of 32 bits.                                                                *)
THEOREM FlowTyped == FlowSpec => []FlowTypeOK
<1>1. FlowGood => FlowTypeOK BY DEF FlowGood, FlowIInv
<1> QED BY <1>1, FlowInvariant, PTL

(* flow_table_get_wan_profile and flow_table_pick_wan_per_packet return a WAN  *)
(* of the pool they are given, whatever reloads and the collector did before. *)
THEOREM OffersOnly == FlowSpec => []PickIsOffered
<1>1. FlowGood => PickIsOffered BY DEF FlowGood
<1> QED BY <1>1, FlowInvariant, PTL
------------------------------------------------------------------------------
(* A flow that has an entry loses it only to the collector.                   *)
LEMMA EntryStays ==
  ASSUME FlowGood, [FlowNext]_flowVars, NEW f \in Flows, entry[f] # NoEntry, rows' = rows
  PROVE  \/ entry'[f] = entry[f] /\ sent'[f] = sent[f]
         \/ GcVisit(f) /\ Idle(f) /\ entry'[f] = NoEntry
         \/ \E s \in Sizes : Seen(f, s)
<1>1. entry \in [Flows -> EntryType] /\ sent \in [Flows -> 0..Word] /\ age \in [Flows -> 0..Oldest]
  BY DEF FlowGood, FlowIInv, FlowTypeOK, EntryType
<1>2. CASE \E g \in Flows, s \in Sizes : Seen(g, s)
  <2>1. PICK g \in Flows, s \in Sizes : Seen(g, s) BY <1>2
  <2>2. g # f => entry'[f] = entry[f] /\ sent'[f] = sent[f] BY <1>1, <2>1 DEF Seen, Records
  <2> QED BY <2>1, <2>2
<1>3. CASE \E g \in Flows, s \in Sizes : NewFlow(g, s)
  <2>1. PICK g \in Flows, s \in Sizes : NewFlow(g, s) BY <1>3
  <2>2. g # f BY <2>1 DEF NewFlow
  <2>3. entry'[f] = entry[f] /\ sent'[f] = sent[f] BY <1>1, <2>1, <2>2 DEF NewFlow, Records
  <2> QED BY <2>3
<1>4. CASE \E g \in Flows : GcVisit(g)
  <2>1. PICK g \in Flows : GcVisit(g) BY <1>4
  <2>2. CASE g = f
    <3>1. \/ Idle(f) /\ entry' = [entry EXCEPT ![f] = NoEntry]
          \/ entry' = entry /\ sent' = sent
      BY <2>1, <2>2 DEF GcVisit, table, flowHistory
    <3> QED BY <1>1, <2>1, <2>2, <3>1
  <2>3. CASE g # f
    <3>1. \/ /\ entry' = [entry EXCEPT ![g] = NoEntry] /\ sent' = [sent EXCEPT ![g] = 0]
          \/ entry' = entry /\ sent' = sent
      BY <2>1 DEF GcVisit, table, flowHistory
    <3> QED BY <1>1, <2>3, <3>1
  <2> QED BY <2>2, <2>3
<1>5. CASE \/ NoTable \/ OtherDraws \/ OtherTable \/ GetTable \/ Tick
           \/ \E g \in Flows : NoMemory(g) \/ OnlyWan(g)
           \/ \E S \in SUBSET Flows : GcStart(S)
           \/ UNCHANGED flowVars
  <2>1. entry' = entry /\ sent' = sent
    BY <1>5 DEF NoTable, OtherDraws, OtherTable, GetTable, Tick, NoMemory, OnlyWan, GcStart,
                flowVars, table, flowHistory
  <2> QED BY <2>1
<1>6. CASE \E c \in Configs \ {rows} : Reload(c) BY <1>6 DEF Reload
<1> QED BY <1>2, <1>3, <1>4, <1>5, <1>6 DEF FlowNext

(* What the collector takes is idle.                                          *)
LEMMA EntryLost ==
  ASSUME FlowGood, [FlowNext]_flowVars, NEW f \in Flows, entry[f] # NoEntry, entry'[f] = NoEntry
  PROVE  age[f] > Timeout \/ age[f] < gc.lag
<1>1. CASE \E c \in Configs \ {rows} : Reload(c)
  <2>1. entry' = entry BY <1>1 DEF Reload, table
  <2> QED BY <2>1
<1>2. CASE ~ \E c \in Configs \ {rows} : Reload(c)
  <2>1. rows' = rows
    BY <1>2 DEF FlowNext, Seen, NewFlow, NoMemory, OnlyWan, GcVisit, NoTable, OtherDraws, OtherTable,
                GetTable, Tick, GcStart, flowVars, pool
  <2>2. CASE \E s \in Sizes : Seen(f, s)
    <3>1. PICK s \in Sizes : Seen(f, s) BY <2>2
    <3>2. entry'[f].wan \in 1..MaxRows
      <4>1. PICK was : /\ GoesOn(f, Pool, was) /\ Records(f, Pool, was, s)
                          /\ UNCHANGED <<pool, header, seq, gc, flowReloads>>
        BY <3>1, SeenGoes
      <4> QED BY <4>1, RecordsFacts DEF FlowGood, header
    <3> QED BY <3>2, RowBounds DEF NoEntry
  <2>3. CASE Idle(f)
    <3>1. age[f] \in Nat /\ gc.lag \in Nat /\ Timeout \in Nat
      BY Params DEF FlowGood, FlowIInv, FlowTypeOK, Oldest
    <3> QED BY <2>3, <3>1 DEF Idle
  <2> QED BY <2>1, <2>2, <2>3, EntryStays
<1> QED BY <1>1, <1>2

(* A packet of a known flow: its WAN changes when its share is sent.          *)
LEMMA SeenShares ==
  ASSUME FlowGood, NEW f \in Flows, NEW s \in Sizes, Seen(f, s), ~moved[f], entry[f] # NoEntry
  PROVE  /\ entry[f].wan \in Offered(Pool) /\ entry'[f].wan # entry[f].wan =>
               sent[f] + s >= Limit(Pool, entry[f].wan)
         /\ entry'[f].wan <= count => sent'[f] < Limit(Pool, entry'[f].wan)
<1> DEFINE was == StaysOffered(Pool, entry[f])
           now == Counted(was, s)
<1>1. /\ GoesOn(f, Pool, was) /\ Records(f, Pool, was, s)
      /\ UNCHANGED <<pool, header, seq, gc, flowReloads>>
      /\ entry[f].wan \in Offered(Pool) => was = entry[f]
  BY SeenGoes
<1>2. /\ Pool \in Seq(PoolRows) /\ Pool # <<>> /\ was \in EntryType /\ was.wan \in Offered(Pool)
  BY <1>1 DEF GoesOn
<1>3. Shares' /\ TableTyped' /\ entry'[f].wan \in 1..MaxRows BY <1>1, RecordsFacts DEF FlowGood, header
<1>4. /\ now \in EntryType /\ now.wan = was.wan /\ now.bytes <= was.bytes + s
  BY <1>2, CountedTyped
<1>5. /\ entry \in [Flows -> EntryType] /\ sent \in [Flows -> 0..Word]
      /\ moved \in [Flows -> BOOLEAN] /\ count \in Nat
  BY RowBounds DEF FlowGood, FlowIInv, FlowTypeOK, EntryType
<1>6. /\ entry'[f] = Rotated(Pool, now)
      /\ Full(Pool, now) => sent'[f] = 0
      /\ ~moved'[f]
  BY <1>1, <1>5 DEF Records
<1>7. /\ Rotated(Pool, now) \in EntryType /\ Rotated(Pool, now).wan \in Offered(Pool)
      /\ ~Full(Pool, now) => Rotated(Pool, now) = now
  BY <1>2, <1>4, RotatedTyped
<1>8. s \in Nat /\ Window \in Nat /\ Word \in Nat BY Params
<1> HIDE DEF now, was
<1>9. ASSUME entry[f].wan \in Offered(Pool), entry'[f].wan # entry[f].wan
      PROVE  sent[f] + s >= Limit(Pool, entry[f].wan)
  <2>1. was = entry[f] BY <1>1, <1>9
  <2>2. Full(Pool, now) BY <1>4, <1>6, <1>7, <1>9, <2>1
  <2>3. now.bytes >= Limit(Pool, entry[f].wan) BY <1>4, <2>1, <2>2 DEF Full
  <2>4. entry[f].bytes <= sent[f] BY Zenon DEF FlowGood, FlowIInv, Shares
  <2>5. now.bytes \in Nat /\ was.bytes \in Nat /\ sent[f] \in Nat BY <1>2, <1>4, <1>5, <1>8 DEF EntryType
  <2>6. Limit(Pool, entry[f].wan) \in Nat
    <3>1. CASE entry[f].wan <= count BY <1>2, <1>5, <1>8, <1>9, <3>1, LimitIs
    <3>2. CASE ~(entry[f].wan <= count)
      <4>1. entry[f].wan \in Nat BY <1>5, RowBounds DEF EntryType
      <4> QED BY <1>5, <3>2, <4>1 DEF Limit
    <3> QED BY <3>1, <3>2
  <2> QED BY <1>4, <1>8, <2>1, <2>3, <2>4, <2>5, <2>6
<1>10. ASSUME entry'[f].wan <= count
       PROVE  sent'[f] < Limit(Pool, entry'[f].wan)
  <2>1. Limit(Pool, entry'[f].wan) \in 1..Window BY <1>2, <1>5, <1>6, <1>7, <1>10, LimitIs
  <2>2. CASE Full(Pool, now) BY <1>6, <1>8, <2>1, <2>2
  <2>3. CASE ~Full(Pool, now)
    <3>1. entry'[f] = now BY <1>6, <1>7, <2>3
    <3>2. entry'[f] # NoEntry BY <1>3, RowBounds DEF NoEntry
    <3>3. count' = count BY <1>1 DEF header
    <3>4. /\ \A g \in Flows : entry'[g] # NoEntry /\ ~moved'[g] /\ entry'[g].wan <= count' =>
                sent'[g] = entry'[g].bytes
      BY Zenon, <1>3 DEF Shares
    <3>5. sent'[f] = entry'[f].bytes BY Zenon, <1>6, <1>10, <3>2, <3>3, <3>4
    <3>6. ~(now.bytes >= Limit(Pool, now.wan)) BY <1>8, <2>1, <2>3, <3>1 DEF Full
    <3>7. now.bytes \in Nat BY <1>4, <1>8 DEF EntryType
    <3> QED BY <1>8, <2>1, <3>1, <3>5, <3>6, <3>7
  <2> QED BY <2>2, <2>3
<1> QED BY <1>9, <1>10

LEMMA StayStep ==
  ASSUME FlowGood, [FlowNext]_flowVars, NEW f \in Flows,
         entry[f] # NoEntry, entry'[f] # NoEntry, ~moved[f], rows' = rows
  PROVE  /\ entry[f].wan \in Offered(Pool) /\ entry'[f].wan # entry[f].wan =>
              \E s \in Sizes : sent[f] + s >= Limit(Pool, entry[f].wan)
         /\ sent'[f] # sent[f] /\ entry'[f].wan <= count =>
              sent'[f] < Limit(Pool, entry'[f].wan)
<1>1. CASE entry'[f] = entry[f] /\ sent'[f] = sent[f] BY <1>1
<1>2. CASE \E s \in Sizes : Seen(f, s) BY <1>2, SeenShares
<1> QED BY <1>1, <1>2, EntryStays

(* flow_table_gc_slice collects no flow seen within FLOW_TIMEOUT_SEC, unless   *)
(* it was seen since the slice read the clock.                                *)
THEOREM FreshKept == FlowSpec => FreshFlowKept
<1>1. FlowGood /\ [FlowNext]_flowVars =>
        [\A f \in Flows : entry[f] # NoEntry /\ entry'[f] = NoEntry =>
            age[f] > Timeout \/ age[f] < gc.lag]_flowVars
  BY EntryLost
<1> QED BY <1>1, FlowInvariant, PTL DEF FlowSpec, FreshFlowKept

(* A flow leaves a WAN still offered only when it has sent the share           *)
(* profile_wan_limit gives it, and has gone on once it has.                    *)
THEOREM StaysShare == FlowSpec => StaysAreShares
<1>1. FlowGood /\ [FlowNext]_flowVars =>
        [\A f \in Flows : entry[f] # NoEntry /\ entry'[f] # NoEntry /\ ~moved[f] /\ rows' = rows =>
           /\ entry[f].wan \in Offered(Pool) /\ entry'[f].wan # entry[f].wan =>
                \E s \in Sizes : sent[f] + s >= Limit(Pool, entry[f].wan)
           /\ sent'[f] # sent[f] /\ entry'[f].wan <= count =>
                sent'[f] < Limit(Pool, entry'[f].wan)]_flowVars
  BY StayStep
<1> QED BY <1>1, FlowInvariant, PTL DEF FlowSpec, StaysAreShares

==============================================================================
