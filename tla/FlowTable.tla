----------------------------- MODULE FlowTable -------------------------------
(***************************************************************************)
(* The flow table of a profile (flow_table.c) and the weights of the pool  *)
(* it chooses from (forwarder_wan.c): a flow sends its share of bytes on a *)
(* WAN and goes on to the next; a reload blends the weights and lets WANs  *)
(* taper off.  A WAN is a row of the configuration, counted from 1.  Any   *)
(* worker looks a flow up, under the lock of its bucket, while worker 0    *)
(* collects idle flows.  Times are in seconds and kept as ages.            *)
(* flow_table_get_wan is not modelled: its only caller needs an empty      *)
(* pool, which fwd_wan_pick_for_local has handled before.                  *)
(* Names this module would share with WanSlots begin with flow, so that    *)
(* one module can extend both.                                             *)
(***************************************************************************)
EXTENDS Integers, Sequences, FiniteSets

CONSTANTS
  Flows,        \* normalised 5-tuples
  Hash,         \* flow_hash
  Names,        \* WAN interfaces
  Configs,      \* configurations loaded: the rows of the profile, here all rows
  Weights,      \* positive, from the database
  Window,       \* window_size: the same for every WAN (WAN_REORDER_WINDOW_KB)
  Sizes,        \* of packets
  Word,         \* 2^32
  Timeout,      \* FLOW_TIMEOUT_SEC
  BlendTicks,   \* FORWARDER_WAN_DRAIN_SEC
  MaxLag,       \* bound: seconds one slice of the collector takes
  MaxFlowReloads,  \* bound: reloads followed
  MaxSeq        \* bound: numbers drawn from the sequence, by all profiles

ASSUME FlowAssumption ==
  /\ Hash \in [Flows -> Nat] /\ Weights \subseteq Nat \ {0} /\ Sizes \subseteq Nat \ {0}
  /\ IsFiniteSet(Names)
  /\ Window \in Nat \ {0} /\ Word \in Nat \ {0} /\ \A s \in Sizes : Window + s <= Word
  /\ Timeout \in Nat /\ BlendTicks \in Nat \ {0} /\ MaxLag \in Nat
  /\ MaxFlowReloads \in Nat /\ MaxSeq \in Nat

RowType == [name : Names, weight : Weights, dataplane : BOOLEAN]
MaxRows == Cardinality(Names)

ASSUME ConfigsAssumption ==
  \A c \in Configs : /\ c \in Seq(RowType) /\ Len(c) \in 1..MaxRows
                     /\ \A i, j \in DOMAIN c : c[i].name = c[j].name => i = j

Served(c) == {c[i].name : i \in {j \in DOMAIN c : c[j].dataplane}}

NoEntry == [wan |-> 0, bytes |-> 0]     \* rows are counted from 1
Oldest == Timeout + MaxLag + 1

VARIABLES
  rows,     \* the profile in fwd->cfg
  blend,    \* wan_weight_blends: the weights before, seconds left
  drains,   \* wan_drains: row and weight in the configuration before, seconds left
  ready,    \* profile_flow_table_ready: the profile has its table
  count,    \* ft->wan_count
  entry,    \* flow_entry: current_wan and byte_count, or NoEntry
  age,      \* seconds since its last_seen
  seq,      \* g_pkt_wrr_seq, which all profiles without a table draw from
  gc,       \* the slice in progress: flows still to visit, seconds since it read the clock
  last,     \* the last choice for a flow: what was offered, the row chosen
  flowReloads, \* reloads so far
  sent,     \* history: bytes the flow has sent on its WAN since it came to it
  moved     \* history: the flow's row became another WAN under way

table == <<entry, age>>
header == <<ready, count>>
pool == <<rows, blend, drains>>
flowHistory == <<sent, moved>>
flowVars == <<pool, header, table, seq, gc, last, flowReloads, flowHistory>>

FlowInit == /\ rows \in {c \in Configs : Served(c) # {}}
            /\ ready \in BOOLEAN                        \* FALSE: a reload brings the profile
            /\ count = Len(rows)                        \* flow_table_init
            /\ blend = [old |-> <<>>, left |-> 0] /\ drains = {}
            /\ entry = [f \in Flows |-> NoEntry] /\ age = [f \in Flows |-> 0]
            /\ seq = 0 /\ gc = [todo |-> {}, lag |-> 0]
            /\ last = [flow |-> FALSE, offered |-> {}, wan |-> 0]
            /\ flowReloads = 0
            /\ sent = [f \in Flows |-> 0] /\ moved = [f \in Flows |-> FALSE]

------------------------------------------------------------------------------
(* The pool: rows offered and their weights. *)
AtLeast1(n) == IF n > 0 THEN n ELSE 1

(* profile_wan_weight_blended, wan_weight_blend_progress *)
Progress == IF blend.left = 0 THEN 100 ELSE ((BlendTicks - blend.left) * 100) \div BlendTicks
Blended(i) == IF blend.left = 0 THEN rows[i].weight
              ELSE AtLeast1((blend.old[i] * (100 - Progress) + rows[i].weight * Progress) \div 100)

(* wan_drain_taper_pct *)
Tapered(d) == AtLeast1((d.seed * ((d.left * 100) \div BlendTicks)) \div 100)
ByRow(S) == CHOOSE p \in [1..Cardinality(S) -> S] :
              \A i, j \in DOMAIN p : i < j => p[i].wan < p[j].wan

(* fwd_wan_build_profile_pool; module WanSlots has the slots behind the rows. *)
Pool == ByRow({[wan |-> i, weight |-> Blended(i)] : i \in {j \in DOMAIN rows : rows[j].dataplane}})
        \o ByRow({[wan |-> d.wan, weight |-> Tapered(d)] : d \in {e \in drains : e.left > 0}})
Offered(p) == {p[i].wan : i \in DOMAIN p}

(* weights_sum_positive *)
Acc(p, i) == LET sum[n \in 0..Len(p)] == IF n = 0 THEN 0 ELSE sum[n - 1] + p[n].weight IN sum[i]
Sum(p) == Acc(p, Len(p))

(* wrr_slot_to_wan *)
WrrSlot(p, n) == LET s == n % Sum(p)
                     fits == {i \in DOMAIN p : s < Acc(p, i)}
                 IN  IF fits = {} THEN Len(p) ELSE CHOOSE i \in fits : \A j \in fits : i <= j

(* wan_allowed_pos, first_positive_pos and next_enabled_pos: every weight is *)
(* positive.                                                                 *)
Pos(p, w) == CHOOSE i \in DOMAIN p : p[i].wan = w /\ \A j \in DOMAIN p : p[j].wan = w => i <= j
FirstWan(p) == p[1].wan
NextWan(p, w) == p[(Pos(p, w) % Len(p)) + 1].wan

(* profile_wan_limit: the bytes of one stay, 0 for no limit. *)
Limit(p, w) == IF w > count \/ w \notin Offered(p) THEN 0
               ELSE AtLeast1((Window * p[Pos(p, w)].weight) \div Sum(p))

------------------------------------------------------------------------------
(* flow_table_get_wan_profile, under the lock of the bucket. *)
Full(p, e) == Limit(p, e.wan) > 0 /\ e.bytes >= Limit(p, e.wan)
RotatedKeepingBytes(p, e) ==                \* mutant: the count is not started again
  IF Full(p, e) THEN [e EXCEPT !.wan = NextWan(p, e.wan)] ELSE e
Rotated(p, e) == IF Full(p, e) THEN [wan |-> NextWan(p, e.wan), bytes |-> 0] ELSE e

StaysThough(p, e) == e                      \* mutant: a WAN that left is kept
StaysOffered(p, e) ==
  IF e.wan \in Offered(p) THEN e ELSE [wan |-> FirstWan(p), bytes |-> 0]
Counted(e, s) == [e EXCEPT !.bytes = (@ + s) % Word]

Records(f, p, before, s) ==
  LET now == Counted(before, s)
      after == Rotated(p, now)
  IN  /\ entry' = [entry EXCEPT ![f] = after]
      /\ age' = [age EXCEPT ![f] = 0]
      /\ last' = [flow |-> TRUE, offered |-> Offered(p), wan |-> now.wan]
      /\ sent' = [sent EXCEPT ![f] = IF Full(p, now) THEN 0
                                     ELSE IF entry[f].wan = before.wan
                                          THEN IF @ + s < Word THEN @ + s ELSE Word ELSE s]
      /\ moved' = [moved EXCEPT ![f] = @ /\ entry[f].wan = before.wan /\ ~Full(p, now)]

Seen(f, s) == /\ ready /\ Len(Pool) > 1 /\ entry[f] # NoEntry
              /\ Records(f, Pool, StaysOffered(Pool, entry[f]), s)
              /\ UNCHANGED <<pool, header, seq, gc, flowReloads>>

NewFlow(f, s) ==
  /\ ready /\ Len(Pool) > 1 /\ entry[f] = NoEntry
  /\ Records(f, Pool, [wan |-> Pool[WrrSlot(Pool, Hash[f])].wan, bytes |-> 0], s)
  /\ UNCHANGED <<pool, header, seq, gc, flowReloads>>

(* malloc fails: the first row of the configuration, offered or not. *)
NoMemory(f) == /\ ready /\ Len(Pool) > 1 /\ entry[f] = NoEntry
               /\ last' = [flow |-> FALSE, offered |-> Offered(Pool), wan |-> 1]
               /\ UNCHANGED <<pool, header, table, seq, gc, flowReloads, flowHistory>>

(* One WAN only: no table is consulted, and the flow not seen. *)
OnlyWan(f) == /\ Len(Pool) = 1
              /\ last' = [flow |-> TRUE, offered |-> Offered(Pool), wan |-> FirstWan(Pool)]
              /\ UNCHANGED <<pool, header, table, seq, gc, flowReloads, flowHistory>>

(* flow_table_pick_wan_per_packet.  What has no flow has no policy and is    *)
(* dropped before (pick_profile_policy); packets of a flow come here while   *)
(* the profile has no table: between fwd->cfg = cfg and                      *)
(* fwd_crypto_ensure_profile_slots, or until a later reload finds a place.   *)
NoTable == /\ ~ready /\ Len(Pool) > 1 /\ seq < MaxSeq
           /\ seq' = seq + 1
           /\ last' = [flow |-> TRUE, offered |-> Offered(Pool), wan |-> Pool[WrrSlot(Pool, seq)].wan]
           /\ UNCHANGED <<pool, header, table, gc, flowReloads, flowHistory>>

(* The sequence is one for all profiles: another one without a table takes a *)
(* number, on any worker, and flow_table_init for another one starts it anew.*)
(* It is followed as long as this profile draws from it.                     *)
OtherDraws == /\ ~ready /\ seq < MaxSeq /\ seq' = seq + 1
              /\ UNCHANGED <<pool, header, table, gc, last, flowReloads, flowHistory>>
OtherTable == /\ ~ready /\ seq > 0 /\ seq' = 0
              /\ UNCHANGED <<pool, header, table, gc, last, flowReloads, flowHistory>>

(* fwd_crypto_ensure_profile_slots: flow_table_init for this profile. *)
GetTable == /\ ~ready /\ ready' = TRUE
            /\ count' = Len(rows) /\ seq' = 0
            /\ UNCHANGED <<pool, table, gc, last, flowReloads, flowHistory>>

------------------------------------------------------------------------------
(* flow_table_gc_slice: the clock is read once, before the locks. *)
GcStart(S) == /\ ready /\ gc.todo = {} /\ S # {}
              /\ gc' = [todo |-> S, lag |-> 0]
              /\ UNCHANGED <<pool, header, table, seq, last, flowReloads, flowHistory>>

(* now - last_seen, unsigned: a flow seen after the clock was read wraps. *)
IdleAtStart(f) == age[f] - gc.lag >= Timeout   \* mutant: the last second does not count
Idle(f) == age[f] < gc.lag \/ age[f] - gc.lag > Timeout

GcVisit(f) == /\ f \in gc.todo
              /\ gc' = [gc EXCEPT !.todo = @ \ {f}, !.lag = IF gc.todo = {f} THEN 0 ELSE @]
              /\ IF entry[f] # NoEntry /\ Idle(f)
                 THEN /\ entry' = [entry EXCEPT ![f] = NoEntry]
                      /\ age' = [age EXCEPT ![f] = 0]
                      /\ sent' = [sent EXCEPT ![f] = 0]
                      /\ moved' = [moved EXCEPT ![f] = FALSE]
                 ELSE UNCHANGED <<table, flowHistory>>
              /\ UNCHANGED <<pool, header, seq, last, flowReloads>>

------------------------------------------------------------------------------
(* A reload (forwarder_reload.c, crypto_finish_reload): fwd->cfg, the blend  *)
(* and the drains; ft->wan_count stays.  hot: the interfaces are the same;   *)
(* drain: fwd_wan_configure_removal_drains; else fwd_wan_reset_on_init.      *)
ModeOf(c) ==
  IF Served(c) = Served(rows) /\ Len(c) = Len(rows) THEN "hot"
  ELSE IF Served(c) # {} /\ Served(c) \subseteq Served(rows) /\ Served(c) # Served(rows)
          /\ Len(c) > Len(rows) THEN "drain" ELSE "interfaces"

WeightsOf(c) == [i \in DOMAIN c |-> c[i].weight]
Leaving(c) == {i \in DOMAIN rows : rows[i].dataplane /\ rows[i].name \notin Served(c)}
Reindexed(c, e) == e # NoEntry /\ ( \/ e.wan \notin DOMAIN c \/ e.wan \notin DOMAIN rows
                                    \/ c[e.wan].name # rows[e.wan].name )

Reload(c) ==
  /\ flowReloads < MaxFlowReloads
  /\ rows' = c /\ flowReloads' = flowReloads + 1
  /\ blend' = IF Len(c) = Len(rows) /\ WeightsOf(c) # WeightsOf(rows)
              THEN [old |-> WeightsOf(rows), left |-> BlendTicks] ELSE [old |-> <<>>, left |-> 0]
  /\ drains' = CASE ModeOf(c) = "hot" -> drains
                 [] ModeOf(c) = "drain" -> {d \in drains : d.wan \notin Leaving(c)} \cup
                      {[wan |-> i, seed |-> rows[i].weight, left |-> BlendTicks] : i \in Leaving(c)}
                 [] OTHER -> {}
  /\ moved' = [f \in Flows |-> moved[f] \/ Reindexed(c, entry[f])]
  /\ sent' = [f \in Flows |-> IF Reindexed(c, entry[f]) THEN 0 ELSE sent[f]]
  /\ UNCHANGED <<header, table, seq, gc, last>>

(* A second passes. *)
Older(n) == IF n < Oldest THEN n + 1 ELSE n
Sooner(n) == IF n > 0 THEN n - 1 ELSE n
Tick == /\ gc.todo # {} => gc.lag < MaxLag
        /\ age' = [f \in Flows |-> IF entry[f] = NoEntry THEN 0 ELSE Older(age[f])]
        /\ gc' = [gc EXCEPT !.lag = IF gc.todo = {} THEN 0 ELSE @ + 1]
        /\ blend' = [blend EXCEPT !.left = Sooner(@), !.old = IF blend.left <= 1 THEN <<>> ELSE @]
        /\ drains' = {[d EXCEPT !.left = @ - 1] : d \in {e \in drains : e.left > 1}}
        /\ UNCHANGED <<rows, header, entry, seq, last, flowReloads, flowHistory>>

FlowNext == \/ \E f \in Flows, s \in Sizes : Seen(f, s) \/ NewFlow(f, s)
            \/ \E f \in Flows : NoMemory(f) \/ OnlyWan(f) \/ GcVisit(f)
            \/ NoTable \/ OtherDraws \/ OtherTable \/ GetTable \/ Tick
            \/ \E S \in SUBSET Flows : GcStart(S)
            \/ \E c \in Configs \ {rows} : Reload(c)

FlowSpec == FlowInit /\ [][FlowNext]_flowVars

------------------------------------------------------------------------------
(* Every variable has its type. *)
FlowTypeOK ==
  /\ rows \in Configs /\ ready \in BOOLEAN /\ count \in 1..MaxRows
  /\ blend \in [old : Seq(Weights), left : 0..BlendTicks]
  /\ drains \subseteq [wan : 1..MaxRows, seed : Weights, left : 1..BlendTicks]
  /\ entry \in [Flows -> [wan : 0..MaxRows, bytes : 0..Word-1]] /\ age \in [Flows -> 0..Oldest]
  /\ seq \in 0..MaxSeq
  /\ gc \in [todo : SUBSET Flows, lag : 0..MaxLag]
  /\ last \in [flow : BOOLEAN, offered : SUBSET (1..MaxRows), wan : 0..MaxRows]
  /\ flowReloads \in 0..MaxFlowReloads
  /\ sent \in [Flows -> 0..Word] /\ moved \in [Flows -> BOOLEAN]

(* Every packet gets a WAN its profile offers at that moment, with a table   *)
(* or without, through rotations, reloads that take the flow's WAN away or   *)
(* renumber it, and collected flows; not when memory for a new flow is       *)
(* refused.                                                                  *)
PickIsOffered == last.flow => last.wan \in last.offered

(* A flow leaves a WAN that is still offered only after its share of bytes,  *)
(* and does not stay beyond it.  Excluded: a WAN that became another by a    *)
(* reload on the way, and a row the table has no limit for, because it has   *)
(* more rows than the configuration the table was set up with.               *)
StaysAreShares ==
  [][\A f \in Flows : entry[f] # NoEntry /\ entry'[f] # NoEntry /\ ~moved[f] /\ rows' = rows =>
       /\ entry[f].wan \in Offered(Pool) /\ entry'[f].wan # entry[f].wan =>
            \E s \in Sizes : sent[f] + s >= Limit(Pool, entry[f].wan)
       /\ sent'[f] # sent[f] /\ entry'[f].wan <= count =>
            sent'[f] < Limit(Pool, entry'[f].wan)]_flowVars

(* A flow seen within FLOW_TIMEOUT_SEC is not collected; except one seen      *)
(* since the slice read the clock, which its unsigned age makes very old.    *)
FreshFlowKept ==
  [][\A f \in Flows : entry[f] # NoEntry /\ entry'[f] = NoEntry =>
       age[f] > Timeout \/ age[f] < gc.lag]_flowVars
==============================================================================
