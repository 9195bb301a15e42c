---------------------------- MODULE CryptoRuntime ----------------------------
(***************************************************************************)
(* The tables the workers encrypt and decrypt with                         *)
(* (src/src/core/forwarder_crypto_runtime.c), rebuilt in place by worker 0 *)
(* at each reload while the other workers use them without a lock; a copy  *)
(* of what they held before serves packets on their way for a short time.  *)
(*                                                                         *)
(* One other worker is modelled, with one packet at a time, from a LAN     *)
(* (dataplane_local.c, encrypt) or from a WAN (dataplane_wan.c, decrypt).  *)
(* Worker 0 and it interleave between the steps below; a packet whose      *)
(* context or policy is rewritten between two of its steps (torn) is       *)
(* treated in any of the ways the ciphers allow.  The end of a key         *)
(* exchange (module Pqc) makes the key of a PQC policy known.              *)
(***************************************************************************)
EXTENDS DbConfig, Wire

CONSTANTS
  Configs,         \* what build_merged_config makes of some databases
  Sizes,           \* packets from the LAN, see module Wire
  Flows,           \* flows of these packets
  Grace,           \* FWD_CRYPTO_PROFILE_RELOAD_GRACE_MS in ticks of the clock
  MaxReloads,      \* bound: reloads
  Mixed            \* a key read while it was written

(* The key that the exchange of a policy agrees on. *)
PqcKey(db) == <<"pqc", db>>

(* What ne_parse_method and parse_action_name let into a configuration, that *)
(* no key is stored for a PQC policy, and what the kernel hands over as an   *)
(* IPv4 packet.                                                             *)
ASSUME CryptoAssumption ==
  /\ \A c \in Configs :
       /\ DOMAIN c.policies = 1..Len(c.policies) /\ Len(c.policies) \in 0..MaxPolicies
       /\ \A i \in DOMAIN c.policies :
            LET cp == c.policies[i]
            IN /\ cp.action \in Layers \cup {"bypass"} /\ cp.method \in Methods
               /\ cp.method = "pqc" => cp.key = ZeroKey /\ PqcKey(cp.db) # ZeroKey
  /\ \A p \in Sizes : WellFormed(p)
  /\ Grace \in Nat \ {0}

VARIABLES
  cfg,       \* fwd->cfg
  tab,       \* active_policies, policy_crypto_ctx, policy_crypto_ready, the indexes
  prev,      \* prev_...: the copy made by the last reload
  grace,     \* prev_grace_active
  left,      \* ticks until prev_grace_until_ms
  rl,        \* the reload worker 0 is in
  exchanged, \* db ids of the PQC policies whose key exchange is over
  job,       \* the packet of the other worker
  reloads,   \* reloads so far
  failed,    \* history: the last reload failed
  cut        \* history: the running grace period was ended by an older one

vars == <<cfg, tab, prev, grace, left, rl, exchanged, job, reloads, failed, cut>>

Positions1 == 1..MaxPolicies
Encrypts(cp) == cp.action \in EncryptActions

(* struct packet_crypto_ctx; only contexts of PQC policies read their ids *)
NoCtx == [pqc |-> FALSE, key |-> ZeroKey, db |-> 0, profile |-> 0]
FreshCtx(cp) ==
  IF cp.method = "pqc" THEN [NoCtx EXCEPT !.pqc = TRUE, !.db = cp.db]
                       ELSE [NoCtx EXCEPT !.key = cp.key]

(* Tables: made from configuration of; the first indexed policies are in    *)
(* active_policies and the index; owners: policy_profile_id_by_action_id.    *)
Cleared(c, ctx) == [of |-> c, count |-> 0, indexed |-> 0, ready |-> {}, ctx |-> ctx,
                    owners |-> FALSE]
EmptyTables(c) == Cleared(c, [i \in Positions1 |-> NoCtx])

(* policy_index_by_action_id: the last policy of the layer with the id, or 0 *)
Index(t, layer, id) ==
  LET same == {i \in 1..t.indexed : t.of.policies[i].action = layer /\ t.of.policies[i].id = id}
  IN IF same = {} THEN 0 ELSE Max(same)

Ready(t, i) == i \in 1..t.count /\ i \in t.ready
ReadyThoughNot(t, i) == i \in 1..t.count          \* mutant: the flag is not looked at
Servable(t, i) == Ready(t, i)

------------------------------------------------------------------------------
(* fwd_crypto_rebuild *)
SameIdIsEnough(old, i, cp) == Ready(old, i) /\ old.of.policies[i].method = cp.method   \* mutant
Reusable(old, i, cp) == /\ Ready(old, i)
                        /\ old.of.policies[i].method = cp.method
                        /\ cp.method = "pqc" \/ old.of.policies[i].key = cp.key

(* One policy: its context is taken over, new, or missing for lack of a key. *)
Filled(t, old, i) ==
  LET cp == t.of.policies[i]
      o == Index(old, cp.action, cp.id)
  IN IF ~Encrypts(cp) THEN t
     ELSE IF Reusable(old, o, cp)
          THEN [t EXCEPT !.ctx[i] = old.ctx[o], !.ready = @ \cup {i}]
     ELSE IF cp.method = "pqc" \/ cp.key # ZeroKey
          THEN [t EXCEPT !.ctx[i] = FreshCtx(cp), !.ready = @ \cup {i}]
     ELSE t

(* The owners of the ids; PQC contexts learn whose they are. *)
Owned(t) ==
  [t EXCEPT !.owners = TRUE,
            !.ctx = [i \in Positions1 |->
                       IF i \in t.ready /\ t.of.policies[i].method = "pqc"
                       THEN [t.ctx[i] EXCEPT !.db = t.of.policies[i].db,
                                             !.profile = t.of.policies[i].profile]
                       ELSE t.ctx[i]]]

(* What forwarder_init has built before the workers start. *)
Built(c) ==
  LET n == Len(c.policies)
      full == [of |-> c, count |-> n, indexed |-> n, owners |-> FALSE,
               ready |-> {i \in 1..n : LET cp == c.policies[i] IN
                            Encrypts(cp) /\ (cp.method = "pqc" \/ cp.key # ZeroKey)},
               ctx |-> [i \in Positions1 |->
                          IF i \in 1..n /\ Encrypts(c.policies[i]) THEN FreshCtx(c.policies[i])
                          ELSE NoCtx]]
  IN Owned(full)

NoReload == [pc |-> "idle", old |-> EmptyTables(EmptyConfig)]
NoJob == [pc |-> "none"]

Init == /\ cfg \in Configs
        /\ tab = Built(cfg)
        /\ prev = EmptyTables(EmptyConfig)
        /\ grace = FALSE /\ left = 0
        /\ rl = NoReload
        /\ exchanged = {}
        /\ job = NoJob
        /\ reloads = 0
        /\ failed = FALSE /\ cut = FALSE

(* The other worker may have read half of what is written to these slots.   *)
Uses(which, slots) ==
  CASE job.pc = "picked" -> which = "now" /\ job.i \in slots
    [] job.pc = "looked" -> \E a \in Range(job.try) : a.which = which /\ a.i \in slots
    [] OTHER             -> FALSE
Torn(which, slots) == job' = IF Uses(which, slots) THEN [job EXCEPT !.torn = TRUE] ELSE job

------------------------------------------------------------------------------
(* A reload on worker 0 (forwarder_reload_config_impl and its siblings).    *)
Publish == /\ rl.pc = "idle" /\ reloads < MaxReloads
           /\ \E c \in Configs : cfg' = c
           /\ rl' = [rl EXCEPT !.pc = "published"]
           /\ reloads' = reloads + 1
           /\ job' = IF job.pc = "picked" THEN [job EXCEPT !.overlap = TRUE] ELSE job
           /\ UNCHANGED <<tab, prev, grace, left, exchanged, failed, cut>>

(* fwd_crypto_ensure_profile_slots finds no slot: the reload is given up    *)
(* with the new configuration published and the tables of the old one.      *)
NoSlot == /\ rl.pc = "published"
          /\ rl' = NoReload
          /\ failed' = TRUE
          /\ UNCHANGED <<cfg, tab, prev, grace, left, exchanged, job, reloads, cut>>

(* fwd_crypto_snapshot_active_to_prev *)
Snapshot == /\ rl.pc = "published"
            /\ prev' = tab
            /\ grace' = (tab.count > 0)
            /\ left' = Grace
            /\ cut' = FALSE
            /\ rl' = [rl EXCEPT !.pc = "copied"]
            /\ Torn("before", Positions1)
            /\ UNCHANGED <<cfg, tab, exchanged, reloads, failed>>

(* fwd_crypto_rebuild empties the tables; without policies it is over.      *)
Clear == /\ rl.pc = "copied"
         /\ tab' = Cleared(cfg, tab.ctx)
         /\ IF CryptoEnabled(cfg)
            THEN rl' = [pc |-> "cleared", old |-> tab] /\ UNCHANGED failed
            ELSE rl' = NoReload /\ failed' = FALSE
         /\ Torn("now", Positions1)
         /\ UNCHANGED <<cfg, prev, grace, left, exchanged, reloads, cut>>

(* base_crypto_ctx cannot be set up: the tables stay empty, no grace period. *)
NoBase == /\ rl.pc = "cleared"
          /\ rl' = NoReload
          /\ grace' = FALSE
          /\ failed' = TRUE
          /\ UNCHANGED <<cfg, tab, prev, left, exchanged, job, reloads, cut>>

Base == /\ rl.pc = "cleared"
        /\ tab' = [tab EXCEPT !.count = Len(cfg.policies)]
        /\ rl' = [rl EXCEPT !.pc = "index"]
        /\ UNCHANGED <<cfg, prev, grace, left, exchanged, job, reloads, failed, cut>>

IndexSlot == /\ rl.pc = "index" /\ tab.indexed < tab.count
             /\ tab' = [tab EXCEPT !.indexed = @ + 1]
             /\ rl' = [rl EXCEPT !.pc = "fill"]
             /\ UNCHANGED <<cfg, prev, grace, left, exchanged, job, reloads, failed, cut>>

FillSlot == /\ rl.pc = "fill"
            /\ tab' = Filled(tab, rl.old, tab.indexed)
            /\ rl' = [rl EXCEPT !.pc = "index"]
            /\ Torn("now", {tab.indexed})
            /\ UNCHANGED <<cfg, prev, grace, left, exchanged, reloads, failed, cut>>

Finish == /\ rl.pc = "index" /\ tab.indexed = tab.count
          /\ tab' = Owned(tab)
          /\ rl' = NoReload
          /\ failed' = FALSE
          /\ UNCHANGED <<cfg, prev, grace, left, exchanged, job, reloads, cut>>

(* fwd_crypto_maybe_expire_prev_grace, on worker 0 between two reloads *)
NeverOver(g, l) == FALSE                          \* mutant
Over(g, l) == g /\ l = 0
Expire == /\ rl.pc = "idle" /\ Over(grace, left)
          /\ grace' = FALSE
          /\ UNCHANGED <<cfg, tab, prev, left, rl, exchanged, job, reloads, failed, cut>>

(* A rebuild takes milliseconds, the grace period seconds: the clock stands  *)
(* still meanwhile.                                                         *)
Tick == /\ left > 0 /\ rl.pc = "idle"
        /\ left' = left - 1
        /\ UNCHANGED <<cfg, tab, prev, grace, rl, exchanged, job, reloads, failed, cut>>

(* The exchange of a policy ends; forwarder_pre_diversify_pqc_keys stores   *)
(* the keys of its profile in the contexts that are ready.                  *)
PqcPolicies(c) == {p \in Range(c.policies) : Encrypts(p) /\ p.method = "pqc" /\ p.id # 0}
Refreshed(t, profile, known) ==
  [t EXCEPT !.ctx = [i \in Positions1 |->
     LET x == t.ctx[i] IN
     IF Ready(t, i) /\ x.pqc /\ x.profile = profile /\ x.db \in known
     THEN [x EXCEPT !.key = PqcKey(x.db)] ELSE x]]

Exchange(p) == /\ p.db \notin exchanged
               /\ exchanged' = exchanged \cup {p.db}
               /\ tab' = Refreshed(tab, p.profile, exchanged')
               /\ Torn("now", {i \in Positions1 : tab'.ctx[i] # tab.ctx[i]})
               /\ UNCHANGED <<cfg, prev, grace, left, rl, reloads, failed, cut>>

------------------------------------------------------------------------------
(* A packet from a LAN (dataplane_process_local): its policy is chosen in   *)
(* the published configuration, its context by the position of the policy.  *)
Pick(lan, f) ==
  LET i == PickPolicy(cfg, lan, f) IN
  /\ job.pc = "none"
  /\ i \in DOMAIN cfg.policies /\ Encrypts(cfg.policies[i]) /\ i \in tab.ready
  /\ LET cp == cfg.policies[i] IN
     tab' = IF tab.ctx[i].pqc
            THEN [tab EXCEPT !.ctx[i] = [@ EXCEPT !.profile = cp.profile,
                                                  !.db = IF cp.method = "pqc" THEN cp.db ELSE cp.id]]
            ELSE tab
  /\ job' = [pc |-> "picked", of |-> cfg, i |-> i, overlap |-> failed \/ rl.pc # "idle", torn |-> FALSE]
  /\ UNCHANGED <<cfg, prev, grace, left, rl, exchanged, reloads, failed, cut>>

(* packet_crypto_update_keys: an empty PQC context asks for the key of its policy. *)
Updated(x) == IF x.pqc /\ x.key = ZeroKey /\ x.db \in exchanged
              THEN [x EXCEPT !.key = PqcKey(x.db)] ELSE x

(* encrypt_to_wan: AES packets that are not cut do not ask.                 *)
Encrypt(p) ==
  /\ job.pc = "picked"
  /\ LET cp == job.of.policies[job.i]
         x == IF cp.method = "pqc" \/ NeedsSplit(cp.action, cp.method, p)
              THEN Updated(tab.ctx[job.i]) ELSE tab.ctx[job.i]
     IN /\ tab' = [tab EXCEPT !.ctx[job.i] = x]
        /\ \E k \in {x.key} \cup (IF job.torn THEN {Mixed} ELSE {}) :
             job' = [pc |-> "sent", of |-> job.of, i |-> job.i, overlap |-> job.overlap,
                     key |-> k, packet |-> p, frames |-> Frames(cp.action, cp.method, p)]
  /\ UNCHANGED <<cfg, prev, grace, left, rl, exchanged, reloads, failed, cut>>

------------------------------------------------------------------------------
(* A frame from a WAN: what a gateway with configuration c sends.  L2 takes  *)
(* packets of every protocol and TTL.                                       *)
PeerFrames(c) ==
  {[layer |-> p.action, id |-> p.id, method |-> p.method, half |-> h, ports |-> TRUE,
    accepted |-> a \/ h \/ p.action # "L2",
    key |-> IF p.method = "pqc" THEN PqcKey(p.db) ELSE p.key] :
     p \in {q \in Range(c.policies) : Encrypts(q) /\ (q.method = "pqc" \/ q.key # ZeroKey)},
     h \in BOOLEAN, a \in BOOLEAN}

(* crypto_l3_extract_policy_id and its siblings: a policy of the published   *)
(* configuration has the id.                                                *)
PolicyHasId(fr) == \E p \in Range(cfg.policies) : p.action = fr.layer /\ p.id = fr.id

(* wan_has_crypto: a whole L2 frame is known by the index, everything else   *)
(* by its id; what is not known is not decrypted.                           *)
Recognised(fr) ==
  /\ CryptoEnabled(cfg)
  /\ IF fr.layer = "L2" /\ ~fr.half THEN Index(tab, "L2", fr.id) # 0 ELSE PolicyHasId(fr)

Receive(fr) == /\ job.pc = "none" /\ Recognised(fr)
               /\ job' = [pc |-> "known", fr |-> fr]
               /\ UNCHANGED <<cfg, tab, prev, grace, left, rl, exchanged, reloads, failed, cut>>

(* fwd_crypto_maybe_expire_prev_grace on this worker: test, then store.      *)
NoticeExpiry == /\ job.pc = "known" /\ Over(grace, left)
                /\ job' = [job EXCEPT !.pc = "expiring"]
                /\ UNCHANGED <<cfg, tab, prev, grace, left, rl, exchanged, reloads, failed, cut>>

StoreExpiry == /\ job.pc = "expiring"
               /\ grace' = FALSE
               /\ cut' = (cut \/ left > 0)
               /\ job' = [job EXCEPT !.pc = "known"]
               /\ UNCHANGED <<cfg, tab, prev, left, rl, exchanged, reloads, failed>>

(* Where to look for the context: L2 and all halves                          *)
(* (fwd_crypto_ctx_for_policy_action_id) take the current one or else the    *)
(* previous one; whole L3 and L4 packets (crypto_decrypt_packet_auto_by_     *)
(* action) try both in turn.  A half also needs the tables of its profile.   *)
Attempt(which, t, fr) ==
  LET i == Index(t, fr.layer, fr.id) IN
  IF Servable(t, i) THEN <<[which |-> which, i |-> i, method |-> t.of.policies[i].method]>>
  ELSE <<>>

(* fwd_crypto_profile_id_for_policy_action_id *)
HasOwner(t, fr) == t.owners /\ Index(t, fr.layer, fr.id) # 0
ProfileKnown(fr) == HasOwner(tab, fr) \/ (grace /\ HasOwner(prev, fr))

Attempts(fr) ==
  LET now == Attempt("now", tab, fr)
      before == IF grace THEN Attempt("before", prev, fr) ELSE <<>>
  IN IF fr.half /\ ~ProfileKnown(fr) THEN <<>>
     ELSE IF fr.half \/ fr.layer = "L2" THEN (IF now # <<>> THEN now ELSE before)
     ELSE now \o before

(* Configuration c has nothing else than its policy under the id of a frame. *)
Serves(c, fr) ==
  LET named == {p \in Range(c.policies) : p.action = fr.layer /\ p.id = fr.id}
  IN named # {} /\ \A p \in named : p.method = fr.method /\ p.key = fr.key

Look == /\ job.pc = "known" /\ ~Over(grace, left)
        /\ job' = [pc |-> "looked", fr |-> job.fr, try |-> Attempts(job.fr), torn |-> FALSE,
                   steady |-> /\ ~failed /\ ~cut /\ Serves(tab.of, job.fr)
                              /\ rl.pc \in {"cleared", "index", "fill"} => Serves(prev.of, job.fr),
                   from |-> {tab.of} \cup (IF left > 0 THEN {prev.of} ELSE {})]
        /\ UNCHANGED <<cfg, tab, prev, grace, left, rl, exchanged, reloads, failed, cut>>

(* A context without a key asks for it, the previous ones too. *)
KeyAt(a) == IF a.which = "now" THEN Updated(tab.ctx[a.i]).key ELSE Updated(prev.ctx[a.i]).key

(* A failed attempt leaves the packet spoiled: at L3 the next one does not   *)
(* touch it any more, at L4 only CTR still yields something.                 *)
Results(fr, try) ==
  IF try = <<>> THEN {"failed"}
  ELSE LET first == Decryptions(fr, try[1].method, KeyAt(try[1]))
       IN first \cup (IF Len(try) = 2 /\ "failed" \in first /\ fr.layer = "L4"
                         /\ try[2].method = "ctr" THEN {"garbage"} ELSE {})

Decrypt ==
  /\ job.pc = "looked"
  /\ tab' = IF job.try # <<>> /\ job.try[1].which = "now" /\ job.try[1].method = "pqc"
            THEN [tab EXCEPT !.ctx[job.try[1].i] = Updated(@)] ELSE tab
  /\ \E r \in (IF job.torn THEN Outcomes ELSE Results(job.fr, job.try)) :
       job' = [pc |-> "done", fr |-> job.fr, steady |-> job.steady, torn |-> job.torn,
               from |-> job.from, result |-> r]
  /\ UNCHANGED <<cfg, prev, grace, left, rl, exchanged, reloads, failed, cut>>

Rest == /\ job.pc \in {"sent", "done"}
        /\ job' = NoJob
        /\ UNCHANGED <<cfg, tab, prev, grace, left, rl, exchanged, reloads, failed, cut>>

------------------------------------------------------------------------------
Rebuild == Snapshot \/ NoSlot \/ Clear \/ NoBase \/ Base \/ IndexSlot \/ FillSlot \/ Finish
Next == \/ Publish \/ Rebuild \/ Expire \/ Tick
        \/ \E p \in PqcPolicies(cfg) \cup PqcPolicies(tab.of) : Exchange(p)
        \/ \E lan \in DOMAIN cfg.locals, f \in Flows : Pick(lan, f)
        \/ \E p \in Sizes : Encrypt(p)
        \/ \E c \in {cfg, tab.of, prev.of} : \E fr \in PeerFrames(c) : Receive(fr)
        \/ NoticeExpiry \/ StoreExpiry \/ Look \/ Decrypt \/ Rest

Spec == Init /\ [][Next]_vars

------------------------------------------------------------------------------
(* The tables never name a policy beyond those of their configuration, and  *)
(* only filled slots are ready.                                             *)
TypeOK == /\ cfg \in Configs
          /\ \A t \in {tab, prev} : /\ t.indexed <= t.count
                                    /\ t.count <= Len(t.of.policies)
                                    /\ t.ready \subseteq 1..t.indexed
          /\ left \in 0..Grace

(* A packet encrypted while no reload was under way is encrypted with the   *)
(* key of its policy: contexts taken over from the tables before are those  *)
(* of the same key, whatever moved (fwd_crypto_rebuild, 248-265).           *)
SentUnderItsPolicy ==
  job.pc = "sent" /\ ~job.overlap /\ job.of.policies[job.i].method # "pqc" =>
    job.key = job.of.policies[job.i].key

(* A packet under a policy that the tables have and, while they are rebuilt, *)
(* had before, with the same key and method, is decrypted at every moment of *)
(* a reload, as long as nothing it has read is rewritten under its hands.    *)
(* Left out: what L2 with CTR refuses under every key, a TTL of 0 and the     *)
(* protocols verify_ipv4_after_decrypt does not know.                        *)
Served ==
  job.pc = "done" /\ job.steady /\ ~job.torn /\ ~Refused(job.fr) => job.result = "original"

(* What is decrypted was encrypted under a policy of the tables or, within   *)
(* the grace period, of those before: a key that left is not accepted for    *)
(* ever.                                                                     *)
KeysInForce ==
  job.pc = "done" /\ job.result = "original" /\ ~job.torn /\ job.fr.method # "pqc" =>
    \E c \in job.from : \E p \in Range(c.policies) :
      p.action = job.fr.layer /\ p.id = job.fr.id /\ p.method = job.fr.method /\ p.key = job.fr.key

(* Within a profile the id on the wire stands for one AES key, however rows  *)
(* share keys or claim ids (ne_wire_id_for_encrypt_key).                     *)
IdsNameKeys ==
  \A p, q \in Range(cfg.policies) :
    /\ p.profile = q.profile /\ p.id = q.id
    /\ Encrypts(p) /\ Encrypts(q) /\ p.id # 0
    => p.key = q.key /\ (p.method = "pqc" <=> q.method = "pqc")

(* Whatever its size, layer and method, the frames of a packet fit the WAN:  *)
(* encryption never makes one longer than an Ethernet frame.                 *)
FramesFit ==
  job.pc = "sent" => \A i \in DOMAIN job.frames : job.frames[i].len \in 1..Longest

(* The receiver gets back a packet of the length that was sent, with an IP   *)
(* header that says so, whether it was cut or not.  Left out: packets with   *)
(* padding at L4, which counts it as data, second halves so short that L2    *)
(* refuses them or the NIC fills them up, and whole packets at L2 with CTR    *)
(* whose TTL or protocol its receiver does not accept.                       *)
Restorable(cp, p, frames) ==
  /\ cp.action = "L4" => ~Padded(p)
  /\ cp.action = "L2" /\ cp.method = "ctr" /\ Len(frames) = 1 => p.accepted
  /\ Len(frames) = 2 => /\ frames[2].len >= Shortest
                        /\ cp.action = "L2" => Half2(cp.action, cp.method, p) >= 20
Restored ==
  job.pc = "sent" /\ job.frames # <<>> =>
    LET cp == job.of.policies[job.i] IN
    Restorable(cp, job.packet, job.frames) =>
      Received(cp.action, cp.method, job.packet, job.frames) =
        [len |-> job.packet.len, total |-> job.packet.total]
==============================================================================
