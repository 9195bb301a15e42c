------------------------------ MODULE DbConfig -------------------------------
(***************************************************************************)
(* From the rows in PostgreSQL to a configuration (src/src/db/db_config.c, *)
(* db_runtime.c, config.c): config_load_from_db reads one profile and      *)
(* gives its policies the ids that travel in encrypted frames,             *)
(* build_merged_config puts the active profiles together, config_validate  *)
(* refuses what cannot be served, and pick_profile_policy finds the policy *)
(* of a packet.                                                            *)
(*                                                                         *)
(* A database maps a profile id to its rows:                               *)
(*   lans      sequence of [ifname, subnet]                                *)
(*   wans      sequence of [ifname, peer, weight]; peer is dst_ip, or None *)
(*   policies  set of rows of ne_policies with what pqc_identities says    *)
(* Interfaces, subnets, keys and flows are values; a match list of a row   *)
(* is a sequence of sets of flows, one for each of its combinations.       *)
(***************************************************************************)
EXTENDS Integers, Sequences, FiniteSets, SequencesExt

CONSTANTS
  MaxWireId,       \* 255: an id is one byte, 0 is that of bypass policies
  MaxPolicies, MaxInterfaces, MaxProfiles,   \* MAX_CRYPTO_POLICIES ...
  ZeroKey,         \* no key stored
  None

ASSUME DbConfigAssumption ==
  {MaxWireId, MaxPolicies, MaxInterfaces, MaxProfiles} \subseteq Nat \ {0}

EncryptActions == {"L2", "L3", "L4"}
Failed == [ok |-> FALSE]

Positions(s, Test(_)) == {i \in DOMAIN s : Test(s[i])}
Distinct(s) == \A i, j \in DOMAIN s : s[i] = s[j] => i = j

------------------------------------------------------------------------------
(* Ids on the wire.  A policy gets its row's id when that fits and is free, *)
(* or the first free one; policies of a profile with the same key share it. *)
AllocFirstFit(db, used) ==                \* mutant: the ids given out are not marked
  IF db \in 1..MaxWireId THEN db ELSE 1
AllocWireId(db, used) ==
  LET free == (1..MaxWireId) \ used IN
  IF db \in free THEN db ELSE IF free = {} THEN -1 ELSE Min(free)

(* load is what load_profiles_and_policies has so far: policies, used ids,  *)
(* and the id of each key met (ne_wire_id_for_encrypt_key).                 *)
IdForKey(load, row) ==
  LET known == {k \in load.keys : k.key = row.key} IN
  IF known # {} THEN (CHOOSE k \in known : TRUE).id ELSE AllocWireId(row.db, load.used)

(* A PQC row without a known identity or a WAN with an address keeps id 0. *)
WireId(load, row, handshake) ==
  CASE row.action = "bypass"                                -> 0
    [] row.action # "bypass" /\ row.method = "pqc"          ->
         IF row.identity /\ handshake THEN AllocWireId(row.db, load.used) ELSE 0
    [] row.action # "bypass" /\ row.method # "pqc"          -> IdForKey(load, row)

PolicyOf(row, id, profile, match) ==
  [db |-> row.db, id |-> id, prio |-> row.prio, action |-> row.action,
   method |-> IF row.action = "bypass" THEN "gcm" ELSE row.method,
   key |-> IF row.action = "bypass" \/ row.method = "pqc" THEN ZeroKey ELSE row.key,
   match |-> match, profile |-> profile]

(* One row: a policy for every combination of its match lists, or a refusal. *)
LoadRow(load, row, profile, handshake) ==
  LET id == WireId(load, row, handshake)
      new == [i \in DOMAIN row.match |-> PolicyOf(row, id, profile, row.match[i])]
  IN CASE ~load.ok -> load
       [] load.ok /\ (\/ id = -1 \/ row.match = <<>>
                      \/ \E p \in Range(load.policies) : row.db > 0 /\ p.db = row.db
                      \/ Len(load.policies) + Len(new) > MaxPolicies) -> [load EXCEPT !.ok = FALSE]
       [] OTHER -> [ok |-> TRUE, policies |-> load.policies \o new,
                    used |-> load.used \cup {id},
                    keys |-> IF row.action = "bypass" \/ row.method = "pqc" THEN load.keys
                             ELSE load.keys \cup {[key |-> row.key, id |-> id]}]

(* ORDER BY priority ASC, id ASC *)
Precedes(a, b) == a.prio < b.prio \/ (a.prio = b.prio /\ a.db < b.db)
InOrder(rows) == CHOOSE s \in [1..Cardinality(rows) -> rows] :
                   \A i, j \in DOMAIN s : i < j => Precedes(s[i], s[j])

LoadPolicies(rows, profile, handshake) ==
  LET s == InOrder(rows)
      loaded[n \in 0..Len(s)] ==
        IF n = 0 THEN [ok |-> TRUE, policies |-> <<>>, used |-> {0}, keys |-> {}]
        ELSE LoadRow(loaded[n - 1], s[n], profile, handshake)
  IN loaded[Len(s)]

(* fetch_config_from_db: a profile needs a LAN and a WAN; each LAN and WAN row *)
(* refers to the first interface of that name.                                 *)
FirstNamed(s, name) == Min(Positions(s, LAMBDA r : r.ifname = name))
LoadProfile(db, id) ==
  IF id \notin DOMAIN db THEN Failed
  ELSE LET rows == db[id]
           load == LoadPolicies(rows.policies, id, \E w \in Range(rows.wans) : w.peer # None)
       IN IF \/ Len(rows.lans) \notin 1..MaxInterfaces
             \/ Len(rows.wans) \notin 1..MaxInterfaces \/ ~load.ok
          THEN Failed
          ELSE [ok |-> TRUE,
                locals |-> rows.lans,
                wans |-> [i \in DOMAIN rows.wans |->
                            [ifname |-> rows.wans[i].ifname, peer |-> rows.wans[i].peer,
                             dataplane |-> rows.wans[i].peer = None]],
                policies |-> load.policies,
                profiles |->
                  <<[id |-> id,
                     locals |-> [i \in DOMAIN rows.lans |-> FirstNamed(rows.lans, rows.lans[i].ifname)],
                     wans |-> [i \in DOMAIN rows.wans |-> FirstNamed(rows.wans, rows.wans[i].ifname)],
                     weights |-> [i \in DOMAIN rows.wans |->
                                    IF rows.wans[i].weight > 0 THEN rows.wans[i].weight ELSE 1],
                     policies |-> [i \in DOMAIN load.policies |-> i]]>>]

------------------------------------------------------------------------------
(* config_validate *)
OwnersOf(cfg, field, i) == {p.id : p \in {q \in Range(cfg.profiles) : i \in Range(q[field])}}

ValidProfiles(cfg) ==
  /\ \A p \in Range(cfg.profiles) : Distinct(p.locals) /\ Distinct(p.wans) /\ Distinct(p.policies)
  /\ \A i \in DOMAIN cfg.locals : Cardinality(OwnersOf(cfg, "locals", i)) <= 1
  /\ \A i \in DOMAIN cfg.wans : Cardinality(OwnersOf(cfg, "wans", i)) <= 1
  /\ \A a, b \in DOMAIN cfg.profiles : a < b =>
       \A i \in Range(cfg.profiles[a].policies), j \in Range(cfg.profiles[b].policies) :
         cfg.policies[i].db > 0 => cfg.policies[i].db # cfg.policies[j].db

Valid(cfg) == /\ \A i, j \in DOMAIN cfg.locals :
                   i # j => cfg.locals[i].subnet # cfg.locals[j].subnet
              /\ ValidProfiles(cfg)

ConfigLoadFromDb(db, id) ==
  LET cfg == LoadProfile(db, id) IN IF cfg.ok /\ Valid(cfg) THEN cfg ELSE Failed

------------------------------------------------------------------------------
(* merge_one_config: interfaces are shared by name, everything else is appended. *)
AppendUnique(s, rows) ==
  FoldLeft(LAMBDA acc, r : IF \E x \in Range(acc) : x.ifname = r.ifname THEN acc ELSE Append(acc, r),
           s, rows)

Rebased(indices, rows, merged) ==
  [i \in DOMAIN indices |-> FirstNamed(merged, rows[indices[i]].ifname)]

(* Every interface of the profile must exist and belong to nobody else. *)
InterfacesFree(dst, present, field, indices, names, id) ==
  \A i \in Range(indices) : names[i].ifname \in present /\ OwnersOf(dst, field, i) \subseteq {id}

MergeOne(dst, src, present) ==
  LET p == src.profiles[1]
      locals == AppendUnique(dst.locals, src.locals)
      wans == AppendUnique(dst.wans, src.wans)
      base == Len(dst.policies)
      own == [p EXCEPT !.locals = Rebased(p.locals, src.locals, locals),
                       !.wans = Rebased(p.wans, src.wans, wans),
                       !.policies = [i \in DOMAIN p.policies |-> base + p.policies[i]]]
  IN IF /\ dst.ok /\ src.ok
        /\ Len(locals) <= MaxInterfaces /\ Len(wans) <= MaxInterfaces
        /\ Len(dst.profiles) < MaxProfiles
        /\ InterfacesFree(dst, present, "locals", own.locals, locals, p.id)
        /\ InterfacesFree(dst, present, "wans", own.wans, wans, p.id)
        /\ \A x \in Range(src.policies), y \in Range(dst.policies) : x.db > 0 => x.db # y.db
        /\ base + Len(src.policies) <= MaxPolicies
     THEN [ok |-> TRUE, locals |-> locals, wans |-> wans,
           policies |-> dst.policies \o src.policies, profiles |-> Append(dst.profiles, own)]
     ELSE Failed

EmptyConfig == [ok |-> TRUE, locals |-> <<>>, wans |-> <<>>, policies |-> <<>>, profiles |-> <<>>]

BuildMergedConfig(db, ids, present) ==
  LET merged[n \in 0..Len(ids)] ==
        IF n = 0 THEN EmptyConfig
        ELSE IF merged[n - 1].ok
             THEN MergeOne(merged[n - 1], ConfigLoadFromDb(db, ids[n]), present)
             ELSE Failed
      cfg == merged[Len(ids)]
  IN IF cfg.ok /\ Valid(cfg) THEN cfg ELSE Failed

(* crypto_enabled of a merged configuration *)
CryptoEnabled(cfg) == cfg.policies # <<>>

------------------------------------------------------------------------------
(* The policy of a packet.  A policy matches a flow in either direction. *)
Backward(f) == [f EXCEPT !.src = f.dst, !.dst = f.src]
MatchesFlow(cp, f) == f \in cp.match \/ Backward(f) \in cp.match

(* crypto_policy_consider: the first of the smallest priority, then id. *)
Better(a, b) == a.prio < b.prio \/ (a.prio = b.prio /\ a.id < b.id)
Best(cfg, S) == CHOOSE i \in S : \A j \in S :
                  \/ Better(cfg.policies[i], cfg.policies[j])
                  \/ (~Better(cfg.policies[j], cfg.policies[i]) /\ i <= j)

(* config_select_crypto_policy: 0 if none matches *)
SelectCryptoPolicy(cfg, pi, f) ==
  LET matching == {i \in Range(cfg.profiles[pi].policies) : MatchesFlow(cfg.policies[i], f)}
      encrypting == {i \in matching : cfg.policies[i].action # "bypass"}
  IN IF encrypting # {} THEN Best(cfg, encrypting)
     ELSE IF matching # {} THEN Best(cfg, matching) ELSE 0

(* pick_profile_policy: the best over the profiles that have the LAN, 0 if none *)
PickPolicy(cfg, lan, f) ==
  LET candidates == {SelectCryptoPolicy(cfg, pi, f) :
                       pi \in {q \in DOMAIN cfg.profiles : lan \in Range(cfg.profiles[q].locals)}} \ {0}
  IN IF candidates = {} THEN 0 ELSE Best(cfg, candidates)
==============================================================================
