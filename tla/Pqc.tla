-------------------------------- MODULE Pqc ---------------------------------
(***************************************************************************)
(* The exchange of the traffic key of one policy between the two gateways  *)
(* (src/src/crypto/pqc_handshake.c, pqc_l2_handshake.c).  In each process  *)
(* a dispatcher thread feeds the messages of the policy into a ring, and a *)
(* worker thread, started once, finds out its role, offers a public key    *)
(* (HELLO) every three seconds or answers the first offer (RESP), stores   *)
(* the key and ends.  Over layer 3 messages are UDP datagrams; in bridge   *)
(* mode the worker first discovers the MAC address of the peer, and a      *)
(* message travels as fragments that the dispatcher puts together.         *)
(*                                                                         *)
(* Nobody else can sign, so a message whose signature verifies is one the  *)
(* other gateway sent.  A fresh public key is named by the process that    *)
(* made it, and so is a fresh secret: a worker makes at most one of each.  *)
(***************************************************************************)
EXTENDS Naturals, Sequences

CONSTANTS
  Higher, Lower, \* the gateways, by the order of their addresses
  Nobody,        \* no gateway: no MAC address learnt
  Tap,           \* raw sockets see what other sockets of the host send, as on Linux
  Modes,         \* {"dynamic", "initiator", "responder"}, or fewer to check
  MaxRestarts,   \* bound: restarts of the two gateways together
  QueueSize      \* bound: messages in the ring of a policy (15 in the code)

ASSUME GatewaysAssumption == Higher # Lower /\ Nobody \notin {Higher, Lower}
ASSUME BoundsAssumption == /\ MaxRestarts \in Nat /\ QueueSize \in Nat \ {0}
                           /\ Tap \in BOOLEAN
                           /\ Modes \subseteq {"dynamic", "initiator", "responder"}

Peers == {Higher, Lower}
Other(p) == IF p = Higher THEN Lower ELSE Higher

(* The worker of the n-th process of gateway p names a KEM key pair or a secret. *)
Names == Peers \X (1..MaxRestarts + 1)

(* struct pqc_hs_msg. *)
Hello(name) == [type |-> "hello", by |-> name, to |-> name]
Resp(name, pk) == [type |-> "resp", by |-> name, to |-> pk]
Messages == [type : {"hello", "resp"}, by : Names, to : Names]
Letters == [msg : Messages, mac : Peers \cup {Nobody}]   \* an entry of a ring

(* ML-KEM never fails to decapsulate: a capsule for another key gives a       *)
(* secret that only this worker has.                                          *)
NoKey == [kind |-> "none", of |-> <<Nobody, 0>>]
Shared(name) == [kind |-> "shared", of |-> name]
Rejected(name) == [kind |-> "rejected", of |-> name]
Keys == {NoKey} \cup {Shared(n) : n \in Names} \cup {Rejected(n) : n \in Names}
Decapsulate(own, m) == IF m.to = own THEN Shared(m.by) ELSE Rejected(own)

VARIABLES
  bridge,    \* no peer address is configured: layer 2
  mode,      \* role_mode of the binding, on each gateway
  starts,    \* processes started so far on each gateway
  pc,        \* step of the worker
  initiator, \* its is_initiator
  peerMac,   \* whom it would send to, in bridge mode: peer.peer_mac
  learnt,    \* peer_mac of the dispatcher: source of the last probe
  probes,    \* sources of the probes on their way to a dispatcher
  acks,      \* sources of the acknowledgements in the raw socket of a worker
  wire,      \* messages on their way to a dispatcher, as datagrams or fragments
  ring,      \* rx_queue: messages, each with the MAC the dispatcher had learnt
  offer,     \* the offer the worker is answering
  key,       \* encrypt_key and decrypt_key; NoKey while key_ready is false
  spoiled    \* history: an answer was lost or misaddressed, a role not found
             \* out, a process restarted or a worker given up

setup == <<bridge, mode>>
worker == <<pc, initiator, peerMac, offer, key>>
rx == <<learnt, ring>>
net == <<probes, acks, wire>>
vars == <<bridge, mode, starts, pc, initiator, peerMac, learnt, probes, acks, wire,
          ring, offer, key, spoiled>>

Steps == {"off", "begin", "probe", "await", "hello", "wait", "listen", "answered", "done", "gone"}

SetupTypeOK == /\ bridge \in BOOLEAN /\ mode \in [Peers -> Modes]
               /\ starts \in [Peers -> 0..MaxRestarts + 1] /\ spoiled \in BOOLEAN
WorkerTypeOK == /\ pc \in [Peers -> Steps] /\ initiator \in [Peers -> BOOLEAN]
                /\ peerMac \in [Peers -> Peers \cup {Nobody}]
                /\ offer \in [Peers -> Names \cup {<<Nobody, 0>>}]
                /\ key \in [Peers -> Keys]
NetTypeOK == /\ probes \in [Peers -> SUBSET Peers] /\ acks \in [Peers -> SUBSET Peers]
             /\ wire \in [Peers -> SUBSET Messages]
RingTypeOK == /\ learnt \in [Peers -> Peers \cup {Nobody}]
              /\ ring \in [Peers -> Seq(Letters)]
              /\ \A p \in Peers : Len(ring[p]) <= QueueSize
TypeOK == SetupTypeOK /\ WorkerTypeOK /\ NetTypeOK /\ RingTypeOK

(* Nobody configures the same fixed role on both sides. *)
RoleModes == {m \in [Peers -> Modes] : m[Higher] = m[Lower] => m[Higher] = "dynamic"}

Init ==
  /\ bridge \in BOOLEAN /\ mode \in RoleModes
  /\ starts = [p \in Peers |-> 0]
  /\ pc = [p \in Peers |-> "off"]
  /\ initiator = [p \in Peers |-> FALSE]
  /\ peerMac = [p \in Peers |-> Nobody]
  /\ learnt = [p \in Peers |-> Nobody]
  /\ probes = [p \in Peers |-> {}] /\ acks = [p \in Peers |-> {}]
  /\ wire = [p \in Peers |-> {}]
  /\ ring = [p \in Peers |-> <<>>]
  /\ offer = [p \in Peers |-> <<Nobody, 0>>]
  /\ key = [p \in Peers |-> NoKey]
  /\ spoiled = FALSE

Me(p) == <<p, starts[p]>>
Up(p) == pc[p] # "off"
Goes(p, from, to) == pc[p] = from /\ pc' = [pc EXCEPT ![p] = to]

RestartsOf(p) == IF starts[p] = 0 THEN 0 ELSE starts[p] - 1

(* A worker that has ended never reads its ring again. *)
Reading(p) == pc[p] \notin {"off", "done", "gone"}

------------------------------------------------------------------------------
(* A process starts, or starts again: sig_pqc_bind_policy makes a binding      *)
(* without a key, sig_pqc_handshake_start its threads.  An offer or answer on   *)
(* its way to the previous process reaches the new one.                        *)
Start(p) ==
  /\ starts[p] = 0 \/ RestartsOf(Higher) + RestartsOf(Lower) < MaxRestarts
  /\ starts' = [starts EXCEPT ![p] = @ + 1]
  /\ pc' = [pc EXCEPT ![p] = "begin"]
  /\ initiator' = [initiator EXCEPT ![p] = FALSE]
  /\ peerMac' = [peerMac EXCEPT ![p] = Nobody]
  /\ learnt' = [learnt EXCEPT ![p] = Nobody]
  /\ probes' = [probes EXCEPT ![p] = {}] /\ acks' = [acks EXCEPT ![p] = {}]
  /\ ring' = [ring EXCEPT ![p] = <<>>]
  /\ offer' = [offer EXCEPT ![p] = <<Nobody, 0>>]
  /\ key' = [key EXCEPT ![p] = NoKey]
  /\ spoiled' = (spoiled \/ starts[p] > 0)
  /\ UNCHANGED <<setup, wire>>

(* The worker returns at once without identity keys or without a socket; the *)
(* binding says it was started, so it never is again.                        *)
GiveUp(p) == /\ Goes(p, "begin", "gone") /\ spoiled' = TRUE
             /\ UNCHANGED <<setup, starts, initiator, peerMac, offer, key, rx, net>>

Role(p, isInitiator) ==
  /\ initiator' = [initiator EXCEPT ![p] = isInitiator]
  /\ pc' = [pc EXCEPT ![p] = IF isInitiator THEN "hello" ELSE "listen"]

(* Layer 3: the gateway with the higher address initiates, or the role stays  *)
(* that of a responder when there is no route to the peer.                    *)
BeginRouted(p) ==
  /\ pc[p] = "begin" /\ ~bridge
  /\ \/ mode[p] # "dynamic" /\ Role(p, mode[p] = "initiator") /\ UNCHANGED spoiled
     \/ mode[p] = "dynamic" /\ Role(p, p = Higher) /\ UNCHANGED spoiled
     \/ mode[p] = "dynamic" /\ Role(p, FALSE) /\ spoiled' = TRUE
  /\ UNCHANGED <<setup, starts, peerMac, offer, key, rx, net>>

BeginBridge(p) ==
  /\ bridge
  /\ \/ /\ mode[p] # "responder" /\ Goes(p, "begin", "probe")
        /\ initiator' = [initiator EXCEPT ![p] = mode[p] = "initiator"]
     \/ /\ mode[p] = "responder" /\ pc[p] = "begin" /\ Role(p, FALSE)
  /\ UNCHANGED <<setup, starts, peerMac, offer, key, rx, net, spoiled>>

------------------------------------------------------------------------------
(* Discovery.  A broadcast probe reaches the dispatcher of the peer and, by    *)
(* the tap, that of the same host; so does an acknowledgement the raw sockets  *)
(* of the workers of both.                                                     *)
Hearers(p, q) == {r \in {q} \cup (IF Tap THEN {p} ELSE {}) : Up(r)}
Probing(p) == pc[p] \in {"probe", "await"}

Probe(p) ==
  /\ Goes(p, "probe", "await")
  /\ probes' = [r \in Peers |-> IF r \in Hearers(p, Other(p)) THEN probes[r] \cup {p} ELSE probes[r]]
  /\ UNCHANGED <<setup, starts, initiator, peerMac, offer, key, rx, acks, wire, spoiled>>

(* pqc_l2_recv_and_process: learn the source of a probe and acknowledge it. *)
HearProbe(p) ==
  /\ Up(p)
  /\ \E s \in probes[p] :
       /\ probes' = [probes EXCEPT ![p] = @ \ {s}]
       /\ learnt' = [learnt EXCEPT ![p] = s]
       /\ acks' = [r \in Peers |-> IF r \in Hearers(p, s) /\ Probing(r) THEN acks[r] \cup {p} ELSE acks[r]]
  /\ UNCHANGED <<setup, starts, worker, ring, wire, spoiled>>

(* The first acknowledgement of the socket, whoever sent it. *)
ResolvedByNotLower(p, s) ==   \* mutant: ">=" for ">" in the comparison of the addresses
  IF mode[p] = "dynamic" THEN p = Higher \/ s = p ELSE initiator[p]
ResolvedRole(p, s) == IF mode[p] = "dynamic" THEN p = Higher /\ s = Lower ELSE initiator[p]
HearAck(p) ==
  /\ pc[p] = "await"
  /\ \E s \in acks[p] :
       /\ peerMac' = [peerMac EXCEPT ![p] = s]
       /\ Role(p, ResolvedRole(p, s))
       /\ spoiled' = (spoiled \/ s = p)
  /\ acks' = [acks EXCEPT ![p] = {}]
  /\ UNCHANGED <<setup, starts, offer, key, rx, probes, wire>>

ProbeAgain(p) == /\ Goes(p, "await", "probe") /\ acks[p] = {}
                 /\ UNCHANGED <<setup, starts, initiator, peerMac, offer, key, rx, net, spoiled>>

------------------------------------------------------------------------------
(* Messages.  What the tap lets a dispatcher hear of its own host's messages   *)
(* is left out: the worker ignores them, their type is not the one it awaits.  *)
Target(p, mac) == IF bridge THEN mac ELSE Other(p)
Arrives(p, target) == target = Other(p) /\ Up(target)
Sent(p, m, target) ==
  IF Arrives(p, target) THEN [wire EXCEPT ![target] = @ \cup {m}] ELSE wire

Offer(p) ==
  /\ Goes(p, "hello", "wait")
  /\ wire' = Sent(p, Hello(Me(p)), Target(p, peerMac[p]))
  /\ UNCHANGED <<setup, starts, initiator, peerMac, offer, key, rx, probes, acks, spoiled>>

(* pqc_feed_packet_to_policy_l2: into the ring of the policy, unless it is full. *)
HasPlace(p) == Len(ring[p]) < QueueSize
Fed(p, m) ==
  IF Reading(p) /\ HasPlace(p)
  THEN [ring EXCEPT ![p] = Append(@, [msg |-> m, mac |-> learnt[p]])]
  ELSE ring

(* A whole message: in bridge mode, one all of whose fragments came in time.   *)
Hear(p) ==
  /\ Up(p)
  /\ \E m \in wire[p] :
       /\ wire' = [wire EXCEPT ![p] = @ \ {m}]
       /\ ring' = Fed(p, m)
       /\ spoiled' = (spoiled \/ (m.type = "resp" /\ ~HasPlace(p)))
  /\ UNCHANGED <<setup, starts, worker, learnt, probes, acks>>

(* The link loses an answer, a fragment of it comes two seconds after the      *)
(* first, or fragments of the answers of two policies are put together, as the *)
(* ids of all answers are equal, and the signature does not verify.  That      *)
(* anything else is lost need not be said: probes and offers are repeated      *)
(* until they arrive.                                                          *)
LoseAnswer(p) ==
  /\ \E m \in wire[p] : m.type = "resp" /\ wire' = [wire EXCEPT ![p] = @ \ {m}]
  /\ spoiled' = TRUE
  /\ UNCHANGED <<setup, starts, worker, rx, probes, acks>>

------------------------------------------------------------------------------
(* The worker takes the oldest message of its ring (pqc_policy_rx_recv). *)
Take(p) == ring[p] # <<>> /\ ring' = [ring EXCEPT ![p] = Tail(@)]

(* Signed by the other gateway, as the signature shows, and of the type awaited. *)
AcceptsAnyType(p, type) == Head(ring[p]).msg.by[1] = Other(p)   \* mutant: the type is not looked at
Accepts(p, type) == Head(ring[p]).msg.type = type /\ Head(ring[p]).msg.by[1] = Other(p)

(* The initiator takes any answer, decapsulates it and keeps the secret. *)
TakeAnswer(p) ==
  /\ pc[p] = "wait" /\ Take(p)
  /\ IF Accepts(p, "resp")
     THEN /\ key' = [key EXCEPT ![p] = Decapsulate(Me(p), Head(ring[p]).msg)]
          /\ pc' = [pc EXCEPT ![p] = "done"]
     ELSE UNCHANGED <<key, pc>>
  /\ UNCHANGED <<setup, starts, initiator, peerMac, offer, learnt, net, spoiled>>

(* Nothing for three seconds. *)
WaitForEver(p) == FALSE   \* mutant: one offer, and no time limit
OfferAgain(p) == /\ Goes(p, "wait", "hello") /\ ring[p] = <<>>
                 /\ UNCHANGED <<setup, starts, initiator, peerMac, offer, key, rx, net, spoiled>>

(* The responder encapsulates a secret for the first offer it sees and answers *)
(* it, once, to where the dispatcher saw the last probe come from.             *)
TakeOffer(p) ==
  /\ pc[p] = "listen" /\ Take(p)
  /\ IF Accepts(p, "hello")
     THEN LET m == Head(ring[p]).msg
              target == Target(p, Head(ring[p]).mac)
          IN  /\ pc' = [pc EXCEPT ![p] = "answered"]
              /\ offer' = [offer EXCEPT ![p] = m.by]
              /\ wire' = Sent(p, Resp(Me(p), m.by), target)
              /\ spoiled' = (spoiled \/ ~Arrives(p, target))
     ELSE UNCHANGED <<pc, offer, wire, spoiled>>
  /\ UNCHANGED <<setup, starts, initiator, peerMac, key, learnt, probes, acks>>

(* Only then does it store the key. *)
ReadyWithoutKey(p) ==   \* mutant: key_ready is set before the keys are copied
  /\ Goes(p, "answered", "done")
  /\ UNCHANGED <<setup, starts, initiator, peerMac, offer, key, rx, net, spoiled>>
StoreKey(p) ==
  /\ Goes(p, "answered", "done")
  /\ key' = [key EXCEPT ![p] = Shared(Me(p))]
  /\ UNCHANGED <<setup, starts, initiator, peerMac, offer, rx, net, spoiled>>

------------------------------------------------------------------------------
Discovery(p) == Probe(p) \/ HearProbe(p) \/ HearAck(p) \/ ProbeAgain(p)
Begin(p) == BeginRouted(p) \/ BeginBridge(p)
Exchange(p) == Offer(p) \/ TakeAnswer(p) \/ OfferAgain(p) \/ TakeOffer(p) \/ StoreKey(p)
Mishap(p) == Start(p) \/ GiveUp(p) \/ LoseAnswer(p)

Next == \E p \in Peers : \/ Discovery(p) \/ Begin(p) \/ Exchange(p)
                         \/ Hear(p) \/ Mishap(p)
Spec == Init /\ [][Next]_vars

(* Dispatchers and workers are threads that poll: each step they can take     *)
(* they take, and what arrives is read.                                       *)
Fairness == \A p \in Peers :
  /\ WF_vars(Begin(p)) /\ WF_vars(Discovery(p)) /\ WF_vars(HearProbe(p)) /\ WF_vars(Hear(p))
  /\ WF_vars(Exchange(p))
FairSpec == Spec /\ Fairness

------------------------------------------------------------------------------
(* Two processes that were never restarted and are both ready use one key,    *)
(* whatever their configured roles and whatever is lost or late.  The line    *)
(* "Handshake SUCCESS" promises it without the exception; after a restart an  *)
(* answer to the previous offer still verifies, and decapsulates to a secret  *)
(* nobody else has.                                                           *)
KeysAgree ==
  (\A p \in Peers : starts[p] = 1 /\ key[p] # NoKey) => key[Higher] = key[Lower]

Resolved == {"hello", "wait", "listen", "answered", "done"}

(* Gateways that find out their roles by themselves are never both initiators, *)
(* and both responders only if one has no route, or took the acknowledgement   *)
(* of its own dispatcher for the peer's.                                       *)
RolesComplement ==
  LET resolved == \A p \in Peers : mode[p] = "dynamic" /\ pc[p] \in Resolved
  IN  resolved => /\ ~(initiator[Higher] /\ initiator[Lower])
                  /\ initiator[Higher] \/ initiator[Lower] \/ spoiled

(* An initiator has a key only from an answer of the peer: if that is of the   *)
(* process now running, the peer stores the same secret, or is about to.       *)
KeyWasAnswered ==
  \A p \in Peers : LET q == Other(p) IN
    initiator[p] /\ key[p] = Shared(Me(q))
      => /\ pc[q] = "answered" \/ key[q] = key[p]
         /\ offer[q] = Me(p)

(* When an initiator offers to a responder that listens, both end up with the  *)
(* same key, unless an answer is lost on the way, because it is never repeated, *)
(* or a process restarts.                                                      *)
Offering(p) == pc[p] \in {"hello", "wait"} /\ Target(p, peerMac[p]) = Other(p)
Settled == \E p \in Peers : Offering(p) /\ pc[Other(p)] = "listen"
ExchangeCompletes ==
  Settled ~> (spoiled \/ (key[Higher] = key[Lower] /\ key[Higher] # NoKey))
=============================================================================
