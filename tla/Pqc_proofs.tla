----------------------------- MODULE Pqc_proofs ------------------------------
(***************************************************************************)
(* Proofs about the key exchange, for any bounds on restarts and on the    *)
(* ring, with or without the tap.                                          *)
(***************************************************************************)
EXTENDS Pqc, SequenceTheorems, TLAPS

(* The inductive invariant of the proofs.  Every message on its way was sent   *)
(* by the other gateway; if by the process now running there, that process is  *)
(* past the step which sends it.                                               *)
Initiates(p, n) == n = starts[p] => initiator[p] /\ pc[p] \in {"hello", "wait", "done"}
Answered(p, n, pk) ==
  n = starts[p] => ~initiator[p] /\ pc[p] \in {"answered", "done"} /\ offer[p] = pk
SentBy(p, m) ==
  /\ m.by[1] = p /\ m.by[2] \in 1..starts[p]
  /\ m.type = "hello" => Initiates(p, m.by[2])
  /\ (m.type = "resp") => /\ m.to[1] = Other(p) /\ m.to[2] \in 1..starts[Other(p)]
                          /\ Answered(p, m.by[2], m.to)
MailIsSent == \A p \in Peers : /\ \A m \in wire[p] : SentBy(Other(p), m)
                               /\ \A i \in 1..Len(ring[p]) : SentBy(Other(p), ring[p][i].msg)

(* A key is stored at the last step: a responder's is its own secret, for an   *)
(* offer of the peer; an initiator's that of an answer of the peer, or, if the *)
(* answer was to an earlier offer, one nobody else has.                        *)
WorkerSteps == \A p \in Peers :
  /\ pc[p] # "off" => starts[p] \in Nat \ {0}
  /\ pc[p] \in {"hello", "wait"} => initiator[p]
  /\ pc[p] \in {"listen", "answered"} => ~initiator[p]
  /\ key[p] # NoKey <=> pc[p] = "done"
Explained(p) ==
  LET q == Other(p) IN
  /\ pc[p] \in {"answered", "done"} /\ ~initiator[p] =>
       /\ offer[p] \in Names /\ offer[p][1] = q /\ offer[p][2] \in 1..starts[q]
       /\ Initiates(q, offer[p][2])
  /\ pc[p] = "done" /\ ~initiator[p] => key[p] = Shared(Me(p))
  /\ pc[p] = "done" /\ initiator[p] =>
       \/ \E n \in 1..starts[q] : key[p] = Shared(<<q, n>>) /\ Answered(q, n, Me(p))
       \/ key[p] = Rejected(Me(p)) /\ starts[p] > 1
KeysExplained == \A p \in Peers : Explained(p)

(* A dynamic role is that of the order of the addresses, or something failed. *)
RolesResolved == \A p \in Peers :
  mode[p] = "dynamic" /\ pc[p] \in Resolved =>
    /\ initiator[p] => p = Higher
    /\ p = Higher => initiator[p] \/ spoiled

IInv == TypeOK /\ MailIsSent /\ WorkerSteps /\ KeysExplained /\ RolesResolved

------------------------------------------------------------------------------
(* Type correctness. *)

LEMMA OtherFacts == /\ \A p \in Peers : Other(p) \in Peers /\ Other(p) # p /\ Other(Other(p)) = p
                    /\ \A p, q \in Peers : q # p => q = Other(p)
  BY GatewaysAssumption DEF Peers, Other

LEMMA MeIsName ==
  ASSUME TypeOK, WorkerSteps, NEW p \in Peers, Up(p) PROVE Me(p) \in Names
<1>1. starts[p] \in 0..MaxRestarts + 1
  BY DEF TypeOK, SetupTypeOK
<1>2. starts[p] \in Nat \ {0}
  BY DEF WorkerSteps, Up
<1>3. starts[p] \in 1..MaxRestarts + 1
  BY <1>1, <1>2, BoundsAssumption
<1>4. QED
  BY <1>3 DEF Me, Names

LEMMA HeadProperty ==
  ASSUME TypeOK, NEW p \in Peers, ring[p] # <<>> PROVE Head(ring[p]) \in Letters /\ Head(ring[p]).msg \in Messages
<1>1. ring[p] \in Seq(Letters)
  BY DEF TypeOK, RingTypeOK
<1>2. Head(ring[p]) \in Letters
  BY <1>1, HeadTailProperties
<1>3. QED
  BY <1>2 DEF Letters

LEMMA InitTypeOK == Init => TypeOK
<1> SUFFICES ASSUME Init PROVE TypeOK
  OBVIOUS
<1>1. SetupTypeOK
  <2>1. mode \in [Peers -> Modes]
    BY DEF Init, RoleModes
  <2>2. starts \in [Peers -> 0..MaxRestarts + 1]
    BY BoundsAssumption DEF Init
  <2>3. bridge \in BOOLEAN /\ spoiled \in BOOLEAN
    BY DEF Init
  <2>4. QED
    BY <2>1, <2>2, <2>3 DEF SetupTypeOK
<1>2. WorkerTypeOK
  BY DEF Init, WorkerTypeOK, Steps, Keys
<1>3. NetTypeOK
  BY DEF Init, NetTypeOK
<1>4. RingTypeOK
  BY BoundsAssumption DEF Init, RingTypeOK
<1>5. QED
  BY <1>1, <1>2, <1>3, <1>4 DEF TypeOK

LEMMA StartTypeOK ==
  ASSUME TypeOK, WorkerSteps, NEW p \in Peers, Start(p) PROVE TypeOK'
<1>1. SetupTypeOK'
  BY BoundsAssumption DEF TypeOK, SetupTypeOK, Start, setup, RestartsOf, Peers
<1>2. WorkerTypeOK'
  BY DEF TypeOK, SetupTypeOK, WorkerTypeOK, Start, worker, Steps, Keys
<1>3. NetTypeOK'
  BY DEF TypeOK, SetupTypeOK, NetTypeOK, Start, net
<1>4. RingTypeOK'
  <2>1. learnt' \in [Peers -> Peers \cup {Nobody}]
    BY DEF TypeOK, RingTypeOK, Start
  <2>2. ring' = [ring EXCEPT ![p] = <<>>] /\ <<>> \in Seq(Letters) /\ Len(<<>>) = 0
    BY DEF Start
  <2>3. ring' \in [Peers -> Seq(Letters)]
    BY <2>2 DEF TypeOK, RingTypeOK
  <2>4. \A r \in Peers : Len(ring'[r]) <= QueueSize
    BY <2>2, BoundsAssumption DEF TypeOK, RingTypeOK
  <2>5. QED
    BY <2>1, <2>3, <2>4 DEF RingTypeOK
<1>5. QED
  BY <1>1, <1>2, <1>3, <1>4 DEF TypeOK

LEMMA GiveUpTypeOK ==
  ASSUME TypeOK, WorkerSteps, NEW p \in Peers, GiveUp(p) PROVE TypeOK'
<1>1. SetupTypeOK'
  BY DEF TypeOK, SetupTypeOK, GiveUp, setup
<1>2. WorkerTypeOK'
  BY DEF TypeOK, SetupTypeOK, WorkerTypeOK, GiveUp, worker, Goes, Steps
<1>3. NetTypeOK'
  BY DEF TypeOK, SetupTypeOK, NetTypeOK, GiveUp, net
<1>4. RingTypeOK'
  BY DEF TypeOK, SetupTypeOK, RingTypeOK, GiveUp, rx
<1>5. QED
  BY <1>1, <1>2, <1>3, <1>4 DEF TypeOK

LEMMA BeginRoutedTypeOK ==
  ASSUME TypeOK, WorkerSteps, NEW p \in Peers, BeginRouted(p) PROVE TypeOK'
<1>1. SetupTypeOK'
  BY DEF TypeOK, SetupTypeOK, BeginRouted, setup
<1>2. WorkerTypeOK'
  BY DEF TypeOK, SetupTypeOK, WorkerTypeOK, BeginRouted, worker, Role, Steps
<1>3. NetTypeOK'
  BY DEF TypeOK, SetupTypeOK, NetTypeOK, BeginRouted, net
<1>4. RingTypeOK'
  BY DEF TypeOK, SetupTypeOK, RingTypeOK, BeginRouted, rx
<1>5. QED
  BY <1>1, <1>2, <1>3, <1>4 DEF TypeOK

LEMMA BeginBridgeTypeOK ==
  ASSUME TypeOK, WorkerSteps, NEW p \in Peers, BeginBridge(p) PROVE TypeOK'
<1>1. SetupTypeOK'
  BY DEF TypeOK, SetupTypeOK, BeginBridge, setup
<1>2. WorkerTypeOK'
  BY DEF TypeOK, SetupTypeOK, WorkerTypeOK, BeginBridge, worker, Role, Goes, Steps
<1>3. NetTypeOK'
  BY DEF TypeOK, SetupTypeOK, NetTypeOK, BeginBridge, net
<1>4. RingTypeOK'
  BY DEF TypeOK, SetupTypeOK, RingTypeOK, BeginBridge, rx
<1>5. QED
  BY <1>1, <1>2, <1>3, <1>4 DEF TypeOK

LEMMA ProbeTypeOK ==
  ASSUME TypeOK, WorkerSteps, NEW p \in Peers, Probe(p) PROVE TypeOK'
<1>1. SetupTypeOK'
  BY DEF TypeOK, SetupTypeOK, Probe, setup
<1>2. WorkerTypeOK'
  BY DEF TypeOK, SetupTypeOK, WorkerTypeOK, Probe, worker, Goes, Steps
<1>3. NetTypeOK'
  BY DEF TypeOK, SetupTypeOK, NetTypeOK, Probe, net
<1>4. RingTypeOK'
  BY DEF TypeOK, SetupTypeOK, RingTypeOK, Probe, rx
<1>5. QED
  BY <1>1, <1>2, <1>3, <1>4 DEF TypeOK

LEMMA HearProbeTypeOK ==
  ASSUME TypeOK, WorkerSteps, NEW p \in Peers, HearProbe(p) PROVE TypeOK'
<1>1. SetupTypeOK'
  BY DEF TypeOK, SetupTypeOK, HearProbe, setup
<1>2. WorkerTypeOK'
  BY DEF TypeOK, SetupTypeOK, WorkerTypeOK, HearProbe, worker
<1>3. NetTypeOK'
  BY DEF TypeOK, SetupTypeOK, NetTypeOK, HearProbe, net
<1>4. RingTypeOK'
  <2>1. PICK s \in probes[p] : learnt' = [learnt EXCEPT ![p] = s]
    BY DEF HearProbe
  <2>2. s \in Peers
    BY <2>1 DEF TypeOK, NetTypeOK
  <2>3. learnt' \in [Peers -> Peers \cup {Nobody}] /\ ring' = ring
    BY <2>1, <2>2 DEF TypeOK, RingTypeOK, HearProbe
  <2>4. QED
    BY <2>3 DEF TypeOK, RingTypeOK
<1>5. QED
  BY <1>1, <1>2, <1>3, <1>4 DEF TypeOK

LEMMA HearAckTypeOK ==
  ASSUME TypeOK, WorkerSteps, NEW p \in Peers, HearAck(p) PROVE TypeOK'
<1>1. SetupTypeOK'
  BY DEF TypeOK, SetupTypeOK, HearAck, setup
<1>2. WorkerTypeOK'
  <2>1. PICK s \in acks[p] : /\ peerMac' = [peerMac EXCEPT ![p] = s]
                           /\ Role(p, ResolvedRole(p, s))
    BY DEF HearAck
  <2>2. s \in Peers
    BY <2>1 DEF TypeOK, NetTypeOK
  <2>3. ResolvedRole(p, s) \in BOOLEAN
    BY DEF TypeOK, WorkerTypeOK, ResolvedRole
  <2>4. initiator' \in [Peers -> BOOLEAN] /\ pc' \in [Peers -> Steps]
    BY <2>1, <2>3 DEF TypeOK, WorkerTypeOK, Role, Steps
  <2>5. peerMac' \in [Peers -> Peers \cup {Nobody}] /\ offer' = offer /\ key' = key
    BY <2>1, <2>2 DEF TypeOK, WorkerTypeOK, HearAck
  <2>6. QED
    BY <2>4, <2>5 DEF TypeOK, WorkerTypeOK
<1>3. NetTypeOK'
  BY DEF TypeOK, SetupTypeOK, NetTypeOK, HearAck, net
<1>4. RingTypeOK'
  BY DEF TypeOK, SetupTypeOK, RingTypeOK, HearAck, rx
<1>5. QED
  BY <1>1, <1>2, <1>3, <1>4 DEF TypeOK

LEMMA ProbeAgainTypeOK ==
  ASSUME TypeOK, WorkerSteps, NEW p \in Peers, ProbeAgain(p) PROVE TypeOK'
<1>1. SetupTypeOK'
  BY DEF TypeOK, SetupTypeOK, ProbeAgain, setup
<1>2. WorkerTypeOK'
  BY DEF TypeOK, SetupTypeOK, WorkerTypeOK, ProbeAgain, worker, Goes, Steps
<1>3. NetTypeOK'
  BY DEF TypeOK, SetupTypeOK, NetTypeOK, ProbeAgain, net
<1>4. RingTypeOK'
  BY DEF TypeOK, SetupTypeOK, RingTypeOK, ProbeAgain, rx
<1>5. QED
  BY <1>1, <1>2, <1>3, <1>4 DEF TypeOK

LEMMA OfferTypeOK ==
  ASSUME TypeOK, WorkerSteps, NEW p \in Peers, Offer(p) PROVE TypeOK'
<1>1. SetupTypeOK'
  BY DEF TypeOK, SetupTypeOK, Offer, setup
<1>2. WorkerTypeOK'
  BY DEF TypeOK, SetupTypeOK, WorkerTypeOK, Offer, worker, Goes, Steps, WorkerSteps
<1>3. NetTypeOK'
  <2>1. Hello(Me(p)) \in Messages
    BY MeIsName DEF Offer, Goes, Up, Hello, Messages
  <2>2. QED
    BY <2>1 DEF TypeOK, NetTypeOK, Offer, Sent
<1>4. RingTypeOK'
  BY DEF TypeOK, SetupTypeOK, RingTypeOK, Offer, rx
<1>5. QED
  BY <1>1, <1>2, <1>3, <1>4 DEF TypeOK

LEMMA HearTypeOK ==
  ASSUME TypeOK, WorkerSteps, NEW p \in Peers, Hear(p) PROVE TypeOK'
<1>1. SetupTypeOK'
  BY DEF TypeOK, SetupTypeOK, Hear, setup
<1>2. WorkerTypeOK'
  BY DEF TypeOK, SetupTypeOK, WorkerTypeOK, Hear, worker
<1>3. NetTypeOK'
  BY DEF TypeOK, SetupTypeOK, NetTypeOK, Hear, net
<1>4. RingTypeOK'
  <2>1. PICK m \in wire[p] : ring' = Fed(p, m)
    BY DEF Hear
  <2>2. m \in Messages
    BY <2>1 DEF TypeOK, NetTypeOK
  <2>3. learnt' \in [Peers -> Peers \cup {Nobody}]
    BY DEF TypeOK, RingTypeOK, Hear
  <2>4. CASE ring' = ring
    BY <2>3, <2>4 DEF TypeOK, RingTypeOK
  <2>5. CASE HasPlace(p) /\ ring' = [ring EXCEPT ![p] = Append(ring[p], [msg |-> m, mac |-> learnt[p]])]
    <3>1. [msg |-> m, mac |-> learnt[p]] \in Letters
      BY <2>2 DEF TypeOK, RingTypeOK, Letters
    <3>2. Append(ring[p], [msg |-> m, mac |-> learnt[p]]) \in Seq(Letters)
      BY <3>1 DEF TypeOK, RingTypeOK
    <3>3. Len(Append(ring[p], [msg |-> m, mac |-> learnt[p]])) <= QueueSize
      BY <2>5, <3>1, BoundsAssumption DEF TypeOK, RingTypeOK, HasPlace
    <3>4. QED
      BY <2>3, <2>5, <3>2, <3>3 DEF TypeOK, RingTypeOK
  <2>6. QED
    BY <2>1, <2>4, <2>5 DEF Fed
<1>5. QED
  BY <1>1, <1>2, <1>3, <1>4 DEF TypeOK

LEMMA LoseAnswerTypeOK ==
  ASSUME TypeOK, WorkerSteps, NEW p \in Peers, LoseAnswer(p) PROVE TypeOK'
<1>1. SetupTypeOK'
  BY DEF TypeOK, SetupTypeOK, LoseAnswer, setup
<1>2. WorkerTypeOK'
  BY DEF TypeOK, SetupTypeOK, WorkerTypeOK, LoseAnswer, worker
<1>3. NetTypeOK'
  BY DEF TypeOK, SetupTypeOK, NetTypeOK, LoseAnswer, net
<1>4. RingTypeOK'
  BY DEF TypeOK, SetupTypeOK, RingTypeOK, LoseAnswer, rx
<1>5. QED
  BY <1>1, <1>2, <1>3, <1>4 DEF TypeOK

LEMMA TakeAnswerTypeOK ==
  ASSUME TypeOK, WorkerSteps, NEW p \in Peers, TakeAnswer(p) PROVE TypeOK'
<1>1. SetupTypeOK'
  BY DEF TypeOK, SetupTypeOK, TakeAnswer, setup
<1>2. WorkerTypeOK'
  <2>1. Head(ring[p]).msg \in Messages
    BY HeadProperty DEF TakeAnswer, Take
  <2>2. Me(p) \in Names
    BY MeIsName DEF TakeAnswer, Up
  <2>3. Decapsulate(Me(p), Head(ring[p]).msg) \in Keys
    BY <2>1, <2>2 DEF Decapsulate, Keys, Messages
  <2>4. QED
    BY <2>3 DEF TypeOK, WorkerTypeOK, TakeAnswer, Steps
<1>3. NetTypeOK'
  BY DEF TypeOK, SetupTypeOK, NetTypeOK, TakeAnswer, net
<1>4. RingTypeOK'
  <2>1. ring' = [ring EXCEPT ![p] = Tail(ring[p])] /\ ring[p] # <<>> /\ learnt' = learnt
    BY DEF TakeAnswer, Take
  <2>2. Tail(ring[p]) \in Seq(Letters) /\ Len(Tail(ring[p])) <= QueueSize
    <3>1. ring[p] \in Seq(Letters) /\ Len(ring[p]) <= QueueSize
      BY DEF TypeOK, RingTypeOK
    <3>2. QED
      BY <2>1, <3>1, HeadTailProperties, BoundsAssumption
  <2>3. QED
    BY <2>1, <2>2 DEF TypeOK, RingTypeOK
<1>5. QED
  BY <1>1, <1>2, <1>3, <1>4 DEF TypeOK

LEMMA OfferAgainTypeOK ==
  ASSUME TypeOK, WorkerSteps, NEW p \in Peers, OfferAgain(p) PROVE TypeOK'
<1>1. SetupTypeOK'
  BY DEF TypeOK, SetupTypeOK, OfferAgain, setup
<1>2. WorkerTypeOK'
  BY DEF TypeOK, SetupTypeOK, WorkerTypeOK, OfferAgain, worker, Goes, Steps
<1>3. NetTypeOK'
  BY DEF TypeOK, SetupTypeOK, NetTypeOK, OfferAgain, net
<1>4. RingTypeOK'
  BY DEF TypeOK, SetupTypeOK, RingTypeOK, OfferAgain, rx
<1>5. QED
  BY <1>1, <1>2, <1>3, <1>4 DEF TypeOK

LEMMA TakeOfferTypeOK ==
  ASSUME TypeOK, WorkerSteps, NEW p \in Peers, TakeOffer(p) PROVE TypeOK'
<1>1. SetupTypeOK'
  BY DEF TypeOK, SetupTypeOK, TakeOffer, setup, WorkerSteps
<1>2. WorkerTypeOK'
  <2>1. Head(ring[p]).msg \in Messages
    BY HeadProperty DEF TakeOffer, Take
  <2>2. Me(p) \in Names
    BY MeIsName DEF TakeOffer, Up
  <2>3. Head(ring[p]).msg.by \in Names
    BY <2>1 DEF Messages
  <2>4. QED
    BY <2>3 DEF TypeOK, WorkerTypeOK, TakeOffer, Steps
<1>3. NetTypeOK'
  <2>1. Head(ring[p]).msg \in Messages
    BY HeadProperty DEF TakeOffer, Take
  <2>2. Me(p) \in Names
    BY MeIsName DEF TakeOffer, Up
  <2>3. Resp(Me(p), Head(ring[p]).msg.by) \in Messages
    BY <2>1, <2>2 DEF Messages, Resp
  <2>4. QED
    BY <2>3 DEF TypeOK, NetTypeOK, TakeOffer, Sent
<1>4. RingTypeOK'
  <2>1. ring' = [ring EXCEPT ![p] = Tail(ring[p])] /\ ring[p] # <<>> /\ learnt' = learnt
    BY DEF TakeOffer, Take
  <2>2. Tail(ring[p]) \in Seq(Letters) /\ Len(Tail(ring[p])) <= QueueSize
    <3>1. ring[p] \in Seq(Letters) /\ Len(ring[p]) <= QueueSize
      BY DEF TypeOK, RingTypeOK
    <3>2. QED
      BY <2>1, <3>1, HeadTailProperties, BoundsAssumption
  <2>3. QED
    BY <2>1, <2>2 DEF TypeOK, RingTypeOK
<1>5. QED
  BY <1>1, <1>2, <1>3, <1>4 DEF TypeOK

LEMMA StoreKeyTypeOK ==
  ASSUME TypeOK, WorkerSteps, NEW p \in Peers, StoreKey(p) PROVE TypeOK'
<1>1. SetupTypeOK'
  BY DEF TypeOK, SetupTypeOK, StoreKey, setup
<1>2. WorkerTypeOK'
  BY DEF TypeOK, SetupTypeOK, WorkerTypeOK, StoreKey, worker, Goes, Steps, Keys, Me, Names, WorkerSteps
<1>3. NetTypeOK'
  BY DEF TypeOK, SetupTypeOK, NetTypeOK, StoreKey, net
<1>4. RingTypeOK'
  BY DEF TypeOK, SetupTypeOK, RingTypeOK, StoreKey, rx
<1>5. QED
  BY <1>1, <1>2, <1>3, <1>4 DEF TypeOK

LEMMA NextTypeOK == TypeOK /\ WorkerSteps /\ [Next]_vars => TypeOK'
<1> SUFFICES ASSUME TypeOK, WorkerSteps, [Next]_vars PROVE TypeOK'
  OBVIOUS
<1>1. CASE UNCHANGED vars
  BY <1>1 DEF TypeOK, SetupTypeOK, WorkerTypeOK, NetTypeOK, RingTypeOK, vars
<1>2. CASE Next
  BY <1>2, StartTypeOK, GiveUpTypeOK, BeginRoutedTypeOK, BeginBridgeTypeOK, ProbeTypeOK, HearProbeTypeOK, HearAckTypeOK, ProbeAgainTypeOK, OfferTypeOK, HearTypeOK, LoseAnswerTypeOK, TakeAnswerTypeOK, OfferAgainTypeOK, TakeOfferTypeOK, StoreKeyTypeOK
     DEF Next, Discovery, Begin, Exchange, Mishap
<1>3. QED
  BY <1>1, <1>2

------------------------------------------------------------------------------
(* What a step keeps of the past: the processes already started, and that the
one now running is past an offer or an answer it has made. *)
Keeps ==
  \A q \in Peers : /\ starts[q] \in Nat /\ starts'[q] \in Nat /\ starts[q] <= starts'[q]
                   /\ \A n \in 1..starts[q] : Initiates(q, n) => Initiates(q, n)'
                   /\ \A n \in 1..starts[q], pk \in Names : Answered(q, n, pk) => Answered(q, n, pk)'

LEMMA NextKeeps == TypeOK /\ WorkerSteps /\ [Next]_vars => Keeps
<1> SUFFICES ASSUME TypeOK, WorkerSteps, [Next]_vars PROVE Keeps
  OBVIOUS
<1>1. CASE UNCHANGED vars
  BY <1>1 DEF vars, Keeps, Initiates, Answered, TypeOK, SetupTypeOK
<1>2. CASE Next
  <2> SUFFICES ASSUME NEW p \in Peers,
                      Discovery(p) \/ Begin(p) \/ Exchange(p) \/ Hear(p) \/ Mishap(p)
               PROVE  Keeps
    BY <1>2 DEF Next
  <2>a. /\ \A q \in Peers : starts[q] \in Nat
        /\ pc \in [Peers -> Steps] /\ initiator \in [Peers -> BOOLEAN]
        /\ starts \in [Peers -> 0..MaxRestarts + 1] /\ offer \in [Peers -> Names \cup {<<Nobody, 0>>}]
    BY BoundsAssumption DEF TypeOK, SetupTypeOK, WorkerTypeOK
  <2>1. CASE Start(p)
    BY <2>1, <2>a DEF Start, setup, Keeps, Initiates, Answered
  <2>2. CASE GiveUp(p)
    BY <2>2, <2>a DEF GiveUp, Goes, setup, Keeps, Initiates, Answered
  <2>3. CASE BeginRouted(p)
    BY <2>3, <2>a DEF BeginRouted, Role, Keeps, Initiates, Answered
  <2>4. CASE BeginBridge(p)
    BY <2>4, <2>a DEF BeginBridge, Role, Goes, Keeps, Initiates, Answered
  <2>5. CASE Probe(p)
    BY <2>5, <2>a DEF Probe, Goes, Keeps, Initiates, Answered
  <2>6. CASE HearProbe(p)
    BY <2>6, <2>a DEF HearProbe, worker, Keeps, Initiates, Answered
  <2>7. CASE HearAck(p)
    BY <2>7, <2>a DEF HearAck, Role, Keeps, Initiates, Answered
  <2>8. CASE ProbeAgain(p)
    BY <2>8, <2>a DEF ProbeAgain, Goes, Keeps, Initiates, Answered
  <2>9. CASE Offer(p)
    BY <2>9, <2>a DEF Offer, Goes, Keeps, Initiates, Answered
  <2>10. CASE Hear(p)
    BY <2>10, <2>a DEF Hear, worker, Keeps, Initiates, Answered
  <2>11. CASE LoseAnswer(p)
    BY <2>11, <2>a DEF LoseAnswer, worker, Keeps, Initiates, Answered
  <2>12. CASE TakeAnswer(p)
    BY <2>12, <2>a DEF TakeAnswer, Keeps, Initiates, Answered
  <2>13. CASE OfferAgain(p)
    BY <2>13, <2>a DEF OfferAgain, Goes, Keeps, Initiates, Answered
  <2>14. CASE TakeOffer(p)
    BY <2>14, <2>a DEF TakeOffer, Keeps, Initiates, Answered
  <2>15. CASE StoreKey(p)
    BY <2>15, <2>a DEF StoreKey, Goes, Keeps, Initiates, Answered
  <2>16. QED
    BY <2>1, <2>2, <2>3, <2>4, <2>5, <2>6, <2>7, <2>8, <2>9, <2>10, <2>11, <2>12, <2>13, <2>14, <2>15
       DEF Discovery, Begin, Exchange, Mishap
<1>3. QED
  BY <1>1, <1>2

LEMMA NextWorkerSteps == TypeOK /\ WorkerSteps /\ [Next]_vars => WorkerSteps'
<1> SUFFICES ASSUME TypeOK, WorkerSteps, [Next]_vars PROVE WorkerSteps'
  OBVIOUS
<1>1. CASE UNCHANGED vars
  BY <1>1 DEF vars, WorkerSteps
<1>2. CASE Next
  <2> SUFFICES ASSUME NEW p \in Peers,
                      Discovery(p) \/ Begin(p) \/ Exchange(p) \/ Hear(p) \/ Mishap(p)
               PROVE  WorkerSteps'
    BY <1>2 DEF Next
  <2>a. /\ pc \in [Peers -> Steps] /\ initiator \in [Peers -> BOOLEAN]
        /\ starts \in [Peers -> 0..MaxRestarts + 1] /\ key \in [Peers -> Keys]
        /\ offer \in [Peers -> Names \cup {<<Nobody, 0>>}] /\ mode \in [Peers -> Modes]
        /\ spoiled \in BOOLEAN
    BY DEF TypeOK, SetupTypeOK, WorkerTypeOK
  <2>1. CASE Start(p)
    BY <2>1, <2>a, BoundsAssumption DEF Start, setup, NoKey, WorkerSteps
  <2>2. CASE GiveUp(p)
    BY <2>2, <2>a DEF GiveUp, Goes, setup, WorkerSteps
  <2>3. CASE BeginRouted(p)
    BY ZenonT(30), <2>3, <2>a DEF BeginRouted, Role, WorkerSteps
  <2>4. CASE BeginBridge(p)
    BY <2>4, <2>a DEF BeginBridge, Role, Goes, WorkerSteps
  <2>5. CASE Probe(p)
    BY <2>5, <2>a DEF Probe, Goes, WorkerSteps
  <2>6. CASE HearProbe(p)
    BY <2>6, <2>a DEF HearProbe, worker, WorkerSteps
  <2>7. CASE HearAck(p)
    BY <2>7, <2>a DEF HearAck, Role, WorkerSteps
  <2>8. CASE ProbeAgain(p)
    BY <2>8, <2>a DEF ProbeAgain, Goes, WorkerSteps
  <2>9. CASE Offer(p)
    BY <2>9, <2>a DEF Offer, Goes, WorkerSteps
  <2>10. CASE Hear(p)
    BY <2>10, <2>a DEF Hear, worker, WorkerSteps
  <2>11. CASE LoseAnswer(p)
    BY <2>11, <2>a DEF LoseAnswer, worker, WorkerSteps
  <2>12. CASE TakeAnswer(p)
    BY <2>12, <2>a DEF TakeAnswer, Decapsulate, NoKey, Shared, Rejected, WorkerSteps
  <2>13. CASE OfferAgain(p)
    BY <2>13, <2>a DEF OfferAgain, Goes, WorkerSteps
  <2>14. CASE TakeOffer(p)
    BY <2>14, <2>a DEF TakeOffer, WorkerSteps
  <2>15. CASE StoreKey(p)
    BY <2>15, <2>a DEF StoreKey, Goes, NoKey, Shared, WorkerSteps
  <2>16. QED
    BY <2>1, <2>2, <2>3, <2>4, <2>5, <2>6, <2>7, <2>8, <2>9, <2>10, <2>11, <2>12, <2>13, <2>14, <2>15
       DEF Discovery, Begin, Exchange, Mishap
<1>3. QED
  BY <1>1, <1>2

LEMMA NextRoles == TypeOK /\ WorkerSteps /\ RolesResolved /\ [Next]_vars => RolesResolved'
<1> SUFFICES ASSUME TypeOK, WorkerSteps, RolesResolved, [Next]_vars PROVE RolesResolved'
  OBVIOUS
<1>1. CASE UNCHANGED vars
  BY <1>1 DEF vars, RolesResolved, Resolved
<1>2. CASE Next
  <2> SUFFICES ASSUME NEW p \in Peers,
                      Discovery(p) \/ Begin(p) \/ Exchange(p) \/ Hear(p) \/ Mishap(p)
               PROVE  RolesResolved'
    BY <1>2 DEF Next
  <2>a. /\ pc \in [Peers -> Steps] /\ initiator \in [Peers -> BOOLEAN]
        /\ starts \in [Peers -> 0..MaxRestarts + 1] /\ key \in [Peers -> Keys]
        /\ offer \in [Peers -> Names \cup {<<Nobody, 0>>}] /\ mode \in [Peers -> Modes]
        /\ spoiled \in BOOLEAN
    BY DEF TypeOK, SetupTypeOK, WorkerTypeOK
  <2>1. CASE Start(p)
    BY <2>1, <2>a DEF Start, setup, RolesResolved, WorkerSteps, Resolved, Other
  <2>2. CASE GiveUp(p)
    BY <2>2, <2>a DEF GiveUp, Goes, setup, RolesResolved, WorkerSteps, Resolved, Other
  <2>3. CASE BeginRouted(p)
    <3>1. mode' = mode /\ (spoiled => spoiled')
      <4>1. spoiled' = spoiled \/ spoiled' = TRUE
        BY <2>3 DEF BeginRouted
      <4>2. mode' = mode
        BY <2>3 DEF BeginRouted, setup
      <4>3. QED
        BY <4>1, <4>2
    <3>2. CASE mode[p] # "dynamic" /\ Role(p, mode[p] = "initiator")
      BY <2>a, <3>1, <3>2 DEF Role, RolesResolved, Resolved
    <3>3. CASE Role(p, p = Higher) /\ p = Higher
      BY <2>a, <3>1, <3>3 DEF Role, RolesResolved, Resolved
    <3>4. CASE Role(p, p = Higher) /\ p # Higher
      BY <2>a, <3>1, <3>4 DEF Role, RolesResolved, Resolved
    <3>5. CASE Role(p, FALSE) /\ spoiled'
      BY <2>a, <3>1, <3>5 DEF Role, RolesResolved, Resolved
    <3>6. QED
      BY <2>3, <3>2, <3>3, <3>4, <3>5 DEF BeginRouted
  <2>4. CASE BeginBridge(p)
    BY <2>4, <2>a DEF BeginBridge, Role, Goes, setup, RolesResolved, WorkerSteps, Resolved, Other
  <2>5. CASE Probe(p)
    BY <2>5, <2>a DEF Probe, Goes, setup, RolesResolved, WorkerSteps, Resolved, Other
  <2>6. CASE HearProbe(p)
    BY <2>6, <2>a DEF HearProbe, worker, setup, RolesResolved, WorkerSteps, Resolved, Other
  <2>7. CASE HearAck(p)
    <3>1. PICK s \in acks[p] : Role(p, ResolvedRole(p, s)) /\ spoiled' = (spoiled \/ s = p)
      BY <2>7 DEF HearAck
    <3>2. s = Higher \/ s = Lower
      BY <3>1 DEF TypeOK, NetTypeOK, Peers
    <3>3. mode' = mode /\ (mode[p] = "dynamic" => (ResolvedRole(p, s) <=> p = Higher /\ s = Lower))
      BY <2>7 DEF HearAck, setup, ResolvedRole
    <3>4. CASE ResolvedRole(p, s)
      BY <2>a, <3>1, <3>2, <3>3, <3>4 DEF Role, RolesResolved, Resolved
    <3>5. CASE ~ResolvedRole(p, s)
      BY <2>a, <3>1, <3>2, <3>3, <3>5 DEF Role, RolesResolved, Resolved
    <3>6. QED
      BY <3>4, <3>5
  <2>8. CASE ProbeAgain(p)
    BY <2>8, <2>a DEF ProbeAgain, Goes, setup, RolesResolved, WorkerSteps, Resolved, Other
  <2>9. CASE Offer(p)
    BY <2>9, <2>a DEF Offer, Goes, setup, RolesResolved, WorkerSteps, Resolved, Other
  <2>10. CASE Hear(p)
    BY <2>10, <2>a DEF Hear, worker, setup, RolesResolved, WorkerSteps, Resolved, Other
  <2>11. CASE LoseAnswer(p)
    BY <2>11, <2>a DEF LoseAnswer, worker, setup, RolesResolved, WorkerSteps, Resolved, Other
  <2>12. CASE TakeAnswer(p)
    BY <2>12, <2>a DEF TakeAnswer, setup, RolesResolved, WorkerSteps, Resolved, Other
  <2>13. CASE OfferAgain(p)
    BY <2>13, <2>a DEF OfferAgain, Goes, setup, RolesResolved, WorkerSteps, Resolved, Other
  <2>14. CASE TakeOffer(p)
    BY <2>14, <2>a DEF TakeOffer, setup, RolesResolved, WorkerSteps, Resolved, Other
  <2>15. CASE StoreKey(p)
    BY <2>15, <2>a DEF StoreKey, Goes, setup, RolesResolved, WorkerSteps, Resolved, Other
  <2>16. QED
    BY <2>1, <2>2, <2>3, <2>4, <2>5, <2>6, <2>7, <2>8, <2>9, <2>10, <2>11, <2>12, <2>13, <2>14, <2>15
       DEF Discovery, Begin, Exchange, Mishap
<1>3. QED
  BY <1>1, <1>2

(* A message once sent by a gateway remains one it has sent. *)
LEMMA SentByKept ==
  ASSUME Keeps, NEW q \in Peers, NEW m \in Messages, SentBy(q, m) PROVE SentBy(q, m)'
<1>1. m.by[2] \in 1..starts[q] /\ m.to \in Names
  BY DEF SentBy, Messages
<1>2. m.by[1] = q /\ m.by[2] \in 1..starts'[q]
  BY <1>1 DEF SentBy, Keeps
<1>3. m.type = "hello" => Initiates(q, m.by[2])'
  BY <1>1 DEF SentBy, Keeps
<1>4. m.type = "resp" => m.to[1] = Other(q) /\ m.to[2] \in 1..starts'[Other(q)]
  BY OtherFacts DEF SentBy, Keeps
<1>5. m.type = "resp" => Answered(q, m.by[2], m.to)'
  BY <1>1 DEF SentBy, Keeps
<1>6. QED
  BY <1>2, <1>3, <1>4, <1>5 DEF SentBy

LEMMA SentReaches ==
  ASSUME TypeOK, NEW p \in Peers, NEW m, NEW target, wire' = Sent(p, m, target)
  PROVE  \A r \in Peers : \A l \in wire'[r] : l \in wire[r] \/ (l = m /\ r = Other(p))
<1>1. CASE wire' = wire
  BY <1>1
<1>2. CASE wire' = [wire EXCEPT ![Other(p)] = wire[Other(p)] \cup {m}]
  BY <1>2, OtherFacts DEF TypeOK, NetTypeOK
<1>3. QED
  BY <1>1, <1>2 DEF Sent, Arrives

LEMMA TakeKeeps ==
  ASSUME TypeOK, NEW p \in Peers, Take(p)
  PROVE  \A r \in Peers : \A i \in 1..Len(ring'[r]) : \E j \in 1..Len(ring[r]) : ring'[r][i] = ring[r][j]
<1>1. ring' = [ring EXCEPT ![p] = Tail(ring[p])] /\ ring[p] # <<>> /\ ring \in [Peers -> Seq(Letters)]
  BY DEF Take, TypeOK, RingTypeOK
<1>2. ring[p] \in Seq(Letters)
  BY <1>1
<1>3. Len(Tail(ring[p])) = Len(ring[p]) - 1 /\ \A i \in 1..Len(Tail(ring[p])) : Tail(ring[p])[i] = ring[p][i + 1]
  BY <1>1, <1>2, HeadTailProperties
<1>4. \A i \in 1..Len(Tail(ring[p])) : i + 1 \in 1..Len(ring[p])
  BY <1>2, <1>3
<1>5. QED
  BY <1>1, <1>3, <1>4

LEMMA HeadIsSent ==
  ASSUME TypeOK, MailIsSent, NEW p \in Peers, ring[p] # <<>> PROVE SentBy(Other(p), Head(ring[p]).msg)
<1>1. ring[p] \in Seq(Letters)
  BY DEF TypeOK, RingTypeOK
<1>2. Head(ring[p]) = ring[p][1] /\ 1 \in 1..Len(ring[p])
  BY <1>1
<1>3. QED
  BY <1>2 DEF MailIsSent

LEMMA NextMail == TypeOK /\ WorkerSteps /\ MailIsSent /\ [Next]_vars => MailIsSent'
<1> SUFFICES ASSUME TypeOK, WorkerSteps, MailIsSent, [Next]_vars PROVE MailIsSent'
  OBVIOUS
<1>1. CASE UNCHANGED vars
  BY <1>1 DEF vars, MailIsSent, SentBy, Initiates, Answered
<1>2. CASE Next
  <2> SUFFICES ASSUME NEW p \in Peers,
                      Discovery(p) \/ Begin(p) \/ Exchange(p) \/ Hear(p) \/ Mishap(p)
               PROVE  MailIsSent'
    BY <1>2 DEF Next
  <2>a. \A q \in Peers : starts[q] \in Nat
    BY BoundsAssumption DEF TypeOK, SetupTypeOK
  <2>b. /\ \A r \in Peers : \A m \in wire[r] : SentBy(Other(r), m)'
        /\ \A r \in Peers : \A m : (\E i \in 1..Len(ring[r]) : m = ring[r][i].msg) => SentBy(Other(r), m)'
    <3>1. \A r \in Peers : wire[r] \subseteq Messages
      BY DEF TypeOK, NetTypeOK
    <3>2. \A r \in Peers : \A i \in 1..Len(ring[r]) : ring[r][i].msg \in Messages
      <4>1. SUFFICES ASSUME NEW r \in Peers, NEW i \in 1..Len(ring[r]) PROVE ring[r][i].msg \in Messages
        OBVIOUS
      <4>2. ring[r] \in Seq(Letters)
        BY DEF TypeOK, RingTypeOK
      <4>3. ring[r][i] \in Letters
        BY <4>2
      <4>4. QED
        BY <4>3 DEF Letters
    <3>3. Keeps
      BY NextKeeps
    <3>4. \A r \in Peers : \A m \in wire[r] : SentBy(Other(r), m)'
      BY <3>1, <3>3, SentByKept, OtherFacts DEF MailIsSent
    <3>5. \A r \in Peers : \A m : (\E i \in 1..Len(ring[r]) : m = ring[r][i].msg) => SentBy(Other(r), m)'
      BY <3>2, <3>3, SentByKept, OtherFacts DEF MailIsSent
    <3>6. QED
      BY <3>4, <3>5
  <2>1. CASE Start(p)
    <3>1. wire' = wire /\ \A r \in Peers : ring'[r] = ring[r] \/ ring'[r] = <<>>
      BY <2>1 DEF Start, TypeOK, RingTypeOK
    <3>2. QED
      BY <2>b, <3>1 DEF MailIsSent
  <2>2. CASE GiveUp(p)
    BY <2>2, <2>b DEF GiveUp, net, rx, MailIsSent
  <2>3. CASE BeginRouted(p)
    BY <2>3, <2>b DEF BeginRouted, net, rx, MailIsSent
  <2>4. CASE BeginBridge(p)
    BY <2>4, <2>b DEF BeginBridge, net, rx, MailIsSent
  <2>5. CASE Probe(p)
    BY <2>5, <2>b DEF Probe, net, rx, MailIsSent
  <2>6. CASE HearProbe(p)
    BY <2>6, <2>b DEF HearProbe, net, rx, MailIsSent
  <2>7. CASE HearAck(p)
    BY <2>7, <2>b DEF HearAck, net, rx, MailIsSent
  <2>8. CASE ProbeAgain(p)
    BY <2>8, <2>b DEF ProbeAgain, net, rx, MailIsSent
  <2>9. CASE Offer(p)
    <3>1. ring' = ring /\ starts' = starts /\ Initiates(p, starts[p])' /\ starts[p] \in 1..starts[p]
      BY <2>a, <2>9 DEF Offer, Goes, rx, Initiates, WorkerSteps, TypeOK, WorkerTypeOK
    <3>2. SentBy(p, Hello(Me(p)))'
      BY <3>1 DEF SentBy, Hello, Me
    <3>3. \A r \in Peers : \A m \in wire'[r] : m \in wire[r] \/ (m = Hello(Me(p)) /\ r = Other(p))
      BY <2>9, SentReaches DEF Offer
    <3>4. QED
      BY <2>b, <3>1, <3>2, <3>3, OtherFacts DEF MailIsSent, Me
  <2>10. CASE Hear(p)
    <3>1. PICK m \in wire[p] : wire' = [wire EXCEPT ![p] = @ \ {m}] /\ ring' = Fed(p, m)
      BY <2>10 DEF Hear
    <3>2. \A r \in Peers : \A l \in wire'[r] : SentBy(Other(r), l)'
      BY <2>b, <3>1 DEF TypeOK, NetTypeOK, MailIsSent
    <3>3. SentBy(Other(p), m)'
      BY <2>b, <3>1 DEF MailIsSent
    <3>4. \A r \in Peers : \A i \in 1..Len(ring'[r]) : (ring'[r][i].msg = m /\ r = p) \/ (i \in 1..Len(ring[r]) /\ ring'[r][i] = ring[r][i])
      <4>1. ring[p] \in Seq(Letters) /\ ring \in [Peers -> Seq(Letters)]
        BY DEF TypeOK, RingTypeOK
      <4>2. CASE ring' = ring
        BY <4>2
      <4>3. CASE ring' = [ring EXCEPT ![p] = Append(ring[p], [msg |-> m, mac |-> learnt[p]])]
        <5>1. ring'[p] = Append(ring[p], [msg |-> m, mac |-> learnt[p]]) /\ \A r \in Peers : r # p => ring'[r] = ring[r]
          BY <4>1, <4>3
        <5>2. Len(ring'[p]) = Len(ring[p]) + 1 /\ ring'[p][Len(ring[p]) + 1].msg = m
          BY <4>1, <5>1
        <5>3. \A i \in 1..Len(ring[p]) : ring'[p][i] = ring[p][i]
          BY <4>1, <5>1
        <5>4. \A i \in 1..Len(ring'[p]) : i \in 1..Len(ring[p]) \/ i = Len(ring[p]) + 1
          BY <4>1, <5>2
        <5>5. QED
          BY <5>1, <5>2, <5>3, <5>4
      <4>4. QED
        BY <3>1, <4>2, <4>3 DEF Fed
    <3>5. QED
      BY <2>b, <3>2, <3>3, <3>4 DEF MailIsSent
  <2>11. CASE LoseAnswer(p)
    BY <2>11, <2>b DEF LoseAnswer, rx, MailIsSent, TypeOK, NetTypeOK
  <2>12. CASE TakeAnswer(p)
    <3>1. \A r \in Peers : \A i \in 1..Len(ring'[r]) : \E j \in 1..Len(ring[r]) : ring'[r][i] = ring[r][j]
      BY <2>12, TakeKeeps DEF TakeAnswer
    <3>2. wire' = wire
      BY <2>12 DEF TakeAnswer, net
    <3>3. QED
      BY SMTT(30), <2>b, <3>1, <3>2 DEF MailIsSent
  <2>13. CASE OfferAgain(p)
    BY <2>13, <2>b DEF OfferAgain, net, rx, MailIsSent
  <2>14. CASE TakeOffer(p)
    <3>1. \A r \in Peers : \A i \in 1..Len(ring'[r]) : \E j \in 1..Len(ring[r]) : ring'[r][i] = ring[r][j]
      BY <2>14, TakeKeeps DEF TakeOffer
    <3>2. CASE ~Accepts(p, "hello")
      BY <2>b, <2>14, <3>1, <3>2 DEF TakeOffer, MailIsSent
    <3>3. CASE Accepts(p, "hello")
      <4>0. PICK h : h = Head(ring[p]).msg
        OBVIOUS
      <4>1. SentBy(Other(p), h) /\ h \in Messages
        BY <2>14, <4>0, HeadProperty, HeadIsSent DEF TakeOffer, Take
      <4>2. h.by[1] = Other(p) /\ h.by[2] \in 1..starts[Other(p)]
        BY <4>1 DEF SentBy
      <4>3. starts' = starts /\ Answered(p, starts[p], h.by)' /\ starts[p] \in 1..starts[p]
        BY <2>a, <2>14, <3>3, <4>0 DEF TakeOffer, Answered, WorkerSteps, TypeOK, WorkerTypeOK
      <4>4. SentBy(p, Resp(Me(p), h.by))'
        BY <4>2, <4>3 DEF SentBy, Resp, Me
      <4>5. \A r \in Peers : \A m \in wire'[r] : m \in wire[r] \/ (m = Resp(Me(p), h.by) /\ r = Other(p))
        BY <2>14, <3>3, <4>0, SentReaches DEF TakeOffer
      <4>6. SentBy(Other(Other(p)), Resp(Me(p), h.by))'
        BY <4>4, OtherFacts
      <4>7. \A r \in Peers : \A m \in wire'[r] : SentBy(Other(r), m)'
        BY <2>b, <4>3, <4>5, <4>6 DEF Me
      <4>8. \A r \in Peers : \A i \in 1..Len(ring'[r]) : SentBy(Other(r), ring[r][i].msg)'
        BY <2>b, <3>1
      <4>9. QED
        BY <4>7, <4>8 DEF MailIsSent
    <3>4. QED
      BY <3>2, <3>3
  <2>15. CASE StoreKey(p)
    BY <2>15, <2>b DEF StoreKey, net, rx, MailIsSent
  <2>16. QED
    BY <2>1, <2>2, <2>3, <2>4, <2>5, <2>6, <2>7, <2>8, <2>9, <2>10, <2>11, <2>12, <2>13, <2>14, <2>15
       DEF Discovery, Begin, Exchange, Mishap
<1>3. QED
  BY <1>1, <1>2

(* A key stays explained as long as its worker does nothing. *)
LEMMA ExplainedKept ==
  ASSUME TypeOK, WorkerSteps, Keeps, NEW r \in Peers, Explained(r), starts'[r] = starts[r], pc'[r] = pc[r],
         initiator'[r] = initiator[r], offer'[r] = offer[r], key'[r] = key[r]
  PROVE  Explained(r)'
<1>1. Other(r) \in Peers
  BY OtherFacts
<1>2. pc[r] = "done" => Me(r) \in Names
  BY MeIsName DEF Up
<1>3. \A n \in 1..starts[Other(r)] : n \in 1..starts'[Other(r)]
  BY <1>1 DEF Keeps
<1>4. pc[r] \in {"answered", "done"} /\ ~initiator[r] =>
        /\ offer[r] \in Names /\ offer[r][1] = Other(r) /\ offer[r][2] \in 1..starts'[Other(r)]
        /\ \A n : n = offer[r][2] => Initiates(Other(r), n)'
  BY <1>1, <1>3 DEF Explained, Keeps
<1>5. pc[r] = "done" /\ ~initiator[r] => key[r] = Shared(Me(r))
  BY DEF Explained
<1>6. pc[r] = "done" /\ initiator[r] =>
        \/ \E n \in 1..starts'[Other(r)] : key[r] = Shared(<<Other(r), n>>)
                                         /\ \A pk : pk = Me(r) => Answered(Other(r), n, pk)'
        \/ key[r] = Rejected(Me(r)) /\ starts[r] > 1
  BY <1>1, <1>2, <1>3 DEF Explained, Keeps
<1>7. (pc[r] \in {"answered", "done"} /\ ~initiator[r])' =>
        offer'[r] \in Names /\ offer'[r][1] = Other(r) /\ offer'[r][2] \in 1..starts'[Other(r)]
        /\ Initiates(Other(r), offer[r][2])'
  BY <1>4
<1>8. (pc[r] = "done" /\ ~initiator[r])' => key'[r] = Shared(Me(r))'
  BY <1>5 DEF Me, Shared
<1>9. (pc[r] = "done" /\ initiator[r])' =>
        \/ \E n \in 1..starts'[Other(r)] : key'[r] = Shared(<<Other(r), n>>) /\ Answered(Other(r), n, Me(r))'
        \/ key'[r] = Rejected(Me(r))' /\ starts'[r] > 1
  BY <1>6 DEF Me, Rejected
<1>10. QED
  BY <1>7, <1>8, <1>9 DEF Explained

LEMMA NextKeysExplained == TypeOK /\ WorkerSteps /\ MailIsSent /\ KeysExplained /\ [Next]_vars => KeysExplained'
<1> SUFFICES ASSUME TypeOK, WorkerSteps, MailIsSent, KeysExplained, [Next]_vars PROVE KeysExplained'
  OBVIOUS
<1>1. CASE UNCHANGED vars
  BY <1>1 DEF vars, KeysExplained, Explained, Initiates, Answered, Me, Shared, Rejected
<1>2. CASE Next
  <2> SUFFICES ASSUME NEW p \in Peers,
                      Discovery(p) \/ Begin(p) \/ Exchange(p) \/ Hear(p) \/ Mishap(p)
               PROVE  KeysExplained'
    BY <1>2 DEF Next
  <2>a. /\ pc \in [Peers -> Steps] /\ initiator \in [Peers -> BOOLEAN]
        /\ starts \in [Peers -> 0..MaxRestarts + 1] /\ key \in [Peers -> Keys]
        /\ offer \in [Peers -> Names \cup {<<Nobody, 0>>}] /\ mode \in [Peers -> Modes]
        /\ spoiled \in BOOLEAN
    BY DEF TypeOK, SetupTypeOK, WorkerTypeOK
  <2>b. Keeps /\ \A r \in Peers : starts[r] \in Nat
    BY NextKeeps, BoundsAssumption DEF TypeOK, SetupTypeOK
  <2>c. \A r \in Peers : starts'[r] = starts[r] /\ pc'[r] = pc[r] /\ initiator'[r] = initiator[r]
                        /\ offer'[r] = offer[r] /\ key'[r] = key[r] => Explained(r)'
    BY <2>b, ExplainedKept DEF KeysExplained
  <2>1. CASE Start(p)
    <3>1. \A r \in Peers : r # p => Explained(r)'
      BY <2>a, <2>c, <2>1 DEF Start, setup
    <3>2. pc'[p] \notin {"answered", "done"}
      BY <2>a, <2>1 DEF Start, setup
    <3>3. Explained(p)'
      BY <3>2 DEF Explained
    <3>4. QED
      BY <3>1, <3>3 DEF KeysExplained
  <2>2. CASE GiveUp(p)
    <3>1. \A r \in Peers : r # p => Explained(r)'
      BY <2>a, <2>c, <2>2 DEF GiveUp, Goes, setup
    <3>2. pc'[p] \notin {"answered", "done"}
      BY <2>a, <2>2 DEF GiveUp, Goes, setup
    <3>3. Explained(p)'
      BY <3>2 DEF Explained
    <3>4. QED
      BY <3>1, <3>3 DEF KeysExplained
  <2>3. CASE BeginRouted(p)
    <3>1. \A r \in Peers : r # p => Explained(r)'
      BY <2>a, <2>c, <2>3 DEF BeginRouted, Role
    <3>2. pc'[p] \notin {"answered", "done"}
      BY <2>a, <2>3 DEF BeginRouted, Role
    <3>3. Explained(p)'
      BY <3>2 DEF Explained
    <3>4. QED
      BY <3>1, <3>3 DEF KeysExplained
  <2>4. CASE BeginBridge(p)
    <3>1. \A r \in Peers : r # p => Explained(r)'
      BY <2>a, <2>c, <2>4 DEF BeginBridge, Role, Goes
    <3>2. pc'[p] \notin {"answered", "done"}
      BY <2>a, <2>4 DEF BeginBridge, Role, Goes
    <3>3. Explained(p)'
      BY <3>2 DEF Explained
    <3>4. QED
      BY <3>1, <3>3 DEF KeysExplained
  <2>5. CASE Probe(p)
    <3>1. \A r \in Peers : r # p => Explained(r)'
      BY <2>a, <2>c, <2>5 DEF Probe, Goes
    <3>2. pc'[p] \notin {"answered", "done"}
      BY <2>a, <2>5 DEF Probe, Goes
    <3>3. Explained(p)'
      BY <3>2 DEF Explained
    <3>4. QED
      BY <3>1, <3>3 DEF KeysExplained
  <2>6. CASE HearProbe(p)
    BY <2>6, <2>c DEF HearProbe, worker, KeysExplained
  <2>7. CASE HearAck(p)
    <3>1. \A r \in Peers : r # p => Explained(r)'
      BY <2>a, <2>c, <2>7 DEF HearAck, Role
    <3>2. pc'[p] \notin {"answered", "done"}
      BY <2>a, <2>7 DEF HearAck, Role
    <3>3. Explained(p)'
      BY <3>2 DEF Explained
    <3>4. QED
      BY <3>1, <3>3 DEF KeysExplained
  <2>8. CASE ProbeAgain(p)
    <3>1. \A r \in Peers : r # p => Explained(r)'
      BY <2>a, <2>c, <2>8 DEF ProbeAgain, Goes
    <3>2. pc'[p] \notin {"answered", "done"}
      BY <2>a, <2>8 DEF ProbeAgain, Goes
    <3>3. Explained(p)'
      BY <3>2 DEF Explained
    <3>4. QED
      BY <3>1, <3>3 DEF KeysExplained
  <2>9. CASE Offer(p)
    <3>1. \A r \in Peers : r # p => Explained(r)'
      BY <2>a, <2>c, <2>9 DEF Offer, Goes
    <3>2. pc'[p] \notin {"answered", "done"}
      BY <2>a, <2>9 DEF Offer, Goes
    <3>3. Explained(p)'
      BY <3>2 DEF Explained
    <3>4. QED
      BY <3>1, <3>3 DEF KeysExplained
  <2>10. CASE Hear(p)
    BY <2>10, <2>c DEF Hear, worker, KeysExplained
  <2>11. CASE LoseAnswer(p)
    BY <2>11, <2>c DEF LoseAnswer, worker, KeysExplained
  <2>12. CASE TakeAnswer(p)
    <3>1. \A r \in Peers : r # p => Explained(r)'
      BY <2>a, <2>c, <2>12 DEF TakeAnswer
    <3>2. PICK h : h = Head(ring[p]).msg
      OBVIOUS
    <3>3. SentBy(Other(p), h) /\ h \in Messages /\ h.by \in Names /\ h.to \in Names
      BY <3>2, <2>12, HeadProperty, HeadIsSent DEF TakeAnswer, Take, Messages
    <3>4. Other(p) \in Peers /\ Other(p) # p /\ Me(p) \in Names
      BY <2>12, OtherFacts, MeIsName DEF TakeAnswer, Up
    <3>5. CASE ~Accepts(p, "resp")
      BY <2>c, <2>12, <3>1, <3>5 DEF TakeAnswer, KeysExplained
    <3>6. CASE Accepts(p, "resp")
      <4>1. /\ h.by = <<Other(p), h.by[2]>> /\ h.by[2] \in 1..starts[Other(p)]
            /\ h.to = <<p, h.to[2]>> /\ h.to[2] \in 1..starts[p] /\ Answered(Other(p), h.by[2], h.to)
        BY <3>2, <3>3, <3>6, OtherFacts DEF Accepts, SentBy, Names
      <4>2. /\ starts' = starts /\ pc'[p] = "done" /\ initiator' = initiator /\ initiator[p]
            /\ key'[p] = Decapsulate(Me(p), h)
        BY <2>a, <2>12, <3>2, <3>6 DEF TakeAnswer, WorkerSteps
      <4>3. Answered(Other(p), h.by[2], h.to)'
        BY <2>b, <3>3, <3>4, <4>1 DEF Keeps
      <4>4. ASSUME h.to = Me(p) PROVE Explained(p)'
        <5>1. key'[p] = Shared(<<Other(p), h.by[2]>>)
          BY <4>1, <4>2, <4>4 DEF Decapsulate
        <5>2. \A pk : pk = Me(p)' => Answered(Other(p), h.by[2], pk)'
          BY <4>2, <4>3, <4>4 DEF Me
        <5>3. \E n \in 1..starts'[Other(p)] : key'[p] = Shared(<<Other(p), n>>) /\ Answered(Other(p), n, Me(p))'
          BY <4>1, <4>2, <5>1, <5>2
        <5>4. QED
          BY <4>2, <5>3 DEF Explained
      <4>5. ASSUME h.to # Me(p) PROVE Explained(p)'
        <5>1. h.to[2] # starts[p]
          BY <4>1, <4>5 DEF Me
        <5>2. starts[p] > 1
          BY <2>b, <4>1, <5>1
        <5>3. key'[p] = Rejected(Me(p))'
          BY <4>2, <4>5 DEF Decapsulate, Me, Rejected
        <5>4. QED
          BY <4>2, <5>2, <5>3 DEF Explained
      <4>6. QED
        BY <3>1, <4>4, <4>5 DEF KeysExplained
    <3>7. QED
      BY <3>5, <3>6
  <2>13. CASE OfferAgain(p)
    <3>1. \A r \in Peers : r # p => Explained(r)'
      BY <2>a, <2>c, <2>13 DEF OfferAgain, Goes
    <3>2. pc'[p] \notin {"answered", "done"}
      BY <2>a, <2>13 DEF OfferAgain, Goes
    <3>3. Explained(p)'
      BY <3>2 DEF Explained
    <3>4. QED
      BY <3>1, <3>3 DEF KeysExplained
  <2>14. CASE TakeOffer(p)
    <3>1. \A r \in Peers : r # p => Explained(r)'
      BY <2>a, <2>c, <2>14 DEF TakeOffer
    <3>2. PICK h : h = Head(ring[p]).msg
      OBVIOUS
    <3>3. SentBy(Other(p), h) /\ h \in Messages /\ h.by \in Names /\ h.to \in Names
      BY <3>2, <2>14, HeadProperty, HeadIsSent DEF TakeOffer, Take, Messages
    <3>4. Other(p) \in Peers /\ Other(p) # p /\ Me(p) \in Names
      BY <2>14, OtherFacts, MeIsName DEF TakeOffer, Up
    <3>5. CASE ~Accepts(p, "hello")
      BY <2>c, <2>14, <3>1, <3>5 DEF TakeOffer, KeysExplained
    <3>6. CASE Accepts(p, "hello")
      <4>1. h.by[1] = Other(p) /\ h.by[2] \in 1..starts[Other(p)] /\ Initiates(Other(p), h.by[2])
        BY <3>2, <3>3, <3>6 DEF Accepts, SentBy
      <4>2. starts' = starts /\ pc'[p] = "answered" /\ offer'[p] = h.by
        BY <2>a, <2>14, <3>2, <3>6 DEF TakeOffer
      <4>3. Initiates(Other(p), h.by[2])'
        BY <2>b, <3>4, <4>1 DEF Keeps
      <4>4. \A n : n = offer'[p][2] => Initiates(Other(p), n)'
        BY <4>2, <4>3
      <4>5. Explained(p)'
        BY <3>3, <4>1, <4>2, <4>4 DEF Explained
      <4>6. QED
        BY <3>1, <4>5 DEF KeysExplained
    <3>7. QED
      BY <3>5, <3>6
  <2>15. CASE StoreKey(p)
    <3>1. \A r \in Peers : r # p => Explained(r)'
      BY <2>a, <2>c, <2>15 DEF StoreKey, Goes
    <3>2. /\ starts' = starts /\ offer' = offer /\ pc[p] = "answered" /\ pc'[p] = "done"
          /\ initiator' = initiator /\ ~initiator[p] /\ key'[p] = Shared(Me(p))'
      BY <2>a, <2>15 DEF StoreKey, Goes, WorkerSteps, Shared, Me
    <3>3. Other(p) \in Peers
      BY OtherFacts
    <3>4. /\ offer[p] \in Names /\ offer[p][1] = Other(p) /\ offer[p][2] \in 1..starts[Other(p)]
          /\ \A n : n = offer[p][2] => Initiates(Other(p), n)'
      BY <2>b, <3>2, <3>3 DEF KeysExplained, Explained, Keeps
    <3>5. Initiates(Other(p), offer[p][2])'
      BY <3>2, <3>4
    <3>6. Explained(p)'
      BY <3>2, <3>4, <3>5 DEF Explained
    <3>7. QED
      BY <3>1, <3>6 DEF KeysExplained
  <2>16. QED
    BY <2>1, <2>2, <2>3, <2>4, <2>5, <2>6, <2>7, <2>8, <2>9, <2>10, <2>11, <2>12, <2>13, <2>14, <2>15
       DEF Discovery, Begin, Exchange, Mishap
<1>3. QED
  BY <1>1, <1>2

------------------------------------------------------------------------------
(* The inductive invariant and what follows from it. *)

LEMMA InitIInv == Init => IInv
<1> SUFFICES ASSUME Init PROVE IInv
  OBVIOUS
<1>1. TypeOK
  BY InitTypeOK
<1>2. \A p \in Peers : pc[p] = "off" /\ key[p] = NoKey /\ wire[p] = {} /\ ring[p] = <<>>
  BY DEF Init
<1>3. MailIsSent
  BY <1>2 DEF MailIsSent
<1>4. WorkerSteps
  BY <1>2 DEF WorkerSteps
<1>5. KeysExplained
  BY <1>2 DEF KeysExplained, Explained
<1>6. RolesResolved
  BY <1>2 DEF RolesResolved, Resolved
<1>7. QED
  BY <1>1, <1>3, <1>4, <1>5, <1>6 DEF IInv

LEMMA NextIInv == IInv /\ [Next]_vars => IInv'
  BY NextTypeOK, NextWorkerSteps, NextMail, NextKeysExplained, NextRoles DEF IInv

LEMMA Invariance == Spec => []IInv
  BY InitIInv, NextIInv, PTL DEF Spec

(* Every variable keeps the type the code gives it; the ring of a policy never *)
(* holds more than its size.                                                   *)
THEOREM TypeCorrect == Spec => []TypeOK
  BY Invariance, PTL DEF IInv

(* Never restarted and both ready, the two gateways use one key: whatever the  *)
(* roles, the losses, the delays and the tap.                                  *)
LEMMA IInvAgree == IInv => KeysAgree
<1> SUFFICES ASSUME IInv, \A p \in Peers : starts[p] = 1 /\ key[p] # NoKey
             PROVE  key[Higher] = key[Lower]
  BY DEF KeysAgree
<1>1. \A p \in Peers : pc[p] = "done" /\ Explained(p)
  BY DEF IInv, WorkerSteps, KeysExplained
<1>2. Higher \in Peers /\ Lower \in Peers /\ Other(Higher) = Lower /\ Other(Lower) = Higher
  BY GatewaysAssumption DEF Peers, Other
<1>3. \A p \in Peers : ~initiator[p] =>
        initiator[Other(p)] /\ key[p] = Shared(<<p, 1>>)
  BY <1>1, OtherFacts DEF Explained, Initiates, Me
<1>4. \A p \in Peers : initiator[p] =>
        ~initiator[Other(p)] /\ key[p] = Shared(<<Other(p), 1>>)
  <2> SUFFICES ASSUME NEW p \in Peers, initiator[p]
               PROVE  ~initiator[Other(p)] /\ key[p] = Shared(<<Other(p), 1>>)
    OBVIOUS
  <2>1. starts[p] = 1 /\ starts[Other(p)] = 1 /\ ~(starts[p] > 1)
    BY OtherFacts
  <2>a. pc[p] = "done" /\ Explained(p)
    BY <1>1
  <2>2. PICK n \in 1..starts[Other(p)] : key[p] = Shared(<<Other(p), n>>) /\ Answered(Other(p), n, Me(p))
    BY <2>1, <2>a DEF Explained
  <2>3. n = 1
    BY <2>1, <2>2
  <2>4. QED
    BY <2>1, <2>2, <2>3 DEF Answered
<1>5. QED
  BY <1>2, <1>3, <1>4

(* "Handshake SUCCESS" on both sides means one key (pqc_policy_handshake_worker_run). *)
THEOREM Agreement == Spec => []KeysAgree
  BY Invariance, IInvAgree, PTL

(* Two dynamic gateways are never both initiators, and both responders only    *)
(* after a mishap.                                                             *)
LEMMA IInvRoles == IInv => RolesComplement
  BY GatewaysAssumption DEF IInv, RolesResolved, RolesComplement, Peers

(* The roles that the addresses decide are opposite. *)
THEOREM Roles == Spec => []RolesComplement
  BY Invariance, IInvRoles, PTL

(* The key of an initiator is that of the answer of a peer that has it too or  *)
(* is about to store it.                                                       *)
LEMMA IInvProvenance == IInv => KeyWasAnswered
<1> SUFFICES ASSUME IInv, NEW p \in Peers, initiator[p], key[p] = Shared(Me(Other(p)))
             PROVE  /\ pc[Other(p)] = "answered" \/ key[Other(p)] = key[p]
                    /\ offer[Other(p)] = Me(p)
  BY DEF KeyWasAnswered
<1>1. pc[p] = "done" /\ Explained(p) /\ Other(p) \in Peers /\ Explained(Other(p))
  BY OtherFacts DEF IInv, WorkerSteps, KeysExplained, Shared, NoKey
<1>2. key[p] # Rejected(Me(p))
  BY DEF Shared, Rejected
<1>3. Answered(Other(p), starts[Other(p)], Me(p))
  <2>1. PICK n \in 1..starts[Other(p)] : key[p] = Shared(<<Other(p), n>>) /\ Answered(Other(p), n, Me(p))
    BY <1>1, <1>2 DEF Explained
  <2>2. Shared(<<Other(p), n>>).of = Shared(Me(Other(p))).of
    BY <2>1
  <2>3. n = starts[Other(p)]
    BY <2>2 DEF Shared, Me
  <2>4. QED
    BY <2>1, <2>3
<1>4. QED
  BY <1>1, <1>3 DEF Answered, Explained

(* A key of an initiator comes from an answer to its own offer. *)
THEOREM Provenance == Spec => []KeyWasAnswered
  BY Invariance, IInvProvenance, PTL

=============================================================================
