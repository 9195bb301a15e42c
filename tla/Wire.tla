-------------------------------- MODULE Wire ---------------------------------
(***************************************************************************)
(* What a packet looks like on the WAN (src/src/crypto/crypto_layer2.c,    *)
(* crypto_layer3.c, crypto_layer4.c, src/src/core/fragment.c): when it is  *)
(* cut in two halves and where, how long its frames are and what the IP    *)
(* header says of them, what the receiver makes of the frames, and what    *)
(* becomes of a frame that is decrypted with some other key or method.     *)
(*                                                                         *)
(* Lengths are in bytes and count the Ethernet header, as the code does.   *)
(* A packet (untagged IPv4) is a record                                    *)
(*   len     length of its frame, with the padding of short frames         *)
(*   total   the length its IP header states                               *)
(*   ihl     length of its IP header                                       *)
(*   ports   whether it is TCP or UDP                                      *)
(*   thl     length of its TCP or UDP header                               *)
(*   marked  byte 13 behind its IP header is the mark of an L3 half        *)
(*   accepted  its TTL is not 0 and its protocol one of the ten that the L2 *)
(*           receiver knows (ICMP, IGMP, TCP, UDP, GRE, ESP, AH, ICMPv6,   *)
(*           OSPF, SCTP)                                                   *)
(* A frame is [kind, len, total], kind being "plain" for a packet that is  *)
(* sent as it came, "whole" or "half"; total is 0 where L2 hides it.       *)
(***************************************************************************)
EXTENDS Integers, Sequences

Layers == {"L2", "L3", "L4"}
Methods == {"ctr", "gcm", "pqc"}

EthLen == 14
Nonce == 12                            \* PACKET_CRYPTO_NONCE_BYTES
FragTag == 4                           \* CRYPTO_L2_FRAG_TAG_SIZE and its siblings
PortLen == 4                           \* L4_WIRE_PORT_LEN
FragMtu == 1500                        \* FRAG_MTU, also counts the Ethernet header
HalfBuffer == 1600                     \* first, second of struct frag_entry
Shortest == 60                         \* a NIC fills up shorter frames
Longest == 1514                        \* what a WAN of MTU 1500 transmits

Packets == [len : Shortest..Longest, total : 20..FragMtu, ihl : 20..60, ports : BOOLEAN,
            thl : 0..60, marked : BOOLEAN, accepted : BOOLEAN]

Padded(p) == p.len # EthLen + p.total

(* An IPv4 packet whose headers fit; TCP has 20..60 bytes of header, UDP 8. *)
WellFormed(p) == /\ p \in Packets
                 /\ IF p.ports THEN p.thl \in {8} \cup 20..60 ELSE p.thl = 0
                 /\ p.total >= p.ihl + p.thl
                 /\ p.len >= EthLen + p.total
                 /\ Padded(p) => p.len = Shortest

TagLen(m) == IF m = "ctr" THEN 0 ELSE 16
TunnelLen == Nonce + 2                 \* L2: policy, worker, nonce; L3, L4: nonce, policy, mark

(* crypto_layerN_frag_meta_len: what a half carries besides headers and plain text *)
L2Meta(m) == TunnelLen + 1 + FragTag + TagLen(m)
L3Meta(m) == TunnelLen + FragTag + TagLen(m)
L4Meta(m) == PortLen + TunnelLen + FragTag + TagLen(m)
MetaLen(layer, m) == CASE layer = "L2" -> L2Meta(m) [] layer = "L3" -> L3Meta(m)
                       [] layer = "L4" -> L4Meta(m)

(* frag_need_split_l4 leaves the tag of the PQC method out. *)
SplitMeta(layer, m) == IF layer = "L4" /\ m = "pqc" THEN L4Meta("ctr") ELSE MetaLen(layer, m)

AnyPassesBelowMtu(layer, m, p) == p.len > FragMtu   \* mutant: what encryption adds is forgotten
NeedsSplit(layer, m, p) == p.len + SplitMeta(layer, m) > FragMtu

Frame(kind, len, total) == [kind |-> kind, len |-> len, total |-> total]
AsItCame(p) == Frame("plain", p.len, p.total)

------------------------------------------------------------------------------
(* A packet that is not cut: crypto_layerN_encrypt.  L2 hides the IP header, *)
(* L3 what follows it, L4 what follows the ports.                           *)
GrownByTag(m) == TagLen(m)             \* mutant: the tunnel header is forgotten
Grown(m) == TunnelLen + TagLen(m)

L2Whole(m, p) == Frame("whole", p.len + Grown(m), 0)

(* A packet that seems to be a half already is left as it is. *)
L3Whole(m, p) == IF p.marked THEN AsItCame(p)
                 ELSE Frame("whole", p.len + Grown(m), p.total + Grown(m))

(* Only TCP and UDP; the length in the IP header is that of the frame, and   *)
(* with PQC counts the tag twice.                                           *)
L4Whole(m, p) ==
  IF ~p.ports THEN AsItCame(p)
  ELSE Frame("whole", p.len + Grown(m),
             p.len - EthLen + Grown(m) + (IF m = "pqc" THEN TagLen(m) ELSE 0))

(* crypto_layerN_decrypt of these frames: the packet's length and total.  An *)
(* L2 frame hides the header of p; with CTR, which has no tag, the receiver   *)
(* looks at TTL and protocol instead (verify_ipv4_after_decrypt), and a       *)
(* packet it does not accept is dropped, the right key or not.               *)
Opened(len, total) == [len |-> len, total |-> total]
Lost == Opened(0, 0)
L2Opened(m, f, p) == IF m = "ctr" /\ ~p.accepted THEN Lost
                     ELSE Opened(f.len - (TunnelLen + TagLen(m)), p.total)
L3Opened(m, f) == Opened(f.len - (TunnelLen + TagLen(m)), f.total - (TunnelLen + TagLen(m)))
(* crypto_layer4_fixup_packet: everything behind the IP header counts. *)
Fixup(len) == Opened(len, len - EthLen)
L4Opened(m, f) == Fixup(f.len - (TunnelLen + TagLen(m)))

------------------------------------------------------------------------------
(* frag_split_and_encrypt*: the first half holds the IP header again.  L3    *)
(* and L4 only cut TCP and UDP.                                             *)
HalfOverhead(layer, m, p) == EthLen + (IF layer = "L2" THEN 0 ELSE p.ihl) + MetaLen(layer, m)
Fixed(p) == p.ihl + p.thl
App(p) == p.len - EthLen - Fixed(p)
Plain0(layer, m, p) == FragMtu - HalfOverhead(layer, m, p)

L2CanSplit(m, p) == App(p) > 0 /\ Plain0("L2", m, p) > Fixed(p)
L3CanSplit(m, p) == p.ports /\ App(p) > 0 /\ Plain0("L3", m, p) > Fixed(p)
L4CanSplit(m, p) == p.ports /\ App(p) > 0 /\ Plain0("L4", m, p) > Fixed(p)
CanSplit(layer, m, p) == CASE layer = "L2" -> L2CanSplit(m, p) [] layer = "L3" -> L3CanSplit(m, p)
                           [] layer = "L4" -> L4CanSplit(m, p)

Half1(layer, m, p) == LET room == Plain0(layer, m, p) - Fixed(p)
                      IN IF room >= App(p) THEN App(p) - 1 ELSE room
Half2(layer, m, p) == App(p) - Half1(layer, m, p)
Plain1(layer, m, p) == Fixed(p) + Half1(layer, m, p)

(* crypto_layerN_encrypt_fragment_single *)
L2Half(m, p, plain) == Frame("half", EthLen + L2Meta(m) + plain, 0)
L3Half(m, p, plain) == Frame("half", EthLen + p.ihl + L3Meta(m) + plain, p.ihl + L3Meta(m) + plain)
L4Half(m, p, plain) == Frame("half", EthLen + p.ihl + L4Meta(m) + plain,
                             p.ihl + L4Meta(m) + plain + (IF m = "pqc" THEN TagLen(m) ELSE 0))
Half(layer, m, p, plain) == CASE layer = "L2" -> L2Half(m, p, plain)
                              [] layer = "L3" -> L3Half(m, p, plain)
                              [] layer = "L4" -> L4Half(m, p, plain)

(* encrypt_to_wan: the frames of a packet, none if it is dropped *)
Frames(layer, m, p) ==
  IF NeedsSplit(layer, m, p)
  THEN IF CanSplit(layer, m, p)
       THEN <<Half(layer, m, p, Plain1(layer, m, p)), Half(layer, m, p, Half2(layer, m, p))>>
       ELSE <<>>
  ELSE <<CASE layer = "L2" -> L2Whole(m, p) [] layer = "L3" -> L3Whole(m, p)
           [] layer = "L4" -> L4Whole(m, p)>>

Arrived(f) == [f EXCEPT !.len = IF f.len < Shortest THEN Shortest ELSE f.len]

(* crypto_layerN_decrypt_fragment: how much plain text a half holds *)
L2HalfOpened(m, f) == f.len - EthLen - L2Meta(m)
L3HalfOpened(m, f, ihl) == f.len - (EthLen + ihl) - L3Meta(m)
L4HalfOpened(m, f, ihl) == f.len - (EthLen + ihl + PortLen) - (L4Meta(m) - PortLen)
HalfOpened(layer, m, f, ihl) == CASE layer = "L2" -> L2HalfOpened(m, f)
                                  [] layer = "L3" -> L3HalfOpened(m, f, ihl)
                                  [] layer = "L4" -> L4HalfOpened(m, f, ihl)

(* frag_try_reassemble*: what may be stored.  L2 wants 20 bytes of either half. *)
L2Stored(plain) == plain >= 20 /\ plain <= HalfBuffer
L3Stored(plain, first) == (first => plain >= 20) /\ plain <= HalfBuffer
L4Stored(plain, first) == (first => plain >= 28) /\ plain > 0 /\ plain <= HalfBuffer
Stored(layer, plain, first) == CASE layer = "L2" -> L2Stored(plain)
                                 [] layer = "L3" -> L3Stored(plain, first)
                                 [] layer = "L4" -> L4Stored(plain, first)

(* frag_emit_join: the first half with its Ethernet header, then the second; *)
(* the total is that of the header in the first half, L4 computes it anew.   *)
Joined(layer, p, a, b) == IF layer = "L4" THEN Fixup(EthLen + a + b) ELSE Opened(EthLen + a + b, p.total)

(* The packet the receiver with the same policy and key makes of the frames. *)
Received(layer, m, p, frames) ==
  LET f == [i \in DOMAIN frames |-> Arrived(frames[i])]
      Plain(i) == HalfOpened(layer, m, f[i], p.ihl)
  IN IF frames = <<>> THEN Lost
     ELSE IF Len(frames) = 2
     THEN IF Stored(layer, Plain(1), TRUE) /\ Stored(layer, Plain(2), FALSE)
          THEN Joined(layer, p, Plain(1), Plain(2)) ELSE Lost
     ELSE CASE f[1].kind = "plain"                   -> Opened(f[1].len, f[1].total)
            [] f[1].kind # "plain" /\ layer = "L2"   -> L2Opened(m, f[1], p)
            [] f[1].kind # "plain" /\ layer = "L3"   -> L3Opened(m, f[1])
            [] f[1].kind # "plain" /\ layer = "L4"   -> L4Opened(m, f[1])

------------------------------------------------------------------------------
(* Some key and method.  A frame is [layer, half, method, key, ports,        *)
(* accepted], the last two being those of its packet; GCM and PQC fail when   *)
(* the tag does not fit.  CTR never fails by itself: L2 looks at TTL and      *)
(* protocol of a whole packet, with the right key too, and the first half     *)
(* must look like IPv4 when it is stored; L3 looks at the ports, L4 at        *)
(* nothing.                                                                  *)
Outcomes == {"original", "garbage", "failed"}

L2Checked(fr) == fr.layer = "L2"
L3Checked(fr) == fr.layer = "L3" /\ (fr.ports \/ fr.half)
L4Checked(fr) == fr.layer = "L4" /\ fr.half

Refused(fr) == fr.layer = "L2" /\ ~fr.half /\ fr.method = "ctr" /\ ~fr.accepted

Decryptions(fr, method, key) ==
  IF method = fr.method /\ key = fr.key THEN (IF Refused(fr) THEN {"failed"} ELSE {"original"})
  ELSE IF method # "ctr" THEN {"failed"}
  ELSE {"garbage"} \cup (IF L2Checked(fr) \/ L3Checked(fr) \/ L4Checked(fr) THEN {"failed"} ELSE {})
==============================================================================
