------------------------- MODULE CryptoRuntime_proofs -------------------------
(***************************************************************************)
(* Proofs about the crypto runtime, for all configurations, packets and    *)
(* reloads.  Two invariants carry them.  KeysHeld: a context that is ready *)
(* holds the key of the policy at its place, in the tables, in their copy  *)
(* and in those a rebuild takes contexts from.  JobExplained: what the     *)
(* other worker has read still holds, or the step that rewrote it has      *)
(* marked the packet.  The arithmetic of module Wire comes first.          *)
(* For serving throughout a reload there are two more.  Rebuilding: which  *)
(* of the tables and their copy is complete at each step of a reload.      *)
(* Serving: while nothing has failed the first attempt of a packet is with *)
(* its key.  The ids in the frames come from recursive functions over the  *)
(* rows of the database, and the proofs about them from an induction over  *)
(* their length.                                                           *)
(***************************************************************************)
EXTENDS CryptoRuntime, TLAPS, WellFoundedInduction, FiniteSetTheorems

------------------------------------------------------------------------------
(* Lengths on the wire. *)

LEMMA MetaBounds ==
  ASSUME NEW layer \in Layers, NEW m \in Methods
  PROVE  /\ TagLen(m) \in Nat /\ TagLen(m) <= 16
         /\ MetaLen(layer, m) \in Nat /\ 18 <= MetaLen(layer, m) /\ MetaLen(layer, m) <= 38
         /\ SplitMeta(layer, m) \in Nat /\ 18 <= SplitMeta(layer, m) /\ SplitMeta(layer, m) <= 38
         /\ Grown(m) = 14 + TagLen(m)
BY DEF Layers, Methods, TagLen, MetaLen, SplitMeta, L2Meta, L3Meta, L4Meta, TunnelLen, Nonce,
       FragTag, PortLen, Grown

LEMMA Headers ==
  ASSUME NEW p, WellFormed(p)
  PROVE  /\ p.len \in Nat /\ 60 <= p.len /\ p.len <= 1514
         /\ p.total \in Nat /\ p.len >= 14 + p.total
         /\ p.ihl \in Nat /\ 20 <= p.ihl /\ p.ihl <= 60
         /\ Fixed(p) \in Nat /\ 20 <= Fixed(p) /\ Fixed(p) <= 120
         /\ p.ports => Fixed(p) >= 28
         /\ App(p) = p.len - (14 + Fixed(p)) /\ App(p) \in Nat
<1>1. /\ p.len \in Nat /\ 60 <= p.len /\ p.len <= 1514 /\ p.total \in Nat
      /\ p.ihl \in Nat /\ 20 <= p.ihl /\ p.ihl <= 60
      /\ p.thl \in Nat /\ 0 <= p.thl /\ p.thl <= 60 /\ p.ports \in BOOLEAN
  <2>1. p \in Packets BY DEF WellFormed
  <2>2. /\ p.len \in Shortest .. Longest /\ p.total \in 20 .. FragMtu
        /\ p.ihl \in 20 .. 60 /\ p.thl \in 0 .. 60 /\ p.ports \in BOOLEAN
    BY <2>1 DEF Packets
  <2>3. Shortest \in Nat /\ Longest \in Nat /\ FragMtu \in Nat
    BY DEF Shortest, Longest, FragMtu
  <2>4. /\ p.len \in Nat /\ Shortest <= p.len /\ p.len <= Longest
        /\ p.total \in Nat
    BY <2>2, <2>3
  <2>5. /\ p.ihl \in Nat /\ 20 <= p.ihl /\ p.ihl <= 60
        /\ p.thl \in Nat /\ 0 <= p.thl /\ p.thl <= 60
    BY <2>2
  <2> QED BY <2>2, <2>4, <2>5 DEF Shortest, Longest
<1>2. p.total >= p.ihl + p.thl /\ p.len >= 14 + p.total
  BY DEF WellFormed, EthLen
<1>3. p.ports => p.thl >= 8
  BY <1>1 DEF WellFormed
<1>4. Fixed(p) = p.ihl + p.thl
  BY DEF Fixed
<1>6. App(p) = p.len - (14 + Fixed(p))
  BY <1>1, <1>4 DEF App, EthLen
<1> QED BY <1>1, <1>2, <1>3, <1>4, <1>6

(* A packet that is not cut grows by its tunnel header and tag, or not. *)
LEMMA WholeFrames ==
  ASSUME NEW layer \in Layers, NEW m \in Methods, NEW p, WellFormed(p), ~NeedsSplit(layer, m, p)
  PROVE  /\ Frames(layer, m, p) = <<Frames(layer, m, p)[1]>>
         /\ Frames(layer, m, p)[1].len \in Nat
         /\ p.len <= Frames(layer, m, p)[1].len /\ Frames(layer, m, p)[1].len <= Longest
<1>0. /\ TagLen(m) \in Nat /\ TagLen(m) <= 16 /\ Grown(m) = 14 + TagLen(m)
      /\ SplitMeta(layer, m) \in Nat /\ 18 <= SplitMeta(layer, m)
      /\ p.len \in Nat /\ p.len <= 1514
  BY MetaBounds, Headers
<1>1. p.len + 14 + TagLen(m) <= 1514
  BY <1>0 DEF NeedsSplit, FragMtu
<1>2. CASE layer = "L2"
  BY <1>0, <1>1, <1>2 DEF Frames, L2Whole, Frame, Longest
<1>3. CASE layer = "L3"
  BY <1>0, <1>1, <1>3 DEF Frames, L3Whole, AsItCame, Frame, Longest
<1>4. CASE layer = "L4"
  BY <1>0, <1>1, <1>4 DEF Frames, L4Whole, AsItCame, Frame, Longest
<1> QED BY <1>2, <1>3, <1>4 DEF Layers

(* Where a packet is cut: the first half fills a frame of FragMtu unless it  *)
(* holds all but one byte, and the second half holds what is left.           *)
LEMMA CutInTwo ==
  ASSUME NEW layer \in Layers, NEW m \in Methods, NEW p, WellFormed(p),
         NeedsSplit(layer, m, p), CanSplit(layer, m, p)
  PROVE  /\ HalfOverhead(layer, m, p) \in Nat
         /\ 32 <= HalfOverhead(layer, m, p) /\ HalfOverhead(layer, m, p) <= 112
         /\ Plain1(layer, m, p) \in Nat /\ 80 <= Plain1(layer, m, p)
         /\ Plain1(layer, m, p) + HalfOverhead(layer, m, p) <= 1500
         /\ Half2(layer, m, p) \in Nat /\ 1 <= Half2(layer, m, p) /\ Half2(layer, m, p) <= 224
         /\ Plain1(layer, m, p) + Half2(layer, m, p) = p.len - 14
         /\ layer # "L2" => p.ports
<1>0. /\ MetaLen(layer, m) \in Nat /\ 18 <= MetaLen(layer, m) /\ MetaLen(layer, m) <= 38
      /\ SplitMeta(layer, m) \in Nat /\ SplitMeta(layer, m) <= 38
      /\ p.len \in Nat /\ p.len <= 1514 /\ p.ihl \in Nat /\ 20 <= p.ihl /\ p.ihl <= 60
      /\ Fixed(p) \in Nat /\ 20 <= Fixed(p) /\ Fixed(p) <= 120
      /\ App(p) = p.len - (14 + Fixed(p)) /\ App(p) \in Nat
  BY MetaBounds, Headers
<1> DEFINE over == HalfOverhead(layer, m, p)
           room == 1500 - over - Fixed(p)
<1>1. over \in Nat /\ 32 <= over /\ over <= 112
  BY <1>0 DEF HalfOverhead, EthLen, Layers
<1>2. 1463 <= p.len
  BY <1>0 DEF NeedsSplit, FragMtu
<1>3. App(p) > 0 /\ 1500 - over > Fixed(p) /\ (layer # "L2" => p.ports)
  <2>1. CASE layer = "L2" BY <2>1 DEF CanSplit, L2CanSplit, Plain0, FragMtu
  <2>2. CASE layer = "L3" BY <2>2 DEF CanSplit, L3CanSplit, Plain0, FragMtu
  <2>3. CASE layer = "L4" BY <2>3 DEF CanSplit, L4CanSplit, Plain0, FragMtu
  <2> QED BY <2>1, <2>2, <2>3 DEF Layers
<1>4. Half1(layer, m, p) = IF room >= App(p) THEN App(p) - 1 ELSE room
  BY DEF Half1, Plain0, FragMtu
<1>7. Half2(layer, m, p) = App(p) - Half1(layer, m, p) /\ Plain1(layer, m, p) = Fixed(p) + Half1(layer, m, p)
  BY DEF Half2, Plain1
<1> HIDE DEF over
<1>5. room \in Int /\ room > 0
  BY <1>1, <1>3, <1>0
<1>6. Half1(layer, m, p) \in Nat /\ 60 <= Half1(layer, m, p) /\ Half1(layer, m, p) <= room
  BY <1>1, <1>2, <1>4, <1>5, <1>0
<1>8. Half2(layer, m, p) \in Nat /\ 1 <= Half2(layer, m, p) /\ Half2(layer, m, p) <= 224
  BY <1>0, <1>1, <1>2, <1>3, <1>4, <1>5, <1>7
<1>9. Plain1(layer, m, p) \in Nat /\ 80 <= Plain1(layer, m, p) /\ Plain1(layer, m, p) + over <= 1500
  BY <1>0, <1>1, <1>6, <1>7
<1>10. Plain1(layer, m, p) + Half2(layer, m, p) = p.len - 14
  BY <1>0, <1>2, <1>6, <1>7
<1> QED
  BY <1>1, <1>3, <1>8, <1>9, <1>10 DEF over

(* The frames of a packet that is cut. *)
LEMMA TwoFrames ==
  ASSUME NEW layer \in Layers, NEW m \in Methods, NEW p, WellFormed(p),
         NeedsSplit(layer, m, p), CanSplit(layer, m, p)
  PROVE  /\ Frames(layer, m, p) = <<Half(layer, m, p, Plain1(layer, m, p)),
                                    Half(layer, m, p, Half2(layer, m, p))>>
         /\ \A plain \in Nat : Half(layer, m, p, plain).len = HalfOverhead(layer, m, p) + plain
<1>1. /\ MetaLen(layer, m) \in Nat /\ p.ihl \in Nat
  BY MetaBounds, Headers
<1>2. ASSUME NEW plain \in Nat PROVE Half(layer, m, p, plain).len = HalfOverhead(layer, m, p) + plain
  <2>1. CASE layer = "L2"
    BY <1>1, <2>1 DEF Half, L2Half, Frame, HalfOverhead, EthLen, MetaLen
  <2>2. CASE layer = "L3"
    BY <1>1, <2>2 DEF Half, L3Half, Frame, HalfOverhead, EthLen, MetaLen
  <2>3. CASE layer = "L4"
    BY <1>1, <2>3 DEF Half, L4Half, Frame, HalfOverhead, EthLen, MetaLen
  <2> QED BY <2>1, <2>2, <2>3 DEF Layers
<1> QED BY <1>2 DEF Frames

LEMMA FramesBound ==
  ASSUME NEW layer \in Layers, NEW m \in Methods, NEW p, WellFormed(p),
         NEW i \in DOMAIN Frames(layer, m, p)
  PROVE  Frames(layer, m, p)[i].len \in 1 .. Longest
<1>1. CASE ~NeedsSplit(layer, m, p)
  BY <1>1, WholeFrames, Headers
<1>2. CASE NeedsSplit(layer, m, p) /\ ~CanSplit(layer, m, p)
  BY <1>2 DEF Frames
<1>3. CASE NeedsSplit(layer, m, p) /\ CanSplit(layer, m, p)
  <2> DEFINE a == Plain1(layer, m, p)
             b == Half2(layer, m, p)
             over == HalfOverhead(layer, m, p)
  <2>1. a \in Nat /\ b \in Nat /\ over \in Nat /\ a + over <= 1500 /\ b <= 224 /\ 32 <= over /\ over <= 112
    BY <1>3, CutInTwo
  <2>2. Frames(layer, m, p) = <<Half(layer, m, p, a), Half(layer, m, p, b)>>
    BY <1>3, TwoFrames
  <2>3. Half(layer, m, p, a).len = over + a /\ Half(layer, m, p, b).len = over + b
    BY <1>3, <2>1, TwoFrames
  <2> HIDE DEF a, b, over
  <2>4. Half(layer, m, p, a).len \in 1 .. Longest /\ Half(layer, m, p, b).len \in 1 .. Longest
    BY <2>1, <2>3 DEF Longest
  <2> QED BY <2>2, <2>4
<1> QED BY <1>1, <1>2, <1>3

(* What comes back of a packet that was not cut. *)
LEMMA WholeComesBack ==
  ASSUME NEW layer \in Layers, NEW m \in Methods, NEW p, WellFormed(p), ~NeedsSplit(layer, m, p),
         layer = "L4" => ~Padded(p),
         layer = "L2" /\ m = "ctr" => p.accepted
  PROVE  Received(layer, m, p, Frames(layer, m, p)) = [len |-> p.len, total |-> p.total]
<1> DEFINE f == Frames(layer, m, p)[1]
<1>0. /\ TagLen(m) \in Nat /\ Grown(m) = 14 + TagLen(m) /\ TunnelLen = 14
      /\ p.len \in Nat /\ 60 <= p.len /\ p.total \in Nat
  BY MetaBounds, Headers DEF TunnelLen, Nonce
<1>1. Frames(layer, m, p) = <<f>> /\ f.len \in Nat /\ 60 <= f.len
  BY <1>0, WholeFrames
<1>2. CASE layer = "L2"
  <2>1. f = L2Whole(m, p) BY <1>2 DEF Frames
  <2>2. Arrived(f) = f BY <1>1, <2>1 DEF Arrived, Shortest, L2Whole, Frame
  <2>3. Received(layer, m, p, <<f>>) = L2Opened(m, f, p)
    BY <1>2, <2>1, <2>2 DEF Received, L2Whole, Frame
  <2> QED BY <1>0, <1>1, <1>2, <2>1, <2>3 DEF L2Opened, Opened, L2Whole, Frame
<1>3. CASE layer = "L3"
  <2>1. f = L3Whole(m, p) BY <1>3 DEF Frames
  <2>2. Arrived(f) = f BY <1>1, <2>1 DEF Arrived, Shortest, L3Whole, AsItCame, Frame
  <2>3. CASE p.marked
    <3>1. f = AsItCame(p) BY <2>1, <2>3 DEF L3Whole
    <3>2. f.kind = "plain" /\ f.len = p.len /\ f.total = p.total BY <3>1 DEF AsItCame, Frame
    <3>3. Received(layer, m, p, <<f>>) = Opened(f.len, f.total)
      BY <2>2, <3>2 DEF Received
    <3> QED BY <1>1, <3>2, <3>3 DEF Opened
  <2>4. CASE ~p.marked
    <3>1. f = Frame("whole", p.len + Grown(m), p.total + Grown(m)) BY <2>1, <2>4 DEF L3Whole
    <3>2. Received(layer, m, p, <<f>>) = L3Opened(m, f)
      BY <1>3, <2>2, <3>1 DEF Received, Frame
    <3> QED BY <1>0, <1>1, <3>1, <3>2 DEF L3Opened, Opened, Frame
  <2> QED BY <2>3, <2>4
<1>4. CASE layer = "L4"
  <2>1. f = L4Whole(m, p) BY <1>4 DEF Frames
  <2>2. Arrived(f) = f BY <1>1, <2>1 DEF Arrived, Shortest, L4Whole, AsItCame, Frame
  <2>3. CASE ~p.ports
    <3>1. f = AsItCame(p) BY <2>1, <2>3 DEF L4Whole
    <3>2. f.kind = "plain" /\ f.len = p.len /\ f.total = p.total BY <3>1 DEF AsItCame, Frame
    <3>3. Received(layer, m, p, <<f>>) = Opened(f.len, f.total)
      BY <2>2, <3>2 DEF Received
    <3> QED BY <1>1, <3>2, <3>3 DEF Opened
  <2>4. CASE p.ports
    <3>1. f.len = p.len + Grown(m) /\ f.kind = "whole" BY <2>1, <2>4 DEF L4Whole, Frame
    <3>2. Received(layer, m, p, <<f>>) = L4Opened(m, f)
      BY <1>4, <2>2, <3>1 DEF Received
    <3>3. f.len - (TunnelLen + TagLen(m)) = p.len BY <1>0, <3>1
    <3>4. p.len - EthLen = p.total BY <1>0, <1>4 DEF Padded, EthLen
    <3> QED BY <1>1, <3>2, <3>3, <3>4 DEF L4Opened, Fixup, Opened
  <2> QED BY <2>3, <2>4
<1> QED BY <1>2, <1>3, <1>4 DEF Layers

(* A packet that was not cut and that verify_ipv4_after_decrypt does not      *)
(* accept: the layer 2 receiver of a CTR frame drops it, though its key is    *)
(* the right one.                                                            *)
LEMMA RefusedIsLost ==
  ASSUME NEW p, WellFormed(p), ~NeedsSplit("L2", "ctr", p), ~p.accepted
  PROVE  Received("L2", "ctr", p, Frames("L2", "ctr", p)) = Lost
<1> DEFINE f == Frames("L2", "ctr", p)[1]
<1>1. Frames("L2", "ctr", p) = <<f>> /\ f.len \in Nat /\ 60 <= f.len
  BY WholeFrames, Headers DEF Layers, Methods
<1>2. f = L2Whole("ctr", p) BY DEF Frames
<1>3. Arrived(f) = f BY <1>1, <1>2 DEF Arrived, Shortest, L2Whole, Frame
<1>4. Received("L2", "ctr", p, <<f>>) = L2Opened("ctr", f, p)
  BY <1>2, <1>3 DEF Received, L2Whole, Frame
<1> QED BY <1>1, <1>4 DEF L2Opened

(* What comes back of a packet that was cut. *)
LEMMA HalvesComeBack ==
  ASSUME NEW layer \in Layers, NEW m \in Methods, NEW p, WellFormed(p),
         NeedsSplit(layer, m, p), CanSplit(layer, m, p),
         layer = "L4" => ~Padded(p),
         Frames(layer, m, p)[2].len >= Shortest,
         layer = "L2" => Half2(layer, m, p) >= 20
  PROVE  Received(layer, m, p, Frames(layer, m, p)) = [len |-> p.len, total |-> p.total]
<1> DEFINE a == Plain1(layer, m, p)
           b == Half2(layer, m, p)
           over == HalfOverhead(layer, m, p)
           f == Half(layer, m, p, a)
           g == Half(layer, m, p, b)
<1>0. /\ MetaLen(layer, m) \in Nat /\ p.ihl \in Nat /\ p.len \in Nat /\ p.total \in Nat
  BY MetaBounds, Headers
<1>1. /\ a \in Nat /\ 80 <= a /\ b \in Nat /\ 1 <= b /\ b <= 224
      /\ over \in Nat /\ a + over <= 1500 /\ a + b = p.len - 14
  BY CutInTwo
<1>2. Frames(layer, m, p) = <<f, g>>
  BY TwoFrames
<1>3. f.len = over + a /\ g.len = over + b
  BY <1>1, TwoFrames
<1>4. Arrived(f) = f /\ Arrived(g) = g
  <2>1. f.len >= Shortest /\ g.len >= Shortest
    BY <1>1, <1>2, <1>3 DEF Shortest
  <2>2. /\ f = Frame(f.kind, f.len, f.total) /\ g = Frame(g.kind, g.len, g.total)
    BY DEF Half, L2Half, L3Half, L4Half, Frame, Layers
  <2> HIDE DEF f, g
  <2>3. ~(f.len < Shortest) /\ ~(g.len < Shortest)
    BY <1>1, <1>3, <2>1 DEF Shortest
  <2> QED BY <2>2, <2>3 DEF Arrived, Frame
<1>5. HalfOpened(layer, m, f, p.ihl) = a /\ HalfOpened(layer, m, g, p.ihl) = b
  <2> HIDE DEF f, g, a, b
  <2>1. CASE layer = "L2"
    BY <1>0, <1>1, <1>3, <2>1 DEF HalfOpened, L2HalfOpened, over, HalfOverhead, MetaLen, EthLen
  <2>2. CASE layer = "L3"
    BY <1>0, <1>1, <1>3, <2>2 DEF HalfOpened, L3HalfOpened, over, HalfOverhead, MetaLen, EthLen
  <2>3. CASE layer = "L4"
    BY <1>0, <1>1, <1>3, <2>3 DEF HalfOpened, L4HalfOpened, over, HalfOverhead, MetaLen, EthLen, PortLen
  <2> QED BY <2>1, <2>2, <2>3 DEF Layers
<1>6. Stored(layer, a, TRUE) /\ Stored(layer, b, FALSE)
  <2> HIDE DEF a
  <2>1. CASE layer = "L2" BY <1>1, <2>1 DEF Stored, L2Stored, HalfBuffer
  <2>2. CASE layer = "L3" BY <1>1, <2>2 DEF Stored, L3Stored, HalfBuffer
  <2>3. CASE layer = "L4" BY <1>1, <2>3 DEF Stored, L4Stored, HalfBuffer
  <2> QED BY <2>1, <2>2, <2>3 DEF Layers
<1> HIDE DEF f, g, a, b, over
<1>7. Received(layer, m, p, <<f, g>>) = Joined(layer, p, a, b)
  <2> DEFINE fs == <<f, g>>
             arrived == [i \in DOMAIN fs |-> Arrived(fs[i])]
  <2>1. arrived[1] = f /\ arrived[2] = g /\ Len(fs) = 2 /\ fs # <<>>
    BY <1>4
  <2>2. /\ HalfOpened(layer, m, arrived[1], p.ihl) = a
        /\ HalfOpened(layer, m, arrived[2], p.ihl) = b
    BY <1>5, <2>1
  <2>3. Received(layer, m, p, fs) =
          IF /\ Stored(layer, HalfOpened(layer, m, arrived[1], p.ihl), TRUE)
             /\ Stored(layer, HalfOpened(layer, m, arrived[2], p.ihl), FALSE)
          THEN Joined(layer, p, HalfOpened(layer, m, arrived[1], p.ihl),
                      HalfOpened(layer, m, arrived[2], p.ihl))
          ELSE Lost
    BY <2>1 DEF Received
  <2> QED BY <1>6, <2>2, <2>3
<1>8. EthLen + a + b = p.len
  BY <1>0, <1>1 DEF EthLen
<1>9. layer = "L4" => p.len - EthLen = p.total
  BY <1>0 DEF Padded, EthLen
<1> QED BY <1>2, <1>7, <1>8, <1>9 DEF Joined, Fixup, Opened

(* Half of less than twenty bytes: the layer 2 receiver refuses it, whatever *)
(* the packet.                                                               *)
LEMMA ShortHalfIsLost ==
  ASSUME NEW m \in Methods, NEW p, WellFormed(p), NeedsSplit("L2", m, p), CanSplit("L2", m, p),
         Half2("L2", m, p) < 20, Frames("L2", m, p)[2].len >= Shortest
  PROVE  Received("L2", m, p, Frames("L2", m, p)) = Lost
<1> DEFINE b == Half2("L2", m, p)
           f == Half("L2", m, p, Plain1("L2", m, p))
           g == Half("L2", m, p, b)
           over == HalfOverhead("L2", m, p)
           fs == <<f, g>>
           arrived == [i \in DOMAIN fs |-> Arrived(fs[i])]
<1>0. "L2" \in Layers BY DEF Layers
<1>1. b \in Nat /\ b < 20 /\ over \in Nat /\ MetaLen("L2", m) \in Nat
  BY <1>0, CutInTwo, MetaBounds
<1>2. Frames("L2", m, p) = fs /\ g.len = over + b
  BY <1>0, <1>1, TwoFrames
<1>3. g = Frame("half", g.len, g.total)
  BY DEF Half, L2Half, Frame
<1>4. Arrived(g) = g
  <2> HIDE DEF g
  <2>1. ~(g.len < Shortest) BY <1>1, <1>2 DEF Shortest
  <2> QED BY <1>3, <2>1 DEF Arrived, Frame
<1>5. HalfOpened("L2", m, arrived[2], p.ihl) = b
  <2> HIDE DEF b
  <2> QED BY <1>1, <1>2, <1>4 DEF HalfOpened, L2HalfOpened, HalfOverhead, MetaLen, EthLen
<1>6. ~Stored("L2", b, FALSE)
  <2> HIDE DEF b
  <2> QED BY <1>1 DEF Stored, L2Stored
<1> HIDE DEF f, g
<1>7. Len(fs) = 2 /\ fs # <<>> OBVIOUS
<1> QED BY <1>2, <1>5, <1>6, <1>7 DEF Received

------------------------------------------------------------------------------
(* The index names a policy of the layer with the id. *)
LEMMA MaxOfBounded ==
  ASSUME NEW n \in Nat, NEW S, S \subseteq 1 .. n, S # {}
  PROVE  Max(S) \in S
<1> DEFINE T == {n - i : i \in S}
           R == OpToRel(<, Nat)
<1>1. \A i \in S : i \in Nat /\ n - i \in Nat
  OBVIOUS
<1>2. T \subseteq Nat /\ T # {}
  BY <1>1
<1>3. PICK x \in T : \A y \in T : ~(<<y, x>> \in R)
  BY <1>2, WFMin, NatLessThanWellFounded
<1>4. \A y \in T : ~(y < x)
  BY <1>2, <1>3 DEF OpToRel
<1>5. PICK i \in S : x = n - i
  OBVIOUS
<1>6. ASSUME NEW j \in S PROVE i >= j
  <2>1. ~(n - j < n - i) BY <1>4, <1>5
  <2> QED BY <1>1, <2>1
<1> QED BY <1>6 DEF Max

(* Functions with these domains: EXCEPT keeps what it does not name. *)
Has(r, fields) == DOMAIN r = fields /\ r = [f \in fields |-> r[f]]
CtxFields == {"pqc", "key", "db", "profile"}
TableFields == {"of", "count", "indexed", "ready", "ctx", "owners"}
IsCtx(x) == Has(x, CtxFields) /\ x.pqc \in BOOLEAN
IsTables(t) == Has(t, TableFields)

(* A policy and a context for it: an AES context holds the policy's key.    *)
Fits(cp, x) == (x.pqc <=> cp.method = "pqc") /\ (cp.method # "pqc" => x.key = cp.key)

Bounded(t) == /\ t.of \in Configs \cup {EmptyConfig}
              /\ t.count \in Nat /\ t.count <= Len(t.of.policies)
              /\ t.indexed \in Nat /\ t.indexed <= t.count
              /\ t.ready \subseteq 1 .. t.indexed
CtxTyped(ctx) == /\ ctx = [i \in Positions1 |-> ctx[i]]
                 /\ \A i \in Positions1 : IsCtx(ctx[i])
KeysHeld(t) == \A i \in t.ready : Fits(t.of.policies[i], t.ctx[i])
Good(t) == IsTables(t) /\ Bounded(t) /\ CtxTyped(t.ctx) /\ KeysHeld(t)

LEMMA ConfigFacts ==
  ASSUME NEW c \in Configs \cup {EmptyConfig}
  PROVE  /\ Len(c.policies) \in Nat /\ Len(c.policies) <= MaxPolicies
         /\ DOMAIN c.policies = 1 .. Len(c.policies)
         /\ \A i \in DOMAIN c.policies :
              LET cp == c.policies[i]
              IN /\ cp.action \in Layers \cup {"bypass"} /\ cp.method \in Methods
                 /\ cp.method = "pqc" => cp.key = ZeroKey /\ PqcKey(cp.db) # ZeroKey
BY CryptoAssumption, DbConfigAssumption DEF EmptyConfig

LEMMA ReadyFacts ==
  ASSUME NEW t, Bounded(t), NEW i \in t.ready
  PROVE  i \in 1 .. t.count /\ i \in Positions1 /\ i \in DOMAIN t.of.policies
<1>1. /\ t.of \in Configs \cup {EmptyConfig} /\ t.count \in Nat /\ t.count <= Len(t.of.policies)
      /\ t.indexed \in Nat /\ t.indexed <= t.count /\ i \in 1 .. t.indexed
  BY DEF Bounded
<1>2. /\ Len(t.of.policies) \in Nat /\ Len(t.of.policies) <= MaxPolicies /\ MaxPolicies \in Nat
      /\ DOMAIN t.of.policies = 1 .. Len(t.of.policies)
  BY <1>1, ConfigFacts, DbConfigAssumption
<1> QED BY <1>1, <1>2 DEF Positions1

LEMMA EmptyIsGood ==
  ASSUME NEW c \in Configs \cup {EmptyConfig}, NEW ctx, CtxTyped(ctx)
  PROVE  Good(Cleared(c, ctx))
<1> DEFINE u == Cleared(c, ctx)
<1>1. /\ IsTables(u) /\ u.of = c /\ u.count = 0 /\ u.indexed = 0 /\ u.ready = {} /\ u.ctx = ctx
  BY DEF IsTables, Has, TableFields, Cleared
<1> HIDE DEF u
<1>2. Bounded(u) BY <1>1, ConfigFacts DEF Bounded
<1>3. KeysHeld(u) BY <1>1 DEF KeysHeld
<1> QED BY <1>1, <1>2, <1>3 DEF Good, u

LEMMA NoTablesGood == Good(EmptyTables(EmptyConfig))
<1> DEFINE none == [i \in Positions1 |-> NoCtx]
<1>1. CtxTyped(none) BY DEF CtxTyped, IsCtx, Has, CtxFields, NoCtx
<1> HIDE DEF none
<1>2. Good(Cleared(EmptyConfig, none)) BY <1>1, EmptyIsGood
<1> QED BY <1>2 DEF EmptyTables, none

LEMMA FreshCtxFits ==
  ASSUME NEW cp PROVE IsCtx(FreshCtx(cp)) /\ Fits(cp, FreshCtx(cp))
BY DEF FreshCtx, NoCtx, IsCtx, Has, CtxFields, Fits

(* Rebuilding one place. *)
LEMMA FilledIsGood ==
  ASSUME NEW t, Good(t), NEW old, Good(old), t.indexed >= 1
  PROVE  LET u == Filled(t, old, t.indexed)
         IN /\ Good(u)
            /\ u.of = t.of /\ u.count = t.count /\ u.indexed = t.indexed
            /\ u.owners = t.owners /\ t.ready \subseteq u.ready
            /\ \A i \in Positions1 \ {t.indexed} : u.ctx[i] = t.ctx[i]
<1> DEFINE n == t.indexed
           cp == t.of.policies[n]
           o == Index(old, cp.action, cp.id)
           With(x) == [t EXCEPT !.ctx[n] = x, !.ready = @ \cup {n}]
           Done(u) == /\ Good(u)
                      /\ u.of = t.of /\ u.count = t.count /\ u.indexed = t.indexed
                      /\ u.owners = t.owners /\ t.ready \subseteq u.ready
                      /\ \A i \in Positions1 \ {n} : u.ctx[i] = t.ctx[i]
<1>0. /\ IsTables(t) /\ Bounded(t) /\ CtxTyped(t.ctx) /\ KeysHeld(t)
      /\ Bounded(old) /\ CtxTyped(old.ctx) /\ KeysHeld(old)
  BY DEF Good
<1>1. n \in Nat /\ n \in 1 .. n /\ n \in Positions1
  <2>1. n \in Nat /\ t.count \in Nat /\ n <= t.count /\ t.count <= Len(t.of.policies)
    BY <1>0 DEF Bounded
  <2>2. Len(t.of.policies) \in Nat /\ Len(t.of.policies) <= MaxPolicies /\ MaxPolicies \in Nat
    BY <1>0, ConfigFacts, DbConfigAssumption DEF Bounded
  <2> QED BY <2>1, <2>2 DEF Positions1
<1>2. ASSUME NEW x, IsCtx(x), Fits(cp, x)
      PROVE  Done(With(x))
  <2> DEFINE u == With(x)
             ctx == [t.ctx EXCEPT ![n] = x]
  <2>1. /\ u.of = t.of /\ u.count = t.count /\ u.indexed = t.indexed
        /\ u.ready = t.ready \cup {n} /\ u.ctx = ctx /\ u.owners = t.owners
    BY <1>0 DEF IsTables, Has, TableFields
  <2>2. CtxTyped(ctx) /\ ctx[n] = x /\ \A i \in Positions1 \ {n} : ctx[i] = t.ctx[i]
    BY <1>0, <1>1, <1>2 DEF CtxTyped
  <2>3. Bounded(u) BY <1>0, <1>1, <2>1 DEF Bounded
  <2>4. KeysHeld(u)
    <3>1. ASSUME NEW i \in t.ready, i # n PROVE Fits(t.of.policies[i], ctx[i])
      BY <1>0, <2>2, <3>1, ReadyFacts DEF KeysHeld
    <3> QED BY <1>2, <2>1, <2>2, <3>1 DEF KeysHeld
  <2>5. IsTables(u) BY <1>0 DEF IsTables, Has, TableFields
  <2> HIDE DEF ctx, With
  <2> QED BY <2>1, <2>2, <2>3, <2>4, <2>5 DEF Good
<1>3. CASE ~Encrypts(cp)
  BY <1>3 DEF Filled
<1>4. CASE Encrypts(cp) /\ Reusable(old, o, cp)
  <2>1. o \in old.ready /\ o \in Positions1
    BY <1>0, <1>4, ReadyFacts DEF Reusable, Ready
  <2>2. IsCtx(old.ctx[o]) /\ Fits(cp, old.ctx[o])
    BY <1>0, <1>4, <2>1 DEF Reusable, KeysHeld, Fits, CtxTyped
  <2>3. Filled(t, old, n) = With(old.ctx[o])
    BY <1>4 DEF Filled
  <2>4. Done(With(old.ctx[o]))
    <3> HIDE DEF Done, With, cp, o
    <3> QED BY <1>2, <2>2
  <2> QED BY <2>3, <2>4
<1>5. CASE Encrypts(cp) /\ ~Reusable(old, o, cp) /\ (cp.method = "pqc" \/ cp.key # ZeroKey)
  <2>1. Filled(t, old, n) = With(FreshCtx(cp))
    BY <1>5 DEF Filled
  <2>2. Done(With(FreshCtx(cp)))
    <3>1. IsCtx(FreshCtx(cp)) /\ Fits(cp, FreshCtx(cp)) BY FreshCtxFits
    <3> HIDE DEF Done, With, cp
    <3> QED BY <1>2, <3>1
  <2> QED BY <2>1, <2>2
<1>6. CASE Encrypts(cp) /\ ~Reusable(old, o, cp) /\ ~(cp.method = "pqc" \/ cp.key # ZeroKey)
  BY <1>6 DEF Filled
<1> QED BY <1>3, <1>4, <1>5, <1>6

(* Contexts may change as long as those that are ready keep method and key. *)
LEMMA SameKeys ==
  ASSUME NEW t, Good(t), NEW u, IsTables(u),
         u.of = t.of, u.count = t.count, u.indexed = t.indexed, u.ready = t.ready, CtxTyped(u.ctx),
         \A i \in t.ready : /\ u.ctx[i].pqc = t.ctx[i].pqc
                            /\ ~t.ctx[i].pqc => u.ctx[i].key = t.ctx[i].key
  PROVE  Good(u)
<1>1. Bounded(t) /\ KeysHeld(t) /\ CtxTyped(t.ctx) BY DEF Good
<1>2. Bounded(u) BY <1>1 DEF Bounded
<1>3. ASSUME NEW i \in t.ready PROVE Fits(u.of.policies[i], u.ctx[i])
  <2>1. i \in Positions1 BY <1>1, ReadyFacts
  <2>2. Fits(t.of.policies[i], t.ctx[i]) /\ t.ctx[i].pqc \in BOOLEAN /\ u.ctx[i].pqc \in BOOLEAN
    BY <1>1, <2>1 DEF KeysHeld, CtxTyped, IsCtx
  <2> QED BY <2>2 DEF Fits
<1>4. KeysHeld(u) BY <1>3 DEF KeysHeld
<1> QED BY <1>2, <1>4 DEF Good

LEMMA OwnedIsGood ==
  ASSUME NEW t, Good(t)
  PROVE  /\ Good(Owned(t)) /\ Owned(t).of = t.of /\ Owned(t).count = t.count
         /\ Owned(t).indexed = t.indexed /\ Owned(t).ready = t.ready /\ Owned(t).owners
<1> DEFINE New(i) == IF i \in t.ready /\ t.of.policies[i].method = "pqc"
                     THEN [t.ctx[i] EXCEPT !.db = t.of.policies[i].db,
                                           !.profile = t.of.policies[i].profile]
                     ELSE t.ctx[i]
           ctx == [i \in Positions1 |-> New(i)]
           u == Owned(t)
<1>1. IsTables(t) /\ Bounded(t) /\ CtxTyped(t.ctx) BY DEF Good
<1>2. /\ IsTables(u) /\ u.of = t.of /\ u.count = t.count /\ u.indexed = t.indexed
      /\ u.ready = t.ready /\ u.ctx = ctx /\ u.owners
  BY <1>1 DEF IsTables, Has, TableFields, Owned
<1>3. ASSUME NEW i \in Positions1
      PROVE  IsCtx(New(i)) /\ New(i).pqc = t.ctx[i].pqc /\ New(i).key = t.ctx[i].key
  <2>1. IsCtx(t.ctx[i]) BY <1>1 DEF CtxTyped
  <2> QED BY <2>1 DEF IsCtx, Has, CtxFields
<1> HIDE DEF New, u
<1>4. CtxTyped(ctx) BY <1>3 DEF CtxTyped
<1>5. \A i \in t.ready : ctx[i].pqc = t.ctx[i].pqc /\ ctx[i].key = t.ctx[i].key
  BY <1>1, <1>3, ReadyFacts
<1> HIDE DEF ctx
<1>6. Good(u) BY <1>2, <1>4, <1>5, SameKeys
<1> QED BY <1>2, <1>6 DEF u

LEMMA RefreshedIsGood ==
  ASSUME NEW t, Good(t), NEW profile, NEW known
  PROVE  LET u == Refreshed(t, profile, known)
         IN /\ Good(u) /\ u.of = t.of /\ u.count = t.count /\ u.indexed = t.indexed
            /\ u.ready = t.ready /\ u.owners = t.owners
            /\ \A i \in Positions1 : /\ u.ctx[i].pqc = t.ctx[i].pqc
                                     /\ ~t.ctx[i].pqc => u.ctx[i] = t.ctx[i]
<1> DEFINE New(i) == LET x == t.ctx[i] IN
                     IF Ready(t, i) /\ x.pqc /\ x.profile = profile /\ x.db \in known
                     THEN [x EXCEPT !.key = PqcKey(x.db)] ELSE x
           ctx == [i \in Positions1 |-> New(i)]
           u == Refreshed(t, profile, known)
<1>1. IsTables(t) /\ Bounded(t) /\ CtxTyped(t.ctx) BY DEF Good
<1>2. /\ IsTables(u) /\ u.of = t.of /\ u.count = t.count /\ u.indexed = t.indexed
      /\ u.ready = t.ready /\ u.ctx = ctx /\ u.owners = t.owners
  BY <1>1 DEF IsTables, Has, TableFields, Refreshed
<1>3. ASSUME NEW i \in Positions1
      PROVE  IsCtx(New(i)) /\ New(i).pqc = t.ctx[i].pqc /\ (~t.ctx[i].pqc => New(i) = t.ctx[i])
  <2>1. IsCtx(t.ctx[i]) BY <1>1 DEF CtxTyped
  <2> QED BY <2>1 DEF IsCtx, Has, CtxFields
<1> HIDE DEF New, u
<1>4. CtxTyped(ctx) BY <1>3 DEF CtxTyped
<1>5. \A i \in Positions1 : ctx[i].pqc = t.ctx[i].pqc /\ (~t.ctx[i].pqc => ctx[i] = t.ctx[i])
  BY <1>3
<1>6. \A i \in t.ready : i \in Positions1 BY <1>1, ReadyFacts
<1> HIDE DEF ctx
<1>7. Good(u) BY <1>2, <1>4, <1>5, <1>6, SameKeys
<1> QED BY <1>2, <1>5, <1>7 DEF u

LEMMA UpdatedKeeps ==
  ASSUME NEW x, IsCtx(x)
  PROVE  IsCtx(Updated(x)) /\ Updated(x).pqc = x.pqc /\ (~x.pqc => Updated(x) = x)
BY DEF Updated, IsCtx, Has, CtxFields

(* One context written by the other worker. *)
LEMMA OneCtxWritten ==
  ASSUME NEW t, Good(t), NEW i, NEW x,
         i \in Positions1 => /\ IsCtx(x) /\ x.pqc = t.ctx[i].pqc
                             /\ ~t.ctx[i].pqc => x.key = t.ctx[i].key
  PROVE  LET u == [t EXCEPT !.ctx[i] = x]
         IN /\ Good(u) /\ u.of = t.of /\ u.count = t.count /\ u.indexed = t.indexed
            /\ u.ready = t.ready /\ u.owners = t.owners
<1> DEFINE u == [t EXCEPT !.ctx[i] = x]
           ctx == [t.ctx EXCEPT ![i] = x]
<1>1. IsTables(t) /\ Bounded(t) /\ CtxTyped(t.ctx) BY DEF Good
<1>2. /\ IsTables(u) /\ u.of = t.of /\ u.count = t.count /\ u.indexed = t.indexed
      /\ u.ready = t.ready /\ u.ctx = ctx /\ u.owners = t.owners
  BY <1>1 DEF IsTables, Has, TableFields
<1>3. CtxTyped(ctx) BY <1>1 DEF CtxTyped
<1>4. \A j \in Positions1 : ctx[j].pqc = t.ctx[j].pqc /\ (~t.ctx[j].pqc => ctx[j].key = t.ctx[j].key)
  BY <1>1 DEF CtxTyped
<1>5. \A j \in t.ready : j \in Positions1 BY <1>1, ReadyFacts
<1> HIDE DEF u, ctx
<1>6. Good(u) BY <1>2, <1>3, <1>4, <1>5, SameKeys
<1> QED BY <1>2, <1>6 DEF u

LEMMA BuiltIsGood ==
  ASSUME NEW c \in Configs
  PROVE  Good(Built(c)) /\ Built(c).of = c
<1> DEFINE n == Len(c.policies)
           cp(i) == c.policies[i]
           ready == {i \in 1 .. n : Encrypts(cp(i)) /\ (cp(i).method = "pqc" \/ cp(i).key # ZeroKey)}
           New(i) == IF i \in 1 .. n /\ Encrypts(cp(i)) THEN FreshCtx(cp(i)) ELSE NoCtx
           ctx == [i \in Positions1 |-> New(i)]
           full == [of |-> c, count |-> n, indexed |-> n, owners |-> FALSE, ready |-> ready, ctx |-> ctx]
<1>1. Built(c) = Owned(full)
  BY DEF Built
<1>2. n \in Nat /\ n <= MaxPolicies BY ConfigFacts
<1>3. \A i \in Positions1 : IsCtx(New(i))
  BY FreshCtxFits DEF IsCtx, Has, CtxFields, NoCtx
<1>4. \A i \in ready : i \in Positions1 /\ Fits(cp(i), New(i))
  BY <1>2, FreshCtxFits, DbConfigAssumption DEF Positions1
<1> HIDE DEF New
<1>5. CtxTyped(ctx) BY <1>3 DEF CtxTyped
<1>6. IsTables(full) BY DEF IsTables, Has, TableFields
<1>7. Bounded(full) BY <1>2 DEF Bounded
<1>8. KeysHeld(full) BY <1>4 DEF KeysHeld
<1>9. Good(full)
  <2> HIDE DEF full, ctx
  <2>1. CtxTyped(full.ctx) BY <1>5 DEF full
  <2> QED BY <1>6, <1>7, <1>8, <2>1 DEF Good
<1> QED BY <1>1, <1>9, OwnedIsGood

------------------------------------------------------------------------------
(* The inductive invariant: the tables, the reload under way, and the packet *)
(* of the other worker, at each of its steps.                                *)
ReloadOK ==
  /\ Has(rl, {"pc", "old"})
  /\ rl.pc \in {"idle", "published", "copied", "cleared", "index", "fill"}
  /\ Good(rl.old)
  /\ rl.pc \in {"cleared", "index", "fill"} => tab.of = cfg
  /\ rl.pc = "fill" => tab.indexed >= 1
  /\ rl.pc = "idle" /\ ~failed => tab.of = cfg

PolicyOfJob == /\ job.of \in Configs
               /\ job.i \in DOMAIN job.of.policies
               /\ job.of.policies[job.i].action \in Layers

Picked ==
  /\ Has(job, {"pc", "of", "i", "overlap", "torn"})
  /\ PolicyOfJob
  /\ job.overlap \in BOOLEAN /\ job.torn \in BOOLEAN
  /\ ~job.overlap => /\ rl.pc = "idle" /\ ~failed
                     /\ job.of = cfg /\ job.i \in tab.ready
                     /\ job.torn => tab.ctx[job.i].pqc

(* What the first attempt was found by still stands, unless the packet is torn. *)
FoundIn(a, t) ==
  /\ a.i \in t.ready
  /\ t.of \in job.from
  /\ t.of.policies[a.i].action = job.fr.layer
  /\ t.of.policies[a.i].id = job.fr.id
  /\ t.of.policies[a.i].method = a.method

Holds(a) == \/ a.which = "now" /\ FoundIn(a, tab)
            \/ a.which = "before" /\ FoundIn(a, prev)

Looked ==
  /\ Has(job, {"pc", "fr", "try", "torn", "steady", "from"})
  /\ job.torn \in BOOLEAN
  /\ job.try # <<>> => 1 \in DOMAIN job.try
  /\ job.try # <<>> /\ ~job.torn => Holds(job.try[1])

Sent ==
  /\ PolicyOfJob
  /\ job.packet \in Sizes
  /\ LET cp == job.of.policies[job.i]
     IN /\ job.frames = Frames(cp.action, cp.method, job.packet)
        /\ ~job.overlap /\ cp.method # "pqc" => job.key = cp.key

JobExplained ==
  /\ job.pc \in {"none", "picked", "sent", "known", "expiring", "looked", "done"}
  /\ job.pc = "picked" => Picked
  /\ job.pc = "sent" => Sent
  /\ job.pc \in {"known", "expiring"} => Has(job, {"pc", "fr"})
  /\ job.pc = "looked" => Looked
  /\ job.pc = "done" => KeysInForce

Clocked == left \in Nat /\ left <= Grace

IInv == /\ cfg \in Configs
        /\ Good(tab) /\ Good(prev)
        /\ Clocked
        /\ ReloadOK
        /\ JobExplained

LEMMA InitOK == Init => IInv
<1> SUFFICES ASSUME Init PROVE IInv OBVIOUS
<1>1. cfg \in Configs /\ tab = Built(cfg) BY DEF Init
<1>2. Good(tab) /\ tab.of = cfg BY <1>1, BuiltIsGood
<1>3. Good(prev) BY NoTablesGood DEF Init
<1>4. Clocked
  <2>1. left = 0 BY DEF Init
  <2>2. Grace \in Nat BY CryptoAssumption
  <2> QED BY <2>1, <2>2 DEF Clocked
<1>5. ReloadOK BY <1>2, NoTablesGood DEF Init, NoReload, ReloadOK, Has
<1>6. JobExplained BY DEF Init, NoJob, JobExplained
<1> QED BY <1>1, <1>2, <1>3, <1>4, <1>5, <1>6 DEF IInv

(* A step that leaves the packet alone, but for marking it as torn when it   *)
(* rewrites the slots the packet has read.                                   *)
LEMMA TornStays ==
  ASSUME JobExplained, NEW which, NEW slots, Torn(which, slots),
         job.pc = "picked" /\ ~job.overlap =>
           /\ rl'.pc = "idle" /\ ~failed' /\ cfg' = cfg /\ job.i \in tab'.ready
           /\ job.torn \/ (which = "now" /\ job.i \in slots) => tab'.ctx[job.i].pqc,
         \A a : Holds(a) /\ ~(a.which = which /\ a.i \in slots) =>
                  \/ a.which = "now" /\ a.i \in tab'.ready /\ tab'.of.policies = tab.of.policies
                     /\ tab'.of = tab.of
                  \/ a.which = "before" /\ a.i \in prev'.ready /\ prev'.of = prev.of
  PROVE  JobExplained'
<1>1. CASE job.pc \in {"none", "sent", "known", "expiring", "done"}
  <2>1. job' = job BY <1>1 DEF Torn, Uses
  <2>2. CASE job.pc = "none" BY <2>1, <2>2 DEF JobExplained
  <2>3. CASE job.pc = "sent" BY <2>1, <2>3 DEF JobExplained, Sent, PolicyOfJob
  <2>4. CASE job.pc \in {"known", "expiring"} BY <2>1, <2>4 DEF JobExplained
  <2>5. CASE job.pc = "done" BY <2>1, <2>5 DEF JobExplained, KeysInForce
  <2> QED BY <1>1, <2>2, <2>3, <2>4, <2>5
<1>2. CASE job.pc = "picked"
  <2>1. Picked BY <1>2 DEF JobExplained
  <2>2. CASE job' = job /\ ~Uses(which, slots)
    <3>1. Picked' BY <1>2, <2>1, <2>2 DEF Picked, PolicyOfJob
    <3> QED BY <1>2, <2>2, <3>1 DEF JobExplained
  <2>3. CASE job' = [job EXCEPT !.torn = TRUE] /\ Uses(which, slots)
    <3>1. which = "now" /\ job.i \in slots BY <1>2, <2>3 DEF Uses
    <3>2. /\ Has(job, {"pc", "of", "i", "overlap", "torn"})' /\ job'.pc = job.pc /\ job'.of = job.of
          /\ job'.i = job.i /\ job'.overlap = job.overlap /\ job'.torn
      BY <2>1, <2>3 DEF Picked, Has
    <3>3. Picked' BY <1>2, <2>1, <3>1, <3>2 DEF Picked, PolicyOfJob
    <3> QED BY <1>2, <3>2, <3>3 DEF JobExplained
  <2> QED BY <2>2, <2>3 DEF Torn
<1>3. CASE job.pc = "looked"
  <2>1. Looked BY <1>3 DEF JobExplained
  <2>2. /\ Has(job, {"pc", "fr", "try", "torn", "steady", "from"})' /\ job'.pc = job.pc
        /\ job'.fr = job.fr /\ job'.try = job.try /\ job'.from = job.from
        /\ job'.torn \in BOOLEAN /\ (~job'.torn => ~job.torn /\ ~Uses(which, slots))
    BY <2>1 DEF Torn, Looked, Has
  <2>3. ASSUME job'.try # <<>>, ~job'.torn PROVE Holds(job.try[1])'
    <3> PICK a : a = job.try[1] OBVIOUS
    <3>1. 1 \in DOMAIN job.try /\ Holds(a) BY <2>1, <2>2, <2>3 DEF Looked
    <3>2. a \in Range(job.try) BY <3>1 DEF Range
    <3>3. ~(a.which = which /\ a.i \in slots) BY <1>3, <2>2, <2>3, <3>2 DEF Uses
    <3>4. Holds(a)' BY <2>2, <3>1, <3>3 DEF Holds, FoundIn
    <3> QED BY <2>2, <3>4
  <2>4. Looked' BY <2>1, <2>2, <2>3 DEF Looked
  <2> QED BY <1>3, <2>2, <2>4 DEF JobExplained
<1> QED BY <1>1, <1>2, <1>3 DEF JobExplained

LEMMA JobStays ==
  ASSUME JobExplained, job' = job,
         job.pc = "picked" /\ ~job.overlap =>
           /\ rl'.pc = "idle" /\ ~failed' /\ cfg' = cfg /\ job.i \in tab'.ready
           /\ job.torn => tab'.ctx[job.i].pqc,
         tab'.of = tab.of, tab.ready \subseteq tab'.ready, prev' = prev
  PROVE  JobExplained'
<1>1. Torn("none", {}) BY DEF Torn, Uses
<1>2. \A a : Holds(a) => \/ a.which = "now" /\ a.i \in tab'.ready /\ tab'.of = tab.of
                         \/ a.which = "before" /\ a.i \in prev'.ready /\ prev'.of = prev.of
  BY DEF Holds, FoundIn
<1> QED BY <1>1, <1>2, TornStays

LEMMA Parts ==
  ASSUME IInv
  PROVE  /\ cfg \in Configs /\ Good(tab) /\ Good(prev) /\ Clocked /\ ReloadOK /\ JobExplained
         /\ Has(rl, {"pc", "old"}) /\ Good(rl.old) /\ Bounded(tab) /\ IsTables(tab) /\ CtxTyped(tab.ctx)
         /\ job.pc = "picked" /\ ~job.overlap =>
              /\ rl.pc = "idle" /\ ~failed /\ job.i \in tab.ready
              /\ job.torn => tab.ctx[job.i].pqc
BY DEF IInv, ReloadOK, Good, JobExplained, Picked

(* Worker 0. *)
LEMMA PublishKeeps == IInv /\ Publish => IInv'
<1> SUFFICES ASSUME IInv, Publish PROVE IInv' OBVIOUS
<1>1. cfg' \in Configs /\ UNCHANGED <<tab, prev, grace, left, failed, cut>> BY DEF Publish
<1>2. Good(tab)' /\ Good(prev)' /\ Clocked' BY <1>1, Parts DEF Clocked
<1>3. rl' = [rl EXCEPT !.pc = "published"] BY DEF Publish
<1>4. ReloadOK'
  <2>1. Has(rl, {"pc", "old"})' /\ rl'.pc = "published" /\ rl'.old = rl.old BY <1>3, Parts DEF Has
  <2> QED BY <2>1, Parts DEF ReloadOK
<1>5. JobExplained'
  <2>1. CASE job.pc = "picked"
    <3>1. Picked BY <2>1, Parts DEF JobExplained
    <3>2. /\ Has(job, {"pc", "of", "i", "overlap", "torn"})' /\ job'.pc = job.pc /\ job'.of = job.of
          /\ job'.i = job.i /\ job'.overlap = TRUE /\ job'.torn = job.torn
      BY <2>1, <3>1 DEF Publish, Picked, Has
    <3>3. Picked' BY <3>1, <3>2 DEF Picked, PolicyOfJob
    <3> QED BY <2>1, <3>2, <3>3 DEF JobExplained
  <2>2. CASE job.pc # "picked"
    <3>1. job' = job BY <2>2 DEF Publish
    <3> QED BY <1>1, <2>2, <3>1, Parts, JobStays
  <2> QED BY <2>1, <2>2
<1> QED BY <1>1, <1>2, <1>4, <1>5 DEF IInv

LEMMA NoSlotKeeps == IInv /\ NoSlot => IInv'
<1> SUFFICES ASSUME IInv, NoSlot PROVE IInv' OBVIOUS
<1>1. /\ rl.pc = "published" /\ rl' = NoReload /\ failed' = TRUE
      /\ UNCHANGED <<cfg, tab, prev, grace, left, job, cut>>
  BY DEF NoSlot
<1>2. cfg' \in Configs /\ Good(tab)' /\ Good(prev)' /\ Clocked' BY <1>1, Parts DEF Clocked
<1>3. ReloadOK' BY <1>1, NoTablesGood DEF ReloadOK, NoReload, Has
<1>4. JobExplained' BY <1>1, Parts, JobStays
<1> QED BY <1>2, <1>3, <1>4 DEF IInv

LEMMA SnapshotKeeps == IInv /\ Snapshot => IInv'
<1> SUFFICES ASSUME IInv, Snapshot PROVE IInv' OBVIOUS
<1>1. /\ rl.pc = "published" /\ rl' = [rl EXCEPT !.pc = "copied"] /\ prev' = tab
      /\ grace' = (tab.count > 0) /\ left' = Grace /\ cut' = FALSE
      /\ UNCHANGED <<cfg, tab, failed>> /\ Torn("before", Positions1)
  BY DEF Snapshot
<1>2. cfg' \in Configs /\ Good(tab)' /\ Good(prev)' BY <1>1, Parts
<1>3. Clocked'
  <2>1. Grace \in Nat BY CryptoAssumption
  <2> QED BY <1>1, <2>1 DEF Clocked
<1>4. ReloadOK'
  <2>1. Has(rl, {"pc", "old"})' /\ rl'.pc = "copied" /\ rl'.old = rl.old BY <1>1, Parts DEF Has
  <2> QED BY <2>1, Parts DEF ReloadOK
<1>5. \A i \in prev.ready : i \in Positions1 BY Parts, ReadyFacts DEF Good
<1>6. \A a : Holds(a) /\ ~(a.which = "before" /\ a.i \in Positions1) =>
               a.which = "now" /\ a.i \in tab'.ready /\ tab'.of = tab.of
  BY <1>1, <1>5 DEF Holds, FoundIn
<1>7. JobExplained' BY <1>1, <1>6, Parts, TornStays
<1> QED BY <1>2, <1>3, <1>4, <1>7 DEF IInv

LEMMA ClearKeeps == IInv /\ Clear => IInv'
<1> SUFFICES ASSUME IInv, Clear PROVE IInv' OBVIOUS
<1>1. /\ rl.pc = "copied" /\ tab' = Cleared(cfg, tab.ctx)
      /\ \/ rl' = [pc |-> "cleared", old |-> tab] /\ failed' = failed
         \/ rl' = NoReload /\ failed' = FALSE
      /\ UNCHANGED <<cfg, prev, grace, left, cut>> /\ Torn("now", Positions1)
  BY DEF Clear
<1>2. cfg' \in Configs /\ Good(prev)' BY <1>1, Parts
<1>3. Good(tab)' /\ tab'.of = cfg' BY <1>1, Parts, EmptyIsGood DEF Cleared
<1>4. Clocked' BY <1>1, Parts DEF Clocked
<1>5. ReloadOK'
  <2>1. CASE rl' = [pc |-> "cleared", old |-> tab] BY <1>3, <2>1, Parts DEF ReloadOK, Has
  <2>2. CASE rl' = NoReload BY <1>3, <2>2, NoTablesGood DEF ReloadOK, NoReload, Has
  <2> QED BY <1>1, <2>1, <2>2
<1>6. \A i \in tab.ready : i \in Positions1 BY Parts, ReadyFacts
<1>7. \A a : Holds(a) /\ ~(a.which = "now" /\ a.i \in Positions1) =>
               a.which = "before" /\ a.i \in prev'.ready /\ prev'.of = prev.of
  BY <1>1, <1>6 DEF Holds, FoundIn
<1>8. JobExplained' BY <1>1, <1>7, Parts, TornStays
<1> QED BY <1>2, <1>3, <1>4, <1>5, <1>8 DEF IInv

LEMMA NoBaseKeeps == IInv /\ NoBase => IInv'
<1> SUFFICES ASSUME IInv, NoBase PROVE IInv' OBVIOUS
<1>1. /\ rl.pc = "cleared" /\ rl' = NoReload /\ failed' = TRUE /\ grace' = FALSE
      /\ UNCHANGED <<cfg, tab, prev, left, job, cut>>
  BY DEF NoBase
<1>2. cfg' \in Configs /\ Good(tab)' /\ Good(prev)' /\ Clocked' BY <1>1, Parts DEF Clocked
<1>3. ReloadOK' BY <1>1, NoTablesGood DEF ReloadOK, NoReload, Has
<1>4. JobExplained' BY <1>1, Parts, JobStays
<1> QED BY <1>2, <1>3, <1>4 DEF IInv

LEMMA BaseKeeps == IInv /\ Base => IInv'
<1> SUFFICES ASSUME IInv, Base PROVE IInv' OBVIOUS
<1>1. /\ rl.pc = "cleared" /\ tab' = [tab EXCEPT !.count = Len(cfg.policies)]
      /\ rl' = [rl EXCEPT !.pc = "index"]
      /\ UNCHANGED <<cfg, prev, grace, left, job, failed, cut>>
  BY DEF Base
<1>2. /\ IsTables(tab)' /\ tab'.of = tab.of /\ tab'.count = Len(cfg.policies)
      /\ tab'.indexed = tab.indexed /\ tab'.ready = tab.ready /\ tab'.ctx = tab.ctx
  BY <1>1, Parts DEF IsTables, Has, TableFields
<1>3. tab.of = cfg BY <1>1, Parts DEF ReloadOK
<1>4. Good(tab)'
  <2>1. Bounded(tab)'
    <3>1. /\ tab.of \in Configs \cup {EmptyConfig} /\ tab.count \in Nat /\ tab.count <= Len(cfg.policies)
          /\ tab.indexed \in Nat /\ tab.indexed <= tab.count /\ tab.ready \subseteq 1 .. tab.indexed
      BY <1>3, Parts DEF Bounded
    <3>2. Len(cfg.policies) \in Nat BY <1>3, <3>1, ConfigFacts
    <3> QED BY <1>2, <1>3, <3>1, <3>2 DEF Bounded
  <2>2. KeysHeld(tab)' BY <1>2, Parts DEF Good, KeysHeld
  <2> QED BY <1>2, <2>1, <2>2, Parts DEF Good
<1>5. cfg' \in Configs /\ Good(prev)' /\ Clocked' BY <1>1, Parts DEF Clocked
<1>6. ReloadOK'
  <2>1. Has(rl, {"pc", "old"})' /\ rl'.pc = "index" /\ rl'.old = rl.old BY <1>1, Parts DEF Has
  <2> QED BY <1>1, <1>2, <1>3, <2>1, Parts DEF ReloadOK
<1>7. JobExplained' BY <1>1, <1>2, Parts, JobStays
<1> QED BY <1>4, <1>5, <1>6, <1>7 DEF IInv

LEMMA IndexSlotKeeps == IInv /\ IndexSlot => IInv'
<1> SUFFICES ASSUME IInv, IndexSlot PROVE IInv' OBVIOUS
<1>1. /\ rl.pc = "index" /\ tab.indexed < tab.count /\ tab' = [tab EXCEPT !.indexed = @ + 1]
      /\ rl' = [rl EXCEPT !.pc = "fill"]
      /\ UNCHANGED <<cfg, prev, grace, left, job, failed, cut>>
  BY DEF IndexSlot
<1>2. /\ IsTables(tab)' /\ tab'.of = tab.of /\ tab'.count = tab.count
      /\ tab'.indexed = tab.indexed + 1 /\ tab'.ready = tab.ready /\ tab'.ctx = tab.ctx
  BY <1>1, Parts DEF IsTables, Has, TableFields
<1>3. tab.of = cfg BY <1>1, Parts DEF ReloadOK
<1>4. Good(tab)'
  <2>1. Bounded(tab)' BY <1>1, <1>2, Parts DEF Bounded
  <2>2. KeysHeld(tab)' BY <1>2, Parts DEF Good, KeysHeld
  <2> QED BY <1>2, <2>1, <2>2, Parts DEF Good
<1>5. cfg' \in Configs /\ Good(prev)' /\ Clocked' BY <1>1, Parts DEF Clocked
<1>6. ReloadOK'
  <2>1. Has(rl, {"pc", "old"})' /\ rl'.pc = "fill" /\ rl'.old = rl.old BY <1>1, Parts DEF Has
  <2>2. tab'.indexed >= 1 BY <1>2, Parts DEF Bounded
  <2> QED BY <1>1, <1>2, <1>3, <2>1, <2>2, Parts DEF ReloadOK
<1>7. JobExplained' BY <1>1, <1>2, Parts, JobStays
<1> QED BY <1>4, <1>5, <1>6, <1>7 DEF IInv

LEMMA FillSlotKeeps == IInv /\ FillSlot => IInv'
<1> SUFFICES ASSUME IInv, FillSlot PROVE IInv' OBVIOUS
<1>1. /\ rl.pc = "fill" /\ tab' = Filled(tab, rl.old, tab.indexed)
      /\ rl' = [rl EXCEPT !.pc = "index"] /\ Torn("now", {tab.indexed})
      /\ UNCHANGED <<cfg, prev, grace, left, failed, cut>>
  BY DEF FillSlot
<1>2. tab.of = cfg /\ tab.indexed >= 1 BY <1>1, Parts DEF ReloadOK
<1>3. Good(tab)' /\ tab'.of = tab.of /\ tab.ready \subseteq tab'.ready
  BY <1>1, <1>2, Parts, FilledIsGood
<1>5. cfg' \in Configs /\ Good(prev)' /\ Clocked' BY <1>1, Parts DEF Clocked
<1>6. ReloadOK'
  <2>1. Has(rl, {"pc", "old"})' /\ rl'.pc = "index" /\ rl'.old = rl.old BY <1>1, Parts DEF Has
  <2> QED BY <1>1, <1>2, <1>3, <2>1, Parts DEF ReloadOK
<1>7. \A a : Holds(a) => \/ a.which = "now" /\ a.i \in tab'.ready /\ tab'.of = tab.of
                         \/ a.which = "before" /\ a.i \in prev'.ready /\ prev'.of = prev.of
  BY <1>1, <1>3 DEF Holds, FoundIn
<1>8. JobExplained' BY <1>1, <1>7, Parts, TornStays
<1> QED BY <1>3, <1>5, <1>6, <1>8 DEF IInv

LEMMA FinishKeeps == IInv /\ Finish => IInv'
<1> SUFFICES ASSUME IInv, Finish PROVE IInv' OBVIOUS
<1>1. /\ rl.pc = "index" /\ tab' = Owned(tab) /\ rl' = NoReload /\ failed' = FALSE
      /\ UNCHANGED <<cfg, prev, grace, left, job, cut>>
  BY DEF Finish
<1>2. tab.of = cfg BY <1>1, Parts DEF ReloadOK
<1>3. Good(tab)' /\ tab'.of = tab.of /\ tab'.ready = tab.ready BY <1>1, Parts, OwnedIsGood
<1>5. cfg' \in Configs /\ Good(prev)' BY <1>1, Parts
<1>6. Clocked' BY <1>1, Parts DEF Clocked
<1>7. ReloadOK' BY <1>1, <1>2, <1>3, NoTablesGood DEF ReloadOK, NoReload, Has
<1>8. JobExplained' BY <1>1, <1>3, Parts, JobStays
<1> QED BY <1>3, <1>5, <1>6, <1>7, <1>8 DEF IInv

(* The clock and the end of the grace period. *)
LEMMA ExpireKeeps == IInv /\ Expire => IInv'
<1> SUFFICES ASSUME IInv, Expire PROVE IInv' OBVIOUS
<1>1. /\ grace' = FALSE /\ UNCHANGED <<cfg, tab, prev, left, rl, job, failed, cut>>
  BY DEF Expire
<1>2. cfg' \in Configs /\ Good(tab)' /\ Good(prev)' /\ Clocked' BY <1>1, Parts DEF Clocked
<1>3. ReloadOK' BY <1>1, Parts DEF ReloadOK
<1>4. JobExplained' BY <1>1, Parts, JobStays DEF JobExplained, Picked
<1> QED BY <1>2, <1>3, <1>4 DEF IInv

LEMMA TickKeeps == IInv /\ Tick => IInv'
<1> SUFFICES ASSUME IInv, Tick PROVE IInv' OBVIOUS
<1>1. /\ left > 0 /\ left' = left - 1 /\ UNCHANGED <<cfg, tab, prev, grace, rl, job, failed, cut>>
  BY DEF Tick
<1>2. Clocked'
  <2>1. left \in Nat /\ left <= Grace /\ Grace \in Nat BY Parts, CryptoAssumption DEF Clocked
  <2>2. left' \in Nat /\ left' <= Grace BY <1>1, <2>1
  <2> QED BY <1>1, <2>2, Parts DEF Clocked
<1>3. cfg' \in Configs /\ Good(tab)' /\ Good(prev)' BY <1>1, Parts
<1>4. ReloadOK' BY <1>1, Parts DEF ReloadOK
<1>5. JobExplained' BY <1>1, Parts, JobStays DEF JobExplained, Picked
<1> QED BY <1>2, <1>3, <1>4, <1>5 DEF IInv

LEMMA ExchangeKeeps == \A p : IInv /\ Exchange(p) => IInv'
<1> SUFFICES ASSUME NEW p, IInv, Exchange(p) PROVE IInv' OBVIOUS
<1> DEFINE slots == {i \in Positions1 : tab'.ctx[i] # tab.ctx[i]}
<1>1. /\ tab' = Refreshed(tab, p.profile, exchanged') /\ Torn("now", slots)
      /\ UNCHANGED <<cfg, prev, grace, left, rl, failed, cut>>
  BY DEF Exchange
<1>2. /\ Good(tab)' /\ tab'.of = tab.of /\ tab'.indexed = tab.indexed /\ tab'.ready = tab.ready
      /\ \A i \in Positions1 : /\ tab'.ctx[i].pqc = tab.ctx[i].pqc
                               /\ ~tab.ctx[i].pqc => tab'.ctx[i] = tab.ctx[i]
  BY <1>1, Parts, RefreshedIsGood
<1>3. cfg' \in Configs /\ Good(prev)' /\ Clocked' BY <1>1, Parts DEF Clocked
<1>4. ReloadOK' BY <1>1, <1>2, Parts DEF ReloadOK
<1>5. \A a : Holds(a) => \/ a.which = "now" /\ a.i \in tab'.ready /\ tab'.of = tab.of
                         \/ a.which = "before" /\ a.i \in prev'.ready /\ prev'.of = prev.of
  BY <1>1, <1>2 DEF Holds, FoundIn
<1>6. ASSUME job.pc = "picked", ~job.overlap
      PROVE  /\ rl'.pc = "idle" /\ ~failed' /\ cfg' = cfg /\ job.i \in tab'.ready
             /\ job.torn \/ job.i \in slots => tab'.ctx[job.i].pqc
  <2>1. /\ rl.pc = "idle" /\ ~failed /\ job.i \in tab.ready /\ (job.torn => tab.ctx[job.i].pqc)
    BY <1>6, Parts
  <2>2. job.i \in Positions1 BY <2>1, Parts, ReadyFacts
  <2>3. IsCtx(tab.ctx[job.i]) BY <2>2, Parts DEF CtxTyped
  <2> QED BY <1>1, <1>2, <2>1, <2>2, <2>3 DEF IsCtx
<1> HIDE DEF slots
<1>7. JobExplained' BY <1>1, <1>5, <1>6, Parts, TornStays
<1> QED BY <1>2, <1>3, <1>4, <1>7 DEF IInv

(* The other worker, sending. *)
LEMMA PickKeeps == \A lan, f : IInv /\ Pick(lan, f) => IInv'
<1> SUFFICES ASSUME NEW lan, NEW f, IInv, Pick(lan, f) PROVE IInv' OBVIOUS
<1> DEFINE i == PickPolicy(cfg, lan, f)
           cp == cfg.policies[i]
           x == [tab.ctx[i] EXCEPT !.profile = cp.profile,
                                   !.db = IF cp.method = "pqc" THEN cp.db ELSE cp.id]
<1>1. /\ i \in DOMAIN cfg.policies /\ Encrypts(cp) /\ i \in tab.ready
      /\ tab' = tab \/ tab' = [tab EXCEPT !.ctx[i] = x]
      /\ job' = [pc |-> "picked", of |-> cfg, i |-> i, overlap |-> failed \/ rl.pc # "idle",
                 torn |-> FALSE]
      /\ UNCHANGED <<cfg, prev, grace, left, rl, failed, cut>>
  BY DEF Pick
<1>2. i \in Positions1 BY <1>1, Parts, ReadyFacts
<1>3. IsCtx(x) /\ x.pqc = tab.ctx[i].pqc /\ x.key = tab.ctx[i].key
  <2>1. IsCtx(tab.ctx[i]) BY <1>2, Parts DEF CtxTyped
  <2> QED BY <2>1 DEF IsCtx, Has, CtxFields
<1>4. cp.action \in Layers BY <1>1 DEF Encrypts, EncryptActions, Layers
<1> HIDE DEF x, i
<1>5. Good(tab)' /\ tab'.of = tab.of /\ tab'.indexed = tab.indexed /\ tab'.ready = tab.ready
  <2>1. CASE tab' = tab BY <2>1, Parts
  <2>2. CASE tab' = [tab EXCEPT !.ctx[i] = x]
    <3>1. Good(tab) BY Parts
    <3> QED BY <1>3, <2>2, <3>1, OneCtxWritten
  <2> QED BY <1>1, <2>1, <2>2
<1>6. cfg' \in Configs /\ Good(prev)' /\ Clocked' BY <1>1, Parts DEF Clocked
<1>7. ReloadOK' BY <1>1, <1>5, Parts DEF ReloadOK
<1>8. JobExplained'
  <2>1. /\ Has(job, {"pc", "of", "i", "overlap", "torn"})' /\ job'.pc = "picked" /\ job'.of = cfg
        /\ job'.i = i /\ (~job'.overlap => rl.pc = "idle" /\ ~failed) /\ job'.torn = FALSE
    BY <1>1 DEF Has
  <2>2. job'.torn \in BOOLEAN BY <2>1, Zenon
  <2>3. PolicyOfJob' BY <1>1, <1>4, <2>1, Parts DEF PolicyOfJob
  <2>4. Picked' BY <1>1, <1>5, <2>1, <2>2, <2>3, Parts DEF Picked
  <2> QED BY <2>1, <2>4 DEF JobExplained
<1> QED BY <1>5, <1>6, <1>7, <1>8 DEF IInv

LEMMA EncryptKeeps == \A p \in Sizes : IInv /\ Encrypt(p) => IInv'
<1> SUFFICES ASSUME NEW p \in Sizes, IInv, Encrypt(p) PROVE IInv' OBVIOUS
<1> DEFINE i == job.i
           cp == job.of.policies[i]
           was == tab.ctx[i]
           x == IF cp.method = "pqc" \/ NeedsSplit(cp.action, cp.method, p) THEN Updated(was) ELSE was
<1>1. /\ job.pc = "picked" /\ tab' = [tab EXCEPT !.ctx[i] = x]
      /\ UNCHANGED <<cfg, prev, grace, left, rl, failed, cut>>
  BY DEF Encrypt
<1>2. PICK k \in {x.key} \cup (IF job.torn THEN {Mixed} ELSE {}) :
        job' = [pc |-> "sent", of |-> job.of, i |-> i, overlap |-> job.overlap,
                key |-> k, packet |-> p, frames |-> Frames(cp.action, cp.method, p)]
  BY DEF Encrypt
<1>3. Picked BY <1>1, Parts DEF JobExplained
<1>4. i \in Positions1 => IsCtx(x) /\ x.pqc = was.pqc /\ (~was.pqc => x = was)
  <2> SUFFICES ASSUME i \in Positions1 PROVE IsCtx(x) /\ x.pqc = was.pqc /\ (~was.pqc => x = was)
    OBVIOUS
  <2>1. IsCtx(was) BY Parts DEF CtxTyped
  <2> QED BY <2>1, UpdatedKeeps
<1>5. ASSUME ~job.overlap, cp.method # "pqc" PROVE k = cp.key
  <2>1. job.of = cfg /\ i \in tab.ready /\ (job.torn => was.pqc) /\ rl.pc = "idle" /\ ~failed
    BY <1>3, <1>5 DEF Picked
  <2>2. tab.of = cfg /\ i \in Positions1 BY <2>1, Parts, ReadyFacts DEF ReloadOK
  <2>3. Fits(cp, was) BY <2>1, <2>2, Parts DEF Good, KeysHeld
  <2> QED BY <1>2, <1>4, <1>5, <2>1, <2>2, <2>3 DEF Fits
<1> HIDE DEF x
<1>6. Good(tab)' /\ tab'.of = tab.of /\ tab'.indexed = tab.indexed /\ tab'.ready = tab.ready
  BY SMTT(30), <1>1, <1>4, Parts, OneCtxWritten
<1>7. cfg' \in Configs /\ Good(prev)' /\ Clocked' BY <1>1, Parts DEF Clocked
<1>8. ReloadOK' BY <1>1, <1>6, Parts DEF ReloadOK
<1>9. JobExplained'
  <2>1. /\ job'.pc = "sent" /\ job'.of = job.of /\ job'.i = i /\ job'.overlap = job.overlap
        /\ job'.key = k /\ job'.packet = p /\ job'.frames = Frames(cp.action, cp.method, p)
    BY <1>2
  <2>2. PolicyOfJob' BY <1>3, <2>1 DEF Picked, PolicyOfJob
  <2>3. Sent' BY <1>5, <2>1, <2>2 DEF Sent
  <2> QED BY <2>1, <2>3 DEF JobExplained
<1> QED BY <1>6, <1>7, <1>8, <1>9 DEF IInv

(* The other worker, receiving. *)
LEMMA IndexNames ==
  ASSUME NEW t, Bounded(t), NEW layer, NEW id, Index(t, layer, id) # 0
  PROVE  LET p == t.of.policies[Index(t, layer, id)] IN p.action = layer /\ p.id = id
<1> DEFINE same == {i \in 1 .. t.indexed : t.of.policies[i].action = layer /\ t.of.policies[i].id = id}
<1>1. same # {} /\ Index(t, layer, id) = Max(same) BY DEF Index
<1>2. t.indexed \in Nat /\ same \subseteq 1 .. t.indexed BY DEF Bounded
<1> HIDE DEF same
<1>3. Max(same) \in same BY <1>1, <1>2, MaxOfBounded
<1> QED BY <1>1, <1>3 DEF same

LEMMA AttemptFinds ==
  ASSUME NEW which, NEW t, Bounded(t), NEW fr, Attempt(which, t, fr) # <<>>
  PROVE  LET a == Attempt(which, t, fr)[1]
         IN /\ Attempt(which, t, fr) = <<a>>
            /\ a.which = which /\ a.i \in t.ready
            /\ t.of.policies[a.i].action = fr.layer /\ t.of.policies[a.i].id = fr.id
            /\ t.of.policies[a.i].method = a.method
<1> DEFINE i == Index(t, fr.layer, fr.id)
           a == [which |-> which, i |-> i, method |-> t.of.policies[i].method]
<1>1. Servable(t, i) /\ Attempt(which, t, fr) = <<a>> BY DEF Attempt
<1>2. i \in t.ready /\ i \in 1 .. t.count BY <1>1 DEF Servable, Ready
<1>3. i # 0 BY <1>2
<1>4. t.of.policies[i].action = fr.layer /\ t.of.policies[i].id = fr.id BY <1>3, IndexNames
<1> HIDE DEF i
<1> QED BY <1>1, <1>2, <1>4

LEMMA ReceiveKeeps == \A fr : IInv /\ Receive(fr) => IInv'
<1> SUFFICES ASSUME NEW fr, IInv, Receive(fr) PROVE IInv' OBVIOUS
<1>1. /\ job' = [pc |-> "known", fr |-> fr]
      /\ UNCHANGED <<cfg, tab, prev, grace, left, rl, failed, cut>>
  BY DEF Receive
<1>2. JobExplained' BY <1>1 DEF JobExplained, Has
<1> QED BY <1>1, <1>2, Parts DEF IInv, Clocked, ReloadOK

LEMMA NoticeExpiryKeeps == IInv /\ NoticeExpiry => IInv'
<1> SUFFICES ASSUME IInv, NoticeExpiry PROVE IInv' OBVIOUS
<1>1. /\ job.pc = "known" /\ job' = [job EXCEPT !.pc = "expiring"]
      /\ UNCHANGED <<cfg, tab, prev, grace, left, rl, failed, cut>>
  BY DEF NoticeExpiry
<1>2. Has(job, {"pc", "fr"})' /\ job'.pc = "expiring" BY <1>1, Parts DEF JobExplained, Has
<1>3. JobExplained' BY <1>2 DEF JobExplained
<1> QED BY <1>1, <1>3, Parts DEF IInv, Clocked, ReloadOK

LEMMA StoreExpiryKeeps == IInv /\ StoreExpiry => IInv'
<1> SUFFICES ASSUME IInv, StoreExpiry PROVE IInv' OBVIOUS
<1>1. /\ job.pc = "expiring" /\ job' = [job EXCEPT !.pc = "known"]
      /\ UNCHANGED <<cfg, tab, prev, left, rl, failed>>
  BY DEF StoreExpiry
<1>2. Has(job, {"pc", "fr"})' /\ job'.pc = "known" BY <1>1, Parts DEF JobExplained, Has
<1>3. JobExplained' BY <1>2 DEF JobExplained
<1> QED BY <1>1, <1>3, Parts DEF IInv, Clocked, ReloadOK

LEMMA LookKeeps == IInv /\ Look => IInv'
<1> SUFFICES ASSUME IInv, Look PROVE IInv' OBVIOUS
<1> PICK now : now = Attempt("now", tab, job.fr) OBVIOUS
<1> PICK before : before = IF grace THEN Attempt("before", prev, job.fr) ELSE <<>> OBVIOUS
<1> PICK try : try = Attempts(job.fr) OBVIOUS
<1> PICK from : from = {tab.of} \cup (IF left > 0 THEN {prev.of} ELSE {}) OBVIOUS
<1>1. /\ ~Over(grace, left)
      /\ Has(job, {"pc", "fr", "try", "torn", "steady", "from"})' /\ job'.pc = "looked"
      /\ job'.fr = job.fr /\ job'.try = try /\ job'.torn = FALSE /\ job'.from = from
      /\ UNCHANGED <<cfg, tab, prev, grace, left, rl, failed, cut>>
  BY DEF Look, Has
<1>2. Bounded(tab) /\ Bounded(prev) BY Parts DEF Good
<1>3. now # <<>> => \E a : now = <<a>> /\ Holds(a)'
  <2> SUFFICES ASSUME now # <<>> PROVE \E a : now = <<a>> /\ Holds(a)' OBVIOUS
  <2> PICK a : a = now[1] OBVIOUS
  <2>1. /\ now = <<a>> /\ a.which = "now" /\ a.i \in tab.ready
        /\ tab.of.policies[a.i].action = job.fr.layer /\ tab.of.policies[a.i].id = job.fr.id
        /\ tab.of.policies[a.i].method = a.method
    BY <1>2, AttemptFinds
  <2>2. Holds(a)' BY <1>1, <2>1 DEF Holds, FoundIn
  <2> QED BY <2>1, <2>2
<1>4. before # <<>> => \E a : before = <<a>> /\ Holds(a)'
  <2> SUFFICES ASSUME before # <<>> PROVE \E a : before = <<a>> /\ Holds(a)' OBVIOUS
  <2> PICK a : a = before[1] OBVIOUS
  <2>1. grace /\ before = Attempt("before", prev, job.fr) OBVIOUS
  <2>2. prev.of \in from
    <3>1. left # 0 /\ left \in Nat BY <1>1, <2>1, Parts DEF Over, Clocked
    <3> QED BY <3>1
  <2>3. /\ before = <<a>> /\ a.which = "before" /\ a.i \in prev.ready
        /\ prev.of.policies[a.i].action = job.fr.layer /\ prev.of.policies[a.i].id = job.fr.id
        /\ prev.of.policies[a.i].method = a.method
    BY <1>2, <2>1, AttemptFinds
  <2>4. Holds(a)' BY <1>1, <2>2, <2>3 DEF Holds, FoundIn
  <2> QED BY <2>3, <2>4
<1>5. try # <<>> => 1 \in DOMAIN try /\ Holds(try[1])'
  <2> SUFFICES ASSUME try # <<>> PROVE 1 \in DOMAIN try /\ Holds(try[1])' OBVIOUS
  <2>1. try = <<>> \/ try = now \/ try = before \/ try = now \o before BY DEF Attempts
  <2>2. CASE now # <<>>
    <3> PICK a : now = <<a>> /\ Holds(a)' BY <1>3, <2>2
    <3>1. CASE try = before
      <4> PICK b : before = <<b>> /\ Holds(b)' BY <1>4, <3>1
      <4> QED BY <3>1
    <3>2. CASE try = now BY <3>2
    <3>3. CASE try = now \o before
      <4>1. before = <<>> \/ \E b : before = <<b>> BY <1>4
      <4>2. 1 \in DOMAIN try /\ try[1] = a BY <3>3, <4>1
      <4> QED BY <4>2
    <3> QED BY <2>1, <3>1, <3>2, <3>3
  <2>3. CASE now = <<>>
    <3>1. before # <<>>
      <4> SUFFICES ASSUME before = <<>> PROVE FALSE OBVIOUS
      <4>1. <<>> \o <<>> = <<>> OBVIOUS
      <4> QED BY <2>1, <2>3, <4>1
    <3> PICK b : before = <<b>> /\ Holds(b)' BY <1>4, <3>1
    <3>2. try = <<b>>
      <4>1. <<>> \o <<b>> = <<b>> OBVIOUS
      <4> QED BY <2>1, <2>3, <4>1
    <3> QED BY <3>2
  <2> QED BY <2>2, <2>3
<1>6. job'.torn \in BOOLEAN BY <1>1, Zenon
<1>7. job'.try # <<>> /\ ~job'.torn => Holds(job.try[1])'
  <2> PICK a : a = try[1] OBVIOUS
  <2>1. try # <<>> => Holds(a)' BY <1>5
  <2>2. a = job'.try[1] BY <1>1
  <2> QED BY <1>1, <2>1, <2>2
<1>8. Looked' BY <1>1, <1>5, <1>6, <1>7 DEF Looked
<1>9. JobExplained' BY <1>1, <1>8 DEF JobExplained
<1> QED BY <1>1, <1>9, Parts DEF IInv, Clocked, ReloadOK

LEMMA DecryptKeeps == IInv /\ Decrypt => IInv'
<1> SUFFICES ASSUME IInv, Decrypt PROVE IInv' OBVIOUS
<1> PICK a : a = job.try[1] OBVIOUS
<1> DEFINE x == Updated(tab.ctx[a.i])
<1>1. /\ job.pc = "looked"
      /\ tab' = tab \/ tab' = [tab EXCEPT !.ctx[a.i] = x]
      /\ UNCHANGED <<cfg, prev, grace, left, rl, failed, cut>>
  BY DEF Decrypt
<1>2. PICK r : /\ job' = [pc |-> "done", fr |-> job.fr, steady |-> job.steady, torn |-> job.torn,
                          from |-> job.from, result |-> r]
               /\ r = "original" /\ ~job.torn /\ job.try # <<>> =>
                    "original" \in Decryptions(job.fr, a.method, KeyAt(a))
               /\ r = "original" /\ ~job.torn => job.try # <<>>
  BY DEF Decrypt, Results
<1>3. Looked BY <1>1, Parts DEF JobExplained
<1>4. ASSUME NEW t \in {tab, prev}, FoundIn(a, t), job.fr.method # "pqc",
             "original" \in Decryptions(job.fr, a.method, Updated(t.ctx[a.i]).key)
      PROVE  \E c \in job.from : \E p \in Range(c.policies) :
               /\ p.action = job.fr.layer /\ p.id = job.fr.id
               /\ p.method = job.fr.method /\ p.key = job.fr.key
  <2> DEFINE p == t.of.policies[a.i]
  <2>1. Good(t) /\ Bounded(t) /\ CtxTyped(t.ctx) /\ KeysHeld(t) BY Parts DEF Good
  <2>2. a.i \in t.ready /\ t.of \in job.from /\ p.action = job.fr.layer /\ p.id = job.fr.id
        /\ p.method = a.method
    BY <1>4 DEF FoundIn
  <2>3. a.i \in Positions1 /\ a.i \in DOMAIN t.of.policies BY <2>1, <2>2, ReadyFacts
  <2>4. a.method = job.fr.method /\ Updated(t.ctx[a.i]).key = job.fr.key
    BY <1>4 DEF Decryptions
  <2>5. IsCtx(t.ctx[a.i]) /\ Fits(p, t.ctx[a.i]) BY <2>1, <2>2, <2>3 DEF CtxTyped, KeysHeld
  <2>6. ~t.ctx[a.i].pqc /\ t.ctx[a.i].key = p.key BY <1>4, <2>2, <2>4, <2>5 DEF Fits
  <2>7. p.key = job.fr.key BY <2>4, <2>5, <2>6, UpdatedKeeps
  <2>8. p \in Range(t.of.policies) BY <2>3 DEF Range
  <2> QED BY <2>2, <2>4, <2>7, <2>8
<1>5. KeysInForce'
  <2> SUFFICES ASSUME r = "original", ~job.torn, job.fr.method # "pqc"
               PROVE  \E c \in job.from : \E p \in Range(c.policies) :
                        /\ p.action = job.fr.layer /\ p.id = job.fr.id
                        /\ p.method = job.fr.method /\ p.key = job.fr.key
    BY <1>2 DEF KeysInForce
  <2>1. Holds(a) /\ "original" \in Decryptions(job.fr, a.method, KeyAt(a)) BY <1>2, <1>3 DEF Looked
  <2>2. CASE a.which = "now"
    <3>1. FoundIn(a, tab) BY <2>1, <2>2 DEF Holds
    <3> QED BY <1>4, <2>1, <2>2, <3>1 DEF KeyAt
  <2>3. CASE a.which = "before"
    <3>1. FoundIn(a, prev) BY <2>1, <2>3 DEF Holds
    <3> QED BY <1>4, <2>1, <2>3, <3>1 DEF KeyAt
  <2> QED BY <2>1, <2>2, <2>3 DEF Holds
<1>6. a.i \in Positions1 => /\ IsCtx(x) /\ x.pqc = tab.ctx[a.i].pqc
                            /\ ~tab.ctx[a.i].pqc => x.key = tab.ctx[a.i].key
  <2> SUFFICES ASSUME a.i \in Positions1
               PROVE  /\ IsCtx(x) /\ x.pqc = tab.ctx[a.i].pqc
                      /\ ~tab.ctx[a.i].pqc => x.key = tab.ctx[a.i].key
    OBVIOUS
  <2>1. IsCtx(tab.ctx[a.i]) BY Parts DEF CtxTyped
  <2> QED BY <2>1, UpdatedKeeps
<1> HIDE DEF x
<1>7. Good(tab)' /\ tab'.of = tab.of /\ tab'.indexed = tab.indexed /\ tab'.ready = tab.ready
  <2>1. CASE tab' = tab BY <2>1, Parts
  <2>2. CASE tab' = [tab EXCEPT !.ctx[a.i] = x]
    <3> PICK i : i = a.i OBVIOUS
    <3> PICK y : y = x OBVIOUS
    <3>1. Good(tab) /\ tab' = [tab EXCEPT !.ctx[i] = y] BY <2>2, Parts
    <3>2. i \in Positions1 => /\ IsCtx(y) /\ y.pqc = tab.ctx[i].pqc
                              /\ ~tab.ctx[i].pqc => y.key = tab.ctx[i].key
      BY <1>6
    <3>3. /\ Good([tab EXCEPT !.ctx[i] = y]) /\ tab'.of = tab.of
          /\ tab'.indexed = tab.indexed /\ tab'.ready = tab.ready
      BY <3>1, <3>2, OneCtxWritten
    <3> QED BY <3>1, <3>3
  <2> QED BY <1>1, <2>1, <2>2
<1>8. JobExplained' BY <1>2, <1>5 DEF JobExplained
<1>9. ReloadOK' BY <1>1, <1>7, Parts DEF ReloadOK
<1> QED BY <1>1, <1>7, <1>8, <1>9, Parts DEF IInv, Clocked

LEMMA RestKeeps == IInv /\ Rest => IInv'
<1> SUFFICES ASSUME IInv, Rest PROVE IInv' OBVIOUS
<1>1. job' = NoJob /\ UNCHANGED <<cfg, tab, prev, grace, left, rl, failed, cut>> BY DEF Rest
<1>2. JobExplained' BY <1>1 DEF NoJob, JobExplained
<1> QED BY <1>1, <1>2, Parts DEF IInv, Clocked, ReloadOK

------------------------------------------------------------------------------
(* Every reachable state satisfies the invariant. *)
LEMMA StutterKeeps == IInv /\ UNCHANGED vars => IInv'
<1> SUFFICES ASSUME IInv, UNCHANGED vars PROVE IInv' OBVIOUS
<1>1. UNCHANGED <<cfg, tab, prev, grace, left, rl, job, failed, cut>> BY DEF vars
<1>2. JobExplained' BY <1>1, Parts, JobStays DEF JobExplained, Picked
<1> QED BY <1>1, <1>2, Parts DEF IInv, Clocked, ReloadOK

LEMMA NextKeeps == IInv /\ [Next]_vars => IInv'
<1> SUFFICES ASSUME IInv, [Next]_vars PROVE IInv' OBVIOUS
<1>1. ASSUME Rebuild PROVE IInv'
  BY <1>1, SnapshotKeeps, NoSlotKeeps, ClearKeeps, NoBaseKeeps, BaseKeeps, IndexSlotKeeps,
     FillSlotKeeps, FinishKeeps DEF Rebuild
<1>2. ASSUME NEW p, Exchange(p) PROVE IInv' BY <1>2, ExchangeKeeps
<1>3. ASSUME NEW lan, NEW f, Pick(lan, f) PROVE IInv' BY <1>3, PickKeeps
<1>4. ASSUME NEW p \in Sizes, Encrypt(p) PROVE IInv' BY <1>4, EncryptKeeps
<1>5. ASSUME NEW fr, Receive(fr) PROVE IInv' BY <1>5, ReceiveKeeps
<1> QED
  BY <1>1, <1>2, <1>3, <1>4, <1>5, PublishKeeps, ExpireKeeps, TickKeeps, NoticeExpiryKeeps,
     StoreExpiryKeeps, LookKeeps, DecryptKeeps, RestKeeps, StutterKeeps DEF Next

(* The inductive invariant of the tables, of reloads and of the other worker. *)
THEOREM Invariant == Spec => []IInv
BY InitOK, NextKeeps, PTL DEF Spec

(* The tables never name a policy beyond those of their configuration, and   *)
(* only filled slots are ready (fwd_crypto_rebuild), whatever is reloaded.    *)
THEOREM TypeCorrect == Spec => []TypeOK
<1>1. IInv => TypeOK
  <2> SUFFICES ASSUME IInv PROVE TypeOK OBVIOUS
  <2>1. Bounded(tab) /\ Bounded(prev) BY Parts DEF Good
  <2>2. left \in 0 .. Grace BY Parts, CryptoAssumption DEF Clocked
  <2> QED BY <2>1, <2>2, Parts DEF TypeOK, Bounded
<1> QED BY <1>1, Invariant, PTL

(* Packets encrypted while no reload is under way carry the key of the policy *)
(* they were chosen for (fwd_crypto_rebuild and its reuse of contexts), for    *)
(* every sequence of configurations.                                          *)
THEOREM SendersKeys == Spec => []SentUnderItsPolicy
<1>1. IInv => SentUnderItsPolicy BY Parts DEF JobExplained, Sent, SentUnderItsPolicy
<1> QED BY <1>1, Invariant, PTL

(* What a worker decrypts was encrypted under a policy of the tables or, in   *)
(* the grace period, of those before them (fwd_crypto_maybe_expire_prev_grace). *)
THEOREM NoKeyForEver == Spec => []KeysInForce
<1>1. IInv => KeysInForce
  <2>1. CASE job.pc = "done" BY <2>1, Parts DEF JobExplained
  <2>2. CASE job.pc # "done" BY <2>2 DEF KeysInForce
  <2> QED BY <2>1, <2>2
<1> QED BY <1>1, Invariant, PTL

(* No packet of any length the kernel hands over makes a frame longer than an *)
(* Ethernet frame, at any layer and by any method (crypto_needs_split and the  *)
(* lengths of the halves).                                                    *)
THEOREM AllFramesFit == Spec => []FramesFit
<1>1. ASSUME IInv PROVE FramesFit
  <2> SUFFICES ASSUME job.pc = "sent", NEW n \in DOMAIN job.frames
               PROVE  job.frames[n].len \in 1 .. Longest
    BY DEF FramesFit
  <2> DEFINE cp == job.of.policies[job.i]
  <2>1. Sent BY <1>1, Parts DEF JobExplained
  <2>2. cp.action \in Layers /\ cp.method \in Methods
    BY <2>1, ConfigFacts DEF Sent, PolicyOfJob
  <2>3. WellFormed(job.packet) BY <2>1, CryptoAssumption DEF Sent
  <2>4. job.frames = Frames(cp.action, cp.method, job.packet) BY <2>1 DEF Sent
  <2> HIDE DEF cp
  <2> QED BY <2>2, <2>3, <2>4, FramesBound
<1> QED BY <1>1, Invariant, PTL

(* Every packet that arrives is restored to its length, and says so in its IP *)
(* header, cut in two or not, outside the named exceptions (the encrypting,    *)
(* splitting, storing and joining functions of the three layers).             *)
THEOREM AllRestored == Spec => []Restored
<1>1. ASSUME IInv PROVE Restored
  <2> DEFINE cp == job.of.policies[job.i]
             p == job.packet
  <2> SUFFICES ASSUME job.pc = "sent", job.frames # <<>>, Restorable(cp, p, job.frames)
               PROVE  Received(cp.action, cp.method, p, job.frames) = [len |-> p.len, total |-> p.total]
    BY DEF Restored
  <2>1. Sent BY <1>1, Parts DEF JobExplained
  <2>2. cp.action \in Layers /\ cp.method \in Methods
    BY <2>1, ConfigFacts DEF Sent, PolicyOfJob
  <2>3. WellFormed(p) BY <2>1, CryptoAssumption DEF Sent
  <2>4. job.frames = Frames(cp.action, cp.method, p) BY <2>1 DEF Sent
  <2>5. cp.action = "L4" => ~Padded(p) BY DEF Restorable
  <2>6. CASE ~NeedsSplit(cp.action, cp.method, p)
    <3>1. Len(job.frames) = 1
      <4> HIDE DEF cp, p
      <4> QED BY <2>2, <2>3, <2>4, <2>6, WholeFrames
    <3>2. cp.action = "L2" /\ cp.method = "ctr" => p.accepted BY <3>1 DEF Restorable
    <3> HIDE DEF cp, p
    <3> QED BY <2>2, <2>3, <2>4, <2>5, <2>6, <3>2, WholeComesBack
  <2>7. CASE NeedsSplit(cp.action, cp.method, p)
    <3>1. CanSplit(cp.action, cp.method, p)
      <4> HIDE DEF cp, p
      <4> QED BY <2>4, <2>7 DEF Frames
    <3>2. Len(job.frames) = 2
      <4> HIDE DEF cp, p
      <4> QED BY <2>2, <2>3, <2>4, <2>7, <3>1, TwoFrames
    <3>3. /\ job.frames[2].len >= Shortest
          /\ cp.action = "L2" => Half2(cp.action, cp.method, p) >= 20
      BY <3>2 DEF Restorable
    <3> HIDE DEF cp, p
    <3> QED BY <2>2, <2>3, <2>4, <2>5, <2>7, <3>1, <3>3, HalvesComeBack
  <2> QED BY <2>6, <2>7
<1> QED BY <1>1, Invariant, PTL

------------------------------------------------------------------------------
(* Serving throughout a reload.  What the rebuild has done so far: outside a  *)
(* rebuild the tables are whole, during one the copy of those before is, and  *)
(* the rows indexed so far have their contexts.                               *)
ReadyUpTo(t, n) ==
  \A i \in 1 .. n : LET cp == t.of.policies[i]
                    IN Encrypts(cp) /\ cp.key # ZeroKey => i \in t.ready
Whole(t) == /\ t.indexed = Len(t.of.policies)
            /\ ReadyUpTo(t, t.indexed)
            /\ t.indexed # 0 => t.owners
CopyServes == Whole(prev) /\ left = Grace /\ (prev.count > 0 /\ ~cut => grace)
Rebuilding ==
  /\ ~failed /\ rl.pc \in {"idle", "published", "copied"} => Whole(tab)
  /\ ~failed /\ rl.pc \in {"copied", "cleared", "index", "fill"} => CopyServes
  /\ rl.pc = "cleared" => tab.indexed = 0
  /\ rl.pc = "index" => tab.count = Len(cfg.policies) /\ ReadyUpTo(tab, tab.indexed)
  /\ rl.pc = "fill" => tab.count = Len(cfg.policies) /\ ReadyUpTo(tab, tab.indexed - 1)

(* The packet of the other worker: the attempt that comes first is under a    *)
(* policy with the method and the key of the frame.                           *)
GoodFrame(fr) == fr.layer \in EncryptActions /\ fr.key # ZeroKey
Suits(a, t) == a.method = job.fr.method /\ t.of.policies[a.i].key = job.fr.key
Serving ==
  /\ job.pc \in {"known", "expiring"} => GoodFrame(job.fr)
  /\ job.pc = "looked" /\ job.steady /\ ~job.torn =>
       /\ job.try # <<>> /\ job.fr.method # "pqc"
       /\ \/ job.try[1].which = "now" /\ Suits(job.try[1], tab)
          \/ job.try[1].which = "before" /\ Suits(job.try[1], prev)
  /\ job.pc = "done" => Served

LEMMA WholeSame ==
  ASSUME NEW t, NEW u, u.of = t.of, u.indexed = t.indexed, u.owners = t.owners, t.ready \subseteq u.ready
  PROVE  /\ Whole(t) => Whole(u)
         /\ \A n : ReadyUpTo(t, n) => ReadyUpTo(u, n)
BY DEF Whole, ReadyUpTo

LEMMA BuiltIsWhole == ASSUME NEW c \in Configs PROVE Whole(Built(c))
<1> DEFINE n == Len(c.policies)
           cp(i) == c.policies[i]
           ready == {i \in 1 .. n : Encrypts(cp(i)) /\ (cp(i).method = "pqc" \/ cp(i).key # ZeroKey)}
           ctx == [i \in Positions1 |->
                     IF i \in 1 .. n /\ Encrypts(cp(i)) THEN FreshCtx(cp(i)) ELSE NoCtx]
           full == [of |-> c, count |-> n, indexed |-> n, owners |-> FALSE, ready |-> ready, ctx |-> ctx]
<1>1. Built(c) = Owned(full) BY DEF Built
<1> HIDE DEF ctx
<1>2. /\ Owned(full).of = c /\ Owned(full).indexed = n /\ Owned(full).ready = ready
      /\ Owned(full).owners
  BY DEF Owned
<1> QED BY <1>1, <1>2 DEF Whole, ReadyUpTo

LEMMA FilledReady ==
  ASSUME NEW t, IsTables(t), NEW old, NEW n
  PROVE  LET cp == t.of.policies[n]
         IN Encrypts(cp) /\ cp.key # ZeroKey => n \in Filled(t, old, n).ready
BY DEF Filled, IsTables, Has, TableFields

LEMMA InitRebuilding == Init => Rebuilding /\ Serving
<1> SUFFICES ASSUME Init PROVE Rebuilding /\ Serving OBVIOUS
<1>1. /\ cfg \in Configs /\ tab = Built(cfg) /\ rl.pc = "idle" /\ ~failed /\ job.pc = "none"
  BY DEF Init, NoReload, NoJob
<1>2. Whole(tab) BY <1>1, BuiltIsWhole
<1> QED BY <1>1, <1>2 DEF Rebuilding, Serving

(* Steps that touch no more of the tables than the contexts. *)
LEMMA RebuildingSame ==
  ASSUME Rebuilding, UNCHANGED <<cfg, prev, rl, failed>>,
         tab'.of = tab.of, tab'.count = tab.count, tab'.indexed = tab.indexed,
         tab'.ready = tab.ready, tab'.owners = tab.owners,
         CopyServes => CopyServes' \/ rl.pc \notin {"copied", "cleared", "index", "fill"}
  PROVE  Rebuilding'
<1>1. Whole(tab) => Whole(tab)' BY DEF Whole, ReadyUpTo
<1>2. /\ ReadyUpTo(tab, tab.indexed) => ReadyUpTo(tab, tab.indexed)'
      /\ ReadyUpTo(tab, tab.indexed - 1) => ReadyUpTo(tab, tab.indexed - 1)'
  BY DEF ReadyUpTo
<1> QED BY <1>1, <1>2 DEF Rebuilding

LEMMA RebuildSteps ==
  ASSUME IInv, Rebuilding, Publish \/ Rebuild
  PROVE  Rebuilding'
<1>0. /\ rl.pc \in {"idle", "published", "copied", "cleared", "index", "fill"}
      /\ Has(rl, {"pc", "old"}) /\ IsTables(tab) /\ Bounded(tab) /\ Good(rl.old)
      /\ rl.pc \in {"cleared", "index", "fill"} => tab.of = cfg
      /\ rl.pc = "fill" => tab.indexed >= 1
  BY Parts DEF ReloadOK
<1>1. CASE Publish
  <2>1. rl'.pc = "published" /\ rl.pc = "idle" /\ UNCHANGED <<tab, failed>>
    BY <1>0, <1>1 DEF Publish, Has
  <2> QED BY <2>1 DEF Rebuilding, Whole, ReadyUpTo
<1>2. CASE NoSlot
  <2>1. rl'.pc = "idle" /\ failed' = TRUE BY <1>2 DEF NoSlot, NoReload
  <2> QED BY <2>1 DEF Rebuilding
<1>3. CASE Snapshot
  <2>1. /\ rl.pc = "published" /\ rl'.pc = "copied" /\ prev' = tab /\ left' = Grace
        /\ UNCHANGED <<tab, failed>> /\ (tab.count > 0 => grace')
    BY <1>0, <1>3 DEF Snapshot, Has
  <2>2. ~failed => Whole(tab) /\ Whole(tab)' /\ CopyServes'
    BY <2>1 DEF Rebuilding, Whole, ReadyUpTo, CopyServes
  <2> QED BY <2>1, <2>2 DEF Rebuilding
<1>4. CASE Clear
  <2>1. rl.pc = "copied" /\ tab' = Cleared(cfg, tab.ctx) /\ UNCHANGED <<prev, left, grace, cut>>
    BY <1>4 DEF Clear
  <2>2. tab'.indexed = 0 /\ tab'.of = cfg BY <2>1 DEF Cleared
  <2>3. CASE CryptoEnabled(cfg)
    <3>1. rl'.pc = "cleared" /\ failed' = failed BY <1>4, <2>3 DEF Clear
    <3> QED BY <2>1, <2>2, <3>1 DEF Rebuilding, CopyServes, Whole, ReadyUpTo
  <2>4. CASE ~CryptoEnabled(cfg)
    <3>1. rl'.pc = "idle" /\ cfg.policies = <<>> BY <1>4, <2>4 DEF Clear, NoReload, CryptoEnabled
    <3>2. Len(cfg.policies) = 0 BY <3>1
    <3>3. Whole(tab)' BY <2>2, <3>2 DEF Whole, ReadyUpTo
    <3> QED BY <3>1, <3>3 DEF Rebuilding
  <2> QED BY <2>3, <2>4
<1>5. CASE NoBase
  <2>1. rl'.pc = "idle" /\ failed' = TRUE BY <1>5 DEF NoBase, NoReload
  <2> QED BY <2>1 DEF Rebuilding
<1>6. CASE Base
  <2>1. /\ rl.pc = "cleared" /\ rl'.pc = "index" /\ UNCHANGED <<cfg, prev, left, grace, cut, failed>>
        /\ tab'.count = Len(cfg.policies) /\ tab'.indexed = tab.indexed /\ tab.indexed = 0
    BY <1>0, <1>6 DEF Base, Has, IsTables, TableFields, Rebuilding
  <2>2. ReadyUpTo(tab, tab.indexed)' BY <2>1 DEF ReadyUpTo
  <2> QED BY <2>1, <2>2 DEF Rebuilding, CopyServes, Whole, ReadyUpTo
<1>7. CASE IndexSlot
  <2>1. /\ rl.pc = "index" /\ rl'.pc = "fill" /\ UNCHANGED <<cfg, prev, left, grace, cut, failed>>
        /\ tab'.count = tab.count /\ tab'.indexed = tab.indexed + 1
        /\ tab'.of = tab.of /\ tab'.ready = tab.ready
    BY <1>0, <1>7 DEF IndexSlot, Has, IsTables, TableFields
  <2>2. tab'.indexed - 1 = tab.indexed BY <1>0, <2>1 DEF Bounded
  <2>3. ReadyUpTo(tab, tab.indexed - 1)' BY <2>1, <2>2 DEF Rebuilding, ReadyUpTo
  <2> QED BY <2>1, <2>3 DEF Rebuilding, CopyServes, Whole, ReadyUpTo
<1>8. CASE FillSlot
  <2>1. /\ rl.pc = "fill" /\ rl'.pc = "index" /\ UNCHANGED <<cfg, prev, left, grace, cut, failed>>
        /\ tab' = Filled(tab, rl.old, tab.indexed)
    BY <1>0, <1>8 DEF FillSlot, Has
  <2>2. tab'.of = tab.of /\ tab'.count = tab.count /\ tab'.indexed = tab.indexed
        /\ tab.ready \subseteq tab'.ready
    BY <1>0, <2>1, Parts, FilledIsGood
  <2>3. ASSUME NEW i \in 1 .. tab.indexed, Encrypts(tab.of.policies[i]),
               tab.of.policies[i].key # ZeroKey
        PROVE  i \in tab'.ready
    <3>1. CASE i = tab.indexed BY <1>0, <2>1, <2>3, <3>1, FilledReady
    <3>2. CASE i # tab.indexed
      <4>1. i \in 1 .. tab.indexed - 1 BY <1>0, <3>2 DEF Bounded
      <4> QED BY <2>1, <2>2, <2>3, <4>1 DEF Rebuilding, ReadyUpTo
    <3> QED BY <3>1, <3>2
  <2>4. ReadyUpTo(tab, tab.indexed)' BY <2>2, <2>3 DEF ReadyUpTo
  <2> QED BY <2>1, <2>2, <2>4 DEF Rebuilding, CopyServes, Whole, ReadyUpTo
<1>9. CASE Finish
  <2>1. rl.pc = "index" /\ rl'.pc = "idle" /\ tab.indexed = tab.count /\ tab' = Owned(tab)
    BY <1>9 DEF Finish, NoReload
  <2>2. tab'.of = tab.of /\ tab'.indexed = tab.indexed /\ tab'.ready = tab.ready /\ tab'.owners
    BY <2>1, Parts, OwnedIsGood
  <2>3. tab.of = cfg /\ tab.count = Len(cfg.policies) /\ ReadyUpTo(tab, tab.indexed)
    BY <1>0, <2>1 DEF Rebuilding
  <2>4. Whole(tab)' BY <2>1, <2>2, <2>3 DEF Whole, ReadyUpTo
  <2> QED BY <2>1, <2>4 DEF Rebuilding
<1> QED BY <1>1, <1>2, <1>3, <1>4, <1>5, <1>6, <1>7, <1>8, <1>9 DEF Rebuild

LEMMA OtherSteps ==
  ASSUME IInv, Rebuilding,
         \/ Expire \/ Tick \/ (\E p : Exchange(p)) \/ (\E lan, f : Pick(lan, f))
         \/ (\E p : Encrypt(p)) \/ (\E fr : Receive(fr)) \/ NoticeExpiry \/ StoreExpiry
         \/ Look \/ Decrypt \/ Rest \/ UNCHANGED vars
  PROVE  Rebuilding'
<1>0. left \in Nat /\ Grace \in Nat \ {0} BY Parts, CryptoAssumption DEF Clocked
<1>1. CASE Expire \/ Tick
  <2>1. rl.pc = "idle" /\ UNCHANGED <<cfg, tab, prev, rl, failed>> BY <1>1 DEF Expire, Tick
  <2> QED BY <2>1, RebuildingSame
<1>2. CASE StoreExpiry
  <2>1. /\ UNCHANGED <<cfg, tab, prev, left, rl, failed>> /\ cut' = (cut \/ left > 0)
    BY <1>2 DEF StoreExpiry
  <2>2. CopyServes => CopyServes'
    <3>1. left = Grace => left > 0 BY <1>0
    <3>2. left > 0 => cut' BY <2>1, Zenon
    <3>3. Whole(prev) => Whole(prev)' BY <2>1 DEF Whole, ReadyUpTo
    <3> QED BY <2>1, <3>1, <3>2, <3>3 DEF CopyServes
  <2> QED BY <2>1, <2>2, RebuildingSame
<1>3. CASE (\E fr : Receive(fr)) \/ NoticeExpiry \/ Look \/ Rest \/ UNCHANGED vars
  <2>1. UNCHANGED <<cfg, tab, prev, grace, left, rl, failed, cut>>
    BY <1>3 DEF Receive, NoticeExpiry, Look, Rest, vars
  <2>2. CopyServes => CopyServes' BY <2>1 DEF CopyServes, Whole, ReadyUpTo
  <2> QED BY <2>1, <2>2, RebuildingSame
<1>4. ASSUME NEW p, Exchange(p) PROVE Rebuilding'
  <2>1. UNCHANGED <<cfg, prev, grace, left, rl, failed, cut>> BY <1>4 DEF Exchange
  <2>2. /\ tab'.of = tab.of /\ tab'.count = tab.count /\ tab'.indexed = tab.indexed
        /\ tab'.ready = tab.ready /\ tab'.owners = tab.owners
    BY <1>4, Parts, RefreshedIsGood DEF Exchange
  <2>3. CopyServes => CopyServes' BY <2>1 DEF CopyServes, Whole, ReadyUpTo
  <2> QED BY <2>1, <2>2, <2>3, RebuildingSame
<1>5. ASSUME NEW i, NEW x, UNCHANGED <<cfg, prev, grace, left, rl, failed, cut>>,
             tab' = tab \/ tab' = [tab EXCEPT !.ctx[i] = x]
      PROVE  Rebuilding'
  <2>1. /\ tab'.of = tab.of /\ tab'.count = tab.count /\ tab'.indexed = tab.indexed
        /\ tab'.ready = tab.ready /\ tab'.owners = tab.owners
    BY <1>5, Parts DEF IsTables, Has, TableFields
  <2>2. CopyServes => CopyServes' BY <1>5 DEF CopyServes, Whole, ReadyUpTo
  <2> QED BY <1>5, <2>1, <2>2, RebuildingSame
<1>6. ASSUME NEW lan, NEW f, Pick(lan, f) PROVE Rebuilding'
  <2>1. /\ UNCHANGED <<cfg, prev, grace, left, rl, failed, cut>>
        /\ \E i, x : tab' = tab \/ tab' = [tab EXCEPT !.ctx[i] = x]
    BY <1>6 DEF Pick
  <2> QED BY <1>5, <2>1
<1>7. ASSUME NEW p, Encrypt(p) PROVE Rebuilding'
  <2>1. /\ UNCHANGED <<cfg, prev, grace, left, rl, failed, cut>>
        /\ \E i, x : tab' = [tab EXCEPT !.ctx[i] = x]
    BY <1>7 DEF Encrypt
  <2> QED BY <1>5, <2>1
<1>8. CASE Decrypt
  <2>1. /\ UNCHANGED <<cfg, prev, grace, left, rl, failed, cut>>
        /\ \E i, x : tab' = tab \/ tab' = [tab EXCEPT !.ctx[i] = x]
    BY <1>8 DEF Decrypt
  <2> QED BY <1>5, <2>1
<1> QED BY <1>1, <1>2, <1>3, <1>4, <1>6, <1>7, <1>8

(* Under the id of a frame the index finds a policy of its key, and a context *)
(* for it wherever the tables are whole.                                      *)
LEMMA ServedIn ==
  ASSUME NEW t, Good(t), Whole(t), NEW fr, GoodFrame(fr), Serves(t.of, fr), NEW which
  PROVE  Attempt(which, t, fr) # <<>> /\ HasOwner(t, fr) /\ t.count > 0
<1> DEFINE P == t.of.policies
           same == {i \in 1 .. t.indexed : P[i].action = fr.layer /\ P[i].id = fr.id}
           i == Index(t, fr.layer, fr.id)
<1>1. /\ DOMAIN P = 1 .. t.indexed /\ t.indexed \in Nat /\ t.count \in Nat /\ t.indexed <= t.count
      /\ ReadyUpTo(t, t.indexed) /\ (t.indexed # 0 => t.owners)
  BY ConfigFacts DEF Good, Bounded, Whole
<1>2. PICK k \in DOMAIN P : P[k].action = fr.layer /\ P[k].id = fr.id
  BY DEF Serves, Range
<1>3. k \in same BY <1>1, <1>2
<1>4. i = Max(same) BY <1>3 DEF Index
<1> HIDE DEF same, i
<1>5. Max(same) \in same
  <2>1. same \subseteq 1 .. t.indexed /\ same # {} BY <1>3 DEF same
  <2> QED BY <1>1, <2>1, MaxOfBounded
<1>6. i \in DOMAIN P /\ P[i].action = fr.layer /\ P[i].id = fr.id /\ i \in 1 .. t.indexed
  BY <1>1, <1>4, <1>5 DEF same
<1>7. P[i].key = fr.key BY <1>6 DEF Serves, Range
<1>8. Encrypts(P[i]) /\ P[i].key # ZeroKey BY <1>6, <1>7 DEF GoodFrame, Encrypts
<1>9. i \in t.ready BY <1>1, <1>6, <1>8 DEF ReadyUpTo
<1>10. i \in 1 .. t.count /\ i # 0 /\ t.count > 0 /\ t.indexed # 0 BY <1>1, <1>6
<1>11. Servable(t, i) BY <1>9, <1>10 DEF Servable, Ready
<1> QED BY <1>1, <1>10, <1>11 DEF Attempt, HasOwner, i

LEMMA FoundSuits ==
  ASSUME NEW which, NEW t, Good(t), NEW fr, Serves(t.of, fr), Attempt(which, t, fr) # <<>>
  PROVE  LET a == Attempt(which, t, fr)[1]
         IN /\ Attempt(which, t, fr) = <<a>> /\ a.which = which
            /\ a.method = fr.method /\ t.of.policies[a.i].key = fr.key
            /\ t.of.policies[a.i].method = fr.method /\ a.i \in DOMAIN t.of.policies
<1> PICK a : a = Attempt(which, t, fr)[1] OBVIOUS
<1>1. Bounded(t) BY DEF Good
<1>2. /\ Attempt(which, t, fr) = <<a>> /\ a.which = which /\ a.i \in t.ready
      /\ t.of.policies[a.i].action = fr.layer /\ t.of.policies[a.i].id = fr.id
      /\ t.of.policies[a.i].method = a.method
  BY <1>1, AttemptFinds
<1>3. a.i \in DOMAIN t.of.policies BY <1>1, <1>2, ReadyFacts
<1>4. t.of.policies[a.i] \in Range(t.of.policies) BY <1>3 DEF Range
<1> QED BY <1>2, <1>3, <1>4 DEF Serves

(* A step that marks the packet as torn when it rewrites what it has read.    *)
LEMMA ServingStays ==
  ASSUME IInv, Serving, NEW which, NEW slots, Torn(which, slots) \/ job' = job,
         tab'.of = tab.of \/ (which = "now" /\ slots = Positions1 /\ Torn(which, slots)),
         prev'.of = prev.of \/ (which = "before" /\ slots = Positions1 /\ Torn(which, slots))
  PROVE  Serving'
<1>1. CASE job.pc = "looked"
  <2>1. Looked BY <1>1, Parts DEF JobExplained
  <2>2. /\ job'.pc = job.pc /\ job'.fr = job.fr /\ job'.try = job.try /\ job'.steady = job.steady
        /\ ~job'.torn => ~job.torn /\ (Torn(which, slots) => ~Uses(which, slots))
    BY <2>1 DEF Torn, Looked, Has
  <2>3. ASSUME job.steady, ~job'.torn
        PROVE  /\ job.try # <<>> /\ job.fr.method # "pqc"
               /\ \/ job.try[1].which = "now" /\ Suits(job.try[1], tab)'
                  \/ job.try[1].which = "before" /\ Suits(job.try[1], prev)'
    <3> PICK a : a = job.try[1] OBVIOUS
    <3>1. /\ job.try # <<>> /\ job.fr.method # "pqc" /\ Holds(a) /\ 1 \in DOMAIN job.try
          /\ \/ a.which = "now" /\ Suits(a, tab)
             \/ a.which = "before" /\ Suits(a, prev)
      BY <1>1, <2>1, <2>2, <2>3 DEF Serving, Looked
    <3>2. a \in Range(job.try) BY <3>1 DEF Range
    <3>3. Torn(which, slots) => ~(a.which = which /\ a.i \in slots)
      BY <1>1, <2>2, <2>3, <3>2 DEF Uses
    <3>4. a.i \in Positions1
      BY <3>1, Parts, ReadyFacts DEF Holds, FoundIn, Good
    <3>5. CASE a.which = "now" /\ Suits(a, tab)
      <4>1. tab'.of = tab.of BY <3>3, <3>4, <3>5
      <4> QED BY <2>2, <3>1, <3>5, <4>1 DEF Suits
    <3>6. CASE a.which = "before" /\ Suits(a, prev)
      <4>1. prev'.of = prev.of BY <3>3, <3>4, <3>6
      <4> QED BY <2>2, <3>1, <3>6, <4>1 DEF Suits
    <3> QED BY <3>1, <3>5, <3>6
  <2> QED BY <1>1, <2>2, <2>3 DEF Serving
<1>2. CASE job.pc = "picked"
  <2>1. Has(job, {"pc", "of", "i", "overlap", "torn"}) BY <1>2, Parts DEF JobExplained, Picked
  <2>2. job'.pc = "picked" BY <1>2, <2>1 DEF Torn, Has
  <2> QED BY <2>2 DEF Serving
<1>3. CASE job.pc \notin {"picked", "looked"}
  <2>1. job' = job BY <1>3 DEF Torn, Uses
  <2> QED BY <1>3, <2>1 DEF Serving, Served
<1> QED BY <1>1, <1>2, <1>3

LEMMA FramesAreGood ==
  ASSUME NEW c \in Configs \cup {EmptyConfig}, NEW fr \in PeerFrames(c)
  PROVE  GoodFrame(fr)
<1>1. PICK p \in Range(c.policies), h \in BOOLEAN, a \in BOOLEAN :
        /\ Encrypts(p) /\ (p.method = "pqc" \/ p.key # ZeroKey)
        /\ fr = [layer |-> p.action, id |-> p.id, method |-> p.method, half |-> h, ports |-> TRUE,
                 accepted |-> a \/ h \/ p.action # "L2",
                 key |-> IF p.method = "pqc" THEN PqcKey(p.db) ELSE p.key]
  BY DEF PeerFrames
<1>2. PICK i \in DOMAIN c.policies : p = c.policies[i] BY DEF Range
<1>3. p.method = "pqc" => PqcKey(p.db) # ZeroKey BY <1>2, ConfigFacts
<1> QED BY <1>1, <1>3 DEF GoodFrame, Encrypts

(* Looking while nothing has failed: the first attempt is with the key of the *)
(* frame, in the tables or, as long as they are being filled, in their copy.  *)
LEMMA LookServes == ASSUME IInv, Rebuilding, Serving, Look PROVE Serving'
<1> PICK fr : fr = job.fr OBVIOUS
<1> PICK now : now = Attempt("now", tab, fr) OBVIOUS
<1> PICK before : before = IF grace THEN Attempt("before", prev, fr) ELSE <<>> OBVIOUS
<1> PICK try : try = Attempts(fr) OBVIOUS
<1>1. /\ job.pc = "known" /\ job'.pc = "looked" /\ job'.fr = fr /\ job'.try = try
      /\ UNCHANGED <<tab, prev>>
  BY DEF Look
<1>2. job'.steady => /\ ~failed /\ ~cut /\ Serves(tab.of, fr)
                     /\ rl.pc \in {"cleared", "index", "fill"} => Serves(prev.of, fr)
  BY Zenon DEF Look
<1>3. GoodFrame(fr) BY <1>1 DEF Serving
<1> SUFFICES ASSUME job'.steady
             PROVE  /\ try # <<>> /\ fr.method # "pqc"
                    /\ \/ try[1].which = "now" /\ Suits(try[1], tab)'
                       \/ try[1].which = "before" /\ Suits(try[1], prev)'
  BY <1>1 DEF Serving
<1>4. Good(tab) /\ Good(prev) /\ rl.pc \in {"idle", "published", "copied", "cleared", "index", "fill"}
  BY Parts DEF ReloadOK
<1>6. ProfileKnown(fr) /\ (now # <<>> \/ before # <<>>) /\ (now = <<>> => Serves(prev.of, fr))
  <2>1. CASE rl.pc \in {"cleared", "index", "fill"}
    <3>1. CopyServes /\ Serves(prev.of, fr) BY <1>2, <2>1 DEF Rebuilding
    <3>2. Attempt("before", prev, fr) # <<>> /\ HasOwner(prev, fr) /\ prev.count > 0
      BY <1>3, <1>4, <3>1, ServedIn DEF CopyServes
    <3>3. grace BY <1>2, <3>1, <3>2 DEF CopyServes
    <3> QED BY <3>1, <3>2, <3>3 DEF ProfileKnown
  <2>2. CASE rl.pc \in {"idle", "published", "copied"}
    <3>1. Whole(tab) BY <1>2, <2>2 DEF Rebuilding
    <3>2. Attempt("now", tab, fr) # <<>> /\ HasOwner(tab, fr) BY <1>2, <1>3, <1>4, <3>1, ServedIn
    <3> QED BY <3>2 DEF ProfileKnown
  <2> QED BY <1>4, <2>1, <2>2
<1>7. ASSUME NEW t \in {tab, prev}, NEW a, Good(t), a.method = fr.method,
             t.of.policies[a.i].key = fr.key, t.of.policies[a.i].method = fr.method,
             a.i \in DOMAIN t.of.policies
      PROVE  fr.method # "pqc" /\ (t' = t => Suits(a, t)')
  <2>1. t.of \in Configs \cup {EmptyConfig} BY <1>7 DEF Good, Bounded
  <2>2. fr.method # "pqc" BY <1>3, <1>7, <2>1, ConfigFacts DEF GoodFrame
  <2> QED BY <1>1, <1>7, <2>2 DEF Suits
<1>8. CASE now # <<>>
  <2>1. PICK a : /\ now = <<a>> /\ a.which = "now" /\ a.method = fr.method
                 /\ tab.of.policies[a.i].key = fr.key /\ tab.of.policies[a.i].method = fr.method
                 /\ a.i \in DOMAIN tab.of.policies
    BY <1>2, <1>4, <1>8, FoundSuits
  <2>2. before = <<>> \/ \E b : before = <<b>>
    BY <1>4, AttemptFinds DEF Good
  <2>3. try = now \/ try = now \o before
    <3>1. ~(fr.half /\ ~ProfileKnown(fr)) BY <1>6
    <3>2. CASE fr.half \/ fr.layer = "L2" BY Zenon, <3>1, <3>2, <1>8 DEF Attempts
    <3>3. CASE ~(fr.half \/ fr.layer = "L2") BY Zenon, <3>1, <3>3 DEF Attempts
    <3> QED BY <3>2, <3>3
  <2>4. try # <<>> /\ try[1] = a
    <3>1. CASE before = <<>>
      <4>1. <<a>> \o <<>> = <<a>> OBVIOUS
      <4>2. try = <<a>> BY <2>1, <2>3, <3>1, <4>1
      <4> QED BY <4>2
    <3>2. ASSUME NEW b, before = <<b>> PROVE try # <<>> /\ try[1] = a
      <4>1. <<a>> \in Seq({a, b}) /\ <<b>> \in Seq({a, b}) OBVIOUS
      <4>2. Len(<<a>> \o <<b>>) = 2 /\ (<<a>> \o <<b>>)[1] = a BY <4>1
      <4>3. <<a>> \o <<b>> # <<>> BY <4>2
      <4>4. try = <<a>> \/ try = <<a>> \o <<b>> BY <2>1, <2>3, <3>2
      <4> QED BY <4>2, <4>3, <4>4
    <3> QED BY <2>2, <3>1, <3>2
  <2>5. fr.method # "pqc" /\ Suits(a, tab)' BY <1>1, <1>4, <1>7, <2>1
  <2> QED BY <2>1, <2>4, <2>5
<1>9. CASE now = <<>>
  <2>1. grace /\ before = Attempt("before", prev, fr) /\ before # <<>> /\ Serves(prev.of, fr)
    BY <1>6, <1>9
  <2>2. PICK a : /\ before = <<a>> /\ a.which = "before" /\ a.method = fr.method
                 /\ prev.of.policies[a.i].key = fr.key /\ prev.of.policies[a.i].method = fr.method
                 /\ a.i \in DOMAIN prev.of.policies
    BY <1>4, <2>1, FoundSuits
  <2>3. try = before \/ try = now \o before BY <1>6, <1>9 DEF Attempts
  <2>4. <<>> \o <<a>> = <<a>> OBVIOUS
  <2>5. try = <<a>> BY <1>9, <2>2, <2>3, <2>4
  <2>6. fr.method # "pqc" /\ Suits(a, prev)' BY <1>1, <1>4, <1>7, <2>2
  <2> QED BY <2>2, <2>5, <2>6
<1> QED BY <1>8, <1>9

LEMMA DecryptServes == ASSUME IInv, Serving, Decrypt PROVE Serving'
<1> PICK a : a = job.try[1] OBVIOUS
<1>1. job.pc = "looked" /\ Looked BY Parts DEF Decrypt, JobExplained
<1>2. PICK r \in (IF job.torn THEN Outcomes ELSE Results(job.fr, job.try)) :
        job' = [pc |-> "done", fr |-> job.fr, steady |-> job.steady, torn |-> job.torn,
                from |-> job.from, result |-> r]
  BY DEF Decrypt
<1>3. ASSUME job.steady, ~job.torn, ~Refused(job.fr) PROVE r = "original"
  <2>1. /\ job.try # <<>> /\ job.fr.method # "pqc" /\ Holds(a)
        /\ \/ a.which = "now" /\ Suits(a, tab)
           \/ a.which = "before" /\ Suits(a, prev)
    BY <1>1, <1>3 DEF Serving, Looked
  <2>2. ASSUME NEW t \in {tab, prev}, FoundIn(a, t), Suits(a, t)
        PROVE  a.method = job.fr.method /\ Updated(t.ctx[a.i]).key = job.fr.key
    <3>1. Good(t) /\ Bounded(t) /\ CtxTyped(t.ctx) /\ KeysHeld(t) BY Parts DEF Good
    <3>2. a.i \in t.ready /\ t.of.policies[a.i].method = a.method BY <2>2 DEF FoundIn
    <3>3. a.i \in Positions1 BY <3>1, <3>2, ReadyFacts
    <3>4. IsCtx(t.ctx[a.i]) /\ Fits(t.of.policies[a.i], t.ctx[a.i])
      BY <3>1, <3>2, <3>3 DEF CtxTyped, KeysHeld
    <3>5. ~t.ctx[a.i].pqc /\ t.ctx[a.i].key = job.fr.key
      BY <2>1, <2>2, <3>2, <3>4 DEF Fits, Suits
    <3> QED BY <2>2, <3>4, <3>5, UpdatedKeeps DEF Suits
  <2>3. a.method = job.fr.method /\ KeyAt(a) = job.fr.key
    <3>1. CASE a.which = "now" BY <2>1, <2>2, <3>1 DEF Holds, KeyAt
    <3>2. CASE a.which = "before" BY <2>1, <2>2, <3>2 DEF Holds, KeyAt
    <3> QED BY <2>1, <3>1, <3>2
  <2>4. Decryptions(job.fr, a.method, KeyAt(a)) = {"original"} BY <1>3, <2>3 DEF Decryptions
  <2>5. Results(job.fr, job.try) = {"original"} BY <2>1, <2>4 DEF Results
  <2> QED BY <1>2, <1>3, <2>5
<1>4. /\ job'.pc = "done" /\ job'.result = r /\ job'.steady = job.steady /\ job'.torn = job.torn
      /\ job'.fr = job.fr
  BY <1>2
<1>5. Served' BY <1>3, <1>4 DEF Served
<1> QED BY <1>4, <1>5 DEF Serving

LEMMA ServingKept == ASSUME IInv, Rebuilding, Serving, [Next]_vars PROVE Serving'
<1>1. CASE Expire \/ Tick \/ NoSlot \/ NoBase \/ UNCHANGED vars
  <2>1. UNCHANGED <<tab, prev, job>> BY <1>1 DEF Expire, Tick, NoSlot, NoBase, vars
  <2> QED BY <2>1, ServingStays
<1>2. CASE Base \/ IndexSlot \/ Finish
  <2>1. tab'.of = tab.of /\ UNCHANGED <<prev, job>>
    BY <1>2, Parts, OwnedIsGood DEF Base, IndexSlot, Finish, IsTables, Has, TableFields
  <2> QED BY <2>1, ServingStays
<1>3. CASE Snapshot
  <2>1. UNCHANGED tab /\ Torn("before", Positions1) BY <1>3 DEF Snapshot
  <2> QED BY <2>1, ServingStays
<1>4. CASE Clear
  <2>1. UNCHANGED prev /\ Torn("now", Positions1) BY <1>4 DEF Clear
  <2> QED BY <2>1, ServingStays
<1>5. CASE FillSlot
  <2>1. UNCHANGED prev /\ Torn("now", {tab.indexed}) /\ tab' = Filled(tab, rl.old, tab.indexed)
        /\ tab.indexed >= 1
    BY <1>5, Parts DEF FillSlot, ReloadOK
  <2>2. tab'.of = tab.of BY <2>1, Parts, FilledIsGood
  <2> QED BY <2>1, <2>2, ServingStays
<1>6. ASSUME NEW p, Exchange(p) PROVE Serving'
  <2>1. /\ UNCHANGED prev /\ Torn("now", {i \in Positions1 : tab'.ctx[i] # tab.ctx[i]})
        /\ tab' = Refreshed(tab, p.profile, exchanged')
    BY <1>6 DEF Exchange
  <2>2. tab'.of = tab.of BY <2>1, Parts, RefreshedIsGood
  <2> QED BY <2>1, <2>2, ServingStays
<1>7. CASE Publish
  <2>1. CASE job.pc = "picked"
    <3>1. Has(job, {"pc", "of", "i", "overlap", "torn"}) BY <2>1, Parts DEF JobExplained, Picked
    <3>2. job'.pc = "picked" BY <1>7, <2>1, <3>1 DEF Publish, Has
    <3> QED BY <3>2 DEF Serving
  <2>2. CASE job.pc # "picked"
    <3>1. UNCHANGED <<tab, prev, job>> BY <1>7, <2>2 DEF Publish
    <3> QED BY <3>1, ServingStays
  <2> QED BY <2>1, <2>2
<1>8. CASE Rest \/ (\E lan, f : Pick(lan, f)) \/ (\E p : Encrypt(p))
  <2>1. ASSUME Rest PROVE job'.pc = "none" BY <2>1 DEF Rest, NoJob
  <2>2. ASSUME NEW lan, NEW f, Pick(lan, f) PROVE job'.pc = "picked" BY <2>2 DEF Pick
  <2>3. ASSUME NEW p, Encrypt(p) PROVE job'.pc = "sent" BY <2>3 DEF Encrypt
  <2>4. job'.pc \in {"none", "picked", "sent"} BY <1>8, <2>1, <2>2, <2>3 DEF Rest, NoJob
  <2> QED BY <2>4 DEF Serving
<1>9. ASSUME NEW c \in {cfg, tab.of, prev.of}, NEW fr \in PeerFrames(c), Receive(fr) PROVE Serving'
  <2>1. job'.pc = "known" /\ job'.fr = fr BY <1>9 DEF Receive
  <2>2. c \in Configs \cup {EmptyConfig} BY Parts DEF Good, Bounded
  <2>3. GoodFrame(fr) BY <2>2, FramesAreGood
  <2> QED BY <2>1, <2>3 DEF Serving
<1>10. CASE NoticeExpiry \/ StoreExpiry
  <2>1. job.pc \in {"known", "expiring"} /\ Has(job, {"pc", "fr"})
    BY <1>10, Parts DEF NoticeExpiry, StoreExpiry, JobExplained
  <2>2. job'.pc \in {"known", "expiring"} /\ job'.fr = job.fr
    BY <1>10, <2>1 DEF NoticeExpiry, StoreExpiry, Has
  <2> QED BY <2>1, <2>2 DEF Serving
<1> QED BY <1>1, <1>2, <1>3, <1>4, <1>5, <1>6, <1>7, <1>8, <1>9, <1>10, LookServes, DecryptServes
        DEF Next, Rebuild

(* A packet under a policy that the tables have, and while they are rebuilt   *)
(* had before, is decrypted at every moment of a reload: fwd_crypto_rebuild   *)
(* empties the tables and fills them again, and the copy that                 *)
(* fwd_crypto_snapshot_active_to_prev made of them serves meanwhile.  Frames  *)
(* that CTR refuses at L2 under every key are left out (Refused).             *)
THEOREM AlwaysServed == Spec => []Served
<1>1. IInv /\ Rebuilding /\ Serving /\ [Next]_vars => Rebuilding' /\ Serving'
  BY RebuildSteps, OtherSteps, ServingKept DEF Next
<1>2. Spec => [](Rebuilding /\ Serving)
  BY <1>1, InitRebuilding, Invariant, PTL DEF Spec
<1>3. Serving => Served
  <2>1. CASE job.pc = "done" BY <2>1 DEF Serving
  <2>2. CASE job.pc # "done" BY <2>2 DEF Served
  <2> QED BY <2>1, <2>2
<1> QED BY <1>2, <1>3, PTL

------------------------------------------------------------------------------
(* The ids that travel in encrypted frames.  A configuration is built row by  *)
(* row and profile by profile, by recursive functions: what they compute is   *)
(* shown by induction over the rows.                                         *)
(* Induction over the natural numbers, from their well-foundedness.           *)
LEMMA LeastNat == ASSUME NEW T \in SUBSET Nat, T # {} PROVE \E x \in T : \A y \in T : x <= y
<1>1. PICK x \in T : \A y \in T : <<y, x>> \notin OpToRel(<, Nat)
  BY NatLessThanWellFounded, WFMin
<1>2. \A y \in T : ~(y < x)
  <2> SUFFICES ASSUME NEW y \in T, y < x PROVE FALSE
    BY DEF OpToRel
  <2>1. <<y, x>> \in OpToRel(<, Nat) BY DEF OpToRel
  <2> QED BY <1>1, <2>1
<1> QED BY <1>2

LEMMA Induct == ASSUME NEW T \in SUBSET Nat, 0 \in T, \A n \in T : n + 1 \in T PROVE T = Nat
<1> SUFFICES ASSUME Nat \ T # {} PROVE FALSE OBVIOUS
<1>1. PICK x \in Nat \ T : \A y \in Nat \ T : x <= y BY LeastNat
<1>2. x # 0 /\ x - 1 \in Nat BY <1>1
<1>3. x - 1 \in T BY <1>1, <1>2
<1> QED BY <1>1, <1>2, <1>3

(* Rows of ne_policies: the id is the primary key.                            *)
IsRows(rows) == /\ IsFiniteSet(rows)
                /\ \A r \in rows : r.prio \in Int /\ r.db \in Int /\ \E M : r.match \in Seq(M)
                /\ \A r, q \in rows : r.db = q.db => r = q

(* Rows can be put in order.                                                  *)
LEMMA LastRow ==
  ASSUME NEW rows, IsRows(rows), NEW S \in SUBSET rows, S # {}
  PROVE  \E r \in S : \A x \in S \ {r} : Precedes(x, r)
<1> DEFINE T == {n \in Nat : \A A \in SUBSET rows : Cardinality(A) = n + 1 =>
                   \E r \in A : \A x \in A \ {r} : Precedes(x, r)}
<1>1. 0 \in T
  <2> SUFFICES ASSUME NEW A \in SUBSET rows, Cardinality(A) = 1
               PROVE  \E r \in A : \A x \in A \ {r} : Precedes(x, r)
    OBVIOUS
  <2>1. IsFiniteSet(A) BY FS_Subset DEF IsRows
  <2>2. PICK r : A = {r} BY <2>1, FS_Singleton
  <2> QED BY <2>2
<1>2. ASSUME NEW n \in T PROVE n + 1 \in T
  <2> SUFFICES ASSUME NEW A \in SUBSET rows, Cardinality(A) = n + 2
               PROVE  \E r \in A : \A x \in A \ {r} : Precedes(x, r)
    OBVIOUS
  <2>1. IsFiniteSet(A) BY FS_Subset DEF IsRows
  <2>2. PICK a : a \in A BY <2>1, FS_EmptySet
  <2>3. Cardinality(A \ {a}) = n + 1 BY <2>1, <2>2, FS_RemoveElement
  <2>4. PICK r \in A \ {a} : \A x \in (A \ {a}) \ {r} : Precedes(x, r) BY <2>3
  <2>5. CASE Precedes(a, r) BY <2>4, <2>5
  <2>6. CASE ~Precedes(a, r)
    <3>1. \A x \in A : x.prio \in Int /\ x.db \in Int BY DEF IsRows
    <3>2. a.db # r.db BY <2>2, <2>4 DEF IsRows
    <3>3. Precedes(r, a) BY <2>2, <2>4, <2>6, <3>1, <3>2 DEF Precedes
    <3>4. \A x \in A \ {a} : Precedes(x, a) BY <2>2, <2>4, <3>1, <3>3 DEF Precedes
    <3> QED BY <2>2, <3>4
  <2> QED BY <2>5, <2>6
<1> HIDE DEF T
<1>3. T = Nat BY <1>1, <1>2, Induct DEF T
<1>4. PICK n \in Nat : Cardinality(S) = n + 1
  <2>1. IsFiniteSet(S) BY FS_Subset DEF IsRows
  <2>2. Cardinality(S) \in Nat /\ Cardinality(S) # 0 BY <2>1, FS_EmptySet, FS_CardinalityType
  <2>3. Cardinality(S) - 1 \in Nat /\ Cardinality(S) = (Cardinality(S) - 1) + 1 BY <2>2
  <2> QED BY <2>3
<1> QED BY <1>3, <1>4 DEF T

LEMMA RowsSort ==
  ASSUME NEW rows, IsRows(rows)
  PROVE  \E s \in [1..Cardinality(rows) -> rows] :
           \A i, j \in DOMAIN s : i < j => Precedes(s[i], s[j])
<1> DEFINE Sorts(s) == \A i, j \in DOMAIN s : i < j => Precedes(s[i], s[j])
           T == {n \in Nat : \A A \in SUBSET rows : Cardinality(A) = n =>
                   \E s \in [1..n -> A] : Sorts(s)}
<1>1. 0 \in T
  <2> SUFFICES ASSUME NEW A \in SUBSET rows, Cardinality(A) = 0
               PROVE  \E s \in [1..0 -> A] : Sorts(s)
    OBVIOUS
  <2>1. A = {} BY FS_Subset, FS_EmptySet DEF IsRows
  <2>2. [i \in 1..0 |-> {}] \in [1..0 -> A] OBVIOUS
  <2> QED BY <2>1, <2>2
<1>2. ASSUME NEW n \in T PROVE n + 1 \in T
  <2> SUFFICES ASSUME NEW A \in SUBSET rows, Cardinality(A) = n + 1
               PROVE  \E s \in [1..n + 1 -> A] : Sorts(s)
    OBVIOUS
  <2>1. IsFiniteSet(A) /\ A # {} BY FS_Subset, FS_EmptySet DEF IsRows
  <2>2. PICK r \in A : \A x \in A \ {r} : Precedes(x, r) BY <2>1, LastRow
  <2>3. Cardinality(A \ {r}) = n /\ A \ {r} \in SUBSET rows BY <2>1, FS_RemoveElement
  <2>4. PICK s \in [1..n -> A \ {r}] : Sorts(s) BY <2>3
  <2>5. PICK t : t = [i \in 1..n + 1 |-> IF i = n + 1 THEN r ELSE s[i]] OBVIOUS
  <2>6. t \in [1..n + 1 -> A] BY <2>4, <2>5
  <2>7. ASSUME NEW i \in DOMAIN t, NEW j \in DOMAIN t, i < j PROVE Precedes(t[i], t[j])
    <3>1. i \in 1..n /\ t[i] = s[i] BY <2>5, <2>7
    <3>2. CASE j = n + 1 BY <2>2, <2>4, <2>5, <3>1, <3>2
    <3>3. CASE j # n + 1 BY <2>4, <2>5, <2>7, <3>1, <3>3
    <3> QED BY <3>2, <3>3
  <2> QED BY <2>6, <2>7
<1> HIDE DEF T
<1>3. T = Nat BY <1>1, <1>2, Induct DEF T
<1>4. Cardinality(rows) \in Nat BY FS_CardinalityType DEF IsRows
<1> QED BY <1>3, <1>4 DEF T

LEMMA InOrderIsSeq ==
  ASSUME NEW rows, IsRows(rows) PROVE InOrder(rows) \in Seq(rows)
<1>1. Cardinality(rows) \in Nat BY FS_CardinalityType DEF IsRows
<1>2. InOrder(rows) \in [1..Cardinality(rows) -> rows] BY RowsSort DEF InOrder
<1> QED BY <1>1, <1>2

------------------------------------------------------------------------------
IsSeq(s) == \E S : s \in Seq(S)

LEMMA SeqsJoined ==
  ASSUME NEW s, NEW t, IsSeq(s), IsSeq(t)
  PROVE  IsSeq(s \o t) /\ Range(s \o t) = Range(s) \cup Range(t)
<1>1. PICK A : s \in Seq(A) BY DEF IsSeq
<1>2. PICK B : t \in Seq(B) BY DEF IsSeq
<1> DEFINE C == A \cup B
<1>3. s \in Seq(C) /\ t \in Seq(C) BY <1>1, <1>2
<1> HIDE DEF C
<1>4. /\ s \o t \in Seq(C) /\ Len(s \o t) = Len(s) + Len(t)
      /\ \A i \in 1..Len(s) : (s \o t)[i] = s[i]
      /\ \A i \in 1..Len(t) : (s \o t)[Len(s) + i] = t[i]
  BY <1>3
<1>5. Range(s \o t) \subseteq Range(s) \cup Range(t)
  <2> SUFFICES ASSUME NEW i \in DOMAIN (s \o t)
               PROVE  (s \o t)[i] \in Range(s) \cup Range(t)
    BY DEF Range
  <2>1. i \in 1..Len(s) + Len(t) BY <1>4
  <2>2. CASE i \in 1..Len(s) BY <1>3, <1>4, <2>2 DEF Range
  <2>3. CASE i \notin 1..Len(s)
    <3>1. PICK j \in 1..Len(t) : i = Len(s) + j
      <4>1. i - Len(s) \in 1..Len(t) /\ i = Len(s) + (i - Len(s)) BY <1>3, <2>1, <2>3
      <4> QED BY <4>1
    <3> QED BY <1>3, <1>4, <3>1 DEF Range
  <2> QED BY <2>2, <2>3
<1>6. Range(s) \cup Range(t) \subseteq Range(s \o t)
  <2>1. ASSUME NEW i \in 1..Len(s) PROVE s[i] \in Range(s \o t)
    <3>1. i \in DOMAIN (s \o t) BY <1>3, <1>4
    <3> QED BY <1>4, <3>1 DEF Range
  <2>2. ASSUME NEW i \in 1..Len(t) PROVE t[i] \in Range(s \o t)
    <3>1. Len(s) + i \in DOMAIN (s \o t) BY <1>3, <1>4
    <3> QED BY <1>4, <3>1 DEF Range
  <2>3. DOMAIN s = 1..Len(s) /\ DOMAIN t = 1..Len(t) BY <1>3
  <2> QED BY <2>1, <2>2, <2>3 DEF Range
<1> QED BY <1>4, <1>5, <1>6 DEF IsSeq

(* An id given out is free, or there was none.                                *)
LEMMA AllocIsFree ==
  ASSUME NEW db, NEW used
  PROVE  AllocWireId(db, used) \in {-1} \cup ((1..MaxWireId) \ used)
<1> DEFINE free == (1..MaxWireId) \ used
<1>1. CASE free # {}
  <2>1. free \in SUBSET Nat OBVIOUS
  <2>2. \E x \in free : \A y \in free : x <= y BY <1>1, <2>1, LeastNat
  <2>3. Min(free) \in free BY <2>2 DEF Min
  <2> QED BY <1>1, <2>3 DEF AllocWireId
<1> QED BY <1>1 DEF AllocWireId

(* What the rows read so far have been given.                                 *)
LoadOK(load, profile) ==
  /\ Has(load, {"ok", "policies", "used", "keys"}) /\ load.ok \in BOOLEAN
  /\ load.ok =>
       /\ IsSeq(load.policies)
       /\ \A k \in load.keys : k.id \in load.used
       /\ \A k, l \in load.keys : k.id = l.id => k.key = l.key
       /\ \A p \in Range(load.policies) :
            /\ p.profile = profile /\ p.id \in load.used
            /\ Encrypts(p) /\ p.method # "pqc" => [key |-> p.key, id |-> p.id] \in load.keys
            /\ Encrypts(p) /\ p.method = "pqc" =>
                 p.key = ZeroKey /\ (p.id # 0 => \A k \in load.keys : k.id # p.id)

LEMMA RowLoads ==
  ASSUME NEW load, NEW profile, NEW handshake, LoadOK(load, profile),
         NEW row, IsSeq(row.match)
  PROVE  LoadOK(LoadRow(load, row, profile, handshake), profile)
<1> DEFINE id == WireId(load, row, handshake)
           new == [i \in DOMAIN row.match |-> PolicyOf(row, id, profile, row.match[i])]
           aes == row.action # "bypass" /\ row.method # "pqc"
           keys == IF row.action = "bypass" \/ row.method = "pqc" THEN load.keys
                   ELSE load.keys \cup {[key |-> row.key, id |-> id]}
           next == [ok |-> TRUE, policies |-> load.policies \o new,
                    used |-> load.used \cup {id}, keys |-> keys]
<1>1. \/ LoadRow(load, row, profile, handshake) = load /\ ~load.ok
      \/ LoadRow(load, row, profile, handshake) = [load EXCEPT !.ok = FALSE]
      \/ LoadRow(load, row, profile, handshake) = next /\ load.ok /\ id # -1
  BY Zenon DEF LoadRow
<1>2. IsSeq(new)
  <2>1. PICK M : row.match \in Seq(M) BY DEF IsSeq
  <2>2. new \in Seq({PolicyOf(row, id, profile, row.match[i]) : i \in DOMAIN row.match}) BY <2>1
  <2> QED BY <2>2 DEF IsSeq
<1> HIDE DEF id
<1>3. \A p \in Range(new) :
        /\ p.profile = profile /\ p.id = id /\ p.action = row.action
        /\ row.action # "bypass" => p.method = row.method
        /\ p.key = IF row.action = "bypass" \/ row.method = "pqc" THEN ZeroKey ELSE row.key
  <2>1. \A i \in DOMAIN row.match : new[i] = PolicyOf(row, id, profile, row.match[i]) OBVIOUS
  <2>2. DOMAIN new = DOMAIN row.match OBVIOUS
  <2> HIDE DEF new
  <2> SUFFICES ASSUME NEW i \in DOMAIN row.match
               PROVE  LET p == new[i]
                      IN /\ p.profile = profile /\ p.id = id /\ p.action = row.action
                         /\ row.action # "bypass" => p.method = row.method
                         /\ p.key = IF row.action = "bypass" \/ row.method = "pqc" THEN ZeroKey
                                    ELSE row.key
    BY <2>2 DEF Range
  <2>3. PICK key : key = IF row.action = "bypass" \/ row.method = "pqc" THEN ZeroKey ELSE row.key
    OBVIOUS
  <2>4. PICK method : method = IF row.action = "bypass" THEN "gcm" ELSE row.method OBVIOUS
  <2>5. new[i] = [db |-> row.db, id |-> id, prio |-> row.prio, action |-> row.action,
                  method |-> method, key |-> key, match |-> row.match[i], profile |-> profile]
    BY Zenon, <2>1, <2>3, <2>4 DEF PolicyOf
  <2> QED BY <2>3, <2>4, <2>5
<1> HIDE DEF new
<1>4. id = -1 \/ (~aes /\ id = 0) \/ id \notin load.used \/ (aes /\ \E k \in load.keys : k.key = row.key /\ id = k.id)
  <2>1. CASE ~aes
    <3>1. id \in {0, AllocWireId(row.db, load.used)} BY <2>1 DEF WireId, id
    <3>2. AllocWireId(row.db, load.used) = -1 \/ AllocWireId(row.db, load.used) \notin load.used
      BY AllocIsFree
    <3> QED BY <2>1, <3>1, <3>2
  <2>2. CASE aes
    <3>1. id = IdForKey(load, row) BY <2>2 DEF WireId, id
    <3>2. CASE {k \in load.keys : k.key = row.key} = {}
      BY <3>1, <3>2, AllocIsFree DEF IdForKey
    <3>3. CASE {k \in load.keys : k.key = row.key} # {}
      <4>1. \E k \in {l \in load.keys : l.key = row.key} : id = k.id
        BY Zenon, <3>1, <3>3 DEF IdForKey
      <4> QED BY <2>2, <4>1
    <3> QED BY <3>2, <3>3
  <2> QED BY <2>1, <2>2
<1>5. CASE LoadRow(load, row, profile, handshake) = next /\ load.ok /\ id # -1
  <2>1. /\ IsSeq(load.policies)
        /\ \A k \in load.keys : k.id \in load.used
        /\ \A k, l \in load.keys : k.id = l.id => k.key = l.key
    BY <1>5 DEF LoadOK
  <2>2. IsSeq(load.policies \o new) /\ Range(load.policies \o new) = Range(load.policies) \cup Range(new)
    BY <1>2, <2>1, SeqsJoined
  <2>3. /\ \A k \in keys : k.id \in load.used \cup {id}
        /\ load.keys \subseteq keys
        /\ ~aes => keys = load.keys
        /\ aes => keys = load.keys \cup {[key |-> row.key, id |-> id]}
    BY <2>1
  <2> HIDE DEF keys
  <2>4. ASSUME NEW k \in keys, NEW l \in keys, k.id = l.id PROVE k.key = l.key
    <3>1. CASE ~aes BY <2>1, <2>3, <2>4, <3>1
    <3>2. ASSUME aes, NEW m \in load.keys, m.id = id PROVE m.key = row.key
      <4>1. id \in load.used BY <2>1, <3>2
      <4> QED BY <1>4, <1>5, <2>1, <3>2, <4>1
    <3>3. CASE aes BY <2>1, <2>3, <2>4, <3>2, <3>3
    <3> QED BY <3>1, <3>3
  <2>5. ASSUME NEW p \in Range(load.policies)
        PROVE  /\ p.profile = profile /\ p.id \in load.used \cup {id}
               /\ Encrypts(p) /\ p.method # "pqc" => [key |-> p.key, id |-> p.id] \in keys
               /\ Encrypts(p) /\ p.method = "pqc" =>
                    p.key = ZeroKey /\ (p.id # 0 => \A k \in keys : k.id # p.id)
    <3>1. /\ p.profile = profile /\ p.id \in load.used
          /\ Encrypts(p) /\ p.method # "pqc" => [key |-> p.key, id |-> p.id] \in load.keys
          /\ Encrypts(p) /\ p.method = "pqc" =>
               p.key = ZeroKey /\ (p.id # 0 => \A k \in load.keys : k.id # p.id)
      BY <1>5 DEF LoadOK
    <3>2. ASSUME aes, Encrypts(p), p.method = "pqc", p.id # 0 PROVE id # p.id
      BY <1>4, <1>5, <3>1, <3>2
    <3> QED BY <2>3, <3>1, <3>2
  <2>6. ASSUME NEW p \in Range(new)
        PROVE  /\ p.profile = profile /\ p.id \in load.used \cup {id}
               /\ Encrypts(p) /\ p.method # "pqc" => [key |-> p.key, id |-> p.id] \in keys
               /\ Encrypts(p) /\ p.method = "pqc" =>
                    p.key = ZeroKey /\ (p.id # 0 => \A k \in keys : k.id # p.id)
    <3>1. Encrypts(p) => row.action # "bypass" /\ p.method = row.method
      BY <1>3 DEF Encrypts, EncryptActions
    <3>2. Encrypts(p) /\ p.method # "pqc" => [key |-> p.key, id |-> p.id] \in keys
      BY <1>3, <2>3, <3>1
    <3>3. ASSUME Encrypts(p), p.method = "pqc", p.id # 0 PROVE \A k \in keys : k.id # p.id
      <4>1. ~aes /\ keys = load.keys /\ id # 0 BY <1>3, <2>3, <3>1, <3>3
      <4>2. id \notin load.used BY <1>4, <1>5, <4>1
      <4> QED BY <1>3, <2>1, <4>1, <4>2
    <3> QED BY <1>3, <3>1, <3>2, <3>3
  <2>7. LoadOK(next, profile)
    BY <2>2, <2>3, <2>4, <2>5, <2>6 DEF LoadOK, Has
  <2> QED BY <1>5, <2>7
<1>6. LoadOK([load EXCEPT !.ok = FALSE], profile) BY DEF LoadOK, Has
<1> QED BY <1>1, <1>5, <1>6

(* The function that LoadPolicies defines: what is loaded after n rows.       *)
NoRows == [ok |-> TRUE, policies |-> <<>>, used |-> {0}, keys |-> {}]
Loads(f, s, profile, handshake) ==
  f = [n \in 0..Len(s) |-> IF n = 0 THEN NoRows ELSE LoadRow(f[n - 1], s[n], profile, handshake)]

LEMMA LoadsExist ==
  ASSUME NEW rows, NEW s \in Seq(rows), NEW profile, NEW handshake
  PROVE  \E f : Loads(f, s, profile, handshake)
<1> DEFINE Upto(f, m) == f = [n \in 0..m |-> IF n = 0 THEN NoRows
                                             ELSE LoadRow(f[n - 1], s[n], profile, handshake)]
           T == {m \in Nat : \E f : Upto(f, m)}
<1>1. 0 \in T
  <2>1. Upto([n \in 0..0 |-> NoRows], 0) OBVIOUS
  <2> QED BY <2>1
<1>2. ASSUME NEW m \in T PROVE m + 1 \in T
  <2>1. PICK f : Upto(f, m) OBVIOUS
  <2> DEFINE g == [n \in 0..m + 1 |-> IF n = m + 1 THEN LoadRow(f[m], s[m + 1], profile, handshake)
                                      ELSE f[n]]
  <2>2. ASSUME NEW n \in 0..m + 1
        PROVE  g[n] = IF n = 0 THEN NoRows ELSE LoadRow(g[n - 1], s[n], profile, handshake)
    <3>1. CASE n = m + 1 BY <3>1
    <3>2. CASE n # m + 1
      <4>1. n \in 0..m /\ g[n] = f[n] BY <3>2
      <4>2. n # 0 => n - 1 \in 0..m /\ g[n - 1] = f[n - 1] BY <4>1
      <4> QED BY <2>1, <4>1, <4>2
    <3> QED BY <3>1, <3>2
  <2>3. DOMAIN g = 0..m + 1 OBVIOUS
  <2>4. g = [n \in 0..m + 1 |-> g[n]] OBVIOUS
  <2> HIDE DEF g
  <2>5. Upto(g, m + 1) BY <2>2, <2>4
  <2> QED BY <2>5
<1> HIDE DEF T
<1>3. T = Nat BY <1>1, <1>2, Induct DEF T
<1> QED BY <1>3 DEF T, Loads

LEMMA PoliciesLoad ==
  ASSUME NEW rows, IsRows(rows), NEW profile, NEW handshake
  PROVE  LoadOK(LoadPolicies(rows, profile, handshake), profile)
<1> DEFINE s == InOrder(rows)
<1>1. s \in Seq(rows) BY InOrderIsSeq
<1>2. PICK f : /\ Loads(f, s, profile, handshake)
               /\ LoadPolicies(rows, profile, handshake) = f[Len(s)]
  <2> DEFINE f == CHOOSE f : Loads(f, s, profile, handshake)
  <2>1. Loads(f, s, profile, handshake) BY Zenon, <1>1, LoadsExist
  <2>2. LoadPolicies(rows, profile, handshake) = f[Len(s)]
    BY Zenon DEF LoadPolicies, Loads, NoRows
  <2> QED BY <2>1, <2>2
<1> HIDE DEF s
<1> DEFINE T == {n \in Nat : n <= Len(s) => LoadOK(f[n], profile)}
<1>3. 0 \in T
  <2>1. f[0] = NoRows BY <1>1, <1>2 DEF Loads
  <2>2. IsSeq(<<>>) /\ Range(<<>>) = {} BY DEF IsSeq, Range
  <2>3. LoadOK(NoRows, profile) BY <2>2 DEF LoadOK, NoRows, Has
  <2> QED BY <2>1, <2>3
<1>4. ASSUME NEW n \in T PROVE n + 1 \in T
  <2> SUFFICES ASSUME n + 1 <= Len(s) PROVE LoadOK(f[n + 1], profile) OBVIOUS
  <2>1. n + 1 \in 1..Len(s) /\ n + 1 \in 0..Len(s) /\ (n + 1) - 1 = n /\ n + 1 # 0 BY <1>1
  <2>2. f[n + 1] = LoadRow(f[n], s[n + 1], profile, handshake) BY <1>2, <2>1 DEF Loads
  <2>3. s[n + 1] \in rows BY <1>1, <2>1
  <2>4. IsSeq(s[n + 1].match) BY <2>3 DEF IsRows, IsSeq
  <2>5. LoadOK(f[n], profile) BY <1>1, <2>1
  <2> QED BY <2>2, <2>4, <2>5, RowLoads
<1> HIDE DEF T
<1>5. T = Nat BY <1>3, <1>4, Induct DEF T
<1> QED BY <1>1, <1>2, <1>5 DEF T

------------------------------------------------------------------------------
(* What profiles contribute to a configuration.                               *)
IsDatabase(db) == \A id \in DOMAIN db : IsRows(db[id].policies)
LoadedFor(db, id) ==
  LoadPolicies(db[id].policies, id, \E w \in Range(db[id].wans) : w.peer # None)

FromRows(c, db) ==
  /\ c.ok \in BOOLEAN
  /\ c.ok => /\ IsSeq(c.policies)
             /\ \A p \in Range(c.policies) :
                  /\ p.profile \in DOMAIN db /\ LoadedFor(db, p.profile).ok
                  /\ p \in Range(LoadedFor(db, p.profile).policies)

LEMMA ProfileFromRows ==
  ASSUME NEW db, IsDatabase(db), NEW id PROVE FromRows(ConfigLoadFromDb(db, id), db)
<1> DEFINE made == LoadProfile(db, id)
           load == LoadedFor(db, id)
<1>1. CASE ConfigLoadFromDb(db, id) = Failed BY <1>1 DEF Failed, FromRows
<1>2. CASE ConfigLoadFromDb(db, id) = made /\ made # Failed
  <2>1. id \in DOMAIN db /\ load.ok /\ made.ok = TRUE /\ made.policies = load.policies
    BY <1>2 DEF LoadProfile, LoadedFor
  <2>2. LoadOK(load, id) BY <2>1, PoliciesLoad DEF LoadedFor, IsDatabase
  <2> QED BY <1>2, <2>1, <2>2 DEF FromRows, LoadOK
<1> QED BY Zenon, <1>1, <1>2 DEF ConfigLoadFromDb

LEMMA MergedFromRows ==
  ASSUME NEW db, NEW dst, FromRows(dst, db), NEW src, FromRows(src, db), NEW present
  PROVE  FromRows(MergeOne(dst, src, present), db)
<1>1. CASE MergeOne(dst, src, present) = Failed BY <1>1 DEF Failed, FromRows
<1>2. CASE MergeOne(dst, src, present) # Failed
  <2>1. /\ dst.ok /\ src.ok
        /\ MergeOne(dst, src, present).ok = TRUE
        /\ MergeOne(dst, src, present).policies = dst.policies \o src.policies
    BY <1>2 DEF MergeOne
  <2>2. /\ IsSeq(dst.policies \o src.policies)
        /\ Range(dst.policies \o src.policies) = Range(dst.policies) \cup Range(src.policies)
    BY <2>1, SeqsJoined DEF FromRows
  <2> QED BY <2>1, <2>2 DEF FromRows
<1> QED BY <1>1, <1>2

(* The function that BuildMergedConfig defines: the first n profiles.         *)
Merges(f, db, ids, present) ==
  f = [n \in 0..Len(ids) |->
         IF n = 0 THEN EmptyConfig
         ELSE IF f[n - 1].ok THEN MergeOne(f[n - 1], ConfigLoadFromDb(db, ids[n]), present)
         ELSE Failed]

LEMMA MergesExist ==
  ASSUME NEW db, NEW ids, IsSeq(ids), NEW present
  PROVE  \E f : Merges(f, db, ids, present)
<1> DEFINE Next1(c, n) == IF c.ok THEN MergeOne(c, ConfigLoadFromDb(db, ids[n]), present)
                          ELSE Failed
           Upto(f, m) == f = [n \in 0..m |-> IF n = 0 THEN EmptyConfig ELSE Next1(f[n - 1], n)]
           T == {m \in Nat : \E f : Upto(f, m)}
<1>1. 0 \in T
  <2>1. Upto([n \in 0..0 |-> EmptyConfig], 0) OBVIOUS
  <2> QED BY <2>1
<1> HIDE DEF Next1
<1>2. ASSUME NEW m \in T PROVE m + 1 \in T
  <2>1. PICK f : Upto(f, m) OBVIOUS
  <2> DEFINE g == [n \in 0..m + 1 |-> IF n = m + 1 THEN Next1(f[m], m + 1) ELSE f[n]]
  <2>2. ASSUME NEW n \in 0..m + 1
        PROVE  g[n] = IF n = 0 THEN EmptyConfig ELSE Next1(g[n - 1], n)
    <3>1. CASE n = m + 1 BY <3>1
    <3>2. CASE n # m + 1
      <4>1. n \in 0..m /\ g[n] = f[n] BY <3>2
      <4>2. n # 0 => n - 1 \in 0..m /\ g[n - 1] = f[n - 1] BY <4>1
      <4> QED BY <2>1, <4>1, <4>2
    <3> QED BY <3>1, <3>2
  <2>3. g = [n \in 0..m + 1 |-> g[n]] OBVIOUS
  <2> HIDE DEF g
  <2>4. Upto(g, m + 1) BY <2>2, <2>3
  <2> QED BY <2>4
<1> HIDE DEF T
<1>3. T = Nat BY <1>1, <1>2, Induct DEF T
<1>4. Len(ids) \in Nat BY DEF IsSeq
<1> QED BY <1>3, <1>4 DEF T, Merges, Next1

(* Every policy of a configuration comes from the rows of its profile.        *)
LEMMA BuiltFromRows ==
  ASSUME NEW db, IsDatabase(db), NEW ids, IsSeq(ids), NEW present
  PROVE  FromRows(BuildMergedConfig(db, ids, present), db)
<1>1. PICK f : /\ Merges(f, db, ids, present)
               /\ \/ BuildMergedConfig(db, ids, present) = f[Len(ids)]
                  \/ BuildMergedConfig(db, ids, present) = Failed
  <2> DEFINE f == CHOOSE f : Merges(f, db, ids, present)
  <2>1. Merges(f, db, ids, present) BY Zenon, MergesExist
  <2>2. \/ BuildMergedConfig(db, ids, present) = f[Len(ids)]
        \/ BuildMergedConfig(db, ids, present) = Failed
    BY Zenon DEF BuildMergedConfig, Merges
  <2> QED BY <2>1, <2>2
<1>2. Len(ids) \in Nat BY DEF IsSeq
<1> DEFINE T == {n \in Nat : n <= Len(ids) => FromRows(f[n], db)}
<1>3. 0 \in T
  <2>1. f[0] = EmptyConfig BY <1>1, <1>2 DEF Merges
  <2>2. IsSeq(<<>>) /\ Range(<<>>) = {} BY DEF IsSeq, Range
  <2>3. EmptyConfig.ok = TRUE /\ EmptyConfig.policies = <<>> BY DEF EmptyConfig
  <2> QED BY <2>1, <2>2, <2>3 DEF FromRows
<1>4. ASSUME NEW n \in T PROVE n + 1 \in T
  <2> SUFFICES ASSUME n + 1 <= Len(ids) PROVE FromRows(f[n + 1], db) OBVIOUS
  <2>1. n + 1 \in 0..Len(ids) /\ (n + 1) - 1 = n /\ n + 1 # 0 BY <1>2
  <2>2. f[n + 1] = IF f[n].ok THEN MergeOne(f[n], ConfigLoadFromDb(db, ids[n + 1]), present)
                   ELSE Failed
    BY <1>1, <2>1 DEF Merges
  <2>3. FromRows(f[n], db) BY <1>2, <2>1
  <2>4. CASE f[n].ok
    <3>1. FromRows(ConfigLoadFromDb(db, ids[n + 1]), db) BY ProfileFromRows
    <3> QED BY <2>2, <2>3, <2>4, <3>1, MergedFromRows
  <2>5. CASE ~f[n].ok BY <2>2, <2>5 DEF Failed, FromRows
  <2> QED BY <2>4, <2>5
<1> HIDE DEF T
<1>5. T = Nat BY <1>3, <1>4, Induct DEF T
<1>6. FromRows(f[Len(ids)], db) BY <1>2, <1>5 DEF T
<1>7. FromRows(Failed, db) BY DEF Failed, FromRows
<1> QED BY <1>1, <1>6, <1>7

LEMMA IdsOfAProfile ==
  ASSUME NEW db, IsDatabase(db), NEW c, FromRows(c, db), c.ok,
         NEW p \in Range(c.policies), NEW q \in Range(c.policies),
         p.profile = q.profile, p.id = q.id, Encrypts(p), Encrypts(q), p.id # 0
  PROVE  p.key = q.key /\ (p.method = "pqc" <=> q.method = "pqc")
<1> DEFINE load == LoadedFor(db, p.profile)
<1>1. /\ p.profile \in DOMAIN db /\ load.ok
      /\ p \in Range(load.policies) /\ q \in Range(load.policies)
  BY DEF FromRows
<1>2. LoadOK(load, p.profile) BY <1>1, PoliciesLoad DEF LoadedFor, IsDatabase
<1> HIDE DEF load
<1>3. /\ \A k, l \in load.keys : k.id = l.id => k.key = l.key
      /\ \A r \in {p, q} :
           /\ Encrypts(r) /\ r.method # "pqc" => [key |-> r.key, id |-> r.id] \in load.keys
           /\ Encrypts(r) /\ r.method = "pqc" =>
                r.key = ZeroKey /\ (r.id # 0 => \A k \in load.keys : k.id # r.id)
  BY <1>1, <1>2 DEF LoadOK
<1> QED BY <1>3

(* A configuration that build_merged_config makes of a database.              *)
FromDatabase(c) ==
  \E db, ids, present :
    IsDatabase(db) /\ IsSeq(ids) /\ c = BuildMergedConfig(db, ids, present) /\ c.ok

(* Whatever the rows of the profiles are, an id that travels in the frames of *)
(* a profile stands for one AES key (load_profiles_and_policies,              *)
(* ne_wire_id_for_encrypt_key, merge_one_config).                            *)
THEOREM OneKeyPerId ==
  ASSUME \A c \in Configs : FromDatabase(c)
  PROVE  Spec => []IdsNameKeys
<1>1. IInv => IdsNameKeys
  <2> SUFFICES ASSUME IInv PROVE IdsNameKeys OBVIOUS
  <2>1. FromDatabase(cfg) BY DEF IInv
  <2>2. PICK db, ids, present :
          IsDatabase(db) /\ IsSeq(ids) /\ cfg = BuildMergedConfig(db, ids, present) /\ cfg.ok
    BY <2>1 DEF FromDatabase
  <2>3. FromRows(cfg, db) BY <2>2, BuiltFromRows
  <2> QED BY <2>2, <2>3, IdsOfAProfile DEF IdsNameKeys
<1> QED BY <1>1, Invariant, PTL

==============================================================================
