------------------------ MODULE FramePipeline_proofs -------------------------
(***************************************************************************)
(* Proofs about FramePipeline, for every number of frames, interfaces and  *)
(* workers and every capacity: a frame never has two owners, no frame is   *)
(* lost, and a worker's hands hold what its step says.                     *)
(***************************************************************************)
EXTENDS FramePipeline, FiniteSetTheorems, SequenceTheorems, TLAPS

------------------------------------------------------------------------------
(* Places *)

(* Every name of a place the actions use is a place. *)
LEMMA PlaceNames ==
  /\ Pool \in Places
  /\ \A q \in Queues : /\ Fq(q) \in Places /\ Rx(q) \in Places /\ RxBatch(q) \in Places
                       /\ TxJobs(q) \in Places /\ Tx(q) \in Places /\ Cq(q) \in Places
  /\ \A w \in Workers : /\ LocalToMid(w) \in Places /\ WanToMid(w) \in Places
                        /\ Job(w) \in Places /\ SplitTail(w) \in Places
  /\ \A q \in Queues, w \in Workers : MidTo(q, w) \in Places
<1>1. \A q \in Queues : /\ Fq(q) \in Places /\ Rx(q) \in Places /\ RxBatch(q) \in Places
                        /\ TxJobs(q) \in Places /\ Tx(q) \in Places /\ Cq(q) \in Places
  BY DEF Places, QueuePlaces
<1>2. \A w \in Workers : /\ LocalToMid(w) \in Places /\ WanToMid(w) \in Places
                         /\ Job(w) \in Places /\ SplitTail(w) \in Places
  BY DEF Places, WorkerPlaces
<1>3. \A q \in Queues, w \in Workers : MidTo(q, w) \in Places
  <2> TAKE q \in Queues, w \in Workers
  <2>1. <<q, w>> \in Queues \X Workers /\ MidTo(<<q, w>>[1], <<q, w>>[2]) = MidTo(q, w)
    BY DEF MidTo
  <2> QED BY <2>1 DEF Places, RingPlaces
<1> QED BY <1>1, <1>2, <1>3 DEF Places

(* Places with different names are different, and so are those of different *)
(* queues and workers: a place is determined by its components.             *)
LEMMA PlaceKinds ==
  /\ Pool[1] = "pool"
  /\ \A q : /\ Fq(q)[1] = "fq" /\ Fq(q)[2] = q
            /\ Rx(q)[1] = "rx" /\ Rx(q)[2] = q
            /\ RxBatch(q)[1] = "rx_batch" /\ RxBatch(q)[2] = q
            /\ TxJobs(q)[1] = "tx_jobs" /\ TxJobs(q)[2] = q
            /\ Tx(q)[1] = "tx" /\ Tx(q)[2] = q
            /\ Cq(q)[1] = "cq" /\ Cq(q)[2] = q
  /\ \A w : /\ LocalToMid(w)[1] = "local_to_mid" /\ LocalToMid(w)[2] = w
            /\ WanToMid(w)[1] = "wan_to_mid" /\ WanToMid(w)[2] = w
            /\ Job(w)[1] = "job" /\ Job(w)[2] = w
            /\ SplitTail(w)[1] = "split_tail" /\ SplitTail(w)[2] = w
  /\ \A q, w : /\ MidTo(q, w)[1] = "mid_to" /\ MidTo(q, w)[2] = q /\ MidTo(q, w)[3] = w
BY DEF Pool, Fq, Rx, RxBatch, TxJobs, Tx, Cq, LocalToMid, WanToMid, Job, SplitTail, MidTo

------------------------------------------------------------------------------
(* Moving frames *)

(* What Move makes of the assignment h of frames to places. *)
Moved(h, a, b, n) == [h EXCEPT ![a] = Rest(@, n), ![b] = @ \o FirstN(h[a], n)]

(* The positions of a move: what is left at a, and what b holds afterwards. *)
LEMMA MovedPositions ==
  ASSUME NEW h \in [Places -> Seq(Frames)], NEW a \in Places, NEW b \in Places, a # b,
         NEW n \in 0..Len(h[a])
  PROVE  LET m == Moved(h, a, b, n) IN
         /\ m \in [Places -> Seq(Frames)]
         /\ \A p \in Places : p # a /\ p # b => m[p] = h[p]
         /\ Len(m[a]) = Len(h[a]) - n /\ Len(m[b]) = Len(h[b]) + n
         /\ \A i \in 1..(Len(h[a]) - n) : m[a][i] = h[a][i + n]
         /\ \A i \in 1..Len(h[b]) : m[b][i] = h[b][i]
         /\ \A i \in (Len(h[b]) + 1)..(Len(h[b]) + n) : m[b][i] = h[a][i - Len(h[b])]
<1> DEFINE m == Moved(h, a, b, n)
<1>1. /\ m[a] = Rest(h[a], n) /\ m[b] = h[b] \o FirstN(h[a], n)
      /\ \A p \in Places : p # a /\ p # b => m[p] = h[p]
      /\ DOMAIN m = Places /\ m = [p \in Places |-> m[p]]
  BY DEF Moved
<1>2. /\ h[a] \in Seq(Frames) /\ h[b] \in Seq(Frames)
      /\ Len(h[a]) \in Nat /\ Len(h[b]) \in Nat
  OBVIOUS
<1>3. /\ Rest(h[a], n) \in Seq(Frames)
      /\ Len(Rest(h[a], n)) = Len(h[a]) - n
      /\ \A i \in 1..(Len(h[a]) - n) : Rest(h[a], n)[i] = h[a][i + n]
  BY <1>2 DEF Rest
<1>4. /\ FirstN(h[a], n) \in Seq(Frames)
      /\ Len(FirstN(h[a], n)) = n
      /\ \A i \in 1..n : FirstN(h[a], n)[i] = h[a][i]
  BY <1>2 DEF FirstN
<1> DEFINE s == FirstN(h[a], n)
<1>5. /\ h[b] \o s \in Seq(Frames)
      /\ Len(h[b] \o s) = Len(h[b]) + n
      /\ \A i \in 1..Len(h[b]) : (h[b] \o s)[i] = h[b][i]
      /\ \A i \in (Len(h[b]) + 1)..(Len(h[b]) + n) : (h[b] \o s)[i] = s[i - Len(h[b])]
  <2> HIDE DEF s
  <2>1. s \in Seq(Frames) /\ Len(s) = n /\ n \in Nat
    BY <1>2, <1>4 DEF s
  <2>2. h[b] \o s \in Seq(Frames) /\ Len(h[b] \o s) = Len(h[b]) + n
    BY <1>2, <2>1, ConcatProperties
  <2>3. \A i \in 1..(Len(h[b]) + n) :
           (h[b] \o s)[i] = IF i <= Len(h[b]) THEN h[b][i] ELSE s[i - Len(h[b])]
    BY <1>2, <2>1, ConcatProperties
  <2> QED BY <1>2, <2>1, <2>2, <2>3
<1>6. m \in [Places -> Seq(Frames)]
  <2>1. \A p \in Places : m[p] \in Seq(Frames)
    <3> TAKE p \in Places
    <3>1. CASE p = a BY <3>1, <1>1, <1>3
    <3>2. CASE p = b BY <3>2, <1>1, <1>5
    <3>3. CASE p # a /\ p # b BY <3>3, <1>1
    <3> QED BY <3>1, <3>2, <3>3
  <2> QED BY <2>1, <1>1
<1>7. \A i \in (Len(h[b]) + 1)..(Len(h[b]) + n) : m[b][i] = h[a][i - Len(h[b])]
  <2> TAKE i \in (Len(h[b]) + 1)..(Len(h[b]) + n)
  <2>1. i - Len(h[b]) \in 1..n BY <1>2
  <2> HIDE DEF m
  <2> QED BY <2>1, <1>1, <1>4, <1>5
<1> QED BY <1>1, <1>3, <1>5, <1>6, <1>7

(* A move keeps every frame in one position, and loses none. *)
LEMMA MovedConserves ==
  ASSUME NEW h \in [Places -> Seq(Frames)], NEW a \in Places, NEW b \in Places, a # b,
         NEW n \in 0..Len(h[a]), OneOwner(h), AllPresent(h)
  PROVE  OneOwner(Moved(h, a, b, n)) /\ AllPresent(Moved(h, a, b, n))
<1> DEFINE m == Moved(h, a, b, n)
           \* where the frame at position i of p in m was in h
           oldP(p, i) == IF p = b /\ i > Len(h[b]) THEN a ELSE p
           oldI(p, i) == IF p = b /\ i > Len(h[b]) THEN i - Len(h[b])
                         ELSE IF p = a THEN i + n ELSE i
<1>1. /\ m \in [Places -> Seq(Frames)]
      /\ \A p \in Places : p # a /\ p # b => m[p] = h[p]
      /\ Len(m[a]) = Len(h[a]) - n /\ Len(m[b]) = Len(h[b]) + n
      /\ \A i \in 1..(Len(h[a]) - n) : m[a][i] = h[a][i + n]
      /\ \A i \in 1..Len(h[b]) : m[b][i] = h[b][i]
      /\ \A i \in (Len(h[b]) + 1)..(Len(h[b]) + n) : m[b][i] = h[a][i - Len(h[b])]
  BY MovedPositions
<1> HIDE DEF m
<1>2. \A p \in Places : /\ h[p] \in Seq(Frames) /\ DOMAIN h[p] = 1..Len(h[p]) /\ Len(h[p]) \in Nat
                         /\ m[p] \in Seq(Frames) /\ DOMAIN m[p] = 1..Len(m[p]) /\ Len(m[p]) \in Nat
  BY <1>1
<1>3. \A p \in Places : \A i \in DOMAIN m[p] :
        /\ oldP(p, i) \in Places /\ oldI(p, i) \in DOMAIN h[oldP(p, i)]
        /\ m[p][i] = h[oldP(p, i)][oldI(p, i)]
  <2> TAKE p \in Places
  <2> TAKE i \in DOMAIN m[p]
  <2>1. CASE p = a
    BY <2>1, <1>1, <1>2
  <2>2. CASE p = b /\ i > Len(h[b])
    <3>1. oldP(p, i) = a /\ oldI(p, i) = i - Len(h[b])
      BY <2>2
    <3>2. i \in (Len(h[b]) + 1)..(Len(h[b]) + n) /\ i - Len(h[b]) \in 1..Len(h[a])
      BY <2>2, <1>1, <1>2
    <3>3. m[b][i] = h[a][i - Len(h[b])]
      BY <3>2, <1>1
    <3> HIDE DEF oldP, oldI
    <3> QED BY <2>2, <3>1, <3>2, <3>3, <1>2
  <2>3. CASE p = b /\ ~(i > Len(h[b]))
    <3>1. oldP(p, i) = b /\ oldI(p, i) = i
      BY <2>3
    <3>2. i \in 1..Len(h[b])
      BY <2>3, <1>1, <1>2
    <3>3. m[b][i] = h[b][i]
      BY <3>2, <1>1
    <3> HIDE DEF oldP, oldI
    <3> QED BY <2>3, <3>1, <3>2, <3>3, <1>2
  <2>4. CASE p # a /\ p # b
    BY <2>4, <1>1, <1>2
  <2> QED BY <2>1, <2>2, <2>3, <2>4
<1>4. ASSUME NEW p1 \in Places, NEW p2 \in Places,
             NEW i1 \in DOMAIN m[p1], NEW i2 \in DOMAIN m[p2],
             oldP(p1, i1) = oldP(p2, i2), oldI(p1, i1) = oldI(p2, i2)
      PROVE  p1 = p2 /\ i1 = i2
  BY SMTT(30), <1>4, <1>1, <1>2
<1>5. OneOwner(m)
  <2> SUFFICES ASSUME NEW p1 \in Places, NEW p2 \in Places,
                      NEW i1 \in DOMAIN m[p1], NEW i2 \in DOMAIN m[p2],
                      m[p1][i1] = m[p2][i2]
               PROVE  p1 = p2 /\ i1 = i2
    BY DEF OneOwner
  <2> HIDE DEF oldP, oldI
  <2>1. oldP(p1, i1) = oldP(p2, i2) /\ oldI(p1, i1) = oldI(p2, i2)
    BY <1>3 DEF OneOwner
  <2> QED BY <2>1, <1>4
<1>6. AllPresent(m)
  <2> SUFFICES ASSUME NEW f \in Frames
               PROVE  \E p \in Places : \E i \in DOMAIN m[p] : m[p][i] = f
    BY DEF AllPresent
  <2>1. PICK p \in Places : \E i \in DOMAIN h[p] : h[p][i] = f
    BY DEF AllPresent
  <2>2. PICK i \in DOMAIN h[p] : h[p][i] = f
    BY <2>1
  <2>3. CASE p # a /\ p # b
    BY <2>2, <2>3, <1>1
  <2>4. CASE p = b
    <3>1. i \in 1..Len(h[b]) /\ i \in DOMAIN m[b] /\ m[b][i] = f
      BY <2>2, <2>4, <1>1, <1>2
    <3> QED BY <3>1
  <2>5. CASE p = a /\ i > n
    <3>1. i - n \in 1..(Len(h[a]) - n) /\ (i - n) + n = i
      BY <2>2, <2>5, <1>2
    <3>2. i - n \in DOMAIN m[a] /\ m[a][i - n] = f
      BY <3>1, <2>2, <2>5, <1>1, <1>2
    <3> QED BY <3>2
  <2>6. CASE p = a /\ ~(i > n)
    <3>1. /\ i + Len(h[b]) \in (Len(h[b]) + 1)..(Len(h[b]) + n)
          /\ (i + Len(h[b])) - Len(h[b]) = i
      BY <2>2, <2>6, <1>2
    <3>2. i + Len(h[b]) \in DOMAIN m[b] /\ m[b][i + Len(h[b])] = f
      BY <3>1, <2>2, <2>6, <1>1, <1>2
    <3> QED BY <3>2
  <2> QED BY <2>3, <2>4, <2>5, <2>6
<1> QED BY <1>5, <1>6 DEF m

(* While every frame has one owner the pool has room for what another place *)
(* holds: the capacity test of pool_push never fails.                       *)
LEMMA PoolFits ==
  ASSUME NEW h \in [Places -> Seq(Frames)], OneOwner(h), AllPresent(h),
         NEW a \in Places, a # Pool, NEW n \in 0..Len(h[a])
  PROVE  Cardinality(Frames) \in Nat /\ Len(h[Pool]) + n <= Cardinality(Frames)
<1> DEFINE m == Moved(h, a, Pool, n)
           k == Len(h[Pool]) + n
<1>1. Pool \in Places
  BY PlaceNames
<1>2. m \in [Places -> Seq(Frames)] /\ Len(m[Pool]) = k
  BY <1>1, MovedPositions
<1>3. OneOwner(m)
  BY <1>1, MovedConserves
<1>4. k \in Nat
  BY <1>1
<1> HIDE DEF m, k
<1>5. m[Pool] \in [1..k -> Frames]
  BY <1>1, <1>2
<1>6. IsFiniteSet(1..k) /\ Cardinality(1..k) = k
  BY <1>4, FS_Interval
<1>7. IsFiniteSet(Frames) /\ Cardinality(Frames) \in Nat
  BY PipelineAssumption, FS_CardinalityType
<1>8. ~(Cardinality(Frames) < Cardinality(1..k))
  <2> SUFFICES ASSUME Cardinality(Frames) < Cardinality(1..k) PROVE FALSE
    OBVIOUS
  <2>1. PICK x \in 1..k, y \in 1..k : x # y /\ m[Pool][x] = m[Pool][y]
    BY ZenonT(30), <1>5, <1>6, <1>7, FS_PigeonHole
  <2>2. x \in DOMAIN m[Pool] /\ y \in DOMAIN m[Pool]
    BY <1>5
  <2> QED BY <2>1, <2>2, <1>1, <1>3 DEF OneOwner
<1> QED BY <1>4, <1>6, <1>7, <1>8 DEF k

(* A pool_push always finds room for what another place holds. *)
LEMMA PoolTakesAll ==
  ASSUME TypeOK, SingleOwner, NoFrameLost, NEW a \in Places, a # Pool, NEW n \in 0..Count(a)
  PROVE  Least(n, PoolRoom) = n
<1>1. held \in [Places -> Seq(Frames)] /\ OneOwner(held) /\ AllPresent(held)
  BY DEF TypeOK, SingleOwner, NoFrameLost
<1>2. Cardinality(Frames) \in Nat /\ Len(held[Pool]) + n <= Cardinality(Frames)
  BY <1>1, PoolFits DEF Count
<1>3. Len(held[Pool]) \in Nat /\ n \in Nat
  BY <1>1, PlaceNames DEF Count
<1> QED BY <1>2, <1>3 DEF Least, PoolRoom, Room, Count

(* A pool_push that would fit is a plain move. *)
LEMMA ToPoolIsMove ==
  ASSUME TypeOK, SingleOwner, NoFrameLost, NEW a \in Places, a # Pool, NEW n \in 0..Count(a)
  PROVE  ToPool(a, n) <=> Move(a, Pool, n)
BY PoolTakesAll DEF ToPool, Move

(* What a step does to the places of one kind (the first component of their *)
(* names): none of them gets longer, or all keep their length.              *)
NotMore(k) == \A p \in Places : p[1] = k => Len(held'[p]) <= Len(held[p])
Same(k)    == \A p \in Places : p[1] = k => Len(held'[p]) = Len(held[p])

(* What moving the n oldest frames at a to b preserves, and the lengths it leaves. *)
Shifted(a, b, n) ==
  /\ held' \in [Places -> Seq(Frames)]
  /\ SingleOwner' /\ NoFrameLost'
  /\ Len(held'[a]) = Len(held[a]) - n /\ Len(held'[b]) = Len(held[b]) + n
  /\ \A p \in Places : p # a /\ p # b => Len(held'[p]) = Len(held[p])
  /\ \A p \in Places : Len(held[p]) \in Nat /\ Len(held'[p]) \in Nat
  /\ \A k : k # b[1] => NotMore(k)
  /\ \A k : k # a[1] /\ k # b[1] => Same(k)

LEMMA MoveStep ==
  ASSUME TypeOK, SingleOwner, NoFrameLost,
         NEW a \in Places, NEW b \in Places, a # b, NEW n \in 0..Count(a), Move(a, b, n)
  PROVE  Shifted(a, b, n)
<1>1. held \in [Places -> Seq(Frames)] /\ OneOwner(held) /\ AllPresent(held)
  BY DEF TypeOK, SingleOwner, NoFrameLost
<1>2. held' = Moved(held, a, b, n)
  BY DEF Move, Moved
<1>3. n \in 0..Len(held[a])
  BY DEF Count
<1>4. /\ held' \in [Places -> Seq(Frames)]
      /\ \A p \in Places : p # a /\ p # b => held'[p] = held[p]
      /\ Len(held'[a]) = Len(held[a]) - n /\ Len(held'[b]) = Len(held[b]) + n
  BY <1>1, <1>2, <1>3, MovedPositions
<1>5. OneOwner(held') /\ AllPresent(held')
  BY <1>1, <1>2, <1>3, MovedConserves
<1>6. \A p \in Places : Len(held[p]) \in Nat /\ Len(held'[p]) \in Nat
  BY <1>1, <1>4
<1>7. \A k : k # b[1] => NotMore(k)
  BY <1>3, <1>4, <1>6 DEF NotMore
<1>8. \A k : k # a[1] /\ k # b[1] => Same(k)
  BY <1>4 DEF Same
<1> QED BY <1>4, <1>5, <1>6, <1>7, <1>8 DEF Shifted, SingleOwner, NoFrameLost

(* The same for a step that gives frames back to the pool. *)
LEMMA ToPoolStep ==
  ASSUME TypeOK, SingleOwner, NoFrameLost,
         NEW a \in Places, a # Pool, NEW n \in 0..Count(a), ToPool(a, n)
  PROVE  Shifted(a, Pool, n)
BY ToPoolIsMove, MoveStep, PlaceNames

------------------------------------------------------------------------------
(* The inductive invariant *)

Inv == /\ TypeOK /\ SingleOwner /\ NoFrameLost
       /\ HandsMatchStep /\ RoomLasts /\ ReserveNeverFails

(* Each part survives a step that leaves its places and registers alone. *)
LEMMA RxHandsKept ==
  ASSUME TypeOK, TypeOK', RxHands, NotMore("rx_batch"), UNCHANGED rxVars
  PROVE  RxHands'
<1>1. \A q \in Queues : /\ Len(held'[RxBatch(q)]) <= Len(held[RxBatch(q)])
                        /\ Len(held'[RxBatch(q)]) \in Nat
  BY PlaceNames, PlaceKinds DEF TypeOK, NotMore
<1> QED BY <1>1 DEF RxHands, rxVars, Count

LEMMA TxHandsKept ==
  ASSUME TypeOK, TypeOK', TxHands, NotMore("tx_jobs"), UNCHANGED txVars
  PROVE  TxHands'
<1>1. \A q \in Queues : /\ Len(held'[TxJobs(q)]) <= Len(held[TxJobs(q)])
                        /\ Len(held'[TxJobs(q)]) \in Nat
  BY PlaceNames, PlaceKinds DEF TypeOK, NotMore
<1> QED BY <1>1 DEF TxHands, txVars, Count

LEMMA WorkerHandsKept ==
  ASSUME WorkerHands, Same("job"), Same("split_tail"), UNCHANGED workerVars
  PROVE  WorkerHands'
<1>1. \A w \in Workers : /\ Len(held'[Job(w)]) = Len(held[Job(w)])
                         /\ Len(held'[SplitTail(w)]) = Len(held[SplitTail(w)])
  BY PlaceNames, PlaceKinds DEF Same
<1> QED BY <1>1 DEF WorkerHands, HandMatches, workerVars, Count

LEMMA RoomLastsKept ==
  ASSUME TypeOK, TypeOK', WorkerHands, RoomLasts, NotMore("mid_to"), UNCHANGED workerVars
  PROVE  RoomLasts'
<1> SUFFICES ASSUME NEW w \in Workers
             PROVE  /\ pc[w] \in {"chosen", "split_head"} => Len(held'[MidTo(dest[w], w)]) + 2 <= RingCap
                    /\ pc[w] = "split_tail" => Len(held'[MidTo(dest[w], w)]) < RingCap
  BY DEF RoomLasts, RoomLeft, workerVars, Count
<1>1. ASSUME pc[w] \in {"chosen", "split_head", "split_tail"}
      PROVE  /\ Len(held'[MidTo(dest[w], w)]) <= Len(held[MidTo(dest[w], w)])
             /\ Len(held'[MidTo(dest[w], w)]) \in Nat /\ Len(held[MidTo(dest[w], w)]) \in Nat
  <2>1. MidTo(dest[w], w) \in Places /\ MidTo(dest[w], w)[1] = "mid_to"
    BY <1>1, PlaceNames, PlaceKinds DEF WorkerHands, HandMatches, Queues
  <2> QED BY <2>1 DEF TypeOK, NotMore
<1> QED BY <1>1, PipelineAssumption DEF RoomLasts, RoomLeft, Count

LEMMA RxRoomKept ==
  ASSUME TypeOK, TypeOK', RxRoom, NotMore("fq"), NotMore("rx"), NotMore("rx_batch"),
         UNCHANGED rxPending
  PROVE  RxRoom'
<1>1. \A q \in Queues : /\ Len(held'[Fq(q)]) <= Len(held[Fq(q)])
                        /\ Len(held'[Rx(q)]) <= Len(held[Rx(q)])
                        /\ Len(held'[RxBatch(q)]) <= Len(held[RxBatch(q)])
  BY PlaceNames, PlaceKinds DEF NotMore
<1>2. \A q \in Queues : /\ Len(held'[Fq(q)]) \in Nat /\ Len(held[Fq(q)]) \in Nat
                        /\ Len(held'[Rx(q)]) \in Nat /\ Len(held[Rx(q)]) \in Nat
                        /\ Len(held'[RxBatch(q)]) \in Nat /\ Len(held[RxBatch(q)]) \in Nat
                        /\ rxPending[q] \in Nat
  <2>1. \A p \in Places : Len(held'[p]) \in Nat /\ Len(held[p]) \in Nat
    BY DEF TypeOK
  <2>2. \A q \in Queues : rxPending[q] \in Nat
    BY DEF TypeOK
  <2> QED BY <2>1, <2>2, PlaceNames
<1> QED BY SMTT(30), <1>1, <1>2, PipelineAssumption DEF RxRoom, Count

LEMMA TxRoomKept ==
  ASSUME TypeOK, TypeOK', TxRoom, NotMore("tx"), NotMore("tx_jobs"), NotMore("cq"),
         UNCHANGED txWant
  PROVE  TxRoom'
<1>1. \A q \in Queues : /\ Len(held'[Tx(q)]) <= Len(held[Tx(q)])
                        /\ Len(held'[TxJobs(q)]) <= Len(held[TxJobs(q)])
                        /\ Len(held'[Cq(q)]) <= Len(held[Cq(q)])
  BY PlaceNames, PlaceKinds DEF NotMore
<1>2. \A q \in Queues : /\ Len(held'[Tx(q)]) \in Nat /\ Len(held[Tx(q)]) \in Nat
                        /\ Len(held'[TxJobs(q)]) \in Nat /\ Len(held[TxJobs(q)]) \in Nat
                        /\ Len(held'[Cq(q)]) \in Nat /\ Len(held[Cq(q)]) \in Nat
                        /\ txWant[q] \in Nat
  <2>1. \A p \in Places : Len(held'[p]) \in Nat /\ Len(held[p]) \in Nat
    BY DEF TypeOK
  <2>2. \A q \in Queues : txWant[q] \in Nat
    BY DEF TypeOK
  <2> QED BY <2>1, <2>2, PlaceNames
<1> QED BY <1>1, <1>2, PipelineAssumption DEF TxRoom, Count

LEMMA MidRoomKept ==
  ASSUME TypeOK, TypeOK', MidRoom,
         NotMore("local_to_mid"), NotMore("wan_to_mid"), NotMore("mid_to")
  PROVE  MidRoom'
<1> SUFFICES ASSUME NEW w \in Workers
             PROVE  /\ Len(held'[LocalToMid(w)]) <= RingCap
                    /\ Len(held'[WanToMid(w)]) <= RingCap
                    /\ \A q \in Queues : Len(held'[MidTo(q, w)]) <= RingCap
  BY DEF MidRoom, Count
<1>1. \A p \in Places : Len(held'[p]) \in Nat /\ Len(held[p]) \in Nat
  BY DEF TypeOK
<1>2. Len(held'[LocalToMid(w)]) <= Len(held[LocalToMid(w)])
  BY PlaceNames, PlaceKinds DEF NotMore
<1>3. Len(held'[WanToMid(w)]) <= Len(held[WanToMid(w)])
  BY PlaceNames, PlaceKinds DEF NotMore
<1>4. \A q \in Queues : Len(held'[MidTo(q, w)]) <= Len(held[MidTo(q, w)])
  BY PlaceNames, PlaceKinds DEF NotMore
<1> QED BY <1>1, <1>2, <1>3, <1>4, PlaceNames, PipelineAssumption DEF MidRoom, Count

LEMMA MidRoomPush ==
  ASSUME MidRoom, NEW a \in Places, NEW ring \in Places, a # ring, Shifted(a, ring, 1),
         Len(held[ring]) < RingCap
  PROVE  MidRoom'
<1> SUFFICES ASSUME NEW v \in Workers
             PROVE  /\ Len(held'[LocalToMid(v)]) <= RingCap
                    /\ Len(held'[WanToMid(v)]) <= RingCap
                    /\ \A x \in Queues : Len(held'[MidTo(x, v)]) <= RingCap
  BY DEF MidRoom, Count
<1>1. \A p \in Places : p # ring => Len(held'[p]) <= Len(held[p])
  BY DEF Shifted
<1>2. Len(held'[ring]) <= RingCap
  BY PipelineAssumption DEF Shifted
<1>3. \A p \in Places : Len(held[p]) <= RingCap => Len(held'[p]) <= RingCap
  BY <1>1, <1>2, PipelineAssumption DEF Shifted
<1> QED BY <1>3, PlaceNames DEF MidRoom, Count

LEMMA LeastBound ==
  ASSUME NEW x \in Nat, NEW y \in Nat
  PROVE  Least(x, y) \in Nat /\ Least(x, y) <= x /\ Least(x, y) <= y
BY DEF Least

(* The initial state. *)
LEMMA InitInv == Init => Inv
<1> SUFFICES ASSUME Init PROVE Inv
  OBVIOUS
<1>1. TypeOK
  BY PipelineAssumption, LayoutAssumption DEF Init, TypeOK, Workers
<1>2. SingleOwner /\ NoFrameLost
  BY LayoutAssumption DEF Init, SingleOwner, NoFrameLost
<1>3. \A p \in Places : p[1] # "pool" /\ p[1] # "fq" => Len(held[p]) = 0
  BY LayoutAssumption, PlaceKinds DEF Init
<1>4. HandsMatchStep
  <2>1. RxHands
    BY <1>3, PlaceNames, PlaceKinds DEF Init, RxHands, Count
  <2>2. TxHands
    BY <1>3, PlaceNames, PlaceKinds DEF Init, TxHands, Count
  <2>3. \A w \in Workers : Len(held[Job(w)]) = 0 /\ Len(held[SplitTail(w)]) = 0
    BY <1>3, PlaceNames, PlaceKinds
  <2>4. WorkerHands
    BY <2>3 DEF Init, WorkerHands, HandMatches, Count
  <2> QED BY <2>1, <2>2, <2>4 DEF HandsMatchStep
<1>5. RoomLasts
  BY DEF Init, RoomLasts, RoomLeft
<1>6. ReserveNeverFails
  <2>1. \A q \in Queues : /\ Len(held[Rx(q)]) = 0 /\ Len(held[RxBatch(q)]) = 0
                          /\ Len(held[Tx(q)]) = 0
    BY <1>3, PlaceNames, PlaceKinds
  <2>2. \A q \in Queues : Len(held[TxJobs(q)]) = 0 /\ Len(held[Cq(q)]) = 0
    BY <1>3, PlaceNames, PlaceKinds
  <2>3. \A q \in Queues : Len(held[Fq(q)]) \in Nat /\ Len(held[Fq(q)]) < XskCap
    BY PlaceNames, LayoutAssumption DEF Init
  <2>4. RxRoom
    BY <2>1, <2>3, PipelineAssumption DEF RxRoom, Init, Count
  <2>5. TxRoom
    BY <2>1, <2>2, PipelineAssumption DEF TxRoom, Init, Count
  <2>6. \A w \in Workers : /\ Len(held[LocalToMid(w)]) = 0 /\ Len(held[WanToMid(w)]) = 0
                           /\ \A q \in Queues : Len(held[MidTo(q, w)]) = 0
    BY <1>3, PlaceNames, PlaceKinds
  <2>7. MidRoom
    BY <2>6, PipelineAssumption DEF MidRoom, Count
  <2> QED BY <2>4, <2>5, <2>7 DEF ReserveNeverFails
<1> QED BY <1>1, <1>2, <1>4, <1>5, <1>6 DEF Inv

------------------------------------------------------------------------------
(* The receive loop and the NIC *)

LEMMA RefillFqInv == ASSUME Inv, NEW q \in Queues, RefillFq(q) PROVE Inv'
<1> DEFINE r == Least(Batch, Room(Fq(q), XskCap))
           n == Least(r, Count(Pool))
<1> USE DEF Inv, HandsMatchStep, ReserveNeverFails
<1>1. n \in 0..Count(Pool) /\ n <= XskCap - Len(held[Fq(q)])
  <2>1. /\ Len(held[Fq(q)]) \in Nat /\ Len(held[Pool]) \in Nat
        /\ Len(held[Fq(q)]) <= XskCap
    BY PlaceNames DEF TypeOK, RxRoom, Count
  <2>2. /\ Room(Fq(q), XskCap) \in Nat /\ Count(Pool) \in Nat /\ Batch \in Nat
        /\ Room(Fq(q), XskCap) = XskCap - Len(held[Fq(q)])
    BY <2>1, PipelineAssumption DEF Room, Count
  <2>3. r \in Nat /\ r <= Room(Fq(q), XskCap)
    BY <2>2, LeastBound
  <2> HIDE DEF r
  <2>4. n \in Nat /\ n <= r /\ n <= Count(Pool)
    BY <2>2, <2>3, LeastBound
  <2> HIDE DEF n
  <2> QED BY <2>2, <2>3, <2>4
<1>2. Pool \in Places /\ Fq(q) \in Places /\ Pool # Fq(q) /\ Move(Pool, Fq(q), n)
  BY PlaceNames, PlaceKinds DEF RefillFq
<1> HIDE DEF n
<1>3. Shifted(Pool, Fq(q), n)
  BY <1>1, <1>2, MoveStep
<1>4. TypeOK'
  BY <1>3 DEF Shifted, TypeOK, RefillFq, txVars, workerVars, drainVars
<1>5. TxHands' /\ WorkerHands' /\ RoomLasts' /\ TxRoom' /\ MidRoom'
  BY <1>3, <1>4, PlaceKinds, TxHandsKept, WorkerHandsKept, RoomLastsKept, TxRoomKept, MidRoomKept
     DEF Shifted, RefillFq, txVars
<1>6. ASSUME NEW v \in Queues
      PROVE  /\ Len(held'[RxBatch(v)]) = Len(held[RxBatch(v)])
             /\ Len(held'[Rx(v)]) = Len(held[Rx(v)])
  <2>1. RxBatch(v) # Pool /\ RxBatch(v) # Fq(q) /\ Rx(v) # Pool /\ Rx(v) # Fq(q)
    BY PlaceKinds
  <2> QED BY <1>3, <2>1, PlaceNames DEF Shifted
<1>7. RxHands'
  BY <1>6 DEF TypeOK, RefillFq, RxHands, Count
<1>8. RxRoom'
  <2>1. ASSUME NEW v \in Queues, v # q PROVE Len(held'[Fq(v)]) = Len(held[Fq(v)])
    <3>1. Fq(v) # Fq(q) /\ Fq(v) # Pool
      BY <2>1, PlaceKinds
    <3> QED BY <3>1, <1>3, PlaceNames DEF Shifted
  <2>2. Len(held'[Fq(q)]) <= XskCap
    BY <1>1, <1>3, PlaceNames, PipelineAssumption DEF Shifted
  <2> QED BY <1>6, <2>1, <2>2 DEF RefillFq, RxRoom, Count
<1> QED BY <1>3, <1>4, <1>5, <1>7, <1>8 DEF Shifted

LEMMA RecvInv == ASSUME Inv, NEW q \in Queues, Recv(q) PROVE Inv'
<1> DEFINE n == Least(Batch, Count(Rx(q)))
<1> USE DEF Inv, HandsMatchStep, ReserveNeverFails
<1>1. n \in 0..Count(Rx(q)) /\ n \in Nat
  <2>1. Count(Rx(q)) \in Nat /\ Batch \in Nat
    BY PlaceNames, PipelineAssumption DEF TypeOK, Count
  <2> QED BY <2>1, LeastBound
<1>2. /\ Rx(q) \in Places /\ RxBatch(q) \in Places /\ Rx(q) # RxBatch(q)
      /\ Move(Rx(q), RxBatch(q), n)
      /\ rxPending' = [rxPending EXCEPT ![q] = n]
      /\ rxPc' = [rxPc EXCEPT ![q] = IF n = 0 THEN "refill" ELSE "dispatch"]
      /\ rxPc[q] = "recv"
  BY PlaceNames, PlaceKinds DEF Recv
<1> HIDE DEF n
<1>3. Shifted(Rx(q), RxBatch(q), n)
  BY <1>1, <1>2, MoveStep
<1>4. TypeOK'
  BY <1>1, <1>2, <1>3 DEF Shifted, TypeOK, Recv, txVars, workerVars, drainVars
<1>5. TxHands' /\ WorkerHands' /\ RoomLasts' /\ TxRoom' /\ MidRoom'
  BY <1>3, <1>4, PlaceKinds, TxHandsKept, WorkerHandsKept, RoomLastsKept, TxRoomKept, MidRoomKept
     DEF Shifted, Recv, txVars
<1>6. /\ rxPending[q] = 0 /\ Len(held[RxBatch(q)]) = 0 /\ Len(held[Rx(q)]) \in Nat
      /\ Len(held'[RxBatch(q)]) = n /\ Len(held'[Rx(q)]) = Len(held[Rx(q)]) - n
  <2>1. rxPending[q] = 0 /\ Len(held[RxBatch(q)]) = 0
    BY <1>2 DEF RxHands, Count
  <2> QED BY <1>1, <1>3, <2>1, PlaceNames DEF Shifted
<1>7. ASSUME NEW v \in Queues, v # q
      PROVE  /\ Len(held'[Rx(v)]) = Len(held[Rx(v)])
             /\ Len(held'[RxBatch(v)]) = Len(held[RxBatch(v)])
             /\ rxPending'[v] = rxPending[v] /\ rxPc'[v] = rxPc[v]
  <2>1. Rx(v) # Rx(q) /\ Rx(v) # RxBatch(q) /\ RxBatch(v) # Rx(q) /\ RxBatch(v) # RxBatch(q)
    BY <1>7, PlaceKinds
  <2> QED BY <1>2, <1>3, <1>7, <2>1, PlaceNames DEF Shifted, TypeOK
<1>8. rxPending'[q] = n /\ (rxPc'[q] # "dispatch" => n = 0)
  BY <1>2 DEF TypeOK
<1>9. RxHands'
  BY <1>6, <1>7, <1>8 DEF RxHands, Count
<1>10. RxRoom'
  <2>1. ASSUME NEW v \in Queues PROVE Len(held'[Fq(v)]) = Len(held[Fq(v)])
    <3>1. Fq(v) # Rx(q) /\ Fq(v) # RxBatch(q)
      BY PlaceKinds
    <3> QED BY <1>3, <3>1, PlaceNames DEF Shifted
  <2>2. Len(held[Rx(q)]) <= XskCap
    BY <1>6 DEF RxRoom, Count
  <2>3. Len(held'[Rx(q)]) + rxPending'[q] <= XskCap /\ Len(held'[RxBatch(q)]) <= rxPending'[q]
    BY <1>1, <1>6, <1>8, <2>2, PipelineAssumption
  <2> QED BY <1>7, <2>1, <2>3 DEF RxRoom, Count
<1> QED BY <1>3, <1>4, <1>5, <1>9, <1>10 DEF Shifted

(* A packet dropped on the way gives its frame to the pool and disturbs nothing. *)
LEMMA DropToPool ==
  ASSUME Inv, NEW a \in Places, NEW n \in 0..Count(a), ToPool(a, n),
         a[1] \notin {"pool", "job", "split_tail"}, UNCHANGED <<rxVars, txVars, workerVars, drainVars>>
  PROVE  Inv'
<1> USE DEF Inv, HandsMatchStep, ReserveNeverFails
<1>1. a # Pool
  BY PlaceKinds
<1>2. Shifted(a, Pool, n)
  BY <1>1, ToPoolStep
<1>3. TypeOK'
  BY <1>2 DEF Shifted, TypeOK, rxVars, txVars, workerVars, drainVars
<1>4. (\A k : k # "pool" => NotMore(k)) /\ Same("job") /\ Same("split_tail")
  BY <1>2, PlaceKinds DEF Shifted
<1>5. RxHands' /\ TxHands' /\ WorkerHands' /\ RoomLasts'
  BY <1>3, <1>4, RxHandsKept, TxHandsKept, WorkerHandsKept, RoomLastsKept
<1>6. RxRoom' /\ TxRoom' /\ MidRoom'
  BY <1>3, <1>4, RxRoomKept, TxRoomKept, MidRoomKept DEF rxVars, txVars
<1> QED BY <1>2, <1>3, <1>5, <1>6 DEF Shifted

LEMMA DispatchDropInv == ASSUME Inv, NEW q \in Queues, DispatchDrop(q) PROVE Inv'
<1>1. RxBatch(q) \in Places /\ RxBatch(q)[1] \notin {"pool", "job", "split_tail"}
  BY PlaceNames, PlaceKinds
<1>2. 1 \in 0..Count(RxBatch(q))
  BY <1>1 DEF DispatchDrop, Count, Inv, TypeOK
<1> QED BY <1>1, <1>2, DropToPool DEF DispatchDrop

LEMMA DispatchInv == ASSUME Inv, NEW q \in Queues, NEW w \in Workers, Dispatch(q, w) PROVE Inv'
<1> DEFINE ring == ToMid(q, w)
<1>1. /\ RxBatch(q) \in Places /\ RxBatch(q)[1] = "rx_batch"
      /\ ring \in Places /\ ring[1] \in {"local_to_mid", "wan_to_mid"} /\ ring[2] = w
  BY PlaceNames, PlaceKinds DEF ToMid
<1>2. 1 \in 0..Count(RxBatch(q))
  BY <1>1 DEF Dispatch, Count, Inv, TypeOK
<1> HIDE DEF ring
<1>3. CASE Count(ring) >= RingCap /\ ToPool(RxBatch(q), 1)
  BY <1>1, <1>2, <1>3, DropToPool DEF Dispatch
<1>4. CASE Count(ring) < RingCap /\ Move(RxBatch(q), ring, 1)
  <2> USE DEF Inv, HandsMatchStep, ReserveNeverFails
  <2>1. Shifted(RxBatch(q), ring, 1)
    BY <1>1, <1>2, <1>4, MoveStep
  <2>2. TypeOK'
    BY <2>1 DEF Shifted, TypeOK, Dispatch, rxVars, txVars, workerVars, drainVars
  <2>3. (\A k : k # ring[1] => NotMore(k)) /\ Same("job") /\ Same("split_tail")
    BY <1>1, <2>1 DEF Shifted
  <2>4. RxHands' /\ TxHands' /\ WorkerHands' /\ RoomLasts'
    BY <1>1, <2>2, <2>3, RxHandsKept, TxHandsKept, WorkerHandsKept, RoomLastsKept DEF Dispatch
  <2>5. RxRoom' /\ TxRoom'
    BY <1>1, <2>2, <2>3, RxRoomKept, TxRoomKept DEF Dispatch, rxVars, txVars
  <2>6. MidRoom'
    BY <1>1, <1>4, <2>1, MidRoomPush DEF Count
  <2> QED BY <2>1, <2>2, <2>4, <2>5, <2>6 DEF Shifted
<1>5. Count(ring) \in Nat
  BY <1>1 DEF Inv, TypeOK, Count
<1> QED BY <1>3, <1>4, <1>5, PipelineAssumption DEF Dispatch, ring

LEMMA ReleaseInv == ASSUME Inv, NEW q \in Queues, Release(q) PROVE Inv'
<1> USE DEF Inv, HandsMatchStep, ReserveNeverFails
<1>1. TypeOK' /\ SingleOwner' /\ NoFrameLost'
  BY DEF TypeOK, SingleOwner, NoFrameLost, Release, txVars, workerVars, drainVars
<1>2. TxHands' /\ WorkerHands' /\ RoomLasts' /\ TxRoom' /\ MidRoom'
  BY DEF TxHands, WorkerHands, HandMatches, RoomLasts, RoomLeft, TxRoom, MidRoom, Release, txVars, workerVars, Count
<1>3. RxHands'
  BY DEF TypeOK, RxHands, Release, Count
<1>4. RxRoom'
  <2>1. \A p \in Places : Len(held[p]) \in Nat
    BY DEF TypeOK
  <2>2. \A v \in Queues : Len(held[Rx(v)]) \in Nat /\ Len(held[RxBatch(v)]) \in Nat
    BY <2>1, PlaceNames
  <2> QED BY <2>2, PipelineAssumption DEF TypeOK, RxRoom, Release, Count
<1> QED BY <1>1, <1>2, <1>3, <1>4

LEMMA NicReceiveInv == ASSUME Inv, NEW q \in Queues, NicReceive(q) PROVE Inv'
<1> USE DEF Inv, HandsMatchStep, ReserveNeverFails
<1>1. /\ Fq(q) \in Places /\ Rx(q) \in Places /\ Fq(q) # Rx(q)
      /\ 1 \in 0..Count(Fq(q)) /\ Move(Fq(q), Rx(q), 1)
  <2>1. Fq(q) \in Places /\ Rx(q) \in Places
    BY PlaceNames
  <2>2. Fq(q) # Rx(q)
    BY PlaceKinds
  <2>3. 1 \in 0..Count(Fq(q))
    BY <2>1 DEF NicReceive, TypeOK, Count
  <2> QED BY <2>1, <2>2, <2>3 DEF NicReceive
<1>2. Shifted(Fq(q), Rx(q), 1)
  BY <1>1, MoveStep
<1>3. TypeOK'
  BY <1>2 DEF Shifted, TypeOK, NicReceive, rxVars, txVars, workerVars, drainVars
<1>4. RxHands' /\ TxHands' /\ WorkerHands' /\ RoomLasts' /\ TxRoom' /\ MidRoom'
  BY <1>2, <1>3, PlaceKinds, RxHandsKept, TxHandsKept, WorkerHandsKept, RoomLastsKept,
     TxRoomKept, MidRoomKept DEF Shifted, NicReceive, txVars
<1>5. RxRoom'
  <2>1. Len(held'[Rx(q)]) + rxPending[q] <= XskCap
    BY <1>1, <1>2, PipelineAssumption DEF Shifted, NicReceive, Count, TypeOK
  <2>2. ASSUME NEW v \in Queues
        PROVE  /\ Len(held'[RxBatch(v)]) = Len(held[RxBatch(v)])
               /\ v # q => Len(held'[Rx(v)]) = Len(held[Rx(v)])
               /\ v # q => Len(held'[Fq(v)]) = Len(held[Fq(v)])
    <3>1. /\ RxBatch(v) # Fq(q) /\ RxBatch(v) # Rx(q)
          /\ v # q => Rx(v) # Rx(q) /\ Fq(v) # Fq(q)
          /\ Rx(v) # Fq(q) /\ Fq(v) # Rx(q)
      BY PlaceKinds
    <3> QED BY <1>2, <3>1, PlaceNames DEF Shifted
  <2>3. Len(held'[Fq(q)]) <= XskCap
    BY <1>1, <1>2, PipelineAssumption DEF Shifted, RxRoom, Count
  <2> QED BY <2>1, <2>2, <2>3 DEF RxRoom, NicReceive, rxVars, Count
<1> QED BY <1>2, <1>3, <1>4, <1>5 DEF Shifted

LEMMA NicTransmitInv == ASSUME Inv, NEW q \in Queues, NicTransmit(q) PROVE Inv'
<1> USE DEF Inv, HandsMatchStep, ReserveNeverFails
<1>1. /\ Tx(q) \in Places /\ Cq(q) \in Places /\ Tx(q) # Cq(q)
      /\ 1 \in 0..Count(Tx(q)) /\ Move(Tx(q), Cq(q), 1)
  <2>1. Tx(q) \in Places /\ Cq(q) \in Places
    BY PlaceNames
  <2>2. Tx(q) # Cq(q)
    BY PlaceKinds
  <2>3. 1 \in 0..Count(Tx(q))
    BY <2>1 DEF NicTransmit, TypeOK, Count
  <2> QED BY <2>1, <2>2, <2>3 DEF NicTransmit
<1>2. Shifted(Tx(q), Cq(q), 1)
  BY <1>1, MoveStep
<1>3. TypeOK'
  BY <1>2 DEF Shifted, TypeOK, NicTransmit, rxVars, txVars, workerVars, drainVars
<1>4. RxHands' /\ TxHands' /\ WorkerHands' /\ RoomLasts' /\ RxRoom' /\ MidRoom'
  BY <1>2, <1>3, PlaceKinds, RxHandsKept, TxHandsKept, WorkerHandsKept, RoomLastsKept,
     RxRoomKept, MidRoomKept DEF Shifted, NicTransmit, rxVars
<1>5. TxRoom'
  <2>1. Len(held'[Cq(q)]) <= XskCap
    BY <1>1, <1>2, PipelineAssumption DEF Shifted, NicTransmit, Count
  <2>2. ASSUME NEW v \in Queues
        PROVE  /\ Len(held'[TxJobs(v)]) = Len(held[TxJobs(v)])
               /\ v # q => Len(held'[Cq(v)]) = Len(held[Cq(v)])
               /\ v # q => Len(held'[Tx(v)]) = Len(held[Tx(v)])
    <3>1. /\ TxJobs(v) # Tx(q) /\ TxJobs(v) # Cq(q)
          /\ v # q => Tx(v) # Tx(q) /\ Cq(v) # Cq(q)
          /\ Tx(v) # Cq(q) /\ Cq(v) # Tx(q)
      BY PlaceKinds
    <3> QED BY <1>2, <3>1, PlaceNames DEF Shifted
  <2>3. Len(held'[Tx(q)]) + txWant[q] <= XskCap
    BY <1>1, <1>2, PipelineAssumption DEF Shifted, TxRoom, Count, TypeOK
  <2> QED BY <2>1, <2>2, <2>3 DEF TxRoom, NicTransmit, txVars, Count
<1> QED BY <1>2, <1>3, <1>4, <1>5 DEF Shifted

------------------------------------------------------------------------------
(* The transmit loop *)

LEMMA DrainCqInv == ASSUME Inv, NEW q \in Queues, DrainCq(q) PROVE Inv'
<1> DEFINE n == Least(Batch, Count(Cq(q)))
<1>1. Cq(q) \in Places /\ Cq(q)[1] \notin {"pool", "job", "split_tail"}
  BY PlaceNames, PlaceKinds
<1>2. Count(Cq(q)) \in Nat /\ Batch \in Nat
  BY <1>1, PipelineAssumption DEF Inv, TypeOK, Count
<1>3. n \in 0..Count(Cq(q)) /\ Cq(q) # Pool
  <2>1. n \in 0..Count(Cq(q))
    BY <1>2, LeastBound
  <2>2. Cq(q) # Pool
    BY <1>1, PlaceKinds
  <2> QED BY <2>1, <2>2
<1>4. Move(Cq(q), Pool, Least(n, PoolRoom))
  BY DEF DrainCq
<1> HIDE DEF n
<1>5. ToPool(Cq(q), n)
  BY <1>1, <1>3, <1>4, PoolTakesAll, ToPoolIsMove DEF Inv
<1> QED BY <1>1, <1>3, <1>5, DropToPool DEF DrainCq

LEMMA TxStartInv == ASSUME Inv, NEW q \in Queues, NEW w \in Workers, TxStart(q, w) PROVE Inv'
<1> DEFINE n == Least(Batch, Room(Tx(q), XskCap))
<1> USE DEF Inv, HandsMatchStep, ReserveNeverFails
<1>1. n \in Nat /\ n <= XskCap - Len(held[Tx(q)]) /\ Len(held[Tx(q)]) \in Nat
  <2>1. Len(held[Tx(q)]) \in Nat
    BY PlaceNames DEF TypeOK
  <2>2. /\ Room(Tx(q), XskCap) \in Nat /\ Batch \in Nat
        /\ Room(Tx(q), XskCap) = XskCap - Len(held[Tx(q)])
    BY <2>1, PipelineAssumption DEF TxStart, Room, Count
  <2> QED BY <2>1, <2>2, LeastBound
<1>2. /\ txSrc[q] = None /\ txSrc' = [txSrc EXCEPT ![q] = w]
      /\ txWant' = [txWant EXCEPT ![q] = n] /\ UNCHANGED <<held, rxVars, workerVars, drainVars>>
  BY DEF TxStart
<1> HIDE DEF n
<1>3. TypeOK' /\ SingleOwner' /\ NoFrameLost'
  BY <1>1, <1>2 DEF TypeOK, SingleOwner, NoFrameLost, rxVars, workerVars, drainVars
<1>4. RxHands' /\ WorkerHands' /\ RoomLasts' /\ RxRoom' /\ MidRoom'
  BY <1>2 DEF RxHands, WorkerHands, HandMatches, RoomLasts, RoomLeft, RxRoom, MidRoom,
     rxVars, workerVars, Count
<1>5. TxHands'
  BY <1>2, PipelineAssumption DEF TypeOK, TxHands, Count
<1>6. TxRoom'
  <2>1. Len(held[TxJobs(q)]) = 0
    BY <1>2 DEF TxHands, Count
  <2>2. Len(held[Tx(q)]) + n <= XskCap
    BY <1>1, PipelineAssumption
  <2>3. /\ Len(held[Tx(q)]) + txWant'[q] <= XskCap /\ Len(held[TxJobs(q)]) <= txWant'[q]
        /\ \A v \in Queues : v # q => txWant'[v] = txWant[v]
    BY <1>1, <1>2, <2>1, <2>2 DEF TypeOK
  <2> QED BY <1>2, <2>3 DEF TxRoom, Count
<1> QED BY <1>3, <1>4, <1>5, <1>6

LEMMA TxPopInv == ASSUME Inv, NEW q \in Queues, TxPop(q) PROVE Inv'
<1> USE DEF Inv, HandsMatchStep, ReserveNeverFails
<1> DEFINE a == MidTo(q, txSrc[q])
<1>1. txSrc[q] \in Workers
  BY DEF TxPop, TypeOK
<1>2. /\ a \in Places /\ a[1] = "mid_to" /\ TxJobs(q) \in Places /\ a # TxJobs(q)
  <2>1. a \in Places /\ TxJobs(q) \in Places
    BY <1>1, PlaceNames
  <2> QED BY <2>1, PlaceKinds
<1>3. /\ Count(a) > 0 /\ Move(a, TxJobs(q), 1) /\ Count(TxJobs(q)) < txWant[q]
      /\ txSrc[q] # None /\ UNCHANGED <<rxVars, txVars, workerVars, drainVars>>
  BY DEF TxPop
<1> HIDE DEF a
<1>4. 1 \in 0..Count(a)
  BY <1>2, <1>3 DEF TypeOK, Count
<1>5. Shifted(a, TxJobs(q), 1)
  BY <1>2, <1>3, <1>4, MoveStep
<1>6. TypeOK'
  BY <1>3, <1>5 DEF Shifted, TypeOK, rxVars, txVars, workerVars, drainVars
<1>7. /\ \A k : k # "tx_jobs" => NotMore(k)
      /\ Same("job") /\ Same("split_tail")
  BY <1>2, <1>5, PlaceKinds DEF Shifted
<1>8. RxHands' /\ WorkerHands' /\ RoomLasts' /\ RxRoom' /\ MidRoom'
  BY <1>3, <1>6, <1>7, RxHandsKept, WorkerHandsKept, RoomLastsKept, RxRoomKept, MidRoomKept
     DEF rxVars
<1>9. ASSUME NEW v \in Queues
      PROVE  /\ Len(held'[Tx(v)]) = Len(held[Tx(v)]) /\ Len(held'[Cq(v)]) = Len(held[Cq(v)])
             /\ v # q => Len(held'[TxJobs(v)]) = Len(held[TxJobs(v)])
  <2>1. /\ Tx(v) # TxJobs(q) /\ Cq(v) # TxJobs(q) /\ Tx(v) # a /\ Cq(v) # a
        /\ TxJobs(v) # a /\ (v # q => TxJobs(v) # TxJobs(q))
    BY <1>2, PlaceKinds
  <2> QED BY <1>5, <2>1, PlaceNames DEF Shifted
<1>10. /\ Len(held[TxJobs(q)]) \in Nat /\ Len(held'[TxJobs(q)]) = Len(held[TxJobs(q)]) + 1
  BY <1>2, <1>5 DEF Shifted
<1>11. TxHands'
  BY <1>3, <1>9 DEF TxHands, txVars, Count
<1>12. TxRoom'
  <2>1. Len(held'[TxJobs(q)]) <= txWant[q]
    BY <1>3, <1>10 DEF Count, TypeOK
  <2> QED BY <1>3, <1>9, <2>1 DEF TxRoom, txVars, Count
<1> QED BY <1>5, <1>6, <1>8, <1>11, <1>12 DEF Shifted

LEMMA TxSubmitInv == ASSUME Inv, NEW q \in Queues, TxSubmit(q) PROVE Inv'
<1> DEFINE n == Count(TxJobs(q))
<1> USE DEF Inv, HandsMatchStep, ReserveNeverFails
<1>1. TxJobs(q) \in Places /\ Tx(q) \in Places /\ TxJobs(q) # Tx(q)
  <2>1. TxJobs(q) \in Places /\ Tx(q) \in Places
    BY PlaceNames
  <2> QED BY <2>1, PlaceKinds
<1>2. n \in 0..n /\ n \in Nat /\ n = Len(held[TxJobs(q)])
  BY <1>1 DEF TypeOK, Count
<1>3. /\ Move(TxJobs(q), Tx(q), n)
      /\ txSrc' = [txSrc EXCEPT ![q] = None] /\ txWant' = [txWant EXCEPT ![q] = 0]
      /\ UNCHANGED <<rxVars, workerVars, drainVars>>
  BY DEF TxSubmit
<1>4. Shifted(TxJobs(q), Tx(q), n)
  BY <1>1, <1>2, <1>3, MoveStep
<1> HIDE DEF n
<1>5. TypeOK'
  BY <1>3, <1>4 DEF Shifted, TypeOK, rxVars, workerVars, drainVars
<1>6. /\ \A k : k # "tx" => NotMore(k)
      /\ Same("job") /\ Same("split_tail")
  BY <1>4, PlaceKinds DEF Shifted
<1>7. RxHands' /\ WorkerHands' /\ RoomLasts' /\ RxRoom' /\ MidRoom'
  BY <1>3, <1>5, <1>6, RxHandsKept, WorkerHandsKept, RoomLastsKept, RxRoomKept, MidRoomKept
     DEF rxVars
<1>8. ASSUME NEW v \in Queues
      PROVE  /\ Len(held'[Cq(v)]) = Len(held[Cq(v)])
             /\ v # q => Len(held'[Tx(v)]) = Len(held[Tx(v)])
             /\ v # q => Len(held'[TxJobs(v)]) = Len(held[TxJobs(v)])
             /\ v # q => txSrc'[v] = txSrc[v] /\ txWant'[v] = txWant[v]
  <2>1. /\ Cq(v) # TxJobs(q) /\ Cq(v) # Tx(q) /\ Tx(v) # TxJobs(q) /\ TxJobs(v) # Tx(q)
        /\ (v # q => TxJobs(v) # TxJobs(q) /\ Tx(v) # Tx(q))
    BY PlaceKinds
  <2>2. v # q => txSrc'[v] = txSrc[v] /\ txWant'[v] = txWant[v]
    BY <1>3 DEF TypeOK
  <2> QED BY <1>4, <2>1, <2>2, PlaceNames DEF Shifted
<1>9. /\ Len(held'[TxJobs(q)]) = 0 /\ Len(held'[Tx(q)]) = Len(held[Tx(q)]) + n
      /\ Len(held[Tx(q)]) \in Nat /\ txWant'[q] = 0 /\ txSrc'[q] = None
  BY <1>1, <1>2, <1>3, <1>4 DEF Shifted, TypeOK
<1>10. TxHands'
  BY <1>8, <1>9 DEF TxHands, Count
<1>11. TxRoom'
  <2>1. n <= txWant[q] /\ Len(held[Tx(q)]) + txWant[q] <= XskCap
    BY <1>2 DEF TxRoom, Count
  <2>2. txWant[q] \in Nat
    BY DEF TypeOK
  <2> DEFINE x == Len(held[Tx(q)])
             y == txWant[q]
  <2> HIDE DEF x, y
  <2>3. XskCap \in Nat /\ x \in Nat /\ y \in Nat /\ n <= y /\ x + y <= XskCap
    BY <1>9, <2>1, <2>2, PipelineAssumption DEF x, y
  <2>4. x + n + 0 <= XskCap
    BY <1>2, <2>3
  <2>5. Len(held'[Tx(q)]) + txWant'[q] <= XskCap /\ Len(held'[TxJobs(q)]) <= txWant'[q]
    BY <1>9, <2>4 DEF x
  <2> QED BY <1>8, <2>5 DEF TxRoom, Count
<1> QED BY <1>4, <1>5, <1>7, <1>10, <1>11 DEF Shifted

------------------------------------------------------------------------------
(* The crypto workers *)

(* A worker's move changes nothing in the hands of the receive and transmit loops. *)
LEMMA IoKept ==
  ASSUME Inv, TypeOK', NEW a \in Places, NEW b \in Places, NEW n, Shifted(a, b, n),
         b[1] \in {"job", "split_tail", "mid_to", "pool"}, UNCHANGED <<rxVars, txVars>>
  PROVE  RxHands' /\ TxHands' /\ RxRoom' /\ TxRoom'
<1> USE DEF Inv, HandsMatchStep, ReserveNeverFails
<1>1. /\ NotMore("rx_batch") /\ NotMore("tx_jobs") /\ NotMore("fq") /\ NotMore("rx")
      /\ NotMore("tx") /\ NotMore("cq")
  BY DEF Shifted
<1> QED BY <1>1, RxHandsKept, TxHandsKept, RxRoomKept, TxRoomKept DEF rxVars, txVars

(* Nor in those of another worker: its job and its split half are its own, *)
(* and it alone pushes to its rings.                                       *)
LEMMA OtherWorkers ==
  ASSUME Inv, NEW w \in Workers, NEW v \in Workers, v # w,
         NEW a \in Places, NEW b \in Places, NEW n \in Nat, Shifted(a, b, n),
         a[1] \in {"job", "split_tail"} => a[2] = w,
         b[1] \in {"job", "split_tail"} => b[2] = w,
         b[1] = "mid_to" => b[3] = w,
         pc'[v] = pc[v], dest'[v] = dest[v]
  PROVE  HandMatches(v)' /\ RoomLeft(v)'
<1> USE DEF Inv, HandsMatchStep
<1>1. HandMatches(v) /\ RoomLeft(v)
  BY DEF WorkerHands, RoomLasts
<1>2. /\ Job(v) \in Places /\ Job(v) # a /\ Job(v) # b
      /\ SplitTail(v) \in Places /\ SplitTail(v) # a /\ SplitTail(v) # b
  <2>1. Job(v) # a /\ Job(v) # b /\ SplitTail(v) # a /\ SplitTail(v) # b
    BY PlaceKinds
  <2> QED BY <2>1, PlaceNames
<1>3. Len(held'[Job(v)]) = Len(held[Job(v)]) /\ Len(held'[SplitTail(v)]) = Len(held[SplitTail(v)])
  BY <1>2 DEF Shifted
<1>4. HandMatches(v)'
  BY <1>1, <1>3 DEF HandMatches, Count
<1>5. ASSUME pc[v] \in {"chosen", "split_head", "split_tail"}
      PROVE  /\ Len(held'[MidTo(dest[v], v)]) <= Len(held[MidTo(dest[v], v)])
             /\ Len(held'[MidTo(dest[v], v)]) \in Nat /\ Len(held[MidTo(dest[v], v)]) \in Nat
  <2>1. MidTo(dest[v], v) \in Places
    BY <1>1, <1>5, PlaceNames DEF HandMatches, Queues
  <2>2. MidTo(dest[v], v) # b
    BY PlaceKinds
  <2> DEFINE p == MidTo(dest[v], v)
  <2> HIDE DEF p
  <2>3. p \in Places /\ p # b
    BY <2>1, <2>2 DEF p
  <2>4. /\ Len(held'[p]) <= Len(held[p]) /\ Len(held'[p]) \in Nat /\ Len(held[p]) \in Nat
    BY SMTT(30), <2>3 DEF Shifted
  <2> QED BY <2>4 DEF p
<1>6. RoomLeft(v)'
  BY <1>1, <1>5, PipelineAssumption DEF RoomLeft, Count
<1> QED BY <1>4, <1>6

(* So a worker's step is safe once its own hands and room are, and no ring overflows. *)
LEMMA WorkerStep ==
  ASSUME Inv, NEW w \in Workers,
         NEW a \in Places, NEW b \in Places, NEW n \in Nat, Shifted(a, b, n),
         a[1] \in {"job", "split_tail"} => a[2] = w,
         b[1] \in {"job", "split_tail"} => b[2] = w,
         b[1] = "mid_to" => b[3] = w,
         b[1] \in {"job", "split_tail", "mid_to", "pool"},
         TypeOK', UNCHANGED <<rxVars, txVars>>,
         \A v \in Workers : v # w => pc'[v] = pc[v] /\ dest'[v] = dest[v],
         HandMatches(w)', RoomLeft(w)', MidRoom'
  PROVE  Inv'
<1>1. RxHands' /\ TxHands' /\ RxRoom' /\ TxRoom'
  BY IoKept
<1>2. \A v \in Workers : v # w => HandMatches(v)' /\ RoomLeft(v)'
  BY OtherWorkers
<1>3. WorkerHands' /\ RoomLasts'
  BY <1>2 DEF WorkerHands, RoomLasts
<1> QED BY <1>1, <1>3 DEF Inv, HandsMatchStep, ReserveNeverFails, Shifted

(* A step that adds to no ring overflows none. *)
LEMMA MidRoomSafe ==
  ASSUME Inv, TypeOK', NEW a \in Places, NEW b \in Places, NEW n, Shifted(a, b, n),
         b[1] \in {"job", "split_tail", "pool"}
  PROVE  MidRoom'
<1>1. NotMore("local_to_mid") /\ NotMore("wan_to_mid") /\ NotMore("mid_to")
  BY DEF Shifted
<1> QED BY <1>1, MidRoomKept DEF Inv, ReserveNeverFails

(* What a worker holds, in lengths. *)
LEMMA InHand ==
  ASSUME Inv, NEW w \in Workers
  PROVE  /\ Job(w) \in Places /\ SplitTail(w) \in Places /\ Pool \in Places
         /\ Job(w) # SplitTail(w) /\ Job(w) # Pool /\ SplitTail(w) # Pool
         /\ Len(held[Job(w)]) = IF pc[w] \in {"idle", "split_tail"} THEN 0 ELSE 1
         /\ Len(held[SplitTail(w)]) = IF pc[w] \in {"split_head", "split_tail"} THEN 1 ELSE 0
         /\ pc[w] \in {"chosen", "split_head", "split_tail"} => dest[w] \in Wans
<1>1. HandMatches(w)
  BY DEF Inv, HandsMatchStep, WorkerHands
<1>2. Job(w) # SplitTail(w) /\ Job(w) # Pool /\ SplitTail(w) # Pool
  BY PlaceKinds
<1> QED BY <1>1, <1>2, PlaceNames DEF HandMatches, Count

LEMMA TakeLocalInv == ASSUME Inv, NEW w \in Workers, TakeLocal(w) PROVE Inv'
<1> DEFINE a == LocalToMid(w)
<1>1. /\ Move(a, Job(w), 1) /\ Count(a) > 0 /\ pc[w] = "idle"
      /\ pc' = [pc EXCEPT ![w] = "local"] /\ UNCHANGED <<rxVars, txVars, dest, drainVars>>
  BY DEF TakeLocal, CanTake
<1>2. a[1] = "local_to_mid" /\ Job(w)[1] = "job" /\ Job(w)[2] = w /\ SplitTail(w)[1] = "split_tail"
  BY PlaceKinds
<1>3. a \in Places
  BY PlaceNames
<1> HIDE DEF a
<1>4. 1 \in 0..Count(a)
  BY <1>1, <1>3 DEF Inv, TypeOK, Count
<1>5. Shifted(a, Job(w), 1)
  BY <1>1, <1>2, <1>3, <1>4, InHand, MoveStep DEF Inv
<1>6. TypeOK'
  BY <1>1, <1>5 DEF Shifted, Inv, TypeOK, rxVars, txVars, drainVars
<1>7. pc'[w] = "local" /\ dest'[w] = dest[w] /\ \A v \in Workers : v # w => pc'[v] = pc[v]
  BY <1>1 DEF Inv, TypeOK
<1>8. Len(held'[Job(w)]) = 1 /\ Len(held'[SplitTail(w)]) = 0
  <2>1. /\ Job(w) \in Places /\ Len(held[Job(w)]) = 0
        /\ SplitTail(w) \in Places /\ Len(held[SplitTail(w)]) = 0
    BY <1>1, InHand
  <2>2. SplitTail(w) # a /\ SplitTail(w) # Job(w) /\ Job(w) # a
    BY <1>2
  <2> QED BY <1>5, <2>1, <2>2 DEF Shifted
<1>9. HandMatches(w)' /\ RoomLeft(w)'
  BY <1>7, <1>8 DEF HandMatches, RoomLeft, Count
<1>10. MidRoom'
  BY <1>2, <1>3, <1>5, <1>6, InHand, MidRoomSafe
<1> QED BY <1>1, <1>2, <1>3, <1>5, <1>6, <1>7, <1>9, <1>10, InHand, WorkerStep

LEMMA TakeWanInv == ASSUME Inv, NEW w \in Workers, TakeWan(w) PROVE Inv'
<1> DEFINE a == WanToMid(w)
<1>1. /\ Move(a, Job(w), 1) /\ Count(a) > 0 /\ pc[w] = "idle"
      /\ pc' = [pc EXCEPT ![w] = "wan"] /\ UNCHANGED <<rxVars, txVars, dest, drainVars>>
  BY DEF TakeWan, CanTake
<1>2. a[1] = "wan_to_mid" /\ Job(w)[1] = "job" /\ Job(w)[2] = w /\ SplitTail(w)[1] = "split_tail"
  BY PlaceKinds
<1>3. a \in Places
  BY PlaceNames
<1> HIDE DEF a
<1>4. 1 \in 0..Count(a)
  BY <1>1, <1>3 DEF Inv, TypeOK, Count
<1>5. Shifted(a, Job(w), 1)
  BY <1>1, <1>2, <1>3, <1>4, InHand, MoveStep DEF Inv
<1>6. TypeOK'
  BY <1>1, <1>5 DEF Shifted, Inv, TypeOK, rxVars, txVars, drainVars
<1>7. pc'[w] = "wan" /\ dest'[w] = dest[w] /\ \A v \in Workers : v # w => pc'[v] = pc[v]
  BY <1>1 DEF Inv, TypeOK
<1>8. Len(held'[Job(w)]) = 1 /\ Len(held'[SplitTail(w)]) = 0
  <2>1. /\ Job(w) \in Places /\ Len(held[Job(w)]) = 0
        /\ SplitTail(w) \in Places /\ Len(held[SplitTail(w)]) = 0
    BY <1>1, InHand
  <2>2. SplitTail(w) # a /\ SplitTail(w) # Job(w) /\ Job(w) # a
    BY <1>2
  <2> QED BY <1>5, <2>1, <2>2 DEF Shifted
<1>9. HandMatches(w)' /\ RoomLeft(w)'
  BY <1>7, <1>8 DEF HandMatches, RoomLeft, Count
<1>10. MidRoom'
  BY <1>2, <1>3, <1>5, <1>6, InHand, MidRoomSafe
<1> QED BY <1>1, <1>2, <1>3, <1>5, <1>6, <1>7, <1>9, <1>10, InHand, WorkerStep

(* The end of a packet: the worker's job leaves its hands, to a ring or to the pool. *)
LEMMA FinishToPool ==
  ASSUME Inv, NEW w \in Workers, NEW a \in {Job(w), SplitTail(w)},
         ToPool(a, 1), Finish(w), UNCHANGED <<rxVars, txVars, drainVars>>,
         pc[w] # "idle", pc[w] # "split_head", a = SplitTail(w) <=> pc[w] = "split_tail"
  PROVE  Inv'
<1>1. /\ a \in Places /\ a # Pool /\ a[1] \in {"job", "split_tail"} /\ a[2] = w
      /\ Pool[1] = "pool" /\ Len(held[a]) = 1
  <2>1. /\ a \in Places /\ a # Pool /\ Len(held[a]) = 1
    BY InHand
  <2>2. a[1] \in {"job", "split_tail"} /\ a[2] = w /\ Pool[1] = "pool"
    BY PlaceKinds
  <2> QED BY <2>1, <2>2
<1>2. Shifted(a, Pool, 1)
  <2>1. 1 \in 0..Count(a)
    BY <1>1 DEF Count
  <2> QED BY <1>1, <2>1, ToPoolStep DEF Inv
<1>3. TypeOK'
  BY <1>2 DEF Shifted, Finish, Inv, TypeOK, rxVars, txVars, drainVars
<1>4. /\ pc'[w] = "idle" /\ dest'[w] = None
      /\ \A v \in Workers : v # w => pc'[v] = pc[v] /\ dest'[v] = dest[v]
  BY DEF Finish, Inv, TypeOK
<1>5. Len(held'[Job(w)]) = 0 /\ Len(held'[SplitTail(w)]) = 0
  BY <1>1, <1>2, InHand DEF Shifted
<1>6. HandMatches(w)' /\ RoomLeft(w)'
  BY <1>4, <1>5 DEF HandMatches, RoomLeft, Count
<1>7. MidRoom'
  BY <1>1, <1>2, <1>3, InHand, MidRoomSafe
<1> QED BY <1>1, <1>2, <1>3, <1>4, <1>6, <1>7, InHand, WorkerStep

LEMMA FinishToRing ==
  ASSUME Inv, NEW w \in Workers, NEW a \in {Job(w), SplitTail(w)}, NEW q \in Queues,
         Count(MidTo(q, w)) < RingCap, Move(a, MidTo(q, w), 1),
         Finish(w), UNCHANGED <<rxVars, txVars, drainVars>>,
         pc[w] # "idle", pc[w] # "split_head", a = SplitTail(w) <=> pc[w] = "split_tail"
  PROVE  Inv'
<1> DEFINE r == MidTo(q, w)
<1>1. /\ a \in Places /\ a[1] \in {"job", "split_tail"} /\ a[2] = w /\ Len(held[a]) = 1
  <2>1. a \in Places /\ Len(held[a]) = 1
    BY InHand
  <2>2. a[1] \in {"job", "split_tail"} /\ a[2] = w
    BY PlaceKinds
  <2> QED BY <2>1, <2>2
<1>2. r[1] = "mid_to" /\ r[3] = w /\ Job(w)[1] = "job" /\ SplitTail(w)[1] = "split_tail"
  BY PlaceKinds
<1>3. r \in Places /\ Len(held[r]) < RingCap /\ Move(a, r, 1)
  BY PlaceNames DEF Count
<1> HIDE DEF r
<1>4. a # r /\ Job(w) # r /\ SplitTail(w) # r
  BY <1>1, <1>2
<1>5. Shifted(a, r, 1)
  BY SMTT(30), <1>1, <1>3, <1>4, MoveStep DEF Inv, Count
<1>6. TypeOK'
  BY <1>5 DEF Shifted, Finish, Inv, TypeOK, rxVars, txVars, drainVars
<1>7. /\ pc'[w] = "idle" /\ dest'[w] = None
      /\ \A v \in Workers : v # w => pc'[v] = pc[v] /\ dest'[v] = dest[v]
  BY DEF Finish, Inv, TypeOK
<1>8. Len(held'[Job(w)]) = 0 /\ Len(held'[SplitTail(w)]) = 0
  BY <1>1, <1>4, <1>5, InHand DEF Shifted
<1>9. HandMatches(w)' /\ RoomLeft(w)'
  BY <1>7, <1>8 DEF HandMatches, RoomLeft, Count
<1>10. MidRoom'
  BY <1>1, <1>3, <1>4, <1>5, MidRoomPush DEF Inv, ReserveNeverFails
<1> QED BY <1>1, <1>2, <1>3, <1>5, <1>6, <1>7, <1>9, <1>10, WorkerStep

LEMMA DropInv == ASSUME Inv, NEW w \in Workers, Drop(w) PROVE Inv'
<1>1. Job(w) # SplitTail(w)
  BY InHand
<1> QED BY <1>1, FinishToPool DEF Drop

LEMMA PushInv ==
  ASSUME Inv, NEW w \in Workers, NEW q \in Queues, pc[w] \in {"chosen", "wan"},
         RingPush(w, MidTo(q, w)), Finish(w), UNCHANGED <<rxVars, txVars, drainVars>>
  PROVE  Inv'
<1>1. Job(w) # SplitTail(w)
  BY InHand
<1>2. CASE Count(MidTo(q, w)) < RingCap
  BY <1>1, <1>2, FinishToRing DEF RingPush
<1>3. CASE ~(Count(MidTo(q, w)) < RingCap)
  BY <1>1, <1>3, FinishToPool DEF RingPush
<1> QED BY <1>2, <1>3

LEMMA PushWanInv == ASSUME Inv, NEW w \in Workers, PushWan(w) PROVE Inv'
<1>1. dest[w] \in Queues
  BY InHand DEF PushWan, Queues
<1> QED BY <1>1, PushInv DEF PushWan

LEMMA PushLocalInv == ASSUME Inv, NEW w \in Workers, NEW l \in Locals, PushLocal(w, l) PROVE Inv'
BY PushInv DEF PushLocal, Queues

LEMMA SplitPushTailInv == ASSUME Inv, NEW w \in Workers, SplitPushTail(w) PROVE Inv'
<1>1. dest[w] \in Queues /\ pc[w] = "split_tail"
  BY InHand DEF SplitPushTail, Queues
<1>2. CASE Count(MidTo(dest[w], w)) < RingCap
  BY <1>1, <1>2, FinishToRing DEF SplitPushTail
<1>3. CASE ~(Count(MidTo(dest[w], w)) < RingCap)
  BY <1>1, <1>3, FinishToPool DEF SplitPushTail
<1> QED BY <1>2, <1>3

LEMMA ChooseWanInv == ASSUME Inv, NEW w \in Workers, NEW i \in Wans, ChooseWan(w, i) PROVE Inv'
<1> USE DEF Inv, HandsMatchStep
<1>1. /\ pc[w] = "local" /\ HasTxRoom(i, w)
      /\ pc' = [pc EXCEPT ![w] = "chosen"] /\ dest' = [dest EXCEPT ![w] = i]
      /\ UNCHANGED <<held, rxVars, txVars, drainVars>>
  BY DEF ChooseWan
<1>2. TypeOK' /\ SingleOwner' /\ NoFrameLost'
  BY <1>1 DEF TypeOK, SingleOwner, NoFrameLost, rxVars, txVars, drainVars
<1>3. RxHands' /\ TxHands' /\ ReserveNeverFails'
  BY <1>1 DEF RxHands, TxHands, ReserveNeverFails, RxRoom, TxRoom, MidRoom, rxVars, txVars, Count
<1>4. /\ pc'[w] = "chosen" /\ dest'[w] = i
      /\ \A v \in Workers : v # w => pc'[v] = pc[v] /\ dest'[v] = dest[v]
  BY <1>1 DEF TypeOK
<1>5. \A v \in Workers : v # w => HandMatches(v)' /\ RoomLeft(v)'
  BY <1>1, <1>4 DEF WorkerHands, HandMatches, RoomLasts, RoomLeft, Count
<1>6. HandMatches(w)'
  BY <1>1, <1>4 DEF WorkerHands, HandMatches, Count
<1>7. RoomLeft(w)'
  <2> DEFINE k == Len(held[MidTo(i, w)])
  <2>1. k \in Nat
    BY PlaceNames DEF TypeOK, Queues
  <2>2. k + Batch < RingCap
    BY <1>1 DEF HasTxRoom, Count
  <2> HIDE DEF k
  <2>3. k + 2 <= RingCap
    BY <2>1, <2>2, PipelineAssumption
  <2> QED BY <1>1, <1>4, <2>3 DEF RoomLeft, Count, k
<1>8. WorkerHands' /\ RoomLasts'
  BY <1>5, <1>6, <1>7 DEF WorkerHands, RoomLasts
<1> QED BY <1>2, <1>3, <1>8

LEMMA SplitAllocInv == ASSUME Inv, NEW w \in Workers, SplitAlloc(w) PROVE Inv'
<1> DEFINE r == MidTo(dest[w], w)
<1>1. /\ Move(Pool, SplitTail(w), 1) /\ Count(Pool) > 0 /\ Count(r) + 2 <= RingCap
      /\ pc[w] = "chosen" /\ pc' = [pc EXCEPT ![w] = "split_head"]
      /\ UNCHANGED <<rxVars, txVars, dest, drainVars>>
  BY DEF SplitAlloc
<1>2. /\ SplitTail(w)[1] = "split_tail" /\ SplitTail(w)[2] = w /\ Pool[1] = "pool"
      /\ r[1] = "mid_to"
  BY PlaceKinds
<1>3. r \in Places
  BY <1>1, InHand, PlaceNames DEF Queues
<1>4. 1 \in 0..Count(Pool)
  BY <1>1, InHand DEF Inv, TypeOK, Count
<1>5. Shifted(Pool, SplitTail(w), 1)
  BY <1>1, <1>4, InHand, MoveStep DEF Inv
<1>6. TypeOK'
  BY <1>1, <1>5 DEF Shifted, Inv, TypeOK, rxVars, txVars, drainVars
<1>7. pc'[w] = "split_head" /\ dest' = dest /\ \A v \in Workers : v # w => pc'[v] = pc[v]
  BY <1>1 DEF Inv, TypeOK
<1>8. Len(held'[Job(w)]) = 1 /\ Len(held'[SplitTail(w)]) = 1
  <2>1. Len(held[Job(w)]) = 1 /\ Len(held[SplitTail(w)]) = 0
    BY <1>1, InHand
  <2>2. Job(w) \in Places /\ Job(w) # Pool /\ Job(w) # SplitTail(w)
    BY InHand
  <2> QED BY <1>5, <2>1, <2>2 DEF Shifted
<1>9. HandMatches(w)'
  BY <1>1, <1>7, <1>8, InHand DEF HandMatches, Count
<1>10. RoomLeft(w)'
  <2>1. r # Pool /\ r # SplitTail(w)
    BY <1>2
  <2>2. Len(held'[r]) = Len(held[r])
    BY <1>3, <1>5, <2>1 DEF Shifted
  <2> QED BY <1>1, <1>7, <2>2 DEF RoomLeft, Count
<1>11. MidRoom'
  BY <1>2, <1>5, <1>6, InHand, MidRoomSafe
<1> QED BY <1>1, <1>2, <1>5, <1>6, <1>7, <1>9, <1>10, <1>11, InHand, WorkerStep

LEMMA SplitPushHeadInv == ASSUME Inv, NEW w \in Workers, SplitPushHead(w) PROVE Inv'
<1> DEFINE r == MidTo(dest[w], w)
<1>1. pc[w] = "split_head" /\ UNCHANGED <<rxVars, txVars, dest, drainVars>>
  BY DEF SplitPushHead
<1>2. /\ Job(w)[1] = "job" /\ Job(w)[2] = w /\ SplitTail(w)[1] = "split_tail"
      /\ r[1] = "mid_to" /\ r[3] = w
  BY PlaceKinds
<1>3. r \in Places /\ Len(held[r]) \in Nat
  <2>1. dest[w] \in Queues
    BY <1>1, InHand DEF Queues
  <2>2. r \in Places
    BY <2>1, PlaceNames
  <2> QED BY <2>2 DEF Inv, TypeOK
<1>4. Count(r) + 2 <= RingCap
  BY <1>1 DEF Inv, RoomLasts, RoomLeft
\* there was room for two, so the first push succeeds
<1>5. Count(r) < RingCap
  BY <1>3, <1>4, PipelineAssumption DEF Count
<1>6. Move(Job(w), r, 1) /\ pc' = [pc EXCEPT ![w] = "split_tail"]
  BY <1>5 DEF SplitPushHead
<1> HIDE DEF r
<1>7. Shifted(Job(w), r, 1) /\ Job(w) # r
  <2>1. 1 \in 0..Count(Job(w))
    BY <1>1, InHand DEF Count
  <2>2. Job(w) # r
    BY <1>2
  <2> QED BY <1>3, <1>6, <2>1, <2>2, InHand, MoveStep DEF Inv
<1>8. TypeOK'
  BY <1>1, <1>6, <1>7 DEF Shifted, Inv, TypeOK, rxVars, txVars, drainVars
<1>9. pc'[w] = "split_tail" /\ dest' = dest /\ \A v \in Workers : v # w => pc'[v] = pc[v]
  BY <1>1, <1>6 DEF Inv, TypeOK
<1>10. Len(held'[Job(w)]) = 0 /\ Len(held'[SplitTail(w)]) = 1 /\ Len(held'[r]) = Len(held[r]) + 1
  <2>1. SplitTail(w) # r /\ SplitTail(w) # Job(w) /\ SplitTail(w) \in Places
    BY <1>2, InHand
  <2>2. Len(held[Job(w)]) = 1 /\ Len(held[SplitTail(w)]) = 1
    BY <1>1, InHand
  <2> QED BY <1>7, <2>1, <2>2 DEF Shifted
<1>11. HandMatches(w)'
  BY <1>1, <1>9, <1>10, InHand DEF HandMatches, Count
<1>12. RoomLeft(w)'
  <2>1. Len(held'[r]) < RingCap
    BY <1>3, <1>4, <1>10, PipelineAssumption DEF Count
  <2> QED BY <1>9, <2>1 DEF RoomLeft, Count, r
<1>13. MidRoom'
  BY <1>3, <1>5, <1>7, InHand, MidRoomPush DEF Inv, ReserveNeverFails, Count
<1> QED BY <1>1, <1>2, <1>3, <1>7, <1>8, <1>9, <1>11, <1>12, <1>13, InHand, WorkerStep

------------------------------------------------------------------------------
(* The drain of a removed WAN *)

(* A step that moves no frame and advances no thread's loop. *)
LEMMA HeldKept ==
  ASSUME Inv, TypeOK', UNCHANGED <<held, rxVars, txVars, workerVars>>
  PROVE  Inv'
<1> USE DEF Inv, HandsMatchStep, ReserveNeverFails
<1>1. SingleOwner' /\ NoFrameLost'
  BY DEF SingleOwner, NoFrameLost
<1>2. RxHands' /\ TxHands' /\ RxRoom' /\ TxRoom' /\ MidRoom'
  BY DEF RxHands, TxHands, RxRoom, TxRoom, MidRoom, rxVars, txVars, Count
<1>3. WorkerHands' /\ RoomLasts'
  BY DEF WorkerHands, HandMatches, RoomLasts, RoomLeft, workerVars, Count
<1> QED BY <1>1, <1>2, <1>3

LEMMA FlushStartInv == ASSUME Inv, NEW i \in Removable, FlushStart(i) PROVE Inv'
<1>1. 0 \in Workers /\ i \in Wans
  BY PipelineAssumption DEF Workers
<1>2. TypeOK'
  BY <1>1 DEF Inv, FlushStart, TypeOK, rxVars, txVars, workerVars
<1> QED BY <1>2, HeldKept DEF FlushStart

LEMMA FlushPopInv == ASSUME Inv, FlushPop PROVE Inv'
<1> DEFINE r == MidTo(flushWan, flushWorker)
<1>1. flushWan \in Queues /\ flushWorker \in Workers
  BY DEF Inv, TypeOK, FlushPop, Queues
<1>2. r[1] = "mid_to"
  BY PlaceKinds
<1>3. r \in Places
  BY <1>1, PlaceNames
<1>4. 1 \in 0..Count(r)
  BY <1>3 DEF FlushPop, Inv, TypeOK, Count
<1> QED BY <1>2, <1>3, <1>4, DropToPool DEF FlushPop

LEMMA FlushNextInv == ASSUME Inv, FlushNext PROVE Inv'
<1>1. /\ 0 \in Workers /\ (flushWorker + 1 < NumWorkers => flushWorker + 1 \in Workers)
  BY PipelineAssumption DEF Workers, Inv, TypeOK
<1>2. TypeOK'
  BY <1>1 DEF Inv, FlushNext, MoreWorkers, TypeOK, rxVars, txVars, workerVars
<1> QED BY <1>2, HeldKept DEF FlushNext

------------------------------------------------------------------------------
(* The theorems *)

(* Every step of every thread, of the NIC and of the drain keeps the invariant. *)
LEMMA InvStep == Inv /\ [Next]_vars => Inv'
<1> SUFFICES ASSUME Inv, [Next]_vars PROVE Inv'
  OBVIOUS
<1>1. ASSUME NEW q \in Queues, RxThread(q) PROVE Inv'
  BY <1>1, RefillFqInv, RecvInv, ReleaseInv, DispatchDropInv, DispatchInv DEF RxThread
<1>2. ASSUME NEW q \in Queues, Nic(q) PROVE Inv'
  BY <1>2, NicReceiveInv, NicTransmitInv DEF Nic
<1>3. ASSUME NEW q \in Queues, TxThread(q) PROVE Inv'
  BY <1>3, DrainCqInv, TxPopInv, TxSubmitInv, TxStartInv DEF TxThread
<1>4. ASSUME NEW w \in Workers, Worker(w) PROVE Inv'
  BY <1>4, TakeLocalInv, TakeWanInv, DropInv, PushWanInv, SplitAllocInv, SplitPushHeadInv,
     SplitPushTailInv, ChooseWanInv, PushLocalInv DEF Worker, Process
<1>5. ASSUME Flush PROVE Inv'
  BY <1>5, FlushPopInv, FlushNextInv, FlushStartInv DEF Flush
<1>6. CASE UNCHANGED vars
  <2>1. TypeOK'
    BY <1>6 DEF Inv, TypeOK, vars
  <2>2. UNCHANGED <<held, rxVars, txVars, workerVars>>
    BY <1>6 DEF vars, rxVars, txVars, workerVars
  <2> QED BY <2>1, <2>2, HeldKept
<1> QED BY <1>1, <1>2, <1>3, <1>4, <1>5, <1>6 DEF Next

(* Frames, hands and room, through every step of every thread. *)
THEOREM Invariance == Spec => []Inv
<1>1. Init => Inv
  BY InitInv
<1>2. Inv /\ [Next]_vars => Inv'
  BY InvStep
<1> QED BY <1>1, <1>2, PTL DEF Spec

(* Every register and every place keeps its type (struct ne_pair, struct forwarder). *)
THEOREM TypeCorrect == Spec => []TypeOK
<1>1. Inv => TypeOK
  BY DEF Inv
<1> QED BY <1>1, Invariance, PTL

(* A UMEM frame is never in two hands: ne_frame_free is never called twice on  *)
(* it, and it is never posted for reception while a packet in it is in flight. *)
THEOREM Ownership == Spec => []SingleOwner
<1>1. Inv => SingleOwner
  BY DEF Inv
<1> QED BY <1>1, Invariance, PTL

(* No frame leaves circulation on any path of the three kinds of threads. *)
THEOREM Conservation == Spec => []NoFrameLost
<1>1. Inv => NoFrameLost
  BY DEF Inv
<1> QED BY <1>1, Invariance, PTL

(* What a thread holds is what its step says, at the head of its loop nothing. *)
THEOREM Hands == Spec => []HandsMatchStep
<1>1. Inv => HandsMatchStep
  BY DEF Inv
<1> QED BY <1>1, Invariance, PTL

(* Room seen by fwd_wan_has_tx_room or push_split_to_wan is still there when  *)
(* the worker pushes: it is the only producer of its rings.                   *)
THEOREM RoomSurvives == Spec => []RoomLasts
<1>1. Inv => RoomLasts
  BY DEF Inv
<1> QED BY <1>1, Invariance, PTL

(* xsk_ring_prod__reserve never comes short in refill_fq_queue or in            *)
(* tx_drain_queue, and no ring between threads holds more than its capacity.    *)
THEOREM ReservesSucceed == Spec => []ReserveNeverFails
<1>1. Inv => ReserveNeverFails
  BY DEF Inv
<1> QED BY <1>1, Invariance, PTL
=============================================================================
