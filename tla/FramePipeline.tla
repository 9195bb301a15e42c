---------------------------- MODULE FramePipeline ----------------------------
(***************************************************************************)
(* The life of a UMEM frame in the dataplane (struct ne_pair and struct    *)
(* forwarder): from the shared pool through a fill queue to the NIC, to a  *)
(* receive thread, through a ring to a crypto worker, through another ring *)
(* to a transmit thread, back to the NIC, and through the completion queue *)
(* to the pool.  Every thread of the code is an actor; every step moves    *)
(* frames between places, one ring operation at a time (module NeRing      *)
(* shows that a ring operation takes effect at one instant).  Frame        *)
(* contents are abstracted to the outcomes that decide where a frame goes. *)
(* Each interface has one hardware queue; the loop of a receive or a       *)
(* transmit thread over its queues is one actor per queue.                 *)
(***************************************************************************)
EXTENDS Naturals, Sequences, FiniteSets

CONSTANTS Frames,     \* UMEM frames, p->n_frames of them
          Locals,     \* LAN interfaces
          Wans,       \* dataplane WAN slots
          FirstWan,   \* slot 0, the fallback of fwd_wan_pick_for_local
          Removable,  \* WANs a reload takes out of the configuration
          NumWorkers, \* NE_CRYPTO_WORKERS
          XskCap,     \* size of the four rings shared with the kernel, NE_RING
          RingCap,    \* capacity of the rings between threads
          Batch,      \* NE_BATCH_SIZE
          None,       \* no worker, no interface
          Layout      \* where ne_pair_open leaves the frames: pool and fill queues

Queues  == Locals \cup Wans
Workers == 0..NumWorkers-1
Primary == 0          \* the worker that runs the maintenance tick

------------------------------------------------------------------------------
(* Where a frame can be. *)
Pool           == <<"pool">>
Fq(q)          == <<"fq", q>>            \* lent to the NIC for reception
Rx(q)          == <<"rx", q>>            \* received, not yet peeked
RxBatch(q)     == <<"rx_batch", q>>      \* batch[] of the receive thread
LocalToMid(w)  == <<"local_to_mid", w>>
WanToMid(w)    == <<"wan_to_mid", w>>
Job(w)         == <<"job", w>>           \* the worker's packet
SplitTail(w)   == <<"split_tail", w>>    \* second half of a split packet
MidTo(q, w)    == <<"mid_to", q, w>>     \* mid_to_wan / mid_to_local
TxJobs(q)      == <<"tx_jobs", q>>       \* jobs[] of tx_drain_queue
Tx(q)          == <<"tx", q>>
Cq(q)          == <<"cq", q>>

QueuePlaces  == UNION {{Fq(q), Rx(q), RxBatch(q), TxJobs(q), Tx(q), Cq(q)} : q \in Queues}
WorkerPlaces == UNION {{LocalToMid(w), WanToMid(w), Job(w), SplitTail(w)} : w \in Workers}
RingPlaces   == {MidTo(qw[1], qw[2]) : qw \in Queues \X Workers}
Places       == {Pool} \cup QueuePlaces \cup WorkerPlaces \cup RingPlaces

(* No frame is at two positions, nor twice at one place. *)
OneOwner(h) == \A p1, p2 \in Places :
                  \A i1 \in DOMAIN h[p1], i2 \in DOMAIN h[p2] :
                     h[p1][i1] = h[p2][i2] => p1 = p2 /\ i1 = i2

(* Every frame is somewhere. *)
AllPresent(h) == \A f \in Frames : \E p \in Places : \E i \in DOMAIN h[p] : h[p][i] = f

ASSUME PipelineAssumption ==
  /\ IsFiniteSet(Frames)
  /\ Locals \cap Wans = {} /\ FirstWan \in Wans /\ Removable \subseteq Wans
  /\ None \notin Queues \cup Workers
  /\ NumWorkers \in Nat \ {0}
  /\ XskCap \in Nat \ {0} /\ Batch \in Nat \ {0}
  /\ RingCap \in Nat

ASSUME LayoutAssumption ==
  /\ Layout \in [Places -> Seq(Frames)]
  /\ OneOwner(Layout) /\ AllPresent(Layout)
  /\ \A p \in Places : Layout[p] # <<>> => p = Pool \/ \E q \in Queues : p = Fq(q)
  /\ \A q \in Queues : Len(Layout[Fq(q)]) < XskCap       \* prefill = NE_RING - 1

------------------------------------------------------------------------------
VARIABLES held,       \* held[p]: the frames at place p, oldest first
          rxPc,       \* rxPc[q]: step of the receive loop at queue q
          rxPending,  \* rxPending[q]: peeked descriptors not yet released
          txSrc,      \* txSrc[q]: worker whose ring the transmit loop drains, or None
          txWant,     \* txWant[q]: how many it may still submit
          pc,         \* pc[w]: step of worker w
          dest,       \* dest[w]: WAN chosen for the worker's packet, or None
          stopped,    \* stopped[i]: wan_stopped of WAN i
          flushWan,   \* WAN whose drain the primary worker finishes, or None
          flushWorker \* whose ring it empties

rxVars     == <<rxPc, rxPending>>
txVars     == <<txSrc, txWant>>
workerVars == <<pc, dest>>
drainVars  == <<stopped, flushWan, flushWorker>>
vars == <<held, rxPc, rxPending, txSrc, txWant, pc, dest, stopped, flushWan, flushWorker>>

Least(a, b) == IF a < b THEN a ELSE b
Count(p) == Len(held[p])
Room(p, cap) == cap - Count(p)
Rest(s, n) == SubSeq(s, n + 1, Len(s))
FirstN(s, n) == SubSeq(s, 1, n)

(* The n oldest frames at a go to b. *)
Move(a, b, n) ==
  held' = [held EXCEPT ![a] = Rest(@, n), ![b] = @ \o FirstN(held[a], n)]

(* ne_frame_free, pool_push: what does not fit in the pool is silently dropped. *)
PoolRoom == Room(Pool, Cardinality(Frames))
ToPool(a, n) ==
  LET put == Least(n, PoolRoom)
  IN  held' = [held EXCEPT ![a] = Rest(@, n), ![Pool] = @ \o FirstN(held[a], put)]

Init == /\ held = Layout
        /\ rxPc = [q \in Queues |-> "refill"] /\ rxPending = [q \in Queues |-> 0]
        /\ txSrc = [q \in Queues |-> None] /\ txWant = [q \in Queues |-> 0]
        /\ pc = [w \in Workers |-> "idle"] /\ dest = [w \in Workers |-> None]
        /\ stopped = [i \in Wans |-> FALSE]
        /\ flushWan = None /\ flushWorker = 0

------------------------------------------------------------------------------
(* The receive thread at queue q: local_rx_thread, wan_rx_thread. *)

(* ne_refill_fq_*_slot: pool frames up to the free room of the fill queue. *)
RefillFq(q) == /\ rxPc[q] = "refill"
               /\ Move(Pool, Fq(q), Least(Least(Batch, Room(Fq(q), XskCap)), Count(Pool)))
               /\ rxPc' = [rxPc EXCEPT ![q] = "recv"]
               /\ UNCHANGED <<rxPending, txVars, workerVars, drainVars>>

(* ne_recv_*_slot: peek, without releasing the descriptors. *)
Recv(q) == LET n == Least(Batch, Count(Rx(q))) IN
           /\ rxPc[q] = "recv"
           /\ Move(Rx(q), RxBatch(q), n)
           /\ rxPending' = [rxPending EXCEPT ![q] = n]
           /\ rxPc' = [rxPc EXCEPT ![q] = IF n = 0 THEN "refill" ELSE "dispatch"]
           /\ UNCHANGED <<txVars, workerVars, drainVars>>

ToMid(q, w) == IF q \in Locals THEN LocalToMid(w) ELSE WanToMid(w)

(* The next packet of the batch goes to the worker its hash or its wire id *)
(* names, or back to the pool when that worker's ring is full.             *)
Dispatch(q, w) ==
  /\ rxPc[q] = "dispatch" /\ Count(RxBatch(q)) > 0
  /\ q \in Wans => ~stopped[q]
  /\ IF Count(ToMid(q, w)) < RingCap THEN Move(RxBatch(q), ToMid(q, w), 1)
                                     ELSE ToPool(RxBatch(q), 1)
  /\ UNCHANGED <<rxVars, txVars, workerVars, drainVars>>

(* A packet of a stopped WAN, or one whose wire id names no worker. *)
DispatchDrop(q) ==
  /\ q \in Wans
  /\ rxPc[q] = "dispatch" /\ Count(RxBatch(q)) > 0
  /\ ToPool(RxBatch(q), 1)
  /\ UNCHANGED <<rxVars, txVars, workerVars, drainVars>>

(* ne_recv_release_*_slot *)
Release(q) == /\ rxPc[q] = "dispatch" /\ Count(RxBatch(q)) = 0
              /\ rxPending' = [rxPending EXCEPT ![q] = 0]
              /\ rxPc' = [rxPc EXCEPT ![q] = "refill"]
              /\ UNCHANGED <<held, txVars, workerVars, drainVars>>

------------------------------------------------------------------------------
(* The NIC and the kernel side of the AF_XDP socket (external). *)

(* A packet arrives; with the XDP program detached none does. *)
NicReceive(q) == /\ q \in Wans => ~stopped[q]
                 /\ Count(Fq(q)) > 0 /\ Count(Rx(q)) + rxPending[q] < XskCap
                 /\ Move(Fq(q), Rx(q), 1)
                 /\ UNCHANGED <<rxVars, txVars, workerVars, drainVars>>

(* A packet is sent and its completion posted. *)
NicTransmit(q) == /\ Count(Tx(q)) > 0 /\ Count(Cq(q)) < XskCap
                  /\ Move(Tx(q), Cq(q), 1)
                  /\ UNCHANGED <<rxVars, txVars, workerVars, drainVars>>

------------------------------------------------------------------------------
(* The transmit thread at queue q: local_tx_thread, wan_tx_thread. *)

(* Mutant: only the LAN transmit threads drain completions. *)
DrainCqLocal(q) == /\ q \in Locals
                   /\ txSrc[q] = None /\ Count(Cq(q)) > 0
                   /\ Move(Cq(q), Pool, Least(Least(Batch, Count(Cq(q))), PoolRoom))
                   /\ UNCHANGED <<rxVars, txVars, workerVars, drainVars>>

(* drain_cq_queue: one batch of completions, as many as the pool takes. *)
DrainCq(q) == /\ txSrc[q] = None /\ Count(Cq(q)) > 0
              /\ Move(Cq(q), Pool, Least(Least(Batch, Count(Cq(q))), PoolRoom))
              /\ UNCHANGED <<rxVars, txVars, workerVars, drainVars>>

(* Mutant: a whole batch is popped whatever the room. *)
TxStartBlind(q, w) == /\ txSrc[q] = None /\ Room(Tx(q), XskCap) > 0
                      /\ q \in Wans => ~stopped[q]
                      /\ txSrc' = [txSrc EXCEPT ![q] = w]
                      /\ txWant' = [txWant EXCEPT ![q] = Batch]
                      /\ UNCHANGED <<held, rxVars, workerVars, drainVars>>

(* tx_drain_queue: how many descriptors are free ... *)
TxStart(q, w) == /\ txSrc[q] = None /\ Room(Tx(q), XskCap) > 0
                 /\ q \in Wans => ~stopped[q]
                 /\ txSrc' = [txSrc EXCEPT ![q] = w]
                 /\ txWant' = [txWant EXCEPT ![q] = Least(Batch, Room(Tx(q), XskCap))]
                 /\ UNCHANGED <<held, rxVars, workerVars, drainVars>>

(* ... pop as many packets as there are, up to that number ... *)
TxPop(q) == /\ txSrc[q] # None
            /\ Count(TxJobs(q)) < txWant[q] /\ Count(MidTo(q, txSrc[q])) > 0
            /\ Move(MidTo(q, txSrc[q]), TxJobs(q), 1)
            /\ UNCHANGED <<rxVars, txVars, workerVars, drainVars>>

(* ... and submit them all. *)
TxSubmit(q) == /\ txSrc[q] # None
               /\ Count(TxJobs(q)) = txWant[q] \/ Count(MidTo(q, txSrc[q])) = 0
               /\ Move(TxJobs(q), Tx(q), Count(TxJobs(q)))
               /\ txSrc' = [txSrc EXCEPT ![q] = None]
               /\ txWant' = [txWant EXCEPT ![q] = 0]
               /\ UNCHANGED <<rxVars, workerVars, drainVars>>

------------------------------------------------------------------------------
(* Crypto worker w: crypto_worker_thread, dataplane_process_local and      *)
(* dataplane_process_wan.  The primary worker does not take packets while  *)
(* it finishes a drain.                                                    *)
CanTake(w) == pc[w] = "idle" /\ (w = Primary => flushWan = None)

TakeLocal(w) == /\ CanTake(w) /\ Count(LocalToMid(w)) > 0
                /\ Move(LocalToMid(w), Job(w), 1)
                /\ pc' = [pc EXCEPT ![w] = "local"]
                /\ UNCHANGED <<rxVars, txVars, dest, drainVars>>

TakeWan(w) == /\ CanTake(w) /\ Count(WanToMid(w)) > 0
              /\ Move(WanToMid(w), Job(w), 1)
              /\ pc' = [pc EXCEPT ![w] = "wan"]
              /\ UNCHANGED <<rxVars, txVars, dest, drainVars>>

Finish(w) == pc' = [pc EXCEPT ![w] = "idle"] /\ dest' = [dest EXCEPT ![w] = None]

(* No policy, no route, no room, a crypto failure, or the first half of a *)
(* fragmented packet (its bytes are kept in the reassembly table).        *)
Drop(w) == /\ pc[w] \in {"local", "wan", "chosen", "drop"}
           /\ ToPool(Job(w), 1)
           /\ Finish(w)
           /\ UNCHANGED <<rxVars, txVars, drainVars>>

(* Mutant: room for one packet is enough. *)
HasAnyRoom(i, w) == Count(MidTo(i, w)) < RingCap

(* fwd_wan_pick_for_local returns a WAN that is not stopped, or slot 0 when *)
(* it finds none, and fwd_wan_has_tx_room accepts it.                       *)
HasTxRoom(i, w) == Count(MidTo(i, w)) + Batch < RingCap

ChooseWan(w, i) == /\ pc[w] = "local"
                   /\ ~stopped[i] \/ i = FirstWan
                   /\ HasTxRoom(i, w)
                   /\ pc' = [pc EXCEPT ![w] = "chosen"]
                   /\ dest' = [dest EXCEPT ![w] = i]
                   /\ UNCHANGED <<held, rxVars, txVars, drainVars>>

(* Mutants: the frame is freed although the ring took it, or never. *)
RingPushFrees(w, ring) ==
  held' = [held EXCEPT ![Job(w)] = <<>>, ![ring] = @ \o held[Job(w)], ![Pool] = @ \o held[Job(w)]]
RingPushLeaks(w, ring) == IF Count(ring) < RingCap THEN Move(Job(w), ring, 1)
                                                   ELSE held' = [held EXCEPT ![Job(w)] = <<>>]

(* dp_ring_push, which frees the frame of a packet the ring refuses. *)
RingPush(w, ring) == IF Count(ring) < RingCap THEN Move(Job(w), ring, 1)
                                              ELSE ToPool(Job(w), 1)

PushWan(w) == /\ pc[w] = "chosen"
              /\ RingPush(w, MidTo(dest[w], w))
              /\ Finish(w)
              /\ UNCHANGED <<rxVars, txVars, drainVars>>

PushLocal(w, l) == /\ pc[w] = "wan"
                   /\ RingPush(w, MidTo(l, w))
                   /\ Finish(w)
                   /\ UNCHANGED <<rxVars, txVars, drainVars>>

(* push_split_to_wan: check room for two, take a frame for the second half ... *)
SplitAlloc(w) == /\ pc[w] = "chosen"
                 /\ Count(MidTo(dest[w], w)) + 2 <= RingCap /\ Count(Pool) > 0
                 /\ Move(Pool, SplitTail(w), 1)
                 /\ pc' = [pc EXCEPT ![w] = "split_head"]
                 /\ UNCHANGED <<rxVars, txVars, dest, drainVars>>

(* ... push the first half; if it is refused both frames are freed ... *)
SplitPushHead(w) ==
  LET ring == MidTo(dest[w], w) IN
  /\ pc[w] = "split_head"
  /\ IF Count(ring) < RingCap
     THEN Move(Job(w), ring, 1) /\ pc' = [pc EXCEPT ![w] = "split_tail"]
     ELSE ToPool(SplitTail(w), 1) /\ pc' = [pc EXCEPT ![w] = "drop"]
  /\ UNCHANGED <<rxVars, txVars, dest, drainVars>>

(* ... push the second half; if it is refused the call still succeeds. *)
SplitPushTail(w) ==
  LET ring == MidTo(dest[w], w) IN
  /\ pc[w] = "split_tail"
  /\ IF Count(ring) < RingCap THEN Move(SplitTail(w), ring, 1) ELSE ToPool(SplitTail(w), 1)
  /\ Finish(w)
  /\ UNCHANGED <<rxVars, txVars, drainVars>>

------------------------------------------------------------------------------
(* wan_drain_finish_slot, run by the primary worker between two packets when *)
(* the drain of a removed WAN expires: empty every worker's ring towards it, *)
(* one pop at a time, then detach XDP and mark it stopped.                   *)
FlushStart(i) == /\ i \in Removable /\ ~stopped[i]
                 /\ flushWan = None /\ pc[Primary] = "idle"
                 /\ flushWan' = i /\ flushWorker' = 0
                 /\ UNCHANGED <<held, rxVars, txVars, workerVars, stopped>>

FlushPop == /\ flushWan # None
            /\ Count(MidTo(flushWan, flushWorker)) > 0
            /\ ToPool(MidTo(flushWan, flushWorker), 1)
            /\ UNCHANGED <<rxVars, txVars, workerVars, drainVars>>

MoreWorkers == flushWorker + 1 < NumWorkers

FlushNext == /\ flushWan # None
             /\ Count(MidTo(flushWan, flushWorker)) = 0
             /\ IF MoreWorkers
                THEN flushWorker' = flushWorker + 1 /\ UNCHANGED <<flushWan, stopped>>
                ELSE /\ stopped' = [stopped EXCEPT ![flushWan] = TRUE]
                     /\ flushWan' = None /\ flushWorker' = 0
             /\ UNCHANGED <<held, rxVars, txVars, workerVars>>

------------------------------------------------------------------------------
RxThread(q) == \/ RefillFq(q) \/ Recv(q) \/ Release(q) \/ DispatchDrop(q)
               \/ \E w \in Workers : Dispatch(q, w)
Nic(q)      == NicReceive(q) \/ NicTransmit(q)
TxThread(q) == \/ DrainCq(q) \/ TxPop(q) \/ TxSubmit(q)
               \/ \E w \in Workers : TxStart(q, w)
Process(w)  == \/ Drop(w) \/ PushWan(w)
               \/ SplitAlloc(w) \/ SplitPushHead(w) \/ SplitPushTail(w)
               \/ \E i \in Wans : ChooseWan(w, i)
               \/ \E l \in Locals : PushLocal(w, l)
Worker(w)   == TakeLocal(w) \/ TakeWan(w) \/ Process(w)
Flush       == FlushPop \/ FlushNext \/ \E i \in Removable : FlushStart(i)

Next == \/ \E q \in Queues : RxThread(q) \/ Nic(q) \/ TxThread(q)
        \/ \E w \in Workers : Worker(w)
        \/ Flush

Spec == Init /\ [][Next]_vars

(* The scheduling the code relies on.  Each thread loops forever without      *)
(* blocking; a worker tries both of its rings, and a transmit thread its      *)
(* completions and every worker's ring, on each turn of its loop, so what is  *)
(* possible again and again is done.  The NIC sends what it is given.         *)
Fairness ==
  /\ \A q \in Queues : /\ WF_vars(RxThread(q))
                       /\ WF_vars(NicTransmit(q))
                       /\ SF_vars(DrainCq(q)) /\ WF_vars(TxPop(q)) /\ SF_vars(TxSubmit(q))
                       /\ \A w \in Workers : SF_vars(TxStart(q, w))
  /\ \A w \in Workers : SF_vars(TakeLocal(w)) /\ SF_vars(TakeWan(w)) /\ WF_vars(Process(w))
  /\ WF_vars(Flush)

FairSpec == Spec /\ Fairness

------------------------------------------------------------------------------
(* The frames and the threads' registers have their types. *)
TypeOK == /\ held \in [Places -> Seq(Frames)]
          /\ rxPc \in [Queues -> {"refill", "recv", "dispatch"}]
          /\ rxPending \in [Queues -> Nat]
          /\ txSrc \in [Queues -> Workers \cup {None}]
          /\ txWant \in [Queues -> Nat]
          /\ pc \in [Workers -> {"idle", "local", "wan", "chosen", "drop",
                                 "split_head", "split_tail"}]
          /\ dest \in [Workers -> Wans \cup {None}]
          /\ stopped \in [Wans -> BOOLEAN]
          /\ flushWan \in Wans \cup {None} /\ flushWorker \in Workers

(* A frame address is never in two hands: no double free, no packet written  *)
(* while it is also posted for reception or transmission.                    *)
SingleOwner == OneOwner(held)

(* Every frame stays in circulation: none leaks on an error path, and the    *)
(* overflow that pool_push drops never happens.                              *)
NoFrameLost == AllPresent(held)

(* What a thread holds follows from its step, so no path frees a packet it   *)
(* has already handed over, forgets the second half of a split, or goes back *)
(* to the head of its loop with packets in its local arrays.                 *)
RxHands == \A q \in Queues :
              rxPc[q] # "dispatch" => rxPending[q] = 0 /\ Count(RxBatch(q)) = 0
TxHands == \A q \in Queues :
              txSrc[q] = None => txWant[q] = 0 /\ Count(TxJobs(q)) = 0
HandMatches(w) ==
  /\ Count(Job(w)) = IF pc[w] \in {"idle", "split_tail"} THEN 0 ELSE 1
  /\ Count(SplitTail(w)) = IF pc[w] \in {"split_head", "split_tail"} THEN 1 ELSE 0
  /\ pc[w] \in {"chosen", "split_head", "split_tail"} => dest[w] \in Wans
WorkerHands == \A w \in Workers : HandMatches(w)
HandsMatchStep == RxHands /\ TxHands /\ WorkerHands

(* A worker that saw room can always push, both halves of a split included:  *)
(* a packet is never sent with one half missing because a ring filled up.    *)
RoomLeft(w) ==
  /\ pc[w] \in {"chosen", "split_head"} => Count(MidTo(dest[w], w)) + 2 <= RingCap
  /\ pc[w] = "split_tail" => Count(MidTo(dest[w], w)) < RingCap
RoomLasts == \A w \in Workers : RoomLeft(w)

(* The reserve calls on the fill and transmit rings never fail, the receive  *)
(* ring never holds more than its descriptors, and no ring overflows.        *)
RxRoom == \A q \in Queues : /\ Count(Fq(q)) <= XskCap
                            /\ Count(Rx(q)) + rxPending[q] <= XskCap
                            /\ Count(RxBatch(q)) <= rxPending[q]
TxRoom == \A q \in Queues : /\ Count(Tx(q)) + txWant[q] <= XskCap
                            /\ Count(TxJobs(q)) <= txWant[q]
                            /\ Count(Cq(q)) <= XskCap
MidRoom == \A w \in Workers : /\ Count(LocalToMid(w)) <= RingCap
                              /\ Count(WanToMid(w)) <= RingCap
                              /\ \A q \in Queues : Count(MidTo(q, w)) <= RingCap
ReserveNeverFails == RxRoom /\ TxRoom /\ MidRoom

(* A packet that left the receive ring always gives its frame back to the    *)
(* pool: it is transmitted or dropped, never parked for ever.                *)
At(f, p) == \E i \in DOMAIN held[p] : held[p][i] = f
InTransit(f) == \E p \in Places \ ({Pool} \cup UNION {{Fq(q), Rx(q)} : q \in Queues}) : At(f, p)
FramesReturn == \A f \in Frames : InTransit(f) ~> At(f, Pool)
==============================================================================
