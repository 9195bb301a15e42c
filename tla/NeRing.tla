------------------------------- MODULE NeRing --------------------------------
(***************************************************************************)
(* struct ne_ring (src/src/core/interface.c): the ring that every pair of  *)
(* dataplane threads is connected by.  One action per access to a shared   *)
(* word.  head and tail are free-running unsigned counters (uint32_t in    *)
(* the code, modulo Modulus here) and the slot is counter % Cap.  The      *)
(* acquire/release pairs of the code order each slot access with the       *)
(* counter that publishes it, so the steps are those of a sequentially     *)
(* consistent memory.                                                      *)
(***************************************************************************)
EXTENDS Naturals, Sequences

CONSTANTS Items, Producers, Consumers,
          Cap,        \* slots of buf
          Modulus,    \* 2^32 in the code
          SoleProducer, SoleConsumer,
          Reserve     \* NE_BATCH_SIZE, the room fwd_wan_has_tx_room asks for

ASSUME RingAssumption ==
  /\ Cap \in Nat \ {0} /\ Modulus \in Nat \ {0}
  /\ Cap < Modulus /\ Modulus % Cap = 0     \* powers of two in ne_ring_init
  /\ SoleProducer \in Producers /\ SoleConsumer \in Consumers
  /\ Producers \cap Consumers = {}
  /\ Reserve \in Nat

Threads == Producers \cup Consumers
Free == "free"          \* an unlocked spinlock
NoItem == "none"
ASSUME FreeAssumption == Free \notin Threads

VARIABLES mpscPop, \* r->mpsc_pop: pops take pop_lock
          head, tail, buf, pushLock, popLock,
          pc,     \* where each thread is in its call
          h, t,   \* each thread's copies of head and tail
          item,   \* the packet a thread pushes or has read
          sawRoom \* the push in progress follows a count that left Reserve slots

vars == <<mpscPop, head, tail, buf, pushLock, popLock, pc, h, t, item, sawRoom>>

Slot(n) == n % Cap
Dist(a, b) == (a + Modulus - b) % Modulus     \* (uint32_t)(a - b)

(* The two ways the dataplane uses a ring.  mid_to_wan, mid_to_local: one     *)
(* crypto worker pushes, several transmit threads pop under the lock.        *)
(* local_to_mid, wan_to_mid: several receive threads push, one worker pops.  *)
Pushers == IF mpscPop THEN {SoleProducer} ELSE Producers
Poppers == IF mpscPop THEN Consumers ELSE {SoleConsumer}

(* ne_ring_init *)
Init == /\ mpscPop \in BOOLEAN
        /\ head = 0 /\ tail = 0
        /\ buf = [s \in 0..Cap-1 |-> NoItem]
        /\ pushLock = Free /\ popLock = Free
        /\ pc = [x \in Threads |-> "idle"]
        /\ h = [x \in Threads |-> 0] /\ t = [x \in Threads |-> 0]
        /\ item = [x \in Threads |-> NoItem]
        /\ sawRoom = [p \in Producers |-> FALSE]

Goto(x, from, to) == pc[x] = from /\ pc' = [pc EXCEPT ![x] = to]
LoadHead(x) == h' = [h EXCEPT ![x] = head]
LoadTail(x) == t' = [t EXCEPT ![x] = tail]

------------------------------------------------------------------------------
(* ne_ring_try_push.  A caller may have counted first; it then goes on only *)
(* when it saw room (fwd_wan_has_tx_room, push_split_to_wan).               *)
Counted(p) == Dist(h[p], t[p])
SawRoomInclusive(p) == Counted(p) <= Cap                      \* mutant: no reserve
SawRoom(p) == Counted(p) + Reserve < Cap

PushLock(p, x) == /\ pc[p] = "idle" \/ (pc[p] = "counted" /\ SawRoom(p))
                  /\ pc' = [pc EXCEPT ![p] = "push_head"]
                  /\ sawRoom' = [sawRoom EXCEPT ![p] = (pc[p] = "counted")]
                  /\ pushLock = Free /\ pushLock' = p
                  /\ item' = [item EXCEPT ![p] = x]
                  /\ UNCHANGED <<head, tail, buf, popLock, h, t>>

PushLoadHead(p) == /\ Goto(p, "push_head", "push_tail")
                   /\ LoadHead(p)
                   /\ UNCHANGED <<head, tail, buf, pushLock, popLock, t, item, sawRoom>>

IsFullLate(p) == Dist(h[p], tail) > Cap     \* mutant: off by one
IsFull(p) == Dist(h[p], tail) >= Cap

PushLoadTail(p) == /\ Goto(p, "push_tail", IF IsFull(p) THEN "push_full" ELSE "push_write")
                   /\ LoadTail(p)
                   /\ UNCHANGED <<head, tail, buf, pushLock, popLock, h, item, sawRoom>>

PushWrite(p) == /\ Goto(p, "push_write", "push_store")
                /\ buf' = [buf EXCEPT ![Slot(h[p])] = item[p]]
                /\ UNCHANGED <<head, tail, pushLock, popLock, h, t, item, sawRoom>>

PushStore(p) == /\ Goto(p, "push_store", "push_done")
                /\ head' = (h[p] + 1) % Modulus
                /\ UNCHANGED <<tail, buf, pushLock, popLock, h, t, item, sawRoom>>

PushUnlock(p) == /\ pc[p] \in {"push_full", "push_done"}
                 /\ pc' = [pc EXCEPT ![p] = "idle"]
                 /\ pushLock' = Free
                 /\ item' = [item EXCEPT ![p] = NoItem]
                 /\ h' = [h EXCEPT ![p] = 0] /\ t' = [t EXCEPT ![p] = 0]
                 /\ sawRoom' = [sawRoom EXCEPT ![p] = FALSE]
                 /\ UNCHANGED <<head, tail, buf, popLock>>

------------------------------------------------------------------------------
(* Mutant: two poppers and no lock. *)
PopNoLock(c) == /\ Goto(c, "idle", "pop_tail")
                /\ UNCHANGED <<head, tail, buf, pushLock, popLock, h, t, item, sawRoom>>

(* ne_ring_try_pop *)
PopLock(c) == /\ Goto(c, "idle", "pop_tail")
              /\ IF mpscPop THEN popLock = Free /\ popLock' = c ELSE UNCHANGED popLock
              /\ UNCHANGED <<head, tail, buf, pushLock, h, t, item, sawRoom>>

PopLoadTail(c) == /\ Goto(c, "pop_tail", "pop_head")
                  /\ LoadTail(c)
                  /\ UNCHANGED <<head, tail, buf, pushLock, popLock, h, item, sawRoom>>

IsEmpty(c) == t[c] = head

PopLoadHead(c) == /\ Goto(c, "pop_head", IF IsEmpty(c) THEN "pop_empty" ELSE "pop_read")
                  /\ LoadHead(c)
                  /\ UNCHANGED <<head, tail, buf, pushLock, popLock, t, item, sawRoom>>

PopRead(c) == /\ Goto(c, "pop_read", "pop_store")
              /\ item' = [item EXCEPT ![c] = buf[Slot(t[c])]]
              /\ UNCHANGED <<head, tail, buf, pushLock, popLock, h, t, sawRoom>>

PopStore(c) == /\ Goto(c, "pop_store", "pop_done")
               /\ tail' = (t[c] + 1) % Modulus
               /\ UNCHANGED <<head, buf, pushLock, popLock, h, t, item, sawRoom>>

PopUnlock(c) == /\ pc[c] \in {"pop_empty", "pop_done"}
                /\ pc' = [pc EXCEPT ![c] = "idle"]
                /\ popLock' = IF mpscPop THEN Free ELSE popLock
                /\ item' = [item EXCEPT ![c] = NoItem]
                /\ h' = [h EXCEPT ![c] = 0] /\ t' = [t EXCEPT ![c] = 0]
                /\ UNCHANGED <<head, tail, buf, pushLock, sawRoom>>

------------------------------------------------------------------------------
(* ne_ring_count, called without a lock by the thread that pushes          *)
(* (fwd_wan_has_tx_room, push_split_to_wan): two separate loads.           *)
CountLoadHead(p) == /\ mpscPop /\ Goto(p, "idle", "count_tail")
                    /\ LoadHead(p)
                    /\ UNCHANGED <<head, tail, buf, pushLock, popLock, t, item, sawRoom>>

CountLoadTail(p) == /\ Goto(p, "count_tail", "counted")
                    /\ LoadTail(p)
                    /\ UNCHANGED <<head, tail, buf, pushLock, popLock, h, item, sawRoom>>

(* The caller gives the packet up instead of pushing it. *)
CountDrop(p) == /\ Goto(p, "counted", "idle")
                /\ h' = [h EXCEPT ![p] = 0] /\ t' = [t EXCEPT ![p] = 0]
                /\ UNCHANGED <<head, tail, buf, pushLock, popLock, item, sawRoom>>

------------------------------------------------------------------------------
Producer(p) == \/ \E x \in Items : PushLock(p, x)
               \/ PushLoadHead(p) \/ PushLoadTail(p) \/ PushWrite(p)
               \/ PushStore(p) \/ PushUnlock(p)
               \/ CountLoadHead(p) \/ CountLoadTail(p) \/ CountDrop(p)
Consumer(c) == \/ PopLock(c) \/ PopLoadTail(c) \/ PopLoadHead(c)
               \/ PopRead(c) \/ PopStore(c) \/ PopUnlock(c)

Next == /\ (\E p \in Pushers : Producer(p)) \/ (\E c \in Poppers : Consumer(c))
        /\ UNCHANGED mpscPop
Spec == Init /\ [][Next]_vars

------------------------------------------------------------------------------
PcSet == {"idle", "push_head", "push_tail", "push_full", "push_write", "push_store",
          "push_done", "pop_tail", "pop_head", "pop_empty", "pop_read", "pop_store",
          "pop_done", "count_tail", "counted"}

(* The ring's words and the threads' registers have their types. *)
TypeOK == /\ mpscPop \in BOOLEAN
          /\ head \in 0..Modulus-1 /\ tail \in 0..Modulus-1
          /\ buf \in [0..Cap-1 -> Items \cup {NoItem}]
          /\ pushLock \in Producers \cup {Free} /\ popLock \in Consumers \cup {Free}
          /\ pc \in [Threads -> PcSet]
          /\ h \in [Threads -> 0..Modulus-1] /\ t \in [Threads -> 0..Modulus-1]
          /\ item \in [Threads -> Items \cup {NoItem}]
          /\ sawRoom \in [Producers -> BOOLEAN]

(* What is queued: the slots between tail and head. *)
Queued == [i \in 1..Dist(head, tail) |-> buf[Slot(tail + i - 1)]]

(* The outcome a caller of ne_ring_try_push / ne_ring_try_pop is about to get. *)
Outcome(x) == CASE pc[x] \in {"push_full", "pop_empty"} -> [kind |-> "refused"]
                [] pc[x] = "push_done" -> [kind |-> "ok"]
                [] pc[x] = "pop_done"  -> [kind |-> "popped", item |-> item[x]]
                [] OTHER               -> [kind |-> "none"]

Fifo == INSTANCE BoundedFifo WITH fifo <- Queued, ret <- [x \in Threads |-> Outcome(x)]

(* Every push and pop takes effect at one instant: the store of head or of   *)
(* tail, or the load that finds the ring full or empty.  No packet is lost,  *)
(* duplicated or overtaken, whatever the counters' wrap-around.              *)
IsFifo == Fifo!Spec

(* A sole producer that counted and saw room is never refused afterwards, *)
(* however long it waits between the count and the push.                  *)
RoomHonoured == \A p \in Producers : sawRoom[p] => pc[p] # "push_full"
==============================================================================
