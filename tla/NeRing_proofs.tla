---------------------------- MODULE NeRing_proofs ----------------------------
(***************************************************************************)
(* Proofs about the ring, for any capacity, any width of the counters that *)
(* is a multiple of it, and any number of threads: it implements a bounded *)
(* FIFO queue, and the room a sole producer saw lasts.                     *)
(***************************************************************************)
EXTENDS NeRing, Integers, SequenceTheorems, TLAPS

(* The inductive invariant.  Threads keep to their side of the ring, and at  *)
(* most one of each side is in its call.                                     *)
Pushing(p) == pc[p] \in {"push_head", "push_tail", "push_full", "push_write", "push_store",
                         "push_done"}
Popping(c) == pc[c] \in {"pop_tail", "pop_head", "pop_empty", "pop_read", "pop_store",
                         "pop_done"}
Counting(p) == pc[p] \in {"count_tail", "counted"}
Sides ==
  /\ \A p \in Producers : /\ ~Popping(p)
                          /\ Counting(p) => p = SoleProducer /\ mpscPop
                          /\ Pushing(p) /\ mpscPop => p = SoleProducer
  /\ \A c \in Consumers : /\ ~Pushing(c) /\ ~Counting(c)
                          /\ Popping(c) /\ ~mpscPop => c = SoleConsumer
Locks ==
  /\ \A p \in Producers : Pushing(p) => pushLock = p
  /\ \A c \in Consumers : Popping(c) /\ mpscPop => popLock = c

(* What a thread has read of a counter is still true of the one its side     *)
(* moves, and on the safe side of the other.                                 *)
Used == Dist(head, tail)
PushCounters == \A p \in Producers :
  /\ pc[p] \in {"push_tail", "push_full", "push_write", "push_store"} => h[p] = head
  /\ pc[p] \in {"push_write", "push_store"} => Used < Cap
PopCounters == \A c \in Consumers :
  /\ pc[c] \in {"pop_head", "pop_read", "pop_store"} => t[c] = tail
  /\ pc[c] \in {"pop_read", "pop_store"} => head # tail
CountCounters == \A p \in Producers :
  /\ Counting(p) => h[p] = head
  /\ pc[p] = "counted" => Used <= Dist(h[p], t[p])
  /\ sawRoom[p] => /\ Pushing(p) /\ pc[p] # "push_full"
                   /\ pc[p] # "push_done" => Used < Cap
Counters == Used <= Cap /\ PushCounters /\ PopCounters /\ CountCounters

(* A slot is written before its head is stored, read before its tail is. *)
Contents ==
  /\ \A p \in Producers : /\ Pushing(p) => item[p] \in Items
                          /\ pc[p] = "push_store" => buf[Slot(head)] = item[p]
  /\ \A c \in Consumers : pc[c] = "pop_store" => item[c] = buf[Slot(tail)]

IInv == TypeOK /\ Sides /\ Locks /\ Counters /\ Contents

------------------------------------------------------------------------------
(* Counters modulo Modulus, slots modulo Cap. *)

LEMMA ModSmall == ASSUME NEW n \in Nat \ {0}, NEW x \in 0..n-1
                  PROVE  x % n = x /\ (x + n) % n = x
<1>1. x % n = x OBVIOUS
<1>2. (x + n) % n = x OBVIOUS
<1> QED BY <1>1, <1>2

LEMMA DistIs == ASSUME NEW a \in 0..Modulus-1, NEW b \in 0..Modulus-1
                PROVE  Dist(a, b) = IF b <= a THEN a - b ELSE a + Modulus - b
<1>1. CASE b <= a
  <2>1. (a - b) \in 0..Modulus-1 BY <1>1, RingAssumption
  <2>2. ((a - b) + Modulus) % Modulus = a - b BY <2>1, RingAssumption, ModSmall
  <2>3. a + Modulus - b = (a - b) + Modulus BY RingAssumption
  <2> QED BY <1>1, <2>2, <2>3 DEF Dist
<1>2. CASE ~(b <= a)
  <2>1. a + Modulus - b \in 0..Modulus-1 BY <1>2, RingAssumption
  <2> QED BY <1>2, <2>1, RingAssumption, ModSmall DEF Dist
<1> QED BY <1>1, <1>2

LEMMA NextIs == ASSUME NEW a \in 0..Modulus-1
                PROVE  (a + 1) % Modulus = IF a + 1 = Modulus THEN 0 ELSE a + 1
<1>1. CASE a + 1 = Modulus
  BY <1>1, RingAssumption, ModSmall
<1>2. CASE a + 1 # Modulus
  <2>1. a + 1 \in 0..Modulus-1 BY <1>2, RingAssumption
  <2> QED BY <1>2, <2>1, RingAssumption, ModSmall
<1> QED BY <1>1, <1>2

LEMMA DistFacts ==
  ASSUME NEW a \in 0..Modulus-1, NEW b \in 0..Modulus-1
  PROVE  /\ Dist(a, b) \in 0..Modulus-1
         /\ Dist(a, b) = 0 <=> a = b
         /\ (a + 1) % Modulus \in 0..Modulus-1
         /\ a # b => Dist(a, (b + 1) % Modulus) = Dist(a, b) - 1
         /\ Dist(a, b) < Modulus - 1 => Dist((a + 1) % Modulus, b) = Dist(a, b) + 1
<1> DEFINE na == (a + 1) % Modulus
           nb == (b + 1) % Modulus
<1>1. na = (IF a + 1 = Modulus THEN 0 ELSE a + 1) /\ nb = (IF b + 1 = Modulus THEN 0 ELSE b + 1)
  BY NextIs
<1>2. na \in 0..Modulus-1 /\ nb \in 0..Modulus-1 BY <1>1, RingAssumption
<1>3. Dist(a, b) = IF b <= a THEN a - b ELSE a + Modulus - b BY DistIs
<1>4. Dist(a, nb) = IF nb <= a THEN a - nb ELSE a + Modulus - nb BY DistIs, <1>2
<1>5. Dist(na, b) = IF b <= na THEN na - b ELSE na + Modulus - b BY DistIs, <1>2
<1> HIDE DEF na, nb
<1>6. a # b => Dist(a, nb) = Dist(a, b) - 1
  BY <1>1, <1>3, <1>4, RingAssumption
<1>7. Dist(a, b) < Modulus - 1 => Dist(na, b) = Dist(a, b) + 1
  BY <1>1, <1>3, <1>5, RingAssumption
<1>8. Dist(a, b) \in 0..Modulus-1 /\ (Dist(a, b) = 0 <=> a = b)
  BY <1>3, RingAssumption
<1> QED BY <1>2, <1>6, <1>7, <1>8 DEF na, nb

LEMMA Division == ASSUME NEW n \in Nat \ {0}, NEW x \in Nat
                  PROVE  x = (x \div n) * n + (x % n) /\ x \div n \in Nat /\ x % n \in 0..n-1
<1>1. x = (x \div n) * n + (x % n) BY SMTT(60)
<1>2. x \div n \in Nat OBVIOUS
<1>3. x % n \in 0..n-1 OBVIOUS
<1> QED BY <1>1, <1>2, <1>3

LEMMA Unique == ASSUME NEW n \in Nat \ {0}, NEW q \in Nat, NEW d \in Nat,
                       NEW r \in 0..n-1, NEW e \in 0..n-1, n * q + r = n * d + e
                PROVE  q = d /\ r = e
  OBVIOUS

LEMMA Remainder == ASSUME NEW n \in Nat \ {0}, NEW q \in Nat, NEW r \in 0..n-1
                   PROVE  (q * n + r) % n = r
<1> DEFINE x == q * n + r
<1>1. x \in Nat OBVIOUS
<1>2. x = (x \div n) * n + (x % n) /\ x \div n \in Nat /\ x % n \in 0..n-1
  BY <1>1, Division
<1> HIDE DEF x
<1>3. PICK d \in Nat, e \in 0..n-1 : d = x \div n /\ e = x % n /\ q * n + r = d * n + e
  BY <1>2 DEF x
<1>4. n * q + r = n * d + e BY <1>3
<1>5. e = r BY <1>4, Unique
<1> QED BY <1>3, <1>5 DEF x

(* The slot of a counter does not change when it wraps around. *)
LEMMA SlotWraps == ASSUME NEW x \in Nat PROVE Slot(x + Modulus) = Slot(x)
<1>1. PICK k \in Nat : Modulus = k * Cap
  BY RingAssumption, Division
<1>2. PICK q \in Nat, r \in 0..Cap-1 : x = q * Cap + r /\ r = x % Cap
  BY RingAssumption, Division
<1>3. x + Modulus = (q + k) * Cap + r BY <1>1, <1>2, RingAssumption
<1>4. ((q + k) * Cap + r) % Cap = r BY Remainder, RingAssumption
<1> QED BY <1>2, <1>3, <1>4 DEF Slot

(* Slots less than Cap apart differ. *)
LEMMA SlotsDiffer == ASSUME NEW x \in Nat, NEW d \in 1..Cap-1 PROVE Slot(x + d) # Slot(x)
<1> SUFFICES ASSUME Slot(x + d) = Slot(x) PROVE FALSE OBVIOUS
<1>1. PICK q \in Nat, r \in 0..Cap-1 : x = q * Cap + r /\ r = x % Cap
  BY RingAssumption, Division
<1>2. PICK m \in Nat : x + d = m * Cap + r
  <2>1. x + d \in Nat /\ Cap \in Nat \ {0} BY RingAssumption
  <2>2. (x + d) % Cap = r BY <1>1 DEF Slot
  <2> QED BY <2>1, <2>2, Division
<1>3. d = (m - q) * Cap BY <1>1, <1>2, RingAssumption
<1>4. m - q \in Int /\ (m - q >= 1 => (m - q) * Cap >= Cap) /\ (m - q <= 0 => (m - q) * Cap <= 0)
  BY RingAssumption
<1> QED BY <1>3, <1>4, RingAssumption

------------------------------------------------------------------------------
LEMMA RoleFacts ==
  /\ Pushers \subseteq Producers /\ \A p \in Pushers : mpscPop => p = SoleProducer
  /\ Poppers \subseteq Consumers /\ \A c \in Poppers : ~mpscPop => c = SoleConsumer
  /\ Producers \subseteq Threads /\ Consumers \subseteq Threads
  /\ Producers \cap Consumers = {} /\ Free \notin Producers /\ Free \notin Consumers
  BY RingAssumption, FreeAssumption DEF Pushers, Poppers, Threads

LEMMA UsedFacts == TypeOK => Used \in Nat
<1> SUFFICES ASSUME TypeOK PROVE Used \in Nat OBVIOUS
<1>1. Dist(head, tail) \in 0..Modulus-1 BY DistFacts DEF TypeOK
<1> QED BY <1>1, RingAssumption DEF Used

(* The slot to be written next is none of those in use. *)
LEMMA HeadSlot ==
  ASSUME TypeOK
  PROVE  /\ Slot(head) = Slot(tail + Used)
         /\ Used < Cap => \A i \in 0..Used-1 : Slot(tail + i) # Slot(head)
<1>1. tail \in Nat /\ head \in Nat /\ Used \in Nat BY UsedFacts, RingAssumption DEF TypeOK
<1>2. Used = IF tail <= head THEN head - tail ELSE head + Modulus - tail
  BY DistIs DEF TypeOK, Used
<1>3. tail + Used = head \/ tail + Used = head + Modulus
  BY <1>1, <1>2, RingAssumption
<1>4. Slot(head) = Slot(tail + Used) BY <1>1, <1>3, SlotWraps
<1>5. ASSUME Used < Cap, NEW i \in 0..Used-1 PROVE Slot(tail + i) # Slot(head)
  <2>1. Used - i \in 1..Cap-1 /\ tail + i \in Nat /\ (tail + i) + (Used - i) = tail + Used
    BY <1>1, <1>5, RingAssumption
  <2>2. Slot((tail + i) + (Used - i)) # Slot(tail + i) BY <2>1, SlotsDiffer
  <2> QED BY <1>4, <2>1, <2>2
<1> QED BY <1>4, <1>5

LEMMA InitIInv == Init => IInv
<1> SUFFICES ASSUME Init PROVE IInv OBVIOUS
<1>1. TypeOK BY RingAssumption DEF Init, TypeOK, PcSet
<1>2. \A x \in Threads : pc[x] = "idle" BY DEF Init
<1>3. Sides /\ Locks BY <1>2, RoleFacts DEF Sides, Locks, Pushing, Popping, Counting
<1>4. Used = 0 BY <1>1, DistFacts DEF Init, Used, TypeOK
<1>5. Counters
  BY <1>2, <1>4, RoleFacts, RingAssumption
     DEF Counters, PushCounters, PopCounters, CountCounters, Pushing, Counting, Init
<1>6. Contents BY <1>2, RoleFacts DEF Contents, Pushing
<1> QED BY <1>1, <1>3, <1>5, <1>6 DEF IInv

(* Type correctness. *)
LEMMA TypeKept == TypeOK /\ [Next]_vars => TypeOK'
<1> SUFFICES ASSUME TypeOK PROVE [Next]_vars => TypeOK' OBVIOUS
<1> USE DEF Goto, LoadHead, LoadTail
<1>1. ASSUME NEW p \in Producers, Producer(p), UNCHANGED mpscPop PROVE TypeOK'
  <2> USE RoleFacts DEF TypeOK, PcSet
  <2>1. ASSUME NEW x \in Items, PushLock(p, x) PROVE TypeOK'
    BY <1>1, <2>1 DEF PushLock
  <2>2. PushLoadHead(p) => TypeOK'
    BY <1>1 DEF PushLoadHead
  <2>8. PushLoadTail(p) => TypeOK'
    BY <1>1 DEF PushLoadTail
  <2>3. PushWrite(p) => TypeOK'
    BY <1>1 DEF PushWrite
  <2>4. ASSUME PushStore(p) PROVE TypeOK'
    <3>1. h[p] \in 0..Modulus-1 OBVIOUS
    <3>2. (h[p] + 1) % Modulus \in 0..Modulus-1 BY <3>1, DistFacts
    <3> QED BY <1>1, <2>4, <3>2 DEF PushStore
  <2>5. PushUnlock(p) => TypeOK'
    BY <1>1, RingAssumption DEF PushUnlock
  <2>6. CountLoadHead(p) => TypeOK'
    BY <1>1 DEF CountLoadHead
  <2>9. CountLoadTail(p) => TypeOK'
    BY <1>1 DEF CountLoadTail
  <2>7. CountDrop(p) => TypeOK'
    BY <1>1, RingAssumption DEF CountDrop
  <2> QED BY <1>1, <2>1, <2>2, <2>3, <2>4, <2>5, <2>6, <2>7, <2>8, <2>9 DEF Producer
<1>2. ASSUME NEW c \in Consumers, Consumer(c), UNCHANGED mpscPop PROVE TypeOK'
  <2> USE RoleFacts DEF TypeOK, PcSet
  <2>1. PopLock(c) => TypeOK'
    BY <1>2 DEF PopLock
  <2>2. PopLoadTail(c) => TypeOK'
    BY <1>2 DEF PopLoadTail
  <2>8. PopLoadHead(c) => TypeOK'
    BY <1>2 DEF PopLoadHead
  <2>3. ASSUME PopRead(c) PROVE TypeOK'
    <3>1. t[c] \in Nat /\ Cap \in Nat \ {0} BY RingAssumption
    <3>2. Slot(t[c]) \in 0..Cap-1 BY <3>1, Division DEF Slot
    <3> QED BY <1>2, <2>3, <3>2 DEF PopRead
  <2>4. ASSUME PopStore(c) PROVE TypeOK'
    <3>1. t[c] \in 0..Modulus-1 OBVIOUS
    <3>2. (t[c] + 1) % Modulus \in 0..Modulus-1 BY <3>1, DistFacts
    <3> QED BY <1>2, <2>4, <3>2 DEF PopStore
  <2>5. PopUnlock(c) => TypeOK'
    BY <1>2, RingAssumption DEF PopUnlock
  <2> QED BY <1>2, <2>1, <2>2, <2>3, <2>4, <2>5, <2>8 DEF Consumer
<1>3. UNCHANGED vars => TypeOK' BY DEF TypeOK, vars
<1> QED BY <1>1, <1>2, <1>3, RoleFacts DEF Next

LEMMA PushLockKeeps ==
  ASSUME IInv, TypeOK', NEW p \in Pushers, NEW x \in Items, PushLock(p, x), UNCHANGED mpscPop
  PROVE  IInv'
<1> USE RoleFacts, UsedFacts DEF IInv
<1>1. Sides' /\ Locks'
  BY DEF PushLock, Goto, TypeOK, Sides, Locks, Pushing, Popping, Counting
<1>2. Used' = Used
  BY DEF PushLock, Used
<1>3. pc[p] = "counted" => Used < Cap
  <2> SUFFICES ASSUME pc[p] = "counted" PROVE Used < Cap OBVIOUS
  <2>1. SawRoom(p) BY DEF PushLock
  <2>2. Used <= Dist(h[p], t[p]) BY DEF Counters, CountCounters
  <2>3. Dist(h[p], t[p]) \in 0..Modulus-1 BY DistFacts DEF TypeOK
  <2> QED BY <2>1, <2>2, <2>3, RingAssumption DEF SawRoom, Counted
<1>4. PushCounters'
  BY <1>2 DEF PushLock, Goto, LoadHead, LoadTail, TypeOK, Sides, Locks, Counters, PushCounters, Pushing, Used
<1>5. PopCounters'
  BY <1>2 DEF PushLock, Goto, LoadHead, LoadTail, TypeOK, Sides, Locks, Counters, PopCounters, Popping
<1>6. CountCounters'
  BY <1>2, <1>3 DEF PushLock, Goto, LoadHead, LoadTail, TypeOK, Sides, Locks, Counters, PushCounters, CountCounters, Pushing, Counting, Used
<1>7. Counters'
  BY <1>2, <1>4, <1>5, <1>6, RingAssumption DEF Counters
<1>8. Contents'
  BY DEF PushLock, Goto, TypeOK, Sides, Locks, Counters, PushCounters, PopCounters, Contents, Pushing, Popping
<1> QED BY <1>1, <1>7, <1>8

LEMMA PushLoadHeadKeeps ==
  ASSUME IInv, TypeOK', NEW p \in Pushers, PushLoadHead(p), UNCHANGED mpscPop
  PROVE  IInv'
<1> USE RoleFacts, UsedFacts DEF IInv
<1>1. Sides' /\ Locks'
  BY DEF PushLoadHead, Goto, TypeOK, Sides, Locks, Pushing, Popping, Counting
<1>2. Used' = Used
  BY DEF PushLoadHead, Used
<1>4. PushCounters'
  BY <1>2 DEF PushLoadHead, Goto, LoadHead, LoadTail, TypeOK, Sides, Locks, Counters, PushCounters, Pushing, Used
<1>5. PopCounters'
  BY <1>2 DEF PushLoadHead, Goto, LoadHead, LoadTail, TypeOK, Sides, Locks, Counters, PopCounters, Popping
<1>6. CountCounters'
  BY <1>2 DEF PushLoadHead, Goto, LoadHead, LoadTail, TypeOK, Sides, Locks, Counters, PushCounters, CountCounters, Pushing, Counting, Used
<1>7. Counters'
  BY <1>2, <1>4, <1>5, <1>6, RingAssumption DEF Counters
<1>8. Contents'
  BY DEF PushLoadHead, Goto, TypeOK, Sides, Locks, Counters, PushCounters, PopCounters, Contents, Pushing, Popping
<1> QED BY <1>1, <1>7, <1>8

LEMMA PushLoadTailKeeps ==
  ASSUME IInv, TypeOK', NEW p \in Pushers, PushLoadTail(p), UNCHANGED mpscPop
  PROVE  IInv'
<1> USE RoleFacts, UsedFacts DEF IInv
<1>1. Sides' /\ Locks'
  BY DEF PushLoadTail, Goto, TypeOK, Sides, Locks, Pushing, Popping, Counting
<1>2. Used' = Used
  BY DEF PushLoadTail, Used
<1>3. pc' = [pc EXCEPT ![p] = IF Used >= Cap THEN "push_full" ELSE "push_write"] /\ h[p] = head
  BY DEF PushLoadTail, IsFull, Goto, Used, Counters, PushCounters
<1>4. PushCounters'
  BY SMTT(30), <1>2, <1>3, RingAssumption DEF PushLoadTail, Goto, LoadHead, LoadTail, TypeOK, Sides, Locks, Counters, PushCounters, Pushing, Used
<1>5. PopCounters'
  BY <1>2 DEF PushLoadTail, Goto, LoadHead, LoadTail, TypeOK, Sides, Locks, Counters, PopCounters, Popping
<1>6. CountCounters'
  BY <1>2, <1>3, RingAssumption DEF PushLoadTail, Goto, LoadHead, LoadTail, TypeOK, Sides, Locks, Counters, PushCounters, CountCounters, Pushing, Counting, Used
<1>7. Counters'
  BY <1>2, <1>4, <1>5, <1>6, RingAssumption DEF Counters
<1>8. Contents'
  BY DEF PushLoadTail, Goto, TypeOK, Sides, Locks, Counters, PushCounters, PopCounters, Contents, Pushing, Popping
<1> QED BY <1>1, <1>7, <1>8

LEMMA PushWriteKeeps ==
  ASSUME IInv, TypeOK', NEW p \in Pushers, PushWrite(p), UNCHANGED mpscPop
  PROVE  IInv'
<1> USE RoleFacts, UsedFacts DEF IInv
<1>1. Sides' /\ Locks'
  BY DEF PushWrite, Goto, TypeOK, Sides, Locks, Pushing, Popping, Counting
<1>2. Used' = Used
  BY DEF PushWrite, Used
<1>4. PushCounters'
  BY <1>2 DEF PushWrite, Goto, LoadHead, LoadTail, TypeOK, Sides, Locks, Counters, PushCounters, Pushing, Used
<1>5. PopCounters'
  BY <1>2 DEF PushWrite, Goto, LoadHead, LoadTail, TypeOK, Sides, Locks, Counters, PopCounters, Popping
<1>6. CountCounters'
  BY <1>2 DEF PushWrite, Goto, LoadHead, LoadTail, TypeOK, Sides, Locks, Counters, PushCounters, CountCounters, Pushing, Counting, Used
<1>7. Counters'
  BY <1>2, <1>4, <1>5, <1>6, RingAssumption DEF Counters
<1>8. h[p] = head /\ Used < Cap BY DEF PushWrite, Goto, Counters, PushCounters
<1>9. head # tail => Slot(tail) # Slot(head)
  <2> SUFFICES ASSUME head # tail PROVE Slot(tail) # Slot(head) OBVIOUS
  <2>1. Used # 0 BY DistFacts DEF Used, TypeOK
  <2>2. 0 \in 0..Used-1 BY <2>1
  <2>3. Slot(tail + 0) # Slot(head) BY <1>8, <2>2, HeadSlot
  <2>4. tail + 0 = tail BY RingAssumption DEF TypeOK
  <2> QED BY <2>3, <2>4
<1>10. Slot(head) \in 0..Cap-1
  <2>1. head \in Nat /\ Cap \in Nat \ {0} BY RingAssumption DEF TypeOK
  <2> QED BY <2>1, Division DEF Slot
<1>11. Contents'
  BY <1>8, <1>9, <1>10 DEF PushWrite, Goto, TypeOK, Sides, Locks, Counters, PushCounters, PopCounters, Contents, Pushing, Popping
<1> QED BY <1>1, <1>7, <1>11

LEMMA PushStoreKeeps ==
  ASSUME IInv, TypeOK', NEW p \in Pushers, PushStore(p), UNCHANGED mpscPop
  PROVE  IInv'
<1> USE RoleFacts, UsedFacts DEF IInv
<1>1. Sides' /\ Locks'
  BY DEF PushStore, Goto, TypeOK, Sides, Locks, Pushing, Popping, Counting
<1>2. Used < Cap /\ h[p] = head
  BY DEF PushStore, Goto, Counters, PushCounters
<1>3. Used' = Used + 1 /\ head' # tail'
  <2>1. head' = (head + 1) % Modulus /\ tail' = tail /\ Used < Modulus - 1
    BY <1>2, RingAssumption DEF PushStore
  <2>2. head \in 0..Modulus-1 /\ tail \in 0..Modulus-1 /\ head' \in 0..Modulus-1
    BY DEF TypeOK
  <2>3. Dist(head', tail') = Used + 1 BY <2>1, <2>2, DistFacts DEF Used
  <2>4. Used + 1 # 0 OBVIOUS
  <2> QED BY <2>1, <2>2, <2>3, <2>4, DistFacts DEF Used
<1>4. PushCounters'
  BY <1>2, <1>3 DEF PushStore, Goto, LoadHead, LoadTail, TypeOK, Sides, Locks, Counters, PushCounters, Pushing, Used
<1>5. PopCounters'
  BY <1>2, <1>3 DEF PushStore, Goto, LoadHead, LoadTail, TypeOK, Sides, Locks, Counters, PopCounters, Popping
<1>6. CountCounters'
  BY <1>2, <1>3 DEF PushStore, Goto, LoadHead, LoadTail, TypeOK, Sides, Locks, Counters, PushCounters, CountCounters, Pushing, Counting, Used
<1>7. Counters'
  BY <1>2, <1>3, <1>4, <1>5, <1>6, RingAssumption DEF Counters
<1>8. Contents'
  BY DEF PushStore, Goto, TypeOK, Sides, Locks, Counters, PushCounters, PopCounters, Contents, Pushing, Popping
<1> QED BY <1>1, <1>7, <1>8

LEMMA PushUnlockKeeps ==
  ASSUME IInv, TypeOK', NEW p \in Pushers, PushUnlock(p), UNCHANGED mpscPop
  PROVE  IInv'
<1> USE RoleFacts, UsedFacts DEF IInv
<1>1. Sides' /\ Locks'
  BY DEF PushUnlock, Goto, TypeOK, Sides, Locks, Pushing, Popping, Counting
<1>2. Used' = Used
  BY DEF PushUnlock, Used
<1>4. PushCounters'
  BY <1>2 DEF PushUnlock, Goto, LoadHead, LoadTail, TypeOK, Sides, Locks, Counters, PushCounters, Pushing, Used
<1>5. PopCounters'
  BY <1>2 DEF PushUnlock, Goto, LoadHead, LoadTail, TypeOK, Sides, Locks, Counters, PopCounters, Popping
<1>6. CountCounters'
  BY <1>2 DEF PushUnlock, Goto, LoadHead, LoadTail, TypeOK, Sides, Locks, Counters, PushCounters, CountCounters, Pushing, Counting, Used
<1>7. Counters'
  BY <1>2, <1>4, <1>5, <1>6, RingAssumption DEF Counters
<1>8. Contents'
  BY DEF PushUnlock, Goto, TypeOK, Sides, Locks, Counters, PushCounters, PopCounters, Contents, Pushing, Popping
<1> QED BY <1>1, <1>7, <1>8

LEMMA CountLoadHeadKeeps ==
  ASSUME IInv, TypeOK', NEW p \in Pushers, CountLoadHead(p), UNCHANGED mpscPop
  PROVE  IInv'
<1> USE RoleFacts, UsedFacts DEF IInv
<1>1. Sides' /\ Locks'
  BY DEF CountLoadHead, Goto, TypeOK, Sides, Locks, Pushing, Popping, Counting
<1>2. Used' = Used
  BY DEF CountLoadHead, Used
<1>4. PushCounters'
  BY <1>2 DEF CountLoadHead, Goto, LoadHead, LoadTail, TypeOK, Sides, Locks, Counters, PushCounters, Pushing, Used
<1>5. PopCounters'
  BY <1>2 DEF CountLoadHead, Goto, LoadHead, LoadTail, TypeOK, Sides, Locks, Counters, PopCounters, Popping
<1>6. CountCounters'
  BY <1>2 DEF CountLoadHead, Goto, LoadHead, LoadTail, TypeOK, Sides, Locks, Counters, PushCounters, CountCounters, Pushing, Counting, Used
<1>7. Counters'
  BY <1>2, <1>4, <1>5, <1>6, RingAssumption DEF Counters
<1>8. Contents'
  BY DEF CountLoadHead, Goto, TypeOK, Sides, Locks, Counters, PushCounters, PopCounters, Contents, Pushing, Popping
<1> QED BY <1>1, <1>7, <1>8

LEMMA CountLoadTailKeeps ==
  ASSUME IInv, TypeOK', NEW p \in Pushers, CountLoadTail(p), UNCHANGED mpscPop
  PROVE  IInv'
<1> USE RoleFacts, UsedFacts DEF IInv
<1>1. Sides' /\ Locks'
  BY DEF CountLoadTail, Goto, TypeOK, Sides, Locks, Pushing, Popping, Counting
<1>2. Used' = Used
  BY DEF CountLoadTail, Used
<1>4. PushCounters'
  BY <1>2 DEF CountLoadTail, Goto, LoadHead, LoadTail, TypeOK, Sides, Locks, Counters, PushCounters, Pushing, Used
<1>5. PopCounters'
  BY <1>2 DEF CountLoadTail, Goto, LoadHead, LoadTail, TypeOK, Sides, Locks, Counters, PopCounters, Popping
<1>6. CountCounters'
  BY <1>2 DEF CountLoadTail, Goto, LoadHead, LoadTail, TypeOK, Sides, Locks, Counters, PushCounters, CountCounters, Pushing, Counting, Used
<1>7. Counters'
  BY <1>2, <1>4, <1>5, <1>6, RingAssumption DEF Counters
<1>8. Contents'
  BY DEF CountLoadTail, Goto, TypeOK, Sides, Locks, Counters, PushCounters, PopCounters, Contents, Pushing, Popping
<1> QED BY <1>1, <1>7, <1>8

LEMMA CountDropKeeps ==
  ASSUME IInv, TypeOK', NEW p \in Pushers, CountDrop(p), UNCHANGED mpscPop
  PROVE  IInv'
<1> USE RoleFacts, UsedFacts DEF IInv
<1>1. Sides' /\ Locks'
  BY DEF CountDrop, Goto, TypeOK, Sides, Locks, Pushing, Popping, Counting
<1>2. Used' = Used
  BY DEF CountDrop, Used
<1>4. PushCounters'
  BY <1>2 DEF CountDrop, Goto, LoadHead, LoadTail, TypeOK, Sides, Locks, Counters, PushCounters, Pushing, Used
<1>5. PopCounters'
  BY <1>2 DEF CountDrop, Goto, LoadHead, LoadTail, TypeOK, Sides, Locks, Counters, PopCounters, Popping
<1>6. CountCounters'
  BY <1>2 DEF CountDrop, Goto, LoadHead, LoadTail, TypeOK, Sides, Locks, Counters, PushCounters, CountCounters, Pushing, Counting, Used
<1>7. Counters'
  BY <1>2, <1>4, <1>5, <1>6, RingAssumption DEF Counters
<1>8. Contents'
  BY DEF CountDrop, Goto, TypeOK, Sides, Locks, Counters, PushCounters, PopCounters, Contents, Pushing, Popping
<1> QED BY <1>1, <1>7, <1>8

LEMMA PopLockKeeps ==
  ASSUME IInv, TypeOK', NEW c \in Poppers, PopLock(c), UNCHANGED mpscPop
  PROVE  IInv'
<1> USE RoleFacts, UsedFacts DEF IInv
<1>1. Sides' /\ Locks'
  BY DEF PopLock, Goto, TypeOK, Sides, Locks, Pushing, Popping, Counting
<1>2. Used' = Used
  BY DEF PopLock, Used
<1>4. PushCounters'
  BY <1>2 DEF PopLock, Goto, LoadHead, LoadTail, TypeOK, Sides, Locks, Counters, PushCounters, Pushing, Used
<1>5. PopCounters'
  BY <1>2 DEF PopLock, Goto, LoadHead, LoadTail, TypeOK, Sides, Locks, Counters, PopCounters, Popping
<1>6. CountCounters'
  BY <1>2 DEF PopLock, Goto, LoadHead, LoadTail, TypeOK, Sides, Locks, Counters, PushCounters, CountCounters, Pushing, Counting, Used
<1>7. Counters'
  BY <1>2, <1>4, <1>5, <1>6, RingAssumption DEF Counters
<1>8. Contents'
  BY DEF PopLock, Goto, TypeOK, Sides, Locks, Counters, PushCounters, PopCounters, Contents, Pushing, Popping
<1> QED BY <1>1, <1>7, <1>8

LEMMA PopLoadTailKeeps ==
  ASSUME IInv, TypeOK', NEW c \in Poppers, PopLoadTail(c), UNCHANGED mpscPop
  PROVE  IInv'
<1> USE RoleFacts, UsedFacts DEF IInv
<1>1. Sides' /\ Locks'
  BY DEF PopLoadTail, Goto, TypeOK, Sides, Locks, Pushing, Popping, Counting
<1>2. Used' = Used
  BY DEF PopLoadTail, Used
<1>4. PushCounters'
  BY <1>2 DEF PopLoadTail, Goto, LoadHead, LoadTail, TypeOK, Sides, Locks, Counters, PushCounters, Pushing, Used
<1>5. PopCounters'
  BY <1>2 DEF PopLoadTail, Goto, LoadHead, LoadTail, TypeOK, Sides, Locks, Counters, PopCounters, Popping
<1>6. CountCounters'
  BY <1>2 DEF PopLoadTail, Goto, LoadHead, LoadTail, TypeOK, Sides, Locks, Counters, PushCounters, CountCounters, Pushing, Counting, Used
<1>7. Counters'
  BY <1>2, <1>4, <1>5, <1>6, RingAssumption DEF Counters
<1>8. Contents'
  BY DEF PopLoadTail, Goto, TypeOK, Sides, Locks, Counters, PushCounters, PopCounters, Contents, Pushing, Popping
<1> QED BY <1>1, <1>7, <1>8

LEMMA PopLoadHeadKeeps ==
  ASSUME IInv, TypeOK', NEW c \in Poppers, PopLoadHead(c), UNCHANGED mpscPop
  PROVE  IInv'
<1> USE RoleFacts, UsedFacts DEF IInv
<1>1. Sides' /\ Locks'
  BY DEF PopLoadHead, Goto, TypeOK, Sides, Locks, Pushing, Popping, Counting
<1>2. Used' = Used
  BY DEF PopLoadHead, Used
<1>4. PushCounters'
  BY <1>2 DEF PopLoadHead, Goto, LoadHead, LoadTail, TypeOK, Sides, Locks, Counters, PushCounters, Pushing, Used
<1>5. PopCounters'
  BY <1>2 DEF PopLoadHead, IsEmpty, Goto, LoadHead, LoadTail, TypeOK, Sides, Locks, Counters, PopCounters, Popping
<1>6. CountCounters'
  BY <1>2 DEF PopLoadHead, Goto, LoadHead, LoadTail, TypeOK, Sides, Locks, Counters, PushCounters, CountCounters, Pushing, Counting, Used
<1>7. Counters'
  BY <1>2, <1>4, <1>5, <1>6, RingAssumption DEF Counters
<1>8. Contents'
  BY DEF PopLoadHead, Goto, TypeOK, Sides, Locks, Counters, PushCounters, PopCounters, Contents, Pushing, Popping
<1> QED BY <1>1, <1>7, <1>8

LEMMA PopReadKeeps ==
  ASSUME IInv, TypeOK', NEW c \in Poppers, PopRead(c), UNCHANGED mpscPop
  PROVE  IInv'
<1> USE RoleFacts, UsedFacts DEF IInv
<1>1. Sides' /\ Locks'
  BY DEF PopRead, Goto, TypeOK, Sides, Locks, Pushing, Popping, Counting
<1>2. Used' = Used
  BY DEF PopRead, Used
<1>4. PushCounters'
  BY <1>2 DEF PopRead, Goto, LoadHead, LoadTail, TypeOK, Sides, Locks, Counters, PushCounters, Pushing, Used
<1>5. PopCounters'
  BY <1>2 DEF PopRead, Goto, LoadHead, LoadTail, TypeOK, Sides, Locks, Counters, PopCounters, Popping
<1>6. CountCounters'
  BY <1>2 DEF PopRead, Goto, LoadHead, LoadTail, TypeOK, Sides, Locks, Counters, PushCounters, CountCounters, Pushing, Counting, Used
<1>7. Counters'
  BY <1>2, <1>4, <1>5, <1>6, RingAssumption DEF Counters
<1>8. Contents'
  BY DEF PopRead, Goto, TypeOK, Sides, Locks, Counters, PushCounters, PopCounters, Contents, Pushing, Popping
<1> QED BY <1>1, <1>7, <1>8

LEMMA PopStoreKeeps ==
  ASSUME IInv, TypeOK', NEW c \in Poppers, PopStore(c), UNCHANGED mpscPop
  PROVE  IInv'
<1> USE RoleFacts, UsedFacts DEF IInv
<1>1. Sides' /\ Locks'
  BY DEF PopStore, Goto, TypeOK, Sides, Locks, Pushing, Popping, Counting
<1>2. head # tail /\ t[c] = tail
  BY DEF PopStore, Goto, Counters, PopCounters
<1>3. Used' = Used - 1 /\ Used' \in Nat
  BY <1>2, DistFacts DEF PopStore, TypeOK, Used
<1>4. PushCounters'
  BY SMTT(30), <1>2, <1>3, RingAssumption DEF PopStore, Goto, LoadHead, LoadTail, TypeOK, Sides, Locks, Counters, PushCounters, Pushing, Used
<1>5. PopCounters'
  BY <1>2, <1>3 DEF PopStore, Goto, LoadHead, LoadTail, TypeOK, Sides, Locks, Counters, PopCounters, Popping
<1>6. CountCounters'
  <2> SUFFICES ASSUME NEW p \in Producers
               PROVE  /\ Counting(p)' => h'[p] = head'
                      /\ pc'[p] = "counted" => Used' <= Dist(h'[p], t'[p])
                      /\ sawRoom'[p] => /\ Pushing(p)' /\ pc'[p] # "push_full"
                                        /\ pc'[p] # "push_done" => Used' < Cap
    BY DEF CountCounters, Dist, Counting, Pushing
  <2>1. pc'[p] = pc[p] /\ h' = h /\ t' = t /\ sawRoom' = sawRoom /\ head' = head
    BY DEF PopStore, Goto, TypeOK
  <2>2. Dist(h[p], t[p]) \in 0..Modulus-1
    <3>1. h[p] \in 0..Modulus-1 /\ t[p] \in 0..Modulus-1 BY DEF TypeOK
    <3> QED BY <3>1, DistFacts
  <2>3. pc[p] = "counted" => Used <= Dist(h[p], t[p])
    BY DEF Counters, CountCounters
  <2>4. Used' <= Used BY <1>3
  <2>5. pc[p] = "counted" => Used' <= Dist(h[p], t[p])
    BY <1>3, <2>2, <2>3, <2>4, RingAssumption
  <2>6. sawRoom[p] /\ pc[p] # "push_done" => Used' < Cap
    BY <1>3, <2>4, RingAssumption DEF Counters, CountCounters
  <2>7. sawRoom[p] => Pushing(p) /\ pc[p] # "push_full"
    BY DEF Counters, CountCounters
  <2>8. Counting(p) => h[p] = head
    BY DEF Counters, CountCounters
  <2> QED BY <2>1, <2>5, <2>6, <2>7, <2>8 DEF Counting, Pushing
<1>7. Counters'
  BY <1>2, <1>3, <1>4, <1>5, <1>6, RingAssumption DEF Counters
<1>8. Contents'
  BY DEF PopStore, Goto, TypeOK, Sides, Locks, Counters, PushCounters, PopCounters, Contents, Pushing, Popping
<1> QED BY <1>1, <1>7, <1>8

LEMMA PopUnlockKeeps ==
  ASSUME IInv, TypeOK', NEW c \in Poppers, PopUnlock(c), UNCHANGED mpscPop
  PROVE  IInv'
<1> USE RoleFacts, UsedFacts DEF IInv
<1>1. Sides' /\ Locks'
  BY DEF PopUnlock, Goto, TypeOK, Sides, Locks, Pushing, Popping, Counting
<1>2. Used' = Used
  BY DEF PopUnlock, Used
<1>4. PushCounters'
  BY <1>2 DEF PopUnlock, Goto, LoadHead, LoadTail, TypeOK, Sides, Locks, Counters, PushCounters, Pushing, Used
<1>5. PopCounters'
  BY <1>2 DEF PopUnlock, Goto, LoadHead, LoadTail, TypeOK, Sides, Locks, Counters, PopCounters, Popping
<1>6. CountCounters'
  BY <1>2 DEF PopUnlock, Goto, LoadHead, LoadTail, TypeOK, Sides, Locks, Counters, PushCounters, CountCounters, Pushing, Counting, Used
<1>7. Counters'
  BY <1>2, <1>4, <1>5, <1>6, RingAssumption DEF Counters
<1>8. Contents'
  BY DEF PopUnlock, Goto, TypeOK, Sides, Locks, Counters, PushCounters, PopCounters, Contents, Pushing, Popping
<1> QED BY <1>1, <1>7, <1>8

------------------------------------------------------------------------------
LEMMA NextKeeps == IInv /\ [Next]_vars => IInv'
<1> SUFFICES ASSUME IInv, [Next]_vars PROVE IInv' OBVIOUS
<1>1. TypeOK' BY TypeKept DEF IInv
<1>2. ASSUME NEW p \in Pushers, Producer(p), UNCHANGED mpscPop PROVE IInv'
  BY <1>1, <1>2, PushLockKeeps, PushLoadHeadKeeps, PushLoadTailKeeps, PushWriteKeeps, PushStoreKeeps,
     PushUnlockKeeps, CountLoadHeadKeeps, CountLoadTailKeeps, CountDropKeeps DEF Producer
<1>3. ASSUME NEW c \in Poppers, Consumer(c), UNCHANGED mpscPop PROVE IInv'
  BY <1>1, <1>3, PopLockKeeps, PopLoadTailKeeps, PopLoadHeadKeeps, PopReadKeeps, PopStoreKeeps, PopUnlockKeeps
     DEF Consumer
<1>4. CASE UNCHANGED vars
  <2>1. Sides' /\ Locks' /\ Contents'
    BY <1>4 DEF IInv, vars, Sides, Locks, Contents, Pushing, Popping, Counting
  <2>2. Used' = Used BY <1>4 DEF vars, Used
  <2>3. Counters'
    BY <1>4, <2>2 DEF IInv, vars, Counters, PushCounters, PopCounters, CountCounters, Pushing,
                      Counting, Dist
  <2> QED BY <1>1, <2>1, <2>3 DEF IInv
<1> QED BY <1>2, <1>3, <1>4 DEF Next

(* Sides, locks, counters and contents hold in every reachable state of the ring. *)
THEOREM Invariant == Spec => []IInv
<1>1. Init => IInv BY InitIInv
<1>2. IInv /\ [Next]_vars => IInv' BY NextKeeps
<1> QED BY <1>1, <1>2, PTL DEF Spec

(* The words of the ring and the threads' registers have their types. *)
THEOREM TypeCorrect == Spec => []TypeOK
<1>1. IInv => TypeOK BY DEF IInv
<1> QED BY <1>1, Invariant, PTL

(* The room a sole producer counted (fwd_wan_has_tx_room, push_split_to_wan) *)
(* is still there when ne_ring_try_push looks.                               *)
THEOREM RoomLasts == Spec => []RoomHonoured
<1>1. IInv => RoomHonoured BY DEF IInv, Counters, CountCounters, RoomHonoured
<1> QED BY <1>1, Invariant, PTL

------------------------------------------------------------------------------
(* The refinement: what is queued, and what each step does to it. *)

LEMMA QueuedIs ==
  ASSUME TypeOK
  PROVE  /\ Used \in Nat /\ DOMAIN Queued = 1..Used
         /\ Len(Queued) = Used
         /\ Queued \in Seq(Items \cup {NoItem})
         /\ Used > 0 => Head(Queued) = buf[Slot(tail)]
<1>1. Used \in Nat BY UsedFacts
<1>2. Queued = [i \in 1..Used |-> buf[Slot(tail + i - 1)]] BY DEF Queued, Used
<1>3. \A i \in 1..Used : buf[Slot(tail + i - 1)] \in Items \cup {NoItem}
  <2> SUFFICES ASSUME NEW i \in 1..Used PROVE buf[Slot(tail + i - 1)] \in Items \cup {NoItem}
    OBVIOUS
  <2>1. tail + i - 1 \in Nat BY <1>1, RingAssumption DEF TypeOK
  <2>2. Slot(tail + i - 1) \in 0..Cap-1 BY <2>1, Division, RingAssumption DEF Slot
  <2> QED BY <2>2 DEF TypeOK
<1>4. Queued \in [1..Used -> Items \cup {NoItem}] BY <1>2, <1>3
<1>5. Queued \in Seq(Items \cup {NoItem}) /\ Len(Queued) = Used BY <1>1, <1>4
<1>6. Used > 0 => Head(Queued) = buf[Slot(tail)]
  <2> SUFFICES ASSUME Used > 0 PROVE Head(Queued) = buf[Slot(tail)] OBVIOUS
  <2>1. Head(Queued) = Queued[1] BY <1>5
  <2>2. Queued[1] = buf[Slot(tail + 1 - 1)] BY <1>1, <1>2
  <2>3. tail + 1 - 1 = tail BY RingAssumption DEF TypeOK
  <2> QED BY <2>1, <2>2, <2>3
<1> QED BY <1>1, <1>2, <1>5, <1>6

(* The store of head appends the packet written before it. *)
LEMMA StoreAppends ==
  ASSUME IInv, TypeOK', NEW p \in Pushers, PushStore(p)
  PROVE  Used < Cap /\ item[p] \in Items /\ Queued' = Append(Queued, item[p])
<1> USE RoleFacts DEF IInv
<1>1. Used < Cap /\ h[p] = head /\ item[p] \in Items /\ buf[Slot(head)] = item[p]
  BY DEF PushStore, Goto, Counters, PushCounters, Contents, Pushing
<1>2. Used' = Used + 1
  <2>1. head' = (head + 1) % Modulus /\ tail' = tail /\ Used < Modulus - 1
    BY <1>1, UsedFacts, RingAssumption DEF PushStore
  <2>2. head \in 0..Modulus-1 /\ tail \in 0..Modulus-1 BY DEF TypeOK
  <2> QED BY <2>1, <2>2, DistFacts DEF Used
<1>3. buf' = buf /\ tail' = tail BY DEF PushStore
<1>4. Queued' = [i \in 1..Used + 1 |-> buf[Slot(tail + i - 1)]]
  BY <1>2, <1>3 DEF Queued, Used, Slot
<1>5. Append(Queued, item[p]) = [i \in 1..Used + 1 |-> IF i = Used + 1 THEN item[p] ELSE Queued[i]]
  BY QueuedIs
<1>6. \A i \in 1..Used : Queued[i] = buf[Slot(tail + i - 1)]
  BY DEF Queued, Used
<1>7. buf[Slot(tail + (Used + 1) - 1)] = item[p]
  <2>1. tail \in Nat BY RingAssumption DEF TypeOK
  <2>2. Used \in Nat BY UsedFacts
  <2>3. tail + (Used + 1) - 1 = tail + Used BY <2>1, <2>2
  <2>4. Slot(head) = Slot(tail + Used) BY HeadSlot
  <2> QED BY <1>1, <2>3, <2>4
<1>8. \A i \in 1..Used + 1 : i # Used + 1 => i \in 1..Used BY UsedFacts
<1> QED BY <1>1, <1>4, <1>5, <1>6, <1>7, <1>8

LEMMA TailIs ==
  ASSUME NEW S, NEW q \in Seq(S), Len(q) > 0
  PROVE  Tail(q) = [i \in 1..Len(q) - 1 |-> q[i + 1]]
<1>1. q # <<>> OBVIOUS
<1>2. /\ Tail(q) \in Seq(S) /\ Len(Tail(q)) = Len(q) - 1
      /\ \A i \in 1..Len(Tail(q)) : Tail(q)[i] = q[i + 1]
  BY <1>1, HeadTailProperties
<1>3. Tail(q) \in [1..Len(Tail(q)) -> S] BY <1>2, LenProperties
<1>4. Tail(q) = [i \in 1..Len(Tail(q)) |-> Tail(q)[i]] BY <1>3
<1> QED BY <1>2, <1>4

(* The store of tail removes the packet read before it. *)
LEMMA StoreRemoves ==
  ASSUME IInv, NEW c \in Poppers, PopStore(c)
  PROVE  Used > 0 /\ item[c] = Head(Queued) /\ Queued' = Tail(Queued)
<1> USE RoleFacts DEF IInv
<1>1. head # tail /\ t[c] = tail /\ item[c] = buf[Slot(tail)]
  BY DEF PopStore, Goto, Counters, PopCounters, Contents
<1>2. head \in 0..Modulus-1 /\ tail \in 0..Modulus-1 BY DEF TypeOK
<1>3. Used > 0 /\ Used \in Nat
  BY <1>1, <1>2, UsedFacts, DistFacts DEF Used
<1>4. head' = head /\ buf' = buf /\ tail' = (tail + 1) % Modulus
  BY <1>1 DEF PopStore
<1>5. Used' = Used - 1 BY <1>1, <1>2, <1>4, DistFacts DEF Used
<1>6. Queued' = [i \in 1..Used - 1 |-> buf[Slot(tail' + i - 1)]]
  BY <1>4, <1>5 DEF Queued, Used, Slot
<1>7. Tail(Queued) = [i \in 1..Used - 1 |-> Queued[i + 1]]
  <2>1. Queued \in Seq(Items \cup {NoItem}) /\ Len(Queued) = Used BY QueuedIs
  <2> QED BY <1>3, <2>1, TailIs
<1>8. ASSUME NEW i \in 1..Used - 1 PROVE buf[Slot(tail' + i - 1)] = Queued[i + 1]
  <2>1. Queued[i + 1] = buf[Slot(tail + (i + 1) - 1)]
    BY <1>3 DEF Queued, Used
  <2>2. tail' = IF tail + 1 = Modulus THEN 0 ELSE tail + 1 BY <1>2, <1>4, NextIs
  <2>3. CASE tail + 1 = Modulus
    <3>1. tail' + i - 1 = i - 1 /\ tail + (i + 1) - 1 = (i - 1) + Modulus /\ i - 1 \in Nat
      BY <1>2, <1>3, <2>2, <2>3, RingAssumption
    <3>2. Slot((i - 1) + Modulus) = Slot(i - 1) BY <3>1, SlotWraps
    <3> QED BY <2>1, <3>1, <3>2
  <2>4. CASE tail + 1 # Modulus
    <3>1. tail' + i - 1 = tail + (i + 1) - 1 BY <1>2, <1>3, <2>2, <2>4, RingAssumption
    <3> QED BY <2>1, <3>1
  <2> QED BY <2>3, <2>4
<1> QED BY <1>1, <1>3, <1>6, <1>7, <1>8, QueuedIs

(* Writing the next slot touches no queued packet. *)
LEMMA WriteKeepsQueued ==
  ASSUME IInv, NEW p \in Pushers, PushWrite(p)
  PROVE  Queued' = Queued
<1> USE RoleFacts DEF IInv
<1>1. Used < Cap /\ h[p] = head BY DEF PushWrite, Goto, Counters, PushCounters
<1>2. head' = head /\ tail' = tail /\ buf' = [buf EXCEPT ![Slot(head)] = item[p]]
  BY <1>1 DEF PushWrite
<1>3. Queued' = [i \in 1..Used |-> buf'[Slot(tail + i - 1)]]
  BY <1>2 DEF Queued, Used, Slot, Dist
<1>4. ASSUME NEW i \in 1..Used PROVE buf'[Slot(tail + i - 1)] = buf[Slot(tail + i - 1)]
  <2>1. i - 1 \in 0..Used-1 /\ tail + i - 1 = tail + (i - 1) /\ tail + i - 1 \in Nat
    BY SMTT(30), UsedFacts, RingAssumption DEF TypeOK
  <2>2. Slot(tail + (i - 1)) # Slot(head) BY <1>1, <2>1, HeadSlot
  <2>3. Slot(tail + i - 1) \in 0..Cap-1 BY <2>1, Division, RingAssumption DEF Slot
  <2> QED BY <1>2, <2>1, <2>2, <2>3 DEF TypeOK
<1> QED BY <1>3, <1>4 DEF Queued, Used

LEMMA InitMaps == Init => Fifo!Init
<1> SUFFICES ASSUME Init PROVE Fifo!Init OBVIOUS
<1>1. TypeOK BY InitIInv DEF IInv
<1>2. Used = 0 BY <1>1, DistFacts DEF Init, Used, TypeOK
<1>3. Queued = <<>> BY <1>1, <1>2, QueuedIs
<1>4. [x \in Threads |-> Outcome(x)] = [x \in Threads |-> [kind |-> "none"]]
  BY DEF Init, Outcome
<1> QED BY <1>3, <1>4 DEF Fifo!Init, Fifo!Pending, Fifo!Threads, Threads

(* A step that changes the outcome of no call and no queued packet. *)
LEMMA Silent ==
  ASSUME Queued' = Queued, \A x \in Threads : Outcome(x)' = Outcome(x)
  PROVE  UNCHANGED Fifo!vars
  BY DEF Fifo!vars

LEMMA ProducerMaps ==
  ASSUME IInv, TypeOK', NEW p \in Pushers, Producer(p)
  PROVE  [Fifo!Next]_Fifo!vars
<1> DEFINE R == [x \in Threads |-> Outcome(x)]
<1> USE RoleFacts
<1>0. TypeOK BY DEF IInv
<1>1. ASSUME NEW x \in Items, PushLock(p, x) PROVE UNCHANGED Fifo!vars
  <2>1. Queued' = Queued BY <1>1 DEF PushLock, Queued
  <2>2. \A y \in Threads : Outcome(y)' = Outcome(y)
    BY <1>0, <1>1 DEF PushLock, TypeOK, Outcome
  <2> QED BY <2>1, <2>2, Silent
<1>2. PushLoadHead(p) => UNCHANGED Fifo!vars
  <2> SUFFICES ASSUME PushLoadHead(p) PROVE UNCHANGED Fifo!vars OBVIOUS
  <2>1. Queued' = Queued BY DEF PushLoadHead, Queued
  <2>2. \A y \in Threads : Outcome(y)' = Outcome(y)
    BY <1>0 DEF PushLoadHead, Goto, TypeOK, Outcome
  <2> QED BY <2>1, <2>2, Silent
<1>3. ASSUME PushLoadTail(p) PROVE [Fifo!Next]_Fifo!vars
  <2>1. Queued' = Queued BY <1>3 DEF PushLoadTail, Queued
  <2>2. CASE IsFull(p)
    <3>1. Used = Cap
      BY <1>0, <1>3, <2>2, UsedFacts, RingAssumption
         DEF PushLoadTail, Goto, IsFull, IInv, Counters, PushCounters, Used
    <3>2. Len(Queued) = Cap BY <1>0, <3>1, QueuedIs
    <3>3. R[p] = [kind |-> "none"] /\ R' = [R EXCEPT ![p] = [kind |-> "refused"]]
      BY <1>0, <1>3, <2>2 DEF PushLoadTail, Goto, TypeOK, Outcome
    <3>4. Fifo!RefusePush(p)
      BY <2>1, <3>2, <3>3 DEF Fifo!RefusePush, Fifo!Pending, Fifo!Refused
    <3> QED BY <3>4 DEF Fifo!Next
  <2>3. CASE ~IsFull(p)
    <3>1. \A y \in Threads : Outcome(y)' = Outcome(y)
      BY <1>0, <1>3, <2>3 DEF PushLoadTail, Goto, TypeOK, Outcome
    <3> QED BY <2>1, <3>1, Silent
  <2> QED BY <2>2, <2>3
<1>4. ASSUME PushWrite(p) PROVE UNCHANGED Fifo!vars
  <2>1. Queued' = Queued BY <1>4, WriteKeepsQueued
  <2>2. \A y \in Threads : Outcome(y)' = Outcome(y)
    BY <1>0, <1>4 DEF PushWrite, Goto, TypeOK, Outcome
  <2> QED BY <2>1, <2>2, Silent
<1>5. ASSUME PushStore(p) PROVE Fifo!Next
  <2>1. Used < Cap /\ item[p] \in Items /\ Queued' = Append(Queued, item[p])
    BY <1>5, StoreAppends
  <2>2. Len(Queued) < Cap BY <1>0, <2>1, QueuedIs
  <2>3. R[p] = [kind |-> "none"] /\ R' = [R EXCEPT ![p] = [kind |-> "ok"]]
    BY <1>0, <1>5 DEF PushStore, Goto, TypeOK, Outcome
  <2>4. Fifo!Push(p, item[p])
    BY <2>1, <2>2, <2>3 DEF Fifo!Push, Fifo!Pending, Fifo!Ok
  <2> QED BY <2>1, <2>4 DEF Fifo!Next
<1>6. ASSUME PushUnlock(p) PROVE Fifo!Next
  <2>1. Queued' = Queued BY <1>6 DEF PushUnlock, Queued
  <2>2. R[p] # [kind |-> "none"] /\ R' = [R EXCEPT ![p] = [kind |-> "none"]]
    BY <1>0, <1>6 DEF PushUnlock, TypeOK, Outcome
  <2>3. Fifo!Return(p) BY <2>1, <2>2 DEF Fifo!Return, Fifo!Pending
  <2> QED BY <2>3 DEF Fifo!Next, Fifo!Threads, Threads
<1>7. CountLoadHead(p) => UNCHANGED Fifo!vars
  <2> SUFFICES ASSUME CountLoadHead(p) PROVE UNCHANGED Fifo!vars OBVIOUS
  <2>1. Queued' = Queued BY DEF CountLoadHead, Queued
  <2>2. \A y \in Threads : Outcome(y)' = Outcome(y)
    BY <1>0 DEF CountLoadHead, Goto, TypeOK, Outcome
  <2> QED BY <2>1, <2>2, Silent
<1>8. CountLoadTail(p) => UNCHANGED Fifo!vars
  <2> SUFFICES ASSUME CountLoadTail(p) PROVE UNCHANGED Fifo!vars OBVIOUS
  <2>1. Queued' = Queued BY DEF CountLoadTail, Queued
  <2>2. \A y \in Threads : Outcome(y)' = Outcome(y)
    BY <1>0 DEF CountLoadTail, Goto, TypeOK, Outcome
  <2> QED BY <2>1, <2>2, Silent
<1>9. CountDrop(p) => UNCHANGED Fifo!vars
  <2> SUFFICES ASSUME CountDrop(p) PROVE UNCHANGED Fifo!vars OBVIOUS
  <2>1. Queued' = Queued BY DEF CountDrop, Queued
  <2>2. \A y \in Threads : Outcome(y)' = Outcome(y)
    BY <1>0 DEF CountDrop, Goto, TypeOK, Outcome
  <2> QED BY <2>1, <2>2, Silent
<1> QED BY <1>1, <1>2, <1>3, <1>4, <1>5, <1>6, <1>7, <1>8, <1>9 DEF Producer

LEMMA ConsumerMaps ==
  ASSUME IInv, NEW c \in Poppers, Consumer(c)
  PROVE  [Fifo!Next]_Fifo!vars
<1> DEFINE R == [x \in Threads |-> Outcome(x)]
<1> USE RoleFacts
<1>0. TypeOK BY DEF IInv
<1>1. PopLock(c) => UNCHANGED Fifo!vars
  <2> SUFFICES ASSUME PopLock(c) PROVE UNCHANGED Fifo!vars OBVIOUS
  <2>1. Queued' = Queued BY DEF PopLock, Queued
  <2>2. \A y \in Threads : Outcome(y)' = Outcome(y)
    BY <1>0 DEF PopLock, Goto, TypeOK, Outcome
  <2> QED BY <2>1, <2>2, Silent
<1>2. PopLoadTail(c) => UNCHANGED Fifo!vars
  <2> SUFFICES ASSUME PopLoadTail(c) PROVE UNCHANGED Fifo!vars OBVIOUS
  <2>1. Queued' = Queued BY DEF PopLoadTail, Queued
  <2>2. \A y \in Threads : Outcome(y)' = Outcome(y)
    BY <1>0 DEF PopLoadTail, Goto, TypeOK, Outcome
  <2> QED BY <2>1, <2>2, Silent
<1>3. ASSUME PopLoadHead(c) PROVE [Fifo!Next]_Fifo!vars
  <2>1. Queued' = Queued BY <1>3 DEF PopLoadHead, Queued
  <2>2. CASE IsEmpty(c)
    <3>1. head = tail
      BY <1>3, <2>2 DEF PopLoadHead, Goto, IsEmpty, IInv, Counters, PopCounters
    <3>2. Used = 0 BY <1>0, <3>1, DistFacts DEF Used, TypeOK
    <3>3. Queued = <<>> BY <1>0, <3>2, QueuedIs
    <3>4. R[c] = [kind |-> "none"] /\ R' = [R EXCEPT ![c] = [kind |-> "refused"]]
      BY <1>0, <1>3, <2>2 DEF PopLoadHead, Goto, TypeOK, Outcome
    <3>5. Fifo!RefusePop(c)
      BY <2>1, <3>3, <3>4 DEF Fifo!RefusePop, Fifo!Pending, Fifo!Refused
    <3> QED BY <3>5 DEF Fifo!Next
  <2>3. CASE ~IsEmpty(c)
    <3>1. \A y \in Threads : Outcome(y)' = Outcome(y)
      BY <1>0, <1>3, <2>3 DEF PopLoadHead, Goto, TypeOK, Outcome
    <3> QED BY <2>1, <3>1, Silent
  <2> QED BY <2>2, <2>3
<1>4. PopRead(c) => UNCHANGED Fifo!vars
  <2> SUFFICES ASSUME PopRead(c) PROVE UNCHANGED Fifo!vars OBVIOUS
  <2>1. Queued' = Queued BY DEF PopRead, Queued
  <2>2. \A y \in Threads : Outcome(y)' = Outcome(y)
    BY <1>0 DEF PopRead, Goto, TypeOK, Outcome
  <2> QED BY <2>1, <2>2, Silent
<1>5. ASSUME PopStore(c) PROVE Fifo!Next
  <2>1. Used > 0 /\ item[c] = Head(Queued) /\ Queued' = Tail(Queued)
    BY <1>5, StoreRemoves
  <2>2. Queued # <<>> BY <1>0, <2>1, QueuedIs
  <2>3. R[c] = [kind |-> "none"]
        /\ R' = [R EXCEPT ![c] = [kind |-> "popped", item |-> item[c]]]
    BY <1>0, <1>5 DEF PopStore, Goto, TypeOK, Outcome
  <2>4. Fifo!Pop(c)
    BY <2>1, <2>2, <2>3 DEF Fifo!Pop, Fifo!Pending, Fifo!Popped
  <2> QED BY <2>4 DEF Fifo!Next
<1>6. ASSUME PopUnlock(c) PROVE Fifo!Next
  <2>1. Queued' = Queued BY <1>6 DEF PopUnlock, Queued
  <2>2. R[c] # [kind |-> "none"] /\ R' = [R EXCEPT ![c] = [kind |-> "none"]]
    BY <1>0, <1>6 DEF PopUnlock, TypeOK, Outcome
  <2>3. Fifo!Return(c) BY <2>1, <2>2 DEF Fifo!Return, Fifo!Pending
  <2> QED BY <2>3 DEF Fifo!Next, Fifo!Threads, Threads
<1> QED BY <1>1, <1>2, <1>3, <1>4, <1>5, <1>6 DEF Consumer

LEMMA StepMaps == IInv /\ IInv' /\ [Next]_vars => [Fifo!Next]_Fifo!vars
<1> SUFFICES ASSUME IInv, IInv', [Next]_vars PROVE [Fifo!Next]_Fifo!vars OBVIOUS
<1>1. TypeOK' BY DEF IInv
<1>2. CASE UNCHANGED vars
  <2>1. Queued' = Queued BY <1>2 DEF vars, Queued
  <2>2. \A y \in Threads : Outcome(y)' = Outcome(y) BY <1>2 DEF vars, Outcome
  <2> QED BY <2>1, <2>2, Silent
<1> QED BY <1>1, <1>2, ProducerMaps, ConsumerMaps DEF Next

(* Every push and pop of the ring takes effect at one instant of its call, *)
(* whatever the threads' interleaving and the counters' wrap-around.       *)
THEOREM Implements == Spec => IsFifo
<1>1. Init => Fifo!Init BY InitMaps
<1>2. IInv /\ IInv' /\ [Next]_vars => [Fifo!Next]_Fifo!vars BY StepMaps
<1> QED BY <1>1, <1>2, Invariant, PTL DEF Spec, IsFifo, Fifo!Spec

=============================================================================
