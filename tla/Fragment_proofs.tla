--------------------------- MODULE Fragment_proofs ---------------------------
(***************************************************************************)
(* Proofs about splitting and joining, for any number of packets, ids and  *)
(* entries: halves that are joined belong together, and a young half is    *)
(* cleared only by a collection that read the clock before it arrived.     *)
(***************************************************************************)
EXTENDS Fragment, TLAPS

(* The inductive invariant.  Times that were read have passed. *)
Clocked == /\ \A s \in Slots : table[s].stamp <= now
           /\ gcNow # None => gcNow <= now

(* An entry about to be cleared is too old, or was taken after the clock was read. *)
GcSaw == \A s \in Slots :
           gcAt = TableSize + s /\ ~Expired(now, table[s].stamp) => table[s].stamp >= gcNow

(* A half on its way, waiting or in hand is of a packet that was split. *)
WasSplit == /\ \A h \in wire : idOf[h.packet] \in Ids
            /\ \A s \in Slots, p \in Packets : Has(table[s], p) => idOf[p] \in Ids
            /\ pc = "idle" => job = None
            /\ pc # "idle" => job \in Halves /\ slot \in Slots /\ idOf[job.packet] \in Ids

(* What waits in an entry has the entry's id. *)
Named == \A s \in Slots, p \in Packets : Has(table[s], p) => table[s].id = idOf[p]

(* Packets in use have different ids. *)
Used(p) == \/ \E h \in wire : h.packet = p
           \/ job # None /\ job.packet = p
           \/ \E s \in Slots : Live(now, table[s]) /\ Has(table[s], p)
Unique == \A p, q \in Packets : Used(p) /\ Used(q) /\ idOf[p] = idOf[q] => p = q

(* The entry in hand holds halves of the packet in hand only. *)
Joining == pc # "idle" =>
  /\ table[slot].id = idOf[job.packet]
  /\ table[slot].first \in {None, job.packet} /\ table[slot].second \in {None, job.packet}
  /\ pc = "copy" => Complete(table[slot])
  /\ pc = "reset" => out = <<job.packet, job.packet>>

Sound == ~reused /\ ~raced => Named /\ Unique /\ Joining
IInv == TypeOK /\ Clocked /\ GcSaw /\ WasSplit /\ Sound

------------------------------------------------------------------------------
(* Time and places. *)

LEMMA ExpiredIs ==
  ASSUME NEW u \in Times, NEW z \in {0} \cup Times
  PROVE  Expired(u, z) <=> u < z \/ u - z > Timeout
<1> USE FragmentAssumption DEF Times
<1>1. CASE z <= u
  <2>1. u - z \in 0..Modulus-1 BY <1>1
  <2>2. (u - z) % Modulus = u - z BY <2>1
  <2> QED BY <1>1, <2>2 DEF Expired
<1>2. CASE u < z
  <2>1. (u - z) + Modulus \in 0..Modulus-1 BY <1>2
  <2>2. (u - z) % Modulus = (u - z) + Modulus BY <2>1
  <2>3. (u - z) + Modulus > Timeout BY <1>2
  <2> QED BY <1>2, <2>2, <2>3 DEF Expired
<1> QED BY <1>1, <1>2

LEMMA PlaceIs == \A x \in Nat : x % TableSize \in Slots
  BY FragmentAssumption DEF Slots

LEMMA AcquireIs == ASSUME NEW id \in Ids PROVE Acquire(id) \subseteq Slots
<1>1. Base(id) \in Slots BY PlaceIs, FragmentAssumption DEF Base
<1>2. \A n \in 0..TableSize-1 : Later(Base(id), n) \in Slots
  <2> TAKE n \in 0..TableSize-1
  <2>1. Base(id) + n \in Nat BY <1>1, FragmentAssumption DEF Slots
  <2> QED BY <2>1, PlaceIs DEF Later
<1> QED BY <1>1, <1>2 DEF Acquire, Nearest, Probed

LEMMA NoneFacts == /\ None \notin Slots /\ None \notin Times /\ None \notin Ids
                   /\ None \notin Packets /\ None \notin Halves /\ None \notin Int
<1>1. Slots \subseteq Int /\ Times \subseteq Int /\ Ids \subseteq Int
  BY FragmentAssumption DEF Slots, Times
<1> QED BY <1>1, NoneAssumption

LEMMA EmptyFacts == /\ Empty \in Entries /\ ~Waiting(Empty) /\ Empty.stamp = 0
                    /\ Empty.first = None /\ Empty.second = None
  BY FragmentAssumption DEF Empty, Entries, Waiting

(* What an entry holds when a half has found it. *)
LEMMA PreparedIs ==
  ASSUME TypeOK, NEW e \in Entries, NEW id \in Ids
  PROVE  LET f == Prepared(e, id) IN
         /\ f \in Entries /\ f.id = id /\ f.stamp = now
         /\ f.first # None => f.first = e.first /\ e.id = id /\ Live(now, e)
         /\ f.second # None => f.second = e.second /\ e.id = id /\ Live(now, e)
<1> USE EmptyFacts
<1>1. CASE Outdated(e, id)
  <2>1. Prepared(e, id) = [Empty EXCEPT !.id = id, !.stamp = now]
    BY <1>1 DEF Prepared
  <2> QED BY <2>1 DEF Empty, Entries, TypeOK
<1>2. CASE ~Outdated(e, id)
  <2>1. Prepared(e, id) = [e EXCEPT !.id = id, !.stamp = now]
    BY <1>2 DEF Prepared
  <2>2. Waiting(e) => Live(now, e) BY <1>2 DEF Outdated, Live
  <2> QED BY <1>2, <2>1, <2>2 DEF Outdated, Entries, TypeOK, Waiting
<1> QED BY <1>1, <1>2

------------------------------------------------------------------------------
LEMMA InitIInv == Init => IInv
<1> SUFFICES ASSUME Init PROVE IInv OBVIOUS
<1>1. PICK p \in Packets, id \in Ids, i \in {0, 1} :
        /\ idOf = [q \in Packets |-> IF q = p THEN id ELSE None]
        /\ table = [s \in Slots |-> IF s = Base(id) THEN Left(p, id, i) ELSE Empty]
  BY DEF Init
<1>2. Left(p, id, i) \in Entries /\ Left(p, id, i).id = id /\ Left(p, id, i).stamp = Timeout + 1
      /\ \A q \in Packets : Has(Left(p, id, i), q) => q = p
  BY FragmentAssumption, NoneFacts DEF Left, Entries, Times, Has
<1>3. TypeOK
  <2>1. idOf \in [Packets -> Ids \cup {None}] BY <1>1
  <2>2. table \in [Slots -> Entries] BY <1>1, <1>2, EmptyFacts
  <2>3. now \in Times /\ dups \in 0..MaxDups BY FragmentAssumption DEF Init, Times
  <2> QED BY <2>1, <2>2, <2>3, FragmentAssumption, NoneFacts DEF Init, TypeOK
<1>4. Clocked /\ GcSaw /\ WasSplit
  BY SMTT(30), <1>1, <1>2, EmptyFacts, FragmentAssumption, NoneFacts
     DEF Init, Clocked, GcSaw, WasSplit, Slots, Has
<1>5. \A s \in Slots, q \in Packets : Has(table[s], q) => q = p /\ s = Base(id)
  BY <1>1, <1>2, EmptyFacts, NoneFacts DEF Has
<1>6. Named BY <1>1, <1>2, <1>5 DEF Named
<1>7. \A q \in Packets : Used(q) => q = p BY <1>5 DEF Init, Used
<1>8. Unique BY <1>7 DEF Unique
<1>9. Joining BY DEF Init, Joining
<1> QED BY <1>3, <1>4, <1>6, <1>8, <1>9 DEF IInv, Sound

LEMMA GcGoesOnIs ==
  ASSUME TypeOK, NEW s \in Slots, GcGoesOn(s), gcNow # None
  PROVE  /\ gcNow' \in Times \cup {None} /\ gcAt' \in 0..2*TableSize-1 \cup {None}
         /\ gcNow' = None <=> gcAt' = None
         /\ gcAt' \in Slots \cup {None}
         /\ gcNow' \in {gcNow, None}
  BY NoneFacts, FragmentAssumption DEF GcGoesOn, TypeOK, Slots

(* Type correctness. *)
LEMMA TypeKept == TypeOK /\ WasSplit /\ [Next]_vars => TypeOK'
<1> SUFFICES ASSUME TypeOK, WasSplit, [Next]_vars PROVE TypeOK' OBVIOUS
<1> USE NoneFacts
<1>1. ASSUME UNCHANGED vars PROVE TypeOK'
  BY <1>1 DEF vars, worker, gc, TypeOK
<1>2. ASSUME Next PROVE holed' \in BOOLEAN
  BY <1>2 DEF Next, TypeOK
<1>3. ASSUME Next, NEW p \in Packets, NEW id \in Ids, NEW sent \in SUBSET {0, 1} \ {{}},
             Split(p, id, sent)
      PROVE  TypeOK'
  <2>1. wire' \subseteq Halves BY <1>3 DEF Split, TypeOK, Halves
  <2>2. idOf' \in [Packets -> Ids \cup {None}] BY <1>3 DEF Split, TypeOK
  <2>3. reused' \in BOOLEAN BY <1>3 DEF Split, TypeOK
  <2> QED BY <1>2, <1>3, <2>1, <2>2, <2>3 DEF Split, worker, gc, TypeOK
<1>4. ASSUME Next, NEW h \in wire, NEW again \in BOOLEAN, Arrive(h, again) PROVE TypeOK'
  <2>1. h \in Halves /\ idOf[h.packet] \in Ids /\ wire' \subseteq Halves /\ dups' \in 0..MaxDups
    BY <1>4, FragmentAssumption DEF Arrive, TypeOK, WasSplit
  <2>2. CASE UNCHANGED <<table, pc, job, slot>>
    BY <1>2, <1>4, <2>1, <2>2 DEF Arrive, gc, TypeOK
  <2>3. ASSUME NEW s \in Acquire(idOf[h.packet]),
               table' = [table EXCEPT ![s] = Prepared(@, idOf[h.packet])],
               pc' = "store", job' = h, slot' = s
        PROVE  TypeOK'
    <3>1. s \in Slots BY <2>1, AcquireIs
    <3>2. Prepared(table[s], idOf[h.packet]) \in Entries
      BY <2>1, <3>1, PreparedIs DEF TypeOK
    <3>3. table' \in [Slots -> Entries] BY <2>3, <3>1, <3>2 DEF TypeOK
    <3> QED BY <1>2, <1>4, <2>1, <2>3, <3>1, <3>3 DEF Arrive, gc, TypeOK
  <2> QED BY <1>4, <2>2, <2>3 DEF Arrive
<1>5. ASSUME Next, Store PROVE TypeOK'
  <2>1. slot \in Slots /\ job \in Halves BY <1>5 DEF Store, WasSplit
  <2>2. table' \in [Slots -> Entries] BY <1>5, <2>1 DEF Store, TypeOK, Entries, Halves
  <2> QED BY <1>2, <1>5, <2>1, <2>2 DEF Store, gc, TypeOK
<1>6. ASSUME Next, Emit PROVE TypeOK'
  BY <1>2, <1>6 DEF Emit, gc, TypeOK
<1>7. ASSUME Next, Copy PROVE TypeOK'
  <2>1. slot \in Slots BY <1>7 DEF Copy, WasSplit
  <2>2. table[slot] \in Entries BY <2>1 DEF TypeOK
  <2>3. out' \in (Packets \cup {None}) \X (Packets \cup {None})
    BY <1>7, <2>2 DEF Copy, Entries
  <2> QED BY <1>2, <1>7, <2>1, <2>3 DEF Copy, gc, TypeOK
<1>8. ASSUME Next, Deliver PROVE TypeOK'
  BY <1>2, <1>8, EmptyFacts DEF Deliver, gc, TypeOK, WasSplit
<1>9. ASSUME Next, CollectOwn PROVE TypeOK'
  BY <1>2, <1>9, EmptyFacts DEF CollectOwn, worker, gc, TypeOK
<1>10. ASSUME Next, GcStart PROVE TypeOK'
  BY <1>2, <1>10, FragmentAssumption DEF GcStart, worker, TypeOK, Slots, Times
<1>11. ASSUME Next, GcSkip PROVE TypeOK'
  <2>1. gcAt \in Slots /\ gcNow # None BY <1>11 DEF GcSkip, TypeOK
  <2>2. GcGoesOn(gcAt) BY <1>11 DEF GcSkip
  <2> QED BY <1>2, <1>11, <2>1, <2>2, GcGoesOnIs DEF GcSkip, worker, TypeOK
<1>12. ASSUME Next, GcFinds PROVE TypeOK'
  <2>1. gcAt + TableSize \in 0..2*TableSize-1 /\ gcNow # None /\ gcAt # None
    BY <1>12, FragmentAssumption DEF GcFinds, TypeOK, Slots
  <2>2. gcAt + TableSize # None BY <2>1
  <2> QED BY <1>2, <1>12, <2>1, <2>2 DEF GcFinds, worker, TypeOK
<1>13. ASSUME Next, GcClear PROVE TypeOK'
  <2>1. gcAt - TableSize \in Slots /\ gcNow # None
    BY <1>13, FragmentAssumption DEF GcClear, TypeOK, Slots
  <2>2. GcGoesOn(gcAt - TableSize) /\ raced' \in BOOLEAN BY <1>13 DEF GcClear, TypeOK
  <2> QED BY <1>2, <1>13, <2>1, <2>2, GcGoesOnIs, EmptyFacts DEF GcClear, worker, TypeOK
<1>14. ASSUME Next, Tick PROVE TypeOK'
  <2>1. now' \in Times BY <1>14, FragmentAssumption DEF Tick, Times, TypeOK
  <2> QED BY <1>2, <1>14, <2>1 DEF Tick, worker, gc, TypeOK
<1>15. ASSUME Next, Silent PROVE TypeOK'
  BY <1>2, <1>15 DEF Silent, worker, gc, TypeOK
<1> QED BY <1>1, <1>3, <1>4, <1>5, <1>6, <1>7, <1>8, <1>9, <1>10, <1>11, <1>12, <1>13,
           <1>14, <1>15 DEF Next, Sender, Joiner, Collector

------------------------------------------------------------------------------
LEMMA ExpiresOnce ==
  ASSUME NEW u \in Times, NEW v \in Times, u <= v, NEW z \in {0} \cup Times, z <= u,
         ~Expired(v, z)
  PROVE  ~Expired(u, z)
<1>1. ~(v - z > Timeout) BY ExpiredIs
<1>2. ~(u - z > Timeout) /\ ~(u < z) BY <1>1, FragmentAssumption DEF Times
<1> QED BY <1>2, ExpiredIs

(* The steps that leave the table and the clock alone. *)
Elsewhere == \/ \E p \in Packets : \E id \in Ids, sent \in SUBSET {0, 1} \ {{}} : Split(p, id, sent)
             \/ Emit \/ Copy \/ GcStart \/ GcSkip \/ GcFinds \/ Silent \/ UNCHANGED vars
LEMMA ElsewhereKeeps == Elsewhere => UNCHANGED <<table, now>>
  BY DEF Elsewhere, Split, Emit, Copy, GcStart, GcSkip, GcFinds, Silent, vars

LEMMA StepIs == [Next]_vars =>
  \/ Elsewhere \/ \E h \in wire, again \in BOOLEAN : Arrive(h, again)
  \/ Store \/ Deliver \/ CollectOwn \/ GcClear \/ Tick
  BY DEF Elsewhere, Next, Sender, Joiner, Collector

(* What a half that arrives does to the table. *)
LEMMA ArriveIs ==
  ASSUME TypeOK, WasSplit, NEW h \in wire, NEW again \in BOOLEAN, Arrive(h, again)
  PROVE  /\ h \in Halves /\ idOf[h.packet] \in Ids
         /\ \/ UNCHANGED <<table, pc, job, slot>>
            \/ /\ pc' = "store" /\ job' = h /\ slot' \in Slots
               /\ table' = [table EXCEPT ![slot'] = Prepared(table[slot'], idOf[h.packet])]
<1>1. h \in Halves /\ idOf[h.packet] \in Ids BY DEF TypeOK, WasSplit
<1>2. Acquire(idOf[h.packet]) \subseteq Slots BY <1>1, AcquireIs
<1> QED BY <1>1, <1>2 DEF Arrive, TypeOK

(* Each entry after a step, from the one before. *)
LEMMA EntryIs ==
  ASSUME TypeOK, WasSplit, [Next]_vars, NEW s \in Slots
  PROVE  \/ table'[s] = table[s]
         \/ table'[s] = Empty
         \/ table'[s].stamp = now
         \/ /\ Store /\ s = slot /\ table'[s].id = table[s].id
            /\ table'[s].stamp = table[s].stamp
<1>1. ASSUME NEW h \in wire, NEW again \in BOOLEAN, Arrive(h, again)
      PROVE  table'[s] = table[s] \/ table'[s].stamp = now
  <2>1. Prepared(table[s], idOf[h.packet]).stamp = now
    BY <1>1, ArriveIs, PreparedIs DEF TypeOK
  <2> QED BY <1>1, <2>1, ArriveIs DEF TypeOK
<1>2. ASSUME Store
      PROVE  \/ table'[s] = table[s]
             \/ s = slot /\ table'[s].id = table[s].id /\ table'[s].stamp = table[s].stamp
  BY <1>2 DEF Store, TypeOK, Entries
<1>3. Deliver => table'[s] = table[s] \/ table'[s] = Empty BY DEF Deliver, TypeOK
<1>4. CollectOwn => table'[s] = table[s] \/ table'[s] = Empty BY DEF CollectOwn
<1>5. GcClear => table'[s] = table[s] \/ table'[s] = Empty BY DEF GcClear, TypeOK
<1>6. Tick => table'[s] = table[s] BY DEF Tick
<1> QED BY <1>1, <1>2, <1>3, <1>4, <1>5, <1>6, StepIs, ElsewhereKeeps

LEMMA NowGrows == TypeOK /\ [Next]_vars => now <= now'
<1> SUFFICES ASSUME TypeOK, [Next]_vars PROVE now <= now' OBVIOUS
<1>1. now \in Int BY FragmentAssumption DEF TypeOK, Times
<1>2. Tick => now' = now + 1 BY DEF Tick
<1>3. Store \/ Deliver \/ CollectOwn \/ GcClear => now' = now
  BY DEF Store, Deliver, CollectOwn, GcClear
<1>4. ASSUME NEW h \in wire, NEW again \in BOOLEAN, Arrive(h, again) PROVE now' = now
  BY <1>4 DEF Arrive
<1> QED BY <1>1, <1>2, <1>3, <1>4, StepIs, ElsewhereKeeps

LEMMA ClockedKept == TypeOK /\ TypeOK' /\ WasSplit /\ Clocked /\ [Next]_vars => Clocked'
<1> SUFFICES ASSUME TypeOK, TypeOK', WasSplit, Clocked, [Next]_vars PROVE Clocked' OBVIOUS
<1>1. now \in Nat /\ now' \in Nat /\ now <= now'
  BY NowGrows, FragmentAssumption DEF TypeOK, Times
<1>2. ASSUME NEW s \in Slots PROVE table'[s].stamp <= now'
  <2>1. table[s].stamp \in Nat /\ table[s].stamp <= now
    BY FragmentAssumption DEF TypeOK, Entries, Times, Clocked
  <2> QED BY <1>1, <2>1, EntryIs, EmptyFacts
<1>3. gcNow' # None => gcNow' <= now'
  <2>1. gcNow' = gcNow \/ gcNow' = None \/ gcNow' = now
    BY StepIs DEF Elsewhere, Split, Emit, Copy, GcStart, GcSkip, GcFinds, GcGoesOn, Silent, vars, gc,
                  Store, Deliver, CollectOwn, GcClear, Arrive, Tick
  <2>2. gcNow # None => gcNow \in Nat /\ gcNow <= now
    BY FragmentAssumption DEF TypeOK, Times, Clocked
  <2> QED BY <1>1, <2>1, <2>2
<1> QED BY <1>2, <1>3 DEF Clocked

LEMMA GcSawKept == TypeOK /\ TypeOK' /\ WasSplit /\ Clocked /\ GcSaw /\ [Next]_vars => GcSaw'
<1> SUFFICES ASSUME TypeOK, TypeOK', WasSplit, Clocked, GcSaw, [Next]_vars,
                    NEW s \in Slots, gcAt' = TableSize + s, ~Expired(now', table'[s].stamp)
             PROVE  table'[s].stamp >= gcNow'
  BY DEF GcSaw, Expired
<1>1. now \in Nat /\ now' \in Nat /\ now <= now' /\ now \in Times /\ now' \in Times
  BY NowGrows, FragmentAssumption DEF TypeOK, Times
<1>2. /\ table[s].stamp \in Nat /\ table[s].stamp <= now /\ table[s].stamp \in {0} \cup Times
      /\ table'[s].stamp \in {0} \cup Times
  BY FragmentAssumption DEF TypeOK, Entries, Times, Clocked
<1>3. table'[s] # Empty
  <2>1. Expired(now', 0) BY <1>1, ExpiredIs, FragmentAssumption DEF Times
  <2> QED BY <2>1, EmptyFacts
<1>4. TableSize + s \notin Slots /\ TableSize + s \in Int BY FragmentAssumption DEF Slots
<1>5. CASE GcFinds
  <2>1. gcAt = s /\ Stale(gcNow, table[s]) /\ gcNow' = gcNow /\ table' = table /\ now' = now
    BY <1>4, <1>5, FragmentAssumption DEF GcFinds, Collects, Slots
  <2>2. gcNow \in Times BY <1>5, <2>1, NoneFacts DEF GcFinds, TypeOK
  <2>3. gcNow <= now BY <2>2, NoneFacts DEF Clocked
  <2>4. gcNow < table[s].stamp \/ gcNow - table[s].stamp > Timeout
    BY <1>2, <2>1, <2>2, ExpiredIs DEF Stale
  <2>5. ~(now - table[s].stamp > Timeout)
    BY <1>1, <1>2, <2>1, ExpiredIs
  <2> QED BY <1>1, <1>2, <2>1, <2>2, <2>3, <2>4, <2>5, FragmentAssumption DEF Times
<1>6. CASE ~GcFinds
  <2>1. UNCHANGED gc
    <3>1. GcStart \/ GcSkip \/ GcClear => gcAt' \in Slots \cup {None}
      BY FragmentAssumption DEF GcStart, GcSkip, GcClear, GcGoesOn, Slots
    <3>2. gcAt' \notin Slots \cup {None} BY <1>4, NoneFacts
    <3>3. ASSUME NEW h \in wire, NEW again \in BOOLEAN, Arrive(h, again) PROVE UNCHANGED gc
      BY <3>3 DEF Arrive
    <3>4. Store \/ Deliver \/ CollectOwn \/ Tick => UNCHANGED gc
      BY DEF Store, Deliver, CollectOwn, Tick
    <3>5. Elsewhere => UNCHANGED gc
      BY <1>6, <3>1, <3>2 DEF Elsewhere, Split, Emit, Copy, Silent, vars
    <3> QED BY <3>1, <3>2, <3>3, <3>4, <3>5, StepIs
  <2>2. gcAt = TableSize + s /\ gcNow \in Times /\ gcNow' = gcNow
    BY <1>4, <2>1, NoneFacts DEF gc, TypeOK
  <2>3. gcNow <= now BY <2>2, NoneFacts DEF Clocked
  <2>4. CASE table'[s].stamp = table[s].stamp
    BY <1>1, <1>2, <2>2, <2>4, ExpiresOnce DEF GcSaw
  <2>5. CASE table'[s].stamp = now
    BY <2>2, <2>3, <2>5, <1>1, FragmentAssumption DEF Times
  <2> QED BY <1>3, <2>4, <2>5, EntryIs
<1> QED BY <1>5, <1>6

LEMMA WasSplitKept == TypeOK /\ WasSplit /\ [Next]_vars => WasSplit'
<1> SUFFICES ASSUME TypeOK, WasSplit, [Next]_vars PROVE WasSplit' OBVIOUS
<1> USE NoneFacts
<1> DEFINE Waits == \A s \in Slots, p \in Packets : Has(table[s], p) => idOf[p] \in Ids
<1>1. ASSUME NEW p \in Packets, NEW id \in Ids, NEW sent \in SUBSET {0, 1} \ {{}}, Split(p, id, sent)
      PROVE  WasSplit'
  <2>1. \A q \in Packets : idOf'[q] = IF q = p THEN id ELSE idOf[q] BY <1>1 DEF Split, TypeOK
  <2>2. \A h \in wire' : h.packet \in Packets /\ (h \in wire \/ h.packet = p)
    BY <1>1 DEF Split, TypeOK, Halves
  <2>3. job \in Halves => job.packet \in Packets BY DEF Halves
  <2>4. UNCHANGED worker /\ UNCHANGED table BY <1>1 DEF Split
  <2>5. Waits' BY <2>1, <2>4 DEF WasSplit
  <2> QED BY <2>1, <2>2, <2>3, <2>4, <2>5 DEF WasSplit, worker
<1>2. ASSUME NEW h \in wire, NEW again \in BOOLEAN, Arrive(h, again) PROVE WasSplit'
  <2>1. h \in Halves /\ idOf[h.packet] \in Ids /\ wire' \subseteq wire /\ idOf' = idOf /\ pc = "idle"
    BY <1>2, ArriveIs DEF Arrive
  <2>2. ASSUME slot' \in Slots,
               table' = [table EXCEPT ![slot'] = Prepared(table[slot'], idOf[h.packet])]
        PROVE  \A s \in Slots, p \in Packets : Has(table'[s], p) => Has(table[s], p)
    BY <2>1, <2>2, PreparedIs DEF TypeOK, Has
  <2>3. Waits' BY <1>2, <2>1, <2>2, ArriveIs DEF WasSplit
  <2> QED BY <1>2, <2>1, <2>3, ArriveIs DEF WasSplit
<1>3. ASSUME Store PROVE WasSplit'
  <2>1. job \in Halves /\ slot \in Slots /\ idOf[job.packet] \in Ids /\ idOf' = idOf
    BY <1>3 DEF Store, WasSplit
  <2>2. \A s \in Slots, p \in Packets : Has(table'[s], p) => Has(table[s], p) \/ p = job.packet
    BY <1>3, <2>1 DEF Store, TypeOK, Entries, Has
  <2>3. Waits' BY <2>1, <2>2 DEF WasSplit
  <2> QED BY <1>3, <2>3 DEF Store, WasSplit
<1>4. ASSUME Deliver \/ CollectOwn \/ GcClear PROVE WasSplit'
  <2>1. \A s \in Slots : table'[s] = table[s] \/ table'[s] = Empty
    BY <1>4 DEF Deliver, CollectOwn, GcClear, TypeOK
  <2>2. idOf' = idOf BY <1>4 DEF Deliver, CollectOwn, GcClear
  <2>3. Waits' BY <2>1, <2>2, EmptyFacts DEF WasSplit, Has
  <2> QED BY <1>4, <2>3 DEF Deliver, CollectOwn, GcClear, worker, WasSplit
<1>5. Emit => WasSplit' BY DEF Emit, WasSplit
<1>6. Copy => WasSplit' BY DEF Copy, WasSplit
<1>7. GcStart \/ GcSkip \/ GcFinds \/ Tick \/ Silent \/ UNCHANGED vars => WasSplit'
  BY DEF GcStart, GcSkip, GcFinds, Tick, Silent, vars, worker, WasSplit
<1> QED BY <1>1, <1>2, <1>3, <1>4, <1>5, <1>6, <1>7, StepIs DEF Elsewhere

------------------------------------------------------------------------------
(* Ids in use stay different. *)

LEMMA UsedLess ==
  ASSUME Unique, UNCHANGED idOf, \A p \in Packets : Used(p)' => Used(p)
  PROVE  Unique'
  BY DEF Unique

LEMMA EntriesLess ==
  ASSUME Named, UNCHANGED idOf, \A s \in Slots : table'[s] = table[s] \/ table'[s] = Empty
  PROVE  /\ Named'
         /\ \A s \in Slots, p \in Packets : Has(table'[s], p) => table'[s] = table[s]
<1>1. \A p \in Packets : ~Has(Empty, p) BY EmptyFacts, NoneFacts DEF Has
<1> QED BY <1>1 DEF Named

LEMMA SplitSound ==
  ASSUME TypeOK, WasSplit, Sound, NEW p \in Packets, NEW id \in Ids,
         NEW sent \in SUBSET {0, 1} \ {{}}, Split(p, id, sent), ~reused', ~raced'
  PROVE  Named' /\ Unique' /\ Joining'
<1> USE NoneFacts
<1>1. Named /\ Unique /\ Joining /\ ~InUse(id)
  BY DEF Split, Sound, TypeOK
<1>2. /\ idOf[p] = None /\ \A q \in Packets : idOf'[q] = IF q = p THEN id ELSE idOf[q]
      /\ UNCHANGED <<table, now, pc, job, slot, out>>
  BY DEF Split, worker, TypeOK
<1>3. \A s \in Slots : table[s].id \in Ids BY DEF TypeOK, Entries
<1>4. \A s \in Slots : ~Has(table[s], p) BY <1>1, <1>2, <1>3 DEF Named
<1>5. Named' BY <1>1, <1>2, <1>4 DEF Named
<1>6. ASSUME NEW q \in Packets, q # p, Used(q)' PROVE Used(q) /\ idOf[q] # id
  <2>1. Used(q)
    <3>1. ASSUME NEW h \in wire', h.packet = q PROVE h \in wire
      BY <1>6, <3>1 DEF Split
    <3> QED BY <1>2, <1>6, <3>1 DEF Used
  <2>2. ASSUME idOf[q] = id PROVE FALSE
    <3>1. ~(\E h \in wire : h.packet = q) BY <1>1, <2>2 DEF InUse
    <3>2. ~(job # None /\ job.packet = q) BY <1>1, <2>2 DEF InUse
    <3>3. ASSUME NEW s \in Slots, Live(now, table[s]), Has(table[s], q) PROVE FALSE
      <4>1. table[s].id = id BY <1>1, <2>2, <3>3 DEF Named
      <4> QED BY <1>1, <3>3, <4>1 DEF InUse
    <3> QED BY <2>1, <3>1, <3>2, <3>3 DEF Used
  <2> QED BY <2>1, <2>2
<1>7. Unique' BY <1>1, <1>2, <1>6 DEF Unique
<1>8. Joining'
  <2>1. pc # "idle" => job.packet \in Packets /\ job.packet # p
    BY <1>2 DEF WasSplit, Halves
  <2> QED BY <1>1, <1>2, <2>1 DEF Joining
<1> QED BY <1>5, <1>7, <1>8

LEMMA ArriveSound ==
  ASSUME TypeOK, TypeOK', WasSplit, Sound, NEW h \in wire, NEW again \in BOOLEAN, Arrive(h, again),
         ~reused', ~raced'
  PROVE  Named' /\ Unique' /\ Joining'
<1> USE NoneFacts
<1>1. Named /\ Unique /\ Joining /\ pc = "idle" /\ UNCHANGED <<idOf, now, out>>
  BY DEF Arrive, Sound, TypeOK
<1>2. h.packet \in Packets /\ idOf[h.packet] \in Ids /\ h \in Halves /\ wire' \subseteq wire
  BY ArriveIs DEF Arrive, Halves
<1>3. Used(h.packet) BY DEF Used
<1>4. CASE UNCHANGED <<table, pc, job, slot>>
  <2>1. \A p \in Packets : Used(p)' => Used(p) BY <1>1, <1>2, <1>4 DEF Used
  <2>2. Named' BY <1>1, <1>4 DEF Named
  <2>3. Joining' BY <1>1, <1>4 DEF Joining
  <2> QED BY <1>1, <2>1, <2>2, <2>3, UsedLess
<1>5. CASE /\ pc' = "store" /\ job' = h /\ slot' \in Slots
           /\ table' = [table EXCEPT ![slot'] = Prepared(table[slot'], idOf[h.packet])]
  <2> DEFINE e == table[slot']
             f == table'[slot']
  <2>1. f = Prepared(e, idOf[h.packet]) /\ e \in Entries BY <1>5 DEF TypeOK
  <2>2. /\ f.id = idOf[h.packet]
        /\ f.first # None => f.first = e.first /\ e.id = idOf[h.packet] /\ Live(now, e)
        /\ f.second # None => f.second = e.second /\ e.id = idOf[h.packet] /\ Live(now, e)
    BY <1>2, <2>1, PreparedIs
  <2>3. \A s \in Slots : s # slot' => table'[s] = table[s] BY <1>5 DEF TypeOK
  <2>4. f.first \in Packets \cup {None} /\ f.second \in Packets \cup {None}
    BY <1>5 DEF TypeOK, Entries
  <2>5. ASSUME NEW p \in Packets, Has(f, p) PROVE p = h.packet
    <3>1. Has(e, p) /\ Live(now, e) /\ e.id = idOf[h.packet] BY <2>2, <2>5 DEF Has
    <3>2. Used(p) /\ idOf[p] = idOf[h.packet] BY <1>1, <1>5, <3>1 DEF Used, Named
    <3> QED BY <1>1, <1>2, <1>3, <3>2 DEF Unique
  <2>6. f.first \in {None, h.packet} /\ f.second \in {None, h.packet}
    BY <2>4, <2>5 DEF Has
  <2> HIDE DEF f, e
  <2>7. Joining' BY <1>1, <1>5, <2>2, <2>6 DEF Joining, f
  <2>8. Named' BY <1>1, <2>2, <2>3, <2>5 DEF Named, f
  <2>9. ASSUME NEW p \in Packets, Used(p)' PROVE Used(p)
    <3>1. (\E g \in wire' : g.packet = p) => Used(p) BY <1>2 DEF Used
    <3>2. (job' # None /\ job'.packet = p) => Used(p) BY <1>3, <1>5
    <3>3. ASSUME NEW s \in Slots, Live(now', table'[s]), Has(table'[s], p) PROVE Used(p)
      BY <1>1, <1>3, <2>3, <2>5, <3>3 DEF Used, f
    <3> QED BY <2>9, <3>1, <3>2, <3>3 DEF Used
  <2> QED BY <1>1, <2>7, <2>8, <2>9, UsedLess
<1> QED BY <1>4, <1>5, ArriveIs

LEMMA StoreSound ==
  ASSUME TypeOK, WasSplit, Sound, Store, ~reused', ~raced'
  PROVE  Named' /\ Unique' /\ Joining'
<1> USE NoneFacts
<1>1. Named /\ Unique /\ Joining /\ pc = "store" /\ pc' = "emit"
      /\ UNCHANGED <<idOf, wire, now, job, slot, out>>
  BY DEF Store, Sound, TypeOK
<1>2. job \in Halves /\ slot \in Slots /\ job.packet \in Packets BY <1>1 DEF WasSplit, Halves
<1>3. /\ table'[slot].id = table[slot].id /\ table'[slot].stamp = table[slot].stamp
      /\ table'[slot].first \in {None, job.packet} /\ table'[slot].second \in {None, job.packet}
      /\ \A s \in Slots : s # slot => table'[s] = table[s]
  BY <1>1, <1>2 DEF Store, TypeOK, Entries, Joining
<1>4. Joining' BY <1>1, <1>3 DEF Joining
<1>5. \A p \in Packets : Has(table'[slot], p) => p = job.packet BY <1>3 DEF Has
<1>6. Named' BY <1>1, <1>3, <1>5 DEF Named, Joining
<1>7. Used(job.packet) BY <1>2 DEF Used
<1>8. \A p \in Packets : Used(p)' => Used(p) BY <1>1, <1>3, <1>5, <1>7 DEF Used
<1> QED BY <1>1, <1>4, <1>6, <1>8, UsedLess

(* Steps that only empty entries. *)
LEMMA EmptiesSound ==
  ASSUME TypeOK, WasSplit, Sound, Deliver \/ CollectOwn \/ GcClear, ~reused', ~raced'
  PROVE  Named' /\ Unique' /\ Joining'
<1> USE NoneFacts
<1>1. Named /\ Unique /\ Joining /\ UNCHANGED <<idOf, wire, now>>
  BY DEF Deliver, CollectOwn, GcClear, Sound, TypeOK
<1>2. \A s \in Slots : table'[s] = table[s] \/ table'[s] = Empty
  BY DEF Deliver, CollectOwn, GcClear, TypeOK
<1>3. job' = job \/ job' = None BY DEF Deliver, CollectOwn, GcClear, worker
<1>4. \A p \in Packets : Used(p)' => Used(p)
  BY <1>1, <1>2, <1>3, EntriesLess DEF Used
<1>5. Deliver \/ CollectOwn => Joining' BY DEF Deliver, CollectOwn, worker, Joining
<1>6. GcClear => Joining'
  <2> SUFFICES ASSUME GcClear, pc # "idle" PROVE Joining'
    BY DEF GcClear, worker, Joining
  <2>1. UNCHANGED worker /\ table'[slot] = table[slot]
    BY DEF GcClear, WasSplit, TypeOK
  <2> QED BY <1>1, <2>1 DEF worker, Joining
<1> QED BY <1>1, <1>2, <1>4, <1>5, <1>6, EntriesLess, UsedLess

LEMMA TickSound ==
  ASSUME TypeOK, TypeOK', Clocked, Sound, Tick, ~reused', ~raced'
  PROVE  Named' /\ Unique' /\ Joining'
<1>1. Named /\ Unique /\ Joining /\ UNCHANGED <<idOf, wire, table, worker>> /\ now' = now + 1
  BY DEF Tick, Sound, TypeOK
<1>2. Named' /\ Joining' BY <1>1 DEF Named, Joining, worker
<1>3. ASSUME NEW s \in Slots, Live(now', table[s]) PROVE Live(now, table[s])
  <2>1. now \in Times /\ now' \in Times /\ now <= now'
    BY <1>1, FragmentAssumption DEF TypeOK, Times
  <2>2. table[s].stamp \in {0} \cup Times /\ table[s].stamp <= now
    BY DEF TypeOK, Entries, Clocked
  <2> QED BY <1>3, <2>1, <2>2, ExpiresOnce DEF Live, Stale
<1>4. \A p \in Packets : Used(p)' => Used(p) BY <1>1, <1>3 DEF Used, worker
<1> QED BY <1>1, <1>2, <1>4, UsedLess

LEMMA OthersSound ==
  ASSUME TypeOK, WasSplit, Sound, ~reused', ~raced',
         Emit \/ Copy \/ GcStart \/ GcSkip \/ GcFinds \/ Silent \/ UNCHANGED vars
  PROVE  Named' /\ Unique' /\ Joining'
<1>1. Named /\ Unique /\ Joining /\ UNCHANGED <<idOf, wire, table, now>>
  BY DEF Emit, Copy, GcStart, GcSkip, GcFinds, Silent, vars, Sound, TypeOK
<1>2. Named' BY <1>1 DEF Named
<1>3. job' = job \/ job' = None
  BY DEF Emit, Copy, GcStart, GcSkip, GcFinds, Silent, vars, worker
<1>4. \A p \in Packets : Used(p)' => Used(p) BY <1>1, <1>3 DEF Used
<1>5. Emit => Joining' BY <1>1 DEF Emit, Joining
<1>6. Copy => Joining' BY <1>1, NoneFacts DEF Copy, Joining, Complete
<1>7. GcStart \/ GcSkip \/ GcFinds \/ Silent \/ UNCHANGED vars => Joining'
  BY <1>1 DEF GcStart, GcSkip, GcFinds, Silent, vars, worker, Joining
<1> QED BY <1>1, <1>2, <1>4, <1>5, <1>6, <1>7, UsedLess

LEMMA NextKeeps == IInv /\ [Next]_vars => IInv'
<1> SUFFICES ASSUME IInv, [Next]_vars PROVE IInv' OBVIOUS
<1>1. TypeOK /\ WasSplit /\ Clocked /\ GcSaw /\ Sound BY DEF IInv
<1>2. TypeOK' BY <1>1, TypeKept
<1>3. Clocked' /\ GcSaw' /\ WasSplit' BY <1>1, <1>2, ClockedKept, GcSawKept, WasSplitKept
<1>4. Sound'
  BY <1>1, <1>2, StepIs, SplitSound, ArriveSound, StoreSound, EmptiesSound, TickSound, OthersSound
     DEF Sound, Elsewhere
<1> QED BY <1>2, <1>3, <1>4 DEF IInv

(* The inductive invariant of the tables (frag_try_reassemble and the collections). *)
THEOREM Invariant == Spec => []IInv
<1>1. Init => IInv BY InitIInv
<1>2. IInv /\ [Next]_vars => IInv' BY NextKeeps
<1> QED BY <1>1, <1>2, PTL DEF Spec

(* Entries, halves and clocks have their types. *)
THEOREM TypeCorrect == Spec => []TypeOK
<1>1. IInv => TypeOK BY DEF IInv
<1> QED BY <1>1, Invariant, PTL

(* What frag_emit_join joins is the two halves of one packet, unless an id   *)
(* came round while in use or another worker cleared the entry in hand.      *)
THEOREM Joins == Spec => []JoinsMatch
<1>1. IInv => JoinsMatch
  <2> SUFFICES ASSUME IInv, pc = "reset", ~reused, ~raced
               PROVE  out[1] = out[2] /\ out[1] \in Packets
    BY DEF JoinsMatch
  <2>1. out = <<job.packet, job.packet>> /\ job \in Halves
    BY DEF IInv, Sound, Joining, WasSplit
  <2> QED BY <2>1 DEF Halves
<1> QED BY <1>1, Invariant, PTL

(* frag_table_gc_at clears a half younger than the timeout only when it *)
(* arrived after the collecting worker read the clock.                  *)
YoungStep == \A s \in Slots : Live(now, table[s]) /\ table'[s] = Empty /\ UNCHANGED worker
                => gcNow # None /\ table[s].stamp >= gcNow
THEOREM YoungOnly == Spec => YoungOnlyByRace
<1>1. IInv /\ [Next]_vars => [YoungStep]_vars
  <2> SUFFICES ASSUME IInv, [Next]_vars, NEW s \in Slots, Live(now, table[s]), table'[s] = Empty,
                      UNCHANGED worker
               PROVE  gcNow # None /\ table[s].stamp >= gcNow
    BY DEF YoungStep
  <2>1. table'[s] # table[s] /\ ~Stale(now, table[s])
    BY EmptyFacts DEF Live
  <2>2. ~Elsewhere /\ ~Tick BY <2>1, ElsewhereKeeps DEF Tick
  <2>3. ~Store /\ ~Deliver BY DEF Store, Deliver, worker
  <2>4. ASSUME NEW h \in wire, NEW again \in BOOLEAN, Arrive(h, again) PROVE FALSE
    <3>1. UNCHANGED table \/ pc' # pc BY <2>4 DEF Arrive
    <3> QED BY <2>1, <3>1 DEF worker
  <2>5. ~CollectOwn BY <2>1 DEF CollectOwn
  <2>6. GcClear BY <2>2, <2>3, <2>4, <2>5, StepIs
  <2>7. gcAt - TableSize \in Slots /\ gcNow # None /\ gcAt \in Int
    BY <2>6, FragmentAssumption, NoneFacts DEF GcClear, IInv, TypeOK, Slots
  <2>8. gcAt = TableSize + s
    BY <2>1, <2>6, <2>7, FragmentAssumption DEF GcClear, IInv, TypeOK, Slots
  <2>9. ~Expired(now, table[s].stamp) BY <2>1 DEF Live, Stale
  <2> QED BY <2>7, <2>8, <2>9 DEF IInv, GcSaw
<1> QED BY <1>1, Invariant, PTL DEF Spec, YoungOnlyByRace, YoungStep

------------------------------------------------------------------------------
(* Where halves meet.  In the L3 and L4 tables a half waits at the place of  *)
(* its id; in the L2 table, as long as no entry became free on the way there *)
(* (holed), no other entry has the id of one that waits or is in hand.       *)
Placed == layer # "L2" =>
  /\ \A s \in Slots, p \in Packets : Has(table[s], p) => s = Base(idOf[p])
  /\ pc # "idle" => slot = Base(idOf[job.packet])
Labelled == layer = "L2" =>
  /\ gcAt = None
  /\ \A s \in Slots, p \in Packets : Has(table[s], p) => table[s].id = idOf[p]
  /\ pc # "idle" => table[slot].id = idOf[job.packet]
Held(t) == Live(now, table[t]) \/ (pc # "idle" /\ slot = t)
Alone == layer = "L2" /\ ~holed =>
  \A s, t \in Slots : Live(now, table[s]) /\ Held(t) /\ table[s].id = table[t].id => s = t
NoHole == ~holed => ~SomeHole
Meeting == Placed /\ Labelled /\ Alone /\ NoHole

LEMMA LaterIs == ASSUME NEW b \in Slots, NEW n \in 0..TableSize-1
                 PROVE  Later(b, n) = IF b + n < TableSize THEN b + n ELSE b + n - TableSize
<1> USE FragmentAssumption DEF Slots, Later
<1>1. CASE b + n < TableSize BY <1>1
<1>2. CASE ~(b + n < TableSize) BY <1>2
<1> QED BY <1>1, <1>2

LEMMA Reached == ASSUME NEW b \in Slots, NEW t \in Slots
                 PROVE  \E n \in 0..TableSize-1 : Later(b, n) = t
<1>1. CASE b <= t
  <2>1. t - b \in 0..TableSize-1 /\ b + (t - b) = t /\ t < TableSize
    BY <1>1, FragmentAssumption DEF Slots
  <2>2. Later(b, t - b) = t BY <2>1, LaterIs
  <2> QED BY <2>1, <2>2
<1>2. CASE ~(b <= t)
  <2> DEFINE n == t - b + TableSize
  <2>1. n \in 0..TableSize-1 /\ b + n = t + TableSize /\ ~(b + n < TableSize)
        /\ b + n - TableSize = t
    BY <1>2, FragmentAssumption DEF Slots
  <2> HIDE DEF n
  <2>2. Later(b, n) = t BY <2>1, LaterIs
  <2> QED BY <2>1, <2>2
<1> QED BY <1>1, <1>2

LEMMA InitMeeting == Init => Meeting
<1> SUFFICES ASSUME Init PROVE Meeting OBVIOUS
<1>1. PICK p \in Packets, id \in Ids, i \in {0, 1} :
        /\ idOf = [q \in Packets |-> IF q = p THEN id ELSE None]
        /\ table = [s \in Slots |-> IF s = Base(id) THEN Left(p, id, i) ELSE Empty]
  BY DEF Init
<1>2. Left(p, id, i).id = id /\ \A q \in Packets : Has(Left(p, id, i), q) => q = p
  BY NoneFacts DEF Left, Has
<1>3. \A s \in Slots, q \in Packets : Has(table[s], q) => q = p /\ s = Base(id)
  BY <1>1, <1>2, EmptyFacts, NoneFacts DEF Has
<1>4. \A s \in Slots : Live(now, table[s]) => s = Base(id)
  BY <1>1, EmptyFacts DEF Live
<1>5. Placed /\ Labelled /\ Alone
  BY <1>1, <1>2, <1>3, <1>4 DEF Init, Placed, Labelled, Alone, Held
<1>6. ASSUME NEW s \in Slots, Live(now, table[s]), HoleBefore(s) PROVE FALSE
  <2>1. s = Base(id) /\ table[s].id = id BY <1>1, <1>2, <1>4, <1>6
  <2>2. PICK n \in 0..TableSize-1 : /\ Later(s, n) = s
                                    /\ \E m \in 0..n-1 : ~Live(now, table[Later(s, m)])
    BY <1>6, <2>1 DEF HoleBefore
  <2>3. n = 0 BY <2>2, LaterIs, FragmentAssumption DEF Slots
  <2> QED BY <2>2, <2>3
<1> QED BY <1>5, <1>6 DEF Meeting, NoHole, SomeHole

(* Steps that free entries or let them age. *)
LEMMA FewerAlone ==
  ASSUME Alone, holed' \in BOOLEAN, ~holed' => ~holed, UNCHANGED layer,
         \A s \in Slots : Live(now', table'[s]) => Live(now, table[s]) /\ table'[s] = table[s],
         \A t \in Slots : Held(t)' => Held(t) /\ table'[t].id = table[t].id
  PROVE  Alone'
<1> SUFFICES ASSUME layer = "L2", ~holed', NEW s \in Slots, NEW t \in Slots,
                    Live(now', table'[s]), Held(t)', table'[s].id = table'[t].id
             PROVE  s = t
  BY DEF Alone, Live, Stale, Waiting, Expired, Held
<1> QED BY DEF Alone

LEMMA ArriveMeets ==
  ASSUME IInv, TypeOK', Meeting, NEW h \in wire, NEW again \in BOOLEAN, Arrive(h, again),
         ~holed' => ~holed
  PROVE  Placed' /\ Labelled' /\ Alone'
<1> USE NoneFacts
<1>1. pc = "idle" /\ UNCHANGED <<layer, idOf, now, gc>> /\ TypeOK /\ WasSplit
  BY DEF Arrive, IInv
<1>2. h.packet \in Packets /\ idOf[h.packet] \in Ids /\ h \in Halves
  BY <1>1, ArriveIs DEF Halves
<1> DEFINE id == idOf[h.packet]
<1>4. CASE UNCHANGED <<table, pc, job, slot>>
  BY <1>1, <1>4 DEF Meeting, Placed, Labelled, Alone, Held, gc, Live, Stale, Waiting, Expired
<1>5. ASSUME NEW z \in Acquire(id), table' = [table EXCEPT ![z] = Prepared(@, id)],
             pc' = "store", job' = h, slot' = z
      PROVE  Placed' /\ Labelled' /\ Alone'
  <2>0. z \in Slots BY <1>2, <1>5, AcquireIs
  <2>1. /\ table'[z].id = id
        /\ \A p \in Packets : Has(table'[z], p) => Has(table[z], p) /\ table[z].id = id
        /\ \A s \in Slots : s # z => table'[s] = table[s]
    <3>1. table[z] \in Entries BY <2>0, <1>1 DEF TypeOK
    <3>2. table'[z] = Prepared(table[z], id) BY <1>1, <1>5, <2>0 DEF TypeOK
    <3>3. \A s \in Slots : s # z => table'[s] = table[s] BY <1>1, <1>5 DEF TypeOK
    <3> QED BY <1>1, <1>2, <3>1, <3>2, <3>3, PreparedIs DEF Has
  <2>2. Placed'
    <3>1. layer # "L2" => z = Base(id) BY <1>5 DEF Acquire
    <3> QED BY <1>1, <1>5, <2>1, <3>1 DEF Meeting, Placed
  <2>3. Labelled' BY <1>1, <1>5, <2>1 DEF Meeting, Labelled, gc
  <2>4. ASSUME layer = "L2", ~holed', NEW s \in Slots, s # z, Live(now, table[s]), table[s].id = id
        PROVE  FALSE
    <3>1. ~SomeHole BY <2>4 DEF Meeting, NoHole
    <3>2. PICK n \in Probed(id, now) : Later(Base(id), n) = z /\ \A m \in Probed(id, now) : n <= m
      BY <1>5, <2>4 DEF Acquire, Nearest
    <3>3. Base(id) \in Slots BY <1>2, PlaceIs, FragmentAssumption DEF Base
    <3>4. PICK k \in 0..TableSize-1 : Later(Base(id), k) = s BY <3>3, Reached
    <3>5. k \in Probed(id, now) BY <2>4, <3>4 DEF Probed
    <3>6. n < k /\ n \in 0..k-1
      BY <2>4, <3>2, <3>4, <3>5, FragmentAssumption DEF Probed
    <3>7. ~Live(now, table[z]) => HoleBefore(s) BY <2>4, <3>2, <3>4, <3>6 DEF HoleBefore
    <3>8. Live(now, table[z]) => table[z].id = id BY <3>2 DEF Probed
    <3>9. ~Live(now, table[z]) BY <2>0, <2>4, <3>8 DEF Meeting, Alone, Held
    <3> QED BY <2>4, <3>1, <3>7, <3>9 DEF SomeHole
  <2>5. Alone'
    <3> SUFFICES ASSUME layer = "L2", ~holed', NEW s \in Slots, NEW t \in Slots,
                        Live(now', table'[s]), Held(t)', table'[s].id = table'[t].id
                 PROVE  s = t
      BY <1>1 DEF Alone, Live, Stale, Waiting, Expired, Held
    <3>1. Live(now, table'[s]) /\ (Live(now, table'[t]) \/ t = z) BY <1>1, <1>5 DEF Held
    <3>2. CASE s # z /\ t # z
      <4>1. Live(now, table[s]) /\ Live(now, table[t]) /\ table[s].id = table[t].id
        BY <2>1, <3>1, <3>2
      <4> QED BY <4>1 DEF Meeting, Alone, Held
    <3>3. CASE s # z /\ t = z BY <2>1, <2>4, <3>1, <3>3
    <3>4. CASE s = z /\ t # z BY <2>1, <2>4, <3>1, <3>4
    <3> QED BY <3>2, <3>3, <3>4
  <2> QED BY <2>2, <2>3, <2>5
<1> QED BY <1>4, <1>5 DEF Arrive

LEMMA StoreMeets ==
  ASSUME IInv, TypeOK', Meeting, Store, ~holed' => ~holed
  PROVE  Placed' /\ Labelled' /\ Alone'
<1> USE NoneFacts
<1>1. /\ pc = "store" /\ pc' = "emit" /\ UNCHANGED <<layer, idOf, now, job, slot, gc>>
      /\ TypeOK /\ WasSplit
  BY DEF Store, IInv
<1>2. job \in Halves /\ slot \in Slots /\ job.packet \in Packets BY <1>1 DEF WasSplit, Halves
<1>3. /\ table'[slot].id = table[slot].id
      /\ \A p \in Packets : Has(table'[slot], p) => Has(table[slot], p) \/ p = job.packet
      /\ \A s \in Slots : s # slot => table'[s] = table[s]
  BY <1>1, <1>2 DEF Store, TypeOK, Entries, Has
<1>4. Placed' BY <1>1, <1>2, <1>3 DEF Meeting, Placed
<1>5. Labelled' BY <1>1, <1>2, <1>3 DEF Meeting, Labelled, gc
<1>6. Alone'
  <2> SUFFICES ASSUME layer = "L2", ~holed', NEW s \in Slots, NEW t \in Slots,
                      Live(now', table'[s]), Held(t)', table'[s].id = table'[t].id
               PROVE  s = t
    BY <1>1 DEF Alone, Live, Stale, Waiting, Expired, Held
  <2>1. Held(s) /\ Held(t) /\ table[s].id = table[t].id BY <1>1, <1>3 DEF Held
  <2>2. s # slot => Live(now, table[s]) BY <1>1, <1>3
  <2>3. t # slot => Live(now, table[t]) BY <1>1, <1>3 DEF Held
  <2> QED BY <2>1, <2>2, <2>3 DEF Meeting, Alone
<1> QED BY <1>4, <1>5, <1>6

LEMMA EmptiesMeet ==
  ASSUME IInv, Meeting, Deliver \/ CollectOwn \/ GcClear, ~holed' => ~holed, holed' \in BOOLEAN
  PROVE  Placed' /\ Labelled' /\ Alone'
<1> USE NoneFacts
<1>1. UNCHANGED <<layer, idOf, now>> /\ TypeOK /\ WasSplit
  BY DEF Deliver, CollectOwn, GcClear, IInv
<1>2. \A s \in Slots : table'[s] = table[s] \/ table'[s] = Empty
  BY <1>1 DEF Deliver, CollectOwn, GcClear, TypeOK
<1>3. \A s \in Slots, p \in Packets : Has(table'[s], p) => table'[s] = table[s]
  BY <1>2, EmptyFacts DEF Has
<1>4. pc' = "idle" \/ UNCHANGED worker BY DEF Deliver, CollectOwn, GcClear
<1>5. Placed' BY <1>1, <1>3, <1>4 DEF Meeting, Placed, worker
<1>6. layer = "L2" => ~GcClear BY DEF GcClear, Meeting, Labelled
<1>7. layer = "L2" => pc' = "idle" /\ UNCHANGED gc BY <1>6 DEF Deliver, CollectOwn, worker
<1>8. Labelled' BY <1>1, <1>3, <1>7 DEF Meeting, Labelled, gc
<1>9. \A s \in Slots : Live(now', table'[s]) => Live(now, table[s]) /\ table'[s] = table[s]
  BY <1>1, <1>2, EmptyFacts DEF Live
<1>10. layer = "L2" => \A t \in Slots : Held(t)' => Held(t) /\ table'[t].id = table[t].id
  BY <1>7, <1>9 DEF Held
<1>11. Alone'
  <2>1. CASE layer = "L2" BY <1>1, <1>9, <1>10, <2>1, FewerAlone DEF Meeting
  <2>2. CASE layer # "L2" BY <1>1, <2>2 DEF Alone
  <2> QED BY <2>1, <2>2
<1> QED BY <1>5, <1>8, <1>11

LEMMA TickMeets ==
  ASSUME IInv, TypeOK', Meeting, Tick, ~holed' => ~holed
  PROVE  Placed' /\ Labelled' /\ Alone'
<1>1. UNCHANGED <<layer, idOf, table, worker, gc>> /\ now' = now + 1 /\ TypeOK /\ Clocked
  BY DEF Tick, IInv
<1>2. Placed' /\ Labelled' BY <1>1 DEF Meeting, Placed, Labelled, worker, gc
<1>3. ASSUME NEW s \in Slots, Live(now', table[s]) PROVE Live(now, table[s])
  <2>1. now \in Times /\ now' \in Times /\ now <= now'
    BY <1>1, FragmentAssumption DEF TypeOK, Times
  <2>2. table[s].stamp \in {0} \cup Times /\ table[s].stamp <= now
    BY <1>1 DEF TypeOK, Entries, Clocked
  <2> QED BY <1>3, <2>1, <2>2, ExpiresOnce DEF Live, Stale
<1>4. \A t \in Slots : Held(t)' => Held(t) BY <1>1, <1>3 DEF Held, worker
<1> QED BY <1>1, <1>2, <1>3, <1>4, FewerAlone DEF Meeting, TypeOK

LEMMA OthersMeet ==
  ASSUME IInv, TypeOK', Meeting, ~holed' => ~holed, Elsewhere
  PROVE  Placed' /\ Labelled' /\ Alone'
<1> USE NoneFacts
<1>1. UNCHANGED <<layer, table, now>> /\ TypeOK /\ WasSplit
  BY DEF Elsewhere, Split, Emit, Copy, GcStart, GcSkip, GcFinds, Silent, vars, IInv
<1>2. \A p \in Packets : idOf[p] # None => idOf'[p] = idOf[p]
  BY <1>1 DEF Elsewhere, Split, Emit, Copy, GcStart, GcSkip, GcFinds, Silent, vars, TypeOK
<1>3. pc' # "idle" => pc # "idle" /\ job' = job /\ slot' = slot
  BY DEF Elsewhere, Split, Emit, Copy, GcStart, GcSkip, GcFinds, Silent, vars, worker
<1>4. pc # "idle" => job.packet \in Packets /\ idOf[job.packet] # None
  BY <1>1 DEF WasSplit, Halves
<1>5. layer = "L2" => gcAt' = gcAt
  BY DEF Elsewhere, Split, Emit, Copy, GcStart, GcSkip, GcFinds, Silent, vars, gc,
         Meeting, Labelled
<1>6. \A s \in Slots, p \in Packets : Has(table[s], p) => idOf'[p] = idOf[p]
  BY <1>1, <1>2 DEF WasSplit
<1>7. Placed' BY <1>1, <1>2, <1>3, <1>4, <1>6 DEF Meeting, Placed
<1>8. Labelled' BY <1>1, <1>2, <1>3, <1>4, <1>5, <1>6 DEF Meeting, Labelled
<1>9. \A t \in Slots : Held(t)' => Held(t) BY <1>1, <1>3 DEF Held
<1> QED BY <1>1, <1>7, <1>8, <1>9, FewerAlone DEF Meeting, TypeOK

(* An id waits where a half with it looks (frag_l2_acquire, or its own place). *)
THEOREM MeetingHolds == Spec => []Meeting
<1>1. Init => Meeting BY InitMeeting
<1>2. IInv /\ IInv' /\ Meeting /\ [Next]_vars => Meeting'
  <2> SUFFICES ASSUME IInv, IInv', Meeting, [Next]_vars PROVE Meeting' OBVIOUS
  <2>1. TypeOK' BY DEF IInv
  <2>2. (~holed' => ~holed) /\ holed' \in BOOLEAN BY <2>1 DEF Next, vars, TypeOK
  <2>3. NoHole'
    <3>1. CASE Next BY <3>1 DEF Next, NoHole
    <3>2. CASE UNCHANGED vars
      BY <3>2 DEF vars, Meeting, NoHole, SomeHole, HoleBefore, Live, Stale, Waiting, Expired
    <3> QED BY <3>1, <3>2
  <2>4. Placed' /\ Labelled' /\ Alone'
    BY <2>1, <2>2, StepIs, ArriveMeets, StoreMeets, EmptiesMeet, TickMeets, OthersMeet
  <2> QED BY <2>3, <2>4 DEF Meeting
<1> QED BY <1>1, <1>2, Invariant, PTL DEF Spec

(* Two halves of a packet that wait at the same time wait in the same entry: *)
(* always in the L3 and L4 tables, and in the L2 table unless an entry on    *)
(* the way to a waiting half was free (frag_l2_acquire stops there).         *)
THEOREM Meet == Spec => []HalvesMeet
<1>1. IInv /\ Meeting => HalvesMeet
  <2> SUFFICES ASSUME IInv, Meeting, ~holed, NEW s \in Slots, NEW t \in Slots, NEW p \in Packets,
                      Live(now, table[s]), Live(now, table[t]), Has(table[s], p), Has(table[t], p)
               PROVE  s = t
    BY DEF HalvesMeet
  <2>1. CASE layer = "L2" BY <2>1 DEF Meeting, Labelled, Alone, Held
  <2>2. CASE layer # "L2" BY <2>2 DEF Meeting, Placed
  <2> QED BY <2>1, <2>2
<1> QED BY <1>1, Invariant, MeetingHolds, PTL

==============================================================================
