------------------------------ MODULE Fragment -------------------------------
(***************************************************************************)
(* Packets split in two halves and joined again (fragment.c).  The halves  *)
(* travel on their own, and are lost, duplicated and overtaken.  The peer  *)
(* finds the waiting half by the packet's 16-bit id: at one place of the   *)
(* table for L3 and L4, by probing from that place on for L2.  A worker    *)
(* collects what waited too long.  Its own tables are L2 and L3; the L4    *)
(* table is filled by worker 0 only, because just L2 frames name their     *)
(* worker, and collected by all others, without a lock: there each step of *)
(* either thread is an action of its own.                                  *)
(***************************************************************************)
EXTENDS Integers, FiniteSets

CONSTANTS
  Packets,
  Ids, TableSize,    \* 0..65535 and FRAG_TABLE_SIZE
  Timeout,           \* FRAG_TIMEOUT_NS
  Modulus,           \* 2^64, where the difference of two times wraps
  MaxTime, MaxDups,  \* bounds: time followed, halves duplicated
  None

ASSUME FragmentAssumption ==
  /\ Ids \subseteq Nat /\ 0 \in Ids /\ TableSize \in Nat \ {0}
  /\ Timeout \in Nat /\ MaxTime \in Nat /\ MaxDups \in Nat
  /\ Modulus \in Nat /\ Timeout < MaxTime /\ MaxTime < Modulus - Timeout

Layers == {"L2", "L3", "L4"}
Slots  == 0..TableSize-1
Halves == [packet : Packets, index : {0, 1}]
Times  == Timeout+1..MaxTime   \* the clock counts from boot, long ago

ASSUME NoneAssumption == None \notin Packets \cup Halves /\ None \notin Int

VARIABLES
  layer,    \* the layer of the policy; it does not change
  idOf,     \* the id each packet was split with, or None
  wire,     \* halves on their way
  table,    \* struct frag_table
  now,      \* CLOCK_MONOTONIC
  pc, job, slot, out,  \* the worker that joins: step, half in hand, entry, copied halves
  gcNow, gcAt,         \* the other worker's collection: its time and entry, or None
  dups,     \* history: halves duplicated
  reused,   \* history: an id was given out while a half with it was on its way or waiting
  raced,    \* history: another worker cleared the entry the worker had in hand
  holed     \* history: an entry was free on the way from an id's place to its half

worker == <<pc, job, slot, out>>
gc == <<gcNow, gcAt>>
vars == <<layer, idOf, wire, table, now, worker, gc, dups, reused, raced, holed>>

Empty == [id |-> 0, first |-> None, second |-> None, stamp |-> 0]
Waiting(e) == e.first # None \/ e.second # None

(* now - timestamp_ns > FRAG_TIMEOUT_NS, on unsigned 64-bit integers *)
Expired(t, stamp) == (t - stamp) % Modulus > Timeout

Stale(t, e) == Waiting(e) /\ Expired(t, e.stamp)
Live(t, e) == Waiting(e) /\ ~Stale(t, e)

Base(id) == id % TableSize
Later(s, n) == (s + n) % TableSize

(* Entry t is free on the way from the place of an id to its waiting half. *)
HoleBefore(s) == \E n \in 0..TableSize-1 :
                   /\ Later(Base(table[s].id), n) = s
                   /\ \E m \in 0..n-1 : ~Live(now, table[Later(Base(table[s].id), m)])
SomeHole == \E s \in Slots : Live(now, table[s]) /\ HoleBefore(s)

(* A half of an earlier packet may wait; its other half was lost. *)
Left(p, id, i) == [id |-> id, first |-> IF i = 0 THEN p ELSE None,
                   second |-> IF i = 0 THEN None ELSE p, stamp |-> Timeout + 1]
Init == /\ layer \in Layers
        /\ \E p \in Packets, id \in Ids, i \in {0, 1} :
             /\ idOf = [q \in Packets |-> IF q = p THEN id ELSE None]
             /\ table = [s \in Slots |-> IF s = Base(id) THEN Left(p, id, i) ELSE Empty]
        /\ wire = {} /\ now = Timeout + 1
        /\ pc = "idle" /\ job = None /\ slot = None /\ out = None
        /\ gcNow = None /\ gcAt = None
        /\ dups = 0
        /\ reused = FALSE /\ raced = FALSE /\ holed = FALSE

------------------------------------------------------------------------------
(* The sending peer.  Other packets take ids in between. *)

InUse(id) == \/ \E h \in wire : idOf[h.packet] = id
             \/ job # None /\ idOf[job.packet] = id
             \/ \E s \in Slots : Live(now, table[s]) /\ table[s].id = id

(* frag_next_pkt_id, frag_split_and_encrypt: both halves or, on an error,    *)
(* none; of those that are sent, sent are the ones that will not be lost.    *)
Split(p, id, sent) ==
  /\ idOf[p] = None
  /\ idOf' = [idOf EXCEPT ![p] = id]
  /\ wire' = wire \cup [packet : {p}, index : sent]
  /\ reused' = (reused \/ InUse(id))
  /\ UNCHANGED <<layer, table, now, worker, gc, dups, raced>>

------------------------------------------------------------------------------
(* The worker that joins: frag_try_reassemble of the layer. *)

(* frag_l2_acquire: the first entry that is free or has the id. *)
Probed(id, t) == {n \in 0..TableSize-1 : LET e == table[Later(Base(id), n)]
                                         IN  ~Live(t, e) \/ e.id = id}
ProbedFree(id, t) == {n \in 0..TableSize-1 : ~Live(t, table[Later(Base(id), n)])}

Nearest(id, S) == {Later(Base(id), n) : n \in {k \in S : \A m \in S : k <= m}}

AcquireFree(id) ==                                       \* mutant: the id is not compared
  IF layer = "L2" THEN Nearest(id, ProbedFree(id, now)) ELSE {Base(id)}
(* The entry, or none when the table is full. *)
Acquire(id) == IF layer = "L2" THEN Nearest(id, Probed(id, now)) ELSE {Base(id)}

(* Mutant: halves with the id are kept however old they are. *)
OtherPacket(e, id) == e.id # id
(* frag_prepare_entry; the halves of another packet, or too old, are dropped. *)
Outdated(e, id) == e.id # id \/ Stale(now, e)
Prepared(e, id) == [(IF Outdated(e, id) THEN Empty ELSE e) EXCEPT !.id = id, !.stamp = now]

Arrive(h, again) ==
  LET id == idOf[h.packet]
  IN  /\ pc = "idle" /\ h \in wire
      /\ again => dups < MaxDups
      /\ dups' = IF again THEN dups + 1 ELSE dups
      /\ wire' = IF again THEN wire ELSE wire \ {h}
      /\ \/ /\ Acquire(id) = {}
            /\ UNCHANGED <<table, pc, job, slot>>
         \/ \E s \in Acquire(id) :
              /\ table' = [table EXCEPT ![s] = Prepared(@, id)]
              /\ pc' = "store" /\ job' = h /\ slot' = s
      /\ UNCHANGED <<layer, idOf, now, out, gc, reused, raced>>

(* frag_store_first, frag_store_second *)
Store == /\ pc = "store" /\ pc' = "emit"
         /\ table' = [table EXCEPT ![slot] =
                        IF job.index = 0 THEN [@ EXCEPT !.first = job.packet]
                                         ELSE [@ EXCEPT !.second = job.packet]]
         /\ UNCHANGED <<layer, idOf, wire, now, job, slot, out, gc, dups, reused, raced>>

(* frag_emit_join: the test of both flags, the copy, the entry's reset *)
Complete(e) == e.first # None /\ e.second # None
Emit == /\ pc = "emit"
        /\ IF Complete(table[slot])
           THEN pc' = "copy" /\ UNCHANGED <<job, slot>>
           ELSE pc' = "idle" /\ job' = None /\ slot' = None
        /\ UNCHANGED <<layer, idOf, wire, table, now, out, gc, dups, reused, raced>>

Copy == /\ pc = "copy" /\ pc' = "reset"
        /\ out' = <<table[slot].first, table[slot].second>>
        /\ UNCHANGED <<layer, idOf, wire, table, now, job, slot, gc, dups, reused, raced>>

Deliver == /\ pc = "reset" /\ pc' = "idle"
           /\ table' = [table EXCEPT ![slot] = Empty]
           /\ job' = None /\ slot' = None /\ out' = None
           /\ UNCHANGED <<layer, idOf, wire, now, gc, dups, reused, raced>>

------------------------------------------------------------------------------
(* fwd_crypto_frag_gc_worker_tick, frag_table_gc_at *)

CollectOwn == /\ layer # "L4" /\ pc = "idle"
              /\ table' = [s \in Slots |-> IF Stale(now, table[s]) THEN Empty ELSE table[s]]
              /\ table' # table
              /\ UNCHANGED <<layer, idOf, wire, now, worker, gc, dups, reused, raced>>

(* Another worker reads the time once, and then goes through the entries. *)
GcStart == /\ layer = "L4" /\ gcNow = None
           /\ gcNow' = now /\ gcAt' = 0
           /\ UNCHANGED <<layer, idOf, wire, table, now, worker, dups, reused, raced>>

GcGoesOn(s) == IF s + 1 \in Slots THEN gcAt' = s + 1 /\ UNCHANGED gcNow
                                  ELSE gcAt' = None /\ gcNow' = None

GcSkip == /\ gcAt \in Slots /\ ~Stale(gcNow, table[gcAt])
          /\ GcGoesOn(gcAt)
          /\ UNCHANGED <<layer, idOf, wire, table, now, worker, dups, reused, raced>>

(* It has found the entry too old; TableSize + gcAt stands for "about to clear". *)
CollectsAnything(t, e) == Waiting(e)                     \* mutant: no timeout
Collects(t, e) == Stale(t, e)
GcFinds == /\ gcAt \in Slots /\ Collects(gcNow, table[gcAt])
           /\ gcAt' = gcAt + TableSize
           /\ UNCHANGED <<layer, idOf, wire, table, now, worker, gcNow, dups, reused, raced>>

GcClear == /\ gcAt # None /\ gcAt >= TableSize
           /\ LET s == gcAt - TableSize IN
                /\ table' = [table EXCEPT ![s] = Empty]
                /\ GcGoesOn(s)
                /\ raced' = (raced \/ slot = s)
           /\ UNCHANGED <<layer, idOf, wire, now, worker, dups, reused>>

Tick == /\ now < MaxTime /\ now' = now + 1
        /\ UNCHANGED <<layer, idOf, wire, table, worker, gc, dups, reused, raced>>

(* All is sent and received, the clock has reached its bound. *)
Silent == /\ pc = "idle" /\ wire = {} /\ now = MaxTime /\ \A p \in Packets : idOf[p] # None
          /\ UNCHANGED <<layer, idOf, wire, table, now, worker, gc, dups, reused, raced>>

Sender == \E p \in Packets : \E id \in Ids, sent \in SUBSET {0, 1} \ {{}} : Split(p, id, sent)
Joiner == \/ \E h \in wire, again \in BOOLEAN : Arrive(h, again)
          \/ Store \/ Emit \/ Copy \/ Deliver
Collector == CollectOwn \/ GcStart \/ GcSkip \/ GcFinds \/ GcClear

Next == /\ Sender \/ Joiner \/ Collector \/ Tick \/ Silent
        /\ holed' = (holed \/ SomeHole')

Spec == Init /\ [][Next]_vars

------------------------------------------------------------------------------
(* Every variable has its type. *)
Entries == [id : Ids, first : Packets \cup {None}, second : Packets \cup {None},
            stamp : {0} \cup Times]
TypeOK == /\ layer \in Layers
          /\ idOf \in [Packets -> Ids \cup {None}] /\ wire \subseteq Halves
          /\ table \in [Slots -> Entries] /\ now \in Times
          /\ pc \in {"idle", "store", "emit", "copy", "reset"}
          /\ job \in Halves \cup {None} /\ slot \in Slots \cup {None}
          /\ pc = "idle" <=> slot = None
          /\ out \in {None} \cup ((Packets \cup {None}) \X (Packets \cup {None}))
          /\ gcNow \in Times \cup {None} /\ gcAt \in 0..2*TableSize-1 \cup {None}
          /\ gcNow = None <=> gcAt = None
          /\ dups \in 0..MaxDups
          /\ reused \in BOOLEAN /\ raced \in BOOLEAN /\ holed \in BOOLEAN

(* What leaves joined is the two halves of one packet, however they were     *)
(* lost, delayed and overtaken, unless an id came round while it was still   *)
(* in use or another worker cleared the entry in hand.                       *)
JoinsMatch == pc = "reset" /\ ~reused /\ ~raced => out[1] = out[2] /\ out[1] \in Packets

(* Two halves of a packet that wait at the same time wait in the same entry, *)
(* where they meet; in the L2 table only as long as no entry became free     *)
(* between the place of an id and the entry its half had to take.            *)
Has(e, p) == e.first = p \/ e.second = p
HalvesMeet == ~holed => \A s, t \in Slots, p \in Packets :
                Live(now, table[s]) /\ Live(now, table[t]) /\ Has(table[s], p) /\ Has(table[t], p)
                  => s = t

(* A waiting half younger than the timeout is given up only for a packet that *)
(* needs its entry; the collection of another worker clears it only if it     *)
(* arrived after that worker read the clock.                                  *)
YoungOnlyByRace ==
  [][\A s \in Slots : Live(now, table[s]) /\ table'[s] = Empty /\ UNCHANGED worker
        => gcNow # None /\ table[s].stamp >= gcNow]_vars
==============================================================================
