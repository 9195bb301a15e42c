----------------------------- MODULE BoundedFifo -----------------------------
(***************************************************************************)
(* What struct ne_ring promises its callers: a queue of at most Cap        *)
(* packets, on which each call of ne_ring_try_push and ne_ring_try_pop     *)
(* takes effect at one instant between its invocation and its return, and  *)
(* is refused only at an instant where the queue is full (or empty).       *)
(* Module NeRing is the implementation, one shared access per step.        *)
(***************************************************************************)
EXTENDS Naturals, Sequences

CONSTANTS Items,      \* the packets pushed
          Producers,  \* the threads that push
          Consumers,  \* the threads that pop
          Cap         \* ring capacity

VARIABLES fifo,       \* the queued packets, oldest first
          ret         \* outcome of the call a thread is about to return from

vars == <<fifo, ret>>

Threads == Producers \cup Consumers
Pending == [kind |-> "none"]
Ok      == [kind |-> "ok"]
Refused == [kind |-> "refused"]
Popped(x) == [kind |-> "popped", item |-> x]

Init == /\ fifo = <<>>
        /\ ret = [t \in Threads |-> Pending]

(* The push is applied. *)
Push(p, x) == /\ ret[p] = Pending
              /\ Len(fifo) < Cap
              /\ fifo' = Append(fifo, x)
              /\ ret' = [ret EXCEPT ![p] = Ok]

(* The push is refused, at an instant where the queue holds Cap packets. *)
RefusePush(p) == /\ ret[p] = Pending
                 /\ Len(fifo) = Cap
                 /\ ret' = [ret EXCEPT ![p] = Refused]
                 /\ UNCHANGED fifo

(* The oldest packet is taken. *)
Pop(c) == /\ ret[c] = Pending
          /\ fifo # <<>>
          /\ ret' = [ret EXCEPT ![c] = Popped(Head(fifo))]
          /\ fifo' = Tail(fifo)

(* The pop is refused, at an instant where the queue is empty. *)
RefusePop(c) == /\ ret[c] = Pending
                /\ fifo = <<>>
                /\ ret' = [ret EXCEPT ![c] = Refused]
                /\ UNCHANGED fifo

(* The call returns. *)
Return(t) == /\ ret[t] # Pending
             /\ ret' = [ret EXCEPT ![t] = Pending]
             /\ UNCHANGED fifo

Next == \/ \E p \in Producers : RefusePush(p) \/ \E x \in Items : Push(p, x)
        \/ \E c \in Consumers : Pop(c) \/ RefusePop(c)
        \/ \E t \in Threads : Return(t)

Spec == Init /\ [][Next]_vars
==============================================================================
