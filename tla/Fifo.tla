-------------------------------- MODULE Fifo --------------------------------
(***************************************************************************)
(* What a blocking queue promises (kernel/libk/con/blockq.c): every value  *)
(* pushed is queued once, at most Capacity values wait, and each is popped *)
(* once, whole and in order.                                               *)
(***************************************************************************)
EXTENDS Naturals, Sequences

CONSTANTS Pushers, Poppers, Values, Capacity, NONE

VARIABLES
  queue,
  offer,   \* the value a pusher waits to queue
  got      \* the value a popper took last, until it asks again

Init ==
  /\ queue = << >>
  /\ offer = [t \in Pushers |-> NONE]
  /\ got = [t \in Poppers |-> NONE]

Offer(t, v) ==
  /\ offer[t] = NONE
  /\ offer' = [offer EXCEPT ![t] = v]
  /\ UNCHANGED <<queue, got>>

Push(t) ==
  /\ offer[t] # NONE
  /\ Len(queue) < Capacity
  /\ queue' = Append(queue, offer[t])
  /\ offer' = [offer EXCEPT ![t] = NONE]
  /\ UNCHANGED got

Ask(t) ==
  /\ got' = [got EXCEPT ![t] = NONE]
  /\ UNCHANGED <<queue, offer>>

Pop(t) ==
  /\ got[t] = NONE
  /\ queue # << >>
  /\ got' = [got EXCEPT ![t] = Head(queue)]
  /\ queue' = Tail(queue)
  /\ UNCHANGED offer

Next ==
  \/ \E t \in Pushers : Push(t) \/ \E v \in Values : Offer(t, v)
  \/ \E t \in Poppers : Ask(t) \/ Pop(t)

Spec == Init /\ [][Next]_<<queue, offer, got>>
=============================================================================
