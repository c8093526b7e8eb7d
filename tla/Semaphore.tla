----------------------------- MODULE Semaphore -----------------------------
(***************************************************************************)
(* What the semaphores of kernel/libk/con/semaphore.c promise their users: *)
(* a counter that is never negative, from which a thread takes one permit  *)
(* per semaphore_down, waiting while there is none.                        *)
(***************************************************************************)
EXTENDS Naturals

CONSTANTS Threads, Semas

VARIABLES
  count,    \* permits available
  waiters   \* the threads that found none and have not returned

Init ==
  /\ count = [s \in Semas |-> 0]
  /\ waiters = [s \in Semas |-> {}]

\* semaphore_down finds no permit.
Wait(t, s) ==
  /\ count[s] = 0
  /\ waiters' = [waiters EXCEPT ![s] = @ \cup {t}]
  /\ UNCHANGED count

\* semaphore_down takes a permit, at once or after a wait.
Take(t, s) ==
  /\ count[s] > 0
  /\ count' = [count EXCEPT ![s] = @ - 1]
  /\ waiters' = [waiters EXCEPT ![s] = @ \ {t}]

\* semaphore_up and semaphore_binary_up; one interrupt may raise several.
Raise ==
  /\ count' \in [Semas -> Nat]
  /\ \A s \in Semas : count'[s] >= count[s]
  /\ UNCHANGED waiters

Next == Raise \/ \E t \in Threads, s \in Semas : Wait(t, s) \/ Take(t, s)

Spec == Init /\ [][Next]_<<count, waiters>>
=============================================================================
