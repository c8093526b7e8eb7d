------------------------------ MODULE MsgQueue ------------------------------
(***************************************************************************)
(* A message queue of kernel/sys/mq.c: a list of messages with its length, *)
(* the semaphore lock, used as a mutex, and the semaphore data_available,  *)
(* which counts messages.  The system calls SYS_MQSEND and SYS_MQRECV run  *)
(* in the thread of the calling process and are preempted anywhere; steps  *)
(* that only touch what lock protects are joined with the next one that is *)
(* visible to other threads.  The semaphores are those of module           *)
(* Semaphore.  One queue is modelled: the others share nothing with it.    *)
(***************************************************************************)
EXTENDS Integers, Sequences, FiniteSets

CONSTANTS
  Senders, Receivers, \* processes
  Modes,              \* how receivers call SYS_MQRECV: a subset of {"wait", "nonblock"}
  Values,             \* what messages carry
  MaxLen,             \* bound on the messages sent and not received
  NONE

Threads == Senders \cup Receivers

ASSUME MsgAssumption ==
  /\ IsFiniteSet(Senders) /\ IsFiniteSet(Receivers) /\ Senders \cap Receivers = {}
  /\ Modes \subseteq {"wait", "nonblock"}
  /\ MaxLen \in Nat \ {0} /\ NONE \notin Values

VARIABLES
  created,               \* mqs_create has made the queue
  mq, len,
  lock, data_available,  \* counts of the semaphores
  pc,                    \* where a process is in its system call
  m                      \* the message it sends or has received

queue == <<mq, len>>
sems == <<lock, data_available>>
vars == <<created, queue, sems, pc, m>>

Locations ==
  {"user", "push", "append", "pushed",
   "down", "pop", "take", "taken", "nonblock", "test", "nbdown", "null"}

TypeOK ==
  /\ created \in BOOLEAN
  /\ mq \in Seq(Values) /\ len \in Nat
  /\ lock \in Nat /\ data_available \in Nat
  /\ pc \in [Threads -> Locations]
  /\ m \in [Threads -> Values \cup {NONE}]

Init ==
  /\ created = FALSE
  /\ mq = << >> /\ len = 0
  /\ lock = 0 /\ data_available = 0
  /\ pc = [t \in Threads |-> "user"]
  /\ m = [t \in Threads |-> NONE]

Go(t, from, to) == pc[t] = from /\ pc' = [pc EXCEPT ![t] = to]

\* mqs_create: semaphore_init and semaphore_up of lock.
mqs_create ==
  /\ ~created
  /\ created' = TRUE
  /\ lock' = 1
  /\ UNCHANGED <<queue, data_available, pc, m>>

\* semaphore_down(&mqe->lock).
DownLock(t, from, to) ==
  /\ Go(t, from, to)
  /\ lock > 0
  /\ lock' = lock - 1
  /\ UNCHANGED <<created, queue, data_available, m>>

----------------------------------------------------------------------------
(* SYS_MQSEND, mq_push                                                     *)

\* find_mq has found the queue; a call that does not find it returns at once.
SendCall(t, v) ==
  /\ created
  /\ Len(mq) + Cardinality({u \in Senders : pc[u] \in {"push", "append"}}) < MaxLen
  /\ Go(t, "user", "push")
  /\ m' = [m EXCEPT ![t] = v]
  /\ UNCHANGED <<created, queue, sems>>

PushLock(t) == DownLock(t, "push", "append")

\* list_append and semaphore_up(&mqe->data_available).  The variant raises it twice.
PushAppend_Twice(t) ==
  /\ Go(t, "append", "pushed")
  /\ mq' = Append(mq, m[t])
  /\ data_available' = data_available + 2
  /\ UNCHANGED <<created, len, lock, m>>
PushAppend(t) ==
  /\ Go(t, "append", "pushed")
  /\ mq' = Append(mq, m[t])
  /\ data_available' = data_available + 1
  /\ UNCHANGED <<created, len, lock, m>>

\* len++ and semaphore_up(&mqe->lock).
PushDone(t) ==
  /\ Go(t, "pushed", "user")
  /\ len' = len + 1
  /\ lock' = lock + 1
  /\ UNCHANGED <<created, mq, data_available, m>>

----------------------------------------------------------------------------
(* SYS_MQRECV, mq_pop and mq_pop_nonblock                                  *)

RecvCall(t, mode) ==
  /\ created
  /\ Go(t, "user", IF mode = "wait" THEN "down" ELSE "nonblock")
  /\ m' = [m EXCEPT ![t] = NONE]
  /\ UNCHANGED <<created, queue, sems>>

\* semaphore_down(&mqe->data_available); the variant returns instead of waiting.
PopDown_Return(t) ==
  /\ Go(t, "down", "user")
  /\ UNCHANGED <<created, queue, sems, m>>
PopDown(t) ==
  /\ Go(t, "down", "pop")
  /\ data_available > 0
  /\ data_available' = data_available - 1
  /\ UNCHANGED <<created, queue, lock, m>>

PopLock(t) == DownLock(t, "pop", "take")

\* mq.first is taken off the list; there is none to follow in an empty one.  The variant
\* leaves it there.
Take_Keep(t, from, to) ==
  /\ mq # << >>
  /\ Go(t, from, to)
  /\ m' = [m EXCEPT ![t] = Head(mq)]
  /\ UNCHANGED <<created, queue, sems>>
Take(t, from, to) ==
  IF mq = << >>
  THEN Go(t, from, "null") /\ UNCHANGED <<created, queue, sems, m>>
  ELSE /\ Go(t, from, to)
       /\ m' = [m EXCEPT ![t] = Head(mq)]
       /\ mq' = Tail(mq)
       /\ UNCHANGED <<created, len, sems>>
PopTake(t) == Take(t, "take", "taken")

\* len-- and semaphore_up(&mqe->lock)
PopDone(t) ==
  /\ Go(t, "taken", "user")
  /\ len' = len - 1
  /\ lock' = lock + 1
  /\ UNCHANGED <<created, mq, data_available, m>>

NonblockLock(t) == DownLock(t, "nonblock", "test")

NonblockEmpty(t) ==
  /\ len = 0
  /\ Go(t, "test", "user")
  /\ lock' = lock + 1
  /\ UNCHANGED <<created, queue, data_available, m>>

NonblockTake(t) == len # 0 /\ Take(t, "test", "nbdown")

\* semaphore_down(&mqe->data_available), which may wait.  The variant goes on without it.
NonblockDown_None(t) ==
  /\ Go(t, "nbdown", "taken")
  /\ UNCHANGED <<created, queue, sems, m>>
NonblockDown(t) ==
  /\ Go(t, "nbdown", "taken")
  /\ data_available > 0
  /\ data_available' = data_available - 1
  /\ UNCHANGED <<created, queue, lock, m>>

----------------------------------------------------------------------------
SendStep(t) == PushLock(t) \/ PushAppend(t) \/ PushDone(t)
WaitStep(t) == PopDown(t) \/ PopLock(t) \/ PopTake(t)
NonblockStep(t) == NonblockLock(t) \/ NonblockEmpty(t) \/ NonblockTake(t) \/ NonblockDown(t)
RecvStep(t) == WaitStep(t) \/ NonblockStep(t) \/ PopDone(t)

Next ==
  \/ mqs_create
  \/ \E t \in Senders : SendStep(t) \/ \E v \in Values : SendCall(t, v)
  \/ \E t \in Receivers : RecvStep(t) \/ \E mode \in Modes : RecvCall(t, mode)

Spec == Init /\ [][Next]_vars

\* Every process in a system call gets the CPU again and again, and receivers call again.
\* Nothing says that one of several that wait for a semaphore ever wins.
FairSpec ==
  /\ Spec
  /\ WF_vars(mqs_create)
  /\ \A t \in Senders : WF_vars(SendStep(t))
  /\ \A t \in Receivers : WF_vars(RecvStep(t)) /\ WF_vars(\E mode \in Modes : RecvCall(t, mode))

----------------------------------------------------------------------------
(* Properties                                                              *)

At(S, L) == {t \in S : pc[t] \in L}
Holders == At(Threads, {"append", "pushed", "take", "taken", "test", "nbdown", "null"})

\* mq_pop and mq_pop_nonblock never follow mq.first of an empty list.
FirstExists == At(Receivers, {"null"}) = {}

\* lock is a mutex, and under it len counts the messages, up to the one its holder moves.
LockProtects ==
  /\ created => lock + Cardinality(Holders) = 1
  /\ len = Len(mq) - Cardinality(At(Senders, {"pushed"})) + Cardinality(At(Receivers, {"nbdown", "taken"}))

\* data_available counts the messages in the list that no receiver has claimed, apart from
\* the message mq_pop_nonblock has taken and not yet accounted for.
AvailableCounts ==
  Len(mq) + Cardinality(At(Receivers, {"nbdown"}))
    = data_available + Cardinality(At(Receivers, {"pop", "take"}))

\* Lock, length, list and semaphore agree, whoever is preempted where in mq_push, mq_pop and
\* mq_pop_nonblock.
CountsMatch == LockProtects /\ AvailableCounts

\* A message sent does not stay in the queue while receivers call, unless mq_pop_nonblock
\* has wedged it.
Wedged == data_available = 0 /\ At(Receivers, {"nbdown"}) # {}
MessagesArrive == mq # << >> ~> Wedged \/ \E t \in Receivers : pc[t] = "taken"

\* mq_pop_nonblock comes back once it has the lock, whatever other processes do.
NonblockReturns == \A t \in Receivers : pc[t] = "nbdown" ~> pc[t] = "user"

SendPending(t) == pc[t] \in {"push", "append"}
Offers == [t \in Senders |-> IF SendPending(t) THEN m[t] ELSE NONE]
Received == [t \in Receivers |-> m[t]]
F == INSTANCE Fifo WITH
       Pushers <- Senders, Poppers <- Receivers, Capacity <- MaxLen,
       queue <- mq, offer <- Offers, got <- Received
\* Each message sent by mq_push is received once, in the order they were appended.
FifoSpec == F!Spec
=============================================================================
