------------------------------- MODULE BlockQ -------------------------------
(***************************************************************************)
(* The blocking queue of kernel/libk/con/blockq.c: a ring buffer of bytes  *)
(* (kernel/libk/ringbuff.c) guarded by a spinlock                          *)
(* (kernel/libk/con/spinlock.c), with two semaphores counting the elements *)
(* and the free places.  A thread may be preempted between any two steps.  *)
(* The semaphores are the abstract ones of module Semaphore, which those   *)
(* of the kernel implement: semaphore_down is a step that waits for a      *)
(* permit and takes it.                                                    *)
(***************************************************************************)
EXTENDS Integers, Sequences, FiniteSets

CONSTANTS
  Pushers, Poppers,  \* the threads that push and those that pop
  Values,            \* the elements; BaseSize bytes each
  MaxSize, BaseSize, \* max_size and base_size
  NONE

Threads == Pushers \cup Poppers

ASSUME QueueAssumption ==
  /\ MaxSize \in Nat \ {0} /\ BaseSize \in Nat \ {0}
  /\ IsFiniteSet(Pushers) /\ IsFiniteSet(Poppers) /\ Pushers \cap Poppers = {}
  /\ NONE \notin Values \cup Threads

\* ringbuff_init keeps one index free to tell a full buffer from an empty one; the
\* variant does not.
RbSize_NoSlack == MaxSize * BaseSize
RbSize == MaxSize * BaseSize + 1

Byte == Values \X (0 .. BaseSize - 1)

VARIABLES
  head, tail, buff,     \* the ring buffer
  size,
  not_empty, not_full,  \* counts of the semaphores
  locked, owner,        \* the spinlock
  pc,                   \* where a thread is in blockq_push or blockq_pop
  n,                    \* wlen or rlen
  arg,                  \* the bytes of the caller's buffer
  failed                \* an ASSERT has failed

ring == <<head, tail, buff>>
lock == <<locked, owner>>
vars == <<ring, size, not_empty, not_full, lock, pc, n, arg, failed>>

Locations == {"idle", "down", "lock", "own", "copy", "size", "up", "unlock"}

TypeOK ==
  /\ head \in 0 .. RbSize - 1 /\ tail \in 0 .. RbSize - 1
  /\ buff \in [0 .. RbSize - 1 -> Byte \cup {NONE}]
  /\ size \in Nat /\ not_empty \in Nat /\ not_full \in Nat
  /\ locked \in BOOLEAN /\ owner \in Threads \cup {NONE}
  /\ pc \in [Threads -> Locations]
  /\ n \in [Threads -> 0 .. BaseSize]
  /\ arg \in [Threads -> [0 .. BaseSize - 1 -> Byte \cup {NONE}]]
  /\ failed \in BOOLEAN

\* blockq_init
Init ==
  /\ head = 0 /\ tail = 0
  /\ buff = [i \in 0 .. RbSize - 1 |-> NONE]
  /\ size = 0 /\ not_empty = 0 /\ not_full = MaxSize
  /\ locked = FALSE /\ owner = NONE
  /\ pc = [t \in Threads |-> "idle"]
  /\ n = [t \in Threads |-> 0]
  /\ arg = [t \in Threads |-> [i \in 0 .. BaseSize - 1 |-> NONE]]
  /\ failed = FALSE

At(t, l) == ~failed /\ pc[t] = l
Goto(t, l) == pc' = [pc EXCEPT ![t] = l]

\* An ASSERT, and where the thread goes when it holds.
Assert(cond, t, l) ==
  IF cond THEN Goto(t, l) /\ UNCHANGED failed ELSE failed' = TRUE /\ UNCHANGED pc

----------------------------------------------------------------------------
(* spinlock_lock, spinlock_unlock                                          *)

\* The compare-and-swap succeeds; until then the thread yields and tries again.  The
\* variant reads and writes without looking.
Lock_NoTest(t) ==
  /\ At(t, "lock")
  /\ locked' = TRUE
  /\ Goto(t, "own")
  /\ UNCHANGED <<ring, size, not_empty, not_full, owner, n, arg, failed>>
Lock(t) ==
  /\ At(t, "lock") /\ ~locked
  /\ locked' = TRUE
  /\ Goto(t, "own")
  /\ UNCHANGED <<ring, size, not_empty, not_full, owner, n, arg, failed>>

\* blockq_pop goes on to its first ASSERT.  The variant leaves the owner alone.
Own_Stale(t) ==
  /\ At(t, "own")
  /\ Assert(t \in Poppers => size > 0, t, "copy")
  /\ n' = [n EXCEPT ![t] = 0]
  /\ UNCHANGED <<ring, size, not_empty, not_full, lock, arg>>
Own(t) ==
  /\ At(t, "own")
  /\ owner' = t
  /\ Assert(t \in Poppers => size > 0, t, "copy")
  /\ n' = [n EXCEPT ![t] = 0]
  /\ UNCHANGED <<ring, size, not_empty, not_full, locked, arg>>

\* A thread that does not own the lock gets -1, which nobody looks at.
Unlock(t) ==
  /\ At(t, "unlock")
  /\ locked' = (locked /\ owner # t)
  /\ Goto(t, "idle")
  /\ UNCHANGED <<ring, size, not_empty, not_full, owner, n, arg, failed>>

----------------------------------------------------------------------------
(* ringbuff_write, ringbuff_read: one byte, or the end of the loop         *)

Advance(i) == IF i + 1 = RbSize THEN 0 ELSE i + 1

ringbuff_length == IF head >= tail THEN head - tail ELSE head + RbSize - tail

Full == head = tail - 1 \/ (tail = 0 /\ head = RbSize - 1)

WriteByte(t) ==
  /\ At(t, "copy") /\ n[t] < BaseSize /\ ~Full
  /\ buff' = [buff EXCEPT ![head] = arg[t][n[t]]]
  /\ head' = Advance(head)
  /\ n' = [n EXCEPT ![t] = @ + 1]
  /\ UNCHANGED <<tail, size, not_empty, not_full, lock, pc, arg, failed>>

ReadByte(t) ==
  /\ At(t, "copy") /\ n[t] < BaseSize /\ tail # head
  /\ arg' = [arg EXCEPT ![t][n[t]] = buff[tail]]
  /\ tail' = Advance(tail)
  /\ n' = [n EXCEPT ![t] = @ + 1]
  /\ UNCHANGED <<head, buff, size, not_empty, not_full, lock, pc, failed>>

\* ASSERT(wb == base_size) or ASSERT(rb == base_size)
Copied(t) ==
  /\ At(t, "copy")
  /\ \/ n[t] = BaseSize
     \/ t \in Pushers /\ Full
     \/ t \in Poppers /\ tail = head
  /\ Assert(n[t] = BaseSize, t, "size")
  /\ UNCHANGED <<ring, size, not_empty, not_full, lock, n, arg>>

----------------------------------------------------------------------------
(* blockq_push                                                             *)

PushStart(t, v) ==
  /\ At(t, "idle")
  /\ arg' = [arg EXCEPT ![t] = [i \in 0 .. BaseSize - 1 |-> <<v, i>>]]
  /\ Goto(t, "down")
  /\ UNCHANGED <<ring, size, not_empty, not_full, lock, n, failed>>

\* semaphore_down; the variant does not take the permit.
DownNotFull_Keep(t) ==
  /\ At(t, "down") /\ not_full > 0
  /\ Goto(t, "lock")
  /\ UNCHANGED <<ring, size, not_empty, not_full, lock, n, arg, failed>>
DownNotFull(t) ==
  /\ At(t, "down") /\ not_full > 0
  /\ not_full' = not_full - 1
  /\ Goto(t, "lock")
  /\ UNCHANGED <<ring, size, not_empty, lock, n, arg, failed>>

PushSize(t) ==
  /\ At(t, "size")
  /\ size' = size + 1
  /\ Assert(size' <= MaxSize, t, "up")
  /\ UNCHANGED <<ring, not_empty, not_full, lock, n, arg>>

UpNotEmpty(t) ==
  /\ At(t, "up")
  /\ not_empty' = not_empty + 1
  /\ Goto(t, "unlock")
  /\ UNCHANGED <<ring, size, not_full, lock, n, arg, failed>>

----------------------------------------------------------------------------
(* blockq_pop                                                              *)

PopStart(t) ==
  /\ At(t, "idle")
  /\ Goto(t, "down")
  /\ UNCHANGED <<ring, size, not_empty, not_full, lock, n, arg, failed>>

\* semaphore_down; the variant returns instead of waiting.
DownNotEmpty_Return(t) ==
  /\ At(t, "down")
  /\ Goto(t, "idle")
  /\ UNCHANGED <<ring, size, not_empty, not_full, lock, n, arg, failed>>
DownNotEmpty(t) ==
  /\ At(t, "down") /\ not_empty > 0
  /\ not_empty' = not_empty - 1
  /\ Goto(t, "lock")
  /\ UNCHANGED <<ring, size, not_full, lock, n, arg, failed>>

PopSize(t) ==
  /\ At(t, "size")
  /\ size' = size - 1
  /\ Goto(t, "up")
  /\ UNCHANGED <<ring, not_empty, not_full, lock, n, arg, failed>>

\* The variant forgets the place that became free.
UpNotFull_Lost(t) ==
  /\ At(t, "up")
  /\ Goto(t, "unlock")
  /\ UNCHANGED <<ring, size, not_empty, not_full, lock, n, arg, failed>>
UpNotFull(t) ==
  /\ At(t, "up")
  /\ not_full' = not_full + 1
  /\ Goto(t, "unlock")
  /\ UNCHANGED <<ring, size, not_empty, lock, n, arg, failed>>

----------------------------------------------------------------------------
\* What a call already made goes on to do.
PushStep(t) == DownNotFull(t) \/ Lock(t) \/ Own(t) \/ WriteByte(t) \/ Copied(t)
                 \/ PushSize(t) \/ UpNotEmpty(t) \/ Unlock(t)
PopStep(t) == DownNotEmpty(t) \/ Lock(t) \/ Own(t) \/ ReadByte(t) \/ Copied(t)
                \/ PopSize(t) \/ UpNotFull(t) \/ Unlock(t)

Next ==
  \/ \E t \in Pushers : PushStep(t) \/ \E v \in Values : PushStart(t, v)
  \/ \E t \in Poppers : PopStep(t) \/ PopStart(t)

Spec == Init /\ [][Next]_vars

\* Every thread in a call gets the CPU again and again, and the poppers are drivers that
\* pop in an endless loop (sd_driver_loop).  Nothing says that a thread which competes for
\* a semaphore or for the lock ever wins against the others.
FairSpec ==
  /\ Spec
  /\ \A t \in Pushers : WF_vars(PushStep(t))
  /\ \A t \in Poppers : WF_vars(PopStep(t)) /\ WF_vars(PopStart(t))

----------------------------------------------------------------------------
(* Properties                                                              *)

\* The threads that hold a permit of not_full for a place not yet counted in size, those
\* whose element is counted and not announced, and the same of the poppers.
Claimed == {"lock", "own", "copy", "size"}
Pushing == {t \in Pushers : pc[t] \in Claimed}
Announcing == {t \in Pushers : pc[t] = "up"}
Popping == {t \in Poppers : pc[t] \in Claimed}
Freeing == {t \in Poppers : pc[t] = "up"}
Critical == {t \in Threads : pc[t] \in {"own", "copy", "size", "up", "unlock"}}

\* No ASSERT of blockq_push and blockq_pop ever fails: a popper that got through its
\* semaphore finds a whole element, a pusher finds room for one, and size stays in bounds.
AssertsHold == ~failed

\* The spinlock excludes: one thread at a time works on the ring buffer, and it is the owner
\* by then, so that its spinlock_unlock does unlock.
MutualExclusion ==
  /\ \A t, u \in Critical : t = u
  /\ \A t \in Critical : locked /\ (pc[t] # "own" => owner = t)

\* The semaphores count what they stand for: elements no popper has claimed, and places no
\* pusher has claimed, the threads on the way included.
PermitsMatch ==
  /\ size = not_empty + Cardinality(Popping) + Cardinality(Announcing)
  /\ MaxSize = size + not_full + Cardinality(Pushing) + Cardinality(Freeing)

\* The bytes between tail and head are size whole elements, more what a pusher has written
\* and less what a popper has read of the element it is copying.
Copying == {"copy", "size"}
BytesMatch ==
  /\ (\A t \in Threads : pc[t] \notin Copying) => ringbuff_length = size * BaseSize
  /\ \A t \in Pushers : pc[t] \in Copying => ringbuff_length = size * BaseSize + n[t]
  /\ \A t \in Poppers : pc[t] \in Copying => ringbuff_length = size * BaseSize - n[t]
  /\ \A t \in Threads : pc[t] = "size" => n[t] = BaseSize

\* Queue, semaphores and bytes agree, whoever is preempted where in blockq_push and blockq_pop.
CountsMatch == PermitsMatch /\ BytesMatch

\* The queue does not wedge: while pushers wait for a place, pushes complete.
PushersGetOn == (\E t \in Pushers : pc[t] = "down") ~> \E t \in Pushers : pc[t] = "unlock"

----------------------------------------------------------------------------
\* The elements in the ring buffer, the one a popper has read in part included and the
\* one a pusher has written in part not.
Element(f) == IF \E v \in Values : f = [i \in 0 .. BaseSize - 1 |-> <<v, i>>] THEN f[0][1] ELSE "torn"
Readers == {t \in Poppers : pc[t] = "copy"}
Unread == IF Readers = {} THEN 0 ELSE n[CHOOSE t \in Readers : TRUE] % BaseSize
First == (tail - Unread) % RbSize
Queue ==
  [k \in 1 .. (ringbuff_length + Unread) \div BaseSize |->
     Element([i \in 0 .. BaseSize - 1 |-> buff[(First + (k - 1) * BaseSize + i) % RbSize]])]
PushPending(t) == pc[t] \in {"down", "lock", "own"} \/ (pc[t] = "copy" /\ n[t] < BaseSize)
PopPending(t) == pc[t] \in {"down", "lock", "own"} \/ (pc[t] = "copy" /\ n[t] < BaseSize)

F == INSTANCE Fifo WITH
       Capacity <- MaxSize, queue <- Queue,
       offer <- [t \in Pushers |-> IF PushPending(t) THEN Element(arg[t]) ELSE NONE],
       got <- [t \in Poppers |-> IF PopPending(t) \/ arg[t][0] = NONE THEN NONE ELSE Element(arg[t])]
\* What blockq_push and blockq_pop make of the bytes is a FIFO of whole elements.
FifoSpec == F!Spec
=============================================================================
