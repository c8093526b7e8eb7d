---------------------------- MODULE BlockQProofs ----------------------------
(***************************************************************************)
(* The blocking queue for any number of pushers and poppers, any size and  *)
(* any element size.  The invariants of BlockQ are inductive together:     *)
(* that a popper finds an element (AssertsHold) follows from the permits   *)
(* (PermitsMatch), that it finds the bytes of it from BytesMatch, and both *)
(* are kept because one thread at a time works on the queue                *)
(* (MutualExclusion).                                                      *)
(***************************************************************************)
EXTENDS BlockQ, Counting

IInv == AssertsHold /\ MutualExclusion /\ PermitsMatch /\ BytesMatch

----------------------------------------------------------------------------
(* How many threads are where                                              *)

LEMMA Counts ==
  ASSUME TypeOK
  PROVE  /\ Cardinality(Pushing) \in Nat /\ Cardinality(Announcing) \in Nat
         /\ Cardinality(Popping) \in Nat /\ Cardinality(Freeing) \in Nat
<1>1. /\ IsFiniteSet(Pushing) /\ IsFiniteSet(Announcing)
      /\ IsFiniteSet(Popping) /\ IsFiniteSet(Freeing)
  BY QueueAssumption, FS_Subset DEF Pushing, Announcing, Popping, Freeing
<1> QED BY <1>1, FS_CardinalityType

\* What a pusher's step means for the four counts.
LEMMA PusherMoves ==
  ASSUME TypeOK, NEW t \in Pushers, NEW l \in Locations, Goto(t, l)
  PROVE  /\ Popping' = Popping /\ Freeing' = Freeing
         /\ Moved(Cardinality(Pushing), Cardinality(Pushing'), pc[t], l, Claimed)
         /\ Moved(Cardinality(Announcing), Cardinality(Announcing'), pc[t], l, {"up"})
<1>1. /\ pc \in [Threads -> Locations] /\ pc' = [pc EXCEPT ![t] = l]
      /\ IsFiniteSet(Pushers) /\ Pushers \subseteq Threads /\ t \notin Poppers /\ t \in Threads
  BY QueueAssumption DEF TypeOK, Goto, Threads
<1>2. Popping' = Popping /\ Freeing' = Freeing
  BY <1>1 DEF Popping, Freeing, Threads
<1>3. /\ Pushing = Among(Pushers, pc, Claimed)
      /\ Pushing' = Among(Pushers, [pc EXCEPT ![t] = l], Claimed)
      /\ Announcing = Among(Pushers, pc, {"up"})
      /\ Announcing' = Among(Pushers, [pc EXCEPT ![t] = l], {"up"})
  BY <1>1 DEF Pushing, Announcing, Claimed, Among
<1>4. \A L : Moved(Cardinality(Among(Pushers, pc, L)),
                   Cardinality(Among(Pushers, [pc EXCEPT ![t] = l], L)), pc[t], l, L)
  BY <1>1, CountMoves, ZenonT(40)
<1> QED BY <1>2, <1>3, <1>4, ZenonT(40)

\* The same of a popper's.
LEMMA PopperMoves ==
  ASSUME TypeOK, NEW t \in Poppers, NEW l \in Locations, Goto(t, l)
  PROVE  /\ Pushing' = Pushing /\ Announcing' = Announcing
         /\ Moved(Cardinality(Popping), Cardinality(Popping'), pc[t], l, Claimed)
         /\ Moved(Cardinality(Freeing), Cardinality(Freeing'), pc[t], l, {"up"})
<1>1. /\ pc \in [Threads -> Locations] /\ pc' = [pc EXCEPT ![t] = l]
      /\ IsFiniteSet(Poppers) /\ Poppers \subseteq Threads /\ t \notin Pushers /\ t \in Threads
  BY QueueAssumption DEF TypeOK, Goto, Threads
<1>2. Pushing' = Pushing /\ Announcing' = Announcing
  BY <1>1 DEF Pushing, Announcing, Threads
<1>3. /\ Popping = Among(Poppers, pc, Claimed)
      /\ Popping' = Among(Poppers, [pc EXCEPT ![t] = l], Claimed)
      /\ Freeing = Among(Poppers, pc, {"up"})
      /\ Freeing' = Among(Poppers, [pc EXCEPT ![t] = l], {"up"})
  BY <1>1 DEF Popping, Freeing, Claimed, Among
<1>4. \A L : Moved(Cardinality(Among(Poppers, pc, L)),
                   Cardinality(Among(Poppers, [pc EXCEPT ![t] = l], L)), pc[t], l, L)
  BY <1>1, CountMoves, ZenonT(40)
<1> QED BY <1>2, <1>3, <1>4, ZenonT(40)

----------------------------------------------------------------------------
(* Arithmetic of the ring buffer                                           *)

\* Elements are whole: one more or one less is BaseSize bytes.
LEMMA Products ==
  ASSUME NEW a \in Nat, NEW b \in Nat
  PROVE  /\ a * BaseSize \in Nat /\ 0 * BaseSize = 0
         /\ (a + 1) * BaseSize = a * BaseSize + BaseSize
         /\ a < b => a * BaseSize + BaseSize <= b * BaseSize
<1>1. BaseSize \in Nat /\ BaseSize > 0
  BY QueueAssumption
<1>2. \A x \in Nat : x * BaseSize \in Nat /\ (x + 1) * BaseSize = x * BaseSize + BaseSize
  BY <1>1
<1>3. ASSUME a < b PROVE a * BaseSize + BaseSize <= b * BaseSize
  <2> DEFINE k == b - (a + 1)
  <2>1. k \in Nat /\ b = (a + 1) + k
    BY <1>3
  <2>2. b * BaseSize = (a + 1) * BaseSize + k * BaseSize
    BY <1>1, <2>1
  <2> QED BY <1>1, <1>2, <2>1, <2>2
<1> QED BY <1>1, <1>2, <1>3

LEMMA Sizes == BaseSize \in Nat /\ BaseSize > 0 /\ MaxSize \in Nat /\ RbSize \in Nat /\ RbSize > 1
<1>1. BaseSize \in Nat /\ BaseSize > 0 /\ MaxSize \in Nat /\ MaxSize > 0
  BY QueueAssumption
<1>2. 0 * BaseSize + BaseSize <= MaxSize * BaseSize /\ MaxSize * BaseSize \in Nat /\ 0 * BaseSize = 0
  BY <1>1, Products
<1> QED BY <1>1, <1>2 DEF RbSize

\* The length tells a full buffer and an empty one.
LEMMA Length ==
  ASSUME TypeOK
  PROVE  /\ ringbuff_length \in 0 .. RbSize - 1
         /\ Full <=> ringbuff_length = RbSize - 1
         /\ tail = head <=> ringbuff_length = 0
<1>1. head \in 0 .. RbSize - 1 /\ tail \in 0 .. RbSize - 1 /\ RbSize \in Nat /\ RbSize > 1
  BY Sizes DEF TypeOK
<1> QED BY <1>1 DEF ringbuff_length, Full

LEMMA Written ==
  ASSUME TypeOK, ~Full, head' = Advance(head), tail' = tail
  PROVE  head' \in 0 .. RbSize - 1 /\ ringbuff_length' = ringbuff_length + 1
<1>1. head \in 0 .. RbSize - 1 /\ tail \in 0 .. RbSize - 1 /\ RbSize \in Nat /\ RbSize > 1
  BY Sizes DEF TypeOK
<1> QED BY <1>1 DEF ringbuff_length, Full, Advance

LEMMA Read ==
  ASSUME TypeOK, tail # head, tail' = Advance(tail), head' = head
  PROVE  tail' \in 0 .. RbSize - 1 /\ ringbuff_length' = ringbuff_length - 1
<1>1. head \in 0 .. RbSize - 1 /\ tail \in 0 .. RbSize - 1 /\ RbSize \in Nat /\ RbSize > 1
  BY Sizes DEF TypeOK
<1> QED BY <1>1 DEF ringbuff_length, Advance

----------------------------------------------------------------------------
(* The type invariant                                                      *)

\* A popper with a permit has an element waiting for it, a pusher a place.
LEMMA PermitsGive ==
  ASSUME TypeOK, PermitsMatch
  PROVE  /\ \A t \in Pushers : pc[t] \in Claimed => size < MaxSize
         /\ \A t \in Poppers : pc[t] \in Claimed => size > 0
<1>1. /\ IsFiniteSet(Pushing) /\ IsFiniteSet(Popping)
      /\ Cardinality(Pushing) \in Nat /\ Cardinality(Announcing) \in Nat
      /\ Cardinality(Popping) \in Nat /\ Cardinality(Freeing) \in Nat
      /\ size \in Nat /\ not_empty \in Nat /\ not_full \in Nat /\ MaxSize \in Nat
  BY Counts, Sizes, QueueAssumption, FS_Subset DEF Pushing, Popping, TypeOK
<1>2. ASSUME NEW t \in Pushers, pc[t] \in Claimed PROVE size < MaxSize
  <2>1. Cardinality(Pushing) # 0
    BY <1>1, <1>2, FS_EmptySet DEF Pushing
  <2>2. MaxSize = size + not_full + Cardinality(Pushing) + Cardinality(Freeing)
    BY DEF PermitsMatch
  <2>3. ASSUME NEW c \in Nat, c # 0, NEW d \in Nat, MaxSize = size + not_full + c + d
        PROVE  size < MaxSize
    BY <1>1, <2>3
  <2> QED BY <1>1, <2>1, <2>2, <2>3, ZenonT(40)
<1>3. ASSUME NEW t \in Poppers, pc[t] \in Claimed PROVE size > 0
  <2>1. Cardinality(Popping) # 0
    BY <1>1, <1>3, FS_EmptySet DEF Popping
  <2>2. size = not_empty + Cardinality(Popping) + Cardinality(Announcing)
    BY DEF PermitsMatch
  <2> QED BY <1>1, <2>1, <2>2
<1> QED BY <1>2, <1>3

\* A step of either kind of thread.
ThreadStep(t) ==
  \/ Lock(t) \/ Own(t) \/ Copied(t) \/ Unlock(t)
  \/ t \in Pushers /\ (DownNotFull(t) \/ WriteByte(t) \/ PushSize(t) \/ UpNotEmpty(t)
                         \/ \E v \in Values : PushStart(t, v))
  \/ t \in Poppers /\ (DownNotEmpty(t) \/ ReadByte(t) \/ PopSize(t) \/ UpNotFull(t) \/ PopStart(t))

LEMMA NextIsThreadStep ==
  ASSUME [Next]_vars PROVE (\E t \in Threads : ThreadStep(t)) \/ UNCHANGED vars
BY ZenonT(40) DEF Next, PushStep, PopStep, ThreadStep, Threads

LEMMA TypeStep ==
  ASSUME TypeOK, PermitsMatch, NEW t \in Threads, ThreadStep(t)
  PROVE  TypeOK'
<1> USE Sizes DEF At, Locations
<1>1. CASE Lock(t)
  BY <1>1 DEF Lock, Goto, TypeOK, ring
<1>2. CASE Own(t)
  <2>1. pc' \in [Threads -> Locations] /\ failed' \in BOOLEAN
    BY <1>2, ZenonT(40) DEF Own, Assert, Goto, TypeOK
  <2>2. owner' \in Threads \cup {NONE} /\ n' \in [Threads -> 0 .. BaseSize]
    BY <1>2 DEF Own, TypeOK
  <2> QED BY <1>2, <2>1, <2>2 DEF Own, TypeOK, ring
<1>3. CASE Copied(t)
  BY <1>3, ZenonT(40) DEF Copied, Assert, Goto, TypeOK, ring, lock
<1>4. CASE Unlock(t)
  BY <1>4 DEF Unlock, Goto, TypeOK, ring
<1>5. CASE DownNotFull(t)
  BY <1>5 DEF DownNotFull, Goto, TypeOK, ring, lock
<1>6. CASE WriteByte(t)
  <2>1. head' \in 0 .. RbSize - 1
    BY <1>6, Written DEF WriteByte
  <2>2. arg[t][n[t]] \in Byte \cup {NONE}
    BY <1>6 DEF WriteByte, TypeOK
  <2> QED BY <1>6, <2>1, <2>2 DEF WriteByte, TypeOK, lock
<1>7. CASE PushSize(t)
  <2>1. pc' \in [Threads -> Locations] /\ failed' \in BOOLEAN
    BY <1>7, ZenonT(40) DEF PushSize, Assert, Goto, TypeOK
  <2> QED BY <1>7, <2>1 DEF PushSize, TypeOK, ring, lock
<1>8. CASE UpNotEmpty(t)
  BY <1>8 DEF UpNotEmpty, Goto, TypeOK, ring, lock
<1>9. ASSUME NEW v \in Values, PushStart(t, v) PROVE TypeOK'
  <2>1. [i \in 0 .. BaseSize - 1 |-> <<v, i>>] \in [0 .. BaseSize - 1 -> Byte \cup {NONE}]
    BY DEF Byte
  <2> QED BY <1>9, <2>1 DEF PushStart, Goto, TypeOK, ring, lock
<1>10. CASE DownNotEmpty(t)
  BY <1>10 DEF DownNotEmpty, Goto, TypeOK, ring, lock
<1>11. CASE ReadByte(t)
  <2>1. tail' \in 0 .. RbSize - 1
    BY <1>11, Read DEF ReadByte
  <2>2. buff[tail] \in Byte \cup {NONE}
    BY DEF TypeOK
  <2>3. arg' \in [Threads -> [0 .. BaseSize - 1 -> Byte \cup {NONE}]]
    BY <1>11, <2>2 DEF ReadByte, TypeOK
  <2> QED BY <1>11, <2>1, <2>3 DEF ReadByte, TypeOK, lock
<1>12. CASE t \in Poppers /\ PopSize(t)
  <2>1. size > 0
    BY <1>12, PermitsGive DEF PopSize, Claimed
  <2> QED BY <1>12, <2>1 DEF PopSize, Goto, TypeOK, ring, lock
<1>13. CASE UpNotFull(t)
  BY <1>13 DEF UpNotFull, Goto, TypeOK, ring, lock
<1>14. CASE PopStart(t)
  BY <1>14 DEF PopStart, Goto, TypeOK, ring, lock
<1> QED BY <1>1, <1>2, <1>3, <1>4, <1>5, <1>6, <1>7, <1>8, <1>9, <1>10, <1>11, <1>12, <1>13, <1>14
        DEF ThreadStep

----------------------------------------------------------------------------
(* The assertions                                                          *)

\* The bytes of the element, or the room for them, last to the end of the copy.
LEMMA CopyGoesOn ==
  ASSUME TypeOK, PermitsMatch, BytesMatch
  PROVE  /\ \A t \in Pushers : pc[t] = "copy" /\ n[t] # BaseSize => ~Full
         /\ \A t \in Poppers : pc[t] = "copy" /\ n[t] # BaseSize => tail # head
<1>1. BaseSize \in Nat /\ MaxSize \in Nat /\ size \in Nat /\ RbSize = MaxSize * BaseSize + 1
  BY Sizes DEF TypeOK, RbSize
<1>2. ASSUME NEW t \in Pushers, pc[t] = "copy", n[t] # BaseSize PROVE ~Full
  <2>1. size < MaxSize
    BY <1>2, PermitsGive DEF Claimed
  <2>2. size * BaseSize + BaseSize <= MaxSize * BaseSize /\ size * BaseSize \in Nat /\ MaxSize * BaseSize \in Nat
    BY <1>1, <2>1, Products
  <2>3. ringbuff_length = size * BaseSize + n[t]
    BY <1>2 DEF BytesMatch, Copying
  <2>4. n[t] \in Nat /\ n[t] < BaseSize
    BY <1>1, <1>2 DEF TypeOK, Threads
  <2>5. ringbuff_length # RbSize - 1
    BY <1>1, <2>2, <2>3, <2>4
  <2> QED BY <2>5, Length
<1>3. ASSUME NEW t \in Poppers, pc[t] = "copy", n[t] # BaseSize PROVE tail # head
  <2>1. size > 0
    BY <1>3, PermitsGive DEF Claimed
  <2>2. 0 * BaseSize + BaseSize <= size * BaseSize /\ 0 * BaseSize = 0 /\ size * BaseSize \in Nat
    BY <1>1, <2>1, Products
  <2>3. ringbuff_length = size * BaseSize - n[t]
    BY <1>3 DEF BytesMatch, Copying
  <2>4. n[t] \in Nat /\ n[t] < BaseSize
    BY <1>1, <1>3 DEF TypeOK, Threads
  <2>5. ringbuff_length # 0
    BY <1>1, <2>2, <2>3, <2>4
  <2> QED BY <2>5, Length
<1> QED BY <1>2, <1>3

LEMMA AssertStep ==
  ASSUME TypeOK, IInv, NEW t \in Threads, ThreadStep(t)
  PROVE  AssertsHold'
<1> USE DEF AssertsHold, IInv, At
<1>1. CASE Own(t)
  BY <1>1, PermitsGive DEF Own, Assert, Claimed
<1>2. CASE Copied(t)
  BY <1>2, CopyGoesOn DEF Copied, Assert
<1>3. CASE t \in Pushers /\ PushSize(t)
  <2>1. size < MaxSize
    BY <1>3, PermitsGive DEF PushSize, Claimed
  <2>2. size' <= MaxSize
    BY <1>3, <2>1, Sizes DEF PushSize, TypeOK
  <2> QED BY <1>3, <2>2 DEF PushSize, Assert
<1>4. CASE \/ Lock(t) \/ Unlock(t) \/ DownNotFull(t) \/ WriteByte(t) \/ UpNotEmpty(t)
           \/ \E v \in Values : PushStart(t, v)
  BY <1>4 DEF Lock, Unlock, DownNotFull, WriteByte, UpNotEmpty, PushStart
<1>5. CASE DownNotEmpty(t) \/ ReadByte(t) \/ PopSize(t) \/ UpNotFull(t) \/ PopStart(t)
  BY <1>5 DEF DownNotEmpty, ReadByte, PopSize, UpNotFull, PopStart
<1> QED BY <1>1, <1>2, <1>3, <1>4, <1>5 DEF ThreadStep

\* So the thread goes on from every ASSERT.
LEMMA ThreadGoes ==
  ASSUME TypeOK, AssertsHold, AssertsHold', NEW t \in Threads
  PROVE  /\ Own(t) => Goto(t, "copy")
         /\ Copied(t) => Goto(t, "size") /\ n[t] = BaseSize
         /\ PushSize(t) => Goto(t, "up")
BY DEF AssertsHold, Own, Copied, PushSize, Assert

----------------------------------------------------------------------------
(* The lock                                                                *)

InLock == {"own", "copy", "size", "up", "unlock"}

\* The thread in the critical section is alone there and has the lock.
LEMMA CriticalAlone ==
  ASSUME TypeOK, MutualExclusion, NEW t \in Threads, pc[t] \in InLock
  PROVE  /\ locked /\ (pc[t] # "own" => owner = t)
         /\ \A u \in Threads : u # t => pc[u] \notin InLock
BY DEF MutualExclusion, Critical, InLock

\* A step inside the lock, or outside, that leaves the lock alone.
LEMMA ExclusionKept ==
  ASSUME TypeOK, MutualExclusion, NEW t \in Threads, NEW l, Goto(t, l), UNCHANGED lock,
         l \in InLock => pc[t] \in InLock \ {"own"} /\ l # "own"
  PROVE  MutualExclusion'
<1>1. \A u \in Threads : pc'[u] = IF u = t THEN l ELSE pc[u]
  BY DEF Goto, TypeOK
<1>2. \A u \in Critical' : u \in Critical /\ (pc'[u] # "own" => pc[u] # "own")
  BY <1>1 DEF Critical, InLock
<1>3. UNCHANGED <<locked, owner>>
  BY DEF lock
<1> QED BY <1>2, <1>3 DEF MutualExclusion

LEMMA ExclusionStep ==
  ASSUME TypeOK, IInv, AssertsHold', NEW t \in Threads, ThreadStep(t)
  PROVE  MutualExclusion'
<1> USE DEF IInv, At, InLock
<1>1. CASE Lock(t)
  <2>1. \A u \in Threads : pc'[u] = IF u = t THEN "own" ELSE pc[u]
    BY <1>1 DEF Lock, Goto, TypeOK
  <2>2. Critical = {} /\ locked'
    BY <1>1 DEF Lock, MutualExclusion
  <2>3. Critical' = {t}
    BY <2>1, <2>2 DEF Critical
  <2>4. pc'[t] = "own"
    BY <2>1
  <2> QED BY <2>2, <2>3, <2>4, ZenonT(40) DEF MutualExclusion
<1>2. CASE Own(t)
  <2>1. \A u \in Threads : pc'[u] = IF u = t THEN "copy" ELSE pc[u]
    BY <1>2, ThreadGoes DEF Goto, TypeOK
  <2>2. locked' /\ owner' = t /\ \A u \in Threads : u # t => pc[u] \notin InLock
    BY <1>2, CriticalAlone DEF Own
  <2>3. Critical' = {t}
    BY <2>1, <2>2 DEF Critical
  <2> QED BY <2>2, <2>3 DEF MutualExclusion
<1>3. CASE Unlock(t)
  <2>1. \A u \in Threads : pc'[u] = IF u = t THEN "idle" ELSE pc[u]
    BY <1>3 DEF Unlock, Goto, TypeOK
  <2>2. \A u \in Threads : u # t => pc[u] \notin InLock
    BY <1>3, CriticalAlone DEF Unlock
  <2>3. Critical' = {}
    BY <2>1, <2>2 DEF Critical
  <2> QED BY <2>3 DEF MutualExclusion
<1>4. CASE Copied(t)
  BY <1>4, ThreadGoes, ExclusionKept DEF Copied
<1>5. CASE PushSize(t)
  BY <1>5, ThreadGoes, ExclusionKept DEF PushSize
<1>6. CASE WriteByte(t) \/ ReadByte(t)
  BY <1>6 DEF WriteByte, ReadByte, lock, MutualExclusion, Critical
<1>7. CASE DownNotFull(t)
  BY <1>7, ExclusionKept DEF DownNotFull
<1>8. CASE DownNotEmpty(t)
  BY <1>8, ExclusionKept DEF DownNotEmpty
<1>9. CASE UpNotEmpty(t)
  BY <1>9, ExclusionKept DEF UpNotEmpty
<1>10. CASE UpNotFull(t)
  BY <1>10, ExclusionKept DEF UpNotFull
<1>11. CASE PopSize(t)
  BY <1>11, ExclusionKept DEF PopSize
<1>12. CASE PopStart(t) \/ \E v \in Values : PushStart(t, v)
  BY <1>12, ExclusionKept DEF PopStart, PushStart
<1> QED BY <1>1, <1>2, <1>3, <1>4, <1>5, <1>6, <1>7, <1>8, <1>9, <1>10, <1>11, <1>12 DEF ThreadStep

----------------------------------------------------------------------------
(* The permits                                                             *)

LEMMA PermitsStep ==
  ASSUME TypeOK, IInv, AssertsHold', NEW t \in Threads, ThreadStep(t)
  PROVE  PermitsMatch'
<1> USE DEF At, Locations
<1>0. /\ Cardinality(Pushing) \in Nat /\ Cardinality(Announcing) \in Nat
      /\ Cardinality(Popping) \in Nat /\ Cardinality(Freeing) \in Nat
      /\ size \in Nat /\ not_empty \in Nat /\ not_full \in Nat /\ MaxSize \in Nat
      /\ PermitsMatch
  BY Counts, Sizes DEF TypeOK, IInv
<1> DEFINE Kept(l) == /\ Goto(t, l) /\ UNCHANGED <<size, not_empty, not_full>>
                      /\ (pc[t] \in Claimed <=> l \in Claimed) /\ (pc[t] = "up" <=> l = "up")
<1>1. ASSUME NEW l \in Locations, Kept(l) PROVE PermitsMatch'
  <2>1. \A u \in Threads : /\ pc'[u] \in Claimed <=> pc[u] \in Claimed
                           /\ pc'[u] = "up" <=> pc[u] = "up"
    BY <1>1 DEF Goto, TypeOK
  <2>2. Pushing' = Pushing /\ Announcing' = Announcing /\ Popping' = Popping /\ Freeing' = Freeing
    BY <2>1 DEF Pushing, Announcing, Popping, Freeing, Threads
  <2> QED BY <1>0, <1>1, <2>2 DEF PermitsMatch
<1>2. CASE Lock(t) \/ Unlock(t) \/ PopStart(t) \/ \E v \in Values : PushStart(t, v)
  BY <1>1, <1>2 DEF Lock, Unlock, PopStart, PushStart, Claimed
<1>3. CASE Own(t) \/ Copied(t)
  <2>1. Kept("copy") \/ Kept("size")
    BY <1>3, ThreadGoes DEF Own, Copied, Claimed, IInv
  <2> QED BY <1>1, <2>1
<1>4. CASE WriteByte(t) \/ ReadByte(t)
  BY <1>0, <1>4, ZenonT(40) DEF WriteByte, ReadByte, PermitsMatch, Pushing, Announcing, Popping, Freeing
<1>5. CASE t \in Pushers /\ DownNotFull(t)
  <2>1. /\ Moved(Cardinality(Pushing), Cardinality(Pushing'), "down", "lock", Claimed)
        /\ Moved(Cardinality(Announcing), Cardinality(Announcing'), "down", "lock", {"up"})
        /\ Popping' = Popping /\ Freeing' = Freeing
    BY <1>5, PusherMoves DEF DownNotFull
  <2>2. Cardinality(Pushing') = Cardinality(Pushing) + 1 /\ Cardinality(Announcing') = Cardinality(Announcing)
    BY <2>1 DEF Moved, Claimed
  <2>3. not_full' = not_full - 1 /\ UNCHANGED <<size, not_empty>>
    BY <1>5 DEF DownNotFull
  <2> QED BY <1>0, <2>1, <2>2, <2>3 DEF PermitsMatch
<1>6. CASE t \in Pushers /\ PushSize(t)
  <2>1. /\ Moved(Cardinality(Pushing), Cardinality(Pushing'), "size", "up", Claimed)
        /\ Moved(Cardinality(Announcing), Cardinality(Announcing'), "size", "up", {"up"})
        /\ Popping' = Popping /\ Freeing' = Freeing
    BY <1>6, ThreadGoes, PusherMoves DEF PushSize, IInv
  <2>2. Cardinality(Pushing') = Cardinality(Pushing) - 1 /\ Cardinality(Announcing') = Cardinality(Announcing) + 1
    BY <2>1 DEF Moved, Claimed
  <2>3. size' = size + 1 /\ UNCHANGED <<not_full, not_empty>>
    BY <1>6 DEF PushSize
  <2> QED BY <1>0, <2>1, <2>2, <2>3 DEF PermitsMatch
<1>7. CASE t \in Pushers /\ UpNotEmpty(t)
  <2>1. /\ Moved(Cardinality(Pushing), Cardinality(Pushing'), "up", "unlock", Claimed)
        /\ Moved(Cardinality(Announcing), Cardinality(Announcing'), "up", "unlock", {"up"})
        /\ Popping' = Popping /\ Freeing' = Freeing
    BY <1>7, PusherMoves DEF UpNotEmpty
  <2>2. Cardinality(Pushing') = Cardinality(Pushing) /\ Cardinality(Announcing') = Cardinality(Announcing) - 1
    BY <2>1 DEF Moved, Claimed
  <2>3. not_empty' = not_empty + 1 /\ UNCHANGED <<size, not_full>>
    BY <1>7 DEF UpNotEmpty
  <2> QED BY <1>0, <2>1, <2>2, <2>3 DEF PermitsMatch
<1>8. CASE t \in Poppers /\ DownNotEmpty(t)
  <2>1. /\ Moved(Cardinality(Popping), Cardinality(Popping'), "down", "lock", Claimed)
        /\ Moved(Cardinality(Freeing), Cardinality(Freeing'), "down", "lock", {"up"})
        /\ Pushing' = Pushing /\ Announcing' = Announcing
    BY <1>8, PopperMoves DEF DownNotEmpty
  <2>2. Cardinality(Popping') = Cardinality(Popping) + 1 /\ Cardinality(Freeing') = Cardinality(Freeing)
    BY <2>1 DEF Moved, Claimed
  <2>3. not_empty' = not_empty - 1 /\ UNCHANGED <<size, not_full>>
    BY <1>8 DEF DownNotEmpty
  <2> QED BY <1>0, <2>1, <2>2, <2>3 DEF PermitsMatch
<1>9. CASE t \in Poppers /\ PopSize(t)
  <2>1. /\ Moved(Cardinality(Popping), Cardinality(Popping'), "size", "up", Claimed)
        /\ Moved(Cardinality(Freeing), Cardinality(Freeing'), "size", "up", {"up"})
        /\ Pushing' = Pushing /\ Announcing' = Announcing
    BY <1>9, PopperMoves DEF PopSize
  <2>2. Cardinality(Popping') = Cardinality(Popping) - 1 /\ Cardinality(Freeing') = Cardinality(Freeing) + 1
    BY <2>1 DEF Moved, Claimed
  <2>3. size' = size - 1 /\ UNCHANGED <<not_full, not_empty>>
    BY <1>9 DEF PopSize
  <2> QED BY <1>0, <2>1, <2>2, <2>3 DEF PermitsMatch
<1>10. CASE t \in Poppers /\ UpNotFull(t)
  <2>1. /\ Moved(Cardinality(Popping), Cardinality(Popping'), "up", "unlock", Claimed)
        /\ Moved(Cardinality(Freeing), Cardinality(Freeing'), "up", "unlock", {"up"})
        /\ Pushing' = Pushing /\ Announcing' = Announcing
    BY <1>10, PopperMoves DEF UpNotFull
  <2>2. Cardinality(Popping') = Cardinality(Popping) /\ Cardinality(Freeing') = Cardinality(Freeing) - 1
    BY <2>1 DEF Moved, Claimed
  <2>3. not_full' = not_full + 1 /\ UNCHANGED <<size, not_empty>>
    BY <1>10 DEF UpNotFull
  <2> QED BY <1>0, <2>1, <2>2, <2>3 DEF PermitsMatch
<1> QED BY <1>2, <1>3, <1>4, <1>5, <1>6, <1>7, <1>8, <1>9, <1>10 DEF ThreadStep

----------------------------------------------------------------------------
(* The bytes                                                               *)

\* BytesMatch while t is the only thread that copies.
LEMMA BytesOfOne ==
  ASSUME NEW t \in Threads,
         \A u \in Threads : u # t => pc'[u] \notin Copying,
         pc'[t] \notin Copying => ringbuff_length' = size' * BaseSize,
         t \in Pushers /\ pc'[t] \in Copying => ringbuff_length' = size' * BaseSize + n'[t],
         t \in Poppers /\ pc'[t] \in Copying => ringbuff_length' = size' * BaseSize - n'[t],
         pc'[t] = "size" => n'[t] = BaseSize
  PROVE  BytesMatch'
BY DEF BytesMatch, Copying, Threads

LEMMA BytesStep ==
  ASSUME TypeOK, IInv, AssertsHold', NEW t \in Threads, ThreadStep(t)
  PROVE  BytesMatch'
<1> USE DEF At
<1>0. TypeOK /\ MutualExclusion /\ BytesMatch /\ AssertsHold
  BY DEF IInv
<1>1. ASSUME NEW l, Goto(t, l), UNCHANGED <<ring, size, n>>,
             pc[t] \notin Copying, l \notin Copying
      PROVE  BytesMatch'
  <2>1. \A u \in Threads : /\ pc'[u] \in Copying <=> pc[u] \in Copying
                           /\ pc'[u] = "size" <=> pc[u] = "size"
    BY <1>1 DEF Goto, TypeOK, Copying
  <2>2. ringbuff_length' = ringbuff_length /\ size' = size /\ n' = n
    BY <1>1 DEF ring, ringbuff_length
  <2> QED BY <1>0, <2>1, <2>2 DEF BytesMatch, Threads
<1>2. CASE Lock(t) \/ Unlock(t) \/ DownNotFull(t) \/ UpNotEmpty(t) \/ \E v \in Values : PushStart(t, v)
  BY <1>1, <1>2 DEF Lock, Unlock, DownNotFull, UpNotEmpty, PushStart, Copying
<1>3. CASE DownNotEmpty(t) \/ UpNotFull(t) \/ PopStart(t)
  BY <1>1, <1>3 DEF DownNotEmpty, UpNotFull, PopStart, Copying
<1>4. ASSUME pc[t] \in {"own", "copy", "size"}
      PROVE  /\ \A u \in Threads : u # t => pc[u] \notin Copying
             /\ n[t] \in Nat /\ BaseSize \in Nat /\ size \in Nat /\ size * BaseSize \in Nat
             /\ ringbuff_length \in Nat
             /\ pc[t] = "own" => ringbuff_length = size * BaseSize
             /\ t \in Pushers /\ pc[t] # "own" => ringbuff_length = size * BaseSize + n[t]
             /\ t \in Poppers /\ pc[t] # "own" => ringbuff_length = size * BaseSize - n[t]
             /\ pc[t] = "size" => n[t] = BaseSize
  <2>1. \A u \in Threads : u # t => pc[u] \notin Copying
    BY <1>0, <1>4, CriticalAlone DEF InLock, Copying
  <2>2. n[t] \in Nat /\ BaseSize \in Nat /\ size \in Nat
    BY <1>0, Sizes DEF TypeOK
  <2>3. size * BaseSize \in Nat
    BY <2>2, Products
  <2>4. ringbuff_length \in Nat
    BY <1>0, Sizes, Length
  <2>5. pc[t] = "own" => \A u \in Threads : pc[u] \notin Copying
    BY <2>1 DEF Copying
  <2>6. pc[t] # "own" => pc[t] \in Copying
    BY <1>4 DEF Copying
  <2> QED BY <1>0, <2>1, <2>2, <2>3, <2>4, <2>5, <2>6 DEF BytesMatch
<1>5. CASE Own(t)
  <2>1. \A u \in Threads : pc'[u] = IF u = t THEN "copy" ELSE pc[u]
    BY <1>0, <1>5, ThreadGoes DEF Goto, TypeOK
  <2>2. n'[t] = 0 /\ size' = size /\ ringbuff_length' = ringbuff_length /\ pc[t] = "own"
    BY <1>0, <1>5 DEF Own, TypeOK, ring, ringbuff_length
  <2> QED BY <1>4, <2>1, <2>2, BytesOfOne
<1>6. CASE t \in Pushers /\ WriteByte(t)
  <2>1. pc' = pc /\ pc[t] = "copy" /\ n'[t] = n[t] + 1 /\ size' = size /\ t \notin Poppers
    BY <1>0, <1>6, QueueAssumption DEF WriteByte, TypeOK
  <2>2. ringbuff_length' = ringbuff_length + 1
    BY <1>0, <1>6, Written DEF WriteByte
  <2>3. ringbuff_length' = size' * BaseSize + n'[t]
    BY <1>4, <1>6, <2>1, <2>2
  <2> QED BY <1>4, <2>1, <2>3, BytesOfOne DEF Copying
<1>7. CASE t \in Poppers /\ ReadByte(t)
  <2>1. pc' = pc /\ pc[t] = "copy" /\ n'[t] = n[t] + 1 /\ size' = size /\ t \notin Pushers
    BY <1>0, <1>7, QueueAssumption DEF ReadByte, TypeOK
  <2>2. ringbuff_length' = ringbuff_length - 1
    BY <1>0, <1>7, Read DEF ReadByte
  <2>3. ringbuff_length' = size' * BaseSize - n'[t]
    BY <1>4, <1>7, <2>1, <2>2
  <2> QED BY <1>4, <2>1, <2>3, BytesOfOne DEF Copying
<1>8. CASE Copied(t)
  <2>1. \A u \in Threads : pc'[u] = IF u = t THEN "size" ELSE pc[u]
    BY <1>0, <1>8, ThreadGoes DEF Goto, TypeOK
  <2>2. n' = n /\ n[t] = BaseSize /\ size' = size /\ ringbuff_length' = ringbuff_length /\ pc[t] = "copy"
    BY <1>0, <1>8, ThreadGoes DEF Copied, ring, ringbuff_length
  <2> QED BY <1>4, <2>1, <2>2, BytesOfOne DEF Copying
<1>9. CASE t \in Pushers /\ PushSize(t)
  <2>1. \A u \in Threads : pc'[u] = IF u = t THEN "up" ELSE pc[u]
    BY <1>0, <1>9, ThreadGoes DEF Goto, TypeOK
  <2>2. n' = n /\ size' = size + 1 /\ ringbuff_length' = ringbuff_length /\ pc[t] = "size"
    BY <1>9 DEF PushSize, ring, ringbuff_length
  <2>3. size' * BaseSize = size * BaseSize + BaseSize
    BY <1>4, <2>2, Products
  <2>4. ringbuff_length' = size' * BaseSize
    BY <1>4, <1>9, <2>2, <2>3
  <2> QED BY <1>4, <2>1, <2>2, <2>4, BytesOfOne DEF Copying
<1>10. CASE t \in Poppers /\ PopSize(t)
  <2>1. \A u \in Threads : pc'[u] = IF u = t THEN "up" ELSE pc[u]
    BY <1>0, <1>10 DEF PopSize, Goto, TypeOK
  <2>2. n' = n /\ size' = size - 1 /\ ringbuff_length' = ringbuff_length /\ pc[t] = "size"
    BY <1>10 DEF PopSize, ring, ringbuff_length
  <2>3. size > 0
    BY <1>10, <2>2, PermitsGive DEF IInv, Claimed
  <2>4. size' \in Nat /\ size = size' + 1
    BY <1>4, <2>2, <2>3
  <2>5. size * BaseSize = size' * BaseSize + BaseSize /\ size' * BaseSize \in Nat
    BY <2>4, Products
  <2>6. ringbuff_length' = size' * BaseSize
    BY <1>4, <1>10, <2>2, <2>5
  <2> QED BY <1>4, <2>1, <2>2, <2>6, BytesOfOne DEF Copying
<1> QED BY <1>2, <1>3, <1>5, <1>6, <1>7, <1>8, <1>9, <1>10 DEF ThreadStep

----------------------------------------------------------------------------
(* The theorems                                                            *)

LEMMA InitOK == Init => TypeOK /\ IInv
<1> SUFFICES ASSUME Init PROVE TypeOK /\ IInv
  OBVIOUS
<1>1. TypeOK
  <2>1. /\ 0 \in 0 .. RbSize - 1 /\ 0 \in 0 .. BaseSize /\ 0 \in Nat /\ MaxSize \in Nat
        /\ "idle" \in Locations
    BY Sizes DEF Locations
  <2> QED BY <2>1, ZenonT(40) DEF Init, TypeOK
<1>2. AssertsHold /\ MutualExclusion
  BY DEF Init, AssertsHold, MutualExclusion, Critical
<1>3. Pushing = {} /\ Announcing = {} /\ Popping = {} /\ Freeing = {}
  BY DEF Init, Pushing, Announcing, Popping, Freeing, Claimed, Threads
<1>4. PermitsMatch
  BY <1>3, Sizes, FS_EmptySet DEF Init, PermitsMatch
<1>5. BytesMatch
  BY Sizes, Products DEF Init, BytesMatch, Copying, ringbuff_length, Threads
<1> QED BY <1>1, <1>2, <1>4, <1>5 DEF IInv

LEMMA StepOK == TypeOK /\ IInv /\ [Next]_vars => TypeOK' /\ IInv'
<1> SUFFICES ASSUME TypeOK, IInv, [Next]_vars PROVE TypeOK' /\ IInv'
  OBVIOUS
<1>1. ASSUME NEW t \in Threads, ThreadStep(t) PROVE TypeOK' /\ IInv'
  <2>1. AssertsHold'
    BY <1>1, AssertStep
  <2>2. TypeOK'
    BY <1>1, TypeStep DEF IInv
  <2>3. MutualExclusion' /\ PermitsMatch' /\ BytesMatch'
    BY <1>1, <2>1, ExclusionStep, PermitsStep, BytesStep
  <2> QED BY <2>1, <2>2, <2>3 DEF IInv
<1>2. CASE UNCHANGED vars
  <2>1. UNCHANGED <<head, tail, buff, size, not_empty, not_full, locked, owner, pc, n, arg, failed>>
    BY <1>2 DEF vars, ring, lock
  <2>2. TypeOK'
    BY <2>1 DEF TypeOK
  <2>3. AssertsHold' /\ MutualExclusion'
    BY <2>1 DEF IInv, AssertsHold, MutualExclusion, Critical
  <2>4. PermitsMatch'
    BY <2>1 DEF IInv, PermitsMatch, Pushing, Announcing, Popping, Freeing
  <2>5. BytesMatch'
    BY <2>1 DEF IInv, BytesMatch, ringbuff_length
  <2> QED BY <2>2, <2>3, <2>4, <2>5 DEF IInv
<1> QED BY <1>1, <1>2, NextIsThreadStep

\* The ring indices stay inside the buffer and the counters never go below zero.
THEOREM TypeCorrect == Spec => []TypeOK
<1>1. Spec => [](TypeOK /\ IInv)
  BY InitOK, StepOK, PTL DEF Spec
<1> QED BY <1>1, PTL

\* No ASSERT of blockq_push or blockq_pop ever fails.
THEOREM AssertsNeverFail == Spec => []AssertsHold
<1>1. TypeOK /\ IInv => AssertsHold
  BY DEF IInv
<1> QED BY <1>1, InitOK, StepOK, PTL DEF Spec

\* One thread at a time works on the queue, and its spinlock_unlock unlocks.
THEOREM Exclusion == Spec => []MutualExclusion
<1>1. TypeOK /\ IInv => MutualExclusion
  BY DEF IInv
<1> QED BY <1>1, InitOK, StepOK, PTL DEF Spec

\* The two semaphores account for every element and every free place.
THEOREM Permits == Spec => []PermitsMatch
<1>1. TypeOK /\ IInv => PermitsMatch
  BY DEF IInv
<1> QED BY <1>1, InitOK, StepOK, PTL DEF Spec

\* The ring buffer holds whole elements, up to the one being copied.
THEOREM Bytes == Spec => []BytesMatch
<1>1. TypeOK /\ IInv => BytesMatch
  BY DEF IInv
<1> QED BY <1>1, InitOK, StepOK, PTL DEF Spec

\* Both together: the semaphores, the size and the ring buffer of a queue agree at every step of
\* blockq_push and blockq_pop.
THEOREM Agreement == Spec => []CountsMatch
<1>1. PermitsMatch /\ BytesMatch => CountsMatch
  BY DEF CountsMatch
<1> QED BY <1>1, Permits, Bytes, PTL
=============================================================================
