--------------------------- MODULE MsgQueueProofs ---------------------------
(***************************************************************************)
(* A message queue for any number of senders and receivers.  That a        *)
(* receiver never follows the first element of an empty list (FirstExists) *)
(* rests on two counts: data_available counts the messages nobody has      *)
(* claimed (AvailableCounts), and len those in the list (LockProtects).    *)
(* Both are off by what the holder of lock is about to correct, so they    *)
(* are kept only because there is one holder.                              *)
(***************************************************************************)
EXTENDS MsgQueue, Counting

HeldAt == {"append", "pushed", "take", "taken", "test", "nbdown", "null"}

\* The numbers of threads that the invariants relate.
NHold == Cardinality(Holders)
NPushed == Cardinality(At(Senders, {"pushed"}))
NTaken == Cardinality(At(Receivers, {"nbdown", "taken"}))
NNonblock == Cardinality(At(Receivers, {"nbdown"}))
NClaim == Cardinality(At(Receivers, {"pop", "take"}))

\* lock is 0 until mqs_create, and then free or held by one.
LockCount == lock + NHold = IF created THEN 1 ELSE 0
LenCount == len = Len(mq) - NPushed + NTaken
DataCount == Len(mq) + NNonblock = data_available + NClaim
\* What a sender appends is a message.
Carries == \A t \in Senders : pc[t] \in {"push", "append"} => m[t] \in Values

IInv == LockCount /\ LenCount /\ DataCount /\ Carries /\ FirstExists

----------------------------------------------------------------------------
LEMMA Numbers ==
  ASSUME TypeOK
  PROVE  /\ NHold \in Nat /\ NPushed \in Nat /\ NTaken \in Nat /\ NNonblock \in Nat /\ NClaim \in Nat
         /\ IsFiniteSet(Holders) /\ IsFiniteSet(Threads)
<1>1. IsFiniteSet(Senders) /\ IsFiniteSet(Receivers) /\ IsFiniteSet(Threads)
  BY MsgAssumption, FS_Union DEF Threads
<1>2. /\ IsFiniteSet(Holders) /\ IsFiniteSet(At(Senders, {"pushed"}))
      /\ IsFiniteSet(At(Receivers, {"nbdown", "taken"})) /\ IsFiniteSet(At(Receivers, {"nbdown"}))
      /\ IsFiniteSet(At(Receivers, {"pop", "take"}))
  BY <1>1, FS_Subset DEF Holders, At
<1> QED BY <1>1, <1>2, FS_CardinalityType DEF NHold, NPushed, NTaken, NNonblock, NClaim

\* What the step of a sender from location x to l means for the numbers, ...
SenderMoved(x, l) ==
  /\ Moved(NHold, NHold', x, l, HeldAt)
  /\ Moved(NPushed, NPushed', x, l, {"pushed"})
  /\ NTaken' = NTaken /\ NNonblock' = NNonblock /\ NClaim' = NClaim
LEMMA SenderMoves ==
  ASSUME TypeOK, NEW t \in Senders, NEW l \in Locations, pc' = [pc EXCEPT ![t] = l]
  PROVE  SenderMoved(pc[t], l)
<1>1. /\ pc \in [Threads -> Locations] /\ IsFiniteSet(Senders) /\ IsFiniteSet(Threads)
      /\ Senders \subseteq Threads /\ t \in Threads /\ \A x \in Receivers : pc'[x] = pc[x]
  BY MsgAssumption, Numbers DEF TypeOK, Threads
<1>2. /\ Holders = Among(Threads, pc, HeldAt) /\ Holders' = Among(Threads, [pc EXCEPT ![t] = l], HeldAt)
      /\ At(Senders, {"pushed"}) = Among(Senders, pc, {"pushed"})
      /\ At(Senders, {"pushed"})' = Among(Senders, [pc EXCEPT ![t] = l], {"pushed"})
  BY DEF Holders, At, Among, HeldAt
<1>3. /\ Moved(Cardinality(Among(Threads, pc, HeldAt)),
               Cardinality(Among(Threads, [pc EXCEPT ![t] = l], HeldAt)), pc[t], l, HeldAt)
      /\ Moved(Cardinality(Among(Senders, pc, {"pushed"})),
               Cardinality(Among(Senders, [pc EXCEPT ![t] = l], {"pushed"})), pc[t], l, {"pushed"})
  BY <1>1, CountMoves, ZenonT(40)
<1>4. \A L : {x \in Receivers : pc'[x] \in L} = {x \in Receivers : pc[x] \in L}
  BY <1>1
<1>5. NTaken' = NTaken /\ NNonblock' = NNonblock /\ NClaim' = NClaim
  BY <1>4 DEF NTaken, NNonblock, NClaim, At
<1> QED BY <1>2, <1>3, <1>5, ZenonT(40) DEF NHold, NPushed, SenderMoved

\* ... and that of a receiver.
ReceiverMoved(x, l) ==
  /\ Moved(NHold, NHold', x, l, HeldAt)
  /\ Moved(NTaken, NTaken', x, l, {"nbdown", "taken"})
  /\ Moved(NNonblock, NNonblock', x, l, {"nbdown"})
  /\ Moved(NClaim, NClaim', x, l, {"pop", "take"})
  /\ NPushed' = NPushed
LEMMA ReceiverMoves ==
  ASSUME TypeOK, NEW t \in Receivers, NEW l \in Locations, pc' = [pc EXCEPT ![t] = l]
  PROVE  ReceiverMoved(pc[t], l)
<1>1. /\ pc \in [Threads -> Locations] /\ IsFiniteSet(Receivers) /\ IsFiniteSet(Threads)
      /\ Receivers \subseteq Threads /\ t \in Threads /\ \A x \in Senders : pc'[x] = pc[x]
  BY MsgAssumption, Numbers DEF TypeOK, Threads
<1>2. /\ Holders = Among(Threads, pc, HeldAt) /\ Holders' = Among(Threads, [pc EXCEPT ![t] = l], HeldAt)
      /\ \A L : At(Receivers, L) = Among(Receivers, pc, L)
      /\ \A L : {x \in Receivers : pc'[x] \in L} = Among(Receivers, [pc EXCEPT ![t] = l], L)
  BY DEF Holders, At, Among, HeldAt
<1>3. /\ Moved(Cardinality(Among(Threads, pc, HeldAt)),
               Cardinality(Among(Threads, [pc EXCEPT ![t] = l], HeldAt)), pc[t], l, HeldAt)
      /\ \A L : Moved(Cardinality(Among(Receivers, pc, L)),
                      Cardinality(Among(Receivers, [pc EXCEPT ![t] = l], L)), pc[t], l, L)
  BY <1>1, CountMoves, ZenonT(40)
<1>4. Moved(NHold, NHold', pc[t], l, HeldAt)
  BY <1>2, <1>3, ZenonT(40) DEF NHold
<1>5. /\ Moved(NTaken, NTaken', pc[t], l, {"nbdown", "taken"})
      /\ Moved(NNonblock, NNonblock', pc[t], l, {"nbdown"})
      /\ Moved(NClaim, NClaim', pc[t], l, {"pop", "take"})
  BY <1>2, <1>3, ZenonT(40) DEF NTaken, NNonblock, NClaim, At
<1>6. {x \in Senders : pc'[x] \in {"pushed"}} = {x \in Senders : pc[x] \in {"pushed"}}
  BY <1>1
<1> QED BY <1>4, <1>5, <1>6 DEF NPushed, At, ReceiverMoved

----------------------------------------------------------------------------
(* The holder of lock is alone                                             *)

LEMMA Alone ==
  ASSUME TypeOK, LockCount, NEW t \in Threads, pc[t] \in HeldAt
  PROVE  lock = 0 /\ created /\ Holders = {t}
<1>1. t \in Holders /\ IsFiniteSet(Holders) /\ NHold \in Nat /\ lock \in Nat
  BY Numbers DEF Holders, At, HeldAt, TypeOK
<1>2. NHold # 0
  BY <1>1, FS_EmptySet DEF NHold
<1>3. lock = 0 /\ created /\ NHold = 1
  BY <1>1, <1>2 DEF LockCount
<1>4. PICK x : Holders = {x}
  BY <1>1, <1>3, FS_Singleton DEF NHold
<1> QED BY <1>1, <1>3, <1>4

\* So it finds what the counts promise: mq_pop a message, mq_pop_nonblock one when len is
\* not 0, and who has taken one a len to lower.
LEMMA CountsGive ==
  ASSUME TypeOK, IInv, NEW t \in Receivers, pc[t] \in HeldAt
  PROVE  /\ pc[t] = "take" => mq # << >>
         /\ pc[t] = "test" /\ len # 0 => mq # << >>
         /\ pc[t] = "taken" => len > 0
<1>1. /\ NPushed \in Nat /\ NTaken \in Nat /\ NNonblock \in Nat /\ NClaim \in Nat
      /\ mq \in Seq(Values) /\ len \in Nat /\ data_available \in Nat /\ t \in Threads /\ t \notin Senders
  BY Numbers, MsgAssumption DEF TypeOK, Threads
<1>2. Holders = {t}
  BY <1>1, Alone DEF IInv
<1>3. At(Senders, {"pushed"}) = {}
  BY <1>1, <1>2 DEF Holders, At, Threads
<1>4. pc[t] \in {"take", "test"} => At(Receivers, {"nbdown", "taken"}) = {} /\ At(Receivers, {"nbdown"}) = {}
  BY <1>2 DEF Holders, At, Threads
<1>5. NPushed = 0 /\ (pc[t] \in {"take", "test"} => NTaken = 0 /\ NNonblock = 0)
  BY <1>3, <1>4, FS_EmptySet DEF NPushed, NTaken, NNonblock
<1>6. IsFiniteSet(At(Receivers, {"pop", "take"})) /\ IsFiniteSet(At(Receivers, {"nbdown", "taken"}))
  BY MsgAssumption, FS_Subset DEF At
<1>7. pc[t] = "take" => NClaim # 0
  BY <1>6, FS_EmptySet DEF NClaim, At
<1>8. pc[t] = "taken" => NTaken # 0
  BY <1>6, FS_EmptySet DEF NTaken, At
<1>9. len = Len(mq) - NPushed + NTaken /\ Len(mq) + NNonblock = data_available + NClaim
  BY DEF IInv, LenCount, DataCount
<1> QED BY <1>1, <1>5, <1>7, <1>8, <1>9

----------------------------------------------------------------------------
(* One lemma for each side of the queue                                    *)

LEMMA CreateStep ==
  ASSUME TypeOK, IInv, mqs_create
  PROVE  TypeOK' /\ IInv'
<1>1. TypeOK'
  BY DEF mqs_create, TypeOK, queue
<1>2. /\ NHold' = NHold /\ NPushed' = NPushed /\ NTaken' = NTaken
      /\ NNonblock' = NNonblock /\ NClaim' = NClaim
  BY DEF mqs_create, NHold, NPushed, NTaken, NNonblock, NClaim, Holders, At
<1>3. lock \in Nat /\ NHold \in Nat
  BY Numbers DEF TypeOK
<1>4. LockCount'
  BY <1>2, <1>3 DEF mqs_create, LockCount, IInv
<1>5. LenCount' /\ DataCount'
  BY <1>2 DEF mqs_create, LenCount, DataCount, IInv, queue
<1>6. Carries' /\ FirstExists'
  BY DEF mqs_create, Carries, FirstExists, At, IInv
<1> QED BY <1>1, <1>4, <1>5, <1>6 DEF IInv

LEMMA SenderStep ==
  ASSUME TypeOK, IInv, NEW t \in Senders, SendStep(t) \/ \E v \in Values : SendCall(t, v)
  PROVE  TypeOK' /\ IInv'
<1>1. /\ lock \in Nat /\ data_available \in Nat /\ len \in Nat /\ mq \in Seq(Values)
      /\ NHold \in Nat /\ NPushed \in Nat /\ NTaken \in Nat /\ NNonblock \in Nat /\ NClaim \in Nat
      /\ pc \in [Threads -> Locations] /\ t \in Threads /\ t \notin Receivers
  BY Numbers, MsgAssumption DEF TypeOK, Threads
<1>2. /\ lock + NHold = IF created THEN 1 ELSE 0
      /\ len = Len(mq) - NPushed + NTaken
      /\ Len(mq) + NNonblock = data_available + NClaim
  BY DEF IInv, LockCount, LenCount, DataCount
<1>3. ASSUME NEW l \in Locations, pc' = [pc EXCEPT ![t] = l]
      PROVE  FirstExists' /\ pc' \in [Threads -> Locations] /\ SenderMoved(pc[t], l)
  <2>1. FirstExists' /\ pc' \in [Threads -> Locations]
    BY <1>1, <1>3 DEF FirstExists, At, IInv, Threads
  <2> QED BY <1>3, <2>1, SenderMoves
<1>4. ASSUME NEW v \in Values, SendCall(t, v) PROVE TypeOK' /\ IInv'
  <2>1. pc' = [pc EXCEPT ![t] = "push"] /\ pc[t] = "user" /\ m' = [m EXCEPT ![t] = v]
    BY <1>4 DEF SendCall, Go
  <2>2. FirstExists' /\ pc' \in [Threads -> Locations] /\ SenderMoved("user", "push")
    BY <1>3, <2>1 DEF Locations
  <2>3. TypeOK'
    BY <1>4, <2>2 DEF SendCall, TypeOK, queue, sems
  <2>4. /\ NHold' = NHold /\ NPushed' = NPushed /\ NTaken' = NTaken
        /\ NNonblock' = NNonblock /\ NClaim' = NClaim
    BY <2>2 DEF SenderMoved, Moved, HeldAt
  <2>5. LockCount' /\ LenCount' /\ DataCount'
    BY <1>2, <1>4, <2>4 DEF SendCall, LockCount, LenCount, DataCount, queue, sems
  <2>6. Carries'
    BY <1>1, <2>1 DEF Carries, IInv, TypeOK
  <2> QED BY <2>2, <2>3, <2>5, <2>6 DEF IInv
<1>5. CASE PushLock(t)
  <2>1. pc' = [pc EXCEPT ![t] = "append"] /\ pc[t] = "push" /\ m' = m
    BY <1>5 DEF PushLock, DownLock, Go
  <2>2. FirstExists' /\ pc' \in [Threads -> Locations] /\ SenderMoved("push", "append")
    BY <1>3, <2>1 DEF Locations
  <2>3. TypeOK'
    BY <1>5, <2>2 DEF PushLock, DownLock, TypeOK, queue
  <2>4. /\ NHold' = NHold + 1 /\ NPushed' = NPushed /\ NTaken' = NTaken
        /\ NNonblock' = NNonblock /\ NClaim' = NClaim
    BY <2>2 DEF SenderMoved, Moved, HeldAt
  <2>5. LockCount' /\ LenCount' /\ DataCount'
    BY <1>1, <1>2, <1>5, <2>4 DEF PushLock, DownLock, LockCount, LenCount, DataCount, queue
  <2>6. Carries'
    BY <1>1, <2>1 DEF Carries, IInv
  <2> QED BY <2>2, <2>3, <2>5, <2>6 DEF IInv
<1>6. CASE PushAppend(t)
  <2>1. /\ pc' = [pc EXCEPT ![t] = "pushed"] /\ pc[t] = "append" /\ m' = m
        /\ mq' = Append(mq, m[t]) /\ m[t] \in Values
    BY <1>6 DEF PushAppend, Go, IInv, Carries
  <2>2. FirstExists' /\ pc' \in [Threads -> Locations] /\ SenderMoved("append", "pushed")
    BY <1>3, <2>1 DEF Locations
  <2>3. mq' \in Seq(Values) /\ Len(mq') = Len(mq) + 1
    BY <1>1, <2>1
  <2>4. TypeOK'
    BY <1>6, <2>2, <2>3 DEF PushAppend, TypeOK
  <2>5. /\ NHold' = NHold /\ NPushed' = NPushed + 1 /\ NTaken' = NTaken
        /\ NNonblock' = NNonblock /\ NClaim' = NClaim
    BY <2>2 DEF SenderMoved, Moved, HeldAt
  <2>6. LockCount' /\ LenCount' /\ DataCount'
    BY <1>1, <1>2, <1>6, <2>3, <2>5 DEF PushAppend, LockCount, LenCount, DataCount
  <2>7. Carries'
    BY <1>1, <2>1 DEF Carries, IInv
  <2> QED BY <2>2, <2>4, <2>6, <2>7 DEF IInv
<1>7. CASE PushDone(t)
  <2>1. pc' = [pc EXCEPT ![t] = "user"] /\ pc[t] = "pushed" /\ m' = m
    BY <1>7 DEF PushDone, Go
  <2>2. FirstExists' /\ pc' \in [Threads -> Locations] /\ SenderMoved("pushed", "user")
    BY <1>3, <2>1 DEF Locations
  <2>3. TypeOK'
    BY <1>7, <2>2 DEF PushDone, TypeOK
  <2>4. /\ NHold' = NHold - 1 /\ NPushed' = NPushed - 1 /\ NTaken' = NTaken
        /\ NNonblock' = NNonblock /\ NClaim' = NClaim
    BY <2>2 DEF SenderMoved, Moved, HeldAt
  <2>5. LockCount' /\ LenCount' /\ DataCount'
    BY <1>1, <1>2, <1>7, <2>4 DEF PushDone, LockCount, LenCount, DataCount
  <2>6. Carries'
    BY <1>1, <2>1 DEF Carries, IInv
  <2> QED BY <2>2, <2>3, <2>5, <2>6 DEF IInv
<1> QED BY <1>4, <1>5, <1>6, <1>7 DEF SendStep

LEMMA ReceiverStep ==
  ASSUME TypeOK, IInv, NEW t \in Receivers, RecvStep(t) \/ \E mode \in Modes : RecvCall(t, mode)
  PROVE  TypeOK' /\ IInv'
<1>1. /\ lock \in Nat /\ data_available \in Nat /\ len \in Nat /\ mq \in Seq(Values)
      /\ NHold \in Nat /\ NPushed \in Nat /\ NTaken \in Nat /\ NNonblock \in Nat /\ NClaim \in Nat
      /\ pc \in [Threads -> Locations] /\ m \in [Threads -> Values \cup {NONE}]
      /\ t \in Threads /\ t \notin Senders /\ Senders \subseteq Threads
  BY Numbers, MsgAssumption DEF TypeOK, Threads
<1>2. /\ lock + NHold = IF created THEN 1 ELSE 0
      /\ len = Len(mq) - NPushed + NTaken
      /\ Len(mq) + NNonblock = data_available + NClaim
  BY DEF IInv, LockCount, LenCount, DataCount
<1>3. ASSUME NEW l \in Locations, pc' = [pc EXCEPT ![t] = l], l # "null", \A x \in Senders : m'[x] = m[x]
      PROVE  FirstExists' /\ Carries' /\ pc' \in [Threads -> Locations] /\ ReceiverMoved(pc[t], l)
  <2>1. FirstExists' /\ pc' \in [Threads -> Locations]
    BY <1>1, <1>3 DEF FirstExists, At, IInv, Threads
  <2>2. Carries'
    BY <1>1, <1>3 DEF Carries, IInv
  <2> QED BY <1>3, <2>1, <2>2, ReceiverMoves
<1>4. /\ pc[t] = "take" => mq # << >>
      /\ pc[t] = "test" /\ len # 0 => mq # << >>
      /\ pc[t] = "taken" => len > 0
  BY CountsGive DEF HeldAt
<1>5. ASSUME NEW mode \in Modes, RecvCall(t, mode) PROVE TypeOK' /\ IInv'
  <2>1. PICK l \in {"down", "nonblock"} : pc' = [pc EXCEPT ![t] = l]
    BY <1>5 DEF RecvCall, Go
  <2>2. pc[t] = "user" /\ \A x \in Senders : m'[x] = m[x]
    BY <1>1, <1>5 DEF RecvCall, Go
  <2>3. FirstExists' /\ Carries' /\ pc' \in [Threads -> Locations] /\ ReceiverMoved("user", l)
    BY <1>3, <2>1, <2>2 DEF Locations
  <2>4. TypeOK'
    BY <1>5, <2>3 DEF RecvCall, TypeOK, queue, sems
  <2>5. NHold' = NHold /\ NTaken' = NTaken /\ NNonblock' = NNonblock /\ NClaim' = NClaim /\ NPushed' = NPushed
    BY <2>1, <2>3 DEF ReceiverMoved, Moved, HeldAt
  <2>6. LockCount' /\ LenCount' /\ DataCount'
    BY <1>2, <1>5, <2>5 DEF RecvCall, LockCount, LenCount, DataCount, queue, sems
  <2> QED BY <2>3, <2>4, <2>6 DEF IInv
<1>6. CASE PopDown(t)
  <2>1. pc' = [pc EXCEPT ![t] = "pop"] /\ pc[t] = "down" /\ \A x \in Senders : m'[x] = m[x]
    BY <1>1, <1>6 DEF PopDown, Go
  <2>2. FirstExists' /\ Carries' /\ pc' \in [Threads -> Locations] /\ ReceiverMoved("down", "pop")
    BY <1>3, <2>1 DEF Locations
  <2>3. TypeOK'
    BY <1>6, <2>2 DEF PopDown, queue, TypeOK
  <2>4. NHold' = NHold /\ NTaken' = NTaken /\ NNonblock' = NNonblock /\ NClaim' = NClaim + 1 /\ NPushed' = NPushed
    BY <2>2 DEF ReceiverMoved, Moved, HeldAt
  <2>5. LockCount' /\ LenCount' /\ DataCount'
    BY <1>1, <1>2, <1>6, <2>4 DEF PopDown, queue, LockCount, LenCount, DataCount
  <2> QED BY <2>2, <2>3, <2>5 DEF IInv
<1>7. CASE PopLock(t)
  <2>1. pc' = [pc EXCEPT ![t] = "take"] /\ pc[t] = "pop" /\ \A x \in Senders : m'[x] = m[x]
    BY <1>1, <1>7 DEF PopLock, DownLock, Go
  <2>2. FirstExists' /\ Carries' /\ pc' \in [Threads -> Locations] /\ ReceiverMoved("pop", "take")
    BY <1>3, <2>1 DEF Locations
  <2>3. TypeOK'
    BY <1>7, <2>2 DEF PopLock, DownLock, queue, TypeOK
  <2>4. NHold' = NHold + 1 /\ NTaken' = NTaken /\ NNonblock' = NNonblock /\ NClaim' = NClaim /\ NPushed' = NPushed
    BY <2>2 DEF ReceiverMoved, Moved, HeldAt
  <2>5. LockCount' /\ LenCount' /\ DataCount'
    BY <1>1, <1>2, <1>7, <2>4 DEF PopLock, DownLock, queue, LockCount, LenCount, DataCount
  <2> QED BY <2>2, <2>3, <2>5 DEF IInv
<1>8. CASE PopTake(t)
  <2>1. pc' = [pc EXCEPT ![t] = "taken"] /\ pc[t] = "take" /\ \A x \in Senders : m'[x] = m[x]
    BY <1>1, <1>8, <1>4 DEF PopTake, Take, Go
  <2>2. FirstExists' /\ Carries' /\ pc' \in [Threads -> Locations] /\ ReceiverMoved("take", "taken")
    BY <1>3, <2>1 DEF Locations
  <2>3. /\ mq # << >> /\ mq' = Tail(mq) /\ m' = [m EXCEPT ![t] = Head(mq)]
        /\ created' = created /\ len' = len /\ lock' = lock /\ data_available' = data_available
    BY <1>4, <1>8, <2>1 DEF PopTake, Take, sems
  <2>4. mq' \in Seq(Values) /\ Len(mq') = Len(mq) - 1 /\ Head(mq) \in Values
    BY <1>1, <2>3
  <2>5. TypeOK'
    BY <1>1, <2>2, <2>3, <2>4 DEF TypeOK
  <2>6. NHold' = NHold /\ NTaken' = NTaken + 1 /\ NNonblock' = NNonblock /\ NClaim' = NClaim - 1 /\ NPushed' = NPushed
    BY <2>2 DEF ReceiverMoved, Moved, HeldAt
  <2>7. LockCount' /\ LenCount' /\ DataCount'
    BY <1>1, <1>2, <2>3, <2>4, <2>6 DEF LockCount, LenCount, DataCount
  <2> QED BY <2>2, <2>5, <2>7 DEF IInv
<1>9. CASE PopDone(t)
  <2>1. pc' = [pc EXCEPT ![t] = "user"] /\ pc[t] = "taken" /\ \A x \in Senders : m'[x] = m[x]
    BY <1>1, <1>9 DEF PopDone, Go
  <2>2. FirstExists' /\ Carries' /\ pc' \in [Threads -> Locations] /\ ReceiverMoved("taken", "user")
    BY <1>3, <2>1 DEF Locations
  <2>3. TypeOK'
    BY <1>9, <2>2, <1>1, <1>4, <2>1 DEF PopDone, TypeOK, HeldAt
  <2>4. NHold' = NHold - 1 /\ NTaken' = NTaken - 1 /\ NNonblock' = NNonblock /\ NClaim' = NClaim /\ NPushed' = NPushed
    BY <2>2 DEF ReceiverMoved, Moved, HeldAt
  <2>5. LockCount' /\ LenCount' /\ DataCount'
    BY <1>1, <1>2, <1>9, <2>4 DEF PopDone, LockCount, LenCount, DataCount
  <2> QED BY <2>2, <2>3, <2>5 DEF IInv
<1>10. CASE NonblockLock(t)
  <2>1. pc' = [pc EXCEPT ![t] = "test"] /\ pc[t] = "nonblock" /\ \A x \in Senders : m'[x] = m[x]
    BY <1>1, <1>10 DEF NonblockLock, DownLock, Go
  <2>2. FirstExists' /\ Carries' /\ pc' \in [Threads -> Locations] /\ ReceiverMoved("nonblock", "test")
    BY <1>3, <2>1 DEF Locations
  <2>3. TypeOK'
    BY <1>10, <2>2 DEF NonblockLock, DownLock, queue, TypeOK
  <2>4. NHold' = NHold + 1 /\ NTaken' = NTaken /\ NNonblock' = NNonblock /\ NClaim' = NClaim /\ NPushed' = NPushed
    BY <2>2 DEF ReceiverMoved, Moved, HeldAt
  <2>5. LockCount' /\ LenCount' /\ DataCount'
    BY <1>1, <1>2, <1>10, <2>4 DEF NonblockLock, DownLock, queue, LockCount, LenCount, DataCount
  <2> QED BY <2>2, <2>3, <2>5 DEF IInv
<1>11. CASE NonblockEmpty(t)
  <2>1. pc' = [pc EXCEPT ![t] = "user"] /\ pc[t] = "test" /\ \A x \in Senders : m'[x] = m[x]
    BY <1>1, <1>11 DEF NonblockEmpty, Go
  <2>2. FirstExists' /\ Carries' /\ pc' \in [Threads -> Locations] /\ ReceiverMoved("test", "user")
    BY <1>3, <2>1 DEF Locations
  <2>3. TypeOK'
    BY <1>11, <2>2 DEF NonblockEmpty, queue, TypeOK
  <2>4. NHold' = NHold - 1 /\ NTaken' = NTaken /\ NNonblock' = NNonblock /\ NClaim' = NClaim /\ NPushed' = NPushed
    BY <2>2 DEF ReceiverMoved, Moved, HeldAt
  <2>5. LockCount' /\ LenCount' /\ DataCount'
    BY <1>1, <1>2, <1>11, <2>4 DEF NonblockEmpty, queue, LockCount, LenCount, DataCount
  <2> QED BY <2>2, <2>3, <2>5 DEF IInv
<1>12. CASE NonblockTake(t)
  <2>1. pc' = [pc EXCEPT ![t] = "nbdown"] /\ pc[t] = "test" /\ \A x \in Senders : m'[x] = m[x]
    BY <1>1, <1>12, <1>4 DEF NonblockTake, Take, Go
  <2>2. FirstExists' /\ Carries' /\ pc' \in [Threads -> Locations] /\ ReceiverMoved("test", "nbdown")
    BY <1>3, <2>1 DEF Locations
  <2>3. /\ mq # << >> /\ mq' = Tail(mq) /\ m' = [m EXCEPT ![t] = Head(mq)]
        /\ created' = created /\ len' = len /\ lock' = lock /\ data_available' = data_available
    BY <1>4, <1>12, <2>1 DEF NonblockTake, Take, sems
  <2>4. mq' \in Seq(Values) /\ Len(mq') = Len(mq) - 1 /\ Head(mq) \in Values
    BY <1>1, <2>3
  <2>5. TypeOK'
    BY <1>1, <2>2, <2>3, <2>4 DEF TypeOK
  <2>6. NHold' = NHold /\ NTaken' = NTaken + 1 /\ NNonblock' = NNonblock + 1 /\ NClaim' = NClaim /\ NPushed' = NPushed
    BY <2>2 DEF ReceiverMoved, Moved, HeldAt
  <2>7. LockCount' /\ LenCount' /\ DataCount'
    BY <1>1, <1>2, <2>3, <2>4, <2>6 DEF LockCount, LenCount, DataCount
  <2> QED BY <2>2, <2>5, <2>7 DEF IInv
<1>13. CASE NonblockDown(t)
  <2>1. pc' = [pc EXCEPT ![t] = "taken"] /\ pc[t] = "nbdown" /\ \A x \in Senders : m'[x] = m[x]
    BY <1>1, <1>13 DEF NonblockDown, Go
  <2>2. FirstExists' /\ Carries' /\ pc' \in [Threads -> Locations] /\ ReceiverMoved("nbdown", "taken")
    BY <1>3, <2>1 DEF Locations
  <2>3. TypeOK'
    BY <1>13, <2>2 DEF NonblockDown, queue, TypeOK
  <2>4. NHold' = NHold /\ NTaken' = NTaken /\ NNonblock' = NNonblock - 1 /\ NClaim' = NClaim /\ NPushed' = NPushed
    BY <2>2 DEF ReceiverMoved, Moved, HeldAt
  <2>5. LockCount' /\ LenCount' /\ DataCount'
    BY <1>1, <1>2, <1>13, <2>4 DEF NonblockDown, queue, LockCount, LenCount, DataCount
  <2> QED BY <2>2, <2>3, <2>5 DEF IInv
<1> QED BY <1>5, <1>6, <1>7, <1>8, <1>9, <1>10, <1>11, <1>12, <1>13 DEF RecvStep, WaitStep, NonblockStep

----------------------------------------------------------------------------
(* The invariants                                                          *)

LEMMA InitOK == Init => TypeOK /\ IInv
<1> SUFFICES ASSUME Init PROVE TypeOK /\ IInv
  OBVIOUS
<1>1. TypeOK
  <2>1. mq \in Seq(Values) /\ len \in Nat /\ lock \in Nat /\ data_available \in Nat
    BY DEF Init
  <2>2. pc \in [Threads -> Locations] /\ m \in [Threads -> Values \cup {NONE}]
    BY DEF Init, Locations
  <2>3. created \in BOOLEAN
    BY DEF Init
  <2> QED BY <2>1, <2>2, <2>3 DEF TypeOK
<1>2. /\ Holders = {} /\ At(Senders, {"pushed"}) = {} /\ At(Receivers, {"nbdown", "taken"}) = {}
      /\ At(Receivers, {"nbdown"}) = {} /\ At(Receivers, {"pop", "take"}) = {} /\ At(Receivers, {"null"}) = {}
  BY DEF Init, Holders, At, Threads
<1>3. NHold = 0 /\ NPushed = 0 /\ NTaken = 0 /\ NNonblock = 0 /\ NClaim = 0
  BY <1>2, FS_EmptySet DEF NHold, NPushed, NTaken, NNonblock, NClaim
<1>4. LockCount /\ LenCount /\ DataCount
  BY <1>3 DEF Init, LockCount, LenCount, DataCount
<1>5. Carries /\ FirstExists
  BY <1>2 DEF Init, Carries, FirstExists, Threads
<1> QED BY <1>1, <1>4, <1>5 DEF IInv

LEMMA StepOK == TypeOK /\ IInv /\ [Next]_vars => TypeOK' /\ IInv'
<1> SUFFICES ASSUME TypeOK, IInv, [Next]_vars PROVE TypeOK' /\ IInv'
  OBVIOUS
<1>1. CASE mqs_create
  BY <1>1, CreateStep
<1>2. CASE \E t \in Senders : SendStep(t) \/ \E v \in Values : SendCall(t, v)
  BY <1>2, SenderStep
<1>3. CASE \E t \in Receivers : RecvStep(t) \/ \E mode \in Modes : RecvCall(t, mode)
  BY <1>3, ReceiverStep
<1>4. CASE UNCHANGED vars
  <2>1. TypeOK'
    BY <1>4 DEF vars, queue, sems, TypeOK
  <2>2. /\ NHold' = NHold /\ NPushed' = NPushed /\ NTaken' = NTaken
        /\ NNonblock' = NNonblock /\ NClaim' = NClaim
    BY <1>4 DEF vars, NHold, NPushed, NTaken, NNonblock, NClaim, Holders, At
  <2>3. LockCount' /\ LenCount' /\ DataCount'
    BY <1>4, <2>2 DEF vars, queue, sems, IInv, LockCount, LenCount, DataCount
  <2>4. Carries' /\ FirstExists'
    BY <1>4 DEF vars, IInv, Carries, FirstExists, At
  <2> QED BY <2>1, <2>3, <2>4 DEF IInv
<1> QED BY <1>1, <1>2, <1>3, <1>4 DEF Next

\* The counts of the semaphores stay in their types: neither goes below zero.
THEOREM TypeCorrect == Spec => []TypeOK
<1>1. TypeOK /\ IInv => TypeOK
  OBVIOUS
<1> QED BY <1>1, InitOK, StepOK, PTL DEF Spec

\* mq_pop and mq_pop_nonblock never read mq.first of an empty list, however many of them wait,
\* poll and are preempted at once.
THEOREM NeverEmpty == Spec => []FirstExists
<1>1. IInv => FirstExists
  BY DEF IInv
<1> QED BY <1>1, InitOK, StepOK, PTL DEF Spec

\* lock admits one process, and len is the length of the list when lock is free.
THEOREM LockIsMutex == Spec => []LockProtects
<1>1. TypeOK /\ IInv => LockProtects
  <2> SUFFICES ASSUME TypeOK, IInv PROVE LockProtects
    OBVIOUS
  <2>1. lock + Cardinality(Holders) = IF created THEN 1 ELSE 0
    BY DEF IInv, LockCount, NHold
  <2>2. len = Len(mq) - Cardinality(At(Senders, {"pushed"})) + Cardinality(At(Receivers, {"nbdown", "taken"}))
    BY DEF IInv, LenCount, NPushed, NTaken
  <2> QED BY <2>1, <2>2 DEF LockProtects
<1> QED BY <1>1, InitOK, StepOK, PTL DEF Spec

\* data_available counts the messages no receiver has claimed.
THEOREM Available == Spec => []AvailableCounts
<1>1. IInv => AvailableCounts
  BY DEF IInv, DataCount, NNonblock, NClaim, AvailableCounts
<1> QED BY <1>1, InitOK, StepOK, PTL DEF Spec

\* Both together: the counts of a message queue agree at every step of its calls.
THEOREM Agreement == Spec => []CountsMatch
<1>1. LockProtects /\ AvailableCounts => CountsMatch
  BY DEF CountsMatch
<1> QED BY <1>1, LockIsMutex, Available, PTL

----------------------------------------------------------------------------
(* The refinement of Fifo                                                  *)

Sending == At(Senders, {"push", "append"})
NSending == Cardinality(Sending)
Asking == {"down", "pop", "take", "nonblock", "test"}
\* There is room for the messages under way, and a receiver that has asked has none yet.
Room == Len(mq) + NSending <= MaxLen
AskingIsEmpty == \A t \in Receivers : pc[t] \in Asking => m[t] = NONE
RInv == Room /\ AskingIsEmpty

LEMMA SendingMoves ==
  ASSUME TypeOK, NEW t \in Senders, NEW l \in Locations, pc' = [pc EXCEPT ![t] = l]
  PROVE  Moved(NSending, NSending', pc[t], l, {"push", "append"})
<1>1. IsFiniteSet(Senders) /\ Senders \subseteq Threads /\ pc \in [Threads -> Locations]
  BY MsgAssumption DEF Threads, TypeOK
<1>2. /\ Sending = Among(Senders, pc, {"push", "append"})
      /\ Sending' = Among(Senders, [pc EXCEPT ![t] = l], {"push", "append"})
  BY DEF Sending, At, Among
<1>3. Moved(Cardinality(Among(Senders, pc, {"push", "append"})),
            Cardinality(Among(Senders, [pc EXCEPT ![t] = l], {"push", "append"})), pc[t], l, {"push", "append"})
  BY <1>1, CountMoves, ZenonT(40)
<1> QED BY <1>2, <1>3 DEF NSending

LEMMA SendingStays ==
  ASSUME TypeOK, \A t \in Senders : pc'[t] = pc[t]
  PROVE  NSending' = NSending /\ NSending \in Nat
<1>1. Sending' = Sending
  BY DEF Sending, At
<1>2. IsFiniteSet(Sending)
  BY MsgAssumption, FS_Subset DEF Sending, At
<1> QED BY <1>1, <1>2, FS_CardinalityType DEF NSending

\* What each kind of step is to the abstract queue.
Stutters == mq' = mq /\ m' = m /\ \A t \in Senders : SendPending(t)' = SendPending(t)

LEMMA SenderRefines ==
  ASSUME TypeOK, IInv, RInv, NEW t \in Senders, SendStep(t) \/ \E v \in Values : SendCall(t, v)
  PROVE  RInv' /\ (Stutters \/ F!Push(t) \/ \E v \in Values : F!Offer(t, v))
<1>1. t \in Threads /\ t \notin Receivers /\ Senders \subseteq Threads /\ Receivers \subseteq Threads
  BY MsgAssumption DEF Threads
<1>2. Len(mq) \in Nat /\ mq \in Seq(Values) /\ MaxLen \in Nat
  BY MsgAssumption DEF TypeOK
<1>3. CASE \E v \in Values : SendCall(t, v)
  <2>1. PICK v \in Values : SendCall(t, v)
    BY <1>3
  <2>2. /\ pc[t] = "user" /\ pc' = [pc EXCEPT ![t] = "push"] /\ m' = [m EXCEPT ![t] = v] /\ mq' = mq
        /\ Len(mq) + NSending < MaxLen
    BY <2>1 DEF SendCall, Go, queue, NSending, Sending, At
  <2>3. Moved(NSending, NSending', "user", "push", {"push", "append"})
    BY <2>2, SendingMoves DEF Locations
  <2>4. Room'
    BY <1>2, <2>2, <2>3 DEF Room, Moved
  <2>5. AskingIsEmpty'
    BY <1>1, <2>2 DEF RInv, AskingIsEmpty, TypeOK
  <2>6. F!Offer(t, v)
    <3>1. ~SendPending(t) /\ SendPending(t)' /\ \A u \in Senders \ {t} : SendPending(u)' = SendPending(u)
      BY <1>1, <2>2 DEF SendPending, TypeOK
    <3>2. /\ m'[t] = v /\ \A u \in Threads \ {t} : m'[u] = m[u]
      BY <1>1, <2>2 DEF TypeOK
    <3> QED BY <1>1, <2>2, <3>1, <3>2 DEF F!Offer, Offers, Received
  <2> QED BY <2>4, <2>5, <2>6 DEF RInv
<1>4. CASE PushAppend(t)
  <2>1. /\ pc[t] = "append" /\ pc' = [pc EXCEPT ![t] = "pushed"] /\ m' = m /\ mq' = Append(mq, m[t])
    BY <1>4 DEF PushAppend, Go
  <2>2. Moved(NSending, NSending', "append", "pushed", {"push", "append"})
    BY <2>1, SendingMoves DEF Locations
  <2>3. m[t] \in Values /\ m[t] # NONE /\ Len(mq') = Len(mq) + 1
    BY <1>2, <2>1, MsgAssumption DEF IInv, Carries
  <2>4. Room' /\ Len(mq) < MaxLen
    BY <1>2, <2>2, <2>3 DEF RInv, Room, Moved
  <2>5. AskingIsEmpty'
    BY <1>1, <2>1 DEF RInv, AskingIsEmpty, TypeOK
  <2>6. F!Push(t)
    <3>1. SendPending(t) /\ ~SendPending(t)' /\ \A u \in Senders \ {t} : SendPending(u)' = SendPending(u)
      BY <1>1, <2>1 DEF SendPending, TypeOK
    <3> QED BY <1>1, <2>1, <2>3, <2>4, <3>1 DEF F!Push, Offers, Received
  <2> QED BY <2>4, <2>5, <2>6 DEF RInv
<1>5. ASSUME NEW l \in Locations, pc' = [pc EXCEPT ![t] = l], m' = m, mq' = mq,
             pc[t] \in {"push", "append"} <=> l \in {"push", "append"}
      PROVE  RInv' /\ Stutters
  <2>1. Moved(NSending, NSending', pc[t], l, {"push", "append"})
    BY <1>5, SendingMoves
  <2>2. Room'
    BY <1>2, <1>5, <2>1 DEF RInv, Room, Moved
  <2>3. AskingIsEmpty'
    BY <1>1, <1>5 DEF RInv, AskingIsEmpty, TypeOK
  <2>4. Stutters
    BY <1>1, <1>5 DEF Stutters, SendPending, TypeOK
  <2> QED BY <2>2, <2>3, <2>4 DEF RInv
<1>6. CASE PushLock(t)
  <2>1. pc[t] = "push" /\ pc' = [pc EXCEPT ![t] = "append"] /\ m' = m /\ mq' = mq
    BY <1>6 DEF PushLock, DownLock, Go, queue
  <2> QED BY <1>5, <2>1 DEF Locations
<1>7. CASE PushDone(t)
  <2>1. pc[t] = "pushed" /\ pc' = [pc EXCEPT ![t] = "user"] /\ m' = m /\ mq' = mq
    BY <1>7 DEF PushDone, Go
  <2> QED BY <1>5, <2>1 DEF Locations
<1> QED BY <1>3, <1>4, <1>6, <1>7 DEF SendStep

LEMMA ReceiverRefines ==
  ASSUME TypeOK, IInv, IInv', RInv, NEW t \in Receivers, RecvStep(t) \/ \E mode \in Modes : RecvCall(t, mode)
  PROVE  RInv' /\ (Stutters \/ F!Ask(t) \/ F!Pop(t))
<1>1. t \in Threads /\ t \notin Senders /\ Senders \subseteq Threads /\ Receivers \subseteq Threads
  BY MsgAssumption DEF Threads
<1>2. Len(mq) \in Nat /\ mq \in Seq(Values) /\ MaxLen \in Nat
  BY MsgAssumption DEF TypeOK
<1>3. \A u \in Threads \ {t} : pc'[u] = pc[u]
  BY <1>1 DEF RecvStep, WaitStep, NonblockStep, RecvCall, PopDown, PopLock, PopTake, PopDone, NonblockLock,
       NonblockEmpty, NonblockTake, NonblockDown, DownLock, Take, Go, TypeOK
<1>4. /\ \A u \in Senders : pc'[u] = pc[u] /\ SendPending(u)' = SendPending(u)
      /\ NSending' = NSending /\ NSending \in Nat
  BY <1>1, <1>3, SendingStays DEF SendPending
<1>5. CASE \E mode \in Modes : RecvCall(t, mode)
  <2>1. m' = [m EXCEPT ![t] = NONE] /\ mq' = mq
    BY <1>5 DEF RecvCall, queue
  <2>2. m'[t] = NONE /\ \A u \in Threads \ {t} : m'[u] = m[u]
    BY <1>1, <2>1 DEF TypeOK
  <2>3. RInv'
    BY <1>1, <1>3, <1>4, <2>1, <2>2 DEF RInv, Room, AskingIsEmpty
  <2>4. F!Ask(t)
    BY <1>1, <1>4, <2>1, <2>2 DEF F!Ask, Offers, Received
  <2> QED BY <2>3, <2>4
<1>6. CASE PopTake(t) \/ NonblockTake(t)
  <2>1. pc[t] \in {"take", "test"} /\ pc'[t] # "null"
    BY <1>1, <1>6 DEF PopTake, NonblockTake, Take, Go, IInv, FirstExists, At
  <2>2. mq # << >> /\ m' = [m EXCEPT ![t] = Head(mq)] /\ mq' = Tail(mq) /\ pc'[t] \in {"taken", "nbdown"}
    BY <1>1, <1>6, <2>1 DEF PopTake, NonblockTake, Take, Go, TypeOK
  <2>3. m'[t] = Head(mq) /\ \A u \in Threads \ {t} : m'[u] = m[u]
    BY <1>1, <2>2 DEF TypeOK
  <2>4. Len(mq') = Len(mq) - 1 /\ m[t] = NONE
    BY <1>1, <1>2, <2>1, <2>2 DEF RInv, AskingIsEmpty, Asking
  <2>5. Room'
    BY <1>2, <1>4, <2>4 DEF RInv, Room
  <2>6. AskingIsEmpty'
    BY <1>1, <1>3, <2>2, <2>3 DEF RInv, AskingIsEmpty, Asking
  <2>7. F!Pop(t)
    BY <1>1, <1>4, <2>1, <2>2, <2>3, <2>4 DEF F!Pop, Offers, Received
  <2> QED BY <2>5, <2>6, <2>7 DEF RInv
<1>7. CASE PopDown(t) \/ PopLock(t) \/ PopDone(t) \/ NonblockLock(t) \/ NonblockEmpty(t) \/ NonblockDown(t)
  <2>1. /\ m' = m /\ mq' = mq
        /\ pc'[t] \in Asking => pc[t] \in Asking
    BY <1>1, <1>7 DEF PopDown, PopLock, PopDone, NonblockLock, NonblockEmpty, NonblockDown, DownLock, Go,
         queue, Asking, TypeOK
  <2>2. RInv'
    BY <1>1, <1>3, <1>4, <2>1 DEF RInv, Room, AskingIsEmpty
  <2> QED BY <1>4, <2>1, <2>2 DEF Stutters
<1> QED BY <1>5, <1>6, <1>7 DEF RecvStep, WaitStep, NonblockStep

LEMMA RefinementStep ==
  ASSUME TypeOK, IInv, IInv', RInv, [Next]_vars
  PROVE  RInv' /\ [F!Next]_<<mq, Offers, Received>>
<1>1. ASSUME Stutters PROVE UNCHANGED <<mq, Offers, Received>>
  BY <1>1 DEF Stutters, Offers, Received
<1>2. CASE \E t \in Senders : SendStep(t) \/ \E v \in Values : SendCall(t, v)
  BY <1>1, <1>2, SenderRefines DEF F!Next
<1>3. CASE \E t \in Receivers : RecvStep(t) \/ \E mode \in Modes : RecvCall(t, mode)
  BY <1>1, <1>3, ReceiverRefines DEF F!Next
<1>4. CASE mqs_create \/ UNCHANGED vars
  <2>1. mq' = mq /\ m' = m /\ pc' = pc
    BY <1>4 DEF mqs_create, vars, queue
  <2>2. Stutters
    BY <2>1 DEF Stutters, SendPending
  <2>3. RInv'
    BY <2>1, SendingStays DEF RInv, Room, AskingIsEmpty
  <2> QED BY <1>1, <2>2, <2>3
<1> QED BY <1>2, <1>3, <1>4 DEF Next

\* Each message sent by mq_push is received once and in order by mq_pop or mq_pop_nonblock,
\* with any number of senders, of receivers that wait and of receivers that poll.
THEOREM FifoImplemented == Spec => FifoSpec
<1>1. Init => RInv /\ F!Init
  <2> SUFFICES ASSUME Init PROVE RInv /\ F!Init
    OBVIOUS
  <2>1. Sending = {} /\ \A t \in Senders : ~SendPending(t)
    BY DEF Init, Sending, At, SendPending, Threads
  <2>2. RInv
    BY <2>1, FS_EmptySet, MsgAssumption DEF Init, RInv, Room, AskingIsEmpty, Asking, NSending, Threads
  <2>3. F!Init
    BY <2>1 DEF Init, F!Init, Offers, Received, Threads
  <2> QED BY <2>2, <2>3
<1>2. TypeOK /\ IInv /\ IInv' /\ RInv /\ [Next]_vars => RInv' /\ [F!Next]_<<mq, Offers, Received>>
  BY RefinementStep
<1> QED BY <1>1, <1>2, InitOK, StepOK, PTL DEF Spec, FifoSpec, F!Spec
=============================================================================
