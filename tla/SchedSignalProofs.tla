------------------------ MODULE SchedSignalProofs --------------------------
(***************************************************************************)
(* Signals are never lost and never invented: the length of a signal queue *)
(* and the count of signal_sema go together, whatever preempts signal_send *)
(* and SYS_SIGWAIT between their two halves.                               *)
(***************************************************************************)
EXTENDS SchedProofs, FiniteSetTheorems

\* The senders between list_append and semaphore_up, and the receiver between
\* semaphore_down and list_remove.
Sending(p) == {q \in Procs : pc[q] = "sigup" /\ arg[q] = p}
Taking(p) == IF pc[p] = "sigtake" THEN 1 ELSE 0

LEMMA ProcsFinite ==
  ASSUME NEW T \in SUBSET Procs
  PROVE  IsFiniteSet(T) /\ Cardinality(T) \in Nat
<1>1. IsFiniteSet(Procs)
  BY ConstantsAssumption, FS_Interval DEF Procs
<1> QED BY <1>1, FS_Subset, FS_CardinalityType

\* What q owes the signal_sema of p, and what it has taken from it for a signal it has not
\* yet removed from the queue.
Owes(q, p) == IF pc[q] = "sigup" /\ arg[q] = p THEN 1 ELSE 0
Holds(q, p) == IF q = p /\ pc[q] = "sigtake" THEN 1 ELSE 0

\* A step of q adds at most q to the senders, or removes at most q from them.
LEMMA SendingStep ==
  ASSUME NEW p, NEW q \in Procs,
         \A r \in Procs \ {q} : pc'[r] = pc[r] /\ arg'[r] = arg[r]
  PROVE  Cardinality(Sending(p)') + Owes(q, p) = Cardinality(Sending(p)) + Owes(q, p)'
<1> DEFINE R == Sending(p) \ {q}
<1>1. IsFiniteSet(R) /\ Cardinality(R) \in Nat
  <2>1. R \in SUBSET Procs
    BY DEF Sending
  <2> QED BY <2>1, ProcsFinite
<1>2. Cardinality(R \cup {q}) = Cardinality(R) + 1
  BY <1>1, FS_AddElement
<1>3. Sending(p) = IF pc[q] = "sigup" /\ arg[q] = p THEN R \cup {q} ELSE R
  BY DEF Sending
<1>4. Sending(p)' = IF pc'[q] = "sigup" /\ arg'[q] = p THEN R \cup {q} ELSE R
  BY DEF Sending
<1> HIDE DEF R
<1> QED BY <1>1, <1>2, <1>3, <1>4 DEF Owes

\* SignalAccounting for one process, in the terms above.
Balanced(p) == Len(signal_queue[p]) = count[p] + Cardinality(Sending(p)) + Taking(p)

LEMMA AccountingIsBalance == SignalAccounting <=> \A p \in Procs : Balanced(p)
BY DEF SignalAccounting, Balanced, Sending, Taking

LEMMA LenCountType ==
  ASSUME TypeOK, NEW p \in Procs
  PROVE  Len(signal_queue[p]) \in Nat /\ count[p] \in Nat
<1>1. signal_queue[p] \in Seq(Signals)
  BY DEF TypeOK
<1>2. count[p] \in Nat
  BY DEF TypeOK, AllSems
<1> QED BY <1>1, <1>2

\* A step of q, seen from p: what enters and leaves p's queue is what q pays into signal_sema,
\* owes it, or has taken out.
Paid(q, p) == Len(signal_queue[p]) - count[p] - Owes(q, p) - Holds(q, p)

LEMMA BalanceStep ==
  ASSUME TypeOK, TypeOK', NEW p \in Procs, NEW q \in Procs, Balanced(p),
         \A r \in Procs \ {q} : pc'[r] = pc[r] /\ arg'[r] = arg[r],
         Paid(q, p)' = Paid(q, p)
  PROVE  Balanced(p)'
<1> DEFINE L1 == Len(signal_queue[p])
           L2 == Len(signal_queue[p])'
           C1 == Cardinality(Sending(p))
           C2 == Cardinality(Sending(p))'
<1>1. L1 \in Nat /\ count[p] \in Nat
  BY LenCountType
<1>2. L2 \in Nat /\ count'[p] \in Nat
  <2>1. signal_queue'[p] \in Seq(Signals)
    BY DEF TypeOK
  <2>2. count'[p] \in Nat
    BY DEF TypeOK, AllSems
  <2> QED BY <2>1, <2>2
<1>3. C1 \in Nat /\ C2 \in Nat
  <2>1. Sending(p) \in SUBSET Procs /\ Sending(p)' \in SUBSET Procs
    BY DEF Sending
  <2> QED BY <2>1, ProcsFinite
<1>4. C2 + Owes(q, p) = C1 + Owes(q, p)'
  BY SendingStep
<1>5. Taking(p) - Holds(q, p) = Taking(p)' - Holds(q, p)'
  BY DEF Taking, Holds
<1>6. L1 = count[p] + C1 + Taking(p)
  BY DEF Balanced
<1>7. L2 - count'[p] - Owes(q, p)' - Holds(q, p)' = L1 - count[p] - Owes(q, p) - Holds(q, p)
  BY DEF Paid
<1>8. /\ Owes(q, p) \in Nat /\ Owes(q, p)' \in Nat /\ Holds(q, p) \in Nat /\ Holds(q, p)' \in Nat
      /\ Taking(p) \in Nat /\ Taking(p)' \in Nat
  BY DEF Owes, Holds, Taking
<1> HIDE DEF L1, L2, C1, C2
<1>9. L2 = count'[p] + C2 + Taking(p)'
  BY <1>1, <1>2, <1>3, <1>4, <1>5, <1>6, <1>7, <1>8
<1> QED BY <1>9 DEF Balanced, L2, C2

\* A semaphore of the threads is not a signal_sema.
LEMMA SemsApart ==
  ASSUME NEW s \in Sems, NEW p \in Procs
  PROVE  s # p
BY ConstantsAssumption

\* The interrupt handler keeps queues and semaphores in step.
LEMMA HandleIrqBalance ==
  ASSUME TypeOK, IInv, NEW st \in [Procs -> States], NEW cnt \in [AllSems -> Nat],
         NEW sq \in [Procs -> Seq(Signals)], NEW kbd \in Keyboard, NEW timer, NEW switch,
         HandleIrq(st, cnt, sq, kbd, timer, switch), NEW p \in Procs
  PROVE  Len(signal_queue'[p]) - count'[p] = Len(sq[p]) - cnt[p]
<1> DEFINE ticks == IF timer THEN NextTick ELSE sys_ticks
           cnt1  == IF kbd = NULL THEN cnt ELSE BinaryRaise(cnt, kbd)
<1>1. cnt1 \in [AllSems -> Nat]
  BY ZenonT(40) DEF BinaryRaise
<1>2. cnt1[p] = cnt[p]
  <2>1. kbd # NULL => kbd # p
    BY SemsApart DEF Keyboard, Sems
  <2> QED BY <2>1 DEF BinaryRaise, AllSems
<1>3. \/ PickNext(st, cnt1, sq, ticks)
      \/ count' = cnt1 /\ signal_queue' = sq
  BY DEF HandleIrq
<1> HIDE DEF ticks, cnt1
<1>4. CASE PickNext(st, cnt1, sq, ticks)
  <2>1. last_element <= nproc
    BY DEF IInv
  <2>2. \A r \in Procs : Len(signal_queue'[r]) - count'[r] = Len(sq[r]) - cnt1[r]
    BY <1>1, <1>4, <2>1, PickNextFacts, ZenonT(40)
  <2> QED BY <1>2, <2>2
<1>5. CASE count' = cnt1 /\ signal_queue' = sq
  BY <1>2, <1>5
<1> QED BY <1>3, <1>4, <1>5

\* The three kinds of change to a queue, seen from p.
LEMMA AppendPaid ==
  ASSUME TypeOK, NEW t \in Procs, NEW sig \in Signals, NEW p \in Procs
  PROVE  Len([signal_queue EXCEPT ![t] = Append(@, sig)][p])
           = Len(signal_queue[p]) + (IF p = t THEN 1 ELSE 0)
<1>1. signal_queue[p] \in Seq(Signals) /\ Len(signal_queue[p]) \in Nat
  BY LenCountType DEF TypeOK
<1>2. Len(Append(signal_queue[p], sig)) = Len(signal_queue[p]) + 1
  BY <1>1
<1> QED BY <1>1, <1>2 DEF TypeOK

LEMMA TailPaid ==
  ASSUME TypeOK, NEW t \in Procs, signal_queue[t] # << >>, NEW p \in Procs
  PROVE  Len([signal_queue EXCEPT ![t] = Tail(@)][p]) = Len(signal_queue[p]) - (IF p = t THEN 1 ELSE 0)
<1>1. signal_queue[p] \in Seq(Signals) /\ Len(signal_queue[p]) \in Nat
  BY LenCountType DEF TypeOK
<1>2. signal_queue[p] # << >> => Len(Tail(signal_queue[p])) = Len(signal_queue[p]) - 1
  BY <1>1
<1> QED BY <1>1, <1>2 DEF TypeOK

LEMMA CountPaid ==
  ASSUME TypeOK, NEW s \in AllSems, NEW p \in Procs
  PROVE  /\ [count EXCEPT ![s] = @ + 1][p] = count[p] + (IF p = s THEN 1 ELSE 0)
         /\ [count EXCEPT ![s] = @ - 1][p] = count[p] - (IF p = s THEN 1 ELSE 0)
         /\ count[p] \in Nat
BY DEF TypeOK, AllSems

\* semaphore_down on signal_sema and its two outcomes, for the first test and for the later ones.
LEMMA DownEnterPaid ==
  ASSUME TypeOK, NEW q \in Procs, NEW p \in Procs, NEW s \in Sems \cup {q},
         pc[q] = "run", DownEnter(q, s), UNCHANGED signal_queue
  PROVE  /\ Paid(q, p)' = Paid(q, p)
         /\ \A r \in Procs \ {q} : pc'[r] = pc[r] /\ arg'[r] = arg[r]
<1>1. s \in AllSems /\ (s \in Procs => s = q)
  BY ConstantsAssumption DEF AllSems
<1>2. \A r \in Procs \ {q} : pc'[r] = pc[r] /\ arg'[r] = arg[r]
  BY DEF DownEnter, Goto, TypeOK
<1>3. Owes(q, p) = 0 /\ Owes(q, p)' = 0 /\ Holds(q, p) = 0
  BY DEF DownEnter, Goto, AfterDown, TypeOK, Owes, Holds
<1>4. CASE count[s] > 0
  <2>1. count' = [count EXCEPT ![s] = @ - 1] /\ pc'[q] = AfterDown(q, s)
    BY <1>4 DEF DownEnter, Goto, TypeOK
  <2>2. Holds(q, p)' = IF p = s THEN 1 ELSE 0
    BY <1>1, <2>1 DEF Holds, AfterDown
  <2>3. count'[p] = count[p] - (IF p = s THEN 1 ELSE 0) /\ count[p] \in Nat
    BY <1>1, <2>1, CountPaid
  <2> QED BY <1>2, <1>3, <2>2, <2>3, LenCountType DEF Paid
<1>5. CASE count[s] = 0
  <2>1. count' = count /\ Holds(q, p)' = 0
    BY <1>5, SMTT(30) DEF DownEnter, Goto, TypeOK, Holds
  <2> QED BY <1>2, <1>3, <2>1 DEF Paid
<1> QED BY <1>4, <1>5 DEF DownEnter

\* Every step on a semaphore or a signal keeps the balance.
LEMMA SignalBalance ==
  ASSUME TypeOK, TypeOK', IInv, NEW p \in Procs, Balanced(p), NEW q \in Procs,
         SemaphoreStep(q) \/ SignalStep(q)
  PROVE  Balanced(p)'
<1> SUFFICES /\ Paid(q, p)' = Paid(q, p)
             /\ \A r \in Procs \ {q} : pc'[r] = pc[r] /\ arg'[r] = arg[r]
  BY BalanceStep, SMTT(30)
<1> DEFINE Frame == \A r \in Procs \ {q} : pc'[r] = pc[r] /\ arg'[r] = arg[r]
           Goal  == Paid(q, p)' = Paid(q, p) /\ Frame
<1> SUFFICES Goal
  OBVIOUS
<1>1. ASSUME NEW s \in Sems, Down(q, s)
      PROVE  Goal
  BY <1>1, DownEnterPaid DEF Down, InKernel
<1>2. CASE Retest(q)
  <2>1. /\ pc[q] = "test" /\ arg[q] \in AllSems /\ (arg[q] \in Procs => arg[q] = q)
        /\ signal_queue' = signal_queue /\ Frame
    <3>1. pc[q] = "test" /\ signal_queue' = signal_queue /\ Frame
      BY <1>2 DEF Retest, Goto, TypeOK
    <3>2. arg[q] \in Sems \cup {q}
      BY <3>1 DEF IInv
    <3> QED BY <3>1, <3>2, SemsApart DEF AllSems
  <2>2. CASE count[arg[q]] > 0
    <3>1. count' = [count EXCEPT ![arg[q]] = @ - 1] /\ pc'[q] = AfterDown(q, arg[q])
      BY <1>2, <2>2, SMTT(30) DEF Retest, Goto, TypeOK
    <3>2. count'[p] = count[p] - (IF p = arg[q] THEN 1 ELSE 0) /\ count[p] \in Nat
      BY <2>1, <3>1, CountPaid, SMTT(30)
    <3> QED BY <2>1, <3>1, <3>2, LenCountType, SMTT(30) DEF Paid, AfterDown, Owes, Holds
  <2>3. CASE count[arg[q]] = 0
    BY <1>2, <2>1, <2>3, SMTT(30) DEF Retest, Goto, Paid, Owes, Holds, TypeOK
  <2> QED BY <1>2, <2>2, <2>3, SMTT(30) DEF Retest
<1>3. ASSUME NEW s \in CountSems, Up(q, s)
      PROVE  Goal
  <2>1. s # p /\ s \in AllSems
    BY SemsApart DEF Sems, AllSems
  <2>2. count'[p] = count[p] /\ UNCHANGED <<signal_queue, pc, arg>>
    BY <1>3, <2>1, SMTT(30) DEF Up, TypeOK
  <2> QED BY <1>3, <2>2 DEF Up, Paid, Owes, Holds
<1>4. ASSUME NEW s \in BinSems, BinaryUp(q, s)
      PROVE  Goal
  BY <1>4, SemsApart, SMTT(30) DEF BinaryUp, BinaryRaise, Paid, Owes, Holds, Sems, AllSems, TypeOK
<1>5. ASSUME NEW t \in Times, AlarmSet(q, t)
      PROVE  Goal
  BY <1>5 DEF AlarmSet, InSyscall, InKernel, Goto, Paid, Owes, Holds, TypeOK
<1>6. ASSUME NEW h \in BOOLEAN, SigAction(q, h)
      PROVE  Goal
  BY <1>6 DEF SigAction, InSyscall, InKernel, Goto, Paid, Owes, Holds, TypeOK
<1>7. CASE HandlerReturn(q)
  BY <1>7, SMTT(30) DEF HandlerReturn, InSyscall, InKernel, Goto, Paid, Owes, Holds, TypeOK
<1>8. CASE SigWait(q)
  <2>1. CASE sighandler[q] /\ ~signals_hold[q]
    BY <1>8, <2>1, SMTT(30) DEF SigWait, InSyscall, InKernel, Goto, Paid, Owes, Holds, TypeOK
  <2>2. CASE ~(sighandler[q] /\ ~signals_hold[q])
    BY <1>8, <2>2, DownEnterPaid, ZenonT(40) DEF SigWait, InSyscall, InKernel
  <2> QED BY <2>1, <2>2
<1>9. CASE SigTake(q)
  <2>1. /\ Len(signal_queue'[p]) = Len(signal_queue[p]) - (IF p = q THEN 1 ELSE 0)
        /\ count' = count /\ pc[q] = "sigtake" /\ pc'[q] = "ret" /\ arg' = arg /\ Frame
    BY <1>9, TailPaid DEF SigTake, Goto, TypeOK
  <2>2. /\ Owes(q, p) = 0 /\ Owes(q, p)' = 0
        /\ Holds(q, p) = (IF p = q THEN 1 ELSE 0) /\ Holds(q, p)' = 0
    BY <2>1 DEF Owes, Holds
  <2>3. Len(signal_queue[p]) \in Nat /\ count[p] \in Nat
    BY LenCountType, SMTT(30)
  <2>4. CASE p = q
    BY <2>1, <2>2, <2>3, <2>4 DEF Paid
  <2>5. CASE p # q
    BY <2>1, <2>2, <2>3, <2>5, SMTT(30) DEF Paid
  <2> QED BY <2>4, <2>5, SMTT(30)
<1>10. ASSUME NEW t \in Procs, SigSend(q, t)
       PROVE  Goal
  <2>1. /\ Len(signal_queue'[p]) = Len(signal_queue[p]) + (IF p = t THEN 1 ELSE 0)
        /\ count' = count /\ pc[q] = "run" /\ pc'[q] = "sigup" /\ arg'[q] = t /\ Frame
    BY <1>10, AppendPaid DEF SigSend, InSyscall, InKernel, SendAppend, Goto, Signals, TypeOK
  <2>2. /\ Owes(q, p) = 0 /\ Owes(q, p)' = IF p = t THEN 1 ELSE 0
        /\ Holds(q, p) = 0 /\ Holds(q, p)' = 0
    BY <2>1 DEF Owes, Holds
  <2>3. Len(signal_queue[p]) \in Nat /\ count[p] \in Nat
    BY LenCountType
  <2>4. CASE p = t
    BY <2>1, <2>2, <2>3, <2>4 DEF Paid
  <2>5. CASE p # t
    BY <2>1, <2>2, <2>3, <2>5, SMTT(30) DEF Paid
  <2> QED BY <2>4, <2>5, SMTT(30)
<1>11. CASE SendUp(q)
  <2>1. /\ pc[q] = "sigup" /\ pc'[q] = "ret" /\ arg[q] \in Procs /\ Frame
        /\ count' = [count EXCEPT ![arg[q]] = @ + 1] /\ signal_queue' = signal_queue
    BY <1>11, SMTT(30) DEF SendUp, Goto, TypeOK, IInv
  <2>2. count'[p] = count[p] + (IF p = arg[q] THEN 1 ELSE 0) /\ count[p] \in Nat
    BY <2>1, CountPaid, SMTT(30) DEF AllSems
  <2>3. /\ Owes(q, p) = (IF p = arg[q] THEN 1 ELSE 0) /\ Owes(q, p)' = 0
        /\ Holds(q, p) = 0 /\ Holds(q, p)' = 0
    BY <2>1 DEF Owes, Holds
  <2>4. Len(signal_queue[p]) \in Nat
    BY LenCountType
  <2>5. CASE p = arg[q]
    BY <2>1, <2>2, <2>3, <2>4, <2>5, SMTT(30) DEF Paid
  <2>6. CASE p # arg[q]
    BY <2>1, <2>2, <2>3, <2>4, <2>6, SMTT(30) DEF Paid
  <2> QED BY <2>5, <2>6, SMTT(30)
<1> HIDE DEF Goal
<1> QED BY <1>1, <1>2, <1>3, <1>4, <1>5, <1>6, <1>7, <1>8, <1>9, <1>10, <1>11 DEF SemaphoreStep, SignalStep

\* So does every step on processes.
LEMMA ProcessBalance ==
  ASSUME TypeOK, TypeOK', IInv, NEW p \in Procs, Balanced(p), NEW q \in Procs, ProcessStep(q)
  PROVE  Balanced(p)'
<1> SUFFICES /\ Paid(q, p)' = Paid(q, p)
             /\ \A r \in Procs \ {q} : pc'[r] = pc[r] /\ arg'[r] = arg[r]
  BY BalanceStep
<1> DEFINE Frame == \A r \in Procs \ {q} : pc'[r] = pc[r] /\ arg'[r] = arg[r]
           Goal  == Paid(q, p)' = Paid(q, p) /\ Frame
<1> SUFFICES Goal
  OBVIOUS
<1>1. Len(signal_queue[p]) \in Nat /\ count[p] \in Nat
  BY LenCountType, SMTT(30)
<1>2. ASSUME NEW a \in Times, ExecStart(q, a)
      PROVE  Goal
  BY <1>2 DEF ExecStart, InKernel, Goto, Paid, Owes, Holds, TypeOK
<1>3. ASSUME NEW a \in Times, MakeThread(q, a)
      PROVE  Goal
  BY <1>3, SMTT(30) DEF MakeThread, Paid, Owes, Holds
<1>4. CASE ExecLaunch(q)
  BY <1>4, SMTT(30) DEF ExecLaunch, Goto, Paid, Owes, Holds, TypeOK
<1>5. CASE Exit(q)
  BY <1>5, SMTT(30) DEF Exit, InSyscall, InKernel, Goto, Paid, Owes, Holds, TypeOK
<1>6. CASE ExitSigchld(q)
  <2>1. CASE parent[q] = 0
    BY <1>6, <2>1, SMTT(30) DEF ExitSigchld, Goto, Paid, Owes, Holds, TypeOK
  <2>2. CASE parent[q] # 0
    <3>1. parent[q] \in Procs /\ SendAppend(q, parent[q], "CHLD") /\ count' = count /\ pc[q] = "sigchld"
      BY <1>6, <2>2, SMTT(30) DEF ExitSigchld, TypeOK
    <3>2. /\ Len(signal_queue'[p]) = Len(signal_queue[p]) + (IF p = parent[q] THEN 1 ELSE 0)
          /\ pc'[q] = "sigup" /\ arg'[q] = parent[q] /\ Frame
      BY <3>1, AppendPaid, SMTT(30) DEF SendAppend, Goto, Signals, TypeOK
    <3>3. /\ Owes(q, p) = 0 /\ Owes(q, p)' = (IF p = parent[q] THEN 1 ELSE 0)
          /\ Holds(q, p) = 0 /\ Holds(q, p)' = 0
      BY <3>1, <3>2, SMTT(30) DEF Owes, Holds
    <3>4. Frame
      BY <3>2
    <3>5. Paid(q, p)' = Paid(q, p)
      <4> HIDE DEF Frame
      <4>1. CASE p = parent[q]
        BY <1>1, <3>1, <3>2, <3>3, <4>1 DEF Paid
      <4>2. CASE p # parent[q]
        BY <1>1, <3>1, <3>2, <3>3, <4>2 DEF Paid
      <4> QED BY <4>1, <4>2
    <3> QED BY <3>4, <3>5
  <2> QED BY <2>1, <2>2, SMTT(30)
<1>7. CASE ExitSwitch(q)
  <2>1. last_element <= nproc /\ PickNext(state, count, signal_queue, sys_ticks)
    BY <1>7 DEF IInv, ExitSwitch
  <2>2. \A r \in Procs : Len(signal_queue'[r]) - count'[r] = Len(signal_queue[r]) - count[r]
    BY <2>1, PickNextFacts, ZenonT(40) DEF TypeOK
  <2>3. Owes(q, p) = 0 /\ Owes(q, p)' = 0 /\ Holds(q, p) = 0 /\ Holds(q, p)' = 0 /\ Frame
    BY <1>7, SMTT(30) DEF ExitSwitch, Goto, Owes, Holds, TypeOK
  <2> QED BY <2>2, <2>3 DEF Paid
<1>8. CASE SyscallReturn(q)
  BY <1>8, SMTT(30) DEF SyscallReturn, Returning, Goto, Paid, Owes, Holds, TypeOK
<1>9. CASE SignalEnter(q)
  <2>1. /\ Len(signal_queue'[p]) = Len(signal_queue[p]) - (IF p = q THEN 1 ELSE 0)
        /\ count' = [count EXCEPT ![q] = @ - 1] /\ Frame
    BY <1>9, TailPaid, SMTT(30) DEF SignalEnter, Deliverable, Goto, TypeOK
  <2>2. count'[p] = count[p] - (IF p = q THEN 1 ELSE 0)
    BY <2>1, CountPaid, SMTT(30) DEF AllSems
  <2>3. Owes(q, p) = 0 /\ Owes(q, p)' = 0 /\ Holds(q, p) = 0 /\ Holds(q, p)' = 0
    BY <1>9, SMTT(30) DEF SignalEnter, Returning, Goto, Owes, Holds, TypeOK
  <2>4. CASE p = q
    BY <1>1, <2>1, <2>2, <2>3, <2>4, SMTT(30) DEF Paid
  <2>5. CASE p # q
    BY <1>1, <2>1, <2>2, <2>3, <2>5, SMTT(30) DEF Paid
  <2> QED BY <2>4, <2>5, SMTT(30)
<1>10. CASE SignalPanic(q)
  BY <1>10 DEF SignalPanic, Paid, Owes, Holds
<1> HIDE DEF Goal
<1> QED BY <1>2, <1>3, <1>4, <1>5, <1>6, <1>7, <1>8, <1>9, <1>10 DEF ProcessStep

\* A fault tells the parent with both halves of signal_send at once.
LEMMA SigchldBalance ==
  ASSUME TypeOK, NEW q \in Procs, NEW p \in Procs
  PROVE  /\ SigchldCount(q) \in [AllSems -> Nat] /\ SigchldQueue(q) \in [Procs -> Seq(Signals)]
         /\ Len(SigchldQueue(q)[p]) - SigchldCount(q)[p] = Len(signal_queue[p]) - count[p]
<1>1. /\ SigchldCount(q) \in [AllSems -> Nat]
      /\ SigchldQueue(q) \in [Procs -> Seq(Signals)]
  BY SigchldType
<1>2. CASE parent[q] = 0
  BY <1>1, <1>2 DEF SigchldCount, SigchldQueue
<1>3. CASE parent[q] # 0
  <2>1. parent[q] \in Procs /\ parent[q] \in AllSems
    BY <1>3 DEF TypeOK, AllSems
  <2> DEFINE L == Len(SigchldQueue(q)[p])
             C == SigchldCount(q)[p]
             l == Len(signal_queue[p])
             d == IF p = parent[q] THEN 1 ELSE 0
  <2>2. L = l + d
    BY <1>3, <2>1, AppendPaid, ZenonT(40) DEF SigchldQueue, Signals
  <2>3. C = count[p] + d
    BY <1>3, <2>1, CountPaid DEF SigchldCount
  <2>4. l \in Nat /\ count[p] \in Nat /\ d \in Nat
    BY LenCountType
  <2> HIDE DEF L, C, l, d
  <2>5. L - C = l - count[p]
    BY <2>2, <2>3, <2>4
  <2> QED BY <1>1, <2>5 DEF L, C, l
<1> QED BY <1>2, <1>3

\* And every trap and interrupt.
LEMMA TrapBalance ==
  ASSUME TypeOK, TypeOK', IInv, NEW p \in Procs, Balanced(p), NEW q \in Procs,
         TrapStep(q) \/ \E kbd \in Keyboard, timer \in BOOLEAN : Irq(kbd, timer)
  PROVE  Balanced(p)'
<1> SUFFICES /\ Paid(q, p)' = Paid(q, p)
             /\ \A r \in Procs \ {q} : pc'[r] = pc[r] /\ arg'[r] = arg[r]
  BY BalanceStep
<1> DEFINE Frame == \A r \in Procs \ {q} : pc'[r] = pc[r] /\ arg'[r] = arg[r]
           Goal  == Paid(q, p)' = Paid(q, p) /\ Frame
<1> SUFFICES Goal
  OBVIOUS
<1>1. PICK kbd \in Keyboard, timer \in BOOLEAN :
        Yield(q, kbd, timer) \/ SyscallEnter(q, kbd, timer) \/ Segfault(q, kbd, timer) \/ Irq(kbd, timer)
  BY DEF TrapStep
<1>2. CASE Yield(q, kbd, timer) \/ Irq(kbd, timer)
  <2>1. /\ Frame /\ arg' = arg /\ pc'[q] \in {pc[q], "test"}
        /\ pc[q] \in {"sigup", "sigtake"} => pc'[q] = pc[q]
    BY <1>2, ZenonT(40) DEF Yield, InKernel, Irq, TypeOK
  <2>2. Len(signal_queue'[p]) - count'[p] = Len(signal_queue[p]) - count[p]
    BY <1>2, HandleIrqBalance, ZenonT(40) DEF Yield, Irq, TypeOK
  <2>3. Owes(q, p)' = Owes(q, p) /\ Holds(q, p)' = Holds(q, p)
    BY <2>1 DEF Owes, Holds
  <2> QED BY <2>1, <2>2, <2>3 DEF Paid
<1>3. CASE SyscallEnter(q, kbd, timer)
  <2>1. count'[p] = count[p]
    BY <1>3, SemsApart, SMTT(30) DEF SyscallEnter, BinaryRaise, Keyboard, Sems, AllSems, TypeOK
  <2> QED BY <1>3, <2>1 DEF SyscallEnter, Paid, Owes, Holds
<1>4. CASE Segfault(q, kbd, timer)
  <2>1. [state EXCEPT ![q] = "DEAD"] \in [Procs -> States]
    BY SMTT(30) DEF States, TypeOK
  <2>2. Len(signal_queue'[p]) - count'[p] = Len(SigchldQueue(q)[p]) - SigchldCount(q)[p]
    <3>1. HandleIrq([state EXCEPT ![q] = "DEAD"], SigchldCount(q), SigchldQueue(q), kbd, timer, TRUE)
      BY <1>4, ZenonT(40) DEF Segfault
    <3> QED BY <2>1, <3>1, SigchldBalance, HandleIrqBalance, ZenonT(40)
  <2>3. Owes(q, p)' = Owes(q, p) /\ Holds(q, p)' = Holds(q, p) /\ Frame
    BY <1>4, ZenonT(40) DEF Segfault, InUser, Owes, Holds, TypeOK
  <2> QED BY <2>2, <2>3, SigchldBalance DEF Paid
<1> HIDE DEF Goal
<1> QED BY <1>1, <1>2, <1>3, <1>4

LEMMA AccountingStep ==
  ASSUME TypeOK, TypeOK', IInv, SignalAccounting, [Next]_vars
  PROVE  SignalAccounting'
<1> SUFFICES ASSUME NEW p \in Procs, Balanced(p) PROVE Balanced(p)'
  BY AccountingIsBalance, ZenonT(40) DEF SignalAccounting, Balanced, Sending, Taking
<1>1. CASE Halted \/ UNCHANGED vars
  BY <1>1, ZenonT(40) DEF Halted, vars, Balanced, Sending, Taking
<1>2. CASE \E q \in Procs : SemaphoreStep(q) \/ SignalStep(q) \/ ProcessStep(q) \/ TrapStep(q)
  BY <1>2, SignalBalance, ProcessBalance, TrapBalance
<1>3. CASE \E kbd \in Keyboard, timer \in BOOLEAN : Irq(kbd, timer)
  BY <1>3, TrapBalance
<1> QED BY <1>1, <1>2, <1>3 DEF Next

\* Every signal in a queue is paid for in signal_sema, for any number of senders that are
\* preempted between list_append and semaphore_up.
THEOREM Accounting == Spec => []SignalAccounting
<1>1. Init => SignalAccounting
  <2> SUFFICES ASSUME Init, NEW p \in Procs PROVE Balanced(p)
    BY AccountingIsBalance
  <2>1. Sending(p) = {}
    BY DEF Init, Sending
  <2>2. Cardinality(Sending(p)) = 0
    BY <2>1, FS_EmptySet
  <2> QED BY <2>2 DEF Init, Balanced, Taking, AllSems
<1>2. TypeOK /\ IInv /\ (TypeOK /\ IInv)' /\ SignalAccounting /\ [Next]_vars => SignalAccounting'
  BY AccountingStep
<1> QED BY <1>1, <1>2, Invariance, PTL DEF Spec

\* ASSERT(current_proc->signal_queue.first) in SYS_SIGWAIT: whoever got a permit of its
\* signal_sema finds a signal in its queue.
THEOREM SigWaitSafe == Spec => []SigWaitFindsSignal
<1>1. TypeOK /\ SignalAccounting => SigWaitFindsSignal
  <2> SUFFICES ASSUME TypeOK, SignalAccounting, NEW p \in Procs, pc[p] = "sigtake"
               PROVE  signal_queue[p] # << >>
    BY DEF SigWaitFindsSignal
  <2>1. Sending(p) \in SUBSET Procs
    BY DEF Sending
  <2>2. Cardinality(Sending(p)) \in Nat
    BY <2>1, ProcsFinite
  <2>3. Len(signal_queue[p]) = count[p] + Cardinality(Sending(p)) + 1
    BY AccountingIsBalance DEF Balanced, Taking
  <2>4. Len(signal_queue[p]) # 0
    BY <2>2, <2>3, LenCountType
  <2> QED BY <2>4
<1> QED BY <1>1, Invariance, Accounting, PTL
=============================================================================
