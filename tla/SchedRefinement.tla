-------------------------- MODULE SchedRefinement --------------------------
(***************************************************************************)
(* The semaphores of Sched implement those of Semaphore, and the binary    *)
(* ones stay binary.  A thread in the loop of semaphore_down is a waiter;  *)
(* every step of Sched is a Wait, a Take or a Raise of the abstract        *)
(* specification, or leaves it alone.                                      *)
(***************************************************************************)
EXTENDS SchedProofs

\* A step after which the same threads are in semaphore_down, for the same semaphores.
SameWaiters ==
  \A p \in Procs : \/ pc'[p] = pc[p] /\ arg'[p] = arg[p]
                   \/ pc[p] \notin {"yield", "test"} /\ pc'[p] \notin {"yield", "test"}
                   \/ pc[p] \in {"yield", "test"} /\ pc'[p] \in {"yield", "test"} /\ arg'[p] = arg[p]

LEMMA WaitersKept ==
  ASSUME SameWaiters
  PROVE  Waiters' = Waiters
<1>1. \A s \in AllSems : {p \in Procs : pc'[p] \in {"yield", "test"} /\ arg'[p] = s}
                          = {p \in Procs : pc[p] \in {"yield", "test"} /\ arg[p] = s}
  BY DEF SameWaiters
<1> QED BY <1>1 DEF Waiters

\* Such a step that lowers no count is a Raise.
LEMMA RaiseStep ==
  ASSUME TypeOK', SameWaiters, \A s \in AllSems : count'[s] >= count[s]
  PROVE  Sem!Next
<1>1. Waiters' = Waiters /\ count' \in [AllSems -> Nat]
  BY WaitersKept DEF TypeOK
<1>2. Sem!Raise
  BY <1>1 DEF Sem!Raise
<1> QED BY <1>2 DEF Sem!Next

\* A step of p alone that takes a permit of s is a Take.
LEMMA TakeStep ==
  ASSUME NEW p \in Procs, NEW s \in AllSems, count[s] > 0,
         count' = [count EXCEPT ![s] = @ - 1],
         pc'[p] \notin {"yield", "test"}, pc[p] \in {"yield", "test"} => arg[p] = s,
         \A q \in Procs \ {p} : pc'[q] = pc[q] /\ arg'[q] = arg[q]
  PROVE  Sem!Next
<1>1. Waiters' = [Waiters EXCEPT ![s] = @ \ {p}]
  <2> DEFINE W(r) == {q \in Procs : pc[q] \in {"yield", "test"} /\ arg[q] = r}
             V(r) == {q \in Procs : pc'[q] \in {"yield", "test"} /\ arg'[q] = r}
  <2>1. \A r \in AllSems : V(r) = IF r = s THEN W(r) \ {p} ELSE W(r)
    OBVIOUS
  <2>2. Waiters = [r \in AllSems |-> W(r)] /\ Waiters' = [r \in AllSems |-> V(r)]
    BY DEF Waiters
  <2> HIDE DEF W, V
  <2> QED BY <2>1, <2>2, ZenonT(40)
<1>2. Sem!Take(p, s)
  BY <1>1 DEF Sem!Take
<1> QED BY <1>2 DEF Sem!Next

\* A step of p alone that begins to sleep on s is a Wait.
LEMMA WaitStep ==
  ASSUME NEW p \in Procs, NEW s \in AllSems, count[s] = 0, UNCHANGED count,
         pc[p] \notin {"yield", "test"}, pc'[p] = "yield", arg'[p] = s,
         \A q \in Procs \ {p} : pc'[q] = pc[q] /\ arg'[q] = arg[q]
  PROVE  Sem!Next
<1>1. Waiters' = [Waiters EXCEPT ![s] = @ \cup {p}]
  <2> DEFINE W(r) == {q \in Procs : pc[q] \in {"yield", "test"} /\ arg[q] = r}
             V(r) == {q \in Procs : pc'[q] \in {"yield", "test"} /\ arg'[q] = r}
  <2>1. \A r \in AllSems : V(r) = IF r = s THEN W(r) \cup {p} ELSE W(r)
    OBVIOUS
  <2>2. Waiters = [r \in AllSems |-> W(r)] /\ Waiters' = [r \in AllSems |-> V(r)]
    BY DEF Waiters
  <2> HIDE DEF W, V
  <2> QED BY <2>1, <2>2
<1>2. Sem!Wait(p, s)
  BY <1>1 DEF Sem!Wait
<1> QED BY <1>2 DEF Sem!Next

\* The first half of semaphore_down is a Take or a Wait.
LEMMA DownEnterRefines ==
  ASSUME TypeOK, NEW p \in Procs, NEW s \in AllSems, pc[p] = "run", DownEnter(p, s)
  PROVE  Sem!Next
<1>1. \A q \in Procs \ {p} : pc'[q] = pc[q] /\ arg'[q] = arg[q]
  BY DEF DownEnter, Goto, TypeOK
<1>2. CASE count[s] > 0
  <2>1. count' = [count EXCEPT ![s] = @ - 1] /\ pc'[p] \notin {"yield", "test"}
    BY <1>2 DEF DownEnter, Goto, AfterDown, TypeOK
  <2> QED BY <1>1, <1>2, <2>1, TakeStep, ZenonT(40)
<1>3. CASE count[s] = 0
  <2>1. UNCHANGED count /\ pc'[p] = "yield" /\ arg'[p] = s
    BY <1>3 DEF DownEnter, Goto, TypeOK
  <2> QED BY <1>1, <1>3, <2>1, WaitStep
<1> QED BY <1>2, <1>3 DEF DownEnter

\* Neither sched_pick_next nor the rest of the handler lowers a count.
LEMMA PickNextRaises ==
  ASSUME TypeOK, IInv, NEW st \in [Procs -> States], NEW cnt \in [AllSems -> Nat],
         NEW sq \in [Procs -> Seq(Signals)], NEW ticks, PickNext(st, cnt, sq, ticks),
         NEW s \in AllSems
  PROVE  count'[s] >= cnt[s]
<1>1. last_element <= nproc
  BY DEF IInv
<1>2. \A r \in AllSems : \/ count'[r] = cnt[r]
                         \/ r \in Procs /\ AlarmDue(r, ticks) /\ count'[r] = cnt[r] + 1
  BY <1>1, PickNextFacts, ZenonT(40)
<1> QED BY <1>2

LEMMA HandleIrqRaises ==
  ASSUME TypeOK, IInv, NEW st \in [Procs -> States], NEW cnt \in [AllSems -> Nat],
         NEW sq \in [Procs -> Seq(Signals)], NEW kbd, NEW timer, NEW switch,
         HandleIrq(st, cnt, sq, kbd, timer, switch), NEW s \in AllSems
  PROVE  count'[s] >= cnt[s]
<1> DEFINE ticks == IF timer THEN NextTick ELSE sys_ticks
           cnt1  == IF kbd = NULL THEN cnt ELSE BinaryRaise(cnt, kbd)
<1>1. cnt1 \in [AllSems -> Nat] /\ cnt1[s] >= cnt[s]
  <2>1. cnt[s] \in Nat
    OBVIOUS
  <2>2. cnt1[s] >= cnt[s]
    BY <2>1 DEF BinaryRaise
  <2>3. cnt1 \in [AllSems -> Nat]
    BY ZenonT(40) DEF BinaryRaise
  <2> QED BY <2>2, <2>3
<1>2. PickNext(st, cnt1, sq, ticks) \/ count' = cnt1
  BY DEF HandleIrq
<1> HIDE DEF ticks, cnt1
<1>3. CASE PickNext(st, cnt1, sq, ticks)
  <2>1. count'[s] >= cnt1[s] /\ count'[s] \in Nat
    BY <1>1, <1>3, PickNextRaises, PickNextType, ZenonT(40) DEF IInv
  <2> QED BY <1>1, <2>1
<1> QED BY <1>1, <1>2, <1>3

\* Every step of Sched is a step of the abstract semaphores.
LEMMA RefinementStep ==
  ASSUME TypeOK, TypeOK', IInv, [Next]_vars
  PROVE  [Sem!Next]_<<count, Waiters>>
<1>1. ASSUME SameWaiters, UNCHANGED count
      PROVE  [Sem!Next]_<<count, Waiters>>
  BY <1>1, WaitersKept
<1>2. \A s \in AllSems : count[s] \in Nat
  BY DEF TypeOK
<1>3. ASSUME NEW kbd \in Keyboard, NEW timer \in BOOLEAN, Irq(kbd, timer)
      PROVE  Sem!Next
  <2>1. SameWaiters
    BY <1>3 DEF Irq, SameWaiters
  <2> QED BY <1>3, <2>1, HandleIrqRaises, RaiseStep, ZenonT(40) DEF Irq, TypeOK
<1>4. ASSUME NEW p \in Procs, SemaphoreStep(p)
      PROVE  [Sem!Next]_<<count, Waiters>>
  <2>1. ASSUME NEW s \in Sems, Down(p, s)
        PROVE  Sem!Next
    BY <2>1, DownEnterRefines DEF Down, InKernel, AllSems
  <2>2. CASE Retest(p)
    <3>1. pc[p] = "test" /\ arg[p] \in AllSems
      BY <2>2 DEF Retest, IInv, AllSems
    <3>2. CASE count[arg[p]] > 0
      <4>1. /\ count' = [count EXCEPT ![arg[p]] = @ - 1] /\ pc'[p] \notin {"yield", "test"}
            /\ \A q \in Procs \ {p} : pc'[q] = pc[q] /\ arg'[q] = arg[q]
        BY <2>2, <3>2 DEF Retest, Goto, AfterDown, TypeOK
      <4> QED BY <3>1, <3>2, <4>1, TakeStep, ZenonT(40)
    <3>3. CASE count[arg[p]] = 0
      <4>1. SameWaiters /\ UNCHANGED count
        BY <2>2, <3>3 DEF Retest, Goto, SameWaiters, TypeOK
      <4> QED BY <1>1, <4>1
    <3> QED BY <2>2, <3>2, <3>3 DEF Retest
  <2>3. ASSUME NEW s \in CountSems, Up(p, s)
        PROVE  Sem!Next
    <3>1. SameWaiters /\ \A r \in AllSems : count'[r] >= count[r]
      BY <1>2, <2>3 DEF Up, SameWaiters, TypeOK
    <3> QED BY <3>1, RaiseStep
  <2>4. ASSUME NEW s \in BinSems, BinaryUp(p, s)
        PROVE  Sem!Next
    <3>1. SameWaiters /\ \A r \in AllSems : count'[r] >= count[r]
      BY <1>2, <2>4 DEF BinaryUp, BinaryRaise, SameWaiters, TypeOK
    <3> QED BY <3>1, RaiseStep
  <2> QED BY <1>4, <2>1, <2>2, <2>3, <2>4 DEF SemaphoreStep
<1>5. ASSUME NEW p \in Procs, SignalStep(p)
      PROVE  [Sem!Next]_<<count, Waiters>>
  <2>1. ASSUME NEW t \in Times, AlarmSet(p, t)
        PROVE  [Sem!Next]_<<count, Waiters>>
    BY <1>1, <2>1 DEF AlarmSet, InSyscall, InKernel, Goto, SameWaiters, TypeOK
  <2>2. ASSUME NEW h \in BOOLEAN, SigAction(p, h)
        PROVE  [Sem!Next]_<<count, Waiters>>
    BY <1>1, <2>2 DEF SigAction, InSyscall, InKernel, Goto, SameWaiters, TypeOK
  <2>3. CASE HandlerReturn(p) \/ SigTake(p)
    BY <1>1, <2>3 DEF HandlerReturn, SigTake, InSyscall, InKernel, Goto, SameWaiters, TypeOK
  <2>4. CASE SigWait(p)
    <3>1. CASE sighandler[p] /\ ~signals_hold[p]
      BY <1>1, <2>4, <3>1, SMTT(30) DEF SigWait, InSyscall, InKernel, Goto, SameWaiters, TypeOK
    <3>2. CASE ~(sighandler[p] /\ ~signals_hold[p])
      BY <2>4, <3>2, DownEnterRefines DEF SigWait, InSyscall, InKernel, AllSems
    <3> QED BY <3>1, <3>2
  <2>5. ASSUME NEW t \in Procs, SigSend(p, t)
        PROVE  [Sem!Next]_<<count, Waiters>>
    BY <1>1, <2>5 DEF SigSend, SendAppend, InSyscall, InKernel, Goto, SameWaiters, TypeOK
  <2>6. CASE SendUp(p)
    <3>1. SameWaiters /\ \A r \in AllSems : count'[r] >= count[r]
      BY <1>2, <2>6 DEF SendUp, Goto, SameWaiters, TypeOK
    <3> QED BY <3>1, RaiseStep
  <2> QED BY <1>5, <2>1, <2>2, <2>3, <2>4, <2>5, <2>6 DEF SignalStep
<1>6. ASSUME NEW p \in Procs, ProcessStep(p)
      PROVE  [Sem!Next]_<<count, Waiters>>
  <2>1. CASE ExitSwitch(p)
    <3>1. SameWaiters
      BY <2>1 DEF ExitSwitch, Goto, SameWaiters, TypeOK
    <3> QED BY <2>1, <3>1, PickNextRaises, RaiseStep, ZenonT(40) DEF ExitSwitch, TypeOK
  <2>2. CASE SignalEnter(p)
    <3>1. /\ p \in AllSems /\ count[p] > 0 /\ count' = [count EXCEPT ![p] = @ - 1]
          /\ pc[p] \notin {"yield", "test"} /\ pc'[p] \notin {"yield", "test"}
          /\ \A q \in Procs \ {p} : pc'[q] = pc[q] /\ arg'[q] = arg[q]
      BY <2>2 DEF SignalEnter, Returning, Goto, AllSems, TypeOK
    <3> QED BY <3>1, TakeStep, ZenonT(40)
  <2>3. CASE ~ExitSwitch(p) /\ ~SignalEnter(p)
    <3>1. UNCHANGED count
      BY <1>6, <2>3 DEF ProcessStep, ExecStart, MakeThread, ExecLaunch, Exit, ExitSigchld, SyscallReturn,
                        SignalPanic
    <3>2. \A q \in Procs \ {p} : pc'[q] = pc[q] /\ arg'[q] = arg[q]
      BY <1>6, <2>3, SMTT(30) DEF ProcessStep, ExecStart, MakeThread, ExecLaunch, Exit, ExitSigchld, SendAppend,
                        SyscallReturn, SignalPanic, Goto, TypeOK
    <3>3. pc[p] \notin {"yield", "test"}
      BY <1>6, <2>3 DEF ProcessStep, ExecStart, MakeThread, ExecLaunch, Exit, ExitSigchld, SyscallReturn,
                        SignalPanic, Returning, InSyscall, InKernel
    <3>4. pc'[p] \in {pc[p], "load", "run", "ret", "sigchld", "sigup"}
      BY <1>6, <2>3, SMTT(30) DEF ProcessStep, ExecStart, MakeThread, ExecLaunch, Exit, ExitSigchld, SendAppend,
                        SyscallReturn, SignalPanic, Goto, TypeOK
    <3>5. SameWaiters
      BY <3>2, <3>3, <3>4 DEF SameWaiters
    <3> QED BY <1>1, <3>1, <3>5
  <2> QED BY <2>1, <2>2, <2>3
<1>7. ASSUME NEW p \in Procs, TrapStep(p)
      PROVE  Sem!Next
  <2>1. PICK kbd \in Keyboard, timer \in BOOLEAN :
          Yield(p, kbd, timer) \/ SyscallEnter(p, kbd, timer) \/ Segfault(p, kbd, timer)
    BY <1>7 DEF TrapStep
  <2>2. CASE Yield(p, kbd, timer)
    <3>1. SameWaiters
      BY <2>2 DEF Yield, SameWaiters, TypeOK
    <3> QED BY <2>2, <3>1, HandleIrqRaises, RaiseStep, ZenonT(40) DEF Yield, TypeOK
  <2>3. CASE SyscallEnter(p, kbd, timer)
    <3>1. SameWaiters /\ \A r \in AllSems : count'[r] >= count[r]
      BY <1>2, <2>3 DEF SyscallEnter, BinaryRaise, SameWaiters, TypeOK
    <3> QED BY <3>1, RaiseStep
  <2>4. CASE Segfault(p, kbd, timer)
    <3>1. SameWaiters
      BY <2>4 DEF Segfault, InUser, SameWaiters, TypeOK
    <3>2. /\ SigchldCount(p) \in [AllSems -> Nat]
          /\ SigchldQueue(p) \in [Procs -> Seq(Signals)]
          /\ [state EXCEPT ![p] = "DEAD"] \in [Procs -> States]
      BY SigchldType
    <3>3. \A s \in AllSems : SigchldCount(p)[s] >= count[s] /\ SigchldCount(p)[s] \in Nat
      BY <1>2, <3>2, SMTT(30) DEF SigchldCount, TypeOK
    <3>4. \A s \in AllSems : count'[s] >= SigchldCount(p)[s] /\ count'[s] \in Nat
      BY <2>4, <3>2, HandleIrqRaises, ZenonT(40) DEF Segfault, TypeOK
    <3>5. \A s \in AllSems : count'[s] >= count[s]
      BY <1>2, <3>3, <3>4
    <3> QED BY <3>1, <3>5, RaiseStep
  <2> QED BY <2>1, <2>2, <2>3, <2>4
<1>8. CASE Halted \/ UNCHANGED vars
  BY <1>1, <1>8 DEF Halted, vars, SameWaiters
<1> QED BY <1>3, <1>4, <1>5, <1>6, <1>7, <1>8 DEF Next

\* semaphore_down and semaphore_up implement abstract semaphores, the interrupts and the
\* scheduler notwithstanding: no permit is taken twice, none disappears.
THEOREM SemaphoresImplemented == Spec => SemaphoreSpec
<1>1. Init => Sem!Init
  <2> SUFFICES ASSUME Init PROVE Sem!Init
    OBVIOUS
  <2>1. Waiters = [s \in AllSems |-> {}]
    BY DEF Init, Waiters
  <2> QED BY <2>1 DEF Init, Sem!Init
<1>2. TypeOK /\ IInv /\ (TypeOK /\ IInv)' /\ [Next]_vars => [Sem!Next]_<<count, Waiters>>
  BY RefinementStep
<1> QED BY <1>1, <1>2, Invariance, PTL DEF Spec, SemaphoreSpec, Sem!Spec

----------------------------------------------------------------------------
(* The binary semaphores                                                   *)

\* The interrupt handler leaves a binary semaphore alone or raises it to one: the alarms
\* sched_pick_next sends raise signal semaphores.
LEMMA PickNextBinary ==
  ASSUME TypeOK, IInv, NEW st \in [Procs -> States], NEW cnt \in [AllSems -> Nat],
         NEW sq \in [Procs -> Seq(Signals)], NEW ticks, PickNext(st, cnt, sq, ticks),
         NEW s \in BinSems
  PROVE  count'[s] = cnt[s]
<1>1. last_element <= nproc
  BY DEF IInv
<1>2. \A r \in AllSems : \/ count'[r] = cnt[r]
                         \/ r \in Procs /\ AlarmDue(r, ticks) /\ count'[r] = cnt[r] + 1
  BY <1>1, PickNextFacts, ZenonT(40)
<1>3. s \in AllSems /\ s \notin Procs
  BY ConstantsAssumption DEF AllSems, Sems
<1> QED BY <1>2, <1>3

LEMMA HandleIrqBinary ==
  ASSUME TypeOK, IInv, NEW st \in [Procs -> States], NEW cnt \in [AllSems -> Nat],
         NEW sq \in [Procs -> Seq(Signals)], NEW kbd, NEW timer, NEW switch,
         HandleIrq(st, cnt, sq, kbd, timer, switch), NEW s \in BinSems
  PROVE  count'[s] \in {cnt[s], 1}
<1> DEFINE ticks == IF timer THEN NextTick ELSE sys_ticks
           cnt1  == IF kbd = NULL THEN cnt ELSE BinaryRaise(cnt, kbd)
<1>1. s \in AllSems
  BY DEF AllSems, Sems
<1>2. cnt1 \in [AllSems -> Nat] /\ cnt1[s] \in {cnt[s], 1}
  BY <1>1, ZenonT(40) DEF BinaryRaise
<1>3. PickNext(st, cnt1, sq, ticks) \/ count' = cnt1
  BY DEF HandleIrq
<1> HIDE DEF ticks, cnt1
<1>4. CASE PickNext(st, cnt1, sq, ticks)
  BY <1>2, <1>4, PickNextBinary, ZenonT(40)
<1> QED BY <1>2, <1>3, <1>4

LEMMA BinaryStep ==
  ASSUME TypeOK, IInv, [Next]_vars, NEW s \in BinSems, count[s] < 2
  PROVE  count'[s] < 2
<1>1. s \in AllSems /\ s \notin Procs /\ s \notin CountSems /\ count[s] \in Nat
  BY ConstantsAssumption DEF AllSems, Sems, TypeOK
<1>2. ASSUME NEW kbd \in Keyboard, NEW timer \in BOOLEAN, Irq(kbd, timer)
      PROVE  count'[s] < 2
  <2>1. count'[s] \in {count[s], 1}
    BY <1>2, HandleIrqBinary, ZenonT(40) DEF Irq, TypeOK
  <2> QED BY <2>1
<1>3. ASSUME NEW p \in Procs, SemaphoreStep(p)
      PROVE  count'[s] < 2
  <2>1. ASSUME NEW r \in Sems, Down(p, r)
        PROVE  count'[s] < 2
    <3>1. CASE count' = [count EXCEPT ![r] = @ - 1]
      BY <1>1, <3>1 DEF TypeOK
    <3> QED BY <2>1, <3>1 DEF Down, DownEnter
  <2>2. CASE Retest(p)
    <3>1. CASE count' = [count EXCEPT ![arg[p]] = @ - 1]
      BY <1>1, <3>1 DEF TypeOK
    <3> QED BY <2>2, <3>1 DEF Retest
  <2>3. ASSUME NEW r \in CountSems, Up(p, r)
        PROVE  count'[s] < 2
    BY <1>1, <2>3 DEF Up, TypeOK
  <2>4. ASSUME NEW r \in BinSems, BinaryUp(p, r)
        PROVE  count'[s] < 2
    BY <1>1, <2>4 DEF BinaryUp, BinaryRaise, TypeOK
  <2> QED BY <1>3, <2>1, <2>2, <2>3, <2>4 DEF SemaphoreStep
<1>4. ASSUME NEW p \in Procs, SignalStep(p)
      PROVE  count'[s] < 2
  <2>1. CASE SigWait(p)
    BY <1>1, <2>1, ZenonT(40) DEF SigWait, DownEnter, TypeOK
  <2>2. CASE SendUp(p)
    BY <1>1, <2>2, SMTT(30) DEF SendUp, IInv, TypeOK
  <2> QED BY <1>4, <2>1, <2>2 DEF SignalStep, AlarmSet, SigAction, HandlerReturn, SigTake, SigSend
<1>5. ASSUME NEW p \in Procs, ProcessStep(p)
      PROVE  count'[s] < 2
  <2>1. CASE ExitSwitch(p)
    BY <2>1, PickNextBinary, ZenonT(40) DEF ExitSwitch, TypeOK
  <2>2. CASE SignalEnter(p)
    BY <1>1, <2>2 DEF SignalEnter, TypeOK
  <2> QED BY <1>5, <2>1, <2>2 DEF ProcessStep, ExecStart, MakeThread, ExecLaunch, Exit, ExitSigchld,
                                  SyscallReturn, SignalPanic
<1>6. ASSUME NEW p \in Procs, TrapStep(p)
      PROVE  count'[s] < 2
  <2>1. PICK kbd \in Keyboard, timer \in BOOLEAN :
          Yield(p, kbd, timer) \/ SyscallEnter(p, kbd, timer) \/ Segfault(p, kbd, timer)
    BY <1>6, SMTT(30) DEF TrapStep
  <2>2. CASE Yield(p, kbd, timer)
    <3>1. count'[s] \in {count[s], 1}
      BY <2>2, HandleIrqBinary, ZenonT(40) DEF Yield, TypeOK
    <3> QED BY <3>1, SMTT(30)
  <2>3. CASE SyscallEnter(p, kbd, timer)
    BY <1>1, <2>3 DEF SyscallEnter, BinaryRaise, TypeOK
  <2>4. CASE Segfault(p, kbd, timer)
    <3>1. /\ SigchldCount(p) \in [AllSems -> Nat]
          /\ SigchldQueue(p) \in [Procs -> Seq(Signals)]
          /\ [state EXCEPT ![p] = "DEAD"] \in [Procs -> States]
      BY SigchldType
    <3>2. SigchldCount(p)[s] = count[s]
      BY <1>1, SMTT(30) DEF SigchldCount, TypeOK
    <3>3. count'[s] \in {SigchldCount(p)[s], 1}
      BY <2>4, <3>1, HandleIrqBinary, ZenonT(40) DEF Segfault
    <3> QED BY <3>2, <3>3
  <2> QED BY <2>1, <2>2, <2>3, <2>4
<1>7. CASE Halted \/ UNCHANGED vars
  BY <1>7 DEF Halted, vars
<1> QED BY <1>2, <1>3, <1>4, <1>5, <1>6, <1>7 DEF Next

\* The ASSERT of semaphore_binary_up never fails: however many interrupts and threads raise
\* a binary semaphore, its count does not reach two.
THEOREM BinaryStays == Spec => []BinaryStaysBinary
<1>1. Init => BinaryStaysBinary
  BY DEF Init, BinaryStaysBinary, AllSems, Sems
<1>2. TypeOK /\ IInv /\ BinaryStaysBinary /\ [Next]_vars => BinaryStaysBinary'
  BY BinaryStep DEF BinaryStaysBinary
<1> QED BY <1>1, <1>2, Invariance, PTL DEF Spec
=============================================================================
