---------------------------- MODULE SchedProofs ----------------------------
(***************************************************************************)
(* Theorems about Sched, for any number of processes, semaphores and       *)
(* signals.  The argument rests on what one call of sched_pick_next does   *)
(* (Lemma PickNextFacts); everything else is a case analysis over the      *)
(* steps of the threads and of the interrupt handler.                      *)
(***************************************************************************)
EXTENDS Sched, WellFoundedInduction, TLAPS

\* Min of FiniteSetsExt is an element of its argument.
LEMMA MinElement ==
  ASSUME NEW n \in Nat, NEW S \in SUBSET (1 .. n), S # {}
  PROVE  Min(S) \in S /\ \A y \in S : Min(S) <= y
<1> DEFINE R == {ss \in Nat \X Nat : ss[1] < ss[2]}
<1>1. IsWellFoundedOn(R, Nat)
  BY NatLessThanWellFounded DEF OpToRel
<1>2. PICK x \in S : \A y \in S : ~(<<y, x>> \in R)
  <2>1. S \subseteq Nat
    OBVIOUS
  <2> HIDE DEF R
  <2> QED BY <1>1, <2>1, WFMin, ZenonT(40)
<1>3. \A y \in S : x <= y
  <2> SUFFICES ASSUME NEW y \in S PROVE x <= y
    OBVIOUS
  <2>1. x \in Nat /\ y \in Nat
    OBVIOUS
  <2>2. <<y, x>> \in Nat \X Nat /\ <<y, x>>[1] = y /\ <<y, x>>[2] = x
    BY <2>1
  <2> QED BY <1>2, <2>1, <2>2
<1> QED BY <1>3, ZenonT(40) DEF Min

\* Zero, the value of an alarm that is not set, is a time.
LEMMA ZeroIsTime == 0 \in Times
<1>1. LowTicks * HighTicks \in Nat /\ LowTicks * HighTicks >= 1
  BY ConstantsAssumption, SMT
<1> QED BY <1>1 DEF Times

\* sched_pick_next visits elements of proc_list only.
LEMMA VisitInList ==
  ASSUME TypeOK, last_element <= nproc, NEW i \in 1 .. nproc
  PROVE  Visit(i) \in 1 .. nproc /\ Visit(i) \in Procs
BY ConstantsAssumption DEF TypeOK, Visit, Procs

\* A fruitless round of sched_pick_next visits the whole of proc_list.
LEMMA VisitAll ==
  ASSUME TypeOK, last_element <= nproc, NEW p \in 1 .. nproc
  PROVE  \E i \in 1 .. nproc : Visit(i) = p
<1>1. CASE p > last_element
  <2>1. p - last_element \in 1 .. nproc /\ Visit(p - last_element) = p
    BY <1>1, ConstantsAssumption DEF TypeOK, Visit, Procs
  <2> QED BY <2>1
<1>2. CASE p <= last_element
  <2>1. p - last_element + nproc \in 1 .. nproc /\ Visit(p - last_element + nproc) = p
    BY <1>2, ConstantsAssumption DEF TypeOK, Visit, Procs
  <2> QED BY <2>1
<1> QED BY <1>1, <1>2, ConstantsAssumption DEF TypeOK, Procs

\* A round of sched_pick_next that finds no process to run.
NonePicked(st, cnt, ticks) ==
  /\ \A p \in 1 .. nproc : ~Ready(p, st, cnt, ticks)
  /\ state' = st /\ sema_blocked' = sema_blocked /\ last_element' = last_element
  /\ \/ halted' = "no" /\ current_proc' = Idle
     \/ halted' = "spin" /\ current_proc' = current_proc

\* A round of sched_pick_next that stops at n.
Picked(n, st, cnt, ticks) ==
  /\ Ready(n, st, cnt, ticks)
  /\ state' = [st EXCEPT ![n] = WakeState(@)]
  /\ sema_blocked' = [sema_blocked EXCEPT ![n] = IF st[n] \in Blocked THEN NULL ELSE @]
  /\ current_proc' = n /\ last_element' = n /\ halted' = "no"

\* sched_pick_next sends the alarms that are due, and nothing else changes a signal
\* queue, a semaphore or an alarm; it stops at an element of proc_list that is ready, or
\* no element is.
LEMMA PickNextFacts ==
  ASSUME TypeOK, last_element <= nproc,
         NEW st \in [Procs -> States], NEW cnt \in [AllSems -> Nat],
         NEW sq \in [Procs -> Seq(Signals)], NEW ticks,
         PickNext(st, cnt, sq, ticks)
  PROVE  /\ signal_queue' \in [Procs -> Seq(Signals)]
         /\ count' \in [AllSems -> Nat]
         /\ alarm_ticks' \in [Procs -> Times]
         /\ \A p \in Procs : alarm_ticks'[p] \in {0, alarm_ticks[p]}
         /\ \A s \in AllSems : \/ count'[s] = cnt[s]
                               \/ s \in Procs /\ AlarmDue(s, ticks) /\ count'[s] = cnt[s] + 1
         /\ \A p \in Procs : Len(signal_queue'[p]) - count'[p] = Len(sq[p]) - cnt[p]
         /\ \A p \in Procs : sq[p] # << >> => signal_queue'[p] # << >>
         /\ NonePicked(st, cnt, ticks) \/ \E n \in 1 .. nproc : Picked(n, st, cnt, ticks)
<1> DEFINE ready == {i \in 1 .. nproc : Ready(Visit(i), st, cnt, ticks)}
           steps == IF ready = {} THEN nproc ELSE Min(ready)
           next  == Visit(steps)
           fired == {p \in {Visit(i) : i \in 1 .. steps} : st[p] # "DEAD" /\ AlarmDue(p, ticks)}
<1>1. steps \in 1 .. nproc /\ (ready # {} => steps \in ready)
  <2>1. nproc \in Nat \ {0}
    BY ConstantsAssumption DEF TypeOK, Procs
  <2>2. ready \in SUBSET (1 .. nproc)
    OBVIOUS
  <2> HIDE DEF ready
  <2>3. ready # {} => Min(ready) \in ready
    BY <2>1, <2>2, MinElement, ZenonT(40)
  <2>4. CASE ready = {}
    BY <2>1, <2>4
  <2>5. CASE ready # {}
    <3>1. steps = Min(ready)
      BY <2>5
    <3> QED BY <2>2, <2>3, <2>5, <3>1, ZenonT(40)
  <2> QED BY <2>4, <2>5
<1>2. \A p \in fired : p \in Procs /\ AlarmDue(p, ticks)
  <2>1. \A i \in 1 .. steps : i \in 1 .. nproc
    <3> HIDE DEF steps
    <3> QED BY <1>1, ConstantsAssumption DEF TypeOK, Procs
  <2> HIDE DEF steps
  <2> QED BY <2>1, VisitInList
<1>3. /\ signal_queue' = [p \in Procs |-> IF p \in fired THEN Append(sq[p], "ALARM") ELSE sq[p]]
      /\ count' = [s \in AllSems |-> IF s \in fired THEN cnt[s] + 1 ELSE cnt[s]]
      /\ alarm_ticks' = [p \in Procs |-> IF p \in fired THEN 0 ELSE alarm_ticks[p]]
      /\ IF ready = {}
         THEN NoneReady(st)
         ELSE /\ state' = [st EXCEPT ![next] = WakeState(@)]
              /\ sema_blocked' = [sema_blocked EXCEPT ![next] = IF st[next] \in Blocked THEN NULL ELSE @]
              /\ current_proc' = next
              /\ last_element' = next
              /\ halted' = "no"
  BY DEF PickNext
<1>4. NonePicked(st, cnt, ticks) \/ \E n \in 1 .. nproc : Picked(n, st, cnt, ticks)
  <2>1. CASE ready = {}
    <3>1. \A p \in 1 .. nproc : ~Ready(p, st, cnt, ticks)
      <4> SUFFICES ASSUME NEW p \in 1 .. nproc, Ready(p, st, cnt, ticks) PROVE FALSE
        OBVIOUS
      <4>1. PICK i \in 1 .. nproc : Visit(i) = p
        BY VisitAll
      <4>2. i \in ready
        BY <4>1
      <4> QED BY <4>2, <2>1
    <3>2. NoneReady(st)
      BY <1>3, <2>1
    <3> QED BY <3>1, <3>2 DEF NoneReady, NonePicked
  <2>2. CASE ready # {}
    <3>1. Ready(next, st, cnt, ticks)
      <4>1. steps \in ready
        BY <1>1, <2>2
      <4> HIDE DEF steps
      <4> QED BY <4>1
    <3>2. next \in 1 .. nproc
      <4> HIDE DEF steps
      <4> QED BY <1>1, VisitInList
    <3> HIDE DEF ready, next
    <3>3. Picked(next, st, cnt, ticks)
      BY <1>3, <2>2, <3>1 DEF Picked
    <3> QED BY <3>2, <3>3
  <2> QED BY <2>1, <2>2
<1> HIDE DEF fired
<1>5. \A p \in Procs : p \in AllSems
  BY DEF AllSems
<1>6. /\ signal_queue' \in [Procs -> Seq(Signals)]
      /\ \A p \in Procs : sq[p] # << >> => signal_queue'[p] # << >>
  <2>1. \A p \in Procs : /\ Append(sq[p], "ALARM") \in Seq(Signals)
                         /\ Append(sq[p], "ALARM") # << >>
    BY DEF Signals
  <2> QED BY <1>3, <2>1, ZenonT(40)
<1>7. count' \in [AllSems -> Nat]
  BY <1>3
<1>8. /\ alarm_ticks' \in [Procs -> Times]
      /\ \A p \in Procs : alarm_ticks'[p] \in {0, alarm_ticks[p]}
  BY <1>3, ZeroIsTime DEF TypeOK
<1>9. \A p \in Procs : Len(signal_queue'[p]) - count'[p] = Len(sq[p]) - cnt[p]
  <2> SUFFICES ASSUME NEW p \in Procs
               PROVE  Len(signal_queue'[p]) - count'[p] = Len(sq[p]) - cnt[p]
    OBVIOUS
  <2>1. sq[p] \in Seq(Signals) /\ Len(Append(sq[p], "ALARM")) = Len(sq[p]) + 1 /\ Len(sq[p]) \in Nat
    BY DEF Signals
  <2>2. cnt[p] \in Nat
    BY <1>5
  <2>3. CASE p \in fired
    BY <1>3, <1>5, <2>1, <2>2, <2>3
  <2>4. CASE p \notin fired
    BY <1>3, <1>5, <2>1, <2>2, <2>4
  <2> QED BY <2>3, <2>4
<1>10. \A s \in AllSems : \/ count'[s] = cnt[s]
                          \/ s \in Procs /\ AlarmDue(s, ticks) /\ count'[s] = cnt[s] + 1
  BY <1>2, <1>3
<1> QED BY <1>4, <1>6, <1>7, <1>8, <1>9, <1>10

\* What sched_pick_next leaves has the right types.
LEMMA PickNextType ==
  ASSUME TypeOK, last_element <= nproc,
         NEW st \in [Procs -> States], NEW cnt \in [AllSems -> Nat],
         NEW sq \in [Procs -> Seq(Signals)], NEW ticks,
         PickNext(st, cnt, sq, ticks)
  PROVE  /\ state' \in [Procs -> States]
         /\ sema_blocked' \in [Procs -> AllSems \cup {NULL}]
         /\ signal_queue' \in [Procs -> Seq(Signals)]
         /\ alarm_ticks' \in [Procs -> Times]
         /\ count' \in [AllSems -> Nat]
         /\ current_proc' \in Procs \cup {Idle}
         /\ last_element' \in Procs
         /\ halted' \in {"no", "panic", "spin"}
<1>1. /\ signal_queue' \in [Procs -> Seq(Signals)]
      /\ count' \in [AllSems -> Nat]
      /\ alarm_ticks' \in [Procs -> Times]
      /\ NonePicked(st, cnt, ticks) \/ \E n \in 1 .. nproc : Picked(n, st, cnt, ticks)
  BY PickNextFacts, ZenonT(40)
<1>2. CASE NonePicked(st, cnt, ticks)
  BY <1>1, <1>2 DEF NonePicked, TypeOK
<1>3. ASSUME NEW n \in 1 .. nproc, Picked(n, st, cnt, ticks)
      PROVE  /\ state' \in [Procs -> States]
             /\ sema_blocked' \in [Procs -> AllSems \cup {NULL}]
             /\ current_proc' \in Procs \cup {Idle}
             /\ last_element' \in Procs
             /\ halted' \in {"no", "panic", "spin"}
  <2>1. n \in Procs
    BY ConstantsAssumption DEF TypeOK, Procs
  <2>2. WakeState(st[n]) \in States
    BY <2>1 DEF WakeState, States
  <2> QED BY <1>3, <2>1, <2>2 DEF Picked, TypeOK
<1> QED BY <1>1, <1>2, <1>3

\* The same of the end of the interrupt handler.
LEMMA HandleIrqType ==
  ASSUME TypeOK, last_element <= nproc,
         NEW st \in [Procs -> States], NEW cnt \in [AllSems -> Nat],
         NEW sq \in [Procs -> Seq(Signals)], NEW kbd, NEW timer, NEW switch,
         HandleIrq(st, cnt, sq, kbd, timer, switch)
  PROVE  /\ state' \in [Procs -> States]
         /\ sema_blocked' \in [Procs -> AllSems \cup {NULL}]
         /\ signal_queue' \in [Procs -> Seq(Signals)]
         /\ alarm_ticks' \in [Procs -> Times]
         /\ count' \in [AllSems -> Nat]
         /\ current_proc' \in Procs \cup {Idle}
         /\ last_element' \in Procs
         /\ halted' \in {"no", "panic", "spin"}
         /\ sys_ticks' \in Times
<1> DEFINE ticks == IF timer THEN NextTick ELSE sys_ticks
           cnt1  == IF kbd = NULL THEN cnt ELSE BinaryRaise(cnt, kbd)
<1>1. ticks \in Times
  BY ZeroIsTime DEF TypeOK, NextTick
<1>2. cnt1 \in [AllSems -> Nat]
  BY ZenonT(40) DEF BinaryRaise
<1>3. /\ sys_ticks' = ticks
      /\ \/ PickNext(st, cnt1, sq, ticks)
         \/ state' = st /\ count' = cnt1 /\ signal_queue' = sq /\ UNCHANGED pickVars
  BY DEF HandleIrq
<1> HIDE DEF ticks, cnt1
<1>4. CASE PickNext(st, cnt1, sq, ticks)
  BY <1>1, <1>2, <1>3, <1>4, PickNextType, ZenonT(40)
<1>5. CASE state' = st /\ count' = cnt1 /\ signal_queue' = sq /\ UNCHANGED pickVars
  BY <1>1, <1>2, <1>3, <1>5 DEF pickVars, TypeOK
<1> QED BY <1>3, <1>4, <1>5

\* Raising and taking keep the counts natural numbers.
LEMMA CountUp ==
  ASSUME TypeOK, NEW s
  PROVE  [count EXCEPT ![s] = @ + 1] \in [AllSems -> Nat]
<1>1. CASE s \in AllSems
  <2>1. count[s] + 1 \in Nat
    BY <1>1 DEF TypeOK
  <2> QED BY <2>1, ZenonT(40) DEF TypeOK
<1>2. CASE s \notin AllSems
  BY <1>2, ZenonT(40) DEF TypeOK
<1> QED BY <1>1, <1>2

LEMMA CountDown ==
  ASSUME TypeOK, NEW s, count[s] > 0
  PROVE  [count EXCEPT ![s] = @ - 1] \in [AllSems -> Nat]
<1>1. CASE s \in AllSems
  <2>1. count[s] - 1 \in Nat
    BY <1>1 DEF TypeOK
  <2> QED BY <2>1, ZenonT(40) DEF TypeOK
<1>2. CASE s \notin AllSems
  BY <1>2, ZenonT(40) DEF TypeOK
<1> QED BY <1>1, <1>2

\* The types of what the first half of semaphore_down changes.
LEMMA DownEnterType ==
  ASSUME TypeOK, NEW p \in Procs, NEW s \in AllSems, DownEnter(p, s)
  PROVE  /\ state' \in [Procs -> States]
         /\ sema_blocked' \in [Procs -> AllSems \cup {NULL}]
         /\ count' \in [AllSems -> Nat]
         /\ pc' \in [Procs -> Locations]
         /\ arg' \in [Procs -> AllSems \cup {NULL}]
<1>1. AfterDown(p, s) \in Locations /\ "yield" \in Locations
  BY DEF AfterDown, Locations
<1>2. count' \in [AllSems -> Nat]
  BY CountDown DEF DownEnter, TypeOK
<1>3. pc' \in [Procs -> Locations]
  BY <1>1, ZenonT(40) DEF DownEnter, Goto, TypeOK
<1>4. arg' \in [Procs -> AllSems \cup {NULL}] /\ sema_blocked' \in [Procs -> AllSems \cup {NULL}]
  <2> DEFINE T == AllSems \cup {NULL}
  <2>1. s \in T /\ arg \in [Procs -> T] /\ sema_blocked \in [Procs -> T]
    BY DEF TypeOK
  <2> HIDE DEF T
  <2>2. arg' \in [Procs -> T]
    BY <2>1 DEF DownEnter
  <2>3. sema_blocked' \in [Procs -> T]
    BY <2>1 DEF DownEnter
  <2> QED BY <2>2, <2>3 DEF T
<1>5. state' \in [Procs -> States]
  BY ZenonT(40) DEF DownEnter, TypeOK, States
<1> QED BY <1>2, <1>3, <1>4, <1>5

\* The types of what the first half of signal_send changes.
LEMMA SendAppendType ==
  ASSUME TypeOK, NEW p \in Procs, NEW t \in Procs, NEW sig \in Signals, SendAppend(p, t, sig)
  PROVE  /\ signal_queue' \in [Procs -> Seq(Signals)]
         /\ pc' \in [Procs -> Locations]
         /\ arg' \in [Procs -> AllSems \cup {NULL}]
<1>1. Append(signal_queue[t], sig) \in Seq(Signals)
  BY DEF TypeOK
<1>2. signal_queue' \in [Procs -> Seq(Signals)]
  BY <1>1 DEF SendAppend, TypeOK
<1> QED BY <1>2 DEF SendAppend, Goto, TypeOK, Locations, AllSems

\* The types of what a fault of p leaves for sched_pick_next.
LEMMA SigchldType ==
  ASSUME TypeOK, NEW p \in Procs
  PROVE  /\ SigchldCount(p) \in [AllSems -> Nat]
         /\ SigchldQueue(p) \in [Procs -> Seq(Signals)]
         /\ [state EXCEPT ![p] = "DEAD"] \in [Procs -> States]
<1>1. SigchldCount(p) \in [AllSems -> Nat]
  BY CountUp DEF SigchldCount, TypeOK
<1>2. \A q \in Procs : Append(signal_queue[q], "CHLD") \in Seq(Signals)
  BY DEF TypeOK, Signals
<1>3. SigchldQueue(p) \in [Procs -> Seq(Signals)]
  BY <1>2 DEF SigchldQueue, TypeOK
<1> QED BY <1>1, <1>3 DEF States, TypeOK

\* Every step keeps the types.
LEMMA RoomInList ==
  ASSUME nproc \in Procs, nproc < MaxProcs
  PROVE  nproc + 1 \in Procs
BY ConstantsAssumption, SMTT(30) DEF Procs

LEMMA TypeOKStep ==
  ASSUME TypeOK, last_element <= nproc, [Next]_vars
  PROVE  TypeOK'
<1> USE DEF TypeOK
<1>1. ASSUME NEW kbd \in Keyboard, NEW timer \in BOOLEAN, Irq(kbd, timer)
      PROVE  TypeOK'
  BY <1>1, HandleIrqType, ZenonT(40) DEF Irq, sigVars
<1>2. ASSUME NEW p \in Procs, SemaphoreStep(p)
      PROVE  TypeOK'
  <2>1. ASSUME NEW s \in Sems, Down(p, s)
        PROVE  TypeOK'
    BY <1>2, <2>1, DownEnterType, ZenonT(40) DEF Down, AllSems, sigVars
  <2>2. CASE Retest(p)
    <3>1. count' \in [AllSems -> Nat]
      BY <1>2, <2>2, CountDown DEF Retest
    <3>2. pc' \in [Procs -> Locations]
      BY <1>2, <2>2, ZenonT(40) DEF Retest, Goto, AfterDown, Locations
    <3>3. arg' \in [Procs -> AllSems \cup {NULL}]
      BY <1>2, <2>2, ZenonT(40) DEF Retest
    <3> QED BY <1>2, <2>2, <3>1, <3>2, <3>3 DEF Retest, pickVars, sigVars
  <2>3. ASSUME NEW s \in CountSems, Up(p, s)
        PROVE  TypeOK'
    BY <1>2, <2>3, CountUp DEF Up, pickVars, sigVars
  <2>4. ASSUME NEW s \in BinSems, BinaryUp(p, s)
        PROVE  TypeOK'
    BY <1>2, <2>4, ZenonT(40) DEF BinaryUp, BinaryRaise, pickVars, sigVars
  <2> QED BY <1>2, <2>1, <2>2, <2>3, <2>4, ZenonT(40) DEF SemaphoreStep
<1>3. ASSUME NEW p \in Procs, SignalStep(p)
      PROVE  TypeOK'
  <2>1. ASSUME NEW t \in Times, AlarmSet(p, t)
        PROVE  TypeOK'
    BY <1>3, <2>1 DEF AlarmSet, Goto, Locations, sigVars
  <2>2. ASSUME NEW h \in BOOLEAN, SigAction(p, h)
        PROVE  TypeOK'
    BY <1>3, <2>2 DEF SigAction, Goto, Locations, pickVars
  <2>3. CASE HandlerReturn(p)
    BY <1>3, <2>3 DEF HandlerReturn, Goto, Locations, pickVars
  <2>4. CASE SigWait(p)
    <3>1. p \in AllSems
      BY DEF AllSems
    <3>2. CASE DownEnter(p, p)
      BY <1>3, <2>4, <3>1, <3>2, DownEnterType DEF SigWait, sigVars
    <3>3. CASE ~DownEnter(p, p)
      BY <1>3, <2>4, <3>3, ZenonT(40) DEF SigWait, Goto, Locations, sigVars
    <3> QED BY <3>2, <3>3, ZenonT(40)
  <2>5. CASE SigTake(p)
    BY <1>3, <2>5 DEF SigTake, Goto, Locations, pickVars, sigVars
  <2>6. ASSUME NEW t \in Procs, SigSend(p, t)
        PROVE  TypeOK'
    BY <1>3, <2>6, SendAppendType DEF SigSend, Signals, pickVars, sigVars
  <2>7. CASE SendUp(p)
    BY <1>3, <2>7, CountUp, SMTT(30) DEF SendUp, Goto, Locations, pickVars, sigVars
  <2> QED BY <1>3, <2>1, <2>2, <2>3, <2>4, <2>5, <2>6, <2>7, ZenonT(40) DEF SignalStep
<1>4. ASSUME NEW p \in Procs, ProcessStep(p)
      PROVE  TypeOK'
  <2>1. ASSUME NEW a \in Times, ExecStart(p, a)
        PROVE  TypeOK'
    <3>1. nproc + 1 \in Procs
      BY <2>1, RoomInList DEF ExecStart
    <3> QED BY <1>4, <2>1, <3>1 DEF ExecStart, Goto, AllSems, Locations, sigVars
  <2>2. ASSUME NEW a \in Times, MakeThread(p, a)
        PROVE  TypeOK'
    <3>1. nproc + 1 \in Procs
      BY <2>2, RoomInList DEF MakeThread
    <3> QED BY <1>4, <2>2, <3>1 DEF MakeThread, States, sigVars
  <2>3. CASE ExecLaunch(p)
    BY <1>4, <2>3, ZenonT(40) DEF ExecLaunch, Goto, States, Locations, pickVars
  <2>4. CASE Exit(p)
    BY <1>4, <2>4 DEF Exit, Goto, States, Locations, pickVars, sigVars
  <2>5. CASE ExitSigchld(p)
    <3>1. CASE parent[p] = 0
      BY <1>4, <2>5, <3>1, ZenonT(40) DEF ExitSigchld, Goto, Locations, pickVars, sigVars
    <3>2. CASE parent[p] # 0
      BY <1>4, <2>5, <3>2, SendAppendType DEF ExitSigchld, Signals, pickVars, sigVars
    <3> QED BY <3>1, <3>2
  <2>6. CASE ExitSwitch(p)
    BY <1>4, <2>6, PickNextType, ZenonT(40) DEF ExitSwitch, Goto, Locations, sigVars
  <2>7. CASE SyscallReturn(p)
    BY <1>4, <2>7 DEF SyscallReturn, Goto, States, Locations, pickVars, sigVars
  <2>8. CASE SignalEnter(p)
    <3>1. signal_queue' \in [Procs -> Seq(Signals)]
      BY <1>4, <2>8 DEF SignalEnter, Deliverable
    <3>2. count' \in [AllSems -> Nat]
      BY <1>4, <2>8, CountDown DEF SignalEnter
    <3> QED BY <1>4, <2>8, <3>1, <3>2 DEF SignalEnter, Goto, States, Locations, pickVars
  <2>9. CASE SignalPanic(p)
    BY <1>4, <2>9 DEF SignalPanic, sigVars
  <2> QED BY <1>4, <2>1, <2>2, <2>3, <2>4, <2>5, <2>6, <2>7, <2>8, <2>9, ZenonT(40) DEF ProcessStep
<1>5. ASSUME NEW p \in Procs, TrapStep(p)
      PROVE  TypeOK'
  <2>1. PICK kbd \in Keyboard, timer \in BOOLEAN :
          Yield(p, kbd, timer) \/ SyscallEnter(p, kbd, timer) \/ Segfault(p, kbd, timer)
    BY <1>5 DEF TrapStep
  <2>2. CASE Yield(p, kbd, timer)
    BY <1>5, <2>2, HandleIrqType, ZenonT(40) DEF Yield, Locations, sigVars
  <2>3. CASE SyscallEnter(p, kbd, timer)
    BY <1>5, <2>3, ZeroIsTime, ZenonT(40) DEF SyscallEnter, NextTick, BinaryRaise, States, pickVars, sigVars
  <2>4. CASE Segfault(p, kbd, timer)
    <3>1. /\ SigchldCount(p) \in [AllSems -> Nat]
          /\ SigchldQueue(p) \in [Procs -> Seq(Signals)]
          /\ [state EXCEPT ![p] = "DEAD"] \in [Procs -> States]
      BY SigchldType, ZenonT(40)
    <3> QED BY <1>5, <2>4, <3>1, HandleIrqType, ZenonT(40) DEF Segfault, Locations, sigVars
  <2> QED BY <2>1, <2>2, <2>3, <2>4, ZenonT(40)
<1>6. CASE Halted \/ UNCHANGED vars
  BY <1>6 DEF Halted, vars, sigVars
<1> QED BY <1>1, <1>2, <1>3, <1>4, <1>5, <1>6, ZenonT(40) DEF Next

----------------------------------------------------------------------------
(* The inductive invariant                                                 *)

\* A step of the running process that touches nothing of another process: l, s, a and b
\* are its new pc, state, arg and sema_blocked.
LocalUpdate(p, l, s, a, b) ==
  /\ Running(p)
  /\ pc' = [pc EXCEPT ![p] = l]
  /\ state' = [state EXCEPT ![p] = s]
  /\ arg' = [arg EXCEPT ![p] = a]
  /\ sema_blocked' = [sema_blocked EXCEPT ![p] = b]
  /\ UNCHANGED <<nproc, current_proc, last_element>>

\* What such a step has to observe.
LocalOK(p, l, s, a, b) ==
  /\ l \in Locations \ {"gone", "load"} /\ s \in States \ {"UNLOADED"}
  /\ IF s \in Blocked THEN l = "yield" /\ a # NULL /\ b = a ELSE b = NULL
  /\ s = "DEAD" => l \in {"sigchld", "sigup", "ret"}
  /\ l \in {"yield", "test"} => a \in Sems \cup {p}
  /\ l = "sigup" => a \in Procs

LEMMA LocalStep ==
  ASSUME TypeOK, IInv, NEW p \in Procs, NEW l, NEW s, NEW a, NEW b,
         LocalUpdate(p, l, s, a, b), LocalOK(p, l, s, a, b)
  PROVE  IInv'
<1> USE DEF LocalUpdate, LocalOK
<1>1. /\ p <= nproc /\ state[p] # "UNLOADED"
      /\ \A q \in Procs : pc[q] = "load" => arg[q] # p
  BY DEF IInv, RunningMayRun, Running
<1>2. BlockedIsWakeable'
  BY DEF IInv, BlockedIsWakeable, TypeOK
<1>3. RunningMayRun'
  BY <1>1 DEF IInv, RunningMayRun, Running, TypeOK
<1>4. \A q \in Procs :
       /\ q > nproc' => state'[q] = "UNLOADED" /\ pc'[q] = "run"
       /\ pc'[q] = "gone" => state'[q] = "DEAD"
       /\ pc'[q] \in {"yield", "test"} => arg'[q] \in Sems \cup {q}
       /\ pc'[q] = "sigup" => arg'[q] \in Procs
  <2> SUFFICES ASSUME NEW q \in Procs
               PROVE  /\ q > nproc' => state'[q] = "UNLOADED" /\ pc'[q] = "run"
                      /\ pc'[q] = "gone" => state'[q] = "DEAD"
                      /\ pc'[q] \in {"yield", "test"} => arg'[q] \in Sems \cup {q}
                      /\ pc'[q] = "sigup" => arg'[q] \in Procs
    OBVIOUS
  <2>1. CASE q = p
    BY <1>1, <2>1, ConstantsAssumption DEF TypeOK, Procs
  <2>2. CASE q # p
    BY <2>2 DEF IInv, TypeOK
  <2> QED BY <2>1, <2>2
<1>5. \A q \in Procs :
       /\ pc'[q] = "load" => arg'[q] \in Procs /\ arg'[q] <= nproc' /\ state'[arg'[q]] = "UNLOADED"
       /\ \A r \in Procs : pc'[q] = "load" /\ pc'[r] = "load" /\ arg'[q] = arg'[r] => q = r
  BY <1>1 DEF IInv, TypeOK
<1> QED BY <1>2, <1>3, <1>4, <1>5 DEF IInv

\* The invariant in the middle of the handler, for the states st and the locations pc' it
\* has set when it calls sched_pick_next.
BeforePick(st) ==
  /\ last_element <= nproc /\ current_proc <= nproc
  /\ UNCHANGED <<nproc, arg>>
  /\ \A q \in Procs :
       /\ IF st[q] \in Blocked
          THEN pc'[q] \in {"yield", "test"} /\ arg[q] # NULL /\ sema_blocked[q] = arg[q]
          ELSE sema_blocked[q] = NULL
       /\ q > nproc => st[q] = "UNLOADED" /\ pc'[q] = "run"
       /\ pc'[q] = "gone" => st[q] = "DEAD"
       /\ pc'[q] \in {"yield", "test"} => arg[q] \in Sems \cup {q}
       /\ pc'[q] = "sigup" => arg[q] \in Procs
       /\ pc'[q] = "load" => arg[q] \in Procs /\ arg[q] <= nproc /\ st[arg[q]] = "UNLOADED"
       /\ \A r \in Procs : pc'[q] = "load" /\ pc'[r] = "load" /\ arg[q] = arg[r] => q = r

LEMMA SwitchStep ==
  ASSUME TypeOK, NEW st \in [Procs -> States], NEW cnt \in [AllSems -> Nat],
         NEW sq \in [Procs -> Seq(Signals)], NEW ticks,
         PickNext(st, cnt, sq, ticks), BeforePick(st)
  PROVE  IInv'
<1> USE DEF BeforePick
<1>1. NonePicked(st, cnt, ticks) \/ \E n \in 1 .. nproc : Picked(n, st, cnt, ticks)
  BY PickNextFacts, ZenonT(40)
<1>2. CASE NonePicked(st, cnt, ticks)
  <2>1. RunningMayRun'
    BY <1>2, ConstantsAssumption DEF NonePicked, RunningMayRun, Idle, Procs
  <2>2. BlockedIsWakeable'
    BY <1>2 DEF NonePicked, BlockedIsWakeable
  <2>3. current_proc' <= nproc' /\ last_element' <= nproc'
    BY <1>2, ConstantsAssumption DEF NonePicked, TypeOK, Idle, Procs
  <2> QED BY <1>2, <2>1, <2>2, <2>3 DEF NonePicked, IInv
<1>3. ASSUME NEW n \in 1 .. nproc, Picked(n, st, cnt, ticks)
      PROVE  IInv'
  <2>1. n \in Procs /\ n <= nproc
    BY ConstantsAssumption DEF TypeOK, Procs
  <2>2. st[n] \in Awake \cup Blocked
    BY <1>3 DEF Picked, Ready
  <2>3. /\ state' = [st EXCEPT ![n] = WakeState(st[n])]
        /\ WakeState(st[n]) \in Awake
    BY <1>3, <2>1, <2>2 DEF Picked, WakeState, Awake, Blocked
  <2>4. sema_blocked' = [sema_blocked EXCEPT ![n] = NULL]
    BY <1>3, <2>1, ZenonT(40) DEF Picked, TypeOK
  <2>5. current_proc' = n /\ last_element' = n
    BY <1>3 DEF Picked
  <2>6. BlockedIsWakeable'
    BY <2>1, <2>3, <2>4, SMTT(30) DEF BlockedIsWakeable, Awake, Blocked, TypeOK
  <2>7. RunningMayRun'
    BY <2>1, <2>2, <2>3, <2>5 DEF RunningMayRun, Awake, Blocked
  <2>8. \A q \in Procs :
          /\ q > nproc' => state'[q] = "UNLOADED" /\ pc'[q] = "run"
          /\ pc'[q] = "gone" => state'[q] = "DEAD"
    BY <2>1, <2>2, <2>3, ConstantsAssumption, SMTT(30) DEF Awake, Blocked, TypeOK, Procs
  <2>9. \A q \in Procs : pc'[q] = "load" =>
          arg'[q] \in Procs /\ arg'[q] <= nproc' /\ state'[arg'[q]] = "UNLOADED"
    BY <2>1, <2>2, <2>3 DEF Awake, Blocked
  <2> QED BY <2>1, <2>5, <2>6, <2>7, <2>8, <2>9, SMTT(30) DEF IInv
<1> QED BY <1>1, <1>2, <1>3

\* What holds of the running process.
LEMMA RunningFacts ==
  ASSUME TypeOK, IInv, NEW p \in Procs, Running(p)
  PROVE  /\ p <= nproc /\ state[p] \in States \ {"UNLOADED"} /\ pc[p] \in Locations \ {"gone"}
         /\ state[p] = "DEAD" => pc[p] \in {"sigchld", "sigup", "ret"}
         /\ state[p] \in Blocked => pc[p] = "yield"
         /\ state[p] \notin Blocked => sema_blocked[p] = NULL
<1>1. /\ p <= nproc /\ state[p] \in States \ {"UNLOADED"} /\ pc[p] \in Locations \ {"gone"}
      /\ state[p] = "DEAD" => pc[p] \in {"sigchld", "sigup", "ret"}
      /\ state[p] \in Blocked => pc[p] = "yield"
  BY DEF TypeOK, IInv, RunningMayRun, Running
<1>2. state[p] \notin Blocked => sema_blocked[p] = NULL
  BY DEF IInv, BlockedIsWakeable
<1> QED BY <1>1, <1>2

\* The first half of semaphore_down keeps the invariant.
LEMMA DownEnterIInv ==
  ASSUME TypeOK, IInv, NEW p \in Procs, NEW s \in Sems \cup {p}, InKernel(p), DownEnter(p, s),
         UNCHANGED <<nproc, current_proc, last_element>>
  PROVE  IInv'
<1>1. Running(p) /\ pc[p] = "run"
  BY DEF InKernel
<1>2. s # NULL
  BY ConstantsAssumption DEF AllSems
<1>3. CASE count[s] > 0
  <2>1. LocalUpdate(p, AfterDown(p, s), state[p], arg[p], sema_blocked[p])
    BY <1>1, <1>3 DEF DownEnter, Goto, LocalUpdate, TypeOK
  <2>2. LocalOK(p, AfterDown(p, s), state[p], arg[p], sema_blocked[p])
    BY <1>1, RunningFacts DEF LocalOK, AfterDown, Locations
  <2> QED BY <2>1, <2>2, LocalStep
<1>4. CASE count[s] = 0
  <2> DEFINE b == IF state[p] = "SYSCALL" THEN "SYSCALL_BLOCKED" ELSE "BLOCKED"
  <2>1. LocalUpdate(p, "yield", b, s, s)
    BY <1>1, <1>4 DEF DownEnter, Goto, LocalUpdate, TypeOK
  <2>2. LocalOK(p, "yield", b, s, s)
    BY <1>2, SMTT(30) DEF LocalOK, Locations, Blocked, States
  <2> QED BY <2>1, <2>2, LocalStep
<1> QED BY <1>3, <1>4 DEF DownEnter

\* The first half of signal_send keeps the invariant.
LEMMA SendAppendIInv ==
  ASSUME TypeOK, IInv, NEW p \in Procs, NEW t \in Procs, NEW sig, Running(p), pc[p] # "yield",
         SendAppend(p, t, sig), UNCHANGED <<nproc, state, sema_blocked, current_proc, last_element>>
  PROVE  IInv'
<1>1. LocalUpdate(p, "sigup", state[p], t, sema_blocked[p])
  BY DEF SendAppend, Goto, LocalUpdate, TypeOK
<1>2. LocalOK(p, "sigup", state[p], t, sema_blocked[p])
  BY RunningFacts DEF LocalOK, Locations
<1> QED BY <1>1, <1>2, LocalStep

\* The interrupt handler, told to switch, calls sched_pick_next.
LEMMA HandleIrqPicks ==
  ASSUME NEW st, NEW cnt \in [AllSems -> Nat], NEW sq, NEW kbd, NEW timer,
         HandleIrq(st, cnt, sq, kbd, timer, TRUE)
  PROVE  \E cnt1 \in [AllSems -> Nat] : PickNext(st, cnt1, sq, sys_ticks')
<1> DEFINE ticks == IF timer THEN NextTick ELSE sys_ticks
           cnt1  == IF kbd = NULL THEN cnt ELSE BinaryRaise(cnt, kbd)
<1>1. PickNext(st, cnt1, sq, sys_ticks')
  BY DEF HandleIrq
<1>2. cnt1 \in [AllSems -> Nat]
  BY ZenonT(40) DEF BinaryRaise
<1> HIDE DEF cnt1, ticks
<1> QED BY <1>1, <1>2

\* Every step of a thread on a semaphore keeps the invariant.
LEMMA SemaphoreStepIInv ==
  ASSUME TypeOK, IInv, NEW p \in Procs, SemaphoreStep(p)
  PROVE  IInv'
<1>1. ASSUME NEW s \in Sems, Down(p, s)
      PROVE  IInv'
  BY <1>1, DownEnterIInv DEF Down
<1>2. CASE Retest(p)
  <2>1. Running(p) /\ pc[p] = "test" /\ state[p] \notin Blocked
    BY <1>2, RunningFacts DEF Retest
  <2>2. CASE count[arg[p]] > 0
    <3>1. LocalUpdate(p, AfterDown(p, arg[p]), state[p], NULL, sema_blocked[p])
      BY <1>2, <2>1, <2>2 DEF Retest, Goto, LocalUpdate, TypeOK, pickVars
    <3>2. LocalOK(p, AfterDown(p, arg[p]), state[p], NULL, sema_blocked[p])
      BY <2>1, RunningFacts DEF LocalOK, AfterDown, Locations
    <3> QED BY <3>1, <3>2, LocalStep
  <2>3. CASE count[arg[p]] = 0
    <3>1. LocalUpdate(p, "yield", state[p], arg[p], sema_blocked[p])
      BY <1>2, <2>1, <2>3, SMTT(30) DEF Retest, Goto, LocalUpdate, TypeOK, pickVars
    <3>2. LocalOK(p, "yield", state[p], arg[p], sema_blocked[p])
      BY <2>1, RunningFacts, SMTT(30) DEF LocalOK, Locations, IInv
    <3> QED BY <3>1, <3>2, LocalStep
  <2> QED BY <1>2, <2>2, <2>3, SMTT(30) DEF Retest
<1>3. ASSUME NEW s \in CountSems, Up(p, s)
      PROVE  IInv'
  BY <1>3 DEF Up, IInv, BlockedIsWakeable, RunningMayRun, pickVars
<1>4. ASSUME NEW s \in BinSems, BinaryUp(p, s)
      PROVE  IInv'
  BY <1>4 DEF BinaryUp, IInv, BlockedIsWakeable, RunningMayRun, pickVars
<1> QED BY <1>1, <1>2, <1>3, <1>4 DEF SemaphoreStep

\* So does every step on signals.
LEMMA SignalStepIInv ==
  ASSUME TypeOK, IInv, NEW p \in Procs, SignalStep(p)
  PROVE  IInv'
<1>1. ASSUME Running(p), pc[p] \notin {"yield", "test", "sigup"}, Goto(p, "ret"),
             UNCHANGED <<nproc, state, arg, sema_blocked, current_proc, last_element>>
      PROVE  IInv'
  <2>1. LocalUpdate(p, "ret", state[p], arg[p], sema_blocked[p])
    BY <1>1 DEF Goto, LocalUpdate, TypeOK
  <2>2. LocalOK(p, "ret", state[p], arg[p], sema_blocked[p])
    BY <1>1, RunningFacts DEF LocalOK, Locations
  <2> QED BY <2>1, <2>2, LocalStep, ZenonT(40)
<1>2. ASSUME NEW t \in Times, AlarmSet(p, t)
      PROVE  IInv'
  BY <1>1, <1>2 DEF AlarmSet, InSyscall, InKernel
<1>3. ASSUME NEW h \in BOOLEAN, SigAction(p, h)
      PROVE  IInv'
  BY <1>1, <1>3 DEF SigAction, InSyscall, InKernel, pickVars
<1>4. CASE HandlerReturn(p)
  BY <1>1, <1>4 DEF HandlerReturn, InSyscall, InKernel, pickVars
<1>5. CASE SigWait(p)
  <2>1. CASE sighandler[p] /\ ~signals_hold[p]
    BY <1>1, <1>5, <2>1 DEF SigWait, InSyscall, InKernel
  <2>2. CASE ~(sighandler[p] /\ ~signals_hold[p])
    BY <1>5, <2>2, DownEnterIInv DEF SigWait, InSyscall
  <2> QED BY <2>1, <2>2
<1>6. CASE SigTake(p)
  BY <1>1, <1>6 DEF SigTake, pickVars
<1>7. ASSUME NEW t \in Procs, SigSend(p, t)
      PROVE  IInv'
  BY <1>7, SendAppendIInv DEF SigSend, InSyscall, InKernel, pickVars
<1>8. CASE SendUp(p)
  <2>1. LocalUpdate(p, "ret", state[p], NULL, sema_blocked[p])
    BY <1>8, SMTT(30) DEF SendUp, Goto, LocalUpdate, TypeOK, pickVars
  <2>2. LocalOK(p, "ret", state[p], NULL, sema_blocked[p])
    BY <1>8, RunningFacts DEF SendUp, LocalOK, Locations
  <2> QED BY <2>1, <2>2, LocalStep
<1> QED BY <1>2, <1>3, <1>4, <1>5, <1>6, <1>7, <1>8 DEF SignalStep

\* The element a growing proc_list gets is fresh.
LEMMA FreshElement ==
  ASSUME TypeOK, IInv, nproc < MaxProcs
  PROVE  /\ nproc + 1 \in Procs /\ state[nproc + 1] = "UNLOADED" /\ pc[nproc + 1] = "run"
         /\ sema_blocked[nproc + 1] = NULL /\ current_proc # nproc + 1
         /\ \A q \in Procs : pc[q] = "load" => arg[q] # nproc + 1
<1>1. nproc + 1 \in Procs /\ nproc + 1 > nproc
  BY ConstantsAssumption DEF TypeOK, Procs
<1>2. state[nproc + 1] = "UNLOADED" /\ pc[nproc + 1] = "run"
  BY <1>1 DEF IInv
<1>3. sema_blocked[nproc + 1] = NULL
  BY <1>1, <1>2 DEF IInv, BlockedIsWakeable, Blocked
<1>4. current_proc # nproc + 1
  BY DEF IInv, TypeOK, Procs, Idle
<1>5. \A q \in Procs : pc[q] = "load" => arg[q] # nproc + 1
  BY DEF IInv, TypeOK, Procs
<1> QED BY <1>1, <1>2, <1>3, <1>4, <1>5

\* What lies in proc_list lies in the longer one.
LEMMA ListGrows ==
  ASSUME TypeOK, IInv, nproc' = nproc + 1, UNCHANGED <<last_element, current_proc>>
  PROVE  /\ last_element' <= nproc' /\ current_proc' <= nproc'
         /\ nproc + 1 <= nproc' /\ \A q \in Procs : q <= nproc => q <= nproc'
<1>1. /\ nproc \in Nat /\ last_element \in Nat /\ current_proc \in Nat
      /\ last_element <= nproc /\ current_proc <= nproc
  BY DEF IInv, TypeOK, Idle, Procs
<1>2. \A q \in Procs : q \in Nat
  BY DEF Procs
<1> QED BY <1>1, <1>2

\* The first half of SYS_EXEC keeps the invariant.
LEMMA ExecStartIInv ==
  ASSUME TypeOK, IInv, NEW p \in Procs, NEW a, ExecStart(p, a)
  PROVE  IInv'
<1>1. /\ Running(p) /\ pc[p] = "run" /\ nproc < MaxProcs /\ nproc' = nproc + 1
      /\ pc' = [pc EXCEPT ![p] = "load"] /\ arg' = [arg EXCEPT ![p] = nproc + 1]
      /\ UNCHANGED <<state, sema_blocked, current_proc, last_element, halted>>
  BY DEF ExecStart, InKernel, Goto
<1>2. state[p] \notin Blocked \cup {"DEAD", "UNLOADED"} /\ p <= nproc
  BY <1>1, RunningFacts
<1>8. \A q \in Procs : /\ pc'[q] = IF q = p THEN "load" ELSE pc[q]
                       /\ arg'[q] = IF q = p THEN nproc + 1 ELSE arg[q]
  BY <1>1 DEF TypeOK
<1>3. last_element' <= nproc' /\ current_proc' <= nproc' /\ \A q \in Procs : q <= nproc => q <= nproc'
  BY <1>1, ListGrows
<1>4. BlockedIsWakeable'
  BY <1>1, <1>2, <1>8 DEF IInv, BlockedIsWakeable
<1>5. RunningMayRun'
  BY <1>1, <1>2, <1>3, <1>8 DEF IInv, RunningMayRun
<1>6. \A q \in Procs :
        /\ q > nproc' => state'[q] = "UNLOADED" /\ pc'[q] = "run"
        /\ pc'[q] = "gone" => state'[q] = "DEAD"
        /\ pc'[q] \in {"yield", "test"} => arg'[q] \in Sems \cup {q}
        /\ pc'[q] = "sigup" => arg'[q] \in Procs
  <2>1. \A q \in Procs : q > nproc' => q > nproc /\ q # p
    BY <1>1, <1>2 DEF TypeOK, Procs
  <2>2. \A q \in Procs : q > nproc' => state'[q] = "UNLOADED" /\ pc'[q] = "run"
    BY <1>1, <1>8, <2>1 DEF IInv
  <2>3. \A q \in Procs : /\ pc'[q] = "gone" => state'[q] = "DEAD"
                         /\ pc'[q] \in {"yield", "test"} => arg'[q] \in Sems \cup {q}
                         /\ pc'[q] = "sigup" => arg'[q] \in Procs
    BY <1>1, <1>8 DEF IInv
  <2> QED BY <2>2, <2>3
<1>7. \A q \in Procs :
        /\ pc'[q] = "load" => arg'[q] \in Procs /\ arg'[q] <= nproc' /\ state'[arg'[q]] = "UNLOADED"
        /\ \A r \in Procs : pc'[q] = "load" /\ pc'[r] = "load" /\ arg'[q] = arg'[r] => q = r
  <2>1. /\ nproc + 1 \in Procs /\ nproc + 1 <= nproc' /\ state'[nproc + 1] = "UNLOADED"
        /\ \A q \in Procs : pc[q] = "load" => arg[q] # nproc + 1
    BY <1>1, FreshElement, ListGrows
  <2>2. \A q \in Procs : pc[q] = "load" => arg[q] \in Procs /\ arg[q] <= nproc' /\ state'[arg[q]] = "UNLOADED"
    BY <1>1, <1>3 DEF IInv
  <2>3. \A q, r \in Procs : pc[q] = "load" /\ pc[r] = "load" /\ arg[q] = arg[r] => q = r
    BY DEF IInv
  <2> QED BY <1>1, <1>8, <2>1, <2>2, <2>3
<1> QED BY <1>3, <1>4, <1>5, <1>6, <1>7 DEF IInv

\* make_kernel_thread keeps the invariant.
LEMMA MakeThreadIInv ==
  ASSUME TypeOK, IInv, NEW p \in Procs, NEW a, MakeThread(p, a)
  PROVE  IInv'
<1>1. /\ nproc < MaxProcs /\ nproc' = nproc + 1
      /\ state' = [state EXCEPT ![nproc + 1] = "RUNNABLE"]
      /\ UNCHANGED <<pc, arg, sema_blocked, current_proc, last_element, halted>>
  BY DEF MakeThread
<1>2. last_element' <= nproc' /\ current_proc' <= nproc' /\ \A q \in Procs : q <= nproc => q <= nproc'
  BY <1>1, ListGrows
<1>3. /\ nproc + 1 \in Procs /\ state[nproc + 1] = "UNLOADED" /\ pc[nproc + 1] = "run"
      /\ sema_blocked[nproc + 1] = NULL /\ current_proc # nproc + 1 /\ nproc + 1 <= nproc'
      /\ \A q \in Procs : pc[q] = "load" => arg[q] # nproc + 1
  BY <1>1, FreshElement, ListGrows
<1>4. \A q \in Procs : state'[q] = IF q = nproc + 1 THEN "RUNNABLE" ELSE state[q]
  BY <1>1 DEF TypeOK
<1>5. BlockedIsWakeable'
  BY <1>1, <1>3, <1>4 DEF IInv, BlockedIsWakeable, Blocked
<1>6. RunningMayRun'
  BY <1>1, <1>2, <1>3, <1>4 DEF IInv, RunningMayRun
<1>7. \A q \in Procs : q > nproc' => state'[q] = "UNLOADED" /\ pc'[q] = "run"
  <2>1. \A q \in Procs : q > nproc' => q > nproc /\ q # nproc + 1
    BY <1>1 DEF TypeOK, Procs
  <2> QED BY <1>1, <1>4, <2>1 DEF IInv
<1>8. \A q \in Procs :
        /\ pc'[q] = "gone" => state'[q] = "DEAD"
        /\ pc'[q] \in {"yield", "test"} => arg'[q] \in Sems \cup {q}
        /\ pc'[q] = "sigup" => arg'[q] \in Procs
  BY <1>1, <1>3, <1>4 DEF IInv
<1>9. \A q \in Procs :
        /\ pc'[q] = "load" => arg'[q] \in Procs /\ arg'[q] <= nproc' /\ state'[arg'[q]] = "UNLOADED"
        /\ \A r \in Procs : pc'[q] = "load" /\ pc'[r] = "load" /\ arg'[q] = arg'[r] => q = r
  BY <1>1, <1>2, <1>3, <1>4, SMTT(30) DEF IInv
<1> QED BY <1>2, <1>5, <1>6, <1>7, <1>8, <1>9 DEF IInv

\* The end of SYS_EXEC keeps the invariant.
LEMMA ExecLaunchIInv ==
  ASSUME TypeOK, IInv, NEW p \in Procs, ExecLaunch(p)
  PROVE  IInv'
<1> DEFINE c == arg[p]
           l == IF p \in KernelProcs THEN "run" ELSE "ret"
<1>1. /\ Running(p) /\ pc[p] = "load" /\ c \in Procs /\ c <= nproc /\ state[c] = "UNLOADED"
      /\ l \in {"run", "ret"} /\ pc' = [pc EXCEPT ![p] = l]
      /\ state' = [state EXCEPT ![c] = "RUNNABLE"]
      /\ arg' = [arg EXCEPT ![p] = NULL]
      /\ UNCHANGED <<nproc, sema_blocked, current_proc, last_element, halted>>
      /\ \A q \in Procs : pc[q] = "load" /\ arg[q] = c => q = p
  BY SMTT(30) DEF ExecLaunch, Goto, IInv, pickVars
<1> HIDE DEF c, l
<1>2. p # c /\ p <= nproc /\ state[p] \notin Blocked \cup {"DEAD", "UNLOADED"} /\ sema_blocked[c] = NULL
  BY <1>1, RunningFacts DEF IInv, BlockedIsWakeable, Blocked
<1>3. \A q \in Procs : /\ pc'[q] = IF q = p THEN l ELSE pc[q]
                       /\ arg'[q] = IF q = p THEN NULL ELSE arg[q]
                       /\ state'[q] = IF q = c THEN "RUNNABLE" ELSE state[q]
  BY <1>1, ZenonT(40) DEF TypeOK
<1>4. BlockedIsWakeable'
  BY <1>1, <1>2, <1>3, SMTT(30) DEF IInv, BlockedIsWakeable, Blocked
<1>5. RunningMayRun'
  <2>1. current_proc' = p
    BY <1>1 DEF Running
  <2>2. p <= nproc' /\ state'[p] = state[p] /\ pc'[p] \in {"run", "ret"}
    BY <1>1, <1>2, <1>3
  <2> QED BY <1>2, <2>1, <2>2 DEF RunningMayRun
<1>6. \A q \in Procs : q > nproc' => state'[q] = "UNLOADED" /\ pc'[q] = "run"
  <2>1. \A q \in Procs : q > nproc' => q > nproc /\ q # p /\ q # c
    BY <1>1, <1>2, SMTT(30) DEF TypeOK, Procs
  <2> QED BY <1>3, <2>1, SMTT(30) DEF IInv
<1>7. \A q \in Procs :
        /\ pc'[q] = "gone" => state'[q] = "DEAD"
        /\ pc'[q] \in {"yield", "test"} => arg'[q] \in Sems \cup {q}
        /\ pc'[q] = "sigup" => arg'[q] \in Procs
  BY <1>1, <1>3, SMTT(30) DEF IInv
<1>8. \A q \in Procs :
        /\ pc'[q] = "load" => arg'[q] \in Procs /\ arg'[q] <= nproc' /\ state'[arg'[q]] = "UNLOADED"
        /\ \A r \in Procs : pc'[q] = "load" /\ pc'[r] = "load" /\ arg'[q] = arg'[r] => q = r
  <2>1. \A q \in Procs : pc'[q] = "load" => q # p /\ pc[q] = "load" /\ arg'[q] = arg[q] /\ arg[q] # c
    BY <1>1, <1>3
  <2>2. \A q \in Procs : pc[q] = "load" => arg[q] \in Procs /\ arg[q] <= nproc /\ state[arg[q]] = "UNLOADED"
    BY DEF IInv
  <2>3. \A q, r \in Procs : pc[q] = "load" /\ pc[r] = "load" /\ arg[q] = arg[r] => q = r
    BY DEF IInv
  <2> QED BY <1>1, <1>3, <2>1, <2>2, <2>3, SMTT(30)
<1>9. last_element' <= nproc' /\ current_proc' <= nproc'
  BY <1>1 DEF IInv
<1> QED BY <1>4, <1>5, <1>6, <1>7, <1>8, <1>9, SMTT(30) DEF IInv

\* Every step of a process on processes, and the return from a system call, keep it.
LEMMA ProcessStepIInv ==
  ASSUME TypeOK, IInv, NEW p \in Procs, ProcessStep(p)
  PROVE  IInv'
<1>1. ASSUME NEW a \in Times, ExecStart(p, a) \/ MakeThread(p, a)
      PROVE  IInv'
  BY <1>1, ExecStartIInv, MakeThreadIInv
<1>2. CASE ExecLaunch(p)
  BY <1>2, ExecLaunchIInv
<1>3. CASE Exit(p)
  <2>1. LocalUpdate(p, "sigchld", "DEAD", arg[p], sema_blocked[p])
    BY <1>3 DEF Exit, InSyscall, InKernel, Goto, LocalUpdate, TypeOK, pickVars
  <2>2. LocalOK(p, "sigchld", "DEAD", arg[p], sema_blocked[p])
    BY <1>3, RunningFacts DEF Exit, InSyscall, InKernel, LocalOK, Locations, States, Blocked
  <2> QED BY <2>1, <2>2, LocalStep, ZenonT(40)
<1>4. CASE ExitSigchld(p)
  <2>1. CASE parent[p] = 0
    <3>1. LocalUpdate(p, "ret", state[p], arg[p], sema_blocked[p])
      BY <1>4, <2>1 DEF ExitSigchld, Goto, LocalUpdate, TypeOK, pickVars
    <3>2. LocalOK(p, "ret", state[p], arg[p], sema_blocked[p])
      BY <1>4, RunningFacts DEF ExitSigchld, LocalOK, Locations
    <3> QED BY <3>1, <3>2, LocalStep
  <2>2. CASE parent[p] # 0
    <3>1. parent[p] \in Procs
      BY <2>2 DEF TypeOK
    <3> QED BY <1>4, <2>2, <3>1, SendAppendIInv DEF ExitSigchld, pickVars
  <2> QED BY <2>1, <2>2, SMTT(30)
<1>5. CASE ExitSwitch(p)
  <2>1. BeforePick(state)
    BY <1>5, SMTT(30) DEF ExitSwitch, Goto, BeforePick, IInv, BlockedIsWakeable, TypeOK
  <2> QED BY <1>5, <2>1, SwitchStep, ZenonT(40) DEF ExitSwitch, TypeOK
<1>6. CASE SyscallReturn(p) \/ SignalEnter(p)
  <2>1. LocalUpdate(p, "run", "RUNNABLE", arg[p], sema_blocked[p])
    BY <1>6, SMTT(30) DEF SyscallReturn, SignalEnter, Returning, Goto, LocalUpdate, TypeOK, pickVars
  <2>2. LocalOK(p, "run", "RUNNABLE", arg[p], sema_blocked[p])
    BY <1>6, RunningFacts, SMTT(30) DEF SyscallReturn, SignalEnter, Returning, LocalOK, Locations, States, Blocked
  <2> QED BY <2>1, <2>2, LocalStep, SMTT(30)
<1>7. CASE SignalPanic(p)
  BY <1>7, SMTT(30) DEF SignalPanic, IInv, BlockedIsWakeable, RunningMayRun
<1> QED BY <1>1, <1>2, <1>3, <1>4, <1>5, <1>6, <1>7 DEF ProcessStep

\* Every trap of a process keeps it.
LEMMA TrapStepIInv ==
  ASSUME TypeOK, IInv, NEW p \in Procs, TrapStep(p)
  PROVE  IInv'
<1>1. PICK kbd \in Keyboard, timer \in BOOLEAN :
        Yield(p, kbd, timer) \/ SyscallEnter(p, kbd, timer) \/ Segfault(p, kbd, timer)
  BY DEF TrapStep
<1>2. CASE Yield(p, kbd, timer)
  <2>1. BeforePick(state)
    BY <1>2, SMTT(30) DEF Yield, BeforePick, IInv, BlockedIsWakeable, TypeOK
  <2>2. PICK cnt1 \in [AllSems -> Nat] : PickNext(state, cnt1, signal_queue, sys_ticks')
    BY <1>2, HandleIrqPicks, ZenonT(40) DEF Yield, TypeOK
  <2> QED BY <2>1, <2>2, SwitchStep, ZenonT(40) DEF TypeOK
<1>3. CASE SyscallEnter(p, kbd, timer)
  <2>1. LocalUpdate(p, pc[p], "SYSCALL", arg[p], sema_blocked[p])
    BY <1>3 DEF SyscallEnter, InUser, LocalUpdate, TypeOK, pickVars
  <2>2. LocalOK(p, pc[p], "SYSCALL", arg[p], sema_blocked[p])
    BY <1>3, RunningFacts DEF SyscallEnter, InUser, LocalOK, Locations, States, Blocked
  <2> QED BY <2>1, <2>2, LocalStep, ZenonT(40)
<1>4. CASE Segfault(p, kbd, timer)
  <2> DEFINE st == [state EXCEPT ![p] = "DEAD"]
  <2>1. /\ SigchldCount(p) \in [AllSems -> Nat]
        /\ SigchldQueue(p) \in [Procs -> Seq(Signals)]
        /\ st \in [Procs -> States]
    BY SigchldType
  <2>2. /\ Running(p) /\ pc[p] = "run" /\ pc' = [pc EXCEPT ![p] = "gone"]
        /\ UNCHANGED <<nproc, arg>>
    BY <1>4, SMTT(30) DEF Segfault, InUser
  <2>3. BeforePick(st)
    <3>1. p <= nproc /\ state[p] # "UNLOADED" /\ sema_blocked[p] = NULL
      BY <2>2, RunningFacts
    <3>2. \A q \in Procs : /\ pc'[q] = IF q = p THEN "gone" ELSE pc[q]
                           /\ st[q] = IF q = p THEN "DEAD" ELSE state[q]
      BY <2>2 DEF TypeOK
    <3> HIDE DEF st
    <3>3. \A q \in Procs : q > nproc => q # p
      BY <3>1 DEF TypeOK, Procs
    <3>4. last_element <= nproc /\ current_proc <= nproc /\ UNCHANGED <<nproc, arg>>
      BY <2>2, SMTT(30) DEF IInv
    <3>5. \A q \in Procs : IF st[q] \in Blocked
                           THEN pc'[q] \in {"yield", "test"} /\ arg[q] # NULL /\ sema_blocked[q] = arg[q]
                           ELSE sema_blocked[q] = NULL
      BY <3>1, <3>2, SMTT(30) DEF IInv, BlockedIsWakeable, Blocked
    <3>6. \A q \in Procs :
            /\ q > nproc => st[q] = "UNLOADED" /\ pc'[q] = "run"
            /\ pc'[q] = "gone" => st[q] = "DEAD"
            /\ pc'[q] \in {"yield", "test"} => arg[q] \in Sems \cup {q}
            /\ pc'[q] = "sigup" => arg[q] \in Procs
      BY <3>2, <3>3, SMTT(30) DEF IInv
    <3>7. \A q \in Procs :
            /\ pc'[q] = "load" => arg[q] \in Procs /\ arg[q] <= nproc /\ st[arg[q]] = "UNLOADED"
            /\ \A r \in Procs : pc'[q] = "load" /\ pc'[r] = "load" /\ arg[q] = arg[r] => q = r
      BY <3>1, <3>2 DEF IInv
    <3> QED BY <3>4, <3>5, <3>6, <3>7 DEF BeforePick
  <2>4. PICK cnt1 \in [AllSems -> Nat] : PickNext(st, cnt1, SigchldQueue(p), sys_ticks')
    BY <1>4, <2>1, HandleIrqPicks, ZenonT(40) DEF Segfault
  <2> HIDE DEF st
  <2> QED BY <2>1, <2>3, <2>4, SwitchStep, ZenonT(40)
<1> QED BY <1>1, <1>2, <1>3, <1>4

\* Every step keeps it.
LEMMA IInvKept ==
  ASSUME IInv,
         UNCHANGED <<nproc, state, sema_blocked, current_proc, last_element, pc, arg, halted>>
  PROVE  IInv'
<1>1. BlockedIsWakeable' /\ RunningMayRun'
  BY DEF IInv, BlockedIsWakeable, RunningMayRun
<1> QED BY <1>1, SMTT(30) DEF IInv

LEMMA IInvStep ==
  ASSUME TypeOK, IInv, [Next]_vars
  PROVE  IInv'
<1>1. ASSUME NEW kbd \in Keyboard, NEW timer \in BOOLEAN, Irq(kbd, timer)
      PROVE  IInv'
  <2>1. CASE timer \/ current_proc = Idle
    <3>1. HandleIrq(state, count, signal_queue, kbd, timer, TRUE)
      BY <1>1, <2>1 DEF Irq, HandleIrq
    <3>2. PICK cnt1 \in [AllSems -> Nat] : PickNext(state, cnt1, signal_queue, sys_ticks')
      BY <3>1, HandleIrqPicks, ZenonT(40) DEF TypeOK
    <3>3. BeforePick(state)
      BY <1>1 DEF Irq, BeforePick, IInv, BlockedIsWakeable
    <3> QED BY <3>2, <3>3, SwitchStep, ZenonT(40) DEF TypeOK
  <2>2. CASE ~(timer \/ current_proc = Idle)
    BY <1>1, <2>2, IInvKept DEF Irq, HandleIrq, pickVars
  <2> QED BY <2>1, <2>2
<1>2. CASE Halted \/ UNCHANGED vars
  BY <1>2, IInvKept DEF Halted, vars
<1> QED BY <1>1, <1>2, SemaphoreStepIInv, SignalStepIInv, ProcessStepIInv, TrapStepIInv DEF Next

\* TypeOK and IInv hold initially.
LEMMA InitInv == Init => TypeOK /\ IInv
<1> SUFFICES ASSUME Init PROVE TypeOK /\ IInv
  OBVIOUS
<1>1. TypeOK
  BY ConstantsAssumption, ZeroIsTime, SMTT(30) DEF Init, TypeOK, Procs, Idle, States, Locations
<1>2. IInv
  BY ConstantsAssumption DEF Init, IInv, BlockedIsWakeable, RunningMayRun, Procs, Blocked
<1> QED BY <1>1, <1>2

\* TypeOK and IInv hold in every reachable state.
THEOREM Invariance == Spec => [](TypeOK /\ IInv)
<1>1. TypeOK /\ IInv /\ [Next]_vars => (TypeOK /\ IInv)'
  <2>1. IInv => last_element <= nproc
    BY DEF IInv
  <2> QED BY <2>1, TypeOKStep, IInvStep
<1> QED BY <1>1, InitInv, PTL DEF Spec

\* Every reachable state has the right types; in particular semaphore_down, which tests
\* the count again after it slept, never takes it below zero.
THEOREM TypeCorrect == Spec => []TypeOK
BY Invariance, PTL

\* Whoever sleeps in semaphore_down, sched_pick_next looks at the semaphore it waits for.
THEOREM Wakeable == Spec => []BlockedIsWakeable
<1>1. IInv => BlockedIsWakeable
  BY DEF IInv
<1> QED BY <1>1, Invariance, PTL

\* The process sched_pick_next gives the CPU to is one that may run; the ASSERT at the end
\* of interrupt holds.
THEOREM RunsWhatMayRun == Spec => []RunningMayRun
<1>1. IInv => RunningMayRun
  BY DEF IInv
<1> QED BY <1>1, Invariance, PTL

----------------------------------------------------------------------------
(* The idle task                                                           *)

\* A call of sched_pick_next after which the idle task runs has left nobody ready.
LEMMA PickNextIdle ==
  ASSUME TypeOK, IInv, NEW st \in [Procs -> States], NEW cnt \in [AllSems -> Nat],
         NEW sq \in [Procs -> Seq(Signals)],
         PickNext(st, cnt, sq, sys_ticks'), UNCHANGED nproc, IInv'
  PROVE  IdleMeansNoneReady'
<1> SUFFICES ASSUME current_proc' = Idle, NEW p \in 1 .. nproc, Ready(p, state, count, sys_ticks)'
             PROVE  FALSE
  BY DEF IdleMeansNoneReady
<1>1. p \in Procs /\ p # Idle /\ p \in AllSems /\ last_element <= nproc
  <2>1. nproc \in Procs /\ last_element <= nproc
    BY DEF TypeOK, IInv
  <2>2. p \in Procs /\ p # Idle
    BY <2>1, ConstantsAssumption DEF Procs, Idle
  <2> QED BY <2>1, <2>2, SMTT(30) DEF AllSems
<1>2. /\ \A q \in Procs : alarm_ticks'[q] \in {0, alarm_ticks[q]}
      /\ \A s \in AllSems : \/ count'[s] = cnt[s]
                            \/ s \in Procs /\ AlarmDue(s, sys_ticks') /\ count'[s] = cnt[s] + 1
      /\ NonePicked(st, cnt, sys_ticks') \/ \E n \in 1 .. nproc : Picked(n, st, cnt, sys_ticks')
  BY <1>1, PickNextFacts, ZenonT(40)
<1>3. NonePicked(st, cnt, sys_ticks')
  <2>1. \A n \in 1 .. nproc : n # Idle
    BY DEF Idle
  <2> QED BY <1>2, <2>1 DEF Picked
<1>4. ~Ready(p, st, cnt, sys_ticks') /\ state' = st /\ sema_blocked' = sema_blocked
  BY <1>3, SMTT(30) DEF NonePicked
<1>5. state'[p] \in Blocked /\ sema_blocked'[p] \in Sems \cup {p}
  BY <1>1, <1>4, SMTT(30) DEF Ready, IInv, BlockedIsWakeable
<1>6. AlarmDue(p, sys_ticks)' => AlarmDue(p, sys_ticks')
  BY <1>1, <1>2 DEF AlarmDue
<1>7. sema_blocked[p] # NULL /\ sema_blocked[p] \in AllSems
  <2>1. sema_blocked[p] \in AllSems
    BY <1>1, <1>4, <1>5 DEF AllSems
  <2> QED BY <2>1, ConstantsAssumption
<1>8. CASE sema_blocked[p] = p
  <2>1. ~AlarmDue(p, sys_ticks') /\ ~(cnt[p] > 0)
    BY <1>4, <1>5, <1>7, <1>8 DEF Ready
  <2>2. count'[p] = cnt[p]
    BY <1>1, <1>2, <2>1
  <2> QED BY <1>1, <1>4, <1>5, <1>6, <1>8, <2>1, <2>2, SMTT(30) DEF Ready, Awake, Blocked
<1>9. CASE sema_blocked[p] # p
  <2>1. sema_blocked[p] \in Sems /\ sema_blocked[p] \notin Procs
    BY <1>4, <1>5, <1>9, ConstantsAssumption
  <2>2. count'[sema_blocked[p]] = cnt[sema_blocked[p]]
    BY <1>2, <1>7, <2>1, ZenonT(40)
  <2> QED BY <1>4, <1>5, <1>7, <1>9, <2>2, SMTT(30) DEF Ready, Awake, Blocked
<1> QED BY <1>8, <1>9

\* While a process runs, the idle task does not.
LEMMA IdleStep ==
  ASSUME TypeOK, IInv, IInv', IdleMeansNoneReady, [Next]_vars
  PROVE  IdleMeansNoneReady'
<1>1. ASSUME NEW p \in Procs, Running(p), UNCHANGED current_proc
      PROVE  IdleMeansNoneReady'
  BY <1>1, ConstantsAssumption DEF Running, IdleMeansNoneReady, Idle, Procs
<1>2. ASSUME NEW kbd \in Keyboard, NEW timer \in BOOLEAN, Irq(kbd, timer)
      PROVE  IdleMeansNoneReady'
  <2>1. CASE timer \/ current_proc = Idle
    <3>1. HandleIrq(state, count, signal_queue, kbd, timer, TRUE) /\ UNCHANGED nproc
      BY <1>2, <2>1 DEF Irq, HandleIrq
    <3>2. PICK cnt1 \in [AllSems -> Nat] : PickNext(state, cnt1, signal_queue, sys_ticks')
      BY <3>1, HandleIrqPicks, ZenonT(40) DEF TypeOK
    <3> QED BY <3>1, <3>2, PickNextIdle, ZenonT(40) DEF TypeOK
  <2>2. CASE ~(timer \/ current_proc = Idle)
    BY <1>2, <2>2 DEF Irq, HandleIrq, pickVars, IdleMeansNoneReady
  <2> QED BY <2>1, <2>2
<1>3. ASSUME NEW p \in Procs, SemaphoreStep(p) \/ SignalStep(p)
      PROVE  IdleMeansNoneReady'
  <2>1. Running(p) /\ UNCHANGED current_proc
    BY <1>3, ZenonT(40) DEF SemaphoreStep, SignalStep, Down, Retest, Up, BinaryUp, AlarmSet, SigAction,
                HandlerReturn, SigWait, SigTake, SigSend, SendUp, InSyscall, InKernel, pickVars
  <2> QED BY <1>1, <2>1
<1>4. ASSUME NEW p \in Procs, ProcessStep(p)
      PROVE  IdleMeansNoneReady'
  <2>1. CASE ExitSwitch(p)
    BY <2>1, PickNextIdle, ZenonT(40) DEF ExitSwitch, TypeOK
  <2>2. CASE ~ExitSwitch(p)
    <3>1. Running(p) /\ UNCHANGED current_proc
      BY <1>4, <2>2, ZenonT(40) DEF ProcessStep, ExecStart, MakeThread, ExecLaunch, Exit, ExitSigchld, SyscallReturn,
                        SignalEnter, SignalPanic, Returning, InSyscall, InKernel, pickVars
    <3> QED BY <1>1, <3>1
  <2> QED BY <2>1, <2>2
<1>5. ASSUME NEW p \in Procs, TrapStep(p)
      PROVE  IdleMeansNoneReady'
  <2>1. PICK kbd \in Keyboard, timer \in BOOLEAN :
          Yield(p, kbd, timer) \/ SyscallEnter(p, kbd, timer) \/ Segfault(p, kbd, timer)
    BY <1>5 DEF TrapStep
  <2>2. CASE Yield(p, kbd, timer)
    <3>1. PICK cnt1 \in [AllSems -> Nat] : PickNext(state, cnt1, signal_queue, sys_ticks')
      BY <2>2, HandleIrqPicks, ZenonT(40) DEF Yield, TypeOK
    <3> QED BY <2>2, <3>1, PickNextIdle, ZenonT(40) DEF Yield, TypeOK
  <2>3. CASE SyscallEnter(p, kbd, timer)
    BY <1>1, <2>3 DEF SyscallEnter, InUser, pickVars
  <2>4. CASE Segfault(p, kbd, timer)
    <3>1. /\ SigchldCount(p) \in [AllSems -> Nat]
          /\ SigchldQueue(p) \in [Procs -> Seq(Signals)]
          /\ [state EXCEPT ![p] = "DEAD"] \in [Procs -> States]
      BY SigchldType
    <3>2. PICK cnt1 \in [AllSems -> Nat] :
            PickNext([state EXCEPT ![p] = "DEAD"], cnt1, SigchldQueue(p), sys_ticks')
      BY <2>4, <3>1, HandleIrqPicks, ZenonT(40) DEF Segfault
    <3> QED BY <2>4, <3>1, <3>2, PickNextIdle, ZenonT(40) DEF Segfault
  <2> QED BY <2>1, <2>2, <2>3, <2>4
<1>6. CASE Halted \/ UNCHANGED vars
  BY <1>6 DEF Halted, vars, IdleMeansNoneReady, Ready, AlarmDue
<1> QED BY <1>2, <1>3, <1>4, <1>5, <1>6 DEF Next

\* No wake-up and no alarm is overlooked: when sched_pick_next falls back on the idle task,
\* and as long as the CPU idles, no process of proc_list is ready.
THEOREM IdleCorrect == Spec => []IdleMeansNoneReady
<1>1. Init => IdleMeansNoneReady
  BY ConstantsAssumption DEF Init, IdleMeansNoneReady, Idle
<1>2. TypeOK /\ IInv /\ (TypeOK /\ IInv)' /\ IdleMeansNoneReady /\ [Next]_vars => IdleMeansNoneReady'
  BY IdleStep
<1> QED BY <1>1, <1>2, Invariance, PTL DEF Spec

----------------------------------------------------------------------------
(* The dead, and the binary semaphores                                     *)

\* sched_pick_next does not choose, wake or otherwise touch a dead process.
LEMMA PickNextDead ==
  ASSUME TypeOK, IInv, NEW st \in [Procs -> States], NEW cnt \in [AllSems -> Nat],
         NEW sq \in [Procs -> Seq(Signals)], NEW ticks,
         PickNext(st, cnt, sq, ticks),
         NEW p \in Procs, st[p] = "DEAD", current_proc # p
  PROVE  state'[p] = "DEAD" /\ current_proc' # p
<1>1. NonePicked(st, cnt, ticks) \/ \E n \in 1 .. nproc : Picked(n, st, cnt, ticks)
  BY PickNextFacts, ZenonT(40) DEF IInv
<1>2. CASE NonePicked(st, cnt, ticks)
  BY <1>2, ConstantsAssumption DEF NonePicked, Idle, Procs
<1>3. ASSUME NEW n \in 1 .. nproc, Picked(n, st, cnt, ticks)
      PROVE  state'[p] = "DEAD" /\ current_proc' # p
  BY <1>3 DEF Picked, Ready, Awake, Blocked
<1> QED BY <1>1, <1>2, <1>3

\* Nor does any step of another process.
LEMMA DeadStep ==
  ASSUME TypeOK, IInv, [Next]_vars, NEW p \in Procs, state[p] = "DEAD", current_proc # p
  PROVE  state'[p] = "DEAD" /\ current_proc' # p /\ pc'[p] = pc[p]
<1> DEFINE Goal == state'[p] = "DEAD" /\ current_proc' # p /\ pc'[p] = pc[p]
<1>1. ASSUME NEW kbd \in Keyboard, NEW timer \in BOOLEAN, Irq(kbd, timer)
      PROVE  Goal
  <2>1. CASE timer \/ current_proc = Idle
    <3>1. HandleIrq(state, count, signal_queue, kbd, timer, TRUE) /\ UNCHANGED pc
      BY <1>1, <2>1, ZenonT(40) DEF Irq, HandleIrq
    <3>2. PICK cnt1 \in [AllSems -> Nat] : PickNext(state, cnt1, signal_queue, sys_ticks')
      BY <3>1, HandleIrqPicks, ZenonT(40) DEF TypeOK
    <3> QED BY <3>1, <3>2, PickNextDead, ZenonT(40) DEF TypeOK
  <2>2. CASE ~(timer \/ current_proc = Idle)
    BY <1>1, <2>2, ZenonT(40) DEF Irq, HandleIrq, pickVars
  <2> QED BY <2>1, <2>2
<1>2. ASSUME NEW q \in Procs, SemaphoreStep(q)
      PROVE  Goal
  <2>1. Running(q) /\ UNCHANGED current_proc /\ (UNCHANGED state \/ \E s \in Sems : DownEnter(q, s))
    BY <1>2, ZenonT(40) DEF SemaphoreStep, Down, Retest, Up, BinaryUp, InKernel, pickVars
  <2>2. pc' = pc \/ \E l : pc' = [pc EXCEPT ![q] = l]
    BY <1>2, ZenonT(40) DEF SemaphoreStep, Down, DownEnter, Retest, Up, BinaryUp, Goto
  <2>3. q # p
    BY <2>1, SMTT(30) DEF Running
  <2>4. pc'[p] = pc[p]
    BY <2>2, <2>3, SMTT(30) DEF TypeOK
  <2>5. state'[p] = state[p]
    BY <2>1, <2>3, SMTT(30) DEF DownEnter, TypeOK
  <2> QED BY <2>1, <2>4, <2>5
<1>3. ASSUME NEW q \in Procs, SignalStep(q)
      PROVE  Goal
  <2>1. Running(q) /\ UNCHANGED current_proc /\ (UNCHANGED state \/ DownEnter(q, q))
    BY <1>3, ZenonT(40) DEF SignalStep, AlarmSet, SigAction, HandlerReturn, SigWait, SigTake, SigSend, SendUp,
                InSyscall, InKernel, pickVars
  <2>2. \E l \in Locations : pc' = [pc EXCEPT ![q] = l]
    BY <1>3, ZenonT(40) DEF SignalStep, AlarmSet, SigAction, HandlerReturn, SigWait, DownEnter, AfterDown, SigTake,
                SigSend, SendAppend, SendUp, Goto, Locations
  <2> QED BY <2>1, <2>2 DEF DownEnter, Running, TypeOK
<1>4. ASSUME NEW q \in Procs, ProcessStep(q)
      PROVE  Goal
  <2>1. CASE ExitSwitch(q)
    BY <2>1, PickNextDead, ZenonT(40) DEF ExitSwitch, Goto, Running, TypeOK
  <2>2. CASE ExecLaunch(q)
    BY <2>2, ZenonT(40) DEF ExecLaunch, Goto, Running, IInv, TypeOK, pickVars
  <2>3. ASSUME NEW a \in Times, ExecStart(q, a) \/ MakeThread(q, a)
        PROVE  Goal
    BY <2>3, FreshElement, ZenonT(40) DEF ExecStart, MakeThread, InKernel, Goto, Running, TypeOK
  <2>4. CASE Exit(q) \/ ExitSigchld(q) \/ SyscallReturn(q) \/ SignalEnter(q) \/ SignalPanic(q)
    <3>1. Running(q) /\ UNCHANGED current_proc
      BY <2>4, ZenonT(40) DEF Exit, ExitSigchld, SyscallReturn, SignalEnter, SignalPanic, Returning, InSyscall,
                  InKernel, pickVars
    <3>2. pc' = pc \/ \E l : pc' = [pc EXCEPT ![q] = l]
      BY <2>4, ZenonT(40) DEF Exit, ExitSigchld, SendAppend, SyscallReturn, SignalEnter, SignalPanic, Goto
    <3>3. state' = state \/ \E v : state' = [state EXCEPT ![q] = v]
      BY <2>4, ZenonT(40) DEF Exit, ExitSigchld, SyscallReturn, SignalEnter, SignalPanic
    <3>4. q # p
      BY <3>1 DEF Running
    <3> QED BY <3>1, <3>2, <3>3, <3>4, SMTT(30) DEF TypeOK
  <2> QED BY <1>4, <2>1, <2>2, <2>3, <2>4, ZenonT(40) DEF ProcessStep
<1>5. ASSUME NEW q \in Procs, TrapStep(q)
      PROVE  Goal
  <2>1. PICK kbd \in Keyboard, timer \in BOOLEAN :
          Yield(q, kbd, timer) \/ SyscallEnter(q, kbd, timer) \/ Segfault(q, kbd, timer)
    BY <1>5 DEF TrapStep
  <2>2. CASE Yield(q, kbd, timer)
    <3>1. PICK cnt1 \in [AllSems -> Nat] : PickNext(state, cnt1, signal_queue, sys_ticks')
      BY <2>2, HandleIrqPicks, ZenonT(40) DEF Yield, TypeOK
    <3> QED BY <2>2, <3>1, PickNextDead, ZenonT(40) DEF Yield, Running, TypeOK
  <2>3. CASE SyscallEnter(q, kbd, timer)
    BY <2>3 DEF SyscallEnter, InUser, Running, TypeOK, pickVars
  <2>4. CASE Segfault(q, kbd, timer)
    <3>1. /\ SigchldCount(q) \in [AllSems -> Nat]
          /\ SigchldQueue(q) \in [Procs -> Seq(Signals)]
          /\ [state EXCEPT ![q] = "DEAD"] \in [Procs -> States]
      BY SigchldType
    <3>2. PICK cnt1 \in [AllSems -> Nat] :
            PickNext([state EXCEPT ![q] = "DEAD"], cnt1, SigchldQueue(q), sys_ticks')
      BY <2>4, <3>1, HandleIrqPicks, ZenonT(40) DEF Segfault
    <3>3. [state EXCEPT ![q] = "DEAD"][p] = "DEAD" /\ pc'[p] = pc[p]
      BY <2>4, SMTT(30) DEF Segfault, InUser, Running, TypeOK
    <3> QED BY <3>1, <3>2, <3>3, PickNextDead, ZenonT(40)
  <2> QED BY <2>1, <2>2, <2>3, <2>4, ZenonT(40)
<1>6. CASE Halted \/ UNCHANGED vars
  BY <1>6 DEF Halted, vars
<1> QED BY <1>1, <1>2, <1>3, <1>4, <1>5, <1>6, ZenonT(40) DEF Next

\* A process that SYS_EXIT or a fault has killed, once off the CPU, is never scheduled again.
THEOREM DeadForGood == Spec => DeadStaysDead
<1>1. TypeOK /\ IInv /\ [Next]_vars =>
        [\A p \in Procs : state[p] = "DEAD" /\ current_proc # p =>
           state'[p] = "DEAD" /\ current_proc' # p /\ pc'[p] = pc[p]]_vars
  BY DeadStep
<1> QED BY <1>1, Invariance, PTL DEF Spec, DeadStaysDead
=============================================================================
