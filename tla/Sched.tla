------------------------------- MODULE Sched -------------------------------
(***************************************************************************)
(* Processes of the piOS kernel: the scheduler (kernel/proc/sched.c), the  *)
(* semaphores threads sleep on (kernel/libk/con/semaphore.c), the          *)
(* interrupt handler that preempts them (kernel/irq/interrupt.c), signals  *)
(* (kernel/proc/signal.c) and the system calls that create, end, signal    *)
(* and time processes (kernel/sys/sysd.c).                                 *)
(*                                                                         *)
(* There is one CPU.  A step of a thread is a stretch of its code that no  *)
(* interrupt can cut in a way another thread could observe: code run with  *)
(* interrupts disabled, or a single access to shared state.  Between two   *)
(* steps the timer may take the CPU away.                                  *)
(***************************************************************************)
EXTENDS Integers, Sequences, FiniteSets, FiniteSetsExt

CONSTANTS
  MaxProcs,     \* bound on the processes and threads ever created
  KernelProcs,  \* the pids made by make_kernel_thread; the rest are user processes
  InitProcs,    \* number of processes in proc_list when the model starts
  CountSems,    \* semaphores raised with semaphore_up
  BinSems,      \* semaphores raised with semaphore_binary_up, by threads or the keyboard
  Calls,        \* the kernel services the threads of this instance use
  MaxCount,     \* bound on the count semaphore_up may reach
  MaxSignals,   \* bound on the signals queued by SYS_SIGSEND for one process
  LowTicks,     \* number of values of the low word of a time (2^16 in the code)
  HighTicks,    \* number of values of its high word
  NULL

Procs == 1 .. MaxProcs
Sems == CountSems \cup BinSems
Idle == 0                          \* idle_struct.pid

\* A process owns a semaphore, signal_sema; it is named by the pid.
AllSems == Sems \cup Procs

Times == 0 .. LowTicks * HighTicks - 1

ASSUME ConstantsAssumption ==
  /\ MaxProcs \in Nat \ {0} /\ InitProcs \in Procs
  /\ KernelProcs \subseteq Procs
  /\ CountSems \cap BinSems = {} /\ Sems \cap Procs = {}
  /\ NULL \notin AllSems
  /\ MaxCount \in Nat /\ MaxSignals \in Nat
  /\ LowTicks \in Nat \ {0} /\ HighTicks \in Nat \ {0}

VARIABLES
  nproc,         \* length of proc_list, and pid_now: proc_list is <<1, ..., nproc>>
  state,         \* proc.state
  parent,        \* proc.parent, 0 for none
  sema_blocked,  \* proc.sema_blocked
  signal_queue,  \* proc.signal_queue, the types of the signals
  signals_hold,  \* proc.signals_hold
  sighandler,    \* whether proc.sighandler is set
  alarm_ticks,   \* proc.alarm_ticks
  count,         \* count of every semaphore, the signal_semas included
  current_proc,
  last_element,  \* position in proc_list where sched_pick_next stopped last
  sys_ticks,
  pc,            \* where a thread is in the kernel code it executes
  arg,           \* the semaphore, signal target or child that code works on
  halted         \* "no", "panic" (a failed ASSERT) or "spin" (sched_pick_next loops)

sigVars == <<parent, signals_hold, sighandler>>
pickVars == <<sema_blocked, alarm_ticks, current_proc, last_element, halted>>
vars == <<nproc, state, sema_blocked, signal_queue, alarm_ticks, count, current_proc,
          last_element, sys_ticks, pc, arg, halted, sigVars>>

States == {"UNLOADED", "RUNNABLE", "BLOCKED", "SYSCALL", "SYSCALL_BLOCKED", "DEAD"}
Awake == {"RUNNABLE", "SYSCALL"}
Blocked == {"BLOCKED", "SYSCALL_BLOCKED"}
Signals == {"ALARM", "CHLD", "USER"}
Locations == {"run",       \* user code, the body of a system call or of a kernel thread
              "yield",     \* semaphore_down, about to YIELD
              "test",      \* semaphore_down, behind the YIELD
              "sigtake",   \* SYS_SIGWAIT, behind its semaphore_down
              "sigup",     \* signal_send, before semaphore_up
              "sigchld",   \* SYS_EXIT, before signal_send_sigchld
              "load",      \* elf_load, behind sched_init_user_thread
              "ret",       \* the system call is over, int_sys_call goes on
              "gone"}      \* dead and switched away

TypeOK ==
  /\ nproc \in Procs
  /\ state \in [Procs -> States]
  /\ parent \in [Procs -> Procs \cup {0}]
  /\ sema_blocked \in [Procs -> AllSems \cup {NULL}]
  /\ signal_queue \in [Procs -> Seq(Signals)]
  /\ signals_hold \in [Procs -> BOOLEAN]
  /\ sighandler \in [Procs -> BOOLEAN]
  /\ alarm_ticks \in [Procs -> Times]
  /\ count \in [AllSems -> Nat]
  /\ current_proc \in Procs \cup {Idle}
  /\ last_element \in Procs
  /\ sys_ticks \in Times
  /\ pc \in [Procs -> Locations]
  /\ arg \in [Procs -> AllSems \cup {NULL}]
  /\ halted \in {"no", "panic", "spin"}

\* _kstart has made the first threads, and sched_pick_next chose the first of them.
\* A process not yet in proc_list already has the values it will be made with,
\* except alarm_ticks, which is never initialized.
Init ==
  /\ nproc = InitProcs
  /\ state = [p \in Procs |-> IF p <= InitProcs THEN "RUNNABLE" ELSE "UNLOADED"]
  /\ parent = [p \in Procs |-> 0]
  /\ sema_blocked = [p \in Procs |-> NULL]
  /\ signal_queue = [p \in Procs |-> << >>]
  /\ signals_hold = [p \in Procs |-> FALSE]
  /\ sighandler = [p \in Procs |-> FALSE]
  /\ alarm_ticks \in {f \in [Procs -> Times] : \A p \in Procs : p > InitProcs => f[p] = 0}
  /\ count = [s \in AllSems |-> 0]
  /\ current_proc = 1
  /\ last_element = 1
  /\ sys_ticks = 0
  /\ pc = [p \in Procs |-> "run"]
  /\ arg = [p \in Procs |-> NULL]
  /\ halted = "no"

----------------------------------------------------------------------------
(* sched_pick_next                                                         *)

\* The alarm test compares the low words only.
AlarmDue(p, ticks) == alarm_ticks[p] # 0 /\ alarm_ticks[p] % LowTicks <= ticks % LowTicks

\* Variants of Ready: DEAD taken for runnable, loading processes taken for runnable,
\* the count compared with one.
Ready_Dead(p, st, cnt, ticks) ==
  \/ st[p] \in Awake \cup {"DEAD"}
  \/ st[p] \in Blocked /\ sema_blocked[p] # NULL /\ cnt[sema_blocked[p]] > 0
Ready_Unloaded(p, st, cnt, ticks) ==
  \/ st[p] \in Awake \cup {"UNLOADED"}
  \/ st[p] \in Blocked /\ sema_blocked[p] # NULL /\ cnt[sema_blocked[p]] > 0
Ready_OffByOne(p, st, cnt, ticks) ==
  \/ st[p] \in Awake
  \/ st[p] \in Blocked /\ sema_blocked[p] # NULL /\ cnt[sema_blocked[p]] > 1

\* sched_pick_next stops at p: the alarm it sends to p on the way counts already.
Ready(p, st, cnt, ticks) ==
  \/ st[p] \in Awake
  \/ /\ st[p] \in Blocked
     /\ sema_blocked[p] # NULL
     /\ cnt[sema_blocked[p]] > 0 \/ (AlarmDue(p, ticks) /\ sema_blocked[p] = p)

\* The i-th element visited, starting behind last_element and wrapping around; the
\* variant starts at the head of the list every time.
Visit_FromFirst(i) == i
Visit(i) == IF last_element + i <= nproc THEN last_element + i ELSE last_element + i - nproc

WakeState(s) == CASE s = "BLOCKED" -> "RUNNABLE"
                  [] s = "SYSCALL_BLOCKED" -> "SYSCALL"
                  [] OTHER -> s

\* A DEAD element is skipped before the test that ends a fruitless round, so a
\* round that began at a DEAD element never ends.
NoneReady(st) ==
  /\ halted' = IF st[last_element] = "DEAD" THEN "spin" ELSE "no"
  /\ current_proc' = IF st[last_element] = "DEAD" THEN current_proc ELSE Idle
  /\ state' = st
  /\ UNCHANGED <<last_element, sema_blocked>>

\* Variant: the round ends before the element it started from is examined.
PickNext_ShortRound(st, cnt, sq, ticks) ==
  LET ready == {i \in 1 .. nproc - 1 : Ready(Visit(i), st, cnt, ticks)}
      steps == IF ready = {} THEN nproc ELSE Min(ready)
      next  == Visit(steps)
      fired == {p \in {Visit(i) : i \in 1 .. steps} : st[p] # "DEAD" /\ AlarmDue(p, ticks)}
  IN  /\ signal_queue' = [p \in Procs |-> IF p \in fired THEN Append(sq[p], "ALARM") ELSE sq[p]]
      /\ count' = [s \in AllSems |-> IF s \in fired THEN cnt[s] + 1 ELSE cnt[s]]
      /\ alarm_ticks' = [p \in Procs |-> IF p \in fired THEN 0 ELSE alarm_ticks[p]]
      /\ IF ready = {}
         THEN NoneReady(st)
         ELSE /\ state' = [st EXCEPT ![next] = WakeState(@)]
              /\ sema_blocked' = [sema_blocked EXCEPT ![next] = IF st[next] \in Blocked THEN NULL ELSE @]
              /\ current_proc' = next
              /\ last_element' = next
              /\ halted' = "no"

PickNext(st, cnt, sq, ticks) ==
  LET ready == {i \in 1 .. nproc : Ready(Visit(i), st, cnt, ticks)}
      steps == IF ready = {} THEN nproc ELSE Min(ready)
      next  == Visit(steps)
      fired == {p \in {Visit(i) : i \in 1 .. steps} : st[p] # "DEAD" /\ AlarmDue(p, ticks)}
  IN  /\ signal_queue' = [p \in Procs |-> IF p \in fired THEN Append(sq[p], "ALARM") ELSE sq[p]]
      /\ count' = [s \in AllSems |-> IF s \in fired THEN cnt[s] + 1 ELSE cnt[s]]
      /\ alarm_ticks' = [p \in Procs |-> IF p \in fired THEN 0 ELSE alarm_ticks[p]]
      /\ IF ready = {}
         THEN NoneReady(st)
         ELSE /\ state' = [st EXCEPT ![next] = WakeState(@)]
              /\ sema_blocked' = [sema_blocked EXCEPT ![next] = IF st[next] \in Blocked THEN NULL ELSE @]
              /\ current_proc' = next
              /\ last_element' = next
              /\ halted' = "no"

----------------------------------------------------------------------------
(* interrupt                                                               *)

NextTick == IF sys_ticks + 1 \in Times THEN sys_ticks + 1 ELSE 0

IN_KERNEL(p) == p \in KernelProcs \/ state[p] \in {"SYSCALL", "SYSCALL_BLOCKED"}

Running(p) == halted = "no" /\ current_proc = p
InUser(p) == Running(p) /\ pc[p] = "run" /\ ~IN_KERNEL(p)
InKernel(p) == Running(p) /\ pc[p] = "run" /\ IN_KERNEL(p)
InSyscall(p, call) == InKernel(p) /\ p \notin KernelProcs /\ call \in Calls

\* semaphore_binary_up, which the keyboard driver also calls from the handler.
BinaryRaise(cnt, s) == [cnt EXCEPT ![s] = IF @ = 0 THEN 1 ELSE @]

\* The end of the handler: kbd is the semaphore the keyboard driver raises when
\* its interrupt is pending too, timer says whether the timer's is.
HandleIrq(st, cnt, sq, kbd, timer, switch) ==
  LET ticks == IF timer THEN NextTick ELSE sys_ticks
      cnt1  == IF kbd = NULL THEN cnt ELSE BinaryRaise(cnt, kbd)
  IN  /\ sys_ticks' = ticks
      /\ IF switch \/ timer \/ current_proc = Idle
         THEN PickNext(st, cnt1, sq, ticks)
         ELSE /\ state' = st /\ count' = cnt1 /\ signal_queue' = sq
              /\ UNCHANGED pickVars

\* A device interrupt, at any point where interrupts are enabled.
Irq(kbd, timer) ==
  /\ halted = "no"
  /\ kbd # NULL \/ timer
  /\ HandleIrq(state, count, signal_queue, kbd, timer, FALSE)
  /\ UNCHANGED <<nproc, pc, arg, sigVars>>

\* The timer interrupt alone: what the fairness of the clock is stated of.
Tick == Irq(NULL, TRUE)

\* The sys instruction in kernel code: YIELD of semaphore_down or of spinlock_lock.
Yield(p, kbd, timer) ==
  /\ Running(p)
  /\ \/ pc[p] = "yield" /\ pc' = [pc EXCEPT ![p] = "test"]
     \/ InKernel(p) /\ "yield" \in Calls /\ UNCHANGED pc
  /\ HandleIrq(state, count, signal_queue, kbd, timer, TRUE)
  /\ UNCHANGED <<nproc, arg, sigVars>>

\* The sys instruction in user code: int_sys_call takes over on the process's kernel
\* stack.  A timer interrupt found pending is counted, but the CPU is not given away.
SyscallEnter(p, kbd, timer) ==
  /\ InUser(p)
  /\ sys_ticks' = IF timer THEN NextTick ELSE sys_ticks
  /\ count' = IF kbd = NULL THEN count ELSE BinaryRaise(count, kbd)
  /\ state' = [state EXCEPT ![p] = "SYSCALL"]
  /\ UNCHANGED <<nproc, signal_queue, pc, arg, pickVars, sigVars>>

\* signal_send_sigchld and the whole of signal_send, as run by the handler.
SigchldCount_NoUp(p) == count
SigchldCount(p) == IF parent[p] = 0 THEN count ELSE [count EXCEPT ![parent[p]] = @ + 1]
SigchldQueue(p) ==
  IF parent[p] = 0 THEN signal_queue ELSE [signal_queue EXCEPT ![parent[p]] = Append(@, "CHLD")]

\* User code faults: the handler kills the process and tells its parent.
Segfault(p, kbd, timer) ==
  /\ InUser(p) /\ "segfault" \in Calls
  /\ pc' = [pc EXCEPT ![p] = "gone"]
  /\ HandleIrq([state EXCEPT ![p] = "DEAD"],
               SigchldCount(p), SigchldQueue(p), kbd, timer, TRUE)
  /\ UNCHANGED <<nproc, arg, sigVars>>

----------------------------------------------------------------------------
(* semaphore_down, semaphore_up, semaphore_binary_up                       *)

Goto(p, l) == pc' = [pc EXCEPT ![p] = l]
AfterDown(p, s) == IF s = p THEN "sigtake" ELSE "run"

\* Up to the first int_enable; the variant forgets to say what the thread sleeps on.
DownEnter_NoSema(p, s) ==
  \/ /\ count[s] > 0
     /\ count' = [count EXCEPT ![s] = @ - 1]
     /\ Goto(p, AfterDown(p, s))
     /\ UNCHANGED <<state, sema_blocked, arg>>
  \/ /\ count[s] = 0
     /\ state' = [state EXCEPT ![p] = IF @ = "SYSCALL" THEN "SYSCALL_BLOCKED" ELSE "BLOCKED"]
     /\ arg' = [arg EXCEPT ![p] = s]
     /\ Goto(p, "yield")
     /\ UNCHANGED <<sema_blocked, count>>
DownEnter(p, s) ==
  \/ /\ count[s] > 0
     /\ count' = [count EXCEPT ![s] = @ - 1]
     /\ Goto(p, AfterDown(p, s))
     /\ UNCHANGED <<state, sema_blocked, arg>>
  \/ /\ count[s] = 0
     /\ state' = [state EXCEPT ![p] = IF @ = "SYSCALL" THEN "SYSCALL_BLOCKED" ELSE "BLOCKED"]
     /\ sema_blocked' = [sema_blocked EXCEPT ![p] = s]
     /\ arg' = [arg EXCEPT ![p] = s]
     /\ Goto(p, "yield")
     /\ UNCHANGED count

Down(p, s) ==
  /\ InKernel(p) /\ "down" \in Calls
  /\ DownEnter(p, s)
  /\ UNCHANGED <<nproc, signal_queue, alarm_ticks, current_proc, last_element, sys_ticks, halted, sigVars>>

\* From the int_disable behind the YIELD to the next int_enable: the loop of
\* semaphore_down goes round without blocking the thread again.  The variants test
\* only once, and leave the count alone.
Retest_If(p) ==
  /\ Running(p) /\ pc[p] = "test"
  /\ count' = [count EXCEPT ![arg[p]] = @ - 1]
  /\ Goto(p, AfterDown(p, arg[p]))
  /\ arg' = [arg EXCEPT ![p] = NULL]
  /\ UNCHANGED <<nproc, state, signal_queue, sys_ticks, pickVars, sigVars>>
Retest_NoTake(p) ==
  /\ Running(p) /\ pc[p] = "test"
  /\ count[arg[p]] > 0
  /\ Goto(p, AfterDown(p, arg[p]))
  /\ arg' = [arg EXCEPT ![p] = NULL]
  /\ UNCHANGED <<nproc, state, signal_queue, count, sys_ticks, pickVars, sigVars>>
Retest(p) ==
  /\ Running(p) /\ pc[p] = "test"
  /\ \/ /\ count[arg[p]] > 0
        /\ count' = [count EXCEPT ![arg[p]] = @ - 1]
        /\ Goto(p, AfterDown(p, arg[p]))
        /\ arg' = [arg EXCEPT ![p] = NULL]
     \/ /\ count[arg[p]] = 0
        /\ Goto(p, "yield")
        /\ UNCHANGED <<count, arg>>
  /\ UNCHANGED <<nproc, state, signal_queue, sys_ticks, pickVars, sigVars>>

Up(p, s) ==
  /\ InKernel(p) /\ "up" \in Calls
  /\ count[s] < MaxCount
  /\ count' = [count EXCEPT ![s] = @ + 1]
  /\ UNCHANGED <<nproc, state, signal_queue, sys_ticks, pc, arg, pickVars, sigVars>>

BinaryUp(p, s) ==
  /\ InKernel(p) /\ "binary_up" \in Calls
  /\ count' = BinaryRaise(count, s)
  /\ UNCHANGED <<nproc, state, signal_queue, sys_ticks, pc, arg, pickVars, sigVars>>

----------------------------------------------------------------------------
(* System calls on processes and signals, and the return from a call       *)

\* sched_init_user_thread inside elf_load: alarm_ticks is whatever the heap held.
ExecStart(p, alarm) ==
  /\ InKernel(p) /\ "exec" \in Calls
  /\ nproc < MaxProcs /\ nproc + 1 \notin KernelProcs
  /\ nproc' = nproc + 1
  /\ alarm_ticks' = [alarm_ticks EXCEPT ![nproc + 1] = alarm]
  /\ arg' = [arg EXCEPT ![p] = nproc + 1]
  /\ Goto(p, "load")
  /\ UNCHANGED <<state, sema_blocked, signal_queue, count, current_proc, last_element, sys_ticks, halted, sigVars>>

\* The end of SYS_EXEC, and of init_stage1, whose child has no parent.
ExecLaunch(p) ==
  /\ Running(p) /\ pc[p] = "load"
  /\ parent' = [parent EXCEPT ![arg[p]] = IF p \in KernelProcs THEN 0 ELSE p]
  /\ state' = [state EXCEPT ![arg[p]] = "RUNNABLE"]
  /\ Goto(p, IF p \in KernelProcs THEN "run" ELSE "ret")
  /\ arg' = [arg EXCEPT ![p] = NULL]
  /\ UNCHANGED <<nproc, signal_queue, count, sys_ticks, signals_hold, sighandler, pickVars>>

\* make_kernel_thread, called by a kernel thread.
MakeThread(p, alarm) ==
  /\ InKernel(p) /\ p \in KernelProcs
  /\ nproc < MaxProcs /\ nproc + 1 \in KernelProcs
  /\ nproc' = nproc + 1
  /\ state' = [state EXCEPT ![nproc + 1] = "RUNNABLE"]
  /\ alarm_ticks' = [alarm_ticks EXCEPT ![nproc + 1] = alarm]
  /\ UNCHANGED <<sema_blocked, signal_queue, count, current_proc, last_element, sys_ticks, pc, arg, halted, sigVars>>

AlarmSet(p, t) ==
  /\ InSyscall(p, "alarm")
  /\ t = 0 \/ Len(signal_queue[p]) < MaxSignals
  /\ alarm_ticks' = [alarm_ticks EXCEPT ![p] = t]
  /\ Goto(p, "ret")
  /\ UNCHANGED <<nproc, state, sema_blocked, signal_queue, count, current_proc, last_element, sys_ticks,
                 arg, halted, sigVars>>

SigAction(p, h) ==
  /\ InSyscall(p, "sigaction")
  /\ sighandler' = [sighandler EXCEPT ![p] = h]
  /\ Goto(p, "ret")
  /\ UNCHANGED <<nproc, state, signal_queue, count, sys_ticks, arg, parent, signals_hold, pickVars>>

\* SYS_SIGHDLRRET, which the handler's trampoline calls.
HandlerReturn(p) ==
  /\ InSyscall(p, "sigaction") /\ signals_hold[p]
  /\ signals_hold' = [signals_hold EXCEPT ![p] = FALSE]
  /\ Goto(p, "ret")
  /\ UNCHANGED <<nproc, state, signal_queue, count, sys_ticks, arg, parent, sighandler, pickVars>>

\* SYS_SIGWAIT; refused while a handler may run.
SigWait(p) ==
  /\ InSyscall(p, "sigwait")
  /\ IF sighandler[p] /\ ~signals_hold[p]
     THEN Goto(p, "ret") /\ UNCHANGED <<state, sema_blocked, count, arg>>
     ELSE DownEnter(p, p)
  /\ UNCHANGED <<nproc, signal_queue, alarm_ticks, current_proc, last_element, sys_ticks, halted, sigVars>>

SigTake(p) ==
  /\ Running(p) /\ pc[p] = "sigtake"
  /\ signal_queue[p] # << >>
  /\ signal_queue' = [signal_queue EXCEPT ![p] = Tail(@)]
  /\ Goto(p, "ret")
  /\ UNCHANGED <<nproc, state, count, sys_ticks, arg, pickVars, sigVars>>

\* signal_send: the queue first, the semaphore in a later step.
SendAppend(p, target, sig) ==
  /\ signal_queue' = [signal_queue EXCEPT ![target] = Append(@, sig)]
  /\ arg' = [arg EXCEPT ![p] = target]
  /\ Goto(p, "sigup")

SendUp(p) ==
  /\ Running(p) /\ pc[p] = "sigup"
  /\ count' = [count EXCEPT ![arg[p]] = @ + 1]
  /\ arg' = [arg EXCEPT ![p] = NULL]
  /\ Goto(p, "ret")
  /\ UNCHANGED <<nproc, state, signal_queue, sys_ticks, pickVars, sigVars>>

SigSend(p, target) ==
  /\ InSyscall(p, "sigsend")
  /\ target <= nproc /\ Len(signal_queue[target]) < MaxSignals
  /\ SendAppend(p, target, "USER")
  /\ UNCHANGED <<nproc, state, count, sys_ticks, pickVars, sigVars>>

\* SYS_EXIT marks the process dead first and tells the parent afterwards.
Exit(p) ==
  /\ InSyscall(p, "exit")
  /\ state' = [state EXCEPT ![p] = "DEAD"]
  /\ Goto(p, "sigchld")
  /\ UNCHANGED <<nproc, signal_queue, count, sys_ticks, arg, pickVars, sigVars>>

ExitSigchld(p) ==
  /\ Running(p) /\ pc[p] = "sigchld"
  /\ IF parent[p] = 0
     THEN Goto(p, "ret") /\ UNCHANGED <<signal_queue, arg>>
     ELSE SendAppend(p, parent[p], "CHLD")
  /\ UNCHANGED <<nproc, state, count, sys_ticks, pickVars, sigVars>>

\* The end of int_sys_call.  A dead process gives the CPU away for good.
ExitSwitch(p) ==
  /\ Running(p) /\ pc[p] = "ret" /\ state[p] = "DEAD"
  /\ Goto(p, "gone")
  /\ PickNext(state, count, signal_queue, sys_ticks)
  /\ UNCHANGED <<nproc, sys_ticks, arg, sigVars>>

Returning(p) ==
  /\ Running(p) /\ p \notin KernelProcs /\ state[p] = "SYSCALL"
  /\ pc[p] \in {"run", "ret"}
Deliverable(p) == signal_queue[p] # << >> /\ ~signals_hold[p] /\ sighandler[p]

SyscallReturn(p) ==
  /\ Returning(p) /\ ~Deliverable(p)
  /\ state' = [state EXCEPT ![p] = "RUNNABLE"]
  /\ Goto(p, "run")
  /\ UNCHANGED <<nproc, signal_queue, count, sys_ticks, arg, pickVars, sigVars>>

\* signal_handler_enter and the removal of the signal delivered; the variant leaves
\* signal_sema as it was.
SignalEnter_NoDown(p) ==
  /\ Returning(p) /\ Deliverable(p) /\ count[p] > 0
  /\ signals_hold' = [signals_hold EXCEPT ![p] = TRUE]
  /\ signal_queue' = [signal_queue EXCEPT ![p] = Tail(@)]
  /\ state' = [state EXCEPT ![p] = "RUNNABLE"]
  /\ Goto(p, "run")
  /\ UNCHANGED <<nproc, count, sys_ticks, arg, parent, sighandler, pickVars>>
SignalEnter(p) ==
  /\ Returning(p) /\ Deliverable(p) /\ count[p] > 0
  /\ signals_hold' = [signals_hold EXCEPT ![p] = TRUE]
  /\ signal_queue' = [signal_queue EXCEPT ![p] = Tail(@)]
  /\ count' = [count EXCEPT ![p] = @ - 1]
  /\ state' = [state EXCEPT ![p] = "RUNNABLE"]
  /\ Goto(p, "run")
  /\ UNCHANGED <<nproc, sys_ticks, arg, parent, sighandler, pickVars>>

\* ASSERT(current_proc->signal_sema.count > 0) fails.
SignalPanic(p) ==
  /\ Returning(p) /\ Deliverable(p) /\ count[p] = 0
  /\ halted' = "panic"
  /\ UNCHANGED <<nproc, state, sema_blocked, signal_queue, alarm_ticks, count, current_proc,
                 last_element, sys_ticks, pc, arg, sigVars>>

\* The CPU of a halted kernel loops forever.
Halted == halted # "no" /\ UNCHANGED vars

----------------------------------------------------------------------------
Keyboard == BinSems \cup {NULL}

SemaphoreStep(p) ==
  \/ \E s \in Sems : Down(p, s)
  \/ Retest(p)
  \/ \E s \in CountSems : Up(p, s)
  \/ \E s \in BinSems : BinaryUp(p, s)

SignalStep(p) ==
  \/ \E t \in Times : AlarmSet(p, t)
  \/ \E h \in BOOLEAN : SigAction(p, h)
  \/ HandlerReturn(p)
  \/ SigWait(p)
  \/ SigTake(p)
  \/ \E t \in Procs : SigSend(p, t)
  \/ SendUp(p)

ProcessStep(p) ==
  \/ \E a \in Times : ExecStart(p, a) \/ MakeThread(p, a)
  \/ ExecLaunch(p)
  \/ Exit(p)
  \/ ExitSigchld(p)
  \/ ExitSwitch(p)
  \/ SyscallReturn(p)
  \/ SignalEnter(p)
  \/ SignalPanic(p)

TrapStep(p) ==
  \E kbd \in Keyboard, timer \in BOOLEAN :
    Yield(p, kbd, timer) \/ SyscallEnter(p, kbd, timer) \/ Segfault(p, kbd, timer)

Next ==
  \/ \E kbd \in Keyboard, timer \in BOOLEAN : Irq(kbd, timer)
  \/ \E p \in Procs : SemaphoreStep(p) \/ SignalStep(p) \/ ProcessStep(p) \/ TrapStep(p)
  \/ Halted

Spec == Init /\ [][Next]_vars

\* The timer runs all the time, and a quantum is long enough for the thread it is
\* given to to execute the few instructions of a step of semaphore_down.
FairSpec ==
  /\ Spec
  /\ WF_vars(Tick)
  /\ \A p \in Procs : SF_vars(Retest(p)) /\ SF_vars(Yield(p, NULL, FALSE) /\ pc[p] = "yield")

----------------------------------------------------------------------------
(* Properties                                                              *)

\* A process that sleeps can be woken: its state is a blocked one only while it is in
\* semaphore_down, and then sema_blocked, the one thing sched_pick_next looks at, is the
\* semaphore it waits for; everyone else has sema_blocked cleared.
BlockedIsWakeable ==
  \A p \in Procs :
    IF state[p] \in Blocked
    THEN pc[p] \in {"yield", "test"} /\ arg[p] # NULL /\ sema_blocked[p] = arg[p]
    ELSE sema_blocked[p] = NULL

\* The CPU only runs what may run: never a process still being loaded (the ASSERT at the
\* end of interrupt), a dead one only until SYS_EXIT is through, and a sleeping one only
\* for the instructions up to its YIELD.
RunningMayRun ==
  \A p \in Procs : current_proc = p /\ halted = "no" =>
    /\ p <= nproc /\ state[p] # "UNLOADED" /\ pc[p] # "gone"
    /\ state[p] = "DEAD" => pc[p] \in {"sigchld", "sigup", "ret"}
    /\ state[p] \in Blocked => pc[p] = "yield"

\* The idle task runs only while no process could: no wake-up and no alarm is overlooked.
IdleMeansNoneReady ==
  current_proc = Idle => \A p \in 1 .. nproc : ~Ready(p, state, count, sys_ticks)

\* Every queued signal is paid for in signal_sema, up to the senders between list_append
\* and semaphore_up and the receiver between semaphore_down and list_remove.
SignalAccounting ==
  \A p \in Procs :
    Len(signal_queue[p]) = count[p] + Cardinality({q \in Procs : pc[q] = "sigup" /\ arg[q] = p})
                                    + (IF pc[p] = "sigtake" THEN 1 ELSE 0)

\* ASSERT(current_proc->signal_queue.first) in SYS_SIGWAIT never fails.
SigWaitFindsSignal == \A p \in Procs : pc[p] = "sigtake" => signal_queue[p] # << >>

\* ASSERT(s->count < 2) in semaphore_binary_up never fails: two interrupts, or an interrupt
\* and a thread, raise the count only once.
BinaryStaysBinary == \A s \in BinSems : count[s] < 2

\* Once dead and off the CPU, a process never runs and never changes state again.
DeadStaysDead ==
  [][\A p \in Procs : state[p] = "DEAD" /\ current_proc # p =>
       state'[p] = "DEAD" /\ current_proc' # p /\ pc'[p] = pc[p]]_vars

\* Round robin: a process that is ready to run gets the CPU, or is dead or asleep before
\* its turn (it cannot be), or the kernel has halted.
ReadyRuns ==
  \A p \in Procs : (p <= nproc /\ state[p] \in Awake) ~> (current_proc = p \/ halted # "no")

\* No wake-up is lost: a permit does not stay available while a thread sleeps on it.
NoStrandedPermit ==
  \A s \in Sems :
    (count[s] > 0 /\ \E p \in Procs : pc[p] \in {"yield", "test"} /\ arg[p] = s)
      ~> (count[s] = 0 \/ (\A p \in Procs : pc[p] \in {"yield", "test"} => arg[p] # s) \/ halted # "no")

\* What makes the properties above inductive: proc_list is the processes made so far, a
\* process that loads another is alone in doing so, and every location of semaphore_down,
\* signal_send and elf_load works on the object it was entered with.
IInv ==
  /\ last_element <= nproc /\ current_proc <= nproc
  /\ BlockedIsWakeable /\ RunningMayRun
  /\ \A p \in Procs :
       /\ p > nproc => state[p] = "UNLOADED" /\ pc[p] = "run"
       /\ pc[p] = "gone" => state[p] = "DEAD"
       /\ pc[p] \in {"yield", "test"} => arg[p] \in Sems \cup {p}
       /\ pc[p] = "sigup" => arg[p] \in Procs
       /\ pc[p] = "load" => arg[p] \in Procs /\ arg[p] <= nproc /\ state[arg[p]] = "UNLOADED"
       /\ \A q \in Procs : pc[p] = "load" /\ pc[q] = "load" /\ arg[p] = arg[q] => p = q

\* sched_pick_next: "if no process is currently available, set kernel idle task to allow
\* device irq".
IdleWhenNoneAvailable == halted # "spin"

\* int_sys_call: ASSERT(current_proc->signal_sema.count > 0).
DeliveryAssertHolds == halted # "panic"

----------------------------------------------------------------------------
\* The semaphores behave as the abstract ones, the threads in the loop of semaphore_down
\* being the waiters: a permit raised is taken by one semaphore_down, and a semaphore_down
\* that returns has taken one.
Waiters == [s \in AllSems |-> {p \in Procs : pc[p] \in {"yield", "test"} /\ arg[p] = s}]
Sem == INSTANCE Semaphore WITH Threads <- Procs, Semas <- AllSems, waiters <- Waiters
SemaphoreSpec == Sem!Spec
=============================================================================
