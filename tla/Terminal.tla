------------------------------ MODULE Terminal -----------------------------
(***************************************************************************)
(* The terminal: scan codes become characters (kernel/driver/keyboard.c),  *)
(* the keyboard's interrupt edits a line and echoes it, two driver threads *)
(* serve reads from a ring buffer and writes to the screen                 *)
(* (kernel/driver/tty.c, libk/ringbuff.c), and processes print through the *)
(* streams of lib/libc/src/stdio.c.                                        *)
(*                                                                         *)
(* The interrupt handler is one step.  A driver thread may be interrupted  *)
(* between any two accesses to what it shares with the handler: the ring's *)
(* indices, and the cursor.  A section under insert_lock that only its own *)
(* thread can be observed in is one step; the lists are sequences here     *)
(* (module Files has their steps).                                         *)
(***************************************************************************)
EXTENDS Integers, Sequences, SequencesExt, FiniteSets

CONSTANTS
  Procs,
  TTY_BUFF_SIZE, TTY_SUBMIT_BUFF, LINE_BUFF_SIZE, __FILE_BUFF_SIZE,
  VGA_TEXT_WIDTH, VGA_TEXT_HEIGHT,
  Workloads,  \* what is typed, read and printed, by which processes, with bounds on
              \* the events of the keyboard and the calls of each: one is chosen at first
  NULL

VARIABLES
  load,      \* the workload: keys, sizes and flags of reads, texts
  wire,      \* the scan codes of the event under way
  kb,        \* prev_scancode, keyboard_state, extended_scancode
  tty,       \* the line, the ring buffer, read_data_signal, the cursor and the escape parser
  lock,      \* insert_lock: free?
  read_queue_buff, readq, writeq,
  rt, wt,    \* the driver threads
  proc,      \* processes: where each is, and the buffer of its stdout
  sent, due, got, given, printed, leaked, events  \* ghosts and counts

vars == <<load, wire, kb, tty, lock, read_queue_buff, readq, writeq, rt, wt, proc,
          sent, due, got, given, printed, leaked, events>>

Smaller(a, b) == IF a < b THEN a ELSE b
Larger(a, b) == IF a > b THEN a ELSE b

----------------------------------------------------------------------------
(* ringbuff.c: one index stays free                                        *)

RbSize == TTY_BUFF_SIZE + 1
ringbuff_length(t) == IF t.head >= t.tail THEN t.head - t.tail ELSE t.head + RbSize - t.tail

\* The variant takes the last index too.
RbFull_Slack(t) == FALSE
RbFull(t) == t.head = t.tail - 1 \/ (t.tail = 0 /\ t.head = RbSize - 1)
RbPut(t, c) ==
  IF RbFull(t) THEN [t EXCEPT !.dropped = TRUE]
  ELSE [t EXCEPT !.buff[t.head] = c, !.head = IF t.head + 1 = RbSize THEN 0 ELSE t.head + 1]
ringbuff_write(t, s) == FoldLeft(RbPut, t, s)

----------------------------------------------------------------------------
(* The screen                                                              *)

Printable == {"a", "A", "[", " ", "2", ";", "B", "C", "D", "H", "^"}

tty_new_line(t) == [t EXCEPT !.row = Smaller(t.row + 1, VGA_TEXT_HEIGHT - 1)]

\* The last character of an escape code.  A takes the cursor up, even off the screen.
EscFinal(t, c) ==
  LET n == Larger(t.args[1], 1) IN
  CASE c = "A" -> [t EXCEPT !.row = t.row - n, !.above = t.above \/ t.row < n]
    [] c = "B" -> FoldLeft(LAMBDA u, i : tty_new_line(u), t, [i \in 1 .. n |-> i])
    [] c = "C" -> [t EXCEPT !.col = Smaller(t.col + n, VGA_TEXT_WIDTH - 1)]
    [] c = "D" -> [t EXCEPT !.col = Larger(t.col - n, 0)]
    [] c = "H" -> [t EXCEPT !.col = Smaller(t.args[1], VGA_TEXT_WIDTH - 1),
                            !.row = Smaller(t.args[2], VGA_TEXT_HEIGHT - 1)]
    [] OTHER -> t
EscEnd(t) == [t EXCEPT !.escape = FALSE, !.stage = 0, !.args = <<0, 0>>]

\* esc_stage: 0 for the bracket, 1 and 2 for the arguments, 3 for the last byte
handle_escapes(t, c) ==
  CASE t.stage = 0 -> IF c = "[" THEN [t EXCEPT !.stage = 1] ELSE EscEnd(t)
    [] c = "2" -> [t EXCEPT !.args[t.stage] = t.args[t.stage] * 10 + 2]
    [] c = ";" /\ t.stage = 1 -> [t EXCEPT !.stage = 2]
    [] OTHER -> EscEnd(EscFinal(t, c))

\* Behind the last column the next line begins.  The variant lets the cursor stay there.
Wraps_Late(col) == col > VGA_TEXT_WIDTH + 1
Wraps(col) == col >= VGA_TEXT_WIDTH
tty_putc(t, c) ==
  CASE t.escape -> handle_escapes(t, c)
    [] c = "nl" -> [tty_new_line(t) EXCEPT !.col = 0]
    [] c = "bs" -> [t EXCEPT !.col = Larger(t.col - 1, 0)]
    [] c = "esc" -> [t EXCEPT !.escape = TRUE, !.stage = 0]
    [] c \in Printable -> IF Wraps(t.col + 1) THEN [tty_new_line(t) EXCEPT !.col = 0]
                          ELSE [t EXCEPT !.col = t.col + 1]
    [] OTHER -> t

----------------------------------------------------------------------------
(* The line that is edited                                                 *)

linebuff_putc(t, c) == IF Len(t.line) < TTY_BUFF_SIZE THEN [t EXCEPT !.line = Append(@, c)] ELSE t

\* The variant does not wake the reader.
tty_submit_line_buff_Silent(t) == [ringbuff_write(t, t.line) EXCEPT !.line = << >>]
tty_submit_line_buff(t) == [ringbuff_write(t, t.line) EXCEPT !.line = << >>, !.signal = 1]

\* Back over the beginning of a screen line, to the end of the one before.
tty_linebuff_erase(t) ==
  IF t.line = << >> THEN t
  ELSE LET u == [t EXCEPT !.line = Front(@)] IN
       IF t.col > 0 THEN [u EXCEPT !.col = @ - 1]
       ELSE [u EXCEPT !.row = IF t.row > 0 THEN t.row - 1 ELSE t.row, !.col = VGA_TEXT_WIDTH]

\* A control character is echoed with a caret.
Letter(c) == IF c = "esc" THEN "[" ELSE "A"
tty_submit_char(t, c) ==
  CASE c \in Printable -> tty_putc(linebuff_putc(t, c), c)
    [] c = "nl" -> [tty_new_line(tty_submit_line_buff(linebuff_putc(t, c))) EXCEPT !.col = 0]
    [] c = "bs" -> tty_linebuff_erase(t)
    [] OTHER -> linebuff_putc(tty_putc(tty_putc(t, "^"), Letter(c)), c)

----------------------------------------------------------------------------
(* print_scancode, for some keys                                           *)

printable(code) == CASE code = "A" -> "a" [] code = "ENTER" -> "nl" [] code = "BACKSPACE" -> "bs" [] OTHER -> " "
shift(code) == IF code = "A" THEN "A" ELSE printable(code)
control(code) == IF code = "A" THEN "ctl" ELSE printable(code)

\* A code the hardware sometimes makes up.  The variant takes it for a key.
Ignored_None(code) == FALSE
Ignored(code) == code = "81"

\* What a scan code does to the state.
Decode(code) ==
  LET released == kb.prev = "F0" IN
  CASE Ignored(code) -> kb
    [] code \in {"LSHIFT", "RSHIFT"} -> [kb EXCEPT !.prev = code, !.shift = ~released]
    [] code = "CTRL" -> [kb EXCEPT !.prev = code, !.ctrl = ~released]
    [] code = "E0" -> [kb EXCEPT !.prev = code, !.ext = TRUE]
    [] kb.ext -> [kb EXCEPT !.prev = code, !.ext = (code = "F0")]
    [] OTHER -> [kb EXCEPT !.prev = code]

\* The characters it sends.
Keys(code) ==
  CASE Ignored(code) \/ code \in {"LSHIFT", "RSHIFT", "CTRL", "E0", "F0"} \/ kb.prev = "F0" -> << >>
    [] kb.ext -> IF code = "UP" THEN <<"esc", "[", "A">> ELSE << >>
    [] kb.ctrl -> <<control(code)>>
    [] kb.shift -> <<shift(code)>>
    [] OTHER -> <<printable(code)>>

\* The interrupt of the next scan code: print_scancode and send_key, to the end.
\* Bound: no line grows beyond line_buff, whose end linebuff_putc does not know.
Scancode ==
  LET code == Head(wire)
      t == FoldLeft(tty_submit_char, tty, Keys(code)) IN
  /\ wire # << >> /\ Len(tty.line) + Len(Keys(code)) <= LINE_BUFF_SIZE
  /\ wire' = Tail(wire)
  /\ kb' = Decode(code)
  /\ tty' = t
  /\ sent' = sent \o Keys(code)
  /\ UNCHANGED <<load, lock, read_queue_buff, readq, writeq, rt, wt, proc, due, got, given, printed, leaked, events>>

\* The keyboard (external): a key is pressed or released; the line may bring a stray 0x81.
Wire(e) ==
  LET code == IF e.key = "UP" THEN <<"E0">> ELSE << >>
  IN code \o (IF e.up THEN <<"F0">> ELSE << >>) \o (IF e.stray THEN <<"81">> ELSE << >>) \o <<e.key>>
\* The characters a press should send; held: the shift and control keys that are down.
Due(e) ==
  IF e.up \/ e.key \in {"LSHIFT", "RSHIFT", "CTRL"} THEN << >>
  ELSE IF e.key = "UP" THEN <<"esc", "[", "A">>
  ELSE IF "CTRL" \in due.held THEN <<control(e.key)>>
  ELSE IF "LSHIFT" \in due.held THEN <<shift(e.key)>> ELSE <<printable(e.key)>>
Key(e) ==
  /\ wire = << >> /\ events < load.events
  /\ wire' = Wire(e) /\ events' = events + 1
  /\ due' = [keys |-> due.keys \o Due(e), held |-> IF e.up THEN due.held \ {e.key} ELSE due.held \cup {e.key}]
  /\ UNCHANGED <<load, kb, tty, lock, read_queue_buff, readq, writeq, rt, wt, proc, sent, got, given, printed, leaked>>

----------------------------------------------------------------------------
(* tty_submit_req, and the read thread                                     *)

\* A read that may not wait is refused unless there is more than the reads before it ask for.
\* The variant looks at the ring only.
WouldBlock_Ring == ringbuff_length(tty) = 0
WouldBlock == read_queue_buff >= ringbuff_length(tty)

Call(p) == p \in load.procs /\ proc[p].pc = "run" /\ proc[p].calls < load.calls

sys_read(p, size, nonblock) ==
  /\ Call(p) /\ lock = "free"
  /\ IF nonblock /\ WouldBlock
     THEN proc' = [proc EXCEPT ![p].calls = @ + 1] /\ UNCHANGED <<read_queue_buff, readq>>
     ELSE /\ read_queue_buff' = read_queue_buff + size
          /\ readq' = Append(readq, [p |-> p, size |-> size, nonblock |-> nonblock])
          /\ proc' = [proc EXCEPT ![p].calls = @ + 1, ![p].pc = "read"]
  /\ UNCHANGED <<load, wire, kb, tty, lock, writeq, rt, wt, sent, due, got, given, printed, leaked, events>>

RtIdle == [pc |-> "idle", size |-> 0, data |-> << >>]
RtStep(r) == /\ rt' = r
             /\ UNCHANGED <<load, wire, kb, read_queue_buff, readq, writeq, wt, proc, sent, due, got, given, printed, leaked, events>>

RtTake ==
  /\ rt.pc = "idle" /\ readq # << >>
  /\ RtStep([rt EXCEPT !.pc = "wait", !.size = Smaller(Head(readq).size, TTY_BUFF_SIZE)])
  /\ UNCHANGED <<tty, lock>>

\* Waiting for the ring to hold something; the assertion is that the request may wait.
RtWait ==
  /\ rt.pc = "wait" /\ UNCHANGED lock
  /\ \/ /\ ringbuff_length(tty) > 0
        /\ RtStep([rt EXCEPT !.pc = "lock"]) /\ UNCHANGED tty
     \/ /\ ringbuff_length(tty) = 0
        /\ RtStep([rt EXCEPT !.pc = IF Head(readq).nonblock THEN "assert" ELSE "sleep"]) /\ UNCHANGED tty
RtWake ==
  /\ rt.pc = "sleep" /\ tty.signal = 1
  /\ RtStep([rt EXCEPT !.pc = "wait"]) /\ tty' = [tty EXCEPT !.signal = 0] /\ UNCHANGED lock
RtLock ==
  /\ rt.pc = "lock" /\ lock = "free"
  /\ RtStep([rt EXCEPT !.pc = "read"]) /\ lock' = "read" /\ UNCHANGED tty

\* ringbuff_read: a byte, then the tail, which may be seen behind the end before it is 0.
RtByte ==
  /\ rt.pc = "read" /\ Len(rt.data) < rt.size /\ tty.tail # tty.head
  /\ RtStep([rt EXCEPT !.pc = "tail", !.data = Append(@, tty.buff[tty.tail])])
  /\ UNCHANGED <<tty, lock>>
RtTail ==
  /\ rt.pc = "tail" /\ UNCHANGED lock
  /\ \/ /\ RtStep([rt EXCEPT !.pc = "read"])
        /\ tty' = [tty EXCEPT !.tail = (tty.tail + 1) % RbSize]
     \/ /\ tty.tail + 1 = RbSize
        /\ RtStep([rt EXCEPT !.pc = "wrap"])
        /\ tty' = [tty EXCEPT !.tail = RbSize]
RtWrap ==
  /\ rt.pc = "wrap" /\ UNCHANGED lock
  /\ RtStep([rt EXCEPT !.pc = "read"]) /\ tty' = [tty EXCEPT !.tail = 0]

TakenBack == rt.size
RtDone ==
  LET req == Head(readq) IN
  /\ rt.pc = "read" /\ (Len(rt.data) = rt.size \/ tty.tail = tty.head)
  /\ read_queue_buff' = read_queue_buff - TakenBack
  /\ lock' = "free" /\ readq' = Tail(readq) /\ rt' = RtIdle
  /\ proc' = [proc EXCEPT ![req.p].pc = "run"]
  /\ got' = got \o rt.data
  /\ leaked' = leaked + req.size - rt.size
  /\ UNCHANGED <<load, wire, kb, tty, writeq, wt, sent, due, given, printed, events>>

----------------------------------------------------------------------------
(* The write thread                                                        *)

WtIdle == [pc |-> "idle", size |-> 0, i |-> 0, old |-> 0]
WtStep(w) == /\ wt' = w
             /\ UNCHANGED <<load, wire, kb, lock, read_queue_buff, readq, rt, sent, due, got, given, leaked, events>>
\* The next character
WtNext(w) == [w EXCEPT !.pc = "putc", !.i = @ + 1, !.old = 0]

WtTake ==
  /\ wt.pc = "idle" /\ writeq # << >>
  /\ WtStep([wt EXCEPT !.pc = "putc", !.i = 1, !.size = Smaller(Len(Head(writeq).text), TTY_SUBMIT_BUFF)])
  /\ UNCHANGED <<tty, writeq, proc, printed>>

\* tty_putc: what moves the cursor loads it first.
WtPutc ==
  LET req == Head(writeq)
      c == req.text[wt.i] IN
  /\ wt.pc = "putc" /\ wt.i <= wt.size
  /\ printed' = [printed EXCEPT ![req.p][req.stream] = Append(@, c)]
  /\ IF ~tty.escape /\ c \in Printable THEN WtStep([wt EXCEPT !.pc = "col", !.old = tty.col]) /\ UNCHANGED tty
     ELSE IF ~tty.escape /\ c = "nl" THEN WtStep([wt EXCEPT !.pc = "row", !.old = tty.row]) /\ UNCHANGED tty
     ELSE WtStep(WtNext(wt)) /\ tty' = tty_putc(tty, c)
  /\ UNCHANGED <<writeq, proc>>
WtCol ==
  /\ wt.pc = "col" /\ UNCHANGED <<writeq, proc, printed>>
  /\ IF Wraps(wt.old + 1) THEN tty' = [tty EXCEPT !.col = 0] /\ WtStep([wt EXCEPT !.pc = "newline", !.old = 0])
     ELSE tty' = [tty EXCEPT !.col = wt.old + 1] /\ WtStep(WtNext(wt))
WtNewline ==
  /\ wt.pc = "newline" /\ WtStep([wt EXCEPT !.pc = "row", !.old = tty.row])
  /\ UNCHANGED <<tty, writeq, proc, printed>>
WtRow ==
  /\ wt.pc = "row"
  /\ WtStep(IF Head(writeq).text[wt.i] = "nl" THEN [wt EXCEPT !.pc = "return", !.old = 0] ELSE WtNext(wt))
  /\ tty' = [tty EXCEPT !.row = Smaller(wt.old + 1, VGA_TEXT_HEIGHT - 1)]
  /\ UNCHANGED <<writeq, proc, printed>>
WtReturn ==
  /\ wt.pc = "return" /\ WtStep(WtNext(wt))
  /\ tty' = [tty EXCEPT !.col = 0]
  /\ UNCHANGED <<writeq, proc, printed>>

\* The request is done: a flush is followed by the text it made room for.
WtDone ==
  LET req == Head(writeq)
      more == proc[req.p].pc = "flush" IN
  /\ wt.pc = "putc" /\ wt.i > wt.size /\ WtStep(WtIdle)
  /\ writeq' = Tail(writeq)
  /\ proc' = [proc EXCEPT ![req.p].pc = IF more THEN "flushed" ELSE "run"]
  /\ UNCHANGED <<tty, printed>>

----------------------------------------------------------------------------
(* stdio.c: fwrite to a line buffered and to an unbuffered stream, fflush  *)

ProcStep(p, r) == /\ proc' = [proc EXCEPT ![p] = r]
                  /\ UNCHANGED <<load, wire, kb, tty, lock, read_queue_buff, readq, rt, wt, sent, due, got, printed, leaked, events>>

\* SYS_WRITE takes a copy of the text; at most TTY_SUBMIT_BUFF bytes will be written.
Accepted(text) == SubSeq(text, 1, Smaller(Len(text), TTY_SUBMIT_BUFF))
sys_write(p, stream, text) == lock = "free" /\ writeq' = Append(writeq, [p |-> p, stream |-> stream, text |-> text])

fits(p, text) == Len(proc[p].buff) + Len(text) <= __FILE_BUFF_SIZE /\ "nl" \notin Range(text)
\* What is buffered is written first.  The variant writes past it.
ToFlush_None(p, stream) == FALSE
ToFlush(p, stream) == stream = "out" /\ proc[p].buff # << >>
fwrite(p, stream, text) ==
  LET r == [proc[p] EXCEPT !.calls = @ + 1] IN
  /\ Call(p)
  /\ IF stream = "out" /\ fits(p, text)
     THEN /\ ProcStep(p, [r EXCEPT !.buff = @ \o text]) /\ UNCHANGED writeq
          /\ given' = [given EXCEPT ![p][stream] = @ \o text]
     ELSE /\ given' = [given EXCEPT ![p][stream] = @ \o Accepted(text)]
          /\ IF ToFlush(p, stream)
             THEN sys_write(p, stream, proc[p].buff) /\ ProcStep(p, [r EXCEPT !.buff = << >>, !.pc = "flush", !.text = text])
             ELSE sys_write(p, stream, text) /\ ProcStep(p, [r EXCEPT !.pc = "write"])
AfterFlush(p) ==
  /\ proc[p].pc = "flushed"
  /\ IF proc[p].text = << >> THEN ProcStep(p, [proc[p] EXCEPT !.pc = "run"]) /\ UNCHANGED <<writeq, given>>
     ELSE sys_write(p, "out", proc[p].text) /\ ProcStep(p, [proc[p] EXCEPT !.pc = "write", !.text = << >>]) /\ UNCHANGED given

\* fflush, as fclose does it when the process ends
fflush(p) ==
  /\ Call(p) /\ proc[p].buff # << >>
  /\ sys_write(p, "out", proc[p].buff)
  /\ ProcStep(p, [proc[p] EXCEPT !.calls = @ + 1, !.buff = << >>, !.pc = "flush"])
  /\ UNCHANGED given

----------------------------------------------------------------------------
Init ==
  /\ load \in Workloads
  /\ wire = << >>
  /\ kb = [prev |-> "", shift |-> FALSE, ctrl |-> FALSE, ext |-> FALSE]
  /\ tty = [line |-> << >>, head |-> 0, tail |-> 0, buff |-> [i \in 0 .. RbSize - 1 |-> NULL], signal |-> 0,
            dropped |-> FALSE, col |-> 0, row |-> 0, escape |-> FALSE, stage |-> 0, args |-> <<0, 0>>, above |-> FALSE]
  /\ lock = "free" /\ read_queue_buff = 0 /\ readq = << >> /\ writeq = << >>
  /\ rt = RtIdle /\ wt = WtIdle
  /\ proc = [p \in Procs |-> [pc |-> "run", calls |-> 0, buff |-> << >>, text |-> << >>]]
  /\ sent = << >> /\ due = [keys |-> << >>, held |-> {}] /\ got = << >>
  /\ given = [p \in Procs |-> [s \in {"out", "err"} |-> << >>]] /\ printed = given
  /\ leaked = 0 /\ events = 0

ReadThread == RtTake \/ RtWait \/ RtWake \/ RtLock \/ RtByte \/ RtTail \/ RtWrap \/ RtDone
WriteThread == WtTake \/ WtPutc \/ WtCol \/ WtNewline \/ WtRow \/ WtReturn \/ WtDone
Process(p) ==
  \/ \E r \in load.reads : sys_read(p, r.size, r.nonblock)
  \/ \E w \in load.writes : fwrite(p, w.stream, w.text)
  \/ fflush(p)
Next == Scancode \/ (\E e \in load.keys : Key(e)) \/ ReadThread \/ WriteThread \/ \E p \in Procs : Process(p) \/ AfterFlush(p)

Sub == <<wire, kb, tty, lock, read_queue_buff, readq, writeq, rt, wt, proc, sent, due, got, given, printed, leaked, events>>
\* The driver threads and the processes are scheduled in turn; an interrupt is taken.
Spec == Init /\ [][Next]_vars /\ WF_Sub(ReadThread) /\ WF_Sub(WriteThread) /\ \A p \in Procs : WF_Sub(AfterFlush(p))

----------------------------------------------------------------------------
(* Properties                                                              *)


\* A key that is pressed sends its character once, with shift and control as they are held,
\* and nothing when it is released, whatever stray codes come between: print_scancode.
KeysRight == wire = << >> => sent = due.keys

\* The line a user means by these characters: the reference editor.
Edit(e, c) ==
  CASE c = "nl" -> [done |-> Append(e.done \o e.line, c), line |-> << >>]
    [] c = "bs" -> [e EXCEPT !.line = IF @ = << >> THEN @ ELSE Front(@)]
    [] OTHER -> [e EXCEPT !.line = Append(@, c)]
Edited == LET e == FoldLeft(Edit, [done |-> << >>, line |-> << >>], sent) IN e.done \o e.line
Ring == [i \in 1 .. ringbuff_length(tty) |-> tty.buff[(tty.tail + i - 1) % RbSize]]
Unread == IF rt.pc = "tail" THEN Tail(Ring) ELSE Ring

\* What readers have got, the read under way, the ring and the line are together what was
\* typed, edited, in order, unless the ring was full when a line ended: the interrupt writes
\* while the thread reads, without a lock between them, and the indices stay in the ring.
InputRight ==
  /\ tty.head \in 0 .. RbSize - 1 /\ tty.tail \in 0 .. RbSize
  /\ tty.dropped \/ got \o rt.data \o Unread \o tty.line = Edited

\* read_queue_buff is what the queued reads ask for (and what is never taken back of reads
\* larger than the ring).
QueueAccounts ==
  read_queue_buff = leaked + FoldLeft(LAMBDA n, r : n + r.size, 0, readq)

\* That counter is exact, and the assertion of tty_driver_thread_read holds: a read that may
\* not wait never has to.
NonblockNeverWaits == QueueAccounts /\ rt.pc # "assert"

\* A process's text is on the screen, under way or in its buffer: each stream in order, no
\* character twice or lost, whatever the other processes print, and no buffer overflows.
OutputInOrder ==
  \A p \in Procs, s \in {"out", "err"} :
    LET mine == SelectSeq(writeq, LAMBDA r : r.p = p /\ r.stream = s)
        begun == mine # << >> /\ Head(writeq) = Head(mine) /\ wt.pc # "idle"
        at == IF ~begun THEN 1 ELSE IF wt.pc = "putc" THEN wt.i ELSE wt.i + 1
        rest == IF mine = << >> THEN << >> ELSE SubSeq(Accepted(Head(mine).text), at, Len(Accepted(Head(mine).text)))
    IN Len(proc[p].buff) <= __FILE_BUFF_SIZE /\ given[p][s] = printed[p][s] \o rest \o (IF s = "out" THEN Accepted(proc[p].text) \o proc[p].buff ELSE << >>)

\* The cursor is on the screen (one behind the last column after an erase), though thread and
\* interrupt handler move it without a lock, unless the escape code A has taken it above.
CursorOnScreen ==
  tty.col \in 0 .. VGA_TEXT_WIDTH /\ tty.row < VGA_TEXT_HEIGHT /\ (tty.above \/ tty.row >= 0)

\* A line in the ring reaches a reader that waits.
InputTaken == (readq # << >> /\ ringbuff_length(tty) > 0) ~> (readq = << >> \/ ringbuff_length(tty) = 0)

\* A process that prints gets on.
WritersGetOn == \A p \in Procs : (proc[p].pc \in {"flush", "flushed", "write"}) ~> (proc[p].pc = "run")

\* Readers with input and writers are served by the two threads of tty.c.
Served == InputTaken /\ WritersGetOn
=============================================================================
