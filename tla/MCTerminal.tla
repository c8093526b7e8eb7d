---------------------------- MODULE MCTerminal -----------------------------
(***************************************************************************)
(* What is typed, read and printed, for TLC.                               *)
(***************************************************************************)
EXTENDS Terminal

Press(key) == [key |-> key, up |-> FALSE, stray |-> FALSE]
Release(key) == {[key |-> key, up |-> TRUE, stray |-> b] : b \in BOOLEAN}
Read(size, nonblock) == [size |-> size, nonblock |-> nonblock]
Text(stream, text) == [stream |-> stream, text |-> text]

One == {CHOOSE p \in Procs : TRUE}

\* Every key with every other held
Typing == [keys |-> UNION {{Press(k)} \cup Release(k) : k \in {"A", "LSHIFT", "CTRL", "UP"}},
           reads |-> {}, writes |-> {}, events |-> 4, procs |-> {}, calls |-> 0]
\* Lines that go round the ring, with reads that wait and reads that do not
Reading == [keys |-> {Press("A"), Press("ENTER")},
            reads |-> {Read(1, TRUE), Read(5, FALSE)}, writes |-> {}, events |-> 4, procs |-> Procs, calls |-> 2]
\* Lines that are corrected
Editing == [keys |-> {Press("A"), Press("ENTER"), Press("BACKSPACE")},
            reads |-> {Read(2, FALSE)}, writes |-> {}, events |-> 5, procs |-> Procs, calls |-> 1]
\* Two processes that print while somebody types
Printing == [keys |-> {Press("A"), Press("ENTER")}, reads |-> {},
             writes |-> {Text("out", <<"a">>), Text("out", <<"a", "A">>), Text("out", <<"a", "nl">>), Text("err", <<"A", "a", "A", "a">>)},
             events |-> 1, procs |-> Procs, calls |-> 2]
\* Escape codes, echo among them
Escapes == [keys |-> {Press("A")}, reads |-> {},
            writes |-> {Text("err", <<"esc", "[", c>>) : c \in {"A", "C", "D", "2"}}
                       \cup {Text("err", <<"esc", "a", "bs">>), Text("err", <<";", "2", "H">>), Text("err", <<"B">>)},
            events |-> 1, procs |-> One, calls |-> 3]
\* A process that reads and one that prints, through the same lock
Both == [keys |-> {Press("ENTER")}, reads |-> {Read(1, FALSE), Read(1, TRUE)}, writes |-> {Text("err", <<"a">>)},
         events |-> 2, procs |-> Procs, calls |-> 2]
MCWorkloads == {Typing, Reading, Editing, Printing, Escapes, Both}
=============================================================================
