---------------------------- MODULE MCPrograms -----------------------------
(***************************************************************************)
(* Cards with small archives, for TLC: sectors and pages of four bytes.    *)
(***************************************************************************)
EXTENDS Programs

Digits(n) == <<0, 0, 0, 0, 0, 0, 0, 0, 0, n \div 8, n % 8>>
Header(name, size, type) == [kind |-> "header", name |-> name, size |-> Digits(size), type |-> type]
Zero == [kind |-> "zero"]
Data(b0, b1, b2, b3) == [kind |-> "data", bytes |-> (0 :> b0 @@ 1 :> b1 @@ 2 :> b2 @@ 3 :> b3)]
Plain == [elf |-> FALSE]
Text == Data(Plain, Plain, Plain, Plain)
Eh(phoff, phnum) == [elf |-> TRUE, phoff |-> phoff, phnum |-> phnum]
Ph(load, x, offset, vaddr, filesz, memsz) ==
  [elf |-> FALSE, load |-> load, x |-> x, offset |-> offset, vaddr |-> vaddr, filesz |-> filesz, memsz |-> memsz]

\* Code over two pages and data that fills a page and more: 4 + 6 + 5 bytes.
Big == <<Data(Eh(2, 2), Plain, Ph(TRUE, TRUE, 4, 0, 6, 6), Ph(TRUE, FALSE, 10, 4, 5, 7)), Text, Text, Text>>
\* Code of one instruction, a header that is not loaded, and data of less than a page.
Small == <<Data(Eh(1, 3), Ph(TRUE, TRUE, 4, 0, 2, 2), Ph(FALSE, FALSE, 0, 0, 0, 0), Ph(TRUE, FALSE, 6, 4, 1, 6)), Text>>

OnCard(sectors) == [s \in 0 .. Len(sectors) - 1 |-> sectors[s + 1]]
\* bin/ and its programs, a name that begins like another, an empty file
DiskA == OnCard(<<Header(<<"bin", "">>, 0, "dir"), Header(<<"bin", "libe">>, 15, "file")>> \o Big
             \o <<Header(<<"bin", "li">>, 7, "file")>> \o Small
             \o <<Header(<<"n">>, 0, "file"), Zero, Zero>>)
\* no header for bin/; the first program is small
DiskB == OnCard(<<Header(<<"n">>, 13, "file"), Text, Text, Text, Text, Header(<<"bin", "libe">>, 7, "file")>> \o Small
             \o <<Zero, Zero>>)
\* no first program
DiskC == OnCard(<<Header(<<"n">>, 1, "file"), Text, Zero, Zero>>)
\* not an archive
DiskD == OnCard(<<Text, Zero, Zero>>)
MCDisks == {DiskA, DiskB, DiskC, DiskD}

Entry(path, type, mount) == [path |-> path, type |-> type, mount |-> mount]
MCBootEntries ==
  <<Entry(<<"">>, "dir", NULL), Entry(<<"dev", "">>, "dir", NULL), Entry(<<"tmp", "">>, "dir", "tmp"),
    Entry(<<"dev", "tty">>, "file", "tty"), Entry(<<"dev", "ttyS0">>, "file", "serial"),
    Entry(<<"sd", "">>, "dir", "tar")>>
MCNamePrefixes == {<<"tty", "ttyS0">>, <<"li", "libe">>}
MCPaths ==
  {<<"">>, <<"dev", "">>, <<"dev", "tty">>, <<"dev", "ttyS0">>, <<"dev", "x">>, <<"sd">>, <<"sd", "">>, <<"tmp", "n">>,
   <<"sd", "n">>, <<"sd", "bin">>, <<"sd", "bin", "">>, <<"sd", "bin", "li">>, <<"sd", "bin", "libe">>, <<"sd", "dev", "tty">>}
MCLibe == <<"sd", "bin", "libe">>
MCExecs == {<<"sd", "bin", "libe">>, <<"sd", "bin", "li">>, <<"sd", "n">>}
=============================================================================
