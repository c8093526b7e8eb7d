------------------------------ MODULE Programs -----------------------------
(***************************************************************************)
(* Programs from the archive to running processes: elf_load and load_ph    *)
(* (kernel/proc/elf.c), the pages sched_init_user_thread and SYS_PGMAP     *)
(* take from first_free_page, SYS_EXEC (kernel/sys/sysd.c), the first      *)
(* program init_stage1 loads, and the heap a process keeps in its own      *)
(* memory (lib/libc/src/mem.c).  Every read goes through Storage.          *)
(*                                                                         *)
(* Memory holds, at page and offset, the byte of the card that was copied  *)
(* there, 0, or nothing that was written.  Headers are one byte each: the  *)
(* byte on the card is the record itself.                                  *)
(***************************************************************************)
EXTENDS Storage, FiniteSetsExt, TLC

CONSTANTS
  PAGE_SIZE, PAGES,          \* bytes of a page, pages of an address space (the last is the stack)
  LOAD_BUFF, HEADER_SIZE, PH_SIZE, INSTR_SIZE,
  MEMORY_CHUNK, MIN_HEAP_START, MAX_HEAP_SIZE,
  Libe,                      \* the path of the first program
  Execs,                     \* the paths that processes open
  MaxProcs, MaxCalls, Sizes, ReadLens \* bounds: processes, their calls, sizes of malloc and read

VARIABLES
  procs,                     \* the user processes, by the order of their pids
  files,                     \* the open file of each process, and of init (0)
  ld,                        \* elf_load: where it is, for whom, and its locals
  first_free_page, first_free_prog_page,
  inc,                       \* a first_free_page++ under way: the value that was loaded
  phys,                      \* the memory written so far, by <<page, offset>>
  heap,                      \* libc's heap of each process
  raced, overlapped          \* two increments, two loads, overlapped (ghosts)

programs == <<procs, files, ld, first_free_page, first_free_prog_page, inc, phys, heap, raced, overlapped>>
vars == <<storage, programs>>

Pids == 1 .. MaxProcs
ELF == 0   \* the loader, as a reader and as a taker of pages
\* Bound: what follows two overlapping increments of the page counter, or two overlapping
\* loads through the same static buffers, is not followed.
Sound == ~raced /\ ~overlapped

NoLoad == [pc |-> "idle", owner |-> 0, pid |-> 0, eh |-> NULL, i |-> 0, ph |-> NULL, next_ph |-> 0,
           brk |-> 0, jobs |-> << >>, at |-> 0]

----------------------------------------------------------------------------
(* first_free_page++: a load and a store                                   *)

FetchPage(a) ==
  /\ inc[a] = NULL
  /\ inc' = [inc EXCEPT ![a] = first_free_page]
  /\ UNCHANGED <<procs, files, ld, first_free_page, first_free_prog_page, phys, heap, raced, overlapped>>
\* The variant stores what it has loaded.
StorePage_Same(a) ==
  /\ inc[a] # NULL
  /\ first_free_page' = inc[a]
  /\ raced' = (raced \/ first_free_page # inc[a])
  /\ inc' = [inc EXCEPT ![a] = NULL]
StorePage(a) ==
  /\ inc[a] # NULL
  /\ first_free_page' = inc[a] + 1
  /\ raced' = (raced \/ first_free_page # inc[a])
  /\ inc' = [inc EXCEPT ![a] = NULL]

----------------------------------------------------------------------------
(* load_ph: the calls of load_to_page and zero_page for one header         *)

Smaller(a, b) == IF a < b THEN a ELSE b
InPage(v) == v % PAGE_SIZE

\* What remains to be zeroed, page by page.
ZeroCalls(vaddr, end) ==
  LET from[v \in vaddr .. end + PAGE_SIZE] ==
        IF v >= end THEN << >>
        ELSE LET size == Smaller(PAGE_SIZE - InPage(v), end - v)
             IN <<[kind |-> "zero", vaddr |-> v, off |-> InPage(v), end |-> InPage(v) + size - 1]>>
                \o from[v + size]
  IN from[vaddr]

\* First page, full pages, last page; then the memory that is not in the file.
PagesOf(size) == (size + PAGE_SIZE - 1) \div PAGE_SIZE
\* Where the first page ends.
FirstEnd(filesz) == Smaller(PAGE_SIZE - 1, filesz - 1)
LoadCalls(ph) ==
  LET end == ph.vaddr + ph.filesz - 1
      pages == PagesOf(ph.filesz)
      kind == IF ph.x THEN "prog" ELSE "mem"
      call(v, o, e) == [kind |-> kind, vaddr |-> v, off |-> o, end |-> e]
      v1 == ph.vaddr + Smaller(PAGE_SIZE - InPage(ph.vaddr), end + 1)
      full == IF pages > 2 THEN pages - 2 ELSE 0
      v2 == v1 + full * PAGE_SIZE
      copied == <<call(ph.vaddr, InPage(ph.vaddr), FirstEnd(ph.filesz))>>
                \o [j \in 1 .. full |-> call(v1 + (j - 1) * PAGE_SIZE, 0, PAGE_SIZE - 1)]
                \o (IF pages > 1 THEN <<call(v2, 0, InPage(end))>> ELSE << >>)
      vaddr == IF ph.filesz = 0 THEN ph.vaddr ELSE IF pages > 1 THEN v2 + InPage(end) + 1 ELSE v2
  IN (IF ph.filesz = 0 THEN << >> ELSE copied)
     \o (IF ~ph.x /\ ph.filesz < ph.memsz THEN ZeroCalls(vaddr, ph.vaddr + ph.memsz) ELSE << >>)

----------------------------------------------------------------------------
(* elf_load: its reads, and what it does with each                         *)

File == files[ld.owner]
Job == Head(ld.jobs)
At(b) == disk[b[1]].bytes[b[2]]

LdRead ==
  LET len == CASE ld.pc = "header" -> HEADER_SIZE [] ld.pc = "ph" -> PH_SIZE
               [] OTHER -> Smaller(LOAD_BUFF, Job.end - ld.at + 1) IN
  /\ Sound /\ ld.pc \in {"header", "ph", "copy"}
  /\ StartRead(ELF, File.inode, File.offset, len)
  /\ UNCHANGED programs

Seek(offset) == files' = [files EXCEPT ![ld.owner].offset = offset]

\* An assertion of the loader, or of init on its result, fails.
AssertFails == boot' = "assert" /\ UNCHANGED programs

\* sched_init_user_thread: no page is mapped as yet
NewProc == [state |-> "unloaded", name |-> File.inode, parent |-> 0, kernel_stack |-> NULL, load_brk |-> 0,
            mem |-> [v \in 0 .. PAGES - 1 |-> NULL], prog |-> [v \in 0 .. PAGES - 1 |-> NULL]]

\* The header is read: a short or foreign one ends the load with NULL, which SYS_EXEC turns
\* into an error and init into a failed assertion.
LdHeader ==
  LET eh == At(io.data[1]) IN
  /\ Sound /\ ld.pc = "header" /\ EndRead(ELF)
  /\ IF rd.len = HEADER_SIZE /\ eh.elf
     THEN /\ procs' = Append(procs, NewProc)
          /\ ld' = [ld EXCEPT !.pc = "stack", !.pid = Len(procs) + 1, !.eh = eh]
          /\ Seek(eh.phoff)
          /\ UNCHANGED <<boot, first_free_page, first_free_prog_page, inc, phys, heap, raced, overlapped>>
     ELSE IF ld.owner = 0 THEN AssertFails
     ELSE /\ ld' = NoLoad /\ Seek(File.offset + rd.len)
          /\ procs' = [procs EXCEPT ![ld.owner].state = "run"]
          /\ UNCHANGED <<boot, first_free_page, first_free_prog_page, inc, phys, heap, raced, overlapped>>

\* The next program header, or the end: load_brk is set, the new process becomes runnable,
\* the caller of SYS_EXEC goes on and init closes its file.
NextPh(i, brk) ==
  IF i < ld.eh.phnum
  THEN ld' = [ld EXCEPT !.pc = "ph", !.i = i, !.brk = brk, !.jobs = << >>] /\ UNCHANGED procs
  ELSE /\ ld' = NoLoad
       /\ procs' = [p \in DOMAIN procs |->
            CASE p = ld.pid -> [procs[p] EXCEPT !.state = "start", !.parent = ld.owner, !.load_brk = brk]
              [] p = ld.owner -> [procs[p] EXCEPT !.state = "run"]
              [] OTHER -> procs[p]]

LdStack ==
  /\ Sound /\ ld.pc \in {"stack", "kstack"} /\ UNCHANGED storage
  /\ \/ FetchPage(ELF)
     \/ /\ StorePage(ELF)
        /\ UNCHANGED <<files, first_free_prog_page, phys, heap, overlapped>>
        /\ IF ld.pc = "stack"
           THEN /\ procs' = [procs EXCEPT ![ld.pid].mem[PAGES - 1] = inc[ELF]]
                /\ ld' = [ld EXCEPT !.pc = "kstack"]
           ELSE /\ procs' = [procs EXCEPT ![ld.pid].kernel_stack = inc[ELF]]
                /\ ld' = [ld EXCEPT !.pc = "ph"]

\* A program header is read (what a short read leaves is the one before).
LdPh ==
  LET ph == IF rd.len = 0 THEN ld.ph ELSE At(io.data[1])
      next_ph == File.offset + rd.len
      brk == IF ~ph.x /\ ph.memsz > 0 THEN Max({ld.brk, ph.vaddr + ph.memsz}) ELSE ld.brk IN
  /\ Sound /\ ld.pc = "ph" /\ EndRead(ELF)
  /\ IF ph.load /\ LoadCalls(ph) # << >>
     THEN /\ ld' = [ld EXCEPT !.pc = "page", !.ph = ph, !.next_ph = next_ph, !.brk = brk, !.jobs = LoadCalls(ph)]
          /\ Seek(ph.offset)
          /\ UNCHANGED procs
     ELSE /\ Seek(next_ph)
          /\ NextPh(ld.i + 1, IF ph.load THEN brk ELSE ld.brk)
  /\ UNCHANGED <<boot, first_free_page, first_free_prog_page, inc, phys, heap, raced, overlapped>>

----------------------------------------------------------------------------
(* phys_page_to_load, load_to_page, zero_page                              *)

VirtPage(vaddr) == vaddr \div PAGE_SIZE
\* An instruction page is two pages of data.
PhysPage(p, kind, vaddr) ==
  IF kind = "prog" THEN LET page == procs[p].prog[VirtPage(vaddr) \div 2]
                        IN IF page = NULL THEN NULL ELSE <<"prog", 2 * page + (VirtPage(vaddr) % 2)>>
  ELSE LET page == procs[p].mem[VirtPage(vaddr)] IN IF page = NULL THEN NULL ELSE <<"mem", page>>

ToJob == ld' = [ld EXCEPT !.pc = IF Job.kind = "zero" THEN "zero" ELSE "copy", !.at = Job.off]
LdPage ==
  LET v == VirtPage(Job.vaddr) IN
  /\ Sound /\ ld.pc = "page" /\ UNCHANGED storage
  /\ \/ /\ PhysPage(ld.pid, Job.kind, Job.vaddr) # NULL /\ ToJob
        /\ UNCHANGED <<procs, files, first_free_page, first_free_prog_page, inc, phys, heap, raced, overlapped>>
     \/ /\ PhysPage(ld.pid, Job.kind, Job.vaddr) = NULL /\ Job.kind = "prog" /\ ToJob
        /\ procs' = [procs EXCEPT ![ld.pid].prog[v \div 2] = first_free_prog_page]
        /\ first_free_prog_page' = first_free_prog_page + 1
        /\ UNCHANGED <<files, first_free_page, inc, phys, heap, raced, overlapped>>
     \/ /\ PhysPage(ld.pid, Job.kind, Job.vaddr) = NULL /\ Job.kind # "prog"
        /\ \/ FetchPage(ELF)
           \/ /\ StorePage(ELF) /\ ToJob
              /\ procs' = [procs EXCEPT ![ld.pid].mem[v] = inc[ELF]]
              /\ UNCHANGED <<files, first_free_prog_page, phys, heap, overlapped>>

Write(page, off, bytes) ==
  phys' = [a \in {<<page, off + i - 1>> : i \in 1 .. Len(bytes)} |-> bytes[a[2] - off + 1]] @@ phys

\* After a job the next one; after the last the file is set back to the next header.  The
\* variant zeroes the same bytes for ever.
NextJob_Stay(offset) ==
  IF Len(ld.jobs) > 1 \/ Job.kind = "zero"
  THEN /\ ld' = [ld EXCEPT !.pc = "page", !.jobs = IF Job.kind = "zero" THEN @ ELSE Tail(@)]
       /\ Seek(offset) /\ UNCHANGED procs
  ELSE Seek(ld.next_ph) /\ NextPh(ld.i + 1, ld.brk)
NextJob(offset) ==
  IF Len(ld.jobs) > 1
  THEN /\ ld' = [ld EXCEPT !.pc = "page", !.jobs = Tail(@)] /\ Seek(offset) /\ UNCHANGED procs
  ELSE Seek(ld.next_ph) /\ NextPh(ld.i + 1, ld.brk)

\* The bytes read go to the page.  The variant copies to its beginning.
CopyTo_Begin == 0
CopyTo == ld.at
LdCopy ==
  /\ Sound /\ ld.pc = "copy" /\ EndRead(ELF)
  /\ IF \/ rd.len = 0 \/ Job.end >= PAGE_SIZE \/ ld.at + rd.len > PAGE_SIZE
        \/ Job.kind = "prog" /\ rd.len % INSTR_SIZE # 0
     THEN AssertFails
     ELSE /\ Write(PhysPage(ld.pid, Job.kind, Job.vaddr), CopyTo, io.data)
          /\ IF ld.at + rd.len <= Job.end
             THEN ld' = [ld EXCEPT !.at = @ + rd.len] /\ Seek(File.offset + rd.len) /\ UNCHANGED procs
             ELSE NextJob(File.offset + rd.len)
          /\ UNCHANGED <<boot, first_free_page, first_free_prog_page, inc, heap, raced, overlapped>>
LdZero ==
  /\ Sound /\ ld.pc = "zero" /\ UNCHANGED storage
  /\ Write(PhysPage(ld.pid, "mem", Job.vaddr), Job.off, [i \in 1 .. Job.end - Job.off + 1 |-> 0])
  /\ NextJob(File.offset)
  /\ UNCHANGED <<first_free_page, first_free_prog_page, inc, heap, raced, overlapped>>

----------------------------------------------------------------------------
(* init_stage1, SYS_OPEN, SYS_EXEC, SYS_READ                               *)

Opened(path) == [inode |-> vfs_find_inode(path), offset |-> 0]

\* init loads the first program once the archive is mounted.
init_stage1 ==
  /\ Sound /\ boot = "up" /\ procs = << >> /\ ld.pc = "idle"
  /\ IF vfs_find_inode(Libe) = NULL
     THEN boot' = "assert" /\ UNCHANGED <<disk, sd, io, in_list, mount_list, scan, tree, rd, programs>>
     ELSE /\ files' = [files EXCEPT ![0] = Opened(Libe)]
          /\ ld' = [NoLoad EXCEPT !.pc = "header"]
          /\ UNCHANGED <<storage, procs, first_free_page, first_free_prog_page, inc, phys, heap, raced, overlapped>>

\* Bound: the processes make at most MaxCalls calls.
Running(p) == Sound /\ boot = "up" /\ p \in DOMAIN procs /\ procs[p].state = "run"
Call(p) == Running(p) /\ FoldSet(LAMBDA q, n : heap[q].calls + n, 0, Pids) < MaxCalls
Count(p) == heap' = [heap EXCEPT ![p].calls = @ + 1]

sys_open(p, path) ==
  /\ Call(p) /\ files[p].inode = NULL /\ Opened(path).inode # NULL
  /\ files' = [files EXCEPT ![p] = Opened(path)]
  /\ Count(p)
  /\ UNCHANGED <<storage, procs, ld, first_free_page, first_free_prog_page, inc, phys, raced, overlapped>>

\* The caller waits while its child is loaded.  Bound: at most MaxProcs processes.
SYS_EXEC(p) ==
  /\ Call(p) /\ files[p].inode # NULL /\ files[p].inode.dev = "tar" /\ Len(procs) < MaxProcs /\ Count(p)
  /\ procs' = [procs EXCEPT ![p].state = "exec"]
  /\ IF ld.pc = "idle" THEN ld' = [NoLoad EXCEPT !.pc = "header", !.owner = p] /\ UNCHANGED overlapped
                       ELSE overlapped' = TRUE /\ UNCHANGED ld
  /\ UNCHANGED <<storage, files, first_free_page, first_free_prog_page, inc, phys, raced>>

sys_read(p, len) ==
  /\ Call(p) /\ files[p].inode # NULL /\ files[p].inode.dev = "tar" /\ Count(p)
  /\ StartRead(p, files[p].inode, files[p].offset, len)
  /\ procs' = [procs EXCEPT ![p].state = "read"]
  /\ UNCHANGED <<files, ld, first_free_page, first_free_prog_page, inc, phys, raced, overlapped>>
EndOfRead(p) ==
  /\ Sound /\ EndRead(p)
  /\ files' = [files EXCEPT ![p].offset = @ + rd.len]
  /\ procs' = [procs EXCEPT ![p].state = "run"]
  /\ UNCHANGED <<boot, ld, first_free_page, first_free_prog_page, inc, phys, heap, raced, overlapped>>

----------------------------------------------------------------------------
(* malloc and free of lib/libc, SYS_PROCINFO, SYS_PGMAP                    *)

Chunks == (MAX_HEAP_SIZE - MIN_HEAP_START) \div MEMORY_CHUNK
InChunks(size) == (size + MEMORY_CHUNK - 1) \div MEMORY_CHUNK
NoHeap == [calls |-> 0, allocations |-> [i \in 0 .. Chunks - 1 |-> 0], mem_pages |-> {}, todo |-> {},
           block |-> NULL, blocks |-> {}]

SetHeap(p, h) == heap' = [heap EXCEPT ![p] = h]
UnchangedButHeap == UNCHANGED <<storage, files, ld, first_free_page, first_free_prog_page, inc, phys, raced, overlapped>>

SYS_PROCINFO(p) == [load_brk |-> procs[p].load_brk,
                    mem_pages_mapped |-> {v \in DOMAIN procs[p].mem : procs[p].mem[v] # NULL}]

\* The first thing a process does, with what SYS_PROCINFO tells it.
Reserved(brk) == InChunks(brk - MIN_HEAP_START)
__malloc_init(p) ==
  /\ Sound /\ boot = "up" /\ p \in DOMAIN procs /\ procs[p].state = "start"
  /\ procs' = [procs EXCEPT ![p].state = "run"]
  /\ SetHeap(p, [NoHeap EXCEPT !.allocations[0] = Reserved(SYS_PROCINFO(p).load_brk),
                               !.mem_pages = SYS_PROCINFO(p).mem_pages_mapped])
  /\ UnchangedButHeap

\* The last chunk of the first run of n free ones: found by skipping allocations.
FindFree(allocations, n) ==
  LET search[i \in 0 .. 2 * Chunks, free \in 0 .. Chunks] ==
        IF i >= Chunks THEN NULL
        ELSE IF allocations[i] > 0 THEN search[i + allocations[i], 0]
        ELSE IF free + 1 = n THEN i - n + 1 ELSE search[i + 1, free + 1]
  IN search[0, 0]

\* The pages malloc asks for begin at the page of the block's first byte.
malloc(p, size) ==
  LET h == heap[p]
      first == FindFree(h.allocations, InChunks(size))
      base == MIN_HEAP_START + first * MEMORY_CHUNK
      page_base == VirtPage(base)
  IN /\ Call(p)
     /\ IF size = 0 \/ first = NULL THEN Count(p) /\ UNCHANGED procs
        ELSE /\ SetHeap(p, [h EXCEPT !.calls = @ + 1, !.allocations[first] = InChunks(size),
                  !.block = [base |-> base, size |-> size],
                  !.todo = (page_base .. page_base + PagesOf(size) - 1) \ h.mem_pages])
             /\ procs' = [procs EXCEPT ![p].state = "malloc"]
     /\ UnchangedButHeap

\* A process may also call sys_pgmap itself, which malloc does not know of.
sys_pgmap(p, v) ==
  /\ Call(p) /\ SetHeap(p, [heap[p] EXCEPT !.calls = @ + 1, !.todo = {v}])
  /\ procs' = [procs EXCEPT ![p].state = "pgmap"]
  /\ UnchangedButHeap

\* SYS_PGMAP for the next page, in order: no such page, already mapped, or a new one.
Mapped(p, v) == [heap[p] EXCEPT !.todo = @ \ {v},
                                !.mem_pages = IF procs[p].state = "malloc" THEN @ \cup {v} ELSE @]
Unmapped(p, v) == v < PAGES /\ procs[p].mem[v] = NULL
SYS_PGMAP(p) ==
  LET v == Min(heap[p].todo) IN
  /\ Sound /\ boot = "up" /\ p \in DOMAIN procs /\ procs[p].state \in {"malloc", "pgmap"} /\ heap[p].todo # {}
  /\ UNCHANGED storage
  /\ \/ /\ ~Unmapped(p, v)
        /\ SetHeap(p, Mapped(p, v))
        /\ UNCHANGED <<procs, files, ld, first_free_page, first_free_prog_page, inc, phys, raced, overlapped>>
     \/ /\ Unmapped(p, v)
        /\ \/ FetchPage(p)
           \/ /\ StorePage(p) /\ SetHeap(p, Mapped(p, v))
              /\ procs' = [procs EXCEPT ![p].mem[v] = inc[p]]
              /\ UNCHANGED <<files, ld, first_free_prog_page, phys, overlapped>>
\* malloc returns its block.
Return(p) ==
  /\ Sound /\ boot = "up" /\ p \in DOMAIN procs /\ procs[p].state \in {"malloc", "pgmap"} /\ heap[p].todo = {}
  /\ SetHeap(p, [heap[p] EXCEPT !.block = NULL, !.blocks = @ \cup ({heap[p].block} \ {NULL})])
  /\ procs' = [procs EXCEPT ![p].state = "run"]
  /\ UnchangedButHeap

\* The variant clears the chunk before.
FreedChunk_Before(base) == base \div MEMORY_CHUNK - MIN_HEAP_START \div MEMORY_CHUNK - 1
FreedChunk(base) == base \div MEMORY_CHUNK - MIN_HEAP_START \div MEMORY_CHUNK
free(p, b) ==
  /\ Call(p) /\ b \in heap[p].blocks
  /\ SetHeap(p, [heap[p] EXCEPT !.calls = @ + 1, !.blocks = @ \ {b}, !.allocations[FreedChunk(b.base)] = 0])
  /\ UNCHANGED procs /\ UnchangedButHeap

----------------------------------------------------------------------------
Init ==
  /\ StorageInit
  /\ procs = << >> /\ ld = NoLoad
  /\ files = [p \in {0} \cup Pids |-> [inode |-> NULL, offset |-> 0]]
  /\ first_free_page = 0 /\ first_free_prog_page = 0
  /\ inc = [a \in {ELF} \cup Pids |-> NULL]
  /\ phys = << >>
  /\ heap = [p \in Pids |-> NoHeap]
  /\ raced = FALSE /\ overlapped = FALSE

Loader == LdRead \/ LdHeader \/ LdStack \/ LdPh \/ LdPage \/ LdCopy \/ LdZero
System == (Sound /\ StorageNext /\ UNCHANGED programs) \/ init_stage1 \/ Loader \/ \E p \in Pids : EndOfRead(p)
Process(p) ==
  \/ __malloc_init(p) \/ SYS_PGMAP(p) \/ Return(p) \/ SYS_EXEC(p)
  \/ \E path \in Execs : sys_open(p, path)
  \/ \E len \in ReadLens : sys_read(p, len)
  \/ \E size \in Sizes : malloc(p, size)
  \/ \E v \in {PAGES - 2, PAGES} : sys_pgmap(p, v)
  \/ \E b \in heap[p].blocks : free(p, b)
Next == System \/ \E p \in Pids : Process(p)

\* Kernel threads are scheduled in turn, and the card sends the token of a block some day.
Spec ==
  /\ Init /\ [][Next]_vars
  /\ WF_vars(System)
  /\ WF_vars(Sound /\ SdToken("token") /\ UNCHANGED programs)

----------------------------------------------------------------------------
(* Properties                                                              *)


FileByte(inode, pos) == <<inode.fid + 1 + pos \div SECTOR_SIZE, pos % SECTOR_SIZE>>
Headers(inode) ==
  LET eh == At(FileByte(inode, 0))
  IN {ph \in {At(FileByte(inode, eh.phoff + i * PH_SIZE)) : i \in 0 .. eh.phnum - 1} : ph.load}
ByteAt(p, ph, k) ==
  LET a == <<PhysPage(p, IF ph.x THEN "prog" ELSE "mem", ph.vaddr + k), InPage(ph.vaddr + k)>>
  IN IF a \in DOMAIN phys THEN phys[a] ELSE NULL
Loaded == {p \in DOMAIN procs : procs[p].state # "unloaded"}

\* No assertion of elf_load, load_to_page or load_into_userspace_program fails for a program
\* that is whole (init's own fails only if the archive has no first program).
AssertsHold == boot = "assert" => vfs_find_inode(Libe) = NULL

\* A process that starts finds every byte of its program's segments at its virtual address,
\* in pages of its own, and its uninitialised data zeroed, however pages, sectors and load_buff
\* divide the file and whatever else reads the card meanwhile; load_brk is behind all of it.
\* (Not zeroed is what lies in the first page behind less than a page of initialised data:
\* load_ph goes on at the next page there, unless the segment begins at 0.)  No assertion
\* of the loader fails on the way.
ImageRight ==
  AssertsHold /\ (raced \/ \A p \in Loaded : \A ph \in Headers(procs[p].name) :
    /\ \A k \in 0 .. ph.filesz - 1 : ByteAt(p, ph, k) = FileByte(procs[p].name, ph.offset + k)
    /\ ~ph.x => \A k \in ph.filesz .. ph.memsz - 1 :
         \/ ByteAt(p, ph, k) = 0
         \/ ph.vaddr > 0 /\ ph.filesz \in 1 .. PAGE_SIZE - 1 /\ VirtPage(ph.vaddr + k) = VirtPage(ph.vaddr)
    /\ ~ph.x => procs[p].load_brk >= ph.vaddr + ph.memsz)

MemSlots == {<<p, v>> \in (DOMAIN procs) \X (0 .. PAGES - 1) : procs[p].mem[v] # NULL}
Pages == [s \in MemSlots |-> procs[s[1]].mem[s[2]]]
Stacks == {p \in DOMAIN procs : procs[p].kernel_stack # NULL}

\* No page of memory serves two processes, or a process and a kernel stack: they all come
\* from first_free_page, before it, whoever takes them.
PagesIsolated ==
  /\ \A s, t \in MemSlots : Pages[s] = Pages[t] => s = t
  /\ \A p, q \in Stacks : procs[p].kernel_stack = procs[q].kernel_stack => p = q
  /\ \A s \in MemSlots, p \in Stacks : Pages[s] # procs[p].kernel_stack
  /\ \A p, q \in DOMAIN procs : \A v, w \in 0 .. PAGES - 1 :
       procs[p].prog[v] # NULL /\ procs[p].prog[v] = procs[q].prog[w] => p = q /\ v = w

\* That holds while no two increments of first_free_page overlap (SYS_PGMAP's TODO), and
\* then the counter is ahead of every page in use.
PagesDisjoint == raced \/ (PagesIsolated /\ \A s \in MemSlots : Pages[s] < first_free_page)

BlockChunks(b) == LET c == FreedChunk(b.base) IN c .. c + InChunks(b.size) - 1

\* The blocks malloc has returned lie between load_brk and the stack and do not overlap; those
\* inside the pages it asked for are mapped, so that a process that frees and allocates in
\* any order never faults in its first PagesOf(size) pages; what it has freed can be had again.
HeapRight ==
  \A p \in DOMAIN procs :
    /\ procs[p].state = "run" =>
         {i \in 1 .. Chunks - 1 : heap[p].allocations[i] > 0} = {FreedChunk(b.base) : b \in heap[p].blocks}
    /\ \A b \in heap[p].blocks :
         /\ b.base >= procs[p].load_brk /\ b.base + b.size <= MAX_HEAP_SIZE
         /\ \A c \in heap[p].blocks \ {b} : BlockChunks(b) \cap BlockChunks(c) = {}
         /\ \A a \in b.base .. b.base + b.size - 1 :
              VirtPage(a) < VirtPage(b.base) + PagesOf(b.size) => procs[p].mem[VirtPage(a)] # NULL

\* A load ends: the caller of SYS_EXEC gets its child or an error, init its first process,
\* while other processes read the same card.
LoadEnds == ld.pc # "idle" ~> (ld.pc = "idle" \/ boot \in {"panic", "assert"} \/ ~Sound)

\* Booting and loading end: sd_init and tar_make_dir_tree with a card that is slow or dead,
\* elf_load with other readers of the card.
Progress == Boots /\ LoadEnds
=============================================================================
