------------------------------ MODULE Kmalloc ------------------------------
(***************************************************************************)
(* The kernel heap of kernel/libk/kmalloc.c: memory[i] is the length in    *)
(* chunks of the block that begins at chunk i, or 0.  kmalloc searches the *)
(* first run of free chunks without a lock, and a thread may be preempted  *)
(* between any two accesses to memory.  (A kmalloc made in the interrupt   *)
(* handler, by signal_send, is a thread that is not itself interrupted.)   *)
(***************************************************************************)
EXTENDS Integers, FiniteSets

CONSTANTS
  Threads,
  HeapArrSize,   \* heap_arr_size, the number of chunks
  ChunkSize,     \* CHUNK_SIZE
  Sizes          \* the sizes in bytes callers ask for

ASSUME HeapAssumption ==
  HeapArrSize \in Nat \ {0} /\ ChunkSize \in Nat \ {0} /\ Sizes \subseteq Nat

Chunk == 0 .. HeapArrSize - 1

VARIABLES
  memory,
  pc,                           \* "idle", or where a thread is in kmalloc
  size_in_chunks, free_chunks, current_chunk,   \* its local variables
  asked,                        \* the argument size of the call
  live,                         \* history: the blocks given out and not freed
  overlapped,                   \* history: two calls of kmalloc were under way at once
  fits,                         \* history: at the call there was a run long enough
  panicked                      \* "kmalloc: out of memory"

locals == <<size_in_chunks, free_chunks, current_chunk, asked, fits>>
vars == <<memory, pc, locals, live, overlapped, panicked>>

Block == [start : Chunk, chunks : Nat, bytes : Nat]

TypeOK ==
  /\ memory \in [Chunk -> Nat]
  /\ pc \in [Threads -> {"idle", "scan", "skip", "mark"}]
  /\ size_in_chunks \in [Threads -> Nat] /\ free_chunks \in [Threads -> Nat]
  /\ current_chunk \in [Threads -> Nat] /\ asked \in [Threads -> Nat]
  /\ live \subseteq Block
  /\ overlapped \in BOOLEAN /\ panicked \in BOOLEAN
  /\ fits \in [Threads -> BOOLEAN]

\* init_malloc
Init ==
  /\ memory = [i \in Chunk |-> 0]
  /\ pc = [t \in Threads |-> "idle"]
  /\ size_in_chunks = [t \in Threads |-> 0] /\ free_chunks = [t \in Threads |-> 0]
  /\ current_chunk = [t \in Threads |-> 0] /\ asked = [t \in Threads |-> 0]
  /\ live = {}
  /\ overlapped = FALSE /\ panicked = FALSE
  /\ fits = [t \in Threads |-> FALSE]

Taken == UNION {b.start .. b.start + b.chunks - 1 : b \in live}
Fits(n) == \E i \in Chunk : i + n <= HeapArrSize /\ (i .. i + n - 1) \cap Taken = {}

InChunks(size) == (size + ChunkSize) \div ChunkSize

Searching == {t \in Threads : pc[t] # "idle"}
At(t, l) == ~panicked /\ pc[t] = l
Goto(t, l) == pc' = [pc EXCEPT ![t] = l]

\* Bound: once two calls have overlapped nothing is claimed, and no further call begins.
kmalloc(t, size) ==
  /\ At(t, "idle") /\ ~overlapped
  /\ asked' = [asked EXCEPT ![t] = size]
  /\ size_in_chunks' = [size_in_chunks EXCEPT ![t] = InChunks(size)]
  /\ free_chunks' = [free_chunks EXCEPT ![t] = 0]
  /\ current_chunk' = [current_chunk EXCEPT ![t] = 0]
  /\ overlapped' = (overlapped \/ Searching # {})
  /\ fits' = [fits EXCEPT ![t] = Fits(InChunks(size))]
  /\ Goto(t, "scan")
  /\ UNCHANGED <<memory, live, panicked>>

\* memory[current_chunk] == NULL: the run is long enough, or goes on.
CountFree(t) ==
  /\ At(t, "scan") /\ current_chunk[t] < HeapArrSize /\ memory[current_chunk[t]] = 0
  /\ free_chunks' = [free_chunks EXCEPT ![t] = @ + 1]
  /\ IF free_chunks[t] + 1 = size_in_chunks[t]
     THEN Goto(t, "mark") /\ UNCHANGED current_chunk
     ELSE current_chunk' = [current_chunk EXCEPT ![t] = @ + 1] /\ UNCHANGED pc
  /\ UNCHANGED <<memory, size_in_chunks, asked, live, overlapped, fits, panicked>>

\* A block: the run ends.  The variant keeps counting.
EndRun_Keep(t) ==
  /\ At(t, "scan") /\ current_chunk[t] < HeapArrSize /\ memory[current_chunk[t]] # 0
  /\ Goto(t, "skip")
  /\ UNCHANGED <<memory, locals, live, overlapped, panicked>>
EndRun(t) ==
  /\ At(t, "scan") /\ current_chunk[t] < HeapArrSize /\ memory[current_chunk[t]] # 0
  /\ free_chunks' = [free_chunks EXCEPT ![t] = 0]
  /\ Goto(t, "skip")
  /\ UNCHANGED <<memory, size_in_chunks, current_chunk, asked, live, overlapped, fits, panicked>>

\* current_chunk += memory[current_chunk], read again: the block may be gone.  The variants
\* go past the next chunk, and wait for a block that is gone.
Skip_OneMore(t) ==
  /\ At(t, "skip")
  /\ current_chunk' = [current_chunk EXCEPT ![t] = @ + memory[@] + 1]
  /\ Goto(t, "scan")
  /\ UNCHANGED <<memory, size_in_chunks, free_chunks, asked, live, overlapped, fits, panicked>>
Skip_Wait(t) ==
  /\ At(t, "skip") /\ memory[current_chunk[t]] # 0
  /\ current_chunk' = [current_chunk EXCEPT ![t] = @ + memory[@]]
  /\ Goto(t, "scan")
  /\ UNCHANGED <<memory, size_in_chunks, free_chunks, asked, live, overlapped, fits, panicked>>
Skip(t) ==
  /\ At(t, "skip")
  /\ current_chunk' = [current_chunk EXCEPT ![t] = @ + memory[@]]
  /\ Goto(t, "scan")
  /\ UNCHANGED <<memory, size_in_chunks, free_chunks, asked, live, overlapped, fits, panicked>>

Mark(t) ==
  LET start == current_chunk[t] - size_in_chunks[t] + 1 IN
  /\ At(t, "mark")
  /\ memory' = [memory EXCEPT ![start] = size_in_chunks[t]]
  /\ live' = live \cup {[start |-> start, chunks |-> size_in_chunks[t], bytes |-> asked[t]]}
  /\ Goto(t, "idle")
  /\ size_in_chunks' = [size_in_chunks EXCEPT ![t] = 0]   \* the locals are gone
  /\ free_chunks' = [free_chunks EXCEPT ![t] = 0]
  /\ current_chunk' = [current_chunk EXCEPT ![t] = 0]
  /\ asked' = [asked EXCEPT ![t] = 0] /\ fits' = [fits EXCEPT ![t] = FALSE]
  /\ UNCHANGED <<overlapped, panicked>>

OutOfMemory(t) ==
  /\ At(t, "scan") /\ current_chunk[t] >= HeapArrSize
  /\ panicked' = TRUE
  /\ UNCHANGED <<memory, pc, locals, live, overlapped>>

\* Any thread frees a block: requests are freed by others than those that allocated them.
kfree(t, b) ==
  /\ At(t, "idle")
  /\ memory' = [memory EXCEPT ![b.start] = 0]
  /\ live' = live \ {b}
  /\ UNCHANGED <<pc, locals, overlapped, panicked>>

Search(t) == CountFree(t) \/ EndRun(t) \/ Skip(t) \/ Mark(t) \/ OutOfMemory(t)

Next == \E t \in Threads :
  \/ Search(t)
  \/ \E size \in Sizes : kmalloc(t, size)
  \/ \E b \in live : kfree(t, b)

Spec == Init /\ [][Next]_vars

\* A thread inside kmalloc is given the CPU again and again.
FairSpec == Spec /\ \A t \in Threads : WF_vars(Search(t))

----------------------------------------------------------------------------
(* Properties                                                              *)

\* Unless two calls of kmalloc have overlapped, the blocks in use lie in the heap, share no
\* chunk, and hold the bytes asked for and one more (the terminating 0 tar_make_dir_tree does
\* not ask for), whatever kfree calls ran in the middle of a search.
BlocksDisjoint ==
  overlapped \/
    /\ \A b \in live : b.start + b.chunks <= HeapArrSize /\ b.bytes < b.chunks * ChunkSize
    /\ \A b, c \in live : b # c =>
         b.start + b.chunks <= c.start \/ c.start + c.chunks <= b.start

\* The table holds the blocks in use and nothing else, so that kfree and the next search
\* find what kmalloc left.
TableIsLive ==
  overlapped \/ \A i \in Chunk :
    IF \E b \in live : b.start = i
    THEN [start |-> i, chunks |-> memory[i]] \in {[start |-> b.start, chunks |-> b.chunks] : b \in live}
    ELSE memory[i] = 0

\* Blocks and table together are right whenever calls of kmalloc have not overlapped.
HeapSound == BlocksDisjoint /\ TableIsLive

\* kmalloc panics only if no run was long enough when it was called: a kfree in the middle
\* of the search never hides a run from it.
PanicMeansFull ==
  panicked => overlapped \/ \E t \in Threads : pc[t] = "scan" /\ ~fits[t]

\* A call around which others only free blocks comes to an end, although the search reads
\* the table twice for each block it passes.
SearchEnds == \A t \in Threads : (pc[t] # "idle") ~> (pc[t] = "idle" \/ panicked \/ overlapped)
=============================================================================
