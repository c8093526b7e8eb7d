--------------------------- MODULE KmallocProofs ---------------------------
(***************************************************************************)
(* The kernel heap for any number of threads, any size of the heap and of  *)
(* a chunk, and any sizes asked for.  While calls of kmalloc do not        *)
(* overlap, the run of chunks a search has counted so far touches no block *)
(* (Clear) and the first run long enough is not behind it (Ahead), though  *)
(* kfree removes blocks in the middle of the search.                       *)
(***************************************************************************)
EXTENDS Kmalloc, TLAPS

End(b) == b.start + b.chunks
\* Block b has no chunk from lo up to, and not including, hi.
Apart(b, lo, hi) == End(b) <= lo \/ hi <= b.start
\* The run a thread has counted ends before this chunk.
RunEnd(t) == IF pc[t] = "mark" THEN current_chunk[t] + 1 ELSE current_chunk[t]

\* The local variables of a search, whatever other threads do.
Local(t) == pc[t] # "idle" =>
  /\ size_in_chunks[t] > 0 /\ asked[t] < size_in_chunks[t] * ChunkSize
  /\ free_chunks[t] <= RunEnd(t)
  /\ pc[t] = "scan" => free_chunks[t] < size_in_chunks[t]
  /\ pc[t] = "skip" => free_chunks[t] = 0 /\ current_chunk[t] < HeapArrSize
  /\ pc[t] = "mark" => free_chunks[t] = size_in_chunks[t] /\ current_chunk[t] < HeapArrSize

\* The blocks in use, and the table that says where they are.
Blocks ==
  /\ \A b \in live : /\ b.chunks > 0 /\ End(b) <= HeapArrSize /\ b.bytes < b.chunks * ChunkSize
                     /\ memory[b.start] = b.chunks
  /\ \A b, c \in live : b # c => Apart(b, c.start, End(c))
  /\ \A i \in Chunk : memory[i] # 0 => \E b \in live : b.start = i

Clear(t) == pc[t] # "idle" => \A b \in live : Apart(b, RunEnd(t) - free_chunks[t], RunEnd(t))
Ahead(t) == pc[t] \in {"scan", "skip"} /\ fits[t] =>
  \E i \in Chunk : /\ i >= current_chunk[t] - free_chunks[t] /\ i + size_in_chunks[t] <= HeapArrSize
                   /\ \A b \in live : Apart(b, i, i + size_in_chunks[t])
OneSearch == \A t, u \in Threads : pc[t] # "idle" /\ pc[u] # "idle" => t = u

Sound == Blocks /\ OneSearch /\ \A t \in Threads : Clear(t) /\ Ahead(t)
IInv == (\A t \in Threads : Local(t)) /\ (~overlapped => Sound) /\ PanicMeansFull

----------------------------------------------------------------------------
(* Arithmetic                                                              *)

\* size + ChunkSize bytes are rounded down to chunks: there is room for one byte more than
\* was asked for.
LEMMA RoundedUp ==
  ASSUME NEW size \in Nat
  PROVE  InChunks(size) \in Nat /\ InChunks(size) > 0 /\ size < InChunks(size) * ChunkSize
<1>1. ChunkSize \in Nat /\ ChunkSize > 0
  BY HeapAssumption
<1> DEFINE q == (size + ChunkSize) \div ChunkSize
           r == (size + ChunkSize) % ChunkSize
<1>2. q \in Int /\ r \in 0 .. ChunkSize - 1 /\ size + ChunkSize = ChunkSize * q + r
  BY <1>1
<1> HIDE DEF q, r
<1>3. q > 0
  <2>1. ASSUME q <= 0 PROVE FALSE
    <3>1. ChunkSize * q <= 0
      BY <1>1, <1>2, <2>1
    <3> QED BY <1>1, <1>2, <3>1
  <2> QED BY <1>2, <2>1
<1>4. size < q * ChunkSize
  BY <1>1, <1>2
<1> QED BY <1>2, <1>3, <1>4 DEF InChunks, q

\* A run of chunks that are in no block lies apart from every block.
LEMMA FitsApart ==
  ASSUME TypeOK, Blocks, NEW n \in Nat, n > 0, Fits(n)
  PROVE  \E i \in Chunk : i + n <= HeapArrSize /\ \A b \in live : Apart(b, i, i + n)
<1>1. PICK i \in Chunk : i + n <= HeapArrSize /\ (i .. i + n - 1) \cap Taken = {}
  BY DEF Fits
<1>2. i \in Int
  BY HeapAssumption DEF Chunk
<1>3. ASSUME NEW b \in live PROVE Apart(b, i, i + n)
  <2>1. b.start \in Int /\ b.chunks \in Int /\ b.chunks > 0
    BY HeapAssumption DEF TypeOK, Block, Blocks, Chunk
  <2>2. \A j \in b.start .. b.start + b.chunks - 1 : j \in Taken
    BY DEF Taken
  <2>3. \A j \in i .. i + n - 1 : j \notin b.start .. b.start + b.chunks - 1
    BY <1>1, <2>2
  <2>4. i \notin b.start .. b.start + b.chunks - 1 /\ b.start \notin i .. i + n - 1
    BY <1>2, <2>1, <2>3
  <2> QED BY <1>2, <2>1, <2>4 DEF Apart, End
<1> QED BY <1>1, <1>3

----------------------------------------------------------------------------
(* What a step leaves alone                                                *)

\* The local variables of thread u.
Same(u) ==
  /\ pc'[u] = pc[u] /\ size_in_chunks'[u] = size_in_chunks[u] /\ free_chunks'[u] = free_chunks[u]
  /\ current_chunk'[u] = current_chunk[u] /\ asked'[u] = asked[u] /\ fits'[u] = fits[u]

LEMMA SameKeeps ==
  ASSUME NEW u \in Threads, Same(u)
  PROVE  /\ Local(u) => Local(u)'
         /\ live' \subseteq live /\ Clear(u) => Clear(u)'
         /\ live' \subseteq live /\ Ahead(u) => Ahead(u)'
<1>1. RunEnd(u)' = RunEnd(u)
  BY DEF Same, RunEnd
<1>2. Local(u) => Local(u)'
  BY <1>1 DEF Same, Local
<1>3. live' \subseteq live /\ Clear(u) => Clear(u)'
  BY <1>1 DEF Same, Clear, Apart, End
<1>4. live' \subseteq live /\ Ahead(u) => Ahead(u)'
  BY DEF Same, Ahead, Apart, End
<1> QED BY <1>2, <1>3, <1>4

LEMMA BlocksKept ==
  ASSUME Blocks, memory' = memory, live' = live
  PROVE  Blocks'
BY DEF Blocks, Apart, End

\* A step of the search that leaves table and blocks alone is right if it is for its thread.
LEMMA SearchKeeps ==
  ASSUME IInv, NEW t \in Threads, pc[t] # "idle", pc'[t] # "idle", \A u \in Threads \ {t} : Same(u),
         memory' = memory, live' = live, overlapped' = overlapped, panicked' = panicked, ~panicked,
         Local(t)', ~overlapped => Clear(t)' /\ Ahead(t)'
  PROVE  IInv'
<1>1. \A u \in Threads : Local(u)'
  BY SameKeeps DEF IInv
<1>2. ASSUME ~overlapped' PROVE Sound'
  <2>1. Sound
    BY <1>2 DEF IInv
  <2>2. Blocks'
    BY <2>1, BlocksKept DEF Sound
  <2>3. OneSearch'
    BY <2>1 DEF Sound, OneSearch, Same
  <2>4. \A u \in Threads : Clear(u)' /\ Ahead(u)'
    BY <1>2, <2>1, SameKeeps DEF Sound
  <2> QED BY <2>2, <2>3, <2>4 DEF Sound
<1>3. PanicMeansFull'
  BY DEF PanicMeansFull
<1> QED BY <1>1, <1>2, <1>3 DEF IInv

----------------------------------------------------------------------------
(* The steps                                                               *)

LEMMA Numbers ==
  ASSUME TypeOK, NEW t \in Threads
  PROVE  /\ size_in_chunks[t] \in Nat /\ free_chunks[t] \in Nat /\ current_chunk[t] \in Nat
         /\ asked[t] \in Nat /\ HeapArrSize \in Nat /\ HeapArrSize > 0
         /\ \A i \in Chunk : i \in Nat /\ i < HeapArrSize /\ memory[i] \in Nat
         /\ \A i \in Nat : i < HeapArrSize => i \in Chunk
         /\ \A b \in live : b.start \in Chunk /\ b.chunks \in Nat /\ b.bytes \in Nat
BY HeapAssumption DEF TypeOK, Chunk, Block

LEMMA CountFreeStep ==
  ASSUME TypeOK, IInv, NEW t \in Threads, CountFree(t)
  PROVE  TypeOK' /\ IInv'
<1> DEFINE n == size_in_chunks[t]
           k == free_chunks[t]
           c == current_chunk[t]
<1>1. /\ n \in Nat /\ k \in Nat /\ c \in Nat /\ HeapArrSize \in Nat /\ c \in Chunk /\ memory[c] = 0
      /\ ~panicked /\ pc[t] = "scan" /\ c < HeapArrSize
  BY Numbers DEF CountFree, At
<1>2. n > 0 /\ asked[t] < n * ChunkSize /\ k <= c /\ k < n
  BY <1>1 DEF IInv, Local, RunEnd
<1>3. \A u \in Threads \ {t} : Same(u)
  BY DEF CountFree, Goto, Same, TypeOK
<1>4. /\ free_chunks'[t] = k + 1 /\ size_in_chunks' = size_in_chunks /\ asked' = asked /\ fits' = fits
      /\ memory' = memory /\ live' = live /\ overlapped' = overlapped /\ panicked' = panicked
      /\ \/ k + 1 = n /\ pc'[t] = "mark" /\ current_chunk'[t] = c
         \/ k + 1 # n /\ pc'[t] = "scan" /\ current_chunk'[t] = c + 1
  BY <1>1 DEF CountFree, Goto, TypeOK
<1>5. TypeOK'
  <2>1. free_chunks' \in [Threads -> Nat] /\ current_chunk' \in [Threads -> Nat]
    BY DEF CountFree, TypeOK
  <2>2. pc' \in [Threads -> {"idle", "scan", "skip", "mark"}]
    BY DEF CountFree, Goto, TypeOK
  <2> QED BY <1>4, <2>1, <2>2 DEF TypeOK
<1>6. RunEnd(t)' = c + 1 /\ RunEnd(t) = c
  BY <1>1, <1>4 DEF RunEnd
<1>7. Local(t)'
  BY <1>1, <1>2, <1>4, <1>6 DEF Local
<1>8. ASSUME ~overlapped PROVE Clear(t)' /\ Ahead(t)'
  <2>1. Blocks /\ Clear(t) /\ Ahead(t)
    BY <1>8 DEF IInv, Sound
  <2>2. \A b \in live : b.start \in Nat /\ b.chunks \in Nat /\ b.start # c /\ Apart(b, c - k, c)
    BY <1>1, <1>6, <2>1, Numbers DEF Blocks, Clear
  <2>3. \A b \in live : Apart(b, c - k, c + 1)
    BY <1>1, <2>2 DEF Apart, End
  <2>4. Clear(t)'
    BY <1>1, <1>4, <1>6, <2>2, <2>3 DEF Clear, Apart, End
  <2>5. Ahead(t)'
    BY <1>1, <1>4, <2>1 DEF Ahead, Apart, End
  <2> QED BY <2>4, <2>5
<1> QED BY <1>1, <1>3, <1>4, <1>5, <1>7, <1>8, SearchKeeps

LEMMA EndRunStep ==
  ASSUME TypeOK, IInv, NEW t \in Threads, EndRun(t)
  PROVE  TypeOK' /\ IInv'
<1> DEFINE n == size_in_chunks[t]
           k == free_chunks[t]
           c == current_chunk[t]
<1>1. /\ n \in Nat /\ k \in Nat /\ c \in Nat /\ HeapArrSize \in Nat /\ c \in Chunk /\ memory[c] # 0
      /\ ~panicked /\ pc[t] = "scan" /\ c < HeapArrSize
  BY Numbers DEF EndRun, At
<1>2. n > 0 /\ asked[t] < n * ChunkSize /\ k <= c /\ k < n
  BY <1>1 DEF IInv, Local, RunEnd
<1>3. \A u \in Threads \ {t} : Same(u)
  BY DEF EndRun, Goto, Same, TypeOK
<1>4. /\ free_chunks'[t] = 0 /\ size_in_chunks' = size_in_chunks /\ asked' = asked /\ fits' = fits
      /\ memory' = memory /\ live' = live /\ overlapped' = overlapped /\ panicked' = panicked
      /\ pc'[t] = "skip" /\ current_chunk' = current_chunk
  BY <1>1 DEF EndRun, Goto, TypeOK
<1>5. TypeOK'
  <2>1. free_chunks' \in [Threads -> Nat]
    BY DEF EndRun, TypeOK
  <2>2. pc' \in [Threads -> {"idle", "scan", "skip", "mark"}]
    BY DEF EndRun, Goto, TypeOK
  <2> QED BY <1>4, <2>1, <2>2 DEF TypeOK
<1>6. RunEnd(t)' = c
  BY <1>1, <1>4 DEF RunEnd
<1>7. Local(t)'
  BY <1>1, <1>2, <1>4, <1>6 DEF Local
<1>8. ASSUME ~overlapped PROVE Clear(t)' /\ Ahead(t)'
  <2>1. Blocks /\ Clear(t) /\ Ahead(t)
    BY <1>8 DEF IInv, Sound
  <2>2. PICK d \in live : d.start = c
    BY <1>1, <2>1 DEF Blocks
  <2>3. \A b \in live : b.start \in Nat /\ b.chunks \in Nat /\ b.chunks > 0
    BY <2>1, Numbers DEF Blocks
  <2>4. \A b \in live : b # d => Apart(b, d.start, End(d))
    BY <2>1 DEF Blocks
  <2>5. \A b \in live : Apart(b, c - 0, c)
    BY <1>1, <2>2, <2>3, <2>4 DEF Apart, End
  <2>6. Clear(t)'
    BY <1>1, <1>4, <1>6, <2>3, <2>5 DEF Clear, Apart, End
  <2>7. ASSUME fits[t]
        PROVE  \E i \in Chunk : i >= c - 0 /\ i + n <= HeapArrSize /\ \A b \in live : Apart(b, i, i + n)
    <3>1. PICK i \in Chunk : i >= c - k /\ i + n <= HeapArrSize /\ \A b \in live : Apart(b, i, i + n)
      BY <1>1, <2>1, <2>7 DEF Ahead
    <3>2. i \in Nat /\ Apart(d, i, i + n)
      BY <3>1, Numbers
    <3>3. i >= c - 0
      BY <1>1, <1>2, <2>2, <2>3, <3>1, <3>2 DEF Apart, End
    <3> QED BY <3>1, <3>3
  <2>8. Ahead(t)'
    BY <1>1, <1>4, <2>7 DEF Ahead, Apart, End
  <2> QED BY <2>6, <2>8
<1> QED BY <1>1, <1>3, <1>4, <1>5, <1>7, <1>8, SearchKeeps

LEMMA SkipStep ==
  ASSUME TypeOK, IInv, NEW t \in Threads, Skip(t)
  PROVE  TypeOK' /\ IInv'
<1> DEFINE n == size_in_chunks[t]
           c == current_chunk[t]
           m == memory[c]
<1>1. /\ n \in Nat /\ c \in Nat /\ HeapArrSize \in Nat /\ ~panicked /\ pc[t] = "skip"
  BY Numbers DEF Skip, At
<1>2. n > 0 /\ asked[t] < n * ChunkSize /\ free_chunks[t] = 0 /\ c < HeapArrSize
  BY <1>1 DEF IInv, Local, RunEnd
<1>3. c \in Chunk /\ m \in Nat
  BY <1>1, <1>2, Numbers
<1>4. \A u \in Threads \ {t} : Same(u)
  BY DEF Skip, Goto, Same, TypeOK
<1>5. /\ free_chunks' = free_chunks /\ size_in_chunks' = size_in_chunks /\ asked' = asked /\ fits' = fits
      /\ memory' = memory /\ live' = live /\ overlapped' = overlapped /\ panicked' = panicked
      /\ pc'[t] = "scan" /\ current_chunk'[t] = c + m
  BY <1>1 DEF Skip, Goto, TypeOK
<1>6. TypeOK'
  <2>1. current_chunk' \in [Threads -> Nat]
    BY <1>1, <1>3 DEF Skip, TypeOK
  <2>2. pc' \in [Threads -> {"idle", "scan", "skip", "mark"}]
    BY DEF Skip, Goto, TypeOK
  <2> QED BY <1>5, <2>1, <2>2 DEF TypeOK
<1>7. RunEnd(t)' = c + m /\ RunEnd(t) = c
  BY <1>1, <1>5 DEF RunEnd
<1>8. Local(t)'
  BY <1>1, <1>2, <1>3, <1>5, <1>7 DEF Local
<1>9. ASSUME ~overlapped PROVE Clear(t)' /\ Ahead(t)'
  <2>1. Blocks /\ Clear(t) /\ Ahead(t)
    BY <1>9 DEF IInv, Sound
  <2>2. \A b \in live : b.start \in Nat /\ b.chunks \in Nat /\ b.chunks > 0
    BY <2>1, Numbers DEF Blocks
  <2>3. m = 0 \/ \E d \in live : d.start = c /\ d.chunks = m
    BY <1>3, <2>1 DEF Blocks
  <2>4. \A b \in live : Apart(b, c + m, c + m)
    <3>1. CASE m = 0
      BY <1>1, <1>2, <1>3, <1>7, <2>1, <2>2, <3>1 DEF Clear, Apart, End
    <3>2. CASE \E d \in live : d.start = c /\ d.chunks = m
      <4>1. PICK d \in live : d.start = c /\ d.chunks = m
        BY <3>2
      <4>2. \A b \in live : b # d => Apart(b, d.start, End(d))
        BY <2>1 DEF Blocks
      <4> QED BY <1>1, <1>3, <2>2, <4>1, <4>2 DEF Apart, End
    <3> QED BY <2>3, <3>1, <3>2
  <2>5. Clear(t)'
    BY <1>1, <1>2, <1>3, <1>5, <1>7, <2>2, <2>4 DEF Clear, Apart, End
  <2>6. ASSUME fits[t]
        PROVE  \E i \in Chunk : i >= c + m /\ i + n <= HeapArrSize /\ \A b \in live : Apart(b, i, i + n)
    <3>1. PICK i \in Chunk : i >= c - 0 /\ i + n <= HeapArrSize /\ \A b \in live : Apart(b, i, i + n)
      BY <1>1, <1>2, <2>1, <2>6 DEF Ahead
    <3>2. i \in Nat
      BY Numbers
    <3>3. i >= c + m
      BY <1>1, <1>2, <1>3, <2>2, <2>3, <3>1, <3>2 DEF Apart, End
    <3> QED BY <3>1, <3>3
  <2>7. Ahead(t)'
    BY <1>1, <1>2, <1>3, <1>5, <2>6 DEF Ahead, Apart, End
  <2> QED BY <2>5, <2>7
<1> QED BY <1>1, <1>4, <1>5, <1>6, <1>8, <1>9, SearchKeeps

LEMMA MarkStep ==
  ASSUME TypeOK, IInv, NEW t \in Threads, Mark(t)
  PROVE  TypeOK' /\ IInv'
<1> DEFINE n == size_in_chunks[t]
           c == current_chunk[t]
           s == c - n + 1
           e == [start |-> s, chunks |-> n, bytes |-> asked[t]]
<1>1. /\ n \in Nat /\ c \in Nat /\ asked[t] \in Nat /\ HeapArrSize \in Nat /\ ~panicked /\ pc[t] = "mark"
  BY Numbers DEF Mark, At
<1>2. n > 0 /\ asked[t] < n * ChunkSize /\ free_chunks[t] = n /\ n <= c + 1 /\ c < HeapArrSize
  BY <1>1 DEF IInv, Local, RunEnd
<1>3. s \in Nat /\ s \in Chunk /\ e \in Block /\ s + n = c + 1
  BY <1>1, <1>2, Numbers DEF Block
<1>4. /\ \A u \in Threads \ {t} : Same(u)
      /\ pc'[t] = "idle" /\ overlapped' = overlapped /\ panicked' = panicked
  BY DEF Mark, Goto, Same, TypeOK
<1>5. /\ live' = live \cup {e} /\ memory'[s] = n
      /\ \A i \in Chunk : i # s => memory'[i] = memory[i]
  BY <1>3 DEF Mark, TypeOK
<1>6. TypeOK'
  <2>1. memory' \in [Chunk -> Nat]
    BY <1>1, <1>3 DEF Mark, TypeOK
  <2>2. /\ size_in_chunks' \in [Threads -> Nat] /\ free_chunks' \in [Threads -> Nat]
        /\ current_chunk' \in [Threads -> Nat] /\ asked' \in [Threads -> Nat]
    BY DEF Mark, TypeOK
  <2>3. pc' \in [Threads -> {"idle", "scan", "skip", "mark"}]
    BY DEF Mark, Goto, TypeOK
  <2>4. fits' \in [Threads -> BOOLEAN]
    BY DEF Mark, TypeOK
  <2>5. live' \subseteq Block
    BY <1>3, <1>5 DEF TypeOK
  <2> QED BY <1>4, <2>1, <2>2, <2>3, <2>4, <2>5 DEF TypeOK
<1>7. \A u \in Threads : Local(u)'
  BY <1>4, SameKeeps DEF IInv, Local
<1>8. ASSUME ~overlapped' PROVE Sound'
  <2>1. Sound
    BY <1>4, <1>8 DEF IInv
  <2>2. \A u \in Threads : pc'[u] = "idle"
    BY <1>1, <1>4, <2>1 DEF Sound, OneSearch, Same
  <2>3. \A b \in live : b.start \in Chunk /\ b.start \in Nat /\ b.chunks \in Nat /\ b.chunks > 0
    BY <2>1, Numbers DEF Sound, Blocks
  <2>4. \A b \in live : Apart(b, s, c + 1)
    <3>1. RunEnd(t) - free_chunks[t] = s /\ RunEnd(t) = c + 1
      BY <1>1, <1>2 DEF RunEnd
    <3> QED BY <1>1, <2>1, <3>1 DEF Sound, Clear
  <2>5. \A b \in live : b.start # s /\ Apart(b, e.start, End(e)) /\ Apart(e, b.start, End(b))
    BY <1>1, <1>2, <1>3, <2>3, <2>4 DEF Apart, End
  <2>6. \A b \in live' : /\ b.chunks > 0 /\ End(b) <= HeapArrSize /\ b.bytes < b.chunks * ChunkSize
                          /\ memory'[b.start] = b.chunks
    <3>1. End(e) <= HeapArrSize
      BY <1>1, <1>2, <1>3 DEF End
    <3> QED BY <1>2, <1>5, <2>1, <2>3, <2>5, <3>1 DEF Sound, Blocks
  <2>7. \A b, d \in live' : b # d => Apart(b, d.start, End(d))
    BY <1>5, <2>1, <2>5 DEF Sound, Blocks
  <2>8. ASSUME NEW i \in Chunk, memory'[i] # 0 PROVE \E b \in live' : b.start = i
    <3>1. CASE i = s
      <4>1. e \in live' /\ e.start = i
        BY <1>5, <3>1
      <4> QED BY <4>1
    <3>2. CASE i # s
      BY <1>5, <2>1, <2>8, <3>2 DEF Sound, Blocks
    <3> QED BY <3>1, <3>2
  <2>9. Blocks'
    BY <2>6, <2>7, <2>8 DEF Blocks, Apart, End
  <2> QED BY <2>2, <2>9 DEF Sound, OneSearch, Clear, Ahead
<1>9. PanicMeansFull'
  BY <1>1, <1>4 DEF PanicMeansFull
<1> QED BY <1>6, <1>7, <1>8, <1>9 DEF IInv

LEMMA OutOfMemoryStep ==
  ASSUME TypeOK, IInv, NEW t \in Threads, OutOfMemory(t)
  PROVE  TypeOK' /\ IInv'
<1>1. /\ \A u \in Threads : Same(u)
      /\ memory' = memory /\ live' = live /\ overlapped' = overlapped /\ panicked'
  BY DEF OutOfMemory, Same, locals
<1>2. TypeOK'
  BY DEF OutOfMemory, TypeOK, locals
<1>3. \A u \in Threads : Local(u)'
  BY <1>1, SameKeeps DEF IInv
<1>4. ASSUME ~overlapped' PROVE Sound'
  <2>1. Sound
    BY <1>1, <1>4 DEF IInv
  <2>2. Blocks' /\ OneSearch'
    BY <1>1, <2>1, BlocksKept DEF Sound, OneSearch, Same
  <2>3. \A u \in Threads : Clear(u)' /\ Ahead(u)'
    BY <1>1, <2>1, SameKeeps DEF Sound
  <2> QED BY <2>2, <2>3 DEF Sound
<1>5. ASSUME ~overlapped PROVE ~fits[t]
  <2>1. Ahead(t) /\ Local(t)
    BY <1>5 DEF IInv, Sound
  <2>2. pc[t] = "scan" /\ current_chunk[t] >= HeapArrSize
    BY DEF OutOfMemory, At
  <2>3. SUFFICES ASSUME fits[t] PROVE FALSE
    OBVIOUS
  <2>4. PICK i \in Chunk : i >= current_chunk[t] - free_chunks[t] /\ i + size_in_chunks[t] <= HeapArrSize
    BY <2>1, <2>2, <2>3 DEF Ahead
  <2>5. free_chunks[t] < size_in_chunks[t]
    BY <2>1, <2>2 DEF Local
  <2> QED BY <2>2, <2>4, <2>5, Numbers
<1>6. PanicMeansFull'
  BY <1>1, <1>5 DEF PanicMeansFull, OutOfMemory, At, Same
<1> QED BY <1>2, <1>3, <1>4, <1>6 DEF IInv

LEMMA kfreeStep ==
  ASSUME TypeOK, IInv, NEW t \in Threads, NEW f \in live, kfree(t, f)
  PROVE  TypeOK' /\ IInv'
<1>1. /\ \A u \in Threads : Same(u)
      /\ live' = live \ {f} /\ overlapped' = overlapped /\ panicked' = panicked /\ ~panicked
  BY DEF kfree, At, Same, locals
<1>2. f.start \in Chunk
  BY DEF TypeOK, Block
<1>3. memory' \in [Chunk -> Nat] /\ memory'[f.start] = 0 /\ \A i \in Chunk : i # f.start => memory'[i] = memory[i]
  BY <1>2 DEF kfree, TypeOK
<1>4. TypeOK'
  BY <1>3 DEF kfree, TypeOK, locals
<1>5. \A u \in Threads : Local(u)'
  BY <1>1, SameKeeps DEF IInv
<1>6. ASSUME ~overlapped' PROVE Sound'
  <2>1. Sound
    BY <1>1, <1>6 DEF IInv
  <2>2. \A b \in live : b.start \in Chunk /\ b.start \in Nat /\ b.chunks \in Nat /\ b.chunks > 0
    BY <2>1, Numbers DEF Sound, Blocks
  <2>3. \A b \in live' : b \in live /\ b.start # f.start
    BY <1>1, <2>1, <2>2 DEF Sound, Blocks, Apart, End
  <2>4. \A b \in live' : /\ b.chunks > 0 /\ End(b) <= HeapArrSize /\ b.bytes < b.chunks * ChunkSize
                          /\ memory'[b.start] = b.chunks
    BY <1>3, <2>1, <2>2, <2>3 DEF Sound, Blocks
  <2>5. \A b, d \in live' : b # d => Apart(b, d.start, End(d))
    BY <2>1, <2>3 DEF Sound, Blocks
  <2>6. \A i \in Chunk : memory'[i] # 0 => \E b \in live' : b.start = i
    BY <1>1, <1>3, <2>1 DEF Sound, Blocks
  <2>7. Blocks'
    BY <2>4, <2>5, <2>6 DEF Blocks, Apart, End
  <2>8. OneSearch'
    BY <1>1, <2>1 DEF Sound, OneSearch, Same
  <2>9. \A u \in Threads : Clear(u)' /\ Ahead(u)'
    BY <1>1, <2>1, SameKeeps DEF Sound
  <2> QED BY <2>7, <2>8, <2>9 DEF Sound
<1>7. PanicMeansFull'
  BY <1>1 DEF PanicMeansFull
<1> QED BY <1>4, <1>5, <1>6, <1>7 DEF IInv

LEMMA kmallocStep ==
  ASSUME TypeOK, IInv, NEW t \in Threads, NEW size \in Sizes, kmalloc(t, size)
  PROVE  TypeOK' /\ IInv'
<1> DEFINE n == InChunks(size)
<1>1. size \in Nat /\ n \in Nat /\ n > 0 /\ size < n * ChunkSize
  BY HeapAssumption, RoundedUp
<1> HIDE DEF n
<1>2. /\ \A u \in Threads \ {t} : Same(u)
      /\ memory' = memory /\ live' = live /\ panicked' = panicked /\ ~panicked /\ ~overlapped
      /\ pc[t] = "idle" /\ pc'[t] = "scan" /\ overlapped' = (Searching # {})
      /\ size_in_chunks'[t] = n /\ free_chunks'[t] = 0 /\ current_chunk'[t] = 0 /\ asked'[t] = size
  BY DEF kmalloc, At, Goto, Same, TypeOK, n
<1>3. fits'[t] = Fits(n)
  BY DEF kmalloc, TypeOK, n
<1>4. TypeOK'
  <2>1. /\ size_in_chunks' \in [Threads -> Nat] /\ free_chunks' \in [Threads -> Nat]
        /\ current_chunk' \in [Threads -> Nat] /\ asked' \in [Threads -> Nat]
    BY <1>1 DEF kmalloc, TypeOK, n
  <2>2. pc' \in [Threads -> {"idle", "scan", "skip", "mark"}]
    BY DEF kmalloc, Goto, TypeOK
  <2>3. fits' \in [Threads -> BOOLEAN]
    BY DEF kmalloc, TypeOK, Fits
  <2>4. overlapped' \in BOOLEAN
    BY <1>2
  <2> QED BY <1>2, <2>1, <2>2, <2>3, <2>4 DEF TypeOK
<1>5. RunEnd(t)' = 0
  BY <1>2 DEF RunEnd
<1>6. Local(t)'
  BY <1>1, <1>2, <1>5 DEF Local
<1>7. \A u \in Threads : Local(u)'
  BY <1>2, <1>6, SameKeeps DEF IInv
<1>8. ASSUME ~overlapped' PROVE Sound'
  <2>1. Blocks
    BY <1>2 DEF IInv, Sound
  <2>2. \A u \in Threads \ {t} : pc'[u] = "idle"
    BY <1>2, <1>8 DEF Searching, Same
  <2>3. Blocks' /\ OneSearch'
    BY <1>2, <2>1, <2>2, BlocksKept DEF OneSearch
  <2>4. \A b \in live : b.start \in Nat /\ b.chunks \in Nat
    BY Numbers
  <2>5. Clear(t)'
    BY <1>2, <1>5, <2>4 DEF Clear, Apart, End
  <2>6. ASSUME Fits(n)
        PROVE  \E i \in Chunk : i >= 0 - 0 /\ i + n <= HeapArrSize /\ \A b \in live : Apart(b, i, i + n)
    BY <1>1, <2>1, <2>6, FitsApart, Numbers
  <2>7. Ahead(t)'
    BY <1>2, <1>3, <2>6 DEF Ahead, Apart, End
  <2> QED BY <2>2, <2>3, <2>5, <2>7 DEF Sound, Clear, Ahead
<1>9. PanicMeansFull'
  BY <1>2 DEF PanicMeansFull
<1> QED BY <1>4, <1>7, <1>8, <1>9 DEF IInv

----------------------------------------------------------------------------
(* The theorems                                                            *)

LEMMA InitOK == Init => TypeOK /\ IInv
<1> SUFFICES ASSUME Init PROVE TypeOK /\ IInv
  OBVIOUS
<1>1. TypeOK
  <2>1. fits \in [Threads -> BOOLEAN] /\ overlapped \in BOOLEAN /\ panicked \in BOOLEAN
    BY DEF Init
  <2> QED BY <2>1 DEF Init, TypeOK
<1>2. \A t \in Threads : Local(t) /\ Clear(t) /\ Ahead(t)
  BY DEF Init, Local, Clear, Ahead
<1>3. Blocks /\ OneSearch /\ PanicMeansFull
  BY DEF Init, Blocks, OneSearch, PanicMeansFull
<1> QED BY <1>1, <1>2, <1>3 DEF IInv, Sound

LEMMA StepOK == TypeOK /\ IInv /\ [Next]_vars => (TypeOK /\ IInv)'
<1> SUFFICES ASSUME TypeOK, IInv, [Next]_vars PROVE TypeOK' /\ IInv'
  OBVIOUS
<1>1. CASE UNCHANGED vars
  <2>1. TypeOK'
    BY <1>1 DEF vars, locals, TypeOK
  <2>2. \A u \in Threads : Same(u)
    BY <1>1 DEF vars, locals, Same
  <2>3. (\A u \in Threads : Local(u)') /\ PanicMeansFull'
    BY <1>1, <2>2, SameKeeps DEF IInv, PanicMeansFull, vars, locals
  <2>4. ~overlapped' => Sound'
    BY <1>1, <2>2, SameKeeps, BlocksKept DEF IInv, Sound, OneSearch, Same, vars
  <2> QED BY <2>1, <2>3, <2>4 DEF IInv
<1>2. ASSUME NEW t \in Threads, Search(t) PROVE TypeOK' /\ IInv'
  BY <1>2, CountFreeStep, EndRunStep, SkipStep, MarkStep, OutOfMemoryStep DEF Search
<1> QED BY <1>1, <1>2, kmallocStep, kfreeStep DEF Next

LEMMA Invariance == Spec => [](TypeOK /\ IInv)
BY InitOK, StepOK, PTL DEF Spec

\* Whatever threads search and free at the same time, the table of chunks and the variables
\* of a search keep their types: a search marks a chunk of the heap (kmalloc, kfree).
THEOREM TypeCorrect == Spec => []TypeOK
BY Invariance, PTL

\* While calls of kmalloc do not overlap, the blocks given out lie in the heap, share no chunk
\* and hold what was asked for, on a heap of any size and with any number of threads that free
\* blocks in the middle of the search (kmalloc, kfree).
THEOREM Disjoint == Spec => []BlocksDisjoint
<1>1. TypeOK /\ IInv => BlocksDisjoint
  BY Numbers DEF IInv, Sound, Blocks, BlocksDisjoint, Apart, End
<1> QED BY <1>1, Invariance, PTL

\* While calls do not overlap, the table holds the blocks in use and nothing else (kmalloc, kfree).
THEOREM Table == Spec => []TableIsLive
<1>1. ASSUME TypeOK, IInv PROVE TableIsLive
  BY <1>1 DEF IInv, Sound, Blocks, TableIsLive
<1> QED BY <1>1, Invariance, PTL

\* Both together, for kmalloc and kfree in any order and with any number of threads.
THEOREM HeapCorrect == Spec => []HeapSound
<1>1. BlocksDisjoint /\ TableIsLive => HeapSound
  BY DEF HeapSound
<1> QED BY <1>1, Disjoint, Table, PTL

\* kmalloc panics only if no run of chunks was long enough when it was called, or if calls
\* have overlapped: blocks freed behind or before the search never hide a run from it.
THEOREM PanicJustified == Spec => []PanicMeansFull
<1>1. IInv => PanicMeansFull
  BY DEF IInv
<1> QED BY <1>1, Invariance, PTL
=============================================================================
