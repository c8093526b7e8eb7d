------------------------------- MODULE Files -------------------------------
(***************************************************************************)
(* Files of processes: the system calls on descriptors                     *)
(* (kernel/sys/sysd.c), the requests vfs_read_blocking and                 *)
(* vfs_write_blocking make of them (kernel/fs/vfs.c, vfs_async.c), and the *)
(* drivers that serve the requests: the thread of the TAR file system and  *)
(* the thread of the keyboard device, each with a list of requests         *)
(* (kernel/libk/list.c), the temporary files of tmp.c and the log of       *)
(* sio.c, which answer in the caller's thread.  Threads are preempted      *)
(* between any two steps.  A process has at most one request, named by the *)
(* process; the nodes of the lists are allocated from Nodes.  Semaphores   *)
(* are those of module Semaphore.  kernel/driver/i2c.c drives the bus from *)
(* the caller's thread too, a device register at a time.                   *)
(***************************************************************************)
EXTENDS Integers, Sequences, FiniteSets, FiniteSetsExt

CONSTANTS
  Procs,
  PROC_MAX_FILES,
  Workloads,          \* sets of paths; a behaviour opens those of one of them
  MAX_FILES,          \* temporary files
  TarSize,            \* the bytes of the file in the archive
  BUFF_SIZE,          \* characters the keyboard's ring buffer holds
  Sizes,              \* of reads and writes
  Numbers,            \* of devices on the I2C bus, and of their registers
  MaxKeys, MaxCalls,  \* bounds: keys struck; opens, reads, writes and I2C settings
  Garbage, NULL

Devices == {"tar", "kbd", "log", "dir", "i2c"}   \* other paths are below /tmp/
Nodes == 1 .. 2 * Cardinality(Procs)
Drivers == {"tar", "kbd"}
Fds == 0 .. PROC_MAX_FILES - 1

VARIABLES
  paths,        \* the workload
  open_files,   \* of each process
  pc, calls,    \* where it is in a system call; the calls of all
  arg,          \* the call: its arguments and local variables
  req,          \* its request: finalized or not, the result, the bytes read
  list, node,   \* first and last of each driver's req_list; the nodes in use
  lock,         \* list_lock of tar.c, insert_lock of kbd.c
  list_sema,
  drv,          \* where a driver thread is, and its request and node
  ring, keys, list_read_pending, data_available,  \* kbd.c
  files, fid, alloc_fid, tlock,                   \* tmp.c
  bus,          \* i2c.c: the device's registers; what was asked of it; two drove it at once
  raced,        \* history: list_remove and list_append met on a list of one node
  leaked,       \* history: a write left tar.c's list_lock taken
  tmpRaced      \* history: two temporary files were created at once

lists == <<list, node, raced>>
kbd == <<ring, keys, list_read_pending, data_available>>
tmp == <<files, fid, alloc_fid, tlock, tmpRaced>>
drivers == <<lists, lock, list_sema, drv, leaked>>
state == <<open_files, pc, calls, arg, req, drivers, kbd, tmp, bus>>
vars == <<paths, state>>

NoFile == [inode |-> NULL, offset |-> 0, nonblock |-> FALSE, driver_data |-> NULL]
NoArg == [fd |-> 0, type |-> "read", size |-> 0, path |-> NULL, newfid |-> 0, node |-> NULL]
NoReq == [state |-> "none", res |-> 0, got |-> << >>]

Init ==
  /\ paths \in Workloads
  /\ open_files = [p \in Procs |-> [fd \in Fds |-> NoFile]]
  /\ pc = [p \in Procs |-> "user"] /\ calls = 0
  /\ arg = [p \in Procs |-> NoArg]
  /\ req = [p \in Procs |-> NoReq]
  /\ list = [d \in Drivers |-> [first |-> NULL, last |-> NULL]]
  /\ node = << >>
  /\ lock = [d \in Drivers |-> 1] /\ list_sema = [d \in Drivers |-> 0]
  /\ drv = [d \in Drivers |-> [pc |-> "sema", req |-> NULL, node |-> NULL]]
  /\ ring = << >> /\ keys = 0 /\ list_read_pending = 0 /\ data_available = 0
  /\ files = << >> /\ fid = 0 /\ alloc_fid = << >> /\ tlock = 1
  /\ bus = [addr |-> Garbage, reg |-> Garbage, data |-> Garbage, busy |-> FALSE, want |-> NULL, raced |-> FALSE]
  /\ raced = [d \in Drivers |-> FALSE] /\ leaked = FALSE /\ tmpRaced = FALSE

Go(p, from, to) == pc[p] = from /\ pc' = [pc EXCEPT ![p] = to]

\* A call ends: its request and locals are gone.
Return(p, from) ==
  /\ Go(p, from, "user")
  /\ arg' = [arg EXCEPT ![p] = NoArg] /\ req' = [req EXCEPT ![p] = NoReq]

\* The file of the call under way, and its inode.
file(p) == open_files[p][arg[p].fd]
SetFile(p, fd, f) == open_files' = [open_files EXCEPT ![p][fd] = f]
Opened(dev, id) == [NoFile EXCEPT !.inode = [dev |-> dev, id |-> id]]

----------------------------------------------------------------------------
(* SYS_OPEN, SYS_CLOSE, SYS_FCNTL                                          *)

FreeFds(p) == {fd \in Fds : open_files[p][fd].inode = NULL}

\* proc_free_fd; every device gives its one inode, tmp.c looks for the name.
sys_open(p, path) ==
  /\ pc[p] = "user" /\ calls < MaxCalls
  /\ calls' = calls + 1
  /\ UNCHANGED <<req, drivers, kbd, tmp>>
  /\ IF FreeFds(p) = {} THEN UNCHANGED <<open_files, pc, arg>>    \* -ETOOMANYFILES
     ELSE IF path \in Devices
     THEN SetFile(p, Min(FreeFds(p)), Opened(path, 0)) /\ UNCHANGED <<pc, arg>>
     ELSE /\ Go(p, "user", "find")
          /\ arg' = [arg EXCEPT ![p].fd = Min(FreeFds(p)), ![p].path = path]
          /\ UNCHANGED open_files

\* vfs_close; a descriptor that is not open gives -EBADFD.  What is left in the slot is
\* overwritten by the next vfs_open.
sys_close(p, fd) ==
  /\ pc[p] = "user" /\ calls < MaxCalls
  /\ SetFile(p, fd, NoFile)
  /\ UNCHANGED <<pc, calls, arg, req, drivers, kbd, tmp>>

\* F_FLAGS with O_NONBLOCK or 0, on the files whose driver looks at it
sys_fcntl(p, fd, nonblock) ==
  /\ pc[p] = "user" /\ calls < MaxCalls /\ open_files[p][fd].inode = [dev |-> "kbd", id |-> 0]
  /\ SetFile(p, fd, [open_files[p][fd] EXCEPT !.nonblock = nonblock])
  /\ UNCHANGED <<pc, calls, arg, req, drivers, kbd, tmp>>

\* tmp_find_inode walks the list without a lock, ...
TmpFind(p) ==
  LET found == {i \in DOMAIN files : files[i].name = arg[p].path} IN
  /\ UNCHANGED <<calls, drivers, kbd, files, fid, alloc_fid, tlock>>
  /\ \/ /\ found # {} /\ Return(p, "find")
        /\ SetFile(p, arg[p].fd, Opened("tmp", Min(found)))
        /\ UNCHANGED tmpRaced
     \/ /\ found = {} /\ fid >= MAX_FILES /\ Return(p, "find")   \* -ENOTFOUND
        /\ UNCHANGED <<open_files, tmpRaced>>
     \/ /\ found = {} /\ fid < MAX_FILES /\ Go(p, "find", "newfid")
        /\ tmpRaced' = (tmpRaced \/ \E q \in Procs : pc[q] \in {"newfid", "newfile"})
        /\ UNCHANGED <<open_files, arg, req>>

\* ... loads fid (bound: when two do at once, what they make is not followed), ...
TmpNewFid(p) ==
  /\ Go(p, "newfid", "newfile") /\ ~tmpRaced
  /\ arg' = [arg EXCEPT ![p].newfid = fid]
  /\ UNCHANGED <<open_files, calls, req, drivers, kbd, tmp>>

\* ... and stores it, fills in the inode and appends it to the list.
TmpNewFile(p) ==
  /\ Return(p, "newfile") /\ ~tmpRaced
  /\ fid' = arg[p].newfid + 1
  /\ alloc_fid' = [f \in DOMAIN alloc_fid \cup {arg[p].newfid} |->
                    IF f = arg[p].newfid THEN << >> ELSE alloc_fid[f]]
  /\ files' = Append(files, [name |-> arg[p].path, fid |-> arg[p].newfid, size |-> 0])
  /\ SetFile(p, arg[p].fd, Opened("tmp", Len(files) + 1))
  /\ UNCHANGED <<calls, drivers, kbd, tlock, tmpRaced>>

----------------------------------------------------------------------------
(* SYS_READ, SYS_WRITE                                                     *)

\* A descriptor that is not open gives -EBADFD, whatever flags file->inode (NULL) led to; a
\* directory of rootfs has no async_request, the log is not read and the keyboard not
\* written: -ENOSUP.  The log, and the serial line likewise, is written in the caller's thread.
Refused(f, type) ==
  \/ f.inode = NULL \/ f.inode.dev = "dir"
  \/ f.inode.dev = "log" /\ type = "read"
  \/ f.inode.dev = "kbd" /\ type = "write"
\* vfs_read_blocking and vfs_write_blocking up to async_request
vfs_rw(p, f, type, size) ==
  IF Refused(f, type) THEN UNCHANGED <<pc, req>>
  ELSE /\ req' = [req EXCEPT ![p] = IF f.inode.dev = "log"
             THEN [state |-> "done", res |-> size, got |-> << >>]
             ELSE [state |-> "pending", res |-> 0, got |-> << >>]]
       /\ Go(p, "user", CASE f.inode.dev = "log" -> "wait"
                           [] f.inode.dev = "tmp" -> "tmplock"
                           [] f.inode.dev = "i2c" -> "i2c"
                           [] OTHER -> "submit")

sys_rw(p, fd, type, size) ==
  LET f == open_files[p][fd] IN
  /\ pc[p] = "user" /\ calls < MaxCalls
  /\ calls' = calls + 1
  /\ arg' = IF Refused(f, type) THEN arg
            ELSE [arg EXCEPT ![p].fd = fd, ![p].type = type,
                                ![p].size = IF f.inode.dev = "i2c" THEN 1 ELSE size]  \* i2c.c looks at one byte
  /\ vfs_rw(p, f, type, size)
  /\ UNCHANGED <<open_files, drivers, kbd, tmp>>

\* vfs_async_finalize
Finalize(p, res, got) == req' = [req EXCEPT ![p] = [state |-> "done", res |-> res, got |-> got]]

\* semaphore_down(fin_sema): the result is read, the request freed.  The variant does not
\* wait.
Wait_Not(p) ==
  /\ Return(p, "wait")
  /\ UNCHANGED <<open_files, calls, drivers, kbd, tmp>>
Wait(p) ==
  /\ Return(p, "wait") /\ req[p].state = "done"
  /\ UNCHANGED <<open_files, calls, drivers, kbd, tmp>>

\* tmp_submit_req: the lock, ...  The variant does not take it.
TmpLock_None(p) ==
  /\ Go(p, "tmplock", "tmp")
  /\ UNCHANGED <<open_files, calls, arg, req, drivers, kbd, tmp>>
TmpLock(p) ==
  /\ Go(p, "tmplock", "tmp") /\ tlock > 0
  /\ tlock' = tlock - 1
  /\ UNCHANGED <<open_files, calls, arg, req, drivers, kbd, files, fid, alloc_fid, tmpRaced>>

\* ... tmp_read, or the first half of tmp_write: a file that grows gets a new buffer, ...
TmpServe(p) ==
  LET i == file(p).inode.id
      n == arg[p].size
      data == alloc_fid[files[i].fid] IN
  /\ UNCHANGED <<open_files, calls, arg, drivers, kbd, fid, tmpRaced>>
  /\ IF arg[p].type = "read"
     THEN /\ Go(p, "tmp", "wait")
          /\ LET res == Min({n, files[i].size}) IN 
                Finalize(p, res, [k \in 1 .. res |-> IF k \in DOMAIN data THEN data[k] ELSE Garbage])
          /\ tlock' = tlock + 1
          /\ UNCHANGED <<files, alloc_fid>>
     ELSE /\ Go(p, "tmp", "copy")
          /\ IF n > files[i].size
             THEN /\ alloc_fid' = [alloc_fid EXCEPT ![files[i].fid] = [k \in 1 .. n |-> Garbage]]
                  /\ files' = [files EXCEPT ![i].size = n]
             ELSE UNCHANGED <<files, alloc_fid>>
          /\ UNCHANGED <<req, tlock>>

\* ... and the memcpy.
TmpCopy(p) ==
  LET f == files[file(p).inode.id].fid
      n == arg[p].size IN
  /\ Go(p, "copy", "wait")
  /\ alloc_fid' = [alloc_fid EXCEPT ![f] = [k \in DOMAIN @ |-> IF k <= n THEN p ELSE @[k]]]
  /\ Finalize(p, n, << >>)
  /\ tlock' = tlock + 1
  /\ UNCHANGED <<open_files, calls, arg, drivers, kbd, files, fid, tmpRaced>>

----------------------------------------------------------------------------
(* tar_submit_req, kbd_submit_req, list_append                             *)

dev(p) == IF file(p).inode = NULL THEN "none" ELSE file(p).inode.dev
\* Bound: a list that a race has broken is not followed further.
Sound(d) == ~raced[d]

\* The lock is taken, and kept when tar.c refuses a write (-ENOSUP); a read of the keyboard
\* that must not block is refused when all characters are spoken for (-EWOULDBLOCK).  The
\* variant does not count what others wait for.
WouldBlock_Any(p) == file(p).nonblock /\ ring = << >>
WouldBlock(p) == file(p).nonblock /\ list_read_pending >= Len(ring)
Submit(p) ==
  LET d == dev(p) IN
  /\ pc[p] = "submit" /\ lock[d] > 0
  /\ UNCHANGED <<open_files, calls, lists, list_sema, drv, ring, keys, data_available, tmp>>
  /\ \/ /\ d = "tar" /\ arg[p].type = "write"
        /\ Return(p, "submit")
        /\ lock' = [lock EXCEPT ![d] = @ - 1] /\ leaked' = TRUE
        /\ UNCHANGED list_read_pending
     \/ /\ d = "kbd" /\ WouldBlock(p)
        /\ Return(p, "submit")
        /\ UNCHANGED <<lock, leaked, list_read_pending>>
     \/ /\ (d = "tar" /\ arg[p].type = "read") \/ (d = "kbd" /\ ~WouldBlock(p))
        /\ Go(p, "submit", "append")
        /\ lock' = [lock EXCEPT ![d] = @ - 1]
        /\ list_read_pending' = list_read_pending + (IF d = "kbd" THEN arg[p].size ELSE 0)
        /\ UNCHANGED <<arg, req, leaked>>

\* list_append: the new node, with prev = list->last; ...
Append1(p) ==
  LET d == dev(p)
      n == Min(Nodes \ DOMAIN node) IN
  /\ Go(p, "append", "link") /\ Sound(d)
  /\ node' = [m \in DOMAIN node \cup {n} |->
                IF m = n THEN [next |-> NULL, prev |-> list[d].last, val |-> p] ELSE node[m]]
  /\ arg' = [arg EXCEPT ![p].node = n]
  /\ UNCHANGED <<open_files, calls, req, list, raced, lock, list_sema, drv, leaked, kbd, tmp>>

\* ... it becomes the first, or the next of the last, which list_remove may have cleared; ...
Append2(p) ==
  LET d == dev(p) IN
  /\ Go(p, "link", "last") /\ Sound(d)
  /\ \/ /\ list[d].first = NULL
        /\ list' = [list EXCEPT ![d].first = arg[p].node]
        /\ UNCHANGED <<node, raced>>
     \/ /\ list[d].first # NULL /\ list[d].last # NULL
        /\ node' = [node EXCEPT ![list[d].last].next = arg[p].node]
        /\ UNCHANGED <<list, raced>>
     \/ /\ list[d].first # NULL /\ list[d].last = NULL
        /\ raced' = [raced EXCEPT ![d] = TRUE]
        /\ UNCHANGED <<list, node>>
  /\ UNCHANGED <<open_files, calls, arg, req, lock, list_sema, drv, leaked, kbd, tmp>>

\* ... list->last, semaphore_up(&list_sema) and of the lock.  The variant forgets list_sema.
Append3_NoUp(p) ==
  LET d == dev(p) IN
  /\ Go(p, "last", "wait") /\ Sound(d)
  /\ list' = [list EXCEPT ![d].last = arg[p].node]
  /\ lock' = [lock EXCEPT ![d] = @ + 1]
  /\ UNCHANGED <<open_files, calls, arg, req, node, raced, list_sema, drv, leaked, kbd, tmp>>
Append3(p) ==
  LET d == dev(p) IN
  /\ Go(p, "last", "wait") /\ Sound(d)
  /\ list' = [list EXCEPT ![d].last = arg[p].node]
  /\ list_sema' = [list_sema EXCEPT ![d] = @ + 1]
  /\ lock' = [lock EXCEPT ![d] = @ + 1]
  /\ UNCHANGED <<open_files, calls, arg, req, node, raced, drv, leaked, kbd, tmp>>

----------------------------------------------------------------------------
(* tar_driver_loop, kbd_thread_loop                                        *)

DrvGo(d, from, to) == Sound(d) /\ drv[d].pc = from /\ drv' = [drv EXCEPT ![d].pc = to]

Sema(d) ==
  /\ DrvGo(d, "sema", "take") /\ list_sema[d] > 0
  /\ list_sema' = [list_sema EXCEPT ![d] = @ - 1]
  /\ UNCHANGED <<open_files, pc, calls, arg, req, lists, lock, leaked, kbd, tmp>>

\* tar_process_request(req_list.first->val): tar_read_blocking clips the read to the file and
\* moves its offset (what it delivers is in module Storage), and the request is finalized before
\* its node is removed.
TarProcess ==
  LET p == node[list["tar"].first].val
      f == file(p)
      res == IF f.offset >= TarSize THEN 0 ELSE Min({arg[p].size, TarSize - f.offset}) IN
  /\ DrvGo("tar", "take", "remove")
  /\ SetFile(p, arg[p].fd, [f EXCEPT !.offset = @ + res])
  /\ Finalize(p, res, << >>)
  /\ UNCHANGED <<pc, calls, arg, lists, lock, list_sema, leaked, kbd, tmp>>

\* req = req_list.first->val
KbdTake ==
  /\ Sound("kbd") /\ drv["kbd"].pc = "take"
  /\ drv' = [drv EXCEPT !["kbd"].pc = "data", !["kbd"].req = node[list["kbd"].first].val]
  /\ UNCHANGED <<open_files, pc, calls, arg, req, lists, lock, list_sema, leaked, kbd, tmp>>

\* while(!ringbuff_length(&c_buff)) semaphore_down(&data_available)
KbdData ==
  /\ DrvGo("kbd", "data", IF ring = << >> THEN "down" ELSE "lock")
  /\ UNCHANGED <<open_files, pc, calls, arg, req, lists, lock, list_sema, leaked, kbd, tmp>>
KbdDown ==
  /\ DrvGo("kbd", "down", "data") /\ data_available > 0
  /\ data_available' = data_available - 1
  /\ UNCHANGED <<open_files, pc, calls, arg, req, lists, lock, list_sema, leaked,
                 ring, keys, list_read_pending, tmp>>
KbdLock ==
  /\ DrvGo("kbd", "lock", "byte") /\ lock["kbd"] > 0
  /\ lock' = [lock EXCEPT !["kbd"] = @ - 1]
  /\ UNCHANGED <<open_files, pc, calls, arg, req, lists, list_sema, leaked, kbd, tmp>>

\* ringbuff_read, a character at a time: keys may be struck in between
KbdByte ==
  LET p == drv["kbd"].req
      more == Len(req[p].got) < arg[p].size /\ ring # << >> IN
  /\ DrvGo("kbd", "byte", IF more THEN "byte" ELSE "count")
  /\ ring' = IF more THEN Tail(ring) ELSE ring
  /\ req' = IF more THEN [req EXCEPT ![p].got = Append(@, Head(ring))] ELSE req
  /\ UNCHANGED <<open_files, pc, calls, arg, lists, lock, list_sema, leaked,
                 keys, list_read_pending, data_available, tmp>>

\* The semaphore is raised again for what is left, the request no longer counted and the lock
\* released.
KbdCount ==
  LET p == drv["kbd"].req IN
  /\ DrvGo("kbd", "count", "remove")
  /\ data_available' = IF ring # << >> THEN 1 ELSE data_available
  /\ list_read_pending' = list_read_pending - arg[p].size
  /\ lock' = [lock EXCEPT !["kbd"] = @ + 1]
  /\ UNCHANGED <<open_files, pc, calls, arg, req, lists, list_sema, leaked, ring, keys, tmp>>

\* list_remove of req_list.first, without the lock: the neighbour's prev or list->last, ...
Remove1(d) ==
  LET n == list[d].first IN
  /\ Sound(d) /\ drv[d].pc = "remove"
  /\ drv' = [drv EXCEPT ![d].pc = "unlink", ![d].node = n]
  /\ IF node[n].next # NULL
     THEN node' = [node EXCEPT ![node[n].next].prev = node[n].prev] /\ UNCHANGED <<list, raced>>
     ELSE /\ list' = [list EXCEPT ![d].last = node[n].prev]
          /\ raced' = [raced EXCEPT ![d] = \E p \in Procs : pc[p] = "link" /\ dev(p) = d]
          /\ UNCHANGED node
  /\ UNCHANGED <<open_files, pc, calls, arg, req, lock, list_sema, leaked, kbd, tmp>>

\* ... then the neighbour's next or list->first, and kfree
Remove2(d) ==
  LET n == drv[d].node
      e == IF node[n].prev = NULL THEN node
           ELSE [node EXCEPT ![node[n].prev].next = node[n].next] IN
  /\ DrvGo(d, "unlink", IF d = "tar" THEN "sema" ELSE "finalize")
  /\ node' = [m \in DOMAIN node \ {n} |-> e[m]]
  /\ list' = IF node[n].prev = NULL THEN [list EXCEPT ![d].first = node[n].next] ELSE list
  /\ UNCHANGED <<open_files, pc, calls, arg, req, raced, lock, list_sema, leaked, kbd, tmp>>

\* vfs_async_finalize(req, req->size), however many characters were read
KbdFinalize ==
  LET p == drv["kbd"].req IN
  /\ DrvGo("kbd", "finalize", "sema")
  /\ Finalize(p, arg[p].size, req[p].got)
  /\ UNCHANGED <<open_files, pc, calls, arg, lists, lock, list_sema, leaked, kbd, tmp>>

\* kbd_vfs_submit_char, in the keyboard's interrupt: a full buffer drops the key.  The variant
\* does not wake the thread.
Key_Silent ==
  /\ "kbd" \in paths /\ keys < MaxKeys
  /\ keys' = keys + 1
  /\ ring' = IF Len(ring) < BUFF_SIZE THEN Append(ring, keys + 1) ELSE ring
  /\ UNCHANGED <<open_files, pc, calls, arg, req, drivers, list_read_pending, data_available, tmp>>
Key ==
  /\ "kbd" \in paths /\ keys < MaxKeys
  /\ keys' = keys + 1
  /\ ring' = IF Len(ring) < BUFF_SIZE THEN Append(ring, keys + 1) ELSE ring
  /\ data_available' = 1
  /\ UNCHANGED <<open_files, pc, calls, arg, req, drivers, list_read_pending, tmp>>

----------------------------------------------------------------------------
(* i2c_submit_request, i2c_fio_ctl                                         *)

InBus == {"addr", "reg", "data", "start", "result"}
\* Bound: what two processes that drive the bus at once do is not followed.
BusGo(p, from, to) == ~bus.raced /\ Go(p, from, to) /\ UNCHANGED <<calls, arg, drivers, kbd, tmp>>
BusStore(p, from, to, b) == BusGo(p, from, to) /\ bus' = b /\ UNCHANGED <<open_files, req>>

\* The driver's data of a descriptor is allocated when it is first used, and not cleared.
i2c_drv_dat(f) == IF f.driver_data = NULL THEN [addr |-> Garbage, reg |-> Garbage] ELSE f.driver_data

\* F_DRIVER_I2C_ADDRESS, F_DRIVER_I2C_REGISTER
i2c_fio_ctl(p, fd, type, number) ==
  LET f == open_files[p][fd] IN
  /\ pc[p] = "user" /\ calls < MaxCalls /\ f.inode = [dev |-> "i2c", id |-> 0]
  /\ calls' = calls + 1
  /\ SetFile(p, fd, [f EXCEPT !.driver_data = [i2c_drv_dat(f) EXCEPT ![type] = number]])
  /\ UNCHANGED <<pc, arg, req, drivers, kbd, tmp, bus>>

\* while (*STATUS_REG & BUSY_BIT); the variant does not look.
I2cPoll_Blind(p) ==
  /\ BusGo(p, "i2c", "addr") /\ UNCHANGED req
  /\ SetFile(p, arg[p].fd, [file(p) EXCEPT !.driver_data = i2c_drv_dat(file(p))])
  /\ bus' = [bus EXCEPT !.raced = \E q \in Procs : pc[q] \in InBus]
I2cPoll(p) ==
  /\ BusGo(p, "i2c", "addr") /\ ~bus.busy /\ UNCHANGED req
  /\ SetFile(p, arg[p].fd, [file(p) EXCEPT !.driver_data = i2c_drv_dat(file(p))])
  /\ bus' = [bus EXCEPT !.raced = \E q \in Procs : pc[q] \in InBus]

\* ADDR_REG, with the direction as its lowest bit, REG_REG, DATA_REG
I2cAddr(p) == BusStore(p, "addr", "reg", [bus EXCEPT !.addr = <<file(p).driver_data.addr, arg[p].type>>])
I2cReg(p) == BusStore(p, "reg", IF arg[p].type = "write" THEN "data" ELSE "start",
                      [bus EXCEPT !.reg = file(p).driver_data.reg])
I2cData(p) == BusStore(p, "data", "start", [bus EXCEPT !.data = p])

\* A write of STATUS_REG starts the transfer.  i2c_write returns at once, i2c_read waits.
I2cStart(p) ==
  LET d == file(p).driver_data IN
  /\ BusGo(p, "start", IF arg[p].type = "write" THEN "wait" ELSE "result")
  /\ bus' = [bus EXCEPT !.busy = TRUE, !.want = <<<<d.addr, arg[p].type>>, d.reg, p>>]
  /\ IF arg[p].type = "write" THEN Finalize(p, 1, << >>) ELSE UNCHANGED req
  /\ UNCHANGED open_files
I2cResult(p) ==
  /\ BusGo(p, "result", "wait") /\ ~bus.busy
  /\ Finalize(p, IF bus.data = NULL THEN 0 ELSE 1, IF bus.data = NULL THEN << >> ELSE <<bus.data>>)
  /\ UNCHANGED <<open_files, bus>>
I2cStep(p) == I2cPoll(p) \/ I2cAddr(p) \/ I2cReg(p) \/ I2cData(p) \/ I2cStart(p) \/ I2cResult(p)

\* The bus (external): a transfer ends, by what the registers say; a read brings the contents
\* of a register, named by its place, or an error (NULL).
BusDone ==
  /\ bus.busy /\ ~bus.raced
  /\ bus' \in IF bus.addr[2] = "write" THEN {[bus EXCEPT !.busy = FALSE, !.want = NULL]}
              ELSE {[bus EXCEPT !.busy = FALSE, !.want = NULL, !.data = d] : d \in {<<bus.addr[1], bus.reg>>, NULL}}
  /\ UNCHANGED <<open_files, pc, calls, arg, req, drivers, kbd, tmp>>

VfsStep(p) ==
  \/ TmpFind(p) \/ TmpNewFid(p) \/ TmpNewFile(p)
  \/ Wait(p) \/ TmpLock(p) \/ TmpServe(p) \/ TmpCopy(p)
  \/ Submit(p) \/ Append1(p) \/ Append2(p) \/ Append3(p)
ProcStep(p) == I2cStep(p) \/ (VfsStep(p) /\ UNCHANGED bus)
TarStep == Sema("tar") \/ TarProcess \/ Remove1("tar") \/ Remove2("tar")
KbdStep ==
  \/ Sema("kbd") \/ KbdTake \/ KbdData \/ KbdDown \/ KbdLock \/ KbdByte \/ KbdCount
  \/ Remove1("kbd") \/ Remove2("kbd") \/ KbdFinalize

Call ==
  \/ \E p \in Procs, path \in paths : sys_open(p, path)
  \/ \E p \in Procs, fd \in Fds :
       \/ sys_close(p, fd)
       \/ \E b \in BOOLEAN : sys_fcntl(p, fd, b)
       \/ \E type \in {"read", "write"}, size \in Sizes : sys_rw(p, fd, type, size)
Step ==
  \/ \E p \in Procs : ProcStep(p)
  \/ \E p \in Procs, fd \in Fds, type \in {"addr", "reg"}, n \in Numbers : i2c_fio_ctl(p, fd, type, n)
  \/ BusDone
  \/ (Call \/ TarStep \/ KbdStep \/ Key) /\ UNCHANGED bus

Next == Step /\ UNCHANGED paths

\* A thread that can go on is scheduled; nothing makes a process call or a key be struck.
Spec ==
  /\ Init /\ [][Next]_vars
  /\ WF_state(TarStep /\ UNCHANGED bus) /\ WF_state(KbdStep /\ UNCHANGED bus) /\ \A p \in Procs : WF_state(ProcStep(p))

----------------------------------------------------------------------------
(* Properties                                                              *)

\* The nodes met on the way from list->first.
Chain(d) ==
  LET at[k \in 0 .. Cardinality(Nodes)] ==
        IF k = 0 THEN list[d].first
        ELSE IF at[k - 1] = NULL THEN NULL ELSE node[at[k - 1]].next
  IN {at[k] : k \in 0 .. Cardinality(Nodes)} \ {NULL}

Waiting(p, d) == pc[p] = "wait" /\ dev(p) = d /\ req[p].state = "pending"
\* The node whose request tar.c has finalized already.
Done(d) == IF d = "tar" /\ drv[d].pc \in {"remove", "unlink"} THEN {list[d].first} ELSE {}
Busy(d) == drv[d].pc \notin {"sema", "finalize"}

\* Although drivers take nodes out without the lock under which they are put in, each request
\* that is waited for stays on its driver's list exactly once, or is the one the driver has
\* taken off; and list_sema counts the nodes the driver has not come to.  (list_append around
\* the removal of a list's only node is the exception, raced.)
RequestsQueued == \A d \in Drivers : raced[d] \/
  /\ \A p \in Procs : Waiting(p, d) =>
       \/ Cardinality({n \in Chain(d) \ Done(d) : node[n].val = p}) = 1
       \/ drv[d].pc = "finalize" /\ drv[d].req = p
  /\ list_sema[d] = Cardinality(Chain(d)) - (IF Busy(d) THEN 1 ELSE 0)
                    - Cardinality({p \in Procs : pc[p] = "last" /\ dev(p) = d})

\* A driver serves only a request that its process is still waiting for: vfs_read_blocking
\* has not freed it, and it has not been finalized before.
ServedOnce == \A d \in Drivers :
  /\ drv[d].pc = "take" /\ ~raced[d] =>
       list[d].first # NULL /\ req[node[list[d].first].val].state = "pending"
  /\ drv[d].pc \in {"data", "down", "lock", "byte", "count", "finalize"} /\ ~raced[d] =>
       Waiting(drv[d].req, d)

\* list_read_pending is the sum of the sizes of the reads that are accepted and not served.
PendingCounts ==
  LET accepted == {p \in Procs : dev(p) = "kbd" /\
        (pc[p] \in {"append", "link", "last"} \/ Waiting(p, "kbd"))
        /\ ~(drv["kbd"].pc \in {"remove", "unlink", "finalize"} /\ drv["kbd"].req = p)}
  IN raced["kbd"] \/
     list_read_pending = FoldSet(LAMBDA p, n : n + arg[p].size, 0, accepted)

\* That counter is exact at every step, and so a read of the keyboard that must not block
\* never makes the thread wait for a key: what kbd_submit_req found in the buffer is still
\* there when its turn comes.
NonblockNeverWaits ==
  /\ PendingCounts
  /\ drv["kbd"].pc \in {"data", "down"} /\ ring = << >> /\ ~raced["kbd"] =>
       ~file(drv["kbd"].req).nonblock

\* Unless two are created at once, temporary files have one name and one fid each, the fid
\* indexes alloc_fid, and the buffer under the fid is as long as the inode says.
TmpFilesDistinct == tmpRaced \/
  /\ \A i, j \in DOMAIN files : i # j => files[i].name # files[j].name /\ files[i].fid # files[j].fid
  /\ \A i \in DOMAIN files :
       files[i].fid < MAX_FILES /\ Len(alloc_fid[files[i].fid]) = files[i].size

\* Unless two were created at once, temporary files are kept apart, their lock is a mutex, and
\* no read sees the buffer another process is replacing in tmp_write.
TmpFilesRight == tmpRaced \/
  /\ TmpFilesDistinct /\ tlock \in 0 .. 1
  /\ \A p \in Procs : \A k \in DOMAIN req[p].got : req[p].got[k] # Garbage

\* Unless two processes drive the bus at once, the registers stay as the process that started
\* a transfer set them until it has ended, although i2c_write does not wait for that; and a read
\* returns the register its own descriptor names.
TransferIntact == bus.raced \/
  /\ bus.busy => /\ bus.addr = bus.want[1] /\ bus.reg = bus.want[2]
                 /\ bus.addr[2] = "write" => bus.data = bus.want[3]
  /\ \A p \in Procs : pc[p] = "wait" /\ dev(p) = "i2c" /\ req[p].got # << >> =>
       req[p].got[1] = <<file(p).driver_data.addr, file(p).driver_data.reg>>

\* A read of a file in the archive returns, unless some process has tried to write one or the
\* list was raced.
TarServed == \A p \in Procs :
  (pc[p] = "submit" /\ dev(p) = "tar") ~> (pc[p] = "user" \/ leaked \/ raced["tar"])

\* While characters are there, the keyboard's readers get them; one that must not block always
\* returns.
KbdServed == \A p \in Procs :
  (pc[p] \in {"submit", "wait"} /\ dev(p) = "kbd" /\ (file(p).nonblock \/ ring # << >>))
    ~> (pc[p] = "user" \/ raced["kbd"] \/ (~file(p).nonblock /\ ring = << >>))

\* Whoever waits for the threads of tar.c and kbd.c is served.
Served == TarServed /\ KbdServed
=============================================================================
