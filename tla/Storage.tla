------------------------------ MODULE Storage ------------------------------
(***************************************************************************)
(* How a path becomes bytes: the mounts of the virtual file system         *)
(* (kernel/fs/vfs.c, rootfs.c), the directory tree of the TAR archive      *)
(* (tar.c, dirtree.c) and the SD card that holds it (kernel/driver/sd.c,   *)
(* spi.c), from sd_init in _kstart to the reads of a running system.       *)
(*                                                                         *)
(* A path is the sequence of its segments; the last is "" when the path    *)
(* ends in a slash ("/sd/bin/" is <<"sd", "bin", "">>, "/" is <<"">>).     *)
(* The byte at position k of sector s is <<s, k>>.  The card answers as it *)
(* likes: a command is one step, with the poll at which the answer comes.  *)
(***************************************************************************)
EXTENDS Integers, Sequences, SequencesExt, FiniteSets

CONSTANTS
  SECTOR_SIZE, SD_RESP_TIMEOUT, SD_INIT_TIMEOUT,
  Disks,         \* the archives a card may hold: functions from sectors to what is there
  BootEntries,   \* what rootfs_create and init_stage1 enter and mount, in order
  NamePrefixes,  \* the pairs of names the first of which begins the second
  Paths,         \* paths that are looked up
  NULL

VARIABLES
  disk,
  sd,          \* the step of sd_init, its timeout, and whether the card has left the idle state
  io,          \* the sectors that are still to be read, what has been delivered, where sd_read_block is
  in_list, mount_list,
  boot,        \* "sd", "mounts", "index" or "up"; "panic" or "assert" ends everything
  scan,        \* tar_make_dir_tree: sector and empty_sectors
  tree,        \* the directories and files of tar_dir_tree
  rd           \* the read under way: inode, offset, length

storage == <<disk, sd, io, in_list, mount_list, boot, scan, tree, rd>>

Panic == boot' = "panic" /\ UNCHANGED <<disk, sd, io, in_list, mount_list, scan, tree, rd>>

----------------------------------------------------------------------------
(* sd_command, sd_init, sd_hc_init                                         *)

Responses == {"null", "idle", "illegal", "other"}

\* The answer is the byte of poll n; the last poll panics whatever it brings.
InTime(n) == n < SD_RESP_TIMEOUT

SdStep(pc, timeout, ready) ==
  /\ sd' = [pc |-> pc, timeout |-> timeout, ready |-> ready]
  /\ boot' = IF pc = "done" THEN "mounts" ELSE boot
  /\ UNCHANGED <<disk, io, in_list, mount_list, scan, tree, rd>>

\* The loop around ACMD41; the variant never counts.
Acmd41Again_Forever == SdStep("cmd55", sd.timeout, FALSE)
Acmd41Again == IF sd.timeout > 0 THEN SdStep("cmd55", sd.timeout - 1, FALSE) ELSE Panic

\* CMD0 must find the card idle; CMD8 tells a high capacity card, with the voltage and check
\* pattern sent; CMD55 and ACMD41 are repeated until the card leaves the idle state; CMD58
\* reads voltage and capacity, CMD16 sets the length of a block.  good: what the rest of the
\* answer says is as expected.
SdInit(n, r, good) ==
  /\ boot = "sd"
  /\ CASE ~InTime(n) -> Panic
       [] sd.pc = "cmd0" /\ r = "idle" -> SdStep("cmd8", 0, FALSE)
       [] sd.pc = "cmd8" /\ r = "idle" /\ good -> SdStep("cmd55", SD_INIT_TIMEOUT - 1, FALSE)
       [] sd.pc = "cmd55" /\ r = "idle" -> SdStep("acmd41", sd.timeout, FALSE)
       [] sd.pc = "acmd41" /\ r = "null" -> SdStep("cmd58", 0, TRUE)
       [] sd.pc = "acmd41" /\ r = "idle" -> Acmd41Again
       [] sd.pc = "cmd58" /\ r = "null" /\ good -> SdStep("cmd16", 0, sd.ready)
       [] sd.pc = "cmd16" /\ r = "null" -> SdStep("done", 0, sd.ready)
       [] OTHER -> Panic

----------------------------------------------------------------------------
(* sd_read_block, for the requests of sd_read_adapter                      *)

IoStep(pc) == io' = [io EXCEPT !.pc = pc] /\ UNCHANGED <<disk, sd, in_list, mount_list, boot, scan, tree, rd>>

\* CMD17, then the poll for the token, which has no end of its own: the first byte is not
\* looked at, later ones are 0xFF or the token.
SdCmd17(n, r) ==
  /\ boot \in {"index", "up"} /\ io.pc = "cmd"
  /\ IF InTime(n) /\ r = "null" THEN IoStep("first") ELSE Panic
SdToken(r) ==
  /\ boot \in {"index", "up"} /\ io.pc \in {"first", "poll"}
  /\ CASE r = "token" -> IoStep("data")
       [] r = "other" /\ io.pc = "poll" -> Panic
       [] OTHER -> IoStep("poll")

\* All bytes of the sector are read, those from offset to offset + length - 1 are stored.  The
\* variant stores one too many.
Stored_OneMore(c) == {k \in 0 .. SECTOR_SIZE - 1 : k >= c.offset /\ k <= c.offset + c.length}
Stored(c) == {k \in 0 .. SECTOR_SIZE - 1 : k >= c.offset /\ k < c.offset + c.length}
SdData ==
  LET c == Head(io.calls)
      n == Cardinality(Stored(c)) IN
  /\ boot \in {"index", "up"} /\ io.pc = "data"
  /\ io' = [io EXCEPT !.calls = Tail(@), !.pc = IF Len(io.calls) = 1 THEN "done" ELSE "cmd",
                      !.data = @ \o [i \in 1 .. n |-> <<c.sector, c.offset + i - 1>>]]
  /\ UNCHANGED <<disk, sd, in_list, mount_list, boot, scan, tree, rd>>

Submit(calls) == io' = [calls |-> calls, data |-> << >>, pc |-> "cmd"]

----------------------------------------------------------------------------
(* tar_read_blocking: the reads of sectors it makes                        *)

\* What is left after the first sector, in whole sectors while i < new_len / 512 (new_len
\* gets smaller each time), and then in one piece.
Loops(left) ==
  LET count[i \in 0 .. left] ==
        IF i < (left - i * SECTOR_SIZE) \div SECTOR_SIZE THEN count[i + 1] ELSE i
  IN count[0]
Clipped(inode, offset, len) ==
  IF offset >= inode.size THEN 0
  ELSE IF offset + len > inode.size THEN inode.size - offset ELSE len
FirstSector(inode, offset) == inode.fid + offset \div SECTOR_SIZE + 1
ReadCalls(inode, offset, len) ==
  LET pos == offset % SECTOR_SIZE
      sector == FirstSector(inode, offset)
      n == Clipped(inode, offset, len)
      readlen == IF n < SECTOR_SIZE - pos THEN n ELSE SECTOR_SIZE - pos
      loops == Loops(n - readlen)
      rest == n - readlen - loops * SECTOR_SIZE
      call(s, l, o) == [sector |-> s, length |-> l, offset |-> o]
  IN <<call(sector, readlen, pos)>>
     \o [i \in 1 .. loops |-> call(sector + i, SECTOR_SIZE, 0)]
     \o (IF rest > 0 THEN <<call(sector + loops + 1, rest, 0)>> ELSE << >>)

----------------------------------------------------------------------------
(* vfs_mount, rootfs_create_entry                                          *)

Inode(dev, fid, size, type) == [dev |-> dev, fid |-> fid, size |-> size, type |-> type]

\* vfs_abs_path_alloc: the path of the vnode's mount point, which ends in a slash, and the path
\* inside it
AbsPath(mount, path) == Front(mount) \o path

vfs_mount(path, dev) == mount_list' = Append(mount_list, [path |-> path, dev |-> dev])
rootfs_create_entry(path, type) == in_list' = Append(in_list, [path |-> path, fid |-> Len(in_list), type |-> type])

\* init_stage1 mounts rootfs on the root inode, "/".
BootRoot ==
  /\ boot = "mounts" /\ mount_list = << >>
  /\ vfs_mount(<<"">>, "rootfs")
  /\ UNCHANGED <<disk, sd, io, in_list, boot, scan, tree, rd>>

\* The next entry of rootfs, and the device or file system mounted there if there is one.
BootEntry ==
  LET e == BootEntries[Len(in_list) + 1] IN
  /\ boot = "mounts" /\ mount_list # << >> /\ Len(in_list) < Len(BootEntries)
  /\ rootfs_create_entry(e.path, e.type)
  /\ IF e.mount = NULL THEN UNCHANGED mount_list ELSE vfs_mount(AbsPath(mount_list[1].path, e.path), e.mount)
  /\ UNCHANGED <<disk, sd, io, boot, scan, tree, rd>>

\* tar_init begins: dir_tree_init, and the first header
BootTar ==
  /\ boot = "mounts" /\ Len(in_list) = Len(BootEntries)
  /\ boot' = "index"
  /\ tree' = [dirs |-> << >>, files |-> << >>]
  /\ scan' = [sector |-> 0, empty |-> 0]
  /\ Submit(<<[sector |-> 0, length |-> SECTOR_SIZE, offset |-> 0]>>)
  /\ UNCHANGED <<disk, sd, in_list, mount_list, rd>>

----------------------------------------------------------------------------
(* vfs_vnode_for, vfs_find_inode, rootfs_vfs_find_inode                    *)

BeginsWith(a, b) == a = b \/ a = "" \/ <<a, b>> \in NamePrefixes

\* strncmp of the mount's path, and of its last segment up to the slash that ends it.  The
\* variant leaves the second out.
Covers_Prefix(mount, path) ==
  LET n == Len(mount) IN
  n <= Len(path) /\ SubSeq(mount, 1, n - 1) = SubSeq(path, 1, n - 1) /\ BeginsWith(mount[n], path[n])
Covers(mount, path) ==
  LET n == Len(mount) IN
  /\ n <= Len(path) /\ SubSeq(mount, 1, n - 1) = SubSeq(path, 1, n - 1) /\ BeginsWith(mount[n], path[n])
  /\ mount[n] = "" \/ mount[n] = path[n]

\* The mount with most slashes, the first of those.
vfs_vnode_for(path) ==
  FoldLeft(LAMBDA best, m : IF Len(m.path) > Len(best.path) /\ Covers(m.path, path) THEN m ELSE best,
           [path |-> << >>, dev |-> NULL], mount_list)
LocalPath(mount, path) ==
  IF Last(mount) = "" THEN SubSeq(path, Len(mount), Len(path)) ELSE << >>

----------------------------------------------------------------------------
(* tar_make_dir_tree, dir_tree_add_path, dir_tree_get_file                 *)

\* int has 16 bits
convert_octal(digits) == FoldLeft(LAMBDA res, d : (res * 8 + d) % 2^16, 0, digits)

\* The directories a path leads through, itself included when it is one.
DirsOf(path) == {Append(SubSeq(path, 1, k), "") : k \in 1 .. Len(path) - 1}

\* The directories on the way that are missing are made; their inode is not initialised, and
\* the byte behind their name is what the allocator left there, 0 or not.
dir_tree_add_path(inode, path, zero) ==
  LET old == DOMAIN tree.dirs
      dir == Last(path) = ""
      node(d) == IF d \in old THEN tree.dirs[d] ELSE [inode |-> "uninitialised", terminated |-> zero]
  IN [dirs |-> [d \in old \cup DirsOf(path) |->
                  IF dir /\ d = path THEN [node(d) EXCEPT !.inode = inode] ELSE node(d)],
      files |-> IF dir THEN tree.files ELSE Append(tree.files, [path |-> path, inode |-> inode])]

dir_tree_get_file(path) ==
  IF ~ DirsOf(path) \subseteq DOMAIN tree.dirs THEN NULL
  ELSE IF path \in DOMAIN tree.dirs /\ tree.dirs[path].terminated THEN tree.dirs[path].inode
  ELSE LET f == SelectInSeq(tree.files, LAMBDA g : g.path = path)
       IN IF f = 0 THEN NULL ELSE tree.files[f].inode

NextHeader(sector, empty) ==
  /\ scan' = [sector |-> sector, empty |-> empty]
  /\ IF empty < 2
     THEN Submit(<<[sector |-> sector, length |-> SECTOR_SIZE, offset |-> 0]>>) /\ boot' = boot
     ELSE io' = [io EXCEPT !.pc = "idle"] /\ boot' = "up"

\* The sectors of a file and its header.
SectorsSkip(size) == (size + SECTOR_SIZE - 1) \div SECTOR_SIZE + 1
Index(zero) ==
  LET h == disk[io.data[1][1]]
      size == convert_octal(h.size)
      inode == Inode("tar", scan.sector, size, h.type) IN
  /\ boot = "index" /\ io.pc = "done"
  /\ CASE h.kind = "zero" -> NextHeader(scan.sector + 1, scan.empty + 1) /\ UNCHANGED tree
       [] h.kind = "header" -> /\ tree' = dir_tree_add_path(inode, h.name, zero)
                               /\ NextHeader(scan.sector + SectorsSkip(size), scan.empty)
       [] OTHER -> boot' = "panic" /\ UNCHANGED <<io, scan, tree>>
  /\ UNCHANGED <<disk, sd, in_list, mount_list, rd>>

rootfs_vfs_find_inode(path) ==
  LET e == SelectInSeq(in_list, LAMBDA f : f.path = path)
  IN IF e = 0 THEN NULL ELSE Inode("rootfs", in_list[e].fid, 0, in_list[e].type)

vfs_find_inode(path) ==
  LET m == vfs_vnode_for(path)
      local == LocalPath(m.path, path) IN
  CASE m.dev = NULL -> NULL
    [] m.dev = "rootfs" -> rootfs_vfs_find_inode(local)
    [] m.dev = "tar" -> dir_tree_get_file(local)
    [] OTHER -> Inode(m.dev, 0, 0, "device")

\* A read of a file begins, for the loader or a process; behind the end it reads nothing.
StartRead(by, inode, offset, len) ==
  /\ boot = "up" /\ io.pc = "idle"
  /\ rd' = [by |-> by, inode |-> inode, offset |-> offset, len |-> Clipped(inode, offset, len)]
  /\ IF Clipped(inode, offset, len) = 0 THEN io' = [io EXCEPT !.pc = "done"]
     ELSE Submit(ReadCalls(inode, offset, len))
  /\ UNCHANGED <<disk, sd, in_list, mount_list, boot, scan, tree>>
EndRead(by) ==
  /\ io.pc = "done" /\ rd # NULL /\ rd.by = by
  /\ io' = [calls |-> << >>, data |-> << >>, pc |-> "idle"] /\ rd' = NULL
  /\ UNCHANGED <<disk, sd, in_list, mount_list, scan, tree>>

----------------------------------------------------------------------------
StorageInit ==
  /\ disk \in Disks
  /\ sd = [pc |-> "cmd0", timeout |-> 0, ready |-> FALSE]
  /\ io = [calls |-> << >>, data |-> << >>, pc |-> "idle"]
  /\ in_list = << >> /\ mount_list = << >> /\ boot = "sd"
  /\ scan = [sector |-> 0, empty |-> 0]
  /\ tree = [dirs |-> << >>, files |-> << >>]
  /\ rd = NULL

Card == \E n \in 1 .. SD_RESP_TIMEOUT, r \in Responses, good \in BOOLEAN : SdInit(n, r, good)
Cmd17 == \E n \in 1 .. SD_RESP_TIMEOUT, r \in Responses : SdCmd17(n, r)
Token == \E r \in {"token", "ones", "other"} : SdToken(r)
StorageNext == Card \/ Cmd17 \/ Token \/ SdData \/ BootRoot \/ BootEntry \/ BootTar \/ \E zero \in BOOLEAN : Index(zero)

----------------------------------------------------------------------------
(* Properties                                                              *)

\* Nothing is read from a card that has not left the idle state: sd_hc_init never gets past
\* the ACMD41 loop without STATUS_NULL, however many times the card answers "idle".
CardReady == boot \notin {"sd", "panic"} => sd.ready

\* The sector of the member of the archive with this name, by the headers on the card.
Member(name) ==
  LET at == {s \in DOMAIN disk : disk[s].kind = "header" /\ disk[s].name = name}
  IN IF at = {} THEN NULL ELSE CHOOSE s \in at : \A t \in at : s <= t

\* The mount points on the way to a path: those it is, or lies below.
Above(m, path) ==
  LET stem == IF Last(m) = "" THEN Front(m) ELSE m
  IN Len(path) >= Len(m) /\ SubSeq(path, 1, Len(stem)) = stem

Resolved(path) ==
  LET deep == {m \in Range(mount_list) : Above(m.path, path)}
      m == CHOOSE x \in deep : \A y \in deep : Len(y.path) <= Len(x.path)
      s == Member(LocalPath(m.path, path)) IN
  /\ vfs_vnode_for(path) = m
  /\ m.dev = "tar" /\ Last(path) # "" =>
       vfs_find_inode(path) = IF s = NULL THEN NULL
                              ELSE Inode("tar", s, convert_octal(disk[s].size), disk[s].type)

\* When booting ends a path resolves in the deepest mount above it, whatever names are
\* prefixes of others (/dev/tty and /dev/ttyS0), and a file below /sd/ to the member of the
\* archive with exactly that name, at its header's sector and with its size: the skipping of
\* tar_make_dir_tree, dir_tree_add_path, dir_tree_get_file and vfs_vnode_for together.
ResolvesRight == [][boot # "up" /\ boot' = "up" => (\A path \in Paths : Resolved(path))']_storage

\* Nothing is read from a card that is not ready, and a read delivers the bytes of the file
\* from its offset on, in order and not one more, in whatever sectors they lie, when at most
\* two sectors follow the first.  (For more,
\* tar_read_blocking's loop ends early, and its last call cannot hold the rest.)
ReadRight ==
  /\ CardReady
  /\ rd # NULL /\ io.pc = "done" /\ rd.len - (SECTOR_SIZE - (rd.offset % SECTOR_SIZE)) <= 2 * SECTOR_SIZE
       => io.data = [i \in 1 .. rd.len |-> LET pos == rd.offset + i - 1
                                           IN <<rd.inode.fid + 1 + pos \div SECTOR_SIZE, pos % SECTOR_SIZE>>]

\* Booting ends, in a running system or a panic, if the card sends each block's token some day.
Boots == <>(boot \in {"up", "panic", "assert"})
=============================================================================
