-------------------------------- MODULE Dirs --------------------------------
(***************************************************************************)
(* Directories, paths and the table of open files (fs/dir.c, fs/fs.c,      *)
(* fs/inode.c, fs/file.c), with the calls that make files for devices and  *)
(* package servers.                                                        *)
(*                                                                         *)
(* A path is a sequence of names without the root.  The name of a directory *)
(* keeps its slash in the code, so that DirName and FileName are disjoint. *)
(* What files hold is the subject of module Files.  Zone 0 is no zone; the  *)
(* sector that the code reads for it names no file and ends every search.  *)
(* Sizes count directory entries.  A directory never gets an indirect      *)
(* table: the test for it (dir.c:273) compares an address with 12.         *)
(*                                                                         *)
(* A call that makes a file runs in four steps, between which other        *)
(* threads run: it looks for the name, it reserves what it needs and reads *)
(* the directory, it writes the directory, it writes the inodes.  The other *)
(* calls are one step.  Files are made and removed by kernel threads: a    *)
(* user process has the inode of a file it makes in its own memory, and    *)
(* delete_dir_entry makes it fault.                                        *)
(*                                                                         *)
(* Avoid names calls that the code gets wrong, for a run to leave out:     *)
(* "root_file", unlinking in the root, which closes the inode of the root; *)
(* "shared_inode", a path through a directory that a call or a stream has  *)
(* open, which the call would close for the other, and sys_getcwd outside  *)
(* the root, which closes the root; "half_made", a name whose inode is not *)
(* on the disk, yet or after a restart; "one_dir", a file in a directory of *)
(* the root for the calls that would look for it in the root; "unset_dir", *)
(* unlinking what is not there, which closes a directory that was not set; *)
(* "prefix", a package server whose name begins another name in the        *)
(* directory, which then gets no entry; "stray_flush", a release of an     *)
(* inode that writes its bitmap over another sector in use.                *)
(***************************************************************************)
EXTENDS Integers, FiniteSetsExt, SequencesExt

CONSTANTS Thread, KernelThread,
          DirName, FileName,
          Path,             \* the paths that callers use
          PkgPath,          \* those under /dev/pkg
          Prefix,           \* <<n, m>>: the name m begins with n and is longer
          Devices,          \* what boot mounts: a sequence of [path, dev]
          NInodes, NZones,
          EPZ,              \* entries in a zone: 21
          DIRECT, TABLE,    \* zones of a directory: 12 and 128
          MAX_FILE_OPEN,
          COUNT,            \* uint_16 i_count is a number modulo COUNT: 2^16
          WORD,             \* uint_32 i_size
          Avoid,
          MaxCalls          \* bound: the number of calls

ASSUME DirsBounds ==
  /\ {NInodes, NZones, EPZ, DIRECT, TABLE, MAX_FILE_OPEN, COUNT, WORD} \subseteq Nat \ {0}
  /\ KernelThread \subseteq Thread /\ MaxCalls \in Nat
  /\ Avoid \subseteq {"root_file", "shared_inode", "half_made", "one_dir", "unset_dir",
                    "prefix", "stray_flush"}

Zone  == 1 .. NZones
Inode == 0 .. NInodes - 1
Slot  == 1 .. MAX_FILE_OPEN
Dot    == "."
DotDot == ".."

Empty == [name |-> "", i_no |-> 0, type |-> "none"]
NoEntries == [i \in 1 .. EPZ |-> Empty]
new_dir_entry(name, nr, type) == [name |-> name, i_no |-> nr, type |-> type]

NoZones == [i \in 1 .. DIRECT |-> 0]
new_inode(nr) ==
  [i_num |-> nr, type |-> "none", dev |-> "none", i_size |-> 0, i_zones |-> NoZones,
   i_count |-> 0, i_lock |-> FALSE, live |-> TRUE]
NoFile == [node |-> 0, nr |-> 0]  \* nr is what the slot was opened for
Blank == [new_inode(0) EXCEPT !.live = FALSE]

VARIABLES k,      \* the kernel and the disk
          call,   \* call[t]: the call of t that is making a file
          fd,     \* fd[t]: the slots that t has a descriptor for
          cwd,    \* cwd[t]: the inode number of the working directory
          stream, \* stream[t]: the directory that t reads, and its position
          made,   \* the files and directories that calls have made
          ans,    \* what the last step answered
          calls   \* how many calls were made (bound)

vars == <<k, call, fd, cwd, stream, made, ans, calls>>

NoCall == [pc |-> "idle", op |-> "none", dir |-> 0, name |-> "", nr |-> 0, node |-> 0,
           zone |-> 0, slot |-> 0, at |-> <<0, 0>>, buf |-> <<>>, raced |-> FALSE]
NoStream == [node |-> 0, nr |-> 0, pos |-> 0]
None == [op |-> "none"]

-----------------------------------------------------------------------------
(* Inodes.  s.mem holds the inodes in memory, by address; one that is freed *)
(* keeps what it held until its memory is used again.  s.open is           *)
(* open_inodes, s.table the inode table of the disk.  s.imap and s.zmap are *)
(* the bitmaps in memory, s.imapd and s.zmapd those on the disk.           *)

Address == 1 .. 2 * NInodes
New(s) == Min({a \in Address : ~s.mem[a].live})

find_open_inode(s, nr) ==
  LET at == SelectInSeq(s.open, LAMBDA a : s.mem[a].i_num = nr)
  IN  IF at = 0 THEN 0 ELSE s.open[at]

\* An inode that is in memory already is not counted again.
inode_open(s, nr) ==
  LET found == find_open_inode(s, nr)
      a     == New(s)
  IN  IF found # 0 THEN [s |-> s, node |-> found]
      ELSE [s |-> [s EXCEPT !.mem[a] = [s.table[nr] EXCEPT !.i_count = 1, !.live = TRUE],
                            !.open = <<a>> \o @],
            node |-> a]

inode_close(s, a) ==
  LET n == (s.mem[a].i_count - 1) % COUNT
  IN  IF n # 0 THEN [s EXCEPT !.mem[a].i_count = n]
      ELSE [s EXCEPT !.mem[a].i_count = 0, !.mem[a].live = FALSE,
                     !.open = SelectSeq(@, LAMBDA b : b # a)]

\* The counter and the write lock are not written.
flush_inode(s, n) ==
  [s EXCEPT !.table[n.i_num] = [n EXCEPT !.i_count = 0, !.i_lock = FALSE, !.live = FALSE]]

inode_bitmap_alloc(s) == IF Inode \subseteq s.imap THEN -1 ELSE Min(Inode \ s.imap)
zone_bitmap_alloc(s)  == IF Zone \subseteq s.zmap THEN -1 ELSE Min(Zone \ s.zmap)
occupy_file_table_slot(s) ==
  IF \A i \in Slot : s.file[i] # NoFile THEN 0 ELSE Min({i \in Slot : s.file[i] = NoFile})

RootDir == 1
dir_open(s, nr) == inode_open(s, nr)
\* Fault: the root is closed like any other directory.
dir_close_all(s, a) == inode_close(s, a)
dir_close(s, a) == IF a = RootDir THEN s ELSE inode_close(s, a)

-----------------------------------------------------------------------------
(* Entries.                                                                *)

\* The zones of a directory that have an address, up to the first that has none.
inode_all_zones(n) ==
  LET last == Max({0} \cup {i \in 1 .. DIRECT : \A j \in 1 .. i : n.i_zones[j] # 0})
  IN  SubSeq(n.i_zones, 1, last)
Entries(s, zones) ==
  [i \in 1 .. EPZ * Len(zones) |-> s.disk[zones[((i - 1) \div EPZ) + 1]][((i - 1) % EPZ) + 1]]

\* Up to the first entry that is empty.
BeforeHole(es) ==
  LET hole == SelectInSeq(es, LAMBDA e : e.i_no = 0 /\ e.type = "none")
  IN  IF hole = 0 THEN es ELSE SubSeq(es, 1, hole - 1)
Named(es, name) == SelectInSeq(es, LAMBDA e : e.name = name)

search_file(s, a, name) ==
  LET es == BeforeHole(Entries(s, inode_all_zones(s.mem[a])))
      at == Named(es, name)
  IN  IF name \in {Dot, DotDot} \/ at = 0 THEN -1 ELSE es[at].i_no

\* search_dir_entry goes on in the next zone after an empty entry, and compares
\* as many characters as the name has.  The addresses after the last zone are
\* those of fresh memory; no entry is taken to be found through them.
Matches(e, name) == e.name = name \/ <<name, e.name>> \in Prefix
search_dir_entry(s, a, name) ==
  \E z \in ToSet(inode_all_zones(s.mem[a])) :
    \E e \in ToSet(BeforeHole(s.disk[z])) : Matches(e, name)

\* Where flush_dir_entry finds room: <<zone, index>>, or <<0, 0>>.
RoomAt(s, a) ==
  LET zones == inode_all_zones(s.mem[a])
      Room(i) == {j \in 1 .. EPZ : s.disk[zones[i]][j] = Empty}
      with  == {i \in 1 .. Len(zones) : Room(i) # {}}
  IN  IF with = {} THEN <<0, 0>> ELSE <<zones[Min(with)], Min(Room(Min(with)))>>

\* Without room a zone is allocated for every address that is 0, and the call
\* fails; those of the table are lost.  ASSERT when there are not enough.
flush_dir_entry_full(s, a) ==
  LET have  == Len(inode_all_zones(s.mem[a]))
      free  == SetToSortSeq(Zone \ s.zmap, <)
      want  == DIRECT + TABLE - have
      taken == SubSeq(free, 1, Min({want, Len(free)}))
  IN  [s EXCEPT !.mem[a].i_zones = [i \in 1 .. DIRECT |->
                   IF i > have /\ i - have <= Len(taken) THEN taken[i - have]
                                                         ELSE s.mem[a].i_zones[i]],
                !.zmap = @ \cup ToSet(taken), !.zmapd = s.zmap \cup ToSet(taken),
                !.full = TRUE, !.panic = want > Len(free)]

\* The entry goes into the zone as it was read.
flush_dir_entry(s, a, at, buf, e) ==
  [s EXCEPT !.disk[at[1]] = [buf EXCEPT ![at[2]] = e],
            !.mem[a].i_size = (@ + 1) % WORD]

\* The entry is cleared; found_entry then stays set, and for every further zone
\* the size is decreased and the same entry is cleared, in sector 0 where there
\* is no zone.
delete_dir_entry(s, a, nr) ==
  LET zones == inode_all_zones(s.mem[a])
      Has(i) == {j \in 1 .. EPZ : s.disk[zones[i]][j].i_no = nr}
      in    == {i \in 1 .. Len(zones) : Has(i) # {}}
      i0    == Min(in)
      d     == [s EXCEPT !.disk = [z \in Zone |->
                  IF \E i \in i0 .. Len(zones) : zones[i] = z
                  THEN [s.disk[z] EXCEPT ![Max(Has(i0))] = Empty] ELSE s.disk[z]],
                         !.mem[a].i_size = (@ - (DIRECT + TABLE - i0 + 1)) % WORD]
  IN  IF in = {} THEN s ELSE flush_inode(d, d.mem[a])

-----------------------------------------------------------------------------
(* Paths.                                                                  *)

path_peel(path)  == [rest |-> Front(path), last |-> Last(path)]
path_depth(path) == Len(path)
\* The directories, the last one first.
path_dirs(path)  == Reverse(SelectSeq(path, LAMBDA n : n \in DirName))

\* The walk of sys_open and sys_mount_device through all names but the last;
\* a directory is closed when the next one is opened.
RECURSIVE WalkFrom(_, _, _)
WalkFrom(s, a, names) ==
  LET nr == search_file(s, a, Head(names))
      o  == dir_open(dir_close(s, a), nr)
  IN  IF names = <<>> THEN [s |-> s, node |-> a, ok |-> TRUE]
      ELSE IF nr = -1 THEN [s |-> dir_close(s, a), node |-> 0, ok |-> FALSE]
      ELSE WalkFrom(o.s, o.node, Tail(names))
Walk(s, path) == WalkFrom(s, RootDir, path_peel(path).rest)

\* search_file_with_pathname: with at most one directory in the path, the last
\* name is looked for in the root.  The directories stay open.  The result has
\* the inode number, or -1, and the directory that the name is in, 0 when the
\* caller's pdir is not set.
RECURSIVE SearchFrom(_, _, _)
SearchFrom(s, a, names) ==
  LET nr == search_file(s, a, Head(names))
      o  == dir_open(s, nr)
  IN  IF nr = -1 THEN [s |-> s, nr |-> -1, pdir |-> IF Head(names) \in FileName THEN a ELSE 0]
      ELSE IF Len(names) = 1 THEN [s |-> IF Head(names) \in DirName THEN o.s ELSE s,
                                   nr |-> nr, pdir |-> a]
      ELSE SearchFrom(o.s, o.node, Tail(names))
search_file_with_pathname(s, path) ==
  IF Len(path_dirs(path)) <= 1
  THEN LET nr == search_file(s, RootDir, path_peel(path).last)
       IN  [s |-> s, nr |-> nr, pdir |-> IF nr = -1 THEN 0 ELSE RootDir]
  ELSE SearchFrom(s, RootDir, path)

-----------------------------------------------------------------------------
(* Making a file: op is "dir", "file" or "pkg".  The operators take the    *)
(* kernel s and the call c and return both; a call that has failed is idle. *)

TypeOf(op) == CASE op = "dir" -> "directory" [] op = "file" -> "regular" [] op = "pkg" -> "fifo"
Idle(s, c) == [s |-> s, c |-> [c EXCEPT !.pc = "idle"]]
Begun(s, op, a, name) ==
  [s |-> s, c |-> [NoCall EXCEPT !.pc = "reserve", !.op = op, !.dir = a, !.name = name]]

\* sys_mkdir to the test of the name.  The parent stays open when it fails.
MkdirIn(o, name) ==
  IF search_file(o.s, o.node, name) # -1 THEN Idle(o.s, NoCall)
  ELSE Begun(o.s, "dir", o.node, name)
MkdirFound(r, name) ==
  IF r.nr = -1 THEN Idle(r.s, NoCall) ELSE MkdirIn(dir_open(r.s, r.nr), name)
mkdir_search(s, path) ==
  LET p == path_peel(path)
  IN  IF p.rest = <<>> THEN MkdirIn([s |-> s, node |-> RootDir], p.last)
      ELSE MkdirFound(search_file_with_pathname(s, p.rest), p.last)


\* sys_open with O_CREAT to the test of the name.
open_search(s, op, path) ==
  LET w == Walk(s, path)
      name == path_peel(path).last
  IN  IF ~w.ok THEN Idle(w.s, NoCall)
      ELSE IF search_file(w.s, w.node, name) # -1 THEN Idle(dir_close(w.s, w.node), NoCall)
      ELSE Begun(w.s, op, w.node, name)

\* The directory is read; without room what was reserved is given back.
ReadDir(s, c, undone) ==
  LET at == RoomAt(s, c.dir)
      f  == flush_dir_entry_full(s, c.dir)
      u  == [undone EXCEPT !.mem[c.dir].i_zones = f.mem[c.dir].i_zones, !.zmapd = f.zmapd,
                           !.zmap = f.zmap \ (IF c.zone = 0 THEN {} ELSE {c.zone}),
                           !.full = TRUE, !.panic = f.panic]
  IN  IF at = <<0, 0>> THEN Idle(dir_close(u, c.dir), c)
      ELSE [s |-> s, c |-> [c EXCEPT !.pc = "write", !.at = at, !.buf = s.disk[at[1]]]]

\* Fault: the zone is not marked.
mkdir_reserve_unmarked(s, c) ==
  LET nr == inode_bitmap_alloc(s)
      z  == zone_bitmap_alloc(s)
      r  == [s EXCEPT !.imap = @ \cup {nr},
                      !.disk[z] = [NoEntries EXCEPT
                         ![1] = new_dir_entry(Dot, nr, "directory"),
                         ![2] = new_dir_entry(DotDot, s.mem[c.dir].i_num, "directory")]]
  IN  IF -1 \in {nr, z} THEN Idle(dir_close(s, c.dir), c)
      ELSE ReadDir(r, [c EXCEPT !.nr = nr, !.zone = z], [r EXCEPT !.imap = s.imap])

\* sys_mkdir: an inode number, a zone with two entries, the directory.
mkdir_reserve(s, c) ==
  LET nr == inode_bitmap_alloc(s)
      z  == zone_bitmap_alloc(s)
      r  == [s EXCEPT !.imap = @ \cup {nr}, !.zmap = @ \cup {z}, !.zmapd = s.zmap \cup {z},
                      !.disk[z] = [NoEntries EXCEPT
                         ![1] = new_dir_entry(Dot, nr, "directory"),
                         ![2] = new_dir_entry(DotDot, s.mem[c.dir].i_num, "directory")]]
  IN  IF -1 \in {nr, z} THEN Idle(dir_close(s, c.dir), c)
      ELSE ReadDir(r, [c EXCEPT !.nr = nr, !.zone = z], [r EXCEPT !.imap = s.imap])

\* file_create and packagefs_create: an inode number, an inode, a slot of the file
\* table, the directory.  When the table is full its lock is kept.
file_reserve(s, t, c) ==
  LET nr   == inode_bitmap_alloc(s)
      slot == occupy_file_table_slot(s)
      a    == New(s)
      node == [new_inode(nr) EXCEPT !.type = TypeOf(c.op),
                                    !.dev = IF c.op = "pkg" THEN "pkgfs" ELSE "none",
                                    !.i_count = IF c.op = "pkg" THEN 1 ELSE 0]
      r    == [s EXCEPT !.imap = @ \cup {nr}, !.mem[a] = node,
                        !.file[slot] = [node |-> a, nr |-> nr]]
  IN  IF nr = -1 THEN Idle(dir_close(s, c.dir), c)
      ELSE IF slot = 0 THEN Idle(dir_close([s EXCEPT !.ft_lock = t], c.dir), c)
      ELSE IF c.op = "pkg" /\ search_dir_entry(s, c.dir, c.name)
      THEN [s |-> [r EXCEPT !.open = <<a>> \o @],
            c |-> [c EXCEPT !.pc = "done", !.nr = nr, !.node = a, !.slot = slot]]
      ELSE ReadDir(r, [c EXCEPT !.nr = nr, !.node = a, !.slot = slot], s)

\* The directory is written.  A package server is not written to the inode table.
create_write(s, c) ==
  LET e == new_dir_entry(c.name, c.nr, TypeOf(c.op))
      w == flush_dir_entry(s, c.dir, c.at, c.buf, e)
  IN  IF c.op = "pkg"
      THEN [s |-> [w EXCEPT !.open = <<c.node>> \o @], c |-> [c EXCEPT !.pc = "done"]]
      ELSE [s |-> w, c |-> [c EXCEPT !.pc = "flush"]]


\* Both inodes and the inode bitmap are written, and the directory is closed.
create_flush(s, c) ==
  LET child == IF c.op = "dir"
               THEN [new_inode(c.nr) EXCEPT !.type = "directory", !.i_size = 2,
                                            !.i_zones = [NoZones EXCEPT ![1] = c.zone]]
               ELSE s.mem[c.node]
      f == IF c.pc = "done" THEN s
           ELSE [flush_inode(flush_inode(s, s.mem[c.dir]), child) EXCEPT !.imapd = s.imap]
      g == IF c.op = "file" THEN [f EXCEPT !.open = <<c.node>> \o @] ELSE f
  IN  Idle(dir_close(g, c.dir), c)

-----------------------------------------------------------------------------
(* Boot: fs_init, then the devices.  No process runs yet.                  *)

\* The calls in one go.
RECURSIVE Finish(_)
Finish(r) ==
  CASE r.c.pc = "idle"    -> r.s
    [] r.c.pc = "reserve" -> Finish(mkdir_reserve(r.s, r.c))
    [] r.c.pc = "write"   -> Finish(create_write(r.s, r.c))
    [] r.c.pc = "flush"   -> Finish(create_flush(r.s, r.c))
sys_mkdir(s, path) == Finish(mkdir_search(s, path))

\* A device has an inode in memory, and a name if it has none yet.
DeviceCreate(s, a, name, type, dev, slot) ==
  LET nr == inode_bitmap_alloc(s)
      b  == New(s)
      r  == [s EXCEPT !.imap = @ \cup {nr}, !.open = <<b>> \o @,
                      !.mem[b] = [new_inode(nr) EXCEPT !.type = type, !.dev = dev, !.i_count = 1],
                      !.file = IF slot = 0 THEN @ ELSE [@ EXCEPT ![slot] = [node |-> b, nr |-> nr]]]
      at == RoomAt(r, a)
  IN  IF nr = -1 THEN s
      ELSE IF search_dir_entry(r, a, name) THEN r
      ELSE IF at = <<0, 0>> THEN flush_dir_entry_full(s, a)
      ELSE flush_dir_entry(r, a, at, r.disk[at[1]], new_dir_entry(name, nr, type))

InTable(s, a, name, type, dev) ==
  LET slot == occupy_file_table_slot(s)
  IN  IF slot = 0 THEN [s EXCEPT !.ft_lock = "main"] ELSE DeviceCreate(s, a, name, type, dev, slot)
aux_create(s, a, name)       == InTable(s, a, name, "char", "aux")
kbd_create(s, a, name)       == InTable(s, a, name, "char", "kbd")
pcmouse_create(s, a, name)   == InTable(s, a, name, "char", "mouse")
console_create(s, a, name)   == InTable(s, a, name, "char", "console")
packagefs_create(s, a, name) == InTable(s, a, name, "fifo", "pkgfs")
\* The screen has no slot in the file table.
lfbvideo_create(s, a, name)  == DeviceCreate(s, a, name, "char", "lfb", 0)

DriverCreate(s, a, d) ==
  LET name == path_peel(d.path).last
  IN  CASE d.dev = "aux"     -> aux_create(s, a, name)
        [] d.dev = "kbd"     -> kbd_create(s, a, name)
        [] d.dev = "mouse"   -> pcmouse_create(s, a, name)
        [] d.dev = "console" -> console_create(s, a, name)
        [] d.dev = "lfb"     -> lfbvideo_create(s, a, name)
        [] d.dev = "pkgfs"   -> packagefs_create(s, a, name)

\* The walk makes the directories that are missing; i is the next name.
WithDir(s, a, d, i) ==
  IF search_file(s, a, d.path[i]) # -1 THEN s ELSE sys_mkdir(s, SubSeq(d.path, 1, i))
EnterDir(s, a, name) ==
  LET nr == search_file(s, a, name)
  IN  IF nr = -1 THEN [s |-> s, node |-> 0] ELSE dir_open(dir_close(s, a), nr)
RECURSIVE MountWalk(_, _, _)
MountWalk(r, d, i) ==
  IF r.node = 0 THEN r.s
  ELSE IF i = path_depth(d.path) THEN dir_close(DriverCreate(r.s, r.node, d), r.node)
  ELSE MountWalk(EnterDir(WithDir(r.s, r.node, d, i), r.node, d.path[i]), d, i + 1)
sys_mount_device(s, d) == MountWalk([s |-> s, node |-> RootDir], d, 1)

\* The root directory is inode 0 in zone 1.
partition_format ==
  [full |-> FALSE, torn |-> FALSE, stale |-> FALSE, imapd |-> {0}, zmapd |-> {1},
   table |-> [i \in Inode |-> IF i = 0 THEN [Blank EXCEPT !.type = "directory", !.i_size = 2,
                                              !.i_zones = [NoZones EXCEPT ![1] = 1]]
                              ELSE Blank],
   disk  |-> [[z \in Zone |-> NoEntries] EXCEPT
                ![1] = [@ EXCEPT ![1] = new_dir_entry(Dot, 0, "directory"),
                                 ![2] = new_dir_entry(DotDot, 0, "directory")]]]

mount_partition(d) ==
  [imapd |-> d.imapd, zmapd |-> d.zmapd, table |-> d.table, disk |-> d.disk,
   imap |-> d.imapd, zmap |-> d.zmapd,
   mem |-> [a \in Address |-> Blank], open |-> <<>>,
   file |-> [i \in Slot |-> NoFile], ft_lock |-> "none",
   boot |-> 1, full |-> d.full, torn |-> d.torn, stale |-> d.stale, panic |-> FALSE]

fs_init(d) == inode_open(mount_partition(d), 0).s

Init ==
  /\ k = fs_init(partition_format)
  /\ call = [t \in Thread |-> NoCall] /\ fd = [t \in Thread |-> {}]
  /\ cwd = [t \in Thread |-> 0] /\ stream = [t \in Thread |-> NoStream]
  /\ made = {} /\ ans = None /\ calls = 0

-----------------------------------------------------------------------------
(* The calls.                                                              *)

\* Reference lookup: the number of the inode that a path leads to, or -1.
ZonesOf(s, nr) ==
  LET a == find_open_inode(s, nr)
  IN  inode_all_zones(IF a # 0 THEN s.mem[a] ELSE s.table[nr])
EntriesOf(s, nr) == Entries(s, ZonesOf(s, nr))
Leads(s, path) ==
  LET at[i \in 0 .. Len(path)] ==
        IF i = 0 THEN 0 ELSE IF at[i - 1] = -1 THEN -1
        ELSE LET es == EntriesOf(s, at[i - 1])
                 n  == Named(es, path[i])
             IN  IF n = 0 THEN -1 ELSE es[n].i_no
  IN  at[Len(path)]

\* The directories that a call or a stream is using, and those of a path.
InUse == ({k.mem[call[u].dir].i_num : u \in {v \in Thread : call[v].pc # "idle"}}
            \cup {stream[u].nr : u \in Thread}) \ {0}
OnPath(path) == {Leads(k, SubSeq(path, 1, i)) : i \in 1 .. Len(path)}
InodeThere(nr) == find_open_inode(k, nr) # 0 \/ k.table[nr].type # "none"
Apart(path) ==
  /\ "shared_inode" \in Avoid => OnPath(path) \cap InUse = {}
  /\ "half_made" \in Avoid => \A nr \in OnPath(path) \ {-1} : InodeThere(nr)
\* A file that search_file_with_pathname does not look for in its directory.
InOneDir(path) == Len(path_dirs(path)) = 1 /\ Last(path) \in FileName
Searchable(path) == Apart(path) /\ ~("one_dir" \in Avoid /\ InOneDir(path))
\* Some name in the directory begins with the one that is being made.
Prefixed(path) ==
  LET dir == Leads(k, Front(path))
  IN  dir # -1 /\ \E e \in ToSet(EntriesOf(k, dir)) : <<Last(path), e.name>> \in Prefix

Mounted == k.boot > Len(Devices)
Free(t)  == call[t].pc = "idle" /\ ~k.panic /\ Mounted
Ready(t) == Free(t) /\ calls < MaxCalls
Called(s, answer) == k' = s /\ ans' = answer /\ calls' = calls + 1
\* Calls that end by themselves what another has begun are not counted.
Returned(s, answer) == k' = s /\ ans' = answer /\ UNCHANGED calls

\* Two calls that make a file in the same directory at the same time are marked.
Begins(t, r) ==
  LET rivals == {u \in Thread \ {t} : call[u].pc # "idle" /\ call[u].dir = r.c.dir}
  IN  /\ Called(r.s, None)
      /\ call' = [u \in Thread |->
            IF u = t THEN [r.c EXCEPT !.raced = rivals # {}]
            ELSE IF u \in rivals /\ r.c.pc # "idle" THEN [call[u] EXCEPT !.raced = TRUE] ELSE call[u]]
      /\ UNCHANGED <<fd, cwd, stream, made>>

MkdirBegin(t, path) ==
  /\ Ready(t) /\ Apart(path) /\ Last(path) \in DirName
  /\ Begins(t, mkdir_search(k, path))

CreateBegin(t, path) ==
  /\ Ready(t) /\ Apart(path) /\ Last(path) \in FileName
  /\ path \in PkgPath \/ t \in KernelThread
  /\ ~("prefix" \in Avoid /\ path \in PkgPath /\ Prefixed(path))
  /\ Begins(t, open_search(k, IF path \in PkgPath THEN "pkg" ELSE "file", path))

Continues(t, r) ==
  /\ k' = r.s /\ call' = [call EXCEPT ![t] = r.c] /\ ans' = None
  /\ UNCHANGED <<cwd, stream, calls>>

CreateReserve(t) ==
  LET c == call[t]
  IN  /\ c.pc = "reserve" /\ ~k.panic
      /\ c.op # "dir" => k.ft_lock \in {"none", t}
      /\ Continues(t, IF c.op = "dir" THEN mkdir_reserve(k, c) ELSE file_reserve(k, t, c))
      /\ UNCHANGED <<fd, made>>

CreateWrite(t) ==
  /\ call[t].pc = "write" /\ ~k.panic
  /\ Continues(t, create_write(k, call[t]))
  /\ UNCHANGED <<fd, made>>

CreateFlush(t) ==
  LET c == call[t]
  IN  /\ c.pc \in {"flush", "done"} /\ ~k.panic
      /\ Continues(t, create_flush(k, c))
      /\ fd' = IF c.slot = 0 THEN fd ELSE [fd EXCEPT ![t] = @ \cup {c.slot}]
      /\ made' = made \cup {[dir |-> k.mem[c.dir].i_num, name |-> c.name, nr |-> c.nr,
                              type |-> TypeOf(c.op), raced |-> c.raced]}

-----------------------------------------------------------------------------
\* sys_open without O_CREAT.  The directory stays open.  file_open for a regular
\* file, open_aux and open_lfb for a device, open_pkg for a package server: a
\* client has an inode that is not among the open ones.
file_open(s, t, nr, writes) ==
  LET slot == occupy_file_table_slot(s)
      o    == inode_open(s, nr)
      r    == [o.s EXCEPT !.file[slot] = [node |-> o.node, nr |-> nr]]
  IN  IF slot = 0 THEN [s |-> [s EXCEPT !.ft_lock = t], slot |-> 0]
      ELSE IF writes /\ r.mem[o.node].i_lock THEN [s |-> r, slot |-> 0]
      ELSE [s |-> [r EXCEPT !.mem[o.node].i_lock = @ \/ writes], slot |-> slot]
open_aux(s, t, nr) == file_open(s, t, nr, FALSE)
open_lfb(s, t, nr) == file_open(s, t, nr, FALSE)
open_pkg(s, t, nr) ==
  LET slot == occupy_file_table_slot(s)
      a    == New(s)
  IN  IF slot = 0 THEN [s |-> [s EXCEPT !.ft_lock = t], slot |-> 0]
      ELSE [s |-> [s EXCEPT !.mem[a] = [new_inode(0) EXCEPT !.type = "fifo", !.dev = "client",
                                                            !.i_count = 1],
                            !.file[slot] = [node |-> a, nr |-> 0]],
            slot |-> slot]
is_char_file(s, a) == s.mem[a].type = "char"
is_dev(s, a, dev)  == s.mem[a].dev = dev
is_pkg_file(s, a)  == s.mem[a].type = "fifo"

OpenNode(i, t, nr, writes) ==
  IF is_char_file(i.s, i.node)
  THEN IF is_dev(i.s, i.node, "lfb") THEN open_lfb(i.s, t, nr) ELSE open_aux(i.s, t, nr)
  ELSE IF is_pkg_file(i.s, i.node) THEN open_pkg(i.s, t, nr)
  ELSE file_open(i.s, t, nr, writes)

sys_open(t, path, writes) ==
  \E w \in {Walk(k, path)} :
  LET nr == search_file(w.s, w.node, path_peel(path).last)
      f  == OpenNode(inode_open(w.s, nr), t, nr, writes)
      answer(n) == [op |-> "open", path |-> path, nr |-> n]
  IN  /\ Ready(t) /\ Apart(path) /\ Last(path) \in FileName
      /\ IF ~w.ok \/ nr = -1
         THEN Called(IF w.ok THEN dir_close(w.s, w.node) ELSE w.s, answer(-1)) /\ fd' = fd
         ELSE /\ k.ft_lock \in {"none", t}
              /\ Called(f.s, answer(nr))
              /\ fd' = IF f.slot = 0 THEN fd ELSE [fd EXCEPT ![t] = @ \cup {f.slot}]
      /\ UNCHANGED <<call, cwd, stream, made>>

file_close(s, slot) ==
  LET a == s.file[slot].node
      c == inode_close([s EXCEPT !.mem[a].i_lock = FALSE], a)
  IN  [c EXCEPT !.file[slot] = NoFile,
                !.panic = s.mem[a].dev = "client"] \* list_del of an inode that is on no list

\* After close_aux the descriptor stays in the table of the process.
sys_close(t, slot) ==
  LET a    == k.file[slot].node
      char == is_char_file(k, a)
  IN  /\ Free(t) /\ slot \in fd[t] /\ k.file[slot] # NoFile
      /\ "shared_inode" \in Avoid => \A i \in Slot \ {slot} : k.file[i].node # a
      /\ Returned(file_close(k, slot), None)
      /\ fd' = IF char THEN fd ELSE [fd EXCEPT ![t] = @ \ {slot}]
      /\ UNCHANGED <<call, cwd, stream, made>>

-----------------------------------------------------------------------------
\* inode_release writes the inode map to the sector of the last zone that it
\* freed, and for a file without zones that index is not set (inode.c:244): it is
\* the map's own sector, one that nothing uses, or one that is overwritten by
\* what the memory behind the map holds.
Sectors == {<<"own", 0>>, <<"unused", 0>>} \cup
           (IF "stray_flush" \in Avoid THEN {}
            ELSE {<<"zmap", 0>>, <<"table", 0>>} \cup {<<"zone", z>> : z \in Zone})
StrayFlush(s, at) ==
  CASE at[1] = "own"    -> [s EXCEPT !.imapd = s.imap]
    [] at[1] = "unused" -> s
    [] at[1] = "zmap"   -> [s EXCEPT !.zmapd = {}]
    [] at[1] = "table"  -> [s EXCEPT !.table = [i \in Inode |-> Blank]]
    [] at[1] = "zone"   -> [s EXCEPT !.disk[at[2]] = NoEntries]
ReleaseNode(o, nr, zones, at) ==
  LET r == [o.s EXCEPT !.zmap = @ \ zones, !.zmapd = o.s.zmap \ zones, !.imap = @ \ {nr}]
  IN  inode_close([StrayFlush(r, at) EXCEPT !.table[nr] = Blank], o.node)
inode_release(s, nr, at) ==
  LET o == inode_open(s, nr)
  IN  ReleaseNode(o, nr, ToSet(inode_all_zones(o.s.mem[o.node])), at)

\* The directory is closed even if it is the root, or any that was not set.
sys_unlink(t, path) ==
  \E r \in {search_file_with_pathname(k, path)}, at \in Sectors :
  LET o == inode_open(r.s, r.nr)
      used == \E i \in Slot : k.file[i] # NoFile /\ k.mem[k.file[i].node].i_num = r.nr
      ok   == inode_release(delete_dir_entry(o.s, r.pdir, r.nr), r.nr, at)
      pdir == IF r.pdir = 0 THEN Address ELSE {r.pdir}
  IN  /\ Ready(t) /\ t \in KernelThread /\ Searchable(path) /\ Last(path) \in FileName
      /\ "root_file" \in Avoid => r.pdir # RootDir
      /\ "unset_dir" \in Avoid => r.pdir # 0
      /\ IF r.nr = -1 THEN (\E a \in pdir : Called(inode_close(r.s, a), None)) /\ made' = made
         ELSE IF used THEN Called(inode_close(o.s, r.pdir), None) /\ made' = made
         ELSE /\ Called(inode_close(ok, r.pdir), None)
              /\ made' = {m \in made : m.nr # r.nr}
      /\ UNCHANGED <<call, fd, cwd, stream>>

\* The parent must be empty, which it is not.
dir_is_empty(n) == n.i_size = 2
dir_remove(s, parent, child, at) ==
  LET nr == s.mem[child].i_num
  IN  inode_release(delete_dir_entry(s, parent, nr), nr, at)
sys_rmdir(t, path) ==
  \E r \in {search_file_with_pathname(k, path)}, at \in Sectors :
  LET o == dir_open(r.s, r.nr)
  IN  /\ Ready(t) /\ Apart(path) /\ Last(path) \in DirName
      /\ Called(IF r.nr = -1 THEN r.s
                ELSE IF dir_is_empty(o.s.mem[r.pdir]) THEN dir_remove(o.s, r.pdir, o.node, at)
                ELSE o.s, None)
      /\ UNCHANGED <<call, fd, cwd, stream, made>>

-----------------------------------------------------------------------------
\* Directories as streams, the working directory.

sys_opendir(t, path) ==
  \E r \in {search_file_with_pathname(k, path)} :
  LET o == dir_open(r.s, r.nr)
  IN  /\ Ready(t) /\ Apart(path) /\ stream[t] = NoStream /\ Last(path) \in DirName
      /\ IF r.nr = -1 THEN Called(r.s, [op |-> "opendir", path |-> path, nr |-> -1]) /\ stream' = stream
         ELSE /\ Called(o.s, [op |-> "opendir", path |-> path, nr |-> r.nr])
              /\ stream' = [stream EXCEPT ![t] = [node |-> o.node, nr |-> r.nr, pos |-> 0]]
      /\ UNCHANGED <<call, fd, cwd, made>>


\* An empty entry ends the zone; the search goes on in the next one at its index.
read_dir(s, a, pos) ==
  LET zones == inode_all_zones(s.mem[a])
      found == {z \in (pos \div EPZ) + 1 .. Len(zones) :
                  s.disk[zones[z]][(pos % EPZ) + 1] # Empty}
  IN  IF found = {} THEN Empty ELSE s.disk[zones[Min(found)]][(pos % EPZ) + 1]
sys_readdir(t) ==
  LET e == read_dir(k, stream[t].node, stream[t].pos)
  IN  /\ Free(t) /\ stream[t] # NoStream
      /\ Returned(k, [op |-> "readdir", e |-> e, nr |-> stream[t].nr, pos |-> stream[t].pos])
      /\ stream' = IF e = Empty THEN stream ELSE [stream EXCEPT ![t].pos = @ + 1]
      /\ UNCHANGED <<call, fd, cwd, made>>
sys_rewinddir(t) ==
  /\ Free(t) /\ stream[t] # NoStream
  /\ Returned(k, None) /\ stream' = [stream EXCEPT ![t].pos = 0]
  /\ UNCHANGED <<call, fd, cwd, made>>
sys_closedir(t) ==
  /\ Free(t) /\ stream[t] # NoStream
  /\ Returned(dir_close(k, stream[t].node), None) /\ stream' = [stream EXCEPT ![t] = NoStream]
  /\ UNCHANGED <<call, fd, cwd, made>>

sys_chdir(t, path) ==
  \E r \in {search_file_with_pathname(k, path)} :
  LET o == inode_open(r.s, r.nr)
  IN  /\ Ready(t) /\ Apart(path) /\ Last(path) \in DirName
      /\ Called(IF r.nr = -1 THEN r.s ELSE o.s, [op |-> "chdir", path |-> path, nr |-> r.nr])
      /\ cwd' = IF r.nr # -1 /\ o.s.mem[o.node].type = "directory"
                THEN [cwd EXCEPT ![t] = r.nr] ELSE cwd
      /\ UNCHANGED <<call, fd, stream, made>>

sys_stat(t, path) ==
  \E r \in {search_file_with_pathname(k, path)} :
  LET o == inode_open(r.s, r.nr)
  IN  /\ Ready(t) /\ Searchable(path)
      /\ Called(IF r.nr = -1 THEN r.s ELSE o.s, [op |-> "stat", path |-> path, nr |-> r.nr])
      /\ UNCHANGED <<call, fd, cwd, stream, made>>

\* Both open and close the inode that they look into.  ASSERT that the directory
\* has a zone, and that its second entry is a directory.
get_parent_dir_inode_nr(s, nr) ==
  LET o == inode_open(s, nr)
      z == o.s.mem[o.node].i_zones[1]
      e == IF z = 0 THEN Empty ELSE o.s.disk[z][2]
      c == IF z = 0 THEN o.s ELSE inode_close(o.s, o.node)
  IN  IF e.type # "directory" THEN [s |-> [c EXCEPT !.panic = TRUE], nr |-> -1]
      ELSE [s |-> c, nr |-> e.i_no]
get_child_dir_name(s, parent, nr) ==
  LET o  == inode_open(s, parent)
      es == Entries(o.s, inode_all_zones(o.s.mem[o.node]))
      at == SelectInSeq(es, LAMBDA e : e.i_no = nr)
  IN  [s |-> inode_close(o.s, o.node), name |-> IF at = 0 THEN "" ELSE es[at].name]

\* Up to the root.  Only a caller in the root gets its buffer back; the others get
\* NULL, with the path in the buffer or without.
UpChild(r, nr, c) == [s |-> c.s, nr |-> nr, ok |-> c.name # "", path |-> <<c.name>> \o r.path]
UpParent(r, p) ==
  IF p.nr = -1 THEN [r EXCEPT !.s = p.s, !.ok = FALSE]
  ELSE UpChild(r, p.nr, get_child_dir_name(p.s, p.nr, r.nr))
RECURSIVE Up(_)
Up(r) ==
  IF r.nr = 0 \/ ~r.ok THEN r ELSE Up(UpParent(r, get_parent_dir_inode_nr(r.s, r.nr)))
sys_getcwd(t) ==
  LET r == Up([s |-> k, nr |-> cwd[t], ok |-> TRUE, path |-> <<>>])
  IN  /\ Ready(t)
      /\ "shared_inode" \in Avoid => cwd[t] = 0
      /\ Called(r.s, [op |-> "getcwd", path |-> r.path, nr |-> IF cwd[t] = 0 THEN 0 ELSE -1])
      /\ UNCHANGED <<call, fd, cwd, stream, made>>

-----------------------------------------------------------------------------
(* The machine stops at any time and is started again.                     *)

OnDisk(s) == {e \in UNION {ToSet(s.disk[z]) : z \in Zone} : e # Empty}
Reboot ==
  /\ calls < MaxCalls /\ ~k.panic
  /\ k' = fs_init([k EXCEPT !.torn = @ \/ \E t \in Thread : call[t].pc \in {"write", "flush"},
                         !.stale = @ \/ \E e \in OnDisk(k) : e.type \in {"char", "fifo"} /\ e.i_no \in k.imapd])
  /\ call' = [t \in Thread |-> NoCall] /\ fd' = [t \in Thread |-> {}]
  /\ cwd' = [t \in Thread |-> 0] /\ stream' = [t \in Thread |-> NoStream]
  /\ ans' = None /\ calls' = calls + 1 /\ UNCHANGED made

Mount ==
  /\ ~Mounted /\ ~k.panic
  /\ k' = [sys_mount_device(k, Devices[k.boot]) EXCEPT !.boot = @ + 1]
  /\ ans' = None /\ UNCHANGED <<call, fd, cwd, stream, made, calls>>

Next ==
  \/ Mount
  \/ \E t \in Thread :
       \/ CreateReserve(t) \/ CreateWrite(t) \/ CreateFlush(t)
       \/ sys_readdir(t) \/ sys_rewinddir(t) \/ sys_closedir(t) \/ sys_getcwd(t)
       \/ \E slot \in Slot : sys_close(t, slot)
       \/ \E path \in Path :
            \/ MkdirBegin(t, path) \/ CreateBegin(t, path) \/ sys_unlink(t, path)
            \/ sys_rmdir(t, path) \/ sys_opendir(t, path) \/ sys_chdir(t, path) \/ sys_stat(t, path)
            \/ \E writes \in BOOLEAN : sys_open(t, path, writes)
  \/ Reboot

Spec == Init /\ [][Next]_vars

-----------------------------------------------------------------------------
(* Properties.                                                             *)

\* The directories that exist, and the names in them.
AllDirs == {nr \in Inode : k.table[nr].type = "directory"}
Names(nr) == SelectSeq(EntriesOf(k, nr), LAMBDA e : e.name \notin {Dot, DotDot, ""})



\* No zone belongs to two directories or is free, and every zone that is marked
\* belongs to a directory or to a call that is making one, unless a directory was
\* full (flush_dir_entry then loses zones) or the machine was stopped in sys_mkdir.
DirZonesOwned ==
  LET zones == [n \in AllDirs |-> ToSet(ZonesOf(k, n))]
      owned == UNION {zones[n] : n \in AllDirs}
  IN  /\ \A m, n \in AllDirs : m # n => zones[m] \cap zones[n] = {}
      /\ owned \subseteq k.zmap
      /\ k.full \/ k.torn \/ k.zmap \subseteq owned \cup {call[t].zone : t \in Thread}

\* The file table, a stream and a call that makes a file point to an inode that is
\* in memory and is the one that they opened (inode_open does not count).
NoDangling ==
  /\ \A i \in Slot : k.file[i] # NoFile =>
       k.mem[k.file[i].node].live /\ k.mem[k.file[i].node].i_num = k.file[i].nr
  /\ \A t \in Thread : stream[t] # NoStream =>
       k.mem[stream[t].node].live /\ k.mem[stream[t].node].i_num = stream[t].nr
  /\ \A t \in Thread : call[t].pc # "idle" => k.mem[call[t].dir].live


=============================================================================
