------------------------------- MODULE Files -------------------------------
(***************************************************************************)
(* The data path of the file system: file_create, file_open, file_close,   *)
(* file_write, file_read, sys_lseek and sys_unlink on one partition, with   *)
(* its inode and zone bitmaps (fs/file.c, fs/inode.c, fs/fs.c).            *)
(*                                                                         *)
(* A zone holds ZONE_SIZE words of four bytes.  A word on the disk is a    *)
(* datum or, in an indirect table, the address of a zone; the code does not *)
(* tell them apart, and neither does the model.  Address 0 is no zone.     *)
(* File names and directories are left out: a file is its inode number, as *)
(* long as its bit is set.  A file is open at most once at a time, and the *)
(* kernel keeps the inode of a file it has created in memory.  Calls do    *)
(* not overlap.                                                            *)
(*                                                                         *)
(* Avoid names calls that the code gets wrong, for a run to leave out:     *)
(* "whole_zone", a write that replaces a whole zone of the file;           *)
(* "crossing_read", a read that starts inside a zone and ends in another;  *)
(* "used_table", a write that makes an indirect table of a zone that has    *)
(* held data.                                                              *)
(***************************************************************************)
EXTENDS Integers, FiniteSetsExt, SequencesExt

CONSTANTS ZONE_SIZE,   \* words in a zone; an indirect table has as many entries
          DIRECT,      \* entries of i_zones that are data zones: 12
          NZones,      \* zones of the partition
          NInodes,     \* inodes of the partition
          Counts,      \* lengths of the reads and writes
          Avoid,       \* the calls that are left out
          MaxWrites    \* bound: the number of writes

ASSUME FilesBounds ==
  /\ {ZONE_SIZE, DIRECT, NZones, NInodes} \subseteq Nat \ {0}
  /\ Counts \subseteq Nat /\ MaxWrites \in Nat
  /\ Avoid \subseteq {"whole_zone", "crossing_read", "used_table"}

MAX_ZONE_COUNT == DIRECT + ZONE_SIZE
MAX_FILE_SIZE  == ZONE_SIZE * MAX_ZONE_COUNT

Zone  == 1 .. NZones
Inode == 1 .. NInodes
Slot  == 0 .. ZONE_SIZE - 1

\* What a process writes: the words of a buffer alternate, so that a word in a
\* wrong place is noticed.
Datum == {1, 2}
Buffer(d) == [j \in 0 .. MAX_FILE_SIZE |-> IF j % 2 = 0 THEN d ELSE 3 - d]

\* A word that comes from the kernel's stack or from beyond a buffer.
Garbage == NZones + 3

VARIABLES imap, zmap,  \* the bits that are set in inode_bitmap and zone_bitmap
          disk,        \* the words of every zone
          inode,       \* i_size and i_zones of every inode
          file,        \* file[f]: is f in g_file_table, and its fd_pos
          got,         \* a read's result: how many words it reports, and the words
          panic,       \* an assertion failed
          writes       \* how many writes were made (bound)

vars == <<imap, zmap, disk, inode, file, got, panic, writes>>

NoZones  == [i \in 0 .. DIRECT |-> 0]
NoFile   == [open |-> FALSE, fd_pos |-> 0]
NewInode == [i_size |-> 0, i_zones |-> NoZones]
Got(n, words) == [n |-> n, words |-> words]

Init ==
  /\ imap = {} /\ zmap = {}
  /\ disk = [z \in Zone |-> [i \in Slot |-> 0]]
  /\ inode = [f \in Inode |-> NewInode]
  /\ file = [f \in Inode |-> NoFile]
  /\ got = Got(0, <<>>) /\ panic = FALSE /\ writes = 0

-----------------------------------------------------------------------------
(* Zones.                                                                  *)

\* A word read as the address of a sector; what lies outside the partition
\* reads as zeros.
ReadZone(d, z) == IF z \in Zone THEN d[z] ELSE [i \in Slot |-> 0]

\* The direct zones up to the first that is 0, then the indirect table.
inode_all_zones(d, n) ==
  LET Direct(i) == IF \E j \in 0 .. i : n.i_zones[j] = 0 THEN 0 ELSE n.i_zones[i]
      table     == n.i_zones[DIRECT]
  IN  [i \in 0 .. MAX_ZONE_COUNT - 1 |->
         IF i < DIRECT THEN Direct(i)
         ELSE IF table = 0 THEN 0 ELSE ReadZone(d, table)[i - DIRECT]]

CeilDiv(a, b) == (a + b - 1) \div b

\* Fault: the bit is not set.
zone_bitmap_alloc_unmarked(s) ==
  IF Zone \subseteq s.zmap THEN [s EXCEPT !.ok = FALSE]
  ELSE [s EXCEPT !.lba = Min(Zone \ s.zmap)]

\* find_block_bitmap takes the first free bit; -1 makes the write fail.
zone_bitmap_alloc(s) ==
  IF Zone \subseteq s.zmap THEN [s EXCEPT !.ok = FALSE]
  ELSE LET z == Min(Zone \ s.zmap) IN [s EXCEPT !.lba = z, !.zmap = @ \cup {z}]

-----------------------------------------------------------------------------
(* file_write.  A state s of the loop holds the bitmap, the disk, the      *)
(* inode, fd_pos, the write cursor, the zone just allocated, and whether   *)
(* it goes on.                                                             *)

\* The zone is entered in the table, which may have to be made first.
EnterInTable(s, n) ==
  LET made  == [s EXCEPT !.node.i_zones[DIRECT] = s.lba,
                         !.used = @ \/ s.disk[s.lba] # [i \in Slot |-> 0]]
      first == zone_bitmap_alloc(made)
      entry == IF n = DIRECT THEN first ELSE s
      table == entry.node.i_zones[DIRECT]
  IN  IF ~entry.ok THEN entry
      ELSE [entry EXCEPT !.disk[table][n - DIRECT] = entry.lba]

EnterZone(s, n) ==
  IF ~s.ok THEN s
  ELSE IF n < DIRECT THEN [s EXCEPT !.node.i_zones[n] = s.lba]
  ELSE EnterInTable(s, n)

\* len words from the cursor go to zone z, and old words stay behind them.
Store(s, z, buf, len, old) ==
  [s EXCEPT !.disk[z] = [i \in Slot |-> IF i < len THEN buf[s.cursor + i] ELSE old[i]],
            !.fd_pos = @ + len, !.cursor = @ + len]

\* A new zone: sys_malloc clears the buffer that the last chunk is copied to.
write_zone(s, buf, len) ==
  IF ~s.ok THEN s ELSE Store(s, s.lba, buf, len, [i \in Slot |-> 0])

\* A zone that the file has.  A whole zone is written from the address of the
\* cursor, not from where it points.
rewrite_zone(s, z, buf, len) ==
  IF len < ZONE_SIZE THEN Store(s, z, buf, len, s.disk[z])
  ELSE Store(s, z, [j \in DOMAIN buf |-> Garbage], len, s.disk[z])

\* One round of the loop: chunk i of the write goes to zone n of the file.
write_chunk(s, all, n, buf, len) ==
  IF ~s.ok THEN s
  ELSE IF all[n] = 0 THEN write_zone(EnterZone(zone_bitmap_alloc(s), n), buf, len)
  ELSE rewrite_zone(s, all[n], buf, len)

\* What a write of write_len words at fd_pos amounts to.
WritePlan(n, all, fd_pos, write_len) ==
  LET count  == Min({write_len, MAX_FILE_SIZE - fd_pos})
      rest   == fd_pos % ZONE_SIZE
      filled == IF rest = 0 THEN 0 ELSE Min({count, ZONE_SIZE - rest})
      at     == CeilDiv(fd_pos, ZONE_SIZE)
      end    == fd_pos = n.i_size /\ at < MAX_ZONE_COUNT /\ all[at] = 0
  IN  [count |-> count, rest |-> rest, filled |-> filled,
       zone_idx  |-> IF end THEN Min({i \in DOMAIN all : all[i] = 0}) ELSE at,
       chunk_cnt |-> CeilDiv(count - filled, ZONE_SIZE)]

\* Fault: the cursor is not moved on after the first zone has been filled up.
fill_rest_cursor(s, all, p, buf) ==
  IF p.rest = 0 THEN s
  ELSE LET z == all[p.zone_idx - 1]
       IN  [s EXCEPT !.disk[z] = [i \in Slot |-> IF i \in p.rest .. p.rest + p.filled - 1
                                                  THEN buf[i - p.rest] ELSE @[i]],
                     !.fd_pos = @ + p.filled]

\* The rest of the zone that fd_pos is in.
fill_rest(s, all, p, buf) ==
  IF p.rest = 0 THEN s
  ELSE LET z == all[p.zone_idx - 1]
       IN  [s EXCEPT !.disk[z] = [i \in Slot |-> IF i \in p.rest .. p.rest + p.filled - 1
                                                  THEN buf[i - p.rest] ELSE @[i]],
                     !.fd_pos = @ + p.filled, !.cursor = p.filled]

write_loop(n, fd_pos, write_len, buf) ==
  LET all == inode_all_zones(disk, n)
      p   == WritePlan(n, all, fd_pos, write_len)
      s   == [zmap |-> zmap, disk |-> disk, node |-> n, fd_pos |-> fd_pos,
              cursor |-> 0, lba |-> 0, ok |-> TRUE, used |-> FALSE]
      Len_(i) == Min({ZONE_SIZE, p.count - p.filled - i * ZONE_SIZE})
      Round(t, i) == write_chunk(t, all, p.zone_idx + i, buf, Len_(i))
  IN  FoldLeft(Round, fill_rest(s, all, p, buf), [i \in 1 .. p.chunk_cnt |-> i - 1])

\* Does the write replace a whole zone that the file has?
ReplacesZone(n, fd_pos, write_len) ==
  LET all == inode_all_zones(disk, n)
      p   == WritePlan(n, all, fd_pos, write_len)
  IN  \E i \in 0 .. p.chunk_cnt - 1 :
        /\ p.count - p.filled - i * ZONE_SIZE >= ZONE_SIZE
        /\ all[p.zone_idx + i] # 0

\* Without a free zone it returns at once: fd_pos has moved, i_size has not.
file_write(f, write_len, d) ==
  LET n == inode[f]
      s == write_loop(n, file[f].fd_pos, write_len, Buffer(d))
  IN  /\ ~panic /\ file[f].open /\ writes < MaxWrites
      /\ "whole_zone" \in Avoid => ~ReplacesZone(n, file[f].fd_pos, write_len)
      /\ "used_table" \in Avoid => ~s.used
      /\ zmap' = s.zmap /\ disk' = s.disk
      /\ file' = [file EXCEPT ![f].fd_pos = s.fd_pos]
      /\ inode' = [inode EXCEPT ![f] =
                     IF s.ok THEN [s.node EXCEPT !.i_size = Max({@, s.fd_pos})] ELSE s.node]
      /\ got' = Got(0, <<>>)
      /\ writes' = writes + 1
      /\ UNCHANGED <<imap, panic>>

-----------------------------------------------------------------------------
(* file_read.                                                              *)

\* The words that are copied to the caller when rd_len words are read.  Less
\* than a zone comes from one buffer; of more, the first zone counts as whole
\* although only its end is copied.
ReadWords(n, fd_pos, rd_len) ==
  LET all == inode_all_zones(disk, n)
      idx == fd_pos \div ZONE_SIZE
      off == fd_pos % ZONE_SIZE
      cnt == CeilDiv(rd_len, ZONE_SIZE)
      Words(i, from, len) ==
        [j \in 1 .. len |-> IF from + j > ZONE_SIZE THEN Garbage
                            ELSE ReadZone(disk, all[idx + i])[from + j - 1]]
      Piece(i) ==
        IF i = 0 /\ off > 0 THEN Words(i, off, ZONE_SIZE - off)
        ELSE IF i = cnt - 1 /\ rd_len % ZONE_SIZE # 0 THEN Words(i, 0, rd_len % ZONE_SIZE)
        ELSE Words(i, 0, ZONE_SIZE)
  IN  IF rd_len < ZONE_SIZE THEN Words(0, off, rd_len)
      ELSE FlattenSeq([i \in 1 .. cnt |-> Piece(i - 1)])

\* Does a read of rd_len words start inside a zone and end in another one?
Crosses(fd_pos, rd_len) ==
  fd_pos % ZONE_SIZE # 0 /\ (fd_pos % ZONE_SIZE) + rd_len > ZONE_SIZE

file_read(f, count) ==
  LET fd_pos == file[f].fd_pos
      size   == inode[f].i_size
      rd_len == Min({size - fd_pos, count})
      words  == ReadWords(inode[f], fd_pos, rd_len)
  IN  /\ ~panic /\ file[f].open
      /\ \/ /\ fd_pos > size + 1
            /\ panic' = TRUE
            /\ UNCHANGED <<file, got>>
         \/ /\ fd_pos = size + 1 \/ fd_pos = MAX_FILE_SIZE
            /\ got' = Got(0, <<>>)
            /\ UNCHANGED <<file, panic>>
         \/ /\ fd_pos <= size /\ fd_pos < MAX_FILE_SIZE
            /\ "crossing_read" \in Avoid => ~Crosses(fd_pos, rd_len)
            /\ got' = Got(rd_len, words)
            /\ file' = [file EXCEPT ![f].fd_pos = @ + Len(words)]
            /\ UNCHANGED panic
      /\ UNCHANGED <<imap, zmap, disk, inode, writes>>

NewPos(f, whence, offset) ==
  CASE whence = "SEEK_SET" -> offset
    [] whence = "SEEK_CUR" -> file[f].fd_pos + offset
    [] whence = "SEEK_END" -> inode[f].i_size + 1 + (offset - 1)

sys_lseek(f, whence, offset) ==
  LET new_pos == NewPos(f, whence, offset)
      found   == new_pos \in 0 .. inode[f].i_size
  IN  /\ ~panic /\ file[f].open
      /\ file' = IF found THEN [file EXCEPT ![f].fd_pos = new_pos] ELSE file
      /\ got' = Got(0, <<>>)
      /\ UNCHANGED <<imap, zmap, disk, inode, panic, writes>>

-----------------------------------------------------------------------------
(* Creating, opening, closing and removing files.                          *)

\* inode_bitmap_alloc takes the first free bit.
file_create ==
  /\ ~panic
  /\ IF Inode \subseteq imap
     THEN got' = Got(0, <<>>) /\ UNCHANGED <<imap, inode, file>>
     ELSE LET f == Min(Inode \ imap)
          IN  /\ imap' = imap \cup {f}
              /\ inode' = [inode EXCEPT ![f] = NewInode]
              /\ file' = [file EXCEPT ![f] = [open |-> TRUE, fd_pos |-> 0]]
              /\ got' = Got(0, <<>>)
  /\ UNCHANGED <<zmap, disk, panic, writes>>

file_open(f) ==
  /\ ~panic /\ f \in imap /\ ~file[f].open
  /\ file' = [file EXCEPT ![f] = [open |-> TRUE, fd_pos |-> 0]]
  /\ got' = Got(0, <<>>)
  /\ UNCHANGED <<imap, zmap, disk, inode, panic, writes>>

file_close(f) ==
  /\ ~panic /\ file[f].open
  /\ file' = [file EXCEPT ![f] = NoFile]
  /\ got' = Got(0, <<>>)
  /\ UNCHANGED <<imap, zmap, disk, inode, panic, writes>>

\* The zones up to the first entry that is 0, and the table.
inode_release(f) ==
  LET all   == inode_all_zones(disk, inode[f])
      Freed == {all[i] : i \in {j \in DOMAIN all : \A k \in 0 .. j : all[k] # 0}}
  IN  /\ zmap' = zmap \ (Freed \cup {inode[f].i_zones[DIRECT]})
      /\ imap' = imap \ {f}
      /\ inode' = [inode EXCEPT ![f] = NewInode]

\* A file that is open is not removed.
sys_unlink(f) ==
  /\ ~panic /\ f \in imap
  /\ IF file[f].open
     THEN got' = Got(0, <<>>) /\ UNCHANGED <<imap, zmap, inode>>
     ELSE got' = Got(0, <<>>) /\ inode_release(f)
  /\ UNCHANGED <<disk, file, panic, writes>>

Whence == {"SEEK_SET", "SEEK_CUR", "SEEK_END"}
Offset == {-1, 0, 1, ZONE_SIZE + 1}

Next ==
  \/ file_create
  \/ \E f \in Inode :
       \/ file_open(f) \/ file_close(f) \/ sys_unlink(f)
       \/ \E count \in Counts :
            file_read(f, count) \/ \E d \in Datum : file_write(f, count, d)
       \/ \E whence \in Whence, offset \in Offset : sys_lseek(f, whence, offset)

Spec == Init /\ [][Next]_vars

-----------------------------------------------------------------------------
(* Properties.                                                             *)

\* The places where a file keeps the address of a zone; the last is its table.
Places == imap \X (0 .. MAX_ZONE_COUNT)
ZoneAt(p) == IF p[2] = MAX_ZONE_COUNT THEN inode[p[1]].i_zones[DIRECT]
             ELSE inode_all_zones(disk, inode[p[1]])[p[2]]

\* zone_bitmap_alloc and inode_release: no zone belongs to two files, or twice
\* to one, and the zones of a file are marked, also after a failed write.
ZonesOwned ==
  LET zone == [p \in Places |-> ZoneAt(p)]
  IN  /\ \A p \in Places : zone[p] \in zmap \cup {0}
      /\ \A p, q \in Places : p # q /\ zone[p] = zone[q] => zone[p] = 0

\* The words of file f, as file_read finds them.
WordsOf(f) ==
  LET all == inode_all_zones(disk, inode[f])
  IN  [i \in 0 .. MAX_FILE_SIZE - 1 |->
         IF all[i \div ZONE_SIZE] = 0 THEN 0
         ELSE ReadZone(disk, all[i \div ZONE_SIZE])[i % ZONE_SIZE]]

Files_ == INSTANCE WordFiles WITH
  File <- Inode, MaxSize <- MAX_FILE_SIZE, Buf <- {Buffer(d) : d \in Datum},
  exists <- imap,
  words <- [f \in Inode |-> WordsOf(f)],
  size <- [f \in Inode |-> inode[f].i_size],
  pos <- [f \in Inode |-> file[f].fd_pos],
  read <- got

\* The zones, tables and bitmaps amount to files of words: a write puts its
\* words at the position and nowhere else, a write that fails has put a first
\* part of them there, a read returns what was written.
ImplementsFiles == Files_!Spec
=============================================================================
