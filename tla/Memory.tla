------------------------------- MODULE Memory -------------------------------
(***************************************************************************)
(* The memory manager (mm/memory.c, lib/bitmap.c) and those who use it:    *)
(* the pages of a process in process.c, exec.c, fork.c and exit.c.         *)
(*                                                                         *)
(* A page is PG_SIZE units long; the first HEADER of an arena are its      *)
(* header.  Physical pages are numbered from 1, the kernel pool before the *)
(* user pool; 0 is NULL.  Virtual pages are counted from the start of the  *)
(* kernel heap or of the user space.                                       *)
(*                                                                         *)
(* Calls of processes are not interrupted.  main is a kernel thread and    *)
(* can be preempted: between looking for a free page and taking it, it     *)
(* holds the lock of the kernel pool, on which the other callers of        *)
(* get_kernel_page and sys_malloc wait.  The first run of a new process,   *)
(* start_process, is kernel code with interrupts on as well (kernel_thread *)
(* enables them), and takes its pages without a lock.                      *)
(*                                                                         *)
(* Avoid names what the code gets wrong, for a run to leave out:           *)
(* "unlocked_start", a first run that takes for its stack a page that      *)
(* somebody else has taken since it was found free; "unlocked_table", a    *)
(* page table taken from the kernel pool without its lock while main holds *)
(* it or after somebody else has taken the page; "no_table", a page table  *)
(* when the kernel pool is empty; "inherited_free", a child that frees a   *)
(* block of its parent's.                                                  *)
(***************************************************************************)
EXTENDS Integers, FiniteSetsExt, SequencesExt

CONSTANTS Proc,       \* user processes
          all_pages,  \* free pages of the machine, after the page tables
          BYTE,       \* bits in a byte of a bitmap: 8
          WORD,       \* uint_16 is a number modulo WORD: 2^16
          UPages,     \* pages of the user space
          PT,         \* entries of a page table: 1024
          PG_SIZE, HEADER,
          block_size, \* <<16, 32, ..., 1024>>
          Sizes,      \* what is asked of sys_malloc
          Program,    \* the pages an executable is loaded to
          Avoid,      \* the calls that are left out
          MaxCalls    \* bound: the number of calls

ASSUME MemoryBounds ==
  /\ {all_pages, BYTE, WORD, UPages, PT, PG_SIZE, HEADER} \subseteq Nat \ {0}
  /\ Sizes \subseteq Nat /\ Program \subseteq 0 .. UPages - 1 /\ MaxCalls \in Nat
  /\ Avoid \subseteq {"unlocked_start", "unlocked_table", "no_table", "inherited_free"}

CeilDiv(a, b) == (a + b - 1) \div b

-----------------------------------------------------------------------------
(* The pools.  A bitmap has whole bytes, so that the last pages of a pool  *)
(* may never be used.                                                      *)

mem_pool_init ==
  LET all_free_pages   == all_pages % WORD
      kernel_free_page == all_free_pages \div 2
      user_free_page   == all_free_pages - kernel_free_page
  IN  [kernel |-> [start |-> 1, pages |-> kernel_free_page,
                   bits |-> (kernel_free_page \div BYTE) * BYTE],
       user   |-> [start |-> 1 + kernel_free_page, pages |-> user_free_page,
                   bits |-> (user_free_page \div BYTE) * BYTE]]

Pool == {"kernel", "user"}
Start(pool) == mem_pool_init[pool].start
Bits(pool)  == mem_pool_init[pool].bits

\* Kernel memory is an address space of its own; its bitmap is as long as the
\* kernel pool's.
Kernel == "kernel"
Space == Proc \cup {Kernel}
PoolOf(s) == IF s = Kernel THEN "kernel" ELSE "user"
PagesOf(s) == IF s = Kernel THEN 0 .. Bits("kernel") - 1 ELSE 0 .. UPages - 1
Table == 0 .. (UPages - 1) \div PT

\* USER_STACK3_VADDR: the last page.
Stack == UPages - 1

Desc == 1 .. Len(block_size)
blocks_per_arena(d) == (PG_SIZE - HEADER) \div block_size[d]

NoTable == -1
NoArena == [owner |-> Kernel, desc |-> 0, cnt |-> 0, large |-> FALSE]

VARIABLES m,      \* the memory: bitmaps, page tables, arenas and free lists
          given,  \* given[s]: the addresses that sys_malloc has returned in s
          proc,   \* proc[p]: status, its kernel pages (TCB, bitmap, pgdir), and in its
                  \* first run the page of its stack and the bit that it has found
          main,   \* where main is in malloc_page
          calls   \* how many calls were made (bound)

vars == <<m, given, proc, main, calls>>

NoProc == [status |-> "none", tcb |-> -1, bitmap |-> -1, pgdir |-> -1, page |-> 0, pos |-> -1]
Idle == [pc |-> "idle", size |-> 0, at |-> 0, left |-> 0, first |-> 0, pos |-> -1]

EmptySpace(s) == [v \in PagesOf(s) |-> 0]

Init ==
  /\ m = [used  |-> [pool \in Pool |-> {}],
          vmap  |-> [s \in Space |-> {}],
          pt    |-> [s \in Space |-> EmptySpace(s)],
          tab   |-> [p \in Proc |-> [t \in Table |-> NoTable]],
          arena |-> [s \in Space |-> [v \in PagesOf(s) |-> NoArena]],
          free  |-> [s \in Space |-> [d \in Desc |-> <<>>]],
          short |-> FALSE,  \* an allocation has failed half way
          panic |-> FALSE]
  /\ given = [s \in Space |-> {}]
  /\ proc = [p \in Proc |-> NoProc]
  /\ main = Idle /\ calls = 0

-----------------------------------------------------------------------------
(* Bitmaps.                                                                *)

\* From bit n on, with count free bits right before it.
RECURSIVE CountBits(_, _, _, _, _)
CountBits(set, bits, cnt, n, count) ==
  IF count = cnt THEN n - cnt
  ELSE IF n >= bits THEN -1
  ELSE CountBits(set, bits, cnt, n + 1, IF n \in set THEN 0 ELSE count + 1)

\* That the count starts in the first byte that is not full, at its first free
\* bit, makes no difference to what is found.
find_block_bitmap(set, bits, cnt) ==
  IF cnt = 0 THEN -1 ELSE CountBits(set, (bits \div BYTE) * BYTE, cnt, 0, 0)

-----------------------------------------------------------------------------
(* Pages.  An operator takes the memory k and returns it changed; one with *)
(* a result returns a record with it.                                      *)

\* A physical page; NULL without one.
get_free_page(k, pool) ==
  LET pos == find_block_bitmap(k.used[pool], Bits(pool), 1)
  IN  IF pos = -1 THEN [k |-> k, page |-> 0]
      ELSE [k |-> [k EXCEPT !.used[pool] = @ \cup {pos}], page |-> pos + Start(pool)]

\* Free pages that follow each other, or -1.
get_free_vaddress(k, s, pg_cnt) ==
  LET pos == find_block_bitmap(k.vmap[s], Cardinality(PagesOf(s)), pg_cnt)
  IN  IF pos = -1 THEN [k |-> k, v |-> -1]
      ELSE [k |-> [k EXCEPT !.vmap[s] = @ \cup (pos .. pos + pg_cnt - 1)], v |-> pos]

\* A missing page table is made from the kernel pool, without its lock and
\* without looking whether there was a page.  The kernel has all its tables.
put_page(k, s, v, page) ==
  LET t == v \div PT
      g == get_free_page(k, "kernel")
  IN  IF s = Kernel \/ (s # Kernel /\ k.tab[s][t] # NoTable)
      THEN [k EXCEPT !.pt[s][v] = page]
      ELSE [g.k EXCEPT !.tab[s][t] = g.page, !.pt[s][v] = page]

\* Pages v, v + 1, ... of s get physical pages; what was done stays when there
\* are not enough.
RECURSIVE MapPages(_, _, _, _)
MapPages(k, s, v, pg_cnt) ==
  LET g == get_free_page(k, PoolOf(s))
  IN  IF pg_cnt = 0 THEN [k |-> k, ok |-> TRUE]
      ELSE IF g.page = 0 THEN [k |-> [k EXCEPT !.short = TRUE], ok |-> FALSE]
      ELSE MapPages(put_page(g.k, s, v, g.page), s, v + 1, pg_cnt - 1)

malloc_page(k, s, pg_cnt) ==
  LET a == get_free_vaddress(k, s, pg_cnt)
      r == MapPages(a.k, s, a.v, pg_cnt)
  IN  IF a.v = -1 THEN a ELSE [k |-> r.k, v |-> IF r.ok THEN a.v ELSE -1]

\* PANIC for a page below the pool, ASSERT for one behind it.
free_page(k, pool, page) ==
  LET pos == page - Start(pool)
  IN  IF pos \in 0 .. Bits(pool) - 1 THEN [k EXCEPT !.used[pool] = @ \ {pos}]
      ELSE [k EXCEPT !.panic = TRUE]

free_phy_page(k, page) ==
  free_page(k, IF page >= Start("user") THEN "user" ELSE "kernel", page)

\* Fault: only the first page is given back.
mfree_page_first(k, s, v, pg_cnt) ==
  LET r == free_page(k, PoolOf(s), k.pt[s][v])
  IN  [r EXCEPT !.pt[s][v] = 0, !.arena[s][v] = NoArena, !.vmap[s] = @ \ (v .. v + pg_cnt - 1)]

RECURSIVE mfree_page(_, _, _, _)
mfree_page(k, s, v, pg_cnt) ==
  IF pg_cnt = 0 THEN k
  ELSE mfree_page([free_page(k, PoolOf(s), k.pt[s][v]) EXCEPT
                     !.pt[s][v] = 0, !.arena[s][v] = NoArena, !.vmap[s] = @ \ {v}],
                  s, v + 1, pg_cnt - 1)

\* A page at a given address, without a lock.
malloc_page_with_vaddr(k, p, v) ==
  LET r == MapPages([k EXCEPT !.vmap[p] = @ \cup {v}], p, v, 1)
  IN  [k |-> r.k, v |-> IF r.ok THEN v ELSE -1]

-----------------------------------------------------------------------------
(* sys_malloc and sys_free.                                                *)

DescFor(size) == Min({d \in Desc : size <= block_size[d]})
IsLarge(size) == size > block_size[Len(block_size)]
PageCnt(size) == IF IsLarge(size) THEN CeilDiv(size + HEADER, PG_SIZE) ELSE 1

\* The new pages from v on become an arena.
new_arena(k, s, v, size) ==
  IF IsLarge(size)
  THEN [k EXCEPT !.arena[s][v] =
          [owner |-> s, desc |-> 0, cnt |-> PageCnt(size), large |-> TRUE]]
  ELSE LET d == DescFor(size)
           n == blocks_per_arena(d)
       IN  [k EXCEPT !.arena[s][v] = [owner |-> s, desc |-> d, cnt |-> n, large |-> FALSE],
                     !.free[s][d] = @ \o [i \in 1 .. n |-> <<v, i>>]]

\* The address that is returned: behind the header of a large arena, else the
\* first free block.
take_block(k, s, v, size) ==
  IF IsLarge(size) THEN [k |-> k, ptr |-> <<v, 1>>]
  ELSE LET d == DescFor(size)
           b == Head(k.free[s][d])
       IN  [k |-> [k EXCEPT !.free[s][d] = Tail(@), !.arena[s][b[1]].cnt = @ - 1], ptr |-> b]

SizeAllowed(s, size) == size > 0 /\ size < mem_pool_init[PoolOf(s)].pages * PG_SIZE
NeedsPages(k, s, size) == ~IsLarge(size) => k.free[s][DescFor(size)] = <<>>
NULL == <<-1, 0>>

sys_malloc(k, s, size) ==
  LET r == malloc_page(k, s, PageCnt(size))
  IN  IF ~SizeAllowed(s, size) THEN [k |-> k, ptr |-> NULL]
      ELSE IF ~NeedsPages(k, s, size) THEN take_block(k, s, 0, size)
      ELSE IF r.v = -1 THEN [k |-> r.k, ptr |-> NULL]
      ELSE take_block(new_arena(r.k, s, r.v, size), s, r.v, size)

\* Fault: the arena of a block that was the last one keeps its page, but its
\* blocks leave the free list.
sys_free_keep(k, s, ptr) ==
  LET v == ptr[1]
      a == k.arena[s][v]
      f == [k EXCEPT !.free[a.owner][a.desc] = Append(@, ptr), !.arena[s][v].cnt = @ + 1]
  IN  IF a.large THEN mfree_page(k, s, v, a.cnt)
      ELSE IF a.cnt + 1 < blocks_per_arena(a.desc) THEN f
      ELSE [f EXCEPT !.free[a.owner][a.desc] = SelectSeq(@, LAMBDA b : b[1] # v)]

\* The header tells the list; the last block gives the page back.
sys_free(k, s, ptr) ==
  LET v == ptr[1]
      a == k.arena[s][v]
      f == [k EXCEPT !.free[a.owner][a.desc] = Append(@, ptr), !.arena[s][v].cnt = @ + 1]
      g == [f EXCEPT !.free[a.owner][a.desc] = SelectSeq(@, LAMBDA b : b[1] # v)]
  IN  IF a.large THEN mfree_page(k, s, v, a.cnt)
      ELSE IF a.cnt + 1 < blocks_per_arena(a.desc) THEN f
      ELSE mfree_page(g, s, v, 1)

-----------------------------------------------------------------------------
(* What processes do.                                                      *)

Calls == ~m.panic /\ calls < MaxCalls /\ calls' = calls + 1

\* The lock of the kernel pool is free.
Unlocked == main.pc = "idle"

\* The new page tables of process p.
TablesMade(p, k) == {t \in Table : m.tab[p][t] = NoTable /\ k.tab[p][t] # NoTable}
TablesAllowed(p, k) ==
  TablesMade(p, k) # {} => /\ "unlocked_table" \in Avoid => Unlocked
                           /\ "no_table" \in Avoid => \A t \in Table : k.tab[p][t] # 0

Malloc(s, size) ==
  LET r == sys_malloc(m, s, size)
  IN  /\ Calls
      /\ IF s = Kernel THEN Unlocked ELSE proc[s].status = "runs" /\ TablesAllowed(s, r.k)
      /\ m' = r.k
      /\ given' = [given EXCEPT ![s] = IF r.ptr = NULL THEN @ ELSE @ \cup {r.ptr}]
      /\ UNCHANGED <<proc, main>>

Free(s, ptr) ==
  /\ Calls
  /\ IF s = Kernel THEN Unlocked ELSE proc[s].status = "runs"
  /\ "inherited_free" \in Avoid => m.arena[s][ptr[1]].large \/ m.arena[s][ptr[1]].owner = s
  /\ m' = sys_free(m, s, ptr)
  /\ given' = [given EXCEPT ![s] = @ \ {ptr}]
  /\ UNCHANGED <<proc, main>>

\* The kernel pages of a new process, in this order: TCB, bitmap, page
\* directory.  Nobody looks at NULL: the machine is lost.
process_execute(p) ==
  LET t == malloc_page(m, Kernel, 1)
      b == malloc_page(t.k, Kernel, 1)
      d == malloc_page(b.k, Kernel, 1)
  IN  /\ Calls /\ Unlocked /\ proc[p].status = "none"
      /\ m' = IF -1 \in {t.v, b.v, d.v} THEN [d.k EXCEPT !.panic = TRUE] ELSE d.k
      /\ proc' = [proc EXCEPT ![p] =
                    [NoProc EXCEPT !.status = "starts", !.tcb = t.v, !.bitmap = b.v, !.pgdir = d.v]]
      /\ UNCHANGED <<given, main>>

\* The first run of p, which can be preempted everywhere: malloc_page_with_vaddr
\* marks the address and finds a page for the stack, ...
start_process(p) ==
  LET pos == find_block_bitmap(m.used["user"], Bits("user"), 1)
  IN  /\ Calls /\ proc[p].status = "starts"
      /\ m' = [m EXCEPT !.vmap[p] = @ \cup {Stack}, !.panic = (pos = -1)]
      /\ proc' = [proc EXCEPT ![p].status = "stack", ![p].pos = pos]
      /\ UNCHANGED <<given, main>>

\* ... takes it, ...
StartTakes(p) ==
  /\ ~m.panic /\ proc[p].status = "stack"
  /\ "unlocked_start" \in Avoid => proc[p].pos \notin m.used["user"]
  /\ m' = [m EXCEPT !.used["user"] = @ \cup {proc[p].pos}]
  /\ proc' = [proc EXCEPT ![p].status = "stacked", ![p].page = proc[p].pos + Start("user")]
  /\ UNCHANGED <<given, main, calls>>

\* ... and put_page finds a page for the page table, ...
StartFinds(p) ==
  LET pos == find_block_bitmap(m.used["kernel"], Bits("kernel"), 1)
  IN  /\ ~m.panic /\ proc[p].status = "stacked"
      /\ "no_table" \in Avoid => pos # -1
      /\ proc' = [proc EXCEPT ![p].status = "table", ![p].pos = pos]
      /\ UNCHANGED <<m, given, main, calls>>

\* ... and takes that one.
StartMaps(p) ==
  LET pos   == proc[p].pos
      table == IF pos = -1 THEN 0 ELSE pos + Start("kernel")
  IN  /\ ~m.panic /\ proc[p].status = "table"
      /\ "unlocked_table" \in Avoid => Unlocked /\ pos \notin m.used["kernel"]
      /\ m' = [m EXCEPT !.used["kernel"] = IF pos = -1 THEN @ ELSE @ \cup {pos},
                        !.tab[p][Stack \div PT] = table, !.pt[p][Stack] = proc[p].page]
      /\ proc' = [proc EXCEPT ![p].status = "runs", ![p].page = 0, ![p].pos = -1]
      /\ UNCHANGED <<given, main, calls>>

\* The pages of a program that are not there yet.
load_code(p, v) ==
  LET r == malloc_page_with_vaddr(m, p, v)
  IN  /\ Calls /\ proc[p].status = "runs" /\ m.pt[p][v] = 0 /\ TablesAllowed(p, r.k)
      /\ m' = r.k
      /\ UNCHANGED <<given, proc, main>>

\* Fault: the child maps the page of its parent.
copy_body_stack3_shared(k, p, q) ==
  FoldLeft(LAMBDA r, v : put_page(r, q, v, r.pt[p][v]), k, SetToSortSeq(k.vmap[p], <))

\* The child q gets a page for every bit of the parent's bitmap.  A bit without
\* a page, or no page for the child, and the copy faults.
copy_body_stack3(k, p, q) ==
  LET One(r, v) ==
        LET g == get_free_page(r, "user")
        IN  IF g.page = 0 \/ r.pt[p][v] = 0 THEN [r EXCEPT !.panic = TRUE]
            ELSE put_page(g.k, q, v, g.page)
  IN  FoldLeft(One, k, SetToSortSeq(k.vmap[p], <))

\* sys_fork: TCB, a buffer, the bitmap, the page directory, then the pages.
\* When one of the first four is missing the call fails and the others are
\* lost.  The child has no free blocks; the headers of the arenas that it
\* inherits still name the parent's lists.
sys_fork(p, q) ==
  LET t == malloc_page(m, Kernel, 1)
      f == malloc_page(t.k, Kernel, 1)
      b == malloc_page(f.k, Kernel, 1)
      d == malloc_page(b.k, Kernel, 1)
      copied == copy_body_stack3([d.k EXCEPT !.vmap[q] = m.vmap[p], !.arena[q] = m.arena[p]], p, q)
      last == IF t.v = -1 THEN t ELSE IF f.v = -1 THEN f ELSE IF b.v = -1 THEN b ELSE d
  IN  /\ Calls /\ Unlocked /\ proc[p].status = "runs" /\ proc[q].status = "none"
      /\ IF last.v = -1
         THEN m' = [last.k EXCEPT !.short = TRUE] /\ UNCHANGED <<given, proc>>
         ELSE /\ TablesAllowed(q, copied)
              /\ m' = mfree_page(copied, Kernel, f.v, 1)
              /\ given' = [given EXCEPT ![q] = given[p]]
              /\ proc' = [proc EXCEPT ![q] =
                            [NoProc EXCEPT !.status = "runs", !.tcb = t.v, !.bitmap = b.v, !.pgdir = d.v]]
      /\ UNCHANGED main

\* Every page of every table, then the table; then the bitmap.
release_proc_resource(k, p) ==
  LET FreePage(r, v) == IF r.pt[p][v] = 0 THEN r ELSE free_phy_page(r, r.pt[p][v])
      FreeTable(r, t) ==
        IF r.tab[p][t] = NoTable THEN r
        ELSE free_phy_page(FoldLeft(FreePage, r, SetToSortSeq({v \in PagesOf(p) : v \div PT = t}, <)),
                           r.tab[p][t])
  IN  mfree_page(FoldLeft(FreeTable, k, SetToSortSeq(Table, <)), Kernel, proc[p].bitmap, 1)

sys_exit(p) ==
  /\ Calls /\ proc[p].status = "runs"
  /\ m' = release_proc_resource(m, p)
  /\ proc' = [proc EXCEPT ![p].status = "died"]
  /\ given' = [given EXCEPT ![p] = {}]
  /\ UNCHANGED main

\* The parent takes the page directory and the TCB back.
thread_exit(p) ==
  LET k == mfree_page(mfree_page(m, Kernel, proc[p].pgdir, 1), Kernel, proc[p].tcb, 1)
  IN  /\ Calls /\ proc[p].status = "died"
      /\ m' = [k EXCEPT !.vmap[p] = {}, !.pt[p] = EmptySpace(p),
                        !.tab[p] = [t \in Table |-> NoTable],
                        !.arena[p] = [v \in PagesOf(p) |-> NoArena],
                        !.free[p] = [d \in Desc |-> <<>>]]
      /\ proc' = [proc EXCEPT ![p] = NoProc]
      /\ UNCHANGED <<given, main>>

-----------------------------------------------------------------------------
(* main in sys_malloc: it takes the lock and finds addresses, looks for a  *)
(* physical page, takes it, and so on.                                     *)

MainBegins(size) ==
  LET a == get_free_vaddress(m, Kernel, PageCnt(size))
  IN  /\ Calls /\ Unlocked /\ SizeAllowed(Kernel, size) /\ NeedsPages(m, Kernel, size) /\ a.v # -1
      /\ m' = a.k
      /\ main' = [pc |-> "find", size |-> size, at |-> a.v, first |-> a.v,
                  left |-> PageCnt(size), pos |-> -1]
      /\ UNCHANGED <<given, proc>>

\* Without a page it returns; the pages that it has are lost.
MainFinds ==
  LET pos == find_block_bitmap(m.used["kernel"], Bits("kernel"), 1)
  IN  /\ ~m.panic /\ main.pc = "find"
      /\ IF pos = -1 THEN main' = Idle /\ m' = [m EXCEPT !.short = TRUE]
         ELSE main' = [main EXCEPT !.pc = "take", !.pos = pos] /\ UNCHANGED m
      /\ UNCHANGED <<given, proc, calls>>

MainTakes ==
  LET k == put_page([m EXCEPT !.used["kernel"] = @ \cup {main.pos}], Kernel, main.at,
                    main.pos + Start("kernel"))
      r == take_block(new_arena(k, Kernel, main.first, main.size), Kernel, main.first, main.size)
  IN  /\ ~m.panic /\ main.pc = "take"
      /\ IF main.left > 1
         THEN /\ m' = k /\ UNCHANGED given
              /\ main' = [main EXCEPT !.pc = "find", !.at = @ + 1, !.left = @ - 1, !.pos = -1]
         ELSE /\ m' = r.k /\ main' = Idle
              /\ given' = [given EXCEPT ![Kernel] = @ \cup {r.ptr}]
      /\ UNCHANGED <<proc, calls>>

Next ==
  \/ \E s \in Space : (\E size \in Sizes : Malloc(s, size)) \/ \E ptr \in given[s] : Free(s, ptr)
  \/ \E p \in Proc : \/ process_execute(p) \/ sys_exit(p) \/ thread_exit(p)
                     \/ start_process(p) \/ StartTakes(p) \/ StartFinds(p) \/ StartMaps(p)
                     \/ \E v \in Program : load_code(p, v)
                     \/ \E q \in Proc \ {p} : sys_fork(p, q)
  \/ \E size \in Sizes : MainBegins(size)
  \/ MainFinds \/ MainTakes

Spec == Init /\ [][Next]_vars

-----------------------------------------------------------------------------
(* Properties.                                                             *)

\* Where the kernel keeps a physical page: in the page table of the kernel or of
\* a process that has not exited, as such a table, or on the way to one.
Alive == {p \in Proc : proc[p].status \notin {"none", "died"}}
Uses == {<<"page", s, v>> : s \in {Kernel} \cup Alive, v \in 0 .. Max({UPages, Bits("kernel")}) - 1}
          \cup {<<"table", p, t>> : p \in Alive, t \in Table} \cup {<<"stack", p>> : p \in Alive}
PageOf(u) ==
  IF u[1] = "stack" THEN proc[u[2]].page
  ELSE IF u[1] = "table" THEN Max({0, m.tab[u[2]][u[3]]})
  ELSE IF u[3] \in PagesOf(u[2]) THEN m.pt[u[2]][u[3]] ELSE 0
InUse == {u \in Uses : PageOf(u) # 0}
Marked == UNION {{pos + Start(pool) : pos \in m.used[pool]} : pool \in Pool}

\* get_free_page, where nobody comes between its two halves: a physical page is
\* mapped once, by one process or the kernel, and is marked as long as it is
\* mapped.
FramesOwned ==
  ~m.panic => /\ \A u \in InUse : PageOf(u) \in Marked
              /\ \A u, w \in InUse : PageOf(u) = PageOf(w) => u = w

\* fork, exit, wait, malloc and free together give every page back; only an
\* allocation that fails half way loses some.
OnlyFailuresLeak ==
  ~m.panic /\ ~m.short /\ Unlocked => Marked = {PageOf(u) : u \in InUse}

\* The blocks of an arena are either on the list of its size or at a caller, its
\* count is the number of the free ones, and an arena without callers is gone.
HeapExact ==
  ~m.panic =>
    \A s \in Space : s \in Alive \cup {Kernel} =>
      LET free == UNION {ToSet(m.free[s][d]) : d \in Desc}
          Small(v) == m.arena[s][v].owner = s /\ m.arena[s][v].desc # 0
      IN  /\ \A d \in Desc : IsInjective(m.free[s][d])
          /\ \A b \in free : Small(b[1])
          /\ free \cap given[s] = {}
          /\ \A b \in given[s] : m.pt[s][b[1]] # 0
          /\ \A v \in PagesOf(s) : Small(v) =>
               LET blocks == {<<v, i>> : i \in 1 .. blocks_per_arena(m.arena[s][v].desc)}
               IN  /\ blocks \subseteq free \cup given[s]
                   /\ m.arena[s][v].cnt = Cardinality(blocks \cap free)
                   /\ blocks \cap given[s] # {}

=============================================================================
