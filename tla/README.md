# A TLA+ model of the Frog kernel

Frog (`src/core`) is a small 32 bit x86 kernel in C: preemptive round-robin
threads, blocking locks and semaphores, synchronous message passing, an ATA
driver, a file system, pipes, timers, a package file system and a compositor on
top. There are no automated tests. This directory models the kernel from its
lists up to the compositor, checks the models with TLC and proves, with TLAPS, the
main results about the scheduler and the locks, I/O queues, process life cycle, message
passing, the input devices and those who wait for them, and the compositor.

## 1. How the kernel executes

Everything below rests on the following facts of the code.

* One CPU. Every IDT entry is an interrupt gate (`protect.c:28`), so system
  calls and interrupt handlers run with interrupts disabled. User code and the
  kernel threads `main` and `idle` run with them enabled, and so does the first run
  of a process that the kernel starts: `kernel_thread` (`threads.c:61`) executes
  `sti` before `start_process`, up to its `intr_exit`. That run takes pages
  (`Memory`) and no locks; in `Locks` it is part of `"user"`. A forked child starts
  at `intr_exit`.
* Hence a process in a system call loses the CPU only where it calls
  `schedule()` itself (it blocks or yields), whereas `main` may be preempted
  between any two statements that are not between `intr_disable` and
  `intr_set_status`.
* `switch_to` does not save the interrupt flag; a thread finds interrupts as it
  left them because each path restores its own `old_status`.
* `ASSERT` and `PANIC` end in `cli; hlt`: the machine stops.
* `thread_init` runs before the first `sti` (`bootpack.c:137`). `init` is
  created first, then the TCB of `main`, then `idle`.

## 2. Inventory

| Component | State | Operations | Hard behaviour | What makes it correct |
|---|---|---|---|---|
| Lists (`lib/list.c`) | two pointers per node | add, delete, pop, move, splice, find, walk | one tag is shared by many lists; misuse corrupts silently | both chains intact, a tag on one list, equals a sequence |
| Scheduler (`thread/threads.c`, `sched.c`, `process.c`) | ready list, status, time slices | schedule, block, unblock, yield, tick, start | preemption anywhere in kernel threads | ready list = ready threads, no assertion, no starvation |
| Semaphores, locks (`thread/semaphore.c`) | counter, waiting queue, holder, repeat count | down, up, fetch, release | fields updated one by one under preemption; barging | exclusion, no lost wake-up, recursive lock semantics |
| ATA driver (`device/ide.c`) | registers, `expecting_intr`, `disk_done` | read, write, interrupt, poll with time limit | interrupt before or after the sleep, errors, late answers | a thread moves its own data, no stale signal, the channel is given up |
| Message passing (`ipc/ipc.c`) | flags, `p_sendto`, `p_recvfrom`, sending queues, message buffers | send, receive, both, interrupt notification | rendezvous in either order, cycles of senders | exactly once, no cycle, order of the queue |
| Process life cycle (`thread/fork.c`, `exit.c`, `threads.c`) | pid map, all-threads list, parent links | fork, exit, wait, thread_exit | exit before/after wait, adoption | every zombie is reaped once |
| I/O queues, pipes (`lib/ioqueue.c`, `fs/pipe.c`) | ring buffer, two waiting lists | put, get | both sides wait; all waiters woken | FIFO, no overflow, no lost wake-up |
| Timers (`frog/timer.c`, `sched.c`) | five wheels, `timer_jiffies` | add, delete, cascade, run | 32 bit wrap-around, cascading | a timer fires at its tick, once |
| Polling (`fs/select.c`, wait queues of `sched.c`) | wait queues, poll tables | wait2, wake_up, timeout | device event against timeout; a wake-up reaches one waiter | no lost event, thread on one list, every wait ends |
| Keyboard, mouse (`device/ps2hid.c`, `pc_kbd.c`, `pc_mouse.c`) | decoder state, three rings | interrupt, read, poll, open | several bytes in one interrupt, framing, overrun | a ring holds what was typed or reported |
| Memory (`mm/memory.c`, `lib/bitmap.c`) | two pools, page tables, arenas, free lists | page and block allocation, fork, exec, exit | failure half way, paths without the lock | no page given twice, nothing leaked |
| Files (`fs/file.c`, `inode.c`) | inodes, bitmaps, zones, positions | create, open, read, write, seek, unlink | failure half way with roll-back | an array of words; no zone in two files |
| Directories (`fs/dir.c`, `fs.c`, `inode.c`) | entries, inodes in memory and on disk, file table, streams | open, mkdir, unlink, rmdir, chdir, getcwd, readdir, mount | calls that overlap, restart between two disk writes, inodes shared without a count | names once, findable, zones owned, no dangling inode |
| Package file system (`vfs/packagefs.c`, `lib/packetx.c`) | server and client queues | bind, connect, send, receive | server and client wait for each other | packages whole and to the right client |
| Compositor (`apps/compositor.c`, `lib/poudland.c`, `lib/hashmap.c`) | windows, stack, map, damage, mouse state | create, move, close, focus, drag, redraw | stale window pointers, events against answers | the screen shows the windows; the window on top gets the event |
| Console, graphics, C library, boot | | | | not modelled, or in part: see section 8 |

Components interact through the scheduler (every blocking operation ends in
`thread_block` or `schedule`, every wake-up in `thread_unblock` or
`try_to_wake_up`) and through `general_tag`, the one list node by which a thread
is on the ready list or on a waiting queue.

## 3. Modules

`KernelList` <- `Threads` <- `Locks` <- `Ide` is the chain of the core, each
module extending the one before; `ListOps` also extends `KernelList`.
`IoQueue` and `ProcLife` extend `Locks` too. `Compositor` extends `Packages`, the
queues between it and its clients. `SeqLists`, `RecursiveLock`, `ByteFifo`,
`Alarms`, `Family` and `WordFiles` are abstract specifications. `Ipc`,
`TimerWheel`, `Input`, `Memory`, `Files` and `Dirs` stand alone: with interrupts
off in system calls, the scheduler enters them only as far as their text says.
`MC*` modules fix constants for TLC. `LocksProofs` (which begins with the lemmas
about `KernelList` and `Threads`), `IdeProofs`, `IoQueueProofs`, `ProcLifeProofs`,
`IpcProofs`, `InputProofs` and `CompositorProofs` hold the proofs about the module
they are named after, and `DataProofs` facts about sequences, least elements and
rings that several of them need. Operators whose comment begins with "Fault:" are deliberately wrong
variants of the definition below them; no specification uses them. They are
what the properties have been tried against: with the definition replaced by the
variant TLC must report the property as violated.

**KernelList** translates `list.c` at the level of pointers. A heap `h` holds
`nx` and `pv` (`next`, `prev`); each function is an operator from heap to heap
making the same assignments. `list_find_element` is written as membership in
every set closed under the walk, which can be used in proofs without induction;
`QueriesExact` checks that this is the same as its loop.

**ListOps** calls the functions in any order that respects their
preconditions; **SeqLists** is what the callers take the lists for.

**Threads** adds the TCB fields, semaphores and locks to the heap and gives the
functions of `threads.c`, `semaphore.c` and the tick of `sched.c` as operators on
that state. An operator covers the code up to the point where `schedule()`
switches away. A failing `ASSERT` sets `panic`.

**Locks** is the state machine: every thread with its program counter, one
action per C statement of `lock_fetch` and `lock_release` (`semaphore_down` and
`semaphore_up` are atomic, they disable interrupts), `idle`, the timer and the
creation of processes. `held` is a history variable, the number of fetches a
thread has not undone. `RecursiveLock` is the abstract lock that `Locks` refines
with `count <- held`.

**Ide** composes the driver with the threads and locks: the same actions plus
one per register access that matters, the loop of `busy_wait`, the sleep through
`thread_yield`, the interrupt handler, and the drive (external, modelled by how
the driver uses it).

**Ipc** models `sys_sendrec` with the TCB fields of `ipc.c`. The scheduler is
reduced to one flag per process; any process that is not blocked may run next.

**IoQueue** composes `ioqueue.c` with the threads and locks: a process takes the
lock of the queue, makes one round of `ioqueue_put_data` or `ioqueue_get_data`
(the inner loop, waking the other side, joining its own waiting list), releases
the lock, sleeps and starts over. The two waiting lists are list heads in the
same heap as the ready list, so that a tag on two lists would show. The buffer
begins behind the header in the pages that `init_ioqueue` asks for (`pg_count`);
`Slots` are those inside the pages, and `BufferFits` assumes that all are (section 5
has the queue for which they are not). **ByteFifo**
is the queue of bytes it refines: `fifo` is what lies between the two indices.

**ProcLife** is fork, exit and wait on the scheduler: the pid map, parent pids and
the list of all threads, one action per system call (or per pass of the loop of
`sys_wait`). It refines **Family**, the family tree without pids, by looking up
`parent_pid` the way `pid2thread` does.

**TimerWheel** is `timer.c` with its number of wheels and their sizes as
parameters; `ticks`, `expires` and `timer_jiffies` are words that wrap around at
the size the wheels cover together, as 32 bits do for 8 + 4 * 6. It refines
**Alarms**, in which a timer is set for a tick and rings at that tick.

**Files** is the data path of the file system: `file_create`, `file_open`,
`file_close`, `file_write`, `file_read`, `sys_lseek` and `sys_unlink` with the
inode and zone bitmaps, one action per call. A zone holds a few words instead of
512 bytes. A word of the disk is a datum or the address of a zone; the code does
not tell which, so a zone that has held data and becomes an indirect table keeps
the data as addresses. The names of files and their directory entries are left
out. It refines **WordFiles**, in which a file is an array of words with a size
and a position. The code gets three kinds of calls wrong (section 5); the constant
`Avoid` names those that a run leaves out, so that the refinement says what holds
of all other calls.

**Dirs** is the rest of the file system: directories, paths, the table of open
files, working directories, directory streams, and the calls that make files for
devices and package servers. The file table, the inodes in memory, the two
bitmaps in memory and on the disk, and the zones of directories are separate
state, because calls bring them together one write at a time. A call that makes a
file takes four steps (search, reserve, write the directory, write the inodes),
between which other threads run and the machine may be started again; the other
calls are one step. Where the code uses what it has not set, the model chooses: the
sector to which `inode_release` writes the inode bitmap (`Sectors`), the directory
that a failed `sys_unlink` closes. `made`, `torn`, `stale` and `full` are history variables.

**Memory** has both pools, the page tables and the arenas, and everybody who takes
pages: `sys_malloc` and `sys_free` in the kernel and in processes, process
creation, fork, exec, exit and wait. `main` may be preempted between finding a
free page and taking it, and so may the first run of a process, which takes its
stack and a page table in four steps (`start_process`, `StartTakes`, `StartFinds`,
`StartMaps`); the others are one step.

**Input** is the keyboard, the mouse and the processes that read them or wait for
several of them with a timeout. The hardware sends bytes, the first of them the
answer of the mouse to the command that enabled it (`Ack`); the interrupt handlers
decode them into rings and wake the waiters; `schedule`, `try_to_wake_up` and
`schedule_timeout` are those of the code. `want` is a history variable, what each
ring should hold according to what was typed or reported.

**Packages** is the queues of a package server and its clients, on the level of
whole packages (that a put is all or nothing is `IoQueue`). **Compositor** is the
loop of the compositor with its windows, hash map, stack, damage and mouse states,
and its clients with the protocol of `poudland.c`. Windows have rows and no
columns: damage has none either (`gfx_add_clip`), and tests of x are like those of
y. The cursor is as high as `MOUSE_HEIGHT`. A window is the number that `next_wid`
gave it; `win` is the sequence of all windows ever made, the closed ones included,
because clients and the pointers of the compositor may still name them.

## 4. Runs

| Run | Instance | Shows |
|---|---|---|
| `locks` | main, idle, init, one more process created at any time; a lock fetched up to twice | no assertion fires, mutual exclusion, no lost wake-up, refinement of the abstract lock; every ready thread runs, every queued thread is woken |
| `lists` | four tags, two heads | lists are sequences whatever the order of the calls; what the queries answer |
| `ide` | main and one process on one channel, up to two sectors a call, errors | exact lists in spite of the double insertion by `thread_yield`, own data, no stale signal; the owner of the channel finishes |
| `ipc` | three processes with up to two sends and three receives, interrupts to one of them | no cycle, exactly once, order |
| `timers` | three wheels of four slots, two timers, all 64 ticks and every timeout | a timer fires at its tick, once |
| `life` | init and three interchangeable processes, six pids | nobody sleeps in `sys_wait` beside a zombie child, refinement of the family tree |
| `ioqueue` | init and two interchangeable processes, a buffer of four bytes behind a header of two in a page of six, requests of one and two | no lost wake-up, never both sides asleep, refinement of the byte queue |
| `files` | two files, a disk of four zones of two words, one direct zone and a table, three writes | no zone belongs to two files, also when the disk gets full; reads, writes and seeks are those of an array of words |
| `dirs` | main and a user process, the root and two directories with a device, a file in the root, in `/d/` and in `/d/i/`, six inodes, seven zones of four entries, three calls and restarts | a name appears twice only through overlapping calls; what was made is found; zones are owned; no dangling inode; the walks agree |
| `memory` | two interchangeable processes and main, the first runs of both and main preempted, ten pages a pool, pages of four units, two block sizes, seven calls | a page has one owner, only failing allocations lose pages, arenas and free lists are exact |
| `input` | two processes that read the mouse, one of which also reads the keyboard and polls it with the mouse's raw bytes; rings of three slots; three keys, three reports, or one of each | no lost wake-up, lists exact, rings deliver what was typed or reported; every wait with a timeout ends |
| `compositor` | two clients with two and one windows to ask for, a screen of four rows, a map of two buckets, queues of one package, two mouse events | the screen is up to date, the topmost window gets events, the window tables agree, an answer is under way, only owners move windows |

Bounds. Four threads are enough for every role: a kernel thread that can be
preempted anywhere, idle, and two processes, so that a lock can have an owner
and two waiters while the timer runs. `MaxRepeat = 2` exercises both branches of
the recursive lock; that locks may be nested is left to the proofs, which are for
any `Nests`. `Priority` is 1 or 0, so that time slices end after few
ticks; a slice length only decides when the tick calls `schedule`. With three
processes a cycle of senders can be longer than the direct one; in `ipc` the
bounds differ from process to process, so that one of them receives more than
anybody sends and one uses its buffers a second time. `TimeLimit` and
`SleepTicks` stand for 30000 polls and 10 ticks; their values only decide how
often a loop is repeated. The buffer of four bytes (three can be used) is full, empty and
wrapped around within a few requests, and a put and a get of two bytes together
already ask for more than it holds. Three wheels of four slots have a wheel in
the middle, and 64 ticks make every index and both counters wrap. Zones of two words with one
direct entry give every case of `file_write` (a zone begun, filled up, followed by
a new one, the first and the second entry of the table), and four zones for two
files with a table each are too few, so that a write fails at each of its
allocations. In `dirs` a zone holds four entries, two of which are `.` and `..`, so
that a directory is full after two names; three calls make a file, remove it and
restart, or let two threads make a file each; the name of the package server begins
that of the files. In `memory` the pools are a little larger than
what two processes need, and calls fail at each of their allocations. Rings of three
slots hold two entries, in order, and the third finds them full. Three keys are a
shift pressed, released and a character after it (`Budgets` says how many keys go
with how many reports); the deltas of the
mouse are chosen so that their bytes look like the start of a report. In
`compositor` two buckets make numbers of windows collide, and queues of one package
make both sides wait. Deadlock is checked in `locks`, `lists`, `timers` and
`ioqueue`; it is not where a panic stops the machine (`ide`, `life`, `files`,
`memory`, `input`) or where the bounds on calls and events end everything (`ipc`,
`dirs`, `compositor`).

Fairness. `SF(timer)`: a tick stays pending in the 8259A until interrupts are
enabled. `SF` of a thread's steps inside the lock functions and of leaving a
system call: a time slice is many instructions long, so a thread that gets the
CPU again and again makes progress, and a system call performs finitely many
lock operations and releases what it fetched. In `Input`, `WF` of the tick that ends
a time slice, of idle and of a process inside a call, which all go on as soon as
they can; nothing of the hardware or of calling. Weak fairness of the drive: it answers a command. Nothing is
assumed of entering system calls, of fetching locks or of creating processes.

## 5. Where the code and its comments disagree

* `list_find_element` (`lib/list.c:33`) never finds the last element, although
  its comment says that 0 means "not find"; `QueriesExact` says exactly what it
  finds. The assertions that use it are therefore weaker than they look, and
  `schedule()` appends a yielding thread a second time; run `ide` shows that the back pointer this breaks is
  repaired before anybody follows it, provided that the ready list is not empty
  when the thread yields (the shipped `init` spins for ever and keeps it so).
* `msg_receive` (`ipc/ipc.c:173`) returns from a receive without a message: at
  once for `INTR_TASK`, and without copying the `HARD_INT` message to the caller
  when an interrupt is pending. `notify_intr` has no caller in the shipped build; if
  it had, its last assertion, `p_sendto == NO_TASK` (`ipc.c:269`), would fail for a
  task that has never waited to send: `init_thread` clears the TCB to 0
  (`threads.c:121`), which is not `NO_TASK`.
* `init_ioqueue` (`lib/ioqueue.c:189`) takes one page for any size up to a page and
  a header. `sys_pipe` asks for 4096 bytes: the last slots, as many as the header has
  bytes, are in the next page of the kernel, which may be somebody else's. The queues of
  the package file system (4000 bytes) fit. The page count for larger sizes divides
  by the page plus the header and is too small as well. What is said of `IoQueue`
  is said of queues that fit.
* "Timers are FIFO!" (`frog/timer.c:91`) does not hold across wheels: a timer
  that comes down from a higher wheel goes behind one for the same tick that was
  added later, directly to the lower wheel.
* `sys_exit` (`thread/exit.c:140`) wakes a parent that sleeps in a pipe and leaves
  its tag on the pipe's waiting list. The next write then unblocks the parent
  twice and the assertion of `thread_unblock` (`threads.c:281`) stops the machine.
* `file_write` (`fs/file.c:531`) returns at once when no zone is free: `fd_pos` has
  moved over the zones already written, `i_size` has not. The next read finds a
  position more than one behind the end and the assertion at `fs/file.c:635` stops
  the machine.
* Three kinds of calls that run `files` leaves out through `Avoid`; without any one
  of them the run fails. A write that replaces a whole zone writes from the address
  of its cursor instead of the buffer (`fs/file.c:342`). A read that starts inside
  a zone and ends in another counts the first zone as whole (`fs/file.c:668`). A
  new indirect table is not cleared, so what its zone held before is taken for
  addresses (`fs/file.c:561`).
* `dirs` leaves out, each of them needed: unlinking in the root, which closes the
  inode of the root (`root_file`); a path through a directory that somebody else has
  open, and `sys_getcwd` outside the root: `inode_open` counts only the first open,
  and the close frees the inode under the other (`shared_inode`); using a name whose
  inode is not on the disk, yet or after a restart (`half_made`); `sys_stat` and
  `sys_unlink` of a file in a directory of the root, which `search_file_with_pathname`
  looks for in the root (`fs.c:588`), while `sys_open` walks into the directory
  (`one_dir`); `sys_unlink` of a name that is not reached, which closes the directory in
  fresh memory (`fs.c:994`, `unset_dir`); a package server whose name begins another
  name of the directory: `search_dir_entry` compares only as many characters as the
  name has (`dir.c:102`) and the server gets no entry (`prefix`); a release of a file
  that writes the inode bitmap over a sector in use: the index for `flush_bitmap` is
  not set when the file has no zones (`inode.c:244`, `inode.c:270`, `stray_flush`). The
  other outcomes of that flush, the right sector and an unused one, are in the run;
  after the latter and a restart the number of the inode is lost. `sys_getcwd`
  returns `NULL` outside the root also when it has found the path (`fs.c:1419`). A directory whose
  first zone is full makes `flush_dir_entry` take a zone for every free entry
  (`dir.c:257`); `DirZonesOwned` allows for it with `full`.
* `memory` leaves out: a page table that `put_page` takes from the kernel pool
  without its lock while main holds it, or which somebody takes after a first run has
  found it (`unlocked_table`, `memory.c:387`), or when the pool is empty (`no_table`); a
  page for the stack of a new process that somebody else takes after the first run has
  found it: `malloc_page_with_vaddr` takes no lock, and two first runs then share a
  frame (`unlocked_start`, `memory.c:477`); a child that frees a block it inherited, whose
  arena still counts the parent's free blocks (`inherited_free`).
* `input` leaves out: a keyboard interrupt that finds several bytes and handles the
  last one, be it the mouse's (`burst`, `ps2hid.c:177`). The mouse's answer 0xFA to
  the command that enables it (`ps2hid.c:453`) is not read there and looks like the
  first byte of a report: the first packet is made of it and of two bytes of the first
  report, with a button that nobody pressed and no movement, since its overflow bits
  are set; the third byte of a report is then the start of the next packet if its
  bit 3 is set, and otherwise the driver is in step again. `RingsDeliver` says that. `__wake_up_common` stops at the first waiter it wakes
  (`sched.c:101`) although its comment says that non-exclusive wake-ups "just wake
  everything up": a device that is polled must have one process. Opening any input
  device empties the ring of the raw mouse bytes. Caps lock and meta are never
  reset, the release of one shift key releases both, and keys without an entry
  stop the machine (`PANIC("unknow key")`).
* `compositor` leaves out: raising a window while the one on top is not the last of
  `mid_zs`, which leaves rows unmarked (`restack`); an event for a client that waits
  for an answer (`poudland_wait_for` swaps the arguments of `list_add_tail`) or whose
  queue is full, so that it and the compositor wait for each other (`busy_client`);
  moving a closed window, for which `hashmap_get` may return another (`unknown_wid`).
  `bottom_z`, `top_z` and `mouse_window` keep pointing to a window that was closed
  and freed; the model notes the first use (`fault`) and stops. `wait2` with 20
  microseconds gives 0 ticks (`select.c:152`), so the compositor never sleeps.

## 6. Proofs

A theorem is for every value of the constants that the named assumptions allow.
They are: `NullIsNoNode`, `KernelObjects`, `PriorityType`, `NestsType`,
`MaxRepeatType` (threads, semaphores and locks are different objects, any number of
them), `QueueObjects` (the lock and the two lists of an I/O queue are different
objects, a buffer of at least two bytes, requests that fit, finitely many threads) and
`BufferFits` (its buffer lies inside its pages),
`LifeBounds` (there are pids for `init`, `main` and `idle`), `Tasks` and
`IpcBounds` (the two special tasks are no processes; finitely many processes),
`IdeObjects` (the channel's lock and `disk_done` are different semaphores, positive
bounds, finitely many threads and lists), `InputBounds` (finitely many processes, rings of at least two slots, keys with a
code below 128), and `PackagesBounds` and `CompositorBounds` (queues with room for a
package, a screen and a pointer with rows, buckets; the target "everybody" is no
client; any number of clients and calls). What a theorem assumes beyond them stands in its `ASSUME`.

### Scheduler and locks (`LocksProofs`)

* `Invariance`: `[]Inv`; from it `TypeCorrect`, `PanicFree`, `Exclusion`, `WakeUps`;
* `Refinement`: `Spec => ImplementsLock`.

`NoPanic` is not inductive: whether `thread_unblock` finds its thread on the
ready list depends on which list every tag is on. `Inv` therefore says, with a
function `Cls` from each node to the head of the list its thread's status puts
it on: forward and backward pointers are inverse, a pointer never leaves its
class, and every node is reached from the head of its class (`Linked`). "Reached"
is membership in every set that contains the head and is closed under `next`, so
that the preservation proofs choose one set instead of using induction over the
list. `StatusInv` and `PcInv` tie status and program counter together; `LockInv`
gives the values of counter, holder and repeat count at each statement of the
lock functions (`Stage`); `WakeInv` is the wake-up property by classes.
The first part of `LocksProofs` shows once, for each list operation and scheduler
function, that `Sched(k, cls)` leads to `Sched(k', cls')` for the changed class
function; the second has one step per action.

### ATA driver (`IdeProofs`)

* `IdeInvariance`: `[]IdeSafe`; from it `OwnDataTheorem` (`OwnData`) and
  `NoStaleSignalTheorem` (`NoStaleSignal`);
* `IdeListInvariance`: `[]IdeListSafe`; from it `QueuesExactTheorem` (`QueuesExact`).

Neither of the first two properties needs the lists: whoever `schedule()` picks, only the owner of the
channel touches the drive. `SameCounters` sums that up, for any state of the heap: no
scheduler function changes a semaphore's counter, and `semaphore_down` and
`semaphore_up` change only their own. `Owned` counts the owners of the channel (from
the decrement in `lock_fetch` to the increment in `lock_release`). `Requested` is the
protocol between three parties, the owner, the drive and the handler, for each
statement of the owner: whose request the registers hold, what the drive does, and
where the one signal of this request is: not yet sent (`Expected`), on the interrupt
line or in `disk_done` (`Sent`), or taken (`NoSignal`). A read takes it before it looks
at the status, a write after it has handed over its data; a write that the drive
refuses leaves it behind, but then busy_wait stops the machine. That is why the
invariant is `IdeSafe`: `IdeInv`, or a halted machine in which both properties hold
and no step is possible.

`QueuesExact` is about the lists, and `Inv` of `Locks` does not hold here:
`thread_yield` puts the running thread on the ready list and `schedule()` puts it there
again, after which the tag's back pointer leads to itself and not to the tag before it.
`InOrder` says that the lists would satisfy `Sched` if every back pointer were mended
(`Mended`), and that only ready threads behind the first have one that needs it
(`Bent`). This is enough: no function reads the back pointer of a tag that is not the
first of its list, and `list_del` of the one before sets it when a tag becomes the
first. The proof relates a heap `h` to a mended one `r` (`Twin`), shows for each
scheduler function that it takes twins to twins, and uses for `r` what `LocksProofs`
shows of it; only `thread_yield` is followed pointer by pointer (`TwinYield`).
`IdeListSafe` adds the status of every thread, the fields of the channel's lock, and
that the one possible panic is that of `ide_write_sector`. Last, a loop over a list
meets some node twice, because the nodes are finitely many; the first it meets twice is
the head, because mended back pointers are unique (`ChainReturns`); and the nodes before
that are those of the list (`MembersAre`).

### I/O queues (`IoQueueProofs`)

* `IoInvariance`: `[]IoInv`; from it `QueuePanicFree` (`NoPanic` under puts and gets),
  `NoLostSleep` (`SleepersMustWait`) and `SidesTakeTurns` (`NoStandoff`);
* `FifoRefinement`: `IoSpec => ImplementsFifo`.

A process is on a waiting list before it sleeps: from `add_to_waiting_list` through
`lock_release` to `thread_block`. `SleepersMustWait` speaks of the status and is not
inductive; `IoInv` says the same of everybody on a waiting list (`Queued`), together with
`Sched` of `Threads` for the class function `IoCls`, in which the waiting
lists are classes next to the ready list. `PlacesFit` and `LockFits` say that a process
loses the CPU only outside the queue or asleep and then never owns the lock; so the
lock is never found taken and its own queue is empty. `WakeUpLemma` shows that the
loop of `____wake_up` empties its list and readies exactly the threads that were on
it; for each pass it counts one more thread woken. `StoreLemma` and `UnloadLemma`
show what the two inner loops do to the bytes between the indices, for every
position of the indices in the ring, and `FifoStep` maps a served round of
`ioqueue_put_data` to `Put`, one of `ioqueue_get_data` to `Get`, the return to user mode
to `Forget` and everything else to a stutter. With `BufferFits` every index is one of the
`Slots` (`AllSlots`), which nobody else writes; without it nothing could be said of the
bytes. The requests fit by `QueueObjects`: one
of `size - 1` bytes or more is never served (`ioqueue_avaliable(queue) > count`).

### Process life cycle (`ProcLifeProofs`)

* `LifeInvariance`: `[]LifeInv`; from it `WaitersTheorem` (`WaitersHaveToWait`) and
  `LifePanics` (the one way to a panic is an orphan of `init`);
* `FamilyRefinement`: `LifeSpec => ImplementsFamily`.

`sys_exit` wakes the parent that `pid2thread` finds, and `sys_wait` looks for
children by `parent_pid`. That this is the right thread needs `LifeInv`: the
scheduler's invariant `Sched`; pids are unique among living threads
although they are used again; `thread_all_list` names the living threads and
nobody else; a parent pid never dangles, because a thread that exits hands its
children to `init` first. The refinement then looks parents up the way the code
does, and each of its steps is one of `Family` or changes nothing there.

### Message passing (`IpcProofs`)

* `IpcInvariance`: `[]IpcInv`; from it `NoSendCycleTheorem`, `IpcPanics`,
  `ExactlyOnceTheorem`, and the action property `NoOvertakingTheorem`.

`IpcInv` is a conjunction: `TypeOK`; `FlagsFit`, what the two flags and partners of a
process say of its call; `Acyclic`; `Queues`, that the processes linked from
`q_sending` through `next_sending` are, as a sequence, those that send to this one;
`CallsFit`; `Mail`, in which of its places (sender's buffer, a queue, receiver's
buffer, delivered) each message is; and `OnlyDeadlocksPanic`, which `IpcPanics` states:
every assertion holds but the last of `notify_intr`, and that one fails only while
`p_sendto` is still the 0 of a new TCB (section 5).
`NoSendCycle` follows one `p_sendto` after the other; in the invariant the same is
said without counting: every non-empty set of processes has a member that waits for none
of the set. `deadlock()` in the code walks the chain of senders with a loop, and the
proof that it finds every cycle is by the least place at which it could go
wrong. The steps of the code are reduced to a few events (refused, joins a queue,
hands over, waits, notices an interrupt, takes, returns), and every part of the
invariant is shown once per event.

### Input devices and polling (`InputProofs`)

* `InputInvariance`: `[]InputInv`; from it `ReadyExactTheorem`;
* `SleepersTheorem`: with `PollsAlone`, `[]SleepersHaveNothing`;
* `RingsDeliverTheorem`: with `Decodable`, `[]RingsDeliver`.

`PollsAlone` says that a device which a process polls is read or polled by nobody
else; `__wake_up_common` wakes one waiter, so the property is false without it
(section 5). `Decodable` leaves out what the drivers get wrong: the bursts
named in `Avoid`, caps lock, a second shift key, and movements beyond 9 bits. The
instance of run `input` satisfies both.

"Somebody has been woken for what is in the ring" is not inductive: of two entries
one may be taken by the first who was woken while the second waiter still sleeps.
What is kept (`Served`) is a count: as long as somebody sleeps for a device, at least
as many of those who wait for it are awake as its ring has entries. `Fits`, the
invariant, is a predicate of values instead of variables, because an interrupt of
the mouse stores twice, with a wake-up in between. For the rings the invariant
`DecodeInv` says what is under way: which bytes of a key are still to come and what
the driver remembers of them, that the state of shift is that of the keys that are
held, how much of a report has arrived, and whether the driver is in step with it:
from the answer at boot on, it is one byte behind until a byte without bit 3 follows a
packet (`OutOfStep`). `ContentPut` and `ContentGet` show that
the two indices with their arithmetic modulo the size are a bounded queue.

### Compositor (`CompositorProofs`)

* `CompositorInvariance`: `[]CompositorInv`; from it `WindowsAlwaysAgree`
  (`WindowsAgree`), `EventsGoToTheTop` (`TopmostGetsEvents`) and the action property
  `OwnersOnly` (`OnlyOwners`);
* `ScreenAlwaysUpToDate`: without what `restack` names, `[]ScreenUpToDate`;
* `AnswersUnderWay`: without what `busy_client` names, `[]AnswerUnderWay`.

All of them leave out `unknown_wid` (section 5): with a client that names a window it
has closed, `hashmap_get` returns the window of somebody else and `OnlyOwners` is
false. `restack` and `busy_client` are assumed only where they are named.

`WindowsAgree` is not inductive, because what a client asks is in a queue for a while.
`CompositorInv` adds `Claims`: every window that a client knows, is told of or names in a
package is open, is its own, and no package before that one closes it. `Listed`,
`Mapped` and `Stacked` are the shape of the tables: the bucket of a number holds
the open windows with that remainder, and nothing else; `top_z` is the focused
window or one that has been closed. That is why the two ways to find the window on
top agree: `window_top_of` asks for the focused window first, then goes through
`mid_zs` from the end, while `poudland_blit_windows` draws `bottom_z`, `mid_zs`, then
`top_z` (`LastDrawn` reduces the last of the three to a case distinction, used for
pixels and for the pointer alike). `Painted` is `ScreenUpToDate` without its
condition: also a row covered by a window that has been closed shows what it should,
since a closed window has no rows. `MouseEffect` and `PackageEffect` sum up what a
turn of the loop does to the windows, and whom it writes to.

`Waits` is the conversation: a client that waits has one question in the queue, or one
answer being written, or one in its own queue, and one that does not wait has none of
them. `Listened` says that an event goes only to clients that are in their loop, so that
the compositor never waits for a client that waits for the compositor.

### Without induction

The provers cannot use an induction theorem. Where a proof needs one (the loop of
`deadlock`, the loop over a list, the loops of a put and of `____wake_up`, a walk
through a queue, the timers that expire in one tick) it assumes
that the claim fails somewhere, takes the least such place (`LeastElement`) and
refutes it by the step before. This is why these walks are recursive functions in
the models, and not `RECURSIVE` operators or folds.

### Only model-checked

Liveness (`ReadyRuns`, `QueuedIsWoken`, `OwnerFinishes`, `WaitEnds`) is out of the
prover's reach. `Dirs` and `Memory` walk paths and free lists with `RECURSIVE`
operators, which the prover does not accept. The properties of `ListOps`, `TimerWheel` and `Files`
have no proof.

## 7. Plan

Done: lists, scheduler, locks, ATA driver, message passing, I/O queues, timers,
process life cycle, files, directories, memory, input devices and polling, package
queues, compositor. Left:

1. A liveness property of `IoQueue` under requests that fit, and the ends of a
   pipe (create, duplicate, close).
2. The descriptors of a process across fork, exec and exit; exec reading its file.
3. A composition of `Ide` with `Dirs`, so that the steps of a call are the waits
   for the disk.
4. Proofs: `ZonesOwned` of `Files`, the refinement of `SeqLists`.

## 8. Not modelled

Boot code, descriptor tables, PIC and PIT programming, commands to the PS/2
controller: straight-line hardware set-up. Console output, fonts, 2D graphics:
pixels without control state, except for the rows that a redraw shows. Decoding
images (`jpeg.c`, `bmp.c`) and the other applications: sequential user programs. The
C library: sequential utilities. `list_destory`, `list_cut_position`, `ide_*_v2`,
`ide_*_ext`, `identify_disk`, `search_file_recur`, `lib/fifo.c`: no callers in the
shipped kernel. Finding and formatting partitions; the columns of windows; running
out of memory inside `wait2`.
