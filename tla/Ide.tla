-------------------------------- MODULE Ide --------------------------------
(***************************************************************************)
(* The ATA driver, core/device/ide.c, on top of the scheduler and the      *)
(* locks: threads that read and write sectors of one channel, the sleep of *)
(* busy_wait (mtime_sleep, tick_to_sleep, thread_yield), the interrupt     *)
(* handler, and the drive.                                                 *)
(*                                                                         *)
(* The channel's lock and its semaphore disk_done are members of Sem.  The *)
(* shipped init process spins in user mode for ever (bootpack.c); main and *)
(* the other processes use the disk.                                       *)
(*                                                                         *)
(* io[t] is where thread t stands in ide_read_sector or ide_write_sector,  *)
(* when pc[t] = "kernel": the statement that comes next.                   *)
(*   "none"     outside the driver                                         *)
(*   "disk"     select_disk            "sector"   select_sector            *)
(*   "expect"   expecting_intr = true  "cmd"      outb of the command      *)
(*   "down"     semaphore_down(&disk_done), "queued" inside its loop       *)
(*   "poll"     the loop of busy_wait  "sleep"    the loop of tick_to_sleep*)
(*   "data"     insw or outsw          "release"  lock_release             *)
(***************************************************************************)
EXTENDS Locks

CONSTANTS channel,      \* the lock of struct ide_channel
          disk_done,    \* its semaphore
          SectorCount,  \* bound: sectors of one call of ide_read or ide_write
          TimeLimit,    \* bound for the 30000 of busy_wait
          SleepTicks,   \* bound for the 10 ticks of mtime_sleep(10)
          Faulty        \* whether the drive may answer a command with an error

ASSUME IdeObjects ==
  /\ channel \in Lock /\ disk_done \in Sem \ Lock
  /\ SectorCount \in Nat \ {0} /\ TimeLimit \in Nat \ {0} /\ SleepTicks \in Nat \ {0}
  /\ Faulty \in BOOLEAN
  /\ IsFiniteSet(Node)

VARIABLES io,
          op,              \* "read" or "write"
          left,            \* cur_cnt: sectors of the call still to do
          time_limit,      \* the local variable of busy_wait
          slept,           \* ticks - start_tick, up to SleepTicks
          dev, sect,       \* whose request the drive's registers hold
          drive,           \* what the drive does, and for whom
          irq,             \* its interrupt line
          expecting_intr

ideVars == <<io, op, left, time_limit, slept, dev, sect, drive, irq, expecting_intr>>
allVars == <<vars, ideVars>>

Client == Thread \ {idle_thread, init_process}

\* ide_init
IdeInit ==
  /\ Init
  /\ io = [t \in Thread |-> "none"] /\ op = [t \in Thread |-> "read"]
  /\ left = [t \in Thread |-> 0] /\ time_limit = [t \in Thread |-> 0]
  /\ slept = [t \in Thread |-> 0]
  /\ dev = NULL /\ sect = NULL /\ drive = [st |-> "ready", of |-> NULL, cmd |-> "read"]
  /\ irq = FALSE /\ expecting_intr = FALSE

-----------------------------------------------------------------------------
At(t, where) == OnCpu(t, "kernel") /\ io[t] = where

Step(t, where) == io' = [io EXCEPT ![t] = where]

\* Fault: the channel is used without its lock.
ide_call_unlocked(t, o, n) ==
  /\ At(t, "none")
  /\ op' = [op EXCEPT ![t] = o] /\ left' = [left EXCEPT ![t] = n]
  /\ Step(t, "disk")
  /\ UNCHANGED <<vars, time_limit, slept, dev, sect, drive, irq, expecting_intr>>

\* ide_read and ide_write, with the lock_fetch of the first sector.
ide_call(t, o, n) ==
  /\ At(t, "none") /\ lock_fetch(t, channel)
  /\ op' = [op EXCEPT ![t] = o] /\ left' = [left EXCEPT ![t] = n]
  /\ Step(t, "disk")
  /\ UNCHANGED <<time_limit, slept, dev, sect, drive, irq, expecting_intr>>

select_disk(t) ==
  /\ At(t, "disk") /\ dev' = t /\ Step(t, "sector")
  /\ UNCHANGED <<vars, op, left, time_limit, slept, sect, drive, irq, expecting_intr>>

\* select_sector also writes the device register.
select_sector(t) ==
  /\ At(t, "sector") /\ sect' = t /\ dev' = t /\ Step(t, "expect")
  /\ UNCHANGED <<vars, op, left, time_limit, slept, drive, irq, expecting_intr>>

\* Fault: expecting_intr is not set.
cmd_out_expect_forgotten(t) ==
  /\ At(t, "expect") /\ Step(t, "cmd")
  /\ UNCHANGED <<vars, op, left, time_limit, slept, dev, sect, drive, irq, expecting_intr>>

cmd_out_expect(t) ==
  /\ At(t, "expect") /\ expecting_intr' = TRUE /\ Step(t, "cmd")
  /\ UNCHANGED <<vars, op, left, time_limit, slept, dev, sect, drive, irq>>

\* A read waits for the interrupt first, a write polls first.
cmd_out(t) ==
  /\ At(t, "cmd")
  /\ drive' = [st |-> "busy", of |-> IF dev = sect THEN sect ELSE NULL, cmd |-> op[t]]
  /\ Step(t, IF op[t] = "read" THEN "down" ELSE "poll")
  /\ time_limit' = [time_limit EXCEPT ![t] = TimeLimit]
  /\ UNCHANGED <<vars, op, left, slept, dev, sect, irq, expecting_intr>>

semaphore_down_done(t) ==
  /\ At(t, "down") \/ At(t, "queued")
  /\ k' = semaphore_down(k, disk_done)
  /\ IF k.value[disk_done] = 0 THEN Step(t, "queued") /\ UNCHANGED time_limit
     ELSE /\ Step(t, IF op[t] = "read" THEN "poll" ELSE "release")
          /\ time_limit' = [time_limit EXCEPT ![t] = TimeLimit]
  /\ UNCHANGED <<pc, arg, held, op, left, slept, dev, sect, drive, irq, expecting_intr>>

\* A read that fails is given up, a write that fails stops the machine.
busy_wait_failed(t) ==
  IF op[t] = "read" THEN Step(t, "release") /\ UNCHANGED k
  ELSE k' = PANIC(k, "ide_write_sector") /\ UNCHANGED io

\* One pass of the loop: "time_limit -= 10 >= 0" subtracts 1.
busy_wait(t) ==
  /\ At(t, "poll")
  /\ time_limit' = [time_limit EXCEPT ![t] = @ - 1]
  /\ IF time_limit[t] = 1 THEN busy_wait_failed(t) /\ UNCHANGED slept
     ELSE IF drive.st \in {"busy", "storing"}
     THEN Step(t, "sleep") /\ slept' = [slept EXCEPT ![t] = 0] /\ UNCHANGED k
     ELSE IF drive.st = "drq" THEN Step(t, "data") /\ UNCHANGED <<k, slept>>
     ELSE busy_wait_failed(t) /\ UNCHANGED slept
  /\ UNCHANGED <<pc, arg, held, op, left, dev, sect, drive, irq, expecting_intr>>

tick_to_sleep(t) ==
  /\ At(t, "sleep")
  /\ IF slept[t] < SleepTicks THEN k' = thread_yield(k) /\ UNCHANGED io
     ELSE Step(t, "poll") /\ UNCHANGED k
  /\ UNCHANGED <<pc, arg, held, op, left, time_limit, slept, dev, sect, drive, irq,
                 expecting_intr>>

read_from_sector(t) ==
  /\ At(t, "data") /\ op[t] = "read"
  /\ drive' = [drive EXCEPT !.st = "ready"] /\ Step(t, "release")
  /\ UNCHANGED <<vars, op, left, time_limit, slept, dev, sect, irq, expecting_intr>>

\* Fault: a write does not wait until its sector is stored.
write_to_sector_no_down(t) ==
  /\ At(t, "data") /\ op[t] = "write"
  /\ drive' = [drive EXCEPT !.st = "storing"] /\ Step(t, "release")
  /\ UNCHANGED <<vars, op, left, time_limit, slept, dev, sect, irq, expecting_intr>>

write_to_sector(t) ==
  /\ At(t, "data") /\ op[t] = "write"
  /\ drive' = [drive EXCEPT !.st = "storing"] /\ Step(t, "down")
  /\ UNCHANGED <<vars, op, left, time_limit, slept, dev, sect, irq, expecting_intr>>

\* lock_release, and the loop of ide_read and ide_write.  The locals of
\* busy_wait are dead, and forgotten.
ide_release(t) ==
  /\ At(t, "release") /\ lock_release(t, channel)
  /\ left' = [left EXCEPT ![t] = @ - 1] /\ Step(t, "none")
  /\ op' = [op EXCEPT ![t] = IF left[t] = 1 THEN "read" ELSE @]
  /\ time_limit' = [time_limit EXCEPT ![t] = 0]
  /\ slept' = [slept EXCEPT ![t] = 0]
  /\ UNCHANGED <<dev, sect, drive, irq, expecting_intr>>

ide_next_sector(t) ==
  /\ At(t, "none") /\ left[t] > 0 /\ lock_fetch(t, channel)
  /\ Step(t, "disk")
  /\ UNCHANGED <<op, left, time_limit, slept, dev, sect, drive, irq, expecting_intr>>

-----------------------------------------------------------------------------
(* Interrupts and the drive.                                               *)

\* semaphore_down disables interrupts, also for main.
IdeInterruptsOn(t) == InterruptsOn(t) /\ io[t] # "queued"

EndHalt == pc' = [pc EXCEPT ![idle_thread] = IF k.cur = idle_thread THEN "block" ELSE @]

ide_timer ==
  /\ timer /\ IdeInterruptsOn(k.cur)
  /\ slept' = [t \in Thread |-> IF io[t] = "sleep" /\ slept[t] < SleepTicks THEN slept[t] + 1
                                    ELSE slept[t]]
  /\ UNCHANGED <<io, op, left, time_limit, dev, sect, drive, irq, expecting_intr>>

intr_hd_handler ==
  /\ ~Halted(k) /\ irq /\ IdeInterruptsOn(k.cur)
  /\ irq' = FALSE
  /\ expecting_intr' = FALSE
  /\ k' = IF expecting_intr THEN semaphore_up(k, disk_done) ELSE k
  /\ EndHalt
  /\ UNCHANGED <<arg, held, io, op, left, time_limit, slept, dev, sect, drive>>

\* A drive answers a read with an interrupt and the data, takes the command
\* of a write without one, and reports a stored sector or an error with one.
Answer(st, int) ==
  /\ drive' = [drive EXCEPT !.st = st] /\ irq' = (irq \/ int)
  /\ UNCHANGED <<vars, io, op, left, time_limit, slept, dev, sect, expecting_intr>>

drive_answers ==
  /\ drive.st = "busy" /\ ~Halted(k)
  /\ \/ Answer("drq", drive.cmd = "read")
     \/ Faulty /\ Answer("err", TRUE)

drive_stored == drive.st = "storing" /\ ~Halted(k) /\ Answer("ready", TRUE)

-----------------------------------------------------------------------------
Driver(t) ==
  \/ select_disk(t) \/ select_sector(t) \/ cmd_out_expect(t) \/ cmd_out(t)
  \/ semaphore_down_done(t) \/ busy_wait(t) \/ tick_to_sleep(t)
  \/ read_from_sector(t) \/ write_to_sector(t)
  \/ ide_release(t) \/ ide_next_sector(t)
  \/ Continue(t, channel) /\ UNCHANGED ideVars

Outside(t) ==
  \/ enter_syscall(t) /\ t # init_process /\ UNCHANGED ideVars
  \/ io[t] = "none" /\ left[t] = 0 /\ leave_syscall(t) /\ UNCHANGED ideVars
  \/ t = main_thread /\ (\E child \in Process : spawn(t, child)) /\ UNCHANGED ideVars
  \/ left[t] = 0 /\ \E o \in {"read", "write"}, n \in 1 .. SectorCount : ide_call(t, o, n)

IdeNext ==
  \/ \E t \in Client : Driver(t) \/ Outside(t)
  \/ ide_timer \/ intr_hd_handler \/ drive_answers \/ drive_stored
  \/ idle /\ UNCHANGED ideVars

IdeSpec == IdeInit /\ [][IdeNext]_allVars

\* As in Locks; and the drive answers, and its interrupt stays pending until
\* interrupts are enabled.
IdeFairSpec ==
  /\ IdeSpec
  /\ SF_allVars(ide_timer) /\ SF_allVars(intr_hd_handler)
  /\ WF_allVars(drive_answers) /\ WF_allVars(drive_stored)
  /\ \A t \in Client : SF_allVars(Driver(t))
  /\ \A t \in Client \ {main_thread} : SF_allVars(leave_syscall(t) /\ UNCHANGED ideVars)

-----------------------------------------------------------------------------
(* Properties.                                                             *)

\* thread_yield adds the running thread to the ready list and schedule(),
\* whose list_find_element overlooks the last element, adds it again.  The
\* back pointer this breaks is repaired before it is used: walking forward,
\* each list holds exactly the threads that belong there.
QueuesExact ==
  LET waits == {t \in Thread : k.status[t] = BLOCKED /\ io[t] = "queued"}
      locks == {t \in Thread : k.status[t] = BLOCKED /\ pc[t] = "queued"}
  IN  \A list \in {thread_ready_list, channel, disk_done} :
        /\ Ends(Chain(k, list), {list})
        /\ Members(k, list) = CASE list = thread_ready_list -> {t \in Thread : k.status[t] = READY}
                                [] list = channel -> locks
                                [] OTHER -> waits

\* A thread that moves data moves its own: the drive holds the data of this
\* thread's request, not of an earlier one's.
OwnData == \A t \in Thread : io[t] = "data" => drive = [st |-> "drq", of |-> t, cmd |-> op[t]]

\* disk_done is 0 whenever the channel is free: no request leaves a signal
\* behind that the next one would take for its own.
NoStaleSignal ==
  k.value[channel] = 1 => k.value[disk_done] = 0 /\ ~expecting_intr

\* Who owns the channel finishes with it: the sleep of busy_wait ends, the
\* interrupt comes and finds its thread.  (A thread in the queue of the lock
\* may be overtaken for ever by one that releases and fetches again.)
OwnerFinishes ==
  \A t \in Client : Holds(t, channel) ~> ~Holds(t, channel) \/ Halted(k)

-----------------------------------------------------------------------------
(* The inductive invariant of OwnData and NoStaleSignal.  It needs nothing *)
(* of the lists: whoever schedule() picks, only the owner of the channel   *)
(* touches the drive.                                                      *)

Place == {"none", "disk", "sector", "expect", "cmd", "down", "queued", "poll", "sleep",
          "data", "release"}
Command == {"read", "write"}
DriveState == {"ready", "busy", "drq", "err", "storing"}

IdeTypeOK ==
  /\ DOMAIN k = DOMAIN thread_init /\ k.value \in [Sem -> {0, 1}]
  /\ pc \in [Thread -> PC] /\ arg \in [Thread -> Lock \cup {NULL}]
  /\ held \in [Thread -> [Lock -> Nat]]
  /\ io \in [Thread -> Place] /\ op \in [Thread -> Command]
  /\ drive \in [st : DriveState, of : Thread \cup {NULL}, cmd : Command]
  /\ irq \in BOOLEAN /\ expecting_intr \in BOOLEAN

\* Where a thread stands in the lock functions and in the driver at once.
InFetch == {"down", "queued", "taken", "held"}
InRelease == {"freed", "zeroed"}
Fits(t) ==
  /\ pc[t] \in InFetch => io[t] = "disk" /\ arg[t] = channel
  /\ pc[t] \in InRelease => io[t] = "none" /\ arg[t] = channel
  /\ io[t] # "none" => pc[t] = "kernel" \/ (io[t] = "disk" /\ pc[t] \in InFetch)
PlacesFit == pc[idle_thread] \in {"block", "hlt"} /\ \A t \in Thread : Fits(t)

\* The channel has at most one owner.
Owner(t) == pc[t] \in InRelease \cup {"taken", "held"} \/ (pc[t] = "kernel" /\ io[t] # "none")
Owned ==
  /\ \A t \in Thread : held[t][channel] = IF Owner(t) THEN 1 ELSE 0
  /\ \A t, u \in Thread : Owner(t) /\ Owner(u) => t = u
  /\ k.value[channel] = 1 => \A t \in Thread : ~Owner(t)

\* The signal on its way from the drive to the thread: disk_done, the interrupt line,
\* and whether the handler will pass it on.
Signal(n, line, expected) ==
  k.value[disk_done] = n /\ irq = line /\ expecting_intr = expected
NoSignal == Signal(0, FALSE, FALSE)
Expected == Signal(0, FALSE, TRUE)
Sent == Signal(0, TRUE, TRUE) \/ Signal(1, FALSE, FALSE)

DriveRests == drive.st \notin {"busy", "storing"}

\* What the owner finds, at every place: a read waits for the signal and then looks,
\* a write looks, hands over its data, and then waits for the signal.
Reads(t) ==
  CASE io[t] \in {"down", "queued"} -> \/ drive.st = "busy" /\ Expected
                                       \/ drive.st \in {"drq", "err"} /\ Sent
    [] io[t] = "poll" -> drive.st \in {"drq", "err"} /\ NoSignal
    [] io[t] = "data" -> drive.st = "drq" /\ NoSignal
    [] OTHER -> FALSE
Writes(t) ==
  CASE io[t] \in {"poll", "sleep"} -> \/ drive.st \in {"busy", "drq"} /\ Expected
                                      \/ drive.st = "err" /\ Sent
    [] io[t] = "data" -> drive.st = "drq" /\ Expected
    [] io[t] \in {"down", "queued"} -> \/ drive.st = "storing" /\ Expected
                                       \/ drive.st = "ready" /\ Sent
    [] OTHER -> FALSE
Requested(t) ==
  /\ io[t] \in {"sector", "expect", "cmd"} => dev = t
  /\ io[t] \in {"expect", "cmd"} => sect = t
  /\ CASE io[t] \in {"none", "disk", "sector", "expect", "release"} -> NoSignal /\ DriveRests
       [] io[t] = "cmd" -> Expected /\ DriveRests
       [] OTHER -> /\ drive.of = t /\ drive.cmd = op[t]
                   /\ IF op[t] = "read" THEN Reads(t) ELSE Writes(t)

IdeInv ==
  /\ IdeTypeOK /\ PlacesFit /\ Owned
  /\ \A t \in Thread : Owner(t) => Requested(t)
  /\ (\A t \in Thread : ~Owner(t)) => NoSignal /\ DriveRests

\* A machine that has stopped does nothing any more.
IdeSafe == IdeInv \/ (Halted(k) /\ OwnData /\ NoStaleSignal)

-----------------------------------------------------------------------------
(* The inductive invariant of QueuesExact.  The lists would be in order if *)
(* every back pointer were mended; the ones to mend are those of ready     *)
(* threads, never of the first: before a thread becomes the first, the one *)
(* in front of it is removed, and list_del sets its back pointer.          *)

\* The list that a tag is on, by the status and the place of its thread.
IdeClass(n) ==
  IF n \notin Thread THEN n
  ELSE IF k.status[n] = READY THEN thread_ready_list
  ELSE IF k.status[n] = BLOCKED /\ io[n] = "queued" THEN disk_done
  ELSE IF k.status[n] = BLOCKED /\ pc[n] = "queued" THEN channel
  ELSE n

IdeCls == [n \in Node |-> IdeClass(n)]

\* The back pointers that fit the forward pointers.
Back(nx) == [n \in Node |-> IF nx[n] = NULL THEN NULL ELSE CHOOSE m \in Node : nx[m] = n]

Mended(h) == [h EXCEPT !.pv = Back(h.nx)]

Bent(h) == {n \in Node : h.pv[n] # Back(h.nx)[n]}

\* Every tag is on the list that cls names, up to the back pointers to mend.
InOrder(h, cls) ==
  /\ h \in KernelState /\ Sched(Mended(h), cls)
  /\ \A n \in Bent(h) : n \in Thread /\ cls[n] = thread_ready_list /\ n # h.nx[thread_ready_list]

\* init never sleeps: some thread is ready when another yields.
IdeStatusInv ==
  /\ \A t \in Thread : k.status[t] = RUNNING <=> t = k.cur
  /\ \A t \in Thread : k.status[t] \in {RUNNING, READY, BLOCKED, NONE}
  /\ \A t \in Thread : k.status[t] = NONE => t \in Process \ {init_process}
  /\ \A t \in Thread \ {idle_thread} :
       k.status[t] = BLOCKED => pc[t] = "queued" \/ io[t] = "queued"
  /\ k.status[init_process] # BLOCKED

\* The fields of the channel's lock.
ChannelInv ==
  /\ \A t \in Thread : Owner(t) => Stage(t, channel)
  /\ (\A t \in Thread : ~Owner(t)) => k.holder[channel] = NULL /\ k.repeat[channel] = 0

\* The one PANIC of the driver changes no list.
ListInv ==
  /\ k \in KernelState /\ InOrder([k EXCEPT !.panic = "none"], IdeCls)
  /\ k.panic \in {"none", "ide_write_sector"}
  /\ IdeStatusInv /\ ChannelInv

IdeListSafe == IdeSafe /\ PlacesFit /\ ListInv
=============================================================================
