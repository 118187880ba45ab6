# Amiberry: a verification project in TLA+

Amiberry is an Amiga emulator. Most of its code imitates hardware and is right when it does what an
Amiga does, which no document of the repository states. But the emulator is also a concurrent
program: the emulated machine runs in one thread, host services run in others, and a hand-written
kernel of pipes, semaphores, interrupts and trap addresses joins them. This project models that
kernel, and the queues and schedulers it rests on, as eight TLA+ machines that TLC checks on small
instances. TLAPS proves every safety property and every refinement that a passing run checks, for
every size. Paths below are relative to the directory `src/src` of the repository.

Contents: [the system](#1-the-system), [the modules](#2-the-modules), [the runs](#3-the-runs), [the
proofs](#4-the-proofs), [what disagrees](#5-where-code-and-comments-disagree), [what is left
out](#6-what-is-not-modelled), [the plan](#7-plan).

## 1. The system

### Who runs

| actor | what it is | where |
|---|---|---|
| emulation thread | executes 68k instructions; between two of them, traps into host code, and runs the event scheduler | `newcpu.cpp`, `events.cpp`, `traps.cpp` |
| Amiga tasks | 68k programs, switched by the Amiga's own exec inside the emulation thread; some of them run code that the emulator put there | `filesys.asm` |
| trap threads | one per running extended trap; alternate with the emulation thread | `traps.cpp` |
| unit threads | one per file system, hard file, SCSI and IDE unit; read requests from a pipe | `filesys.cpp`, `hardfile.cpp`, `scsiemul.cpp`, `ide.cpp` |
| device threads | CD drives, sockets, sound, rendering, the console | `akiko.cpp`, `cdtv.cpp`, `blkdev.cpp`, `bsdsocket_host.cpp`, `drawing.cpp`, `keybuf.cpp` |

A unit thread receives work through a communication pipe (`commpipe.h`). It gives results back by
writing to Amiga memory and by asking for an interrupt (`uae_int_requested`), whose server in
`filesys.asm` wakes the EXTER task; that task traps into `exter_int_helper`, which tells it, one
order at a time, what exec functions to call.

### Components

For each component: its state, its operations, how it meets the others, what is hard, and what makes
it correct. `PROJECT.json` has the same list with the status of each, and the hazards line by line.

**Communication pipe** (`include/commpipe.h`). State: a ring with `rdp` and `wrp`, three semaphores,
the flags `reader_waiting` and `writer_waiting`, a chunk size. Operations: `init_comm_pipe`,
`write_comm_pipe_*`, `read_comm_pipe_*_blocking`, `comm_pipe_has_data`. Used by every thread above.
Hard: the writer skips the lock when the reader sleeps; both re-enter after a sleep without testing
again; wakeups are batched. Correct if it is a bounded FIFO that loses no wakeup.

**Event scheduler** (`events.cpp`). State: the cycle counter, `nextevent`, the tables `eventtab`
(periodic) and `eventtab2` (one-shot). Operations: `do_cycles` in two speeds, `event2_newevent*`,
`event2_remevent`, `events_schedule`, `MISC_handler`. Called by the CPU core and by every chip.
Hard: handlers that change the tables while they are scanned, cached minima, a clock that wraps, the
wait for host time. Correct if no event is skipped, moved or taken twice, and each is taken in the
end.

**Keyboard buffer** (`keybuf.cpp`). State: a ring of key codes, the text that is being pasted.
Operations: record, poll, take, inject, purge. Recorded from the emulation thread and the console
thread, taken by the keyboard emulation. Hard: text is injected by whoever takes; releases follow on
later polls; pause and purge come in between. Correct if it is a queue, and what is pressed is
released.

**Extended traps** (`traps.cpp`, first half). State: `trap_mutex`, `current_context`, and per
context two semaphores, saved registers and a return value. Operations: start a trap, call a 68k
function from a handler, return from it, end the trap. Hard: two threads own the machine
alternately, while Amiga tasks are switched under them and traps nest. Correct if one of them runs
at a time, each gets its own registers and values back, and every trap ends.

**Hardware traps** (`traps.cpp`, second half; the board's memory in `autoconf.cpp`). Traps through
the UAE board, where the host does not touch the Amiga's memory and registers by itself. State: the
slots of the board with their bytes of status (locked, ready, the status of the command in the
slot), the contexts (`trap_background`, `trap_done`), the threads with a pipe each, the count
`hwtrap_waiting` and the request for the interrupt. Operations: `hwtrap_entry` on the Amiga,
`call_hardware_trap`, `hardware_trap_thread`, `call_hardware_trap_back`,
`trap_background_set_complete`, `trap_callback`, `hwtrap_check_int`, `hwtrap_interrupt`. Hard: a
context given to the thread of a unit while the thread that ran its handler still holds it; a
request for the interrupt taken back while a new one is made; traps that queue behind a busy thread.
Correct if a trap is acknowledged only when nothing of the host uses its slot, each command is
answered once, and every trap returns.

**Virtual file system** (`filesys.cpp`, `filesys.asm`). State of the packet transport: the handler
task's port, its chain of packets and count, two pipes per unit, the counters `cmds_sent`,
`cmds_acked`, `cmds_complete`, `singlethread_int_sem`. Operations: `filesys_handler`,
`filesys_iteration`, `exter_int_helper` (1), (10) and (11), `filesys_vsync`, the handler's loop,
reset. Hard: five actors that pass a packet on, counters as locks, an interrupt shared with others.
Correct if the one dummy message of a unit is never put twice, pipes never fill, and every packet is
replied to. The files, keys and locks behind it (`handle_packet` and all that it calls) are a
component of their own, sequential but for the record locks.

**Calls of exec from the host** (`native2amiga.cpp`). State: one pipe and one semaphore. Operations:
`uae_PutMsg`, `uae_ReplyMsg`, `uae_Signal`, `uae_Cause`, `uae_Signal_with_Func`,
`uae_NotificationHack`, and the reader in `exter_int_helper`. Hard: messages of several words, an
emulation thread that sends to itself. Correct if messages stay whole and in order and each is
delivered.

**Hard file requests** (`hardfile.cpp`). State: the table of requests, the pipe, `thread_running`.
Operations: begin, abort, open, close, reset, the unit thread. Hard: both threads change the table
without a lock while the emulation thread sleeps on its contents. Correct if nothing waits for ever
and every request is answered.

**The rest**, one line each. *uaeexe*: commands queued for the host, `uaeexe.cpp`. *Custom chips,
CPU, JIT*: hardware behaviour. *Display*: `drawing.cpp` hands lines to a render thread. *CIA*:
timers, time of day, keyboard handshake. *Floppy*: motor, tracks, write-back. *Sound*: channels and
a host buffer. *IDE, Gayle, SCSI, CD*: a command register or a request queue and a thread each.
*bsdsocket*: a thread per library opener, signals back through native2amiga. *Saved states,
configuration, archives, image formats, GUI, memory and expansion tables, flash ROM and clock*:
formats, tables and host dialogs.

### How they meet

    Amiga task --trap--> emulation thread --pipe--> unit thread
        ^                     |  ^                       |
        |              two semaphores                    | pipe / memory
     EXTER task               v  |                       v
        ^                trap thread            uae_int_requested
        +---------------- interrupt <--------------------+

`CommPipe` is the arrow "pipe"; the modules above it treat a pipe as the FIFO that `CommPipe` is
proved to be. `FilesysPackets`, `HardfileRequests` and `Native2Amiga` are three ways round the
picture. `ExtendedTraps` is its middle, `HardwareTraps` what takes the place of the middle when the
board is used, and `Events` and `KeyBuf` what the emulation thread does by itself.

## 2. The modules

One action stands for what a thread does between two points where another can come in: a semaphore
operation, or a visit to shared memory. Traps that run to their end in the emulation thread are one
action, since to the Amiga they are one instruction. Places (`wpc`, `place`, `thread`, ...) say
where an actor stands in the code.

| module | models | extends or instantiates |
|---|---|---|
| `CommPipe` | both sides of a pipe, operation by operation | `BoundedFifo` (refined) |
| `BoundedFifo` | what a pipe promises | |
| `CommPipeProofs` | theorems about `CommPipe` | `CommPipe`, TLAPS |
| `Events` | `do_cycles`, `MISC_handler`, both tables | `EventQueue` (refined) |
| `EventQueue` | what one-shot events are promised | |
| `EventsProofs` | theorems about `Events` | `Events`, TLAPS |
| `KeyBuf` | recording, polling, taking, injecting | `KeyQueue` (refined) |
| `KeyQueue` | what the writers and the reader are promised | |
| `KeyBufProofs` | theorems about `KeyBuf` | `KeyBuf`, TLAPS |
| `ExtendedTraps` | traps and 68k calls of several tasks | |
| `ExtendedTrapsProofs` | theorems about `ExtendedTraps` | `ExtendedTraps`, TLAPS |
| `HardwareTraps` | traps through the slots of the board | |
| `HardwareTrapsProofs` | theorems about `HardwareTraps` | `HardwareTraps`, TLAPS |
| `FilesysPackets`, `MCFilesysPackets` | a packet's way from its client and back | |
| `FilesysPacketsProofs` | theorems about `FilesysPackets` | `FilesysPackets`, TLAPS |
| `Selection` | what a sequence has of a set, for chains that are scanned and words of a pipe | used by `FilesysPackets`, `Native2Amiga` |
| `Native2Amiga`, `MCNative2Amiga` | messages from any thread to the EXTER task | `BoundedFifo` (refined) |
| `Native2AmigaProofs` | theorems about `Native2Amiga` | `Native2Amiga`, TLAPS |
| `HardfileRequests` | table, thread and reset of a unit | |
| `HardfileRequestsProofs` | theorems about `HardfileRequests` | `HardfileRequests`, TLAPS |

### CommPipe

The writer's actions are the lines of `write_comm_pipe_pt` in their order: `WriteCall`, `Probe`
(reads `reader_waiting` without the lock), `WriteLock`, `TestFull`, `WriterSleep`, `WriteRelock`,
`Store`, `WakeReader` and `PostReader` (`maybe_wake_reader`), `WriteReturn`; the reader's are those
of `read_comm_pipe_pt_blocking`. There is one writer and one reader: callers with several writers
hold a lock of their own (`n2asem`), and each pipe has one reading thread. The value and the
`no_buffer` argument travel together in the model so that properties can speak of items that must be
read at once; the code drops the flag. Memory is taken as sequentially consistent: the fields are
volatile and each semaphore is a barrier.

### Events

`pc` is the place in a call: `cpu` (between calls), `loop` and `fire` (`do_cycles`), `misc` and
`handler` (`MISC_handler`). All of it is one thread; what interleaves is handlers that schedule
while a scan is under way (`HandlerPosts`, `HandlerArms`, `FireChip`), which is why the scan of
`eventtab2` is taken slot by slot. Times count modulo `Wrap`, and `Ahead` is the unsigned difference
of the code. Handlers are arbitrary: each may re-arm or disarm its chip and post any event. The CPU
may post, withdraw, arm, switch speed and reset.

### KeyBuf

`record_key_direct` is four steps (`Record`, `Test`, `Store`, `Publish`) since two threads share the
indices. `Recorders` says which threads may record in one session: the emulation thread (host keys,
pasted text, purges), the console thread, or both, which is where the code is wrong (section 6).
`Poll` is `keys_available`, with `can_inject`'s counter; `Get`, `InjectNext` and `Take` are
`get_next_key` with `keytoscancode`. A character either needs shift or does not; the assumption
`KeyNames` keeps apart what comes from where. The ghost variable `down` collects what the Amiga has
seen go down, `lost` whether a key was refused or purged.

### ExtendedTraps

The registers of the machine are abstracted to the *activation* they belong to, a task and a depth
of nested 68k functions: properties then can say whose registers the CPU holds. `HandleExtendedTrap`
is `trap_HandleExtendedTrap`, `CallHandler`, `ReturnHandlerLock` with `ReturnHandler`, and
`ExitHandler` the three trap handlers, the actions of `TrapThread` `trap_thread` and `trap_Call68k`.
`running` has the contexts whose host thread has not ended: `trap_thread` posts the semaphore
(`ExitSwitches`) and ends later (`ThreadEnds`), and `ExitHandler` waits for that before it frees the
context. `TaskSwitch` and `FunctionReturns` are the Amiga (external); a task can be switched only at
`pc = "code"`, since the code masks interrupts before it leaves the machine at a trap address.
`Reset` clears the machine and leaves the contexts as they are, as the code does.

### HardwareTraps

`LockSlot`, `Trigger`, `TakeCommand`, `Answer` and `Leave` are a task in `hwtrap_entry` and what the
host does when it reads and writes the board (`rtarea_wget`, `rtarea_wput`, `call_hardware_trap`).
`Read`, `GiveAway`, `EndTrap`, `IsBackground` and `TrapDone` are `hardware_trap_thread`, whose test
of `trap_background` and whose `trap_done` are two steps; `AskTask`, `Count`, `Request`, `Post` and
`Answered` are `call_hardware_trap_back`. `UnitReads`, `SetComplete` and `CompleteAck` are the
thread of a unit with `trap_background_set_complete`. `TrapCallback`, `SetInt`, `NothingWaits`,
`ClearInt` and `Interrupt` are the emulation thread: `hwtrap_check_int` is a test and, later, what
follows from it, and the Amiga stands still in between. `Prompt` is the assumption that a handler
returns to its thread before the thread of the unit is done with the context; without it see section
5. Slots that wait by `Signal` (mode 1) and the trap task are left out, as no code of the repository
selects them.

### FilesysPackets

`HandlerTask` is the loop in `filesys.asm` with the traps it calls, among them `filesys_handler`,
which passes a packet to the thread (`DoCommand`) or, on its error exits, has it replied to at once
(`Refuse`). `UnitThread` is `filesys_iteration`, `ExterTask` the task with `exter_int_helper`,
`Vsync` is `filesys_vsync`, `ResetBegins`, `ResetGoesOn` and `ResetEnds` are `filesys_prepare_reset`
and `filesys_start_threads`. `OtherRequest` is an interrupt asked for by another part of the
emulator, while none is asked for: asking again changes nothing. Counters count modulo `Wrap` as
`unsigned` does.

### Native2Amiga

A sender takes `n2asem`, writes the words, asks for the interrupt, releases. The EXTER task parses
with `HasData` and `ReadArgs`. `Emu` may be a sender: while it waits the Amiga, and with it the
reader, stands still (`AmigaRuns`).

### HardfileRequests

`hardfile_beginio` is `BeginIO` (with `start_thread`), then `ReturnsAtOnce`, for quick commands and
for the error exit when the thread has ended, or `BeginAsync`, `Enter` and `HandOver`. `Enter` is
`add_async_request` field by field: the entry that the request has already or the first free one,
its request, its type. `AbortIO` and `AbortBegins` are `hardfile_abortio`; `AbortGoesOn`, `Release`
and `Released` are `abort_async`; `UnitThread` is `hardfile_thread`; `Close`, `Open`, `Reset...` are
the rest. `release_async_request` is three steps of either thread: it finds the entry, clears its
request, clears its type, whatever the other thread has done to the entry in between.
`thread_running = 0` and the posts of `sync_sem` and `change_sem` that follow are one step.

## 3. The runs

`PROJECT.json` names each run's module, cfg and properties, and for every property of a passing run
a mutant: a small bug in a definition (kept next to it as `Bug...`) with which TLC finds the
property violated.

| run | asks | bounds, and why they are enough |
|---|---|---|
| `pipe` | is the ring sound, a FIFO, with no lost wakeup; do flushed items and blocked writes get through | four slots (three usable), chunk size 2, two values: full, empty, wrapped around, and both "fewer than a chunk" and "a chunk" occur; the safety properties are proved for all sizes |
| `events` | is no event passed by, lost, moved or starved | one slot of its owner (as `ev2_blitter` and `ev2_disk` are) and two shared slots for four different events (the table fills), one chip, a clock of 4 values with delays 1 and 2 (it wraps all the time), both speeds, calls that add 2 cycles, past an event 1 cycle ahead |
| `keybuf` | does the buffer stay a queue, is the asserted key there, does paste end, is nothing stuck | four slots; either the emulation thread records (a paste of one or two shifted characters, a host key, a purge, pausing at any moment) or the console thread (two keys: the queue tells orders apart). A shifted press takes two slots of three, so refusals happen |
| `traps` | is the machine handed over and given back right, does every trap end | two tasks, two contexts, nesting of 2, two calls per handler, one reset: a context is reused, tasks wait in opposite orders, a trap nests in a trap |
| `hwtraps` | is a slot let go only when nobody uses it, are commands counted, do traps and callbacks end | two tasks and two slots, one command per handler and per work of a unit, one `trap_callback`, two of traps and callbacks under way: a slot is reused, its context is given away or not, the interrupt check meets a new request |
| `packets` | do pipes have room, also during a reset, and can a reset always go on | two units, two packets, one started command per unit, one reset, counters modulo 3 (they wrap); packets are symmetric |
| `packets_liveness` | is the dummy message put once, do handler and thread agree on their work, are finished packets replied to | one unit, two packets both startable, so that one is finished while the dummy message for the other is on its way; counters modulo 5. Two units with this limit are too many states; `PutOnce` proves it for any number of both |
| `native` | do messages stay whole and ordered, is each delivered | two host threads and the emulation thread, messages of 2, 3 and 4 words, a pipe that holds just what can be under way |
| `hardfile` | is the table consistent, do aborts and resets end, is everything answered | three requests in three slots, one close, one reset: first, middle and last entry and a table that fills; both threads come to clear the same entry, and one clears what the other has filled in anew |
| `hwtraps_background`, `packets_lost`, `packets_aside` | see section 5: TLC refutes what a line of the code says | the smallest instance that shows it |

`Closes`, `Resets`, `Pastes`, `Purges`, `MaxDepth`, `MaxCalls`, `Commands`, `Callbacks` and `Busy`
bound what would otherwise grow for ever; everything else is cyclic.

What the properties say, by hazard:

- *Interleaving*: `RingExclusion`, `FifoSpec` (pipe); `Handoff`, `RightCaller`, `RightStack`,
  `NoDangling` (extended traps); `ReadyIsDone`, `CommandsAgree` (hardware traps); `WholeMessages`,
  `MailSpec` (native); `MessageLock` (packets); `OneEntry` (hard file); `QueueSpec` of `KeyBuf`.
- *Lost wakeups and liveness*: `NoLostWakeup`, `FlushIsRead`, `WriteReturns`; `Delivered`;
  `CallbacksEnd`; `SharedEventFires`; `PasteTyped`; `UsedUnitsReply`; `Answered`.
- *Deadlock*: `MutexFree`, `TrapsEnd`; `TrapsReturn`; `WaitsEnd`.
- *Stale caches and wraparound*: `NothingPassed`, `QueueSpec` of `Events`; `KeyIsThere`.
- *Limits*: `PipesHaveRoom`, also during a reset.
- *Memory freed too early*: `Handoff`, for the context of a trap whose thread still runs.
- *Agreement of two actors' books*: `SameWork`, `NothingStuck`.

TLC's own deadlock check is on in all runs but `traps`, where a reset in the middle of a hand-over
really stops the machine (section 6), `keybuf`, where the assertion may end the program, and
`hardfile`, where both threads may stop after a close (section 6). What it shows is less than the
word says. In `pipe` it is the question whether both threads sleep. In `packets` and `native` the
Amiga can always serve one more interrupt while it runs, so that the check only speaks of the states
in which the emulation thread waits and the Amiga stands still: there a reset can always go on
(`packets`) and a sender can (`native`, with room for all that can be under way; with a `Capacity`
of 8 TLC finds the deadlock). In `events` and `hwtraps` some step of the one thread or of the Amiga
can always be taken. That the actor that is waited for has a step to take is what the theorems
`ThreadsEnd`, `SendersMove`, `NeverBothWait` and both `NoDeadlock` prove; that it takes it is for
the liveness properties.

Hazards that no property of a run covers are listed with their reason in `PROJECT.json`. Five are
worth naming. Two writers of the key buffer (`keybuf.cpp:276`) are kept apart by `Recorders`. In
`packets_liveness` nobody is refused `singlethread_int_sem` (`filesys.cpp:6533`): `filesys_vsync` is
one step, so only a reset leaves it taken. In `native` nobody waits for room in the pipe
(`native2amiga.cpp:79`): that is `SendersMove`. `abort_async` that waits too little because the type
of a new entry was lost (`hardfile.cpp:2334`), or for ever after a close (`hardfile.cpp:2452`),
happens in the model and violates nothing that the code promises.

### Fairness

Weak fairness where the host schedules a thread; strong fairness only where the code's environment
recurs by design.

- `CommPipe`: weak for both threads. The reader calls again, as every reading thread is a loop
  around the blocking read; nothing makes the writer call.
- `Events`: weak for a call of `do_cycles` once begun; strong for beginning one (the CPU ends every
  instruction with it) and for the host clock reaching a sync point that is awaited again and again.
- `KeyBuf`: weak for the steps of the emulation thread; strong for polls, which the raster line
  brings round, and for a poll that takes: once the Amiga's keyboard is up each poll that finds a
  key takes it.
- `ExtendedTraps`: weak for both kinds of thread; strong for switching to each task and for the
  return of each 68k function, which are the Amiga's scheduler and programs. Without the latter a
  trap cannot end.
- `HardwareTraps`: weak for the threads of the host and for the interrupt check and the interrupt,
  as the Amiga goes on reading bytes of the board; strong for each task's steps in `hwtrap_entry`,
  since the check stops the Amiga again and again and Exec runs each task in turn. Nobody must begin
  a trap or a callback, or give a context away.
- `FilesysPackets`, `Native2Amiga`: weak for threads, tasks and the interrupt; nobody must send.
- `HardfileRequests`: weak for both threads; programs need not call.

## 4. The proofs

TLAPS checks eight modules of theorems, one for each machine; they hold for every value of the
constants that satisfies the named assumptions. `PROJECT.json` lists the theorems that a reader
should know of: those that state what a run checks, and those that say more. In each module there is
one inductive invariant `IInv`, one lemma `...Keeps` per action (or group of actions that touch the
same variables) which shows that the action keeps it, and then the theorems. Where a theorem needs
to know more, a second invariant, named at the theorem, is proved inductive on top of `IInv` in the
same way.

Several theorems are the *safe part* of a liveness property that only TLC checks: that what is
waited for is under way, and that whoever must bring it on has a step to take. They are
`WakeupsArrive`, `NonePassed`, `AllReleased`, `TrapsKept`, both `NoDeadlock`, `ThreadsEnd`,
`OneForgotten`, `NoLostInterrupt`, `SendersMove`, `NeverBothWait` and `NoneForgotten`. What they
leave to TLC is that steps which can be taken are taken.

What the library says by induction it says with operators as parameters, which the provers cannot
instantiate. `FilesysPacketsProofs` and `Native2AmigaProofs` therefore prove induction over numbers
and over sequences for *sets* (`Least`, `Induction`, `SeqInduction`: a set of sequences over S that
has the empty one and is closed under `Append` has them all), and with it that the recursive
function in `Kept` exists (`KeptExists`) and how it meets `Append`, `Tail`, a change of the set, and
the set of its elements (`Kept...`).

### CommPipe

Assumption (`PipeAssumption`): `Chunks` lies between 1 and `Size - 1`, as in every call of
`init_comm_pipe`, and `NoItem` is no item. The inductive invariant `IInv` adds to the types

- `LockInv`: the lock is taken exactly when a thread stands inside its section, and never by both.
  The writer of the unlocked path is inside without holding it;
- `ReaderInv` and `WriterInv`: for each place, what the flags and the wait semaphores must be, and
  that the ring is not empty when the reader goes on to take and not full when the writer goes on to
  store;
- `SleepInv` and `WakeInv`: a sleeping reader that nobody is about to wake has fewer than a chunk,
  and none flushed, in front of it;
- `DataInv`: unread slots hold items.

It is needed because the exclusion that the unlocked path relies on is nowhere a semaphore: it
follows from `reader_waiting`, which only a reader on its way to sleep sets and only the writer
clears. `InvStore` and `InvTake` treat the two steps that move the ring, using the lemmas `SuccIs`,
`DistanceIs`, `StoreRing` and `TakeRing` about positions modulo `Size`; `InvOffRing` treats all the
others. Then

- `TypeCorrect`, `Exclusion`, `RingSound` (no overrun, no underrun), `TokensMatch` (no stray
  wakeup), `WakeupsArrive`;
- `Refinement`: `Spec => FifoSpec`. `Store` is `Put`, `Take` is `Get`, the calls and returns are
  themselves, and all else stutters.

### ExtendedTraps

Assumption (`TrapsAssumption`): the bounds are naturals, `None` is no context. `IInv` has

- `Baton`: per context, at most one of its two semaphores is posted, and where its thread stands
  then; a thread is active only while the emulation thread waits for it;
- `Section`: who is inside the section of `trap_mutex`, by place; before a reset it is taken only
  then;
- `Address`: the machine stands at a trap address only if the thread that put it there waits for it;
- `Frames`, `NoDangling`: a context pointer on an Amiga stack belongs to a context that waits for
  that very function, once;
- `Calls` and `Registers`: the values and registers kept for each context and for each task that
  does not run.

None of these is inductive alone: that the return handler finds the right context needs `Frames`,
which needs that the context was current when the frame was pushed (`Address`), which needs that
nobody else ran in between (`Baton`). One lemma per action (`...Keeps`) shows that it keeps each
part. Then `TypeCorrect`, `MachineHandedOver`, `SectionOver`, `ValueReturned`, `RegistersRestored`,
`PointersValid`: the safety properties of the run `traps`, for any number of tasks, contexts, calls
and resets.

Three more invariants. `RunInv`: the host thread of a context is there from the start of its trap,
and has ended when the context is freed; `MachineHandedOver` needs it. `KeptInv`, of runs without a
reset: a context whose thread waits for a 68k function has a frame on the stack of a task, or acts
for the task that runs; the lemmas `Pushed` and `Popped` say what a call and a return do to the
frames. `MaskInv`: interrupts are masked only from the preparation of a call or of an exit to its
trap address. From them `TrapsKept` (while the Amiga runs, every trap under way will be found by the
return of a function on a stack), `MaskRestored` (68k code never runs masked, so that tasks are
switched), and `NoDeadlock`: until a reset, the emulation thread and the thread it waits for never
both stand still. After a reset that is not so (section 6).

### Events

Assumption (`EventsAssumption`): delays, and what a call adds to the clock, are shorter than the
range of the clock. Times live modulo `Wrap`, so that "earlier" only means something relative to the
clock, and "no event" is the largest distance. `IInv` says that the caches are never late, by place:

- `NextInv`: unless the entries are just being looked at, no armed entry is nearer than `nextevent`;
- `FarInv`: no one-shot event is as far ahead as "no event";
- `MiscInv`: outside the scan, no one-shot event is nearer than `ev_misc`, which is armed if there
  is one;
- `ScanInv`: during the scan, `mintime` is the least distance of the slots that were passed, unless
  a handler asked for the scan to be repeated.

The lemmas `DifferenceIs`, `SumIs`, `AheadAfter` and `ClockMoves` do the modular arithmetic once: a
step of the clock that is no longer than the distance to `nextevent` shortens all distances by the
same amount. Then `TypeCorrect`, `NonePassed` and `Refinement` (`Spec => QueueSpec`: the two tables
implement `EventQueue`).

### KeyBuf

Assumptions: `KeyBufAssumption`, and `KeyNames` for what tells a shift key, a character and other
keys apart. `TypeCorrect` holds for any `Recorders`. The other theorems assume `Single`, that there
is no session in which both threads record: `SoloInv` says what the other thread then cannot be
doing, `WriteInv` that the slot a thread has tested stays free and holds its key when it is
published, `ReadInv` why there is a key when one is taken: it was in the ring at the poll, is about
to be injected, is being recorded, or was recorded since. From these follow `AssertionHolds` and
`Refinement` (`Spec => QueueSpec`, a queue of `Size - 1` keys). `AllReleased` needs more, `HeldInv`:
for each key that pasting can press, the newest of its events that are still to come (to be
recorded, being recorded, in the ring), or, where there is none, what the Amiga has seen, is a press
exactly while paste holds the key.

### HardwareTraps

Assumptions: `HardwareAssumption`; the theorems also assume `Prompt` and at most one `trap_callback`
under way: without the first TLC refutes `ReadyIsDone`, without the second `CommandsAgree`. `IInv`
follows each slot: it is in one pipe, once, or with one thread (`PipeInv`, `WorkerInv`), but for a
slot that was given away, which the thread that ran its handler still holds until `trap_done`
(`ContextInv`); the host works only on slots of tasks that wait (`TaskInv`, `UsedInv`); a command is
in a slot exactly while a thread waits for its answer (`CommandInv`). `RangeAppend` and `RangeTail`
are the lemmas about the contents of a pipe. Then `TypeCorrect`, `LastIsReady` and
`CommandsCounted`.

`HeldInv` adds that nothing is dropped: a task waits for a slot that is ready or that the host has,
a context is marked only if it was given away, a command that was taken is with a task, and the slot
for sending is locked while the host uses it. Then `NoDeadlock`: while a trap or a callback is under
way some task, some thread, the thread of the unit or the interrupt has a step to take. It is the
question that the round robin of the threads raises, as a trap goes to the next thread even if that
one waits for the Amiga.

### FilesysPackets

Assumption (`PacketsAssumption`): the counters are wide enough for twice the limit, and the names
differ. There are five invariants.

- `IInv` with `LockInv`: if `cmds_acked` and `cmds_complete` of a unit are equal its dummy message
  is neither at the port nor about to be put there, and if they differ it is in exactly one of the
  two places. Then `PutOnce`.
- `PacketInv`: types at all times, and while the Amiga runs (`RunInv`) where every packet is. A
  packet that was sent is in one port, once; one that was taken is in the chain of one handler,
  once, where the chain includes the command in hand (`PortInv`, `ChainInv`). What is handed or done
  in a chain is what `started` counts (`StartedInv`). The handed ones are, newest first, what the
  thread works on and what its pipe holds (`WorkInv`, which contains `SameWork`). `back_pipe` has at
  most one item for each packet that is done and not replied to, and `Limit + 1` more; the handler
  empties it before it scans, so that it is one more then (`BackInv`). That is why the pipe needs
  room for `2 * Limit + 1` items and not for `Limit`: items of packets that a scan has taken already
  may lie unread. Each action leaves a chain alone (`SameFacts`), puts a packet in front of it
  (`PrependFacts`), marks one in it, or scans it. Then `TypeCorrect`, `WorkAgreed`.
- `RoomInv`: what can still come into the pipe back (`Load`: what is in it, what the thread works
  on, what it has yet to read) is at most `2 * Limit + 1`, and one more for the death message of a
  reset (`Deaths`); while the Amiga runs that follows from `PacketInv` (`RunRoom`), and during a
  reset no step makes it larger. Then `RoomInPipes`, at all times.
- `DownInv`: during a reset the threads before the one that is waited for are dead, and that one has
  the death message in its pipe until it has read it. Then `ThreadsEnd` and `NoSecondThread`.
- `GapInv`: the packets of a unit that are counted but not replied to (`Ended`), less those that the
  gaps between its three counters still promise a scan for, are at most one, outside of a scan; and
  the gap of `cmds_sent` is in turn bounded by them and the limit, so that it does not wrap. Then
  `OneForgotten`, which is the exact strength of finding 2 below: when nothing of a unit is
  announced any more, *at most one* finished packet is left behind, however often interrupts of
  another origin intervene. It assumes counters wider than three times the limit: 60 of 2^32.

### Native2Amiga

Assumption (`NativeAssumption`): messages have two to four words. `IInv` reads the words that the
EXTER task has parsed, those in the pipe, and those that the owner of `n2asem` has yet to write as
one row, in which neighbours either continue a message or end one and begin another (`PipeInv`,
`GotInv`, `JointInv`, `EndInv`); `SemInv` and `SenderInv` say that there is one owner and how far it
is. Then `TypeCorrect`, `MessagesWhole`, and `NoLostInterrupt`: a message in the pipe whose sender
has asked for the interrupt is announced or being read. No run checks the latter, as a message that
is not announced shows in `Delivered`.

`Refinement`: `Spec => MailSpec`. The abstract queue is what `Kept` has of the pipe for the set of
last words; the step that writes a last word is `Put` (`WriteIsPut`, by `KeptAppend`), the one that
reads it `Get` (`ReadIsGet`, by `KeptTail`), and other words stutter.

`FlightInv`: no word is in the pipe twice or both in the pipe and parsed, and what is unwritten is
of a message under way, of one sender. So the words in the pipe inject into the pairs of a message
under way and an index, which gives `PipeBound`: while a sender has a word to write the pipe holds
fewer than four for each message under way. With it `SendersMove`: as long as what is under way
fits, some sender has a step to take, so the emulation thread does not wait for the room that only
it can make. This is the condition under which the code is right (section 6).

### HardfileRequests

Assumption (`HardfileAssumption`): the table has room for all requests. `IInv` follows a request
that was sent: the emulation thread enters it, then it is in the pipe, then with the thread of the
unit, never in two of these places, and a request that is with its client is nowhere else. That a
free entry is found is the pigeonhole lemma `FreeEntry`. Then `TypeCorrect` and `EnteredOnce`.

`TempInv`: an entry that `abort_async` has marked, and waits for, belongs to a request that the
thread of the unit has or gets to; the other thread may have cleared the entry that is being filled
in, so that nothing is said of requests that lost theirs. `LifeInv`: unless the unit was closed only
a reset ends the thread, and then waits for it. Then `NeverBothWait`: while the emulation thread
sleeps in `abort_async` or in the reset, the thread of the unit has a step to take. `QueueInv` adds
that the death message is the last in the pipe and that a request not replied to is being entered,
in the pipe, or with the thread. Then `NoneForgotten`: until a close no request is lost, aborted or
not, before, during and after a reset. That both need "until a close" is the hazard of section 6.

### What is only model-checked

The liveness properties `FlushIsRead`, `WriteReturns`, `SharedEventFires`, `PasteTyped`, `TrapsEnd`,
`TrapsReturn`, `CallbacksEnd`, `UsedUnitsReply`, `Delivered`, `WaitsEnd` and `Answered`, since
fairness and ENABLED are out of the prover's reach; the theorems that are their safe part are listed
above. The three findings are refutations, which need an instance and not a proof. Every invariant,
action property and refinement of the passing runs is a theorem.

## 5. Where code and comments disagree

1. `hwtraps_background`: the field `trap_background` says "do not ack automatically"
   (`traps.cpp:224`), but `hardware_trap_thread` tests it (`traps.cpp:603`) after the handler has
   given the context to the thread of a unit. If that thread has called
   `trap_background_set_complete` by then, the flag is 0 again: the trap is acknowledged and its
   context freed while the other thread still waits for its `trap_done`.
2. `packets_lost`: `filesys_iteration` counts a packet as sent before it marks it as done. If an
   interrupt of another origin runs the EXTER task and the handler's scan in between, the packet's
   own interrupt finds nothing to do. The packet is replied to after the unit's next command, if
   there is one (`UsedUnitsReply` says so); no two are ever left behind (`OneForgotten`).
3. `packets_aside`: "We can handle an unlimited number of unstarted commands" (`filesys.asm:1854`),
   but no code starts a command that was set aside because 20 were started already.

## 6. What is not modelled

Components: see the list in section 1 and `PROJECT.json`. Within the modelled ones:

- what a handler, a packet or an I/O request computes; handles, memory and register contents; raster
  positions other than "same line";
- `uae_ShellExecute`, `CMD_ADDCHANGEINT` and disk changes, what quick commands do, SCSI commands,
  record locks;
- `cpu_thread` and the JIT's refund of cycles in `do_cycles`;
- of hardware traps: mode 1 and the trap task, the end of the threads in `free_traps` and
  `hardware_trap_kill`, commands sent in batches;
- `native2amiga_reset`.

These were seen while modelling, and no comment or document says what should happen, so that no run
claims anything about them; properties that they touch are qualified, as their comments say:

- `traps.cpp:373`: a reset after a trap thread has taken `trap_mutex` and before the machine reaches
  the trap address leaves it taken; the next extended trap that calls 68k code or ends stops the
  machine. `MutexFree` and `TrapsEnd` speak of runs without a reset.
- `filesys.cpp:6634`: the same with `singlethread_int_sem`; after it `exter_int_helper` (10) refuses
  every request (`NotForUs`).
- `keybuf.cpp:276`: host keys or pasted text together with the console thread make two writers, for
  which `QueueSpec` does not hold, in spite of the comment on line 7 that no synchronisation is
  needed. In the run and in the theorems a session has one of them (`Recorders`).
- `keybuf.cpp:213` and `247`: `keys_available` says yes on account of text still to be injected; if
  the emulation is being paused `record_key` refuses the key and `assert(kpb_first != kpb_last)` in
  `get_next_key` fails. `KeyIsThere` excepts a pause.
- `keybuf_init` and a full buffer drop releases: `NothingStuck` excepts them (`lost`).
- `hardfile.cpp:2452`: a unit that is closed and opened again before its thread ends can leave
  `abort_async` and the reset waiting for ever. `WaitsEnd` and `Answered` speak of runs without a
  close.
- `hardfile.cpp:2334`: an entry is free before it is cleared. The model does so too, and in it the
  type of a new request gets lost, `abort_async` goes on while its request is being processed, and a
  thread clears an entry that belongs to another request; only the buffers are left out.
- `hardfile.cpp:2883`: a full table is ignored. The model has as many slots as requests.
- `native2amiga.cpp:33`: the emulation thread can fill the pipe that only it empties. The run takes
  a `Capacity` that all that can be under way fits into; `SendersMove` proves that this is enough,
  and `PipeBound` that the 299 words of the code are enough for 74 messages of any kind.
- `traps.cpp:770`: `trap_callback` clears the status of the one slot for sending without asking
  whether an earlier function still uses it. With `Callbacks = 2` TLC refutes `CommandsAgree`; the
  run and the theorems have one at a time.
- `traps.cpp:556` and `811`: `init_traps` passes the number of the thread in the place of a pointer
  (`(void *)NULL + i`), and on 64-bit hosts `hardware_trap_thread` reads its number through that
  pointer. The model has the number.
- `traps.cpp:681`: `free_host_trap_context` decrements an entry that is not the one that was
  incremented. Neither it nor its counterpart has a caller, so the model leaves them out.

## 7. Plan

Done, in this order: `CommPipe` (everything rests on it), `Events`, `KeyBuf`, `ExtendedTraps`,
`FilesysPackets`, `Native2Amiga`, `HardfileRequests`, `HardwareTraps`, and the proofs of all eight.

Next, to model:

1. `RecordLocks`: the list that `record_timeout` and `record_check_waiting` share
   (`filesys.cpp:4050-4180`), beside `FilesysPackets`.
2. `Native2Amiga` with `native2amiga_reset`, and composed with `FilesysPackets`: both use one
   interrupt and one EXTER task.
3. `UaeExe`, the list of commands; `ScsiRequests`, the `dev_thread` of `scsiemul.cpp`, of the same
   abstract specification as `HardfileRequests`.
4. `RenderThread`; the keyboard handshake and timers of `cia.cpp`, composed with `KeyBuf`;
   `IdeThread`; the CD threads; the sound buffer; bsdsocket signals.
5. The flash ROM and clock chips as sequential machines.

Next, to prove:

1. `HardwareTraps` with more than one callback: what is still true of `CommandsAgree` when
   `trap_callback` reuses its slot, and `NoDeadlock` without the assumption on `Callbacks`.
2. `HardfileRequests` after a close: which of `NeverBothWait` and `NoneForgotten` survives if the
   thread has ended before the unit is opened again.
3. The planned modules: `RecordLocks` with its list, and `ScsiRequests` as a second implementation
   of the abstract specification of requests.
