------------------------------ MODULE CommPipe ------------------------------
(***************************************************************************)
(* The pipe of include/commpipe.h that joins two threads of the emulator:  *)
(* a ring of Size slots guarded by the semaphore `lock', on whose ends a   *)
(* thread sleeps when the ring is empty (reader_wait) or full              *)
(* (writer_wait).  A writer that finds the reader asleep takes no lock and *)
(* wakes it only once Chunks items have gathered or when the item is       *)
(* written with no_buffer.                                                 *)
(*                                                                         *)
(* One action is one semaphore operation or one visit to shared memory     *)
(* that another thread can interleave with; wpc and rpc say where the two  *)
(* threads stand.  Memory is sequentially consistent: the fields are       *)
(* volatile and a semaphore is a barrier on every host.                    *)
(***************************************************************************)
EXTENDS Integers, Sequences

CONSTANTS Value,     \* what callers send: the members of union uae_pt
          NoItem,    \* a slot or a register that holds nothing yet
          Size,      \* slots of the ring; one of them always stays free
          Chunks     \* how many items a sleeping reader is woken for

\* Every call of init_comm_pipe passes chunks from 1 to 3 and size from 10 to
\* 400; a chunks as large as the ring would let a writer overrun the ring.
ASSUME PipeAssumption == /\ Size \in Nat
                         /\ Chunks \in 1 .. Size - 1
                         /\ NoItem \notin [val : Value, flush : BOOLEAN]

VARIABLES data, rdp, wrp,                  \* the ring
          lock, reader_wait, writer_wait,  \* semaphores
          reader_waiting, writer_waiting,  \* a thread is, or goes, to sleep
          wpc, item, fast,                 \* the writer: place, argument, path
          rpc, got                         \* the reader: place, result

ring  == <<data, rdp, wrp>>
flags == <<reader_waiting, writer_waiting>>
wvars == <<wpc, item, fast>>
rvars == <<rpc, got>>
vars  == <<data, rdp, wrp, lock, reader_wait, writer_wait, reader_waiting,
           writer_waiting, wpc, item, fast, rpc, got>>

\* An item is a value and the no_buffer argument it is written with.  The code
\* does not store the flag: the ring keeps it here so that a property can tell
\* whether the ring holds an item the reader must be woken for.
Item == [val : Value, flush : BOOLEAN]
Slot == 0 .. Size - 1

Succ(p) == (p + 1) % Size
Distance(from, to) == (to - from + Size) % Size
Fill == Distance(rdp, wrp)
Nth(k) == data[(rdp + k - 1) % Size]
Contents == [k \in 1 .. Fill |-> Nth(k)]

Init == /\ data = [s \in Slot |-> NoItem]
        /\ rdp = 0 /\ wrp = 0
        /\ lock = 1 /\ reader_wait = 0 /\ writer_wait = 0
        /\ reader_waiting = FALSE /\ writer_waiting = FALSE
        /\ wpc = "idle" /\ item = NoItem /\ fast = FALSE
        /\ rpc = "idle" /\ got = NoItem

Acquire(sem) == sem > 0 /\ sem' = sem - 1
Release(sem) == sem' = sem + 1
WriterGoes(from, to) == wpc = from /\ wpc' = to
ReaderGoes(from, to) == rpc = from /\ rpc' = to
-----------------------------------------------------------------------------
(* write_comm_pipe_pt *)

WriteCall(i) == /\ WriterGoes("idle", "probe")
                /\ item' = i
                /\ UNCHANGED <<ring, lock, reader_wait, writer_wait, flags, fast,
                               rvars>>

\* "No need to do all the locking" when the reader sleeps.
Probe == /\ WriterGoes("probe", IF reader_waiting THEN "store" ELSE "lock")
         /\ fast' = reader_waiting
         /\ UNCHANGED <<ring, lock, reader_wait, writer_wait, flags, item, rvars>>

WriteLock == /\ WriterGoes("lock", "full?")
             /\ Acquire(lock)
             /\ UNCHANGED <<ring, reader_wait, writer_wait, flags, item, fast,
                            rvars>>

\* Mutants: the test is dropped; a full ring is waited for with the lock held.
BugTestFull == /\ WriterGoes("full?", "store")
               /\ UNCHANGED <<ring, lock, reader_wait, writer_wait, flags, item,
                              fast,
                              rvars>>
BugSpinFull == /\ WriterGoes("full?", IF Succ(wrp) = rdp THEN "full?" ELSE "store")
               /\ UNCHANGED <<ring, lock, reader_wait, writer_wait, flags, item,
                              fast,
                              rvars>>

TestFull ==
  /\ \/ /\ Succ(wrp) = rdp
        /\ WriterGoes("full?", "sleep")
        /\ writer_waiting' = TRUE
        /\ Release(lock)
     \/ /\ Succ(wrp) # rdp
        /\ WriterGoes("full?", "store")
        /\ UNCHANGED <<writer_waiting, lock>>
  /\ UNCHANGED <<ring, reader_wait, writer_wait, reader_waiting, item, fast, rvars>>

WriterSleep == /\ WriterGoes("sleep", "relock")
               /\ Acquire(writer_wait)
               /\ UNCHANGED <<ring, lock, reader_wait, flags, item, fast, rvars>>

WriteRelock == /\ WriterGoes("relock", "store")
               /\ Acquire(lock)
               /\ UNCHANGED <<ring, reader_wait, writer_wait, flags, item, fast,
                              rvars>>

Store == /\ WriterGoes("store", "wake")
         /\ data' = [data EXCEPT ![wrp] = item]
         /\ wrp' = Succ(wrp)
         /\ UNCHANGED <<rdp, lock, reader_wait, writer_wait, flags, item, fast,
                        rvars>>

\* maybe_wake_reader: the flag is cleared first, the semaphore posted after it.
\* Mutant: maybe_wake_reader that forgets no_buffer.
BugMustWake == reader_waiting /\ Fill >= Chunks

MustWake == reader_waiting /\ (item.flush \/ Fill >= Chunks)

WakeReader ==
  /\ wpc = "wake"
  /\ wpc' = IF MustWake THEN "post" ELSE "return"
  /\ reader_waiting' = (reader_waiting /\ ~MustWake)
  /\ UNCHANGED <<ring, lock, reader_wait, writer_wait, writer_waiting, item, fast,
                 rvars>>

PostReader == /\ WriterGoes("post", "return")
              /\ Release(reader_wait)
              /\ UNCHANGED <<ring, lock, writer_wait, flags, item, fast, rvars>>

\* Mutant: the early return of the unlocked path posts the lock it never took.
BugWriteReturn == /\ WriterGoes("return", "idle")
                  /\ Release(lock)
                  /\ item' = NoItem /\ fast' = FALSE
                  /\ UNCHANGED <<ring, reader_wait, writer_wait, flags, rvars>>

WriteReturn == /\ WriterGoes("return", "idle")
               /\ IF fast THEN UNCHANGED lock ELSE Release(lock)
               /\ item' = NoItem /\ fast' = FALSE
               /\ UNCHANGED <<ring, reader_wait, writer_wait, flags, rvars>>
-----------------------------------------------------------------------------
(* read_comm_pipe_pt_blocking *)

ReadCall == /\ ReaderGoes("idle", "lock")
            /\ UNCHANGED <<ring, lock, reader_wait, writer_wait, flags, got, wvars>>

ReadLock == /\ ReaderGoes("lock", "empty?")
            /\ Acquire(lock)
            /\ UNCHANGED <<ring, reader_wait, writer_wait, flags, got, wvars>>

TestEmpty ==
  /\ ReaderGoes("empty?", IF rdp = wrp THEN "release" ELSE "take")
  /\ reader_waiting' = (reader_waiting \/ rdp = wrp)
  /\ UNCHANGED <<ring, lock, reader_wait, writer_wait, writer_waiting, got, wvars>>

ReadRelease == /\ ReaderGoes("release", "sleep")
               /\ Release(lock)
               /\ UNCHANGED <<ring, reader_wait, writer_wait, flags, got, wvars>>

ReaderSleep == /\ ReaderGoes("sleep", "relock")
               /\ Acquire(reader_wait)
               /\ UNCHANGED <<ring, lock, writer_wait, flags, got, wvars>>

\* Mutant: the woken reader takes its item without taking the lock again.
BugReadRelock == /\ ReaderGoes("relock", "take")
                 /\ UNCHANGED <<ring, lock, reader_wait, writer_wait, flags, got,
                                wvars>>

ReadRelock == /\ ReaderGoes("relock", "take")
              /\ Acquire(lock)
              /\ UNCHANGED <<ring, reader_wait, writer_wait, flags, got, wvars>>

Take == /\ ReaderGoes("take", "wake")
        /\ got' = data[rdp]
        /\ rdp' = Succ(rdp)
        /\ UNCHANGED <<data, wrp, lock, reader_wait, writer_wait, flags, wvars>>

WakeWriter == /\ ReaderGoes("wake", "return")
              /\ IF writer_waiting THEN Release(writer_wait)
                                   ELSE UNCHANGED writer_wait
              /\ writer_waiting' = FALSE
              /\ UNCHANGED <<ring, lock, reader_wait, reader_waiting, got, wvars>>

ReadReturn == /\ ReaderGoes("return", "idle")
              /\ Release(lock)
              /\ got' = NoItem
              /\ UNCHANGED <<ring, reader_wait, writer_wait, flags, wvars>>
-----------------------------------------------------------------------------
WriterStep == \/ Probe \/ WriteLock \/ TestFull \/ WriterSleep \/ WriteRelock
              \/ Store \/ WakeReader \/ PostReader \/ WriteReturn

ReaderStep == \/ ReadCall \/ ReadLock \/ TestEmpty \/ ReadRelease \/ ReaderSleep
              \/ ReadRelock \/ Take \/ WakeWriter \/ ReadReturn

Next == (\E i \in Item : WriteCall(i)) \/ WriterStep \/ ReaderStep

Spec == Init /\ [][Next]_vars

\* Both threads are scheduled.  The reader is a loop around the blocking read
\* (hardfile_thread, dev_thread, ide_thread, filesys_thread), so it also calls
\* again; nothing obliges the writer to start another call.
FairSpec == Spec /\ WF_vars(WriterStep) /\ WF_vars(ReaderStep)
-----------------------------------------------------------------------------
(* Properties *)

Semaphore == {0, 1}

\* Types of the ring, the binary use of the three semaphores, and the places.
TypeOK ==
  /\ data \in [Slot -> Item \cup {NoItem}]
  /\ rdp \in Slot /\ wrp \in Slot
  /\ lock \in Semaphore /\ reader_wait \in Semaphore /\ writer_wait \in Semaphore
  /\ reader_waiting \in BOOLEAN /\ writer_waiting \in BOOLEAN
  /\ wpc \in {"idle", "probe", "lock", "full?", "sleep", "relock", "store",
              "wake", "post", "return"}
  /\ item \in Item \cup {NoItem} /\ fast \in BOOLEAN
  /\ rpc \in {"idle", "lock", "empty?", "release", "sleep", "relock", "take",
              "wake", "return"}
  /\ got \in Item \cup {NoItem}

\* The unlocked path is safe: while the writer stores with no lock held, the
\* reader is out of its critical section, and the two never hold the ring at
\* once (commpipe.h tests reader_waiting before it takes the lock).
RingExclusion ==
  ~ /\ wpc \in {"full?", "store", "wake"}
    /\ rpc \in {"take", "wake", "return"}

\* A store never lands on an unread slot and never makes a full ring look
\* empty, although the fast path and the path after a sleep test nothing.
NoOverrun == wpc = "store" => Succ(wrp) # rdp

\* The reader never takes from an empty ring, although it does not test again
\* after it has been woken.
NoUnderrun == rpc \in {"relock", "take"} => rdp # wrp

\* A post of a wait semaphore is consumed by the sleep it was meant for: no
\* token is left behind for a later sleep to run through.
NoStrayWakeup ==
  /\ reader_wait = 1 => rpc \in {"release", "sleep"} /\ ~reader_waiting
  /\ writer_wait = 1 => wpc = "sleep" /\ ~writer_waiting

Flushing == \E k \in 1 .. Fill : Nth(k).flush

\* No lost wakeup: a reader that sleeps with no wakeup on its way sleeps over
\* fewer than Chunks items, and none of them was written with no_buffer.
NoLostWakeup ==
  (rpc = "sleep" /\ reader_wait = 0 /\ wpc \notin {"wake", "post"})
     => Fill < Chunks /\ ~Flushing

\* The ring with its semaphores is a bounded FIFO of Size - 1 items.
Fifo == INSTANCE BoundedFifo WITH
          Capacity <- Size - 1,
          queue <- Contents,
          in    <- IF wpc \in {"probe", "lock", "full?", "sleep", "relock", "store"}
                     THEN item ELSE NoItem,
          out   <- got
FifoSpec == Fifo!Spec

Unread(s) == Distance(rdp, s) < Fill

\* An item written with no_buffer is read in the end, and so is everything in
\* front of it: no order of sleeps and wakeups leaves it in the ring.
FlushIsRead == \A s \in Slot : (Unread(s) /\ data[s].flush) ~> ~Unread(s)

\* A write returns in the end, one that found the ring full included.
WriteReturns == (wpc # "idle") ~> (wpc = "idle")
=============================================================================
