--------------------------- MODULE CommPipeProofs ---------------------------
(***************************************************************************)
(* Proofs about CommPipe, for every ring size, every chunk size the ring   *)
(* allows and every set of values.  The inductive invariant IInv says who  *)
(* holds the lock and, for each of the two sleeps, where its wakeup is: in *)
(* the waiting flag, on its way to the semaphore, in the semaphore, or     *)
(* consumed.                                                               *)
(***************************************************************************)
EXTENDS CommPipe, SequenceTheorems, TLAPS

WriterLocked == \/ wpc = "full?"
                \/ wpc \in {"store", "wake", "post", "return"} /\ ~fast
ReaderLocked == rpc \in {"empty?", "release", "take", "wake", "return"}

\* Who holds `lock'; a writer on the fast path holds nothing.
LockInv == /\ lock = (IF WriterLocked \/ ReaderLocked THEN 0 ELSE 1)
           /\ ~(WriterLocked /\ ReaderLocked)
           /\ fast => wpc \in {"store", "wake", "post", "return"}
           /\ wpc = "idle" <=> item = NoItem

ReaderGoesToSleep == rpc \in {"release", "sleep"}

\* The wakeup of the reader is in exactly one of three places while it sleeps,
\* and nowhere once it is awake.
ReaderInv ==
  /\ reader_waiting => ReaderGoesToSleep /\ reader_wait = 0
  /\ reader_wait = 1 => ReaderGoesToSleep /\ ~reader_waiting /\ wpc # "post" /\ Fill > 0
  /\ wpc = "post" => ReaderGoesToSleep /\ ~reader_waiting /\ reader_wait = 0 /\ Fill > 0
  /\ ReaderGoesToSleep => reader_waiting \/ reader_wait = 1 \/ wpc = "post"
  /\ rpc \in {"relock", "take"} => Fill > 0
  /\ fast /\ wpc \in {"store", "wake"} => reader_waiting
  /\ wpc = "wake" => Fill > 0

\* The same for the writer, whose flag the reader clears and posts at once.
WriterInv ==
  /\ writer_waiting => wpc = "sleep" /\ writer_wait = 0
  /\ writer_wait = 1 => wpc = "sleep" /\ ~writer_waiting /\ Fill < Size - 1
  /\ wpc = "sleep" => writer_waiting \/ writer_wait = 1
  /\ writer_waiting /\ rpc # "wake" => Fill = Size - 1
  /\ writer_waiting /\ rpc = "wake" => Fill = Size - 2
  /\ wpc \in {"relock", "store"} => Fill < Size - 1

\* What a reader that still waits for its wakeup sleeps over; the item the
\* writer is just about to wake it for is not counted.
Newest       == Nth(Fill)
EarlierFlush == \E k \in 1 .. Fill - 1 : Nth(k).flush
SleepInv == reader_waiting /\ wpc # "wake" => Fill < Chunks /\ ~Flushing
WakeInv  == reader_waiting /\ wpc = "wake" =>
              Fill <= Chunks /\ Newest = item /\ ~EarlierFlush

\* Every unread slot holds an item, and the reader has one once it took it.
UnreadAreItems == \A k \in 1 .. Fill : Nth(k) \in Item
DataInv == /\ UnreadAreItems
           /\ got # NoItem <=> rpc \in {"wake", "return"}

IInv == TypeOK /\ LockInv /\ ReaderInv /\ WriterInv /\ SleepInv /\ WakeInv /\ DataInv
-----------------------------------------------------------------------------
(* Arithmetic of the ring. *)

LEMMA ModSmall == ASSUME NEW n \in Nat \ {0}, NEW x \in 0 .. n - 1
                  PROVE  x % n = x
  BY SMT

LEMMA ModWrap == ASSUME NEW n \in Nat \ {0}, NEW x \in n .. 2 * n - 1
                 PROVE  x % n = x - n
  BY SMT

LEMMA SizePositive == Size \in Nat \ {0} /\ Size > 1
  BY PipeAssumption, SMT

LEMMA SuccIs == ASSUME NEW p \in Slot
                PROVE  Succ(p) = (IF p = Size - 1 THEN 0 ELSE p + 1)
  <1>1. CASE p = Size - 1
    BY <1>1, SizePositive, ModWrap, SMT DEF Slot, Succ
  <1>2. CASE p # Size - 1
    BY <1>2, SizePositive, ModSmall, SMT DEF Slot, Succ
  <1> QED BY <1>1, <1>2

LEMMA DistanceIs == ASSUME NEW r \in Slot, NEW w \in Slot
                    PROVE  Distance(r, w) = (IF r <= w THEN w - r ELSE w - r + Size)
  <1>1. CASE r <= w
    BY <1>1, SizePositive, ModWrap, SMT DEF Slot, Distance
  <1>2. CASE ~(r <= w)
    BY <1>2, SizePositive, ModSmall, SMT DEF Slot, Distance
  <1> QED BY <1>1, <1>2

LEMMA PlaceIs == ASSUME NEW r \in Slot, NEW k \in 1 .. Size
                 PROVE  (r + k - 1) % Size = (IF r + k - 1 < Size THEN r + k - 1
                                              ELSE r + k - 1 - Size)
  <1>1. CASE r + k - 1 < Size
    BY <1>1, SizePositive, ModSmall, SMT DEF Slot
  <1>2. CASE ~(r + k - 1 < Size)
    BY <1>2, SizePositive, ModWrap, SMT DEF Slot
  <1> QED BY <1>1, <1>2

\* What the two ends of the ring say of its fill.
LEMMA FillFacts == ASSUME rdp \in Slot, wrp \in Slot
                   PROVE  /\ Fill \in 0 .. Size - 1
                          /\ Fill = 0 <=> rdp = wrp
                          /\ Fill = Size - 1 <=> Succ(wrp) = rdp
  <1>1. Fill = (IF rdp <= wrp THEN wrp - rdp ELSE wrp - rdp + Size)
    BY DistanceIs DEF Fill
  <1>2. Succ(wrp) = (IF wrp = Size - 1 THEN 0 ELSE wrp + 1)
    BY SuccIs
  <1> QED BY <1>1, <1>2, SizePositive, SMT DEF Slot

\* A store into a ring with room appends the item behind the unread ones.
LEMMA StoreRing ==
  ASSUME data \in [Slot -> Item \cup {NoItem}], rdp \in Slot, wrp \in Slot,
         item \in Item, Fill < Size - 1,
         data' = [data EXCEPT ![wrp] = item], wrp' = Succ(wrp), rdp' = rdp
  PROVE  /\ wrp' \in Slot
         /\ data' \in [Slot -> Item \cup {NoItem}]
         /\ Fill' = Fill + 1
         /\ data'[(rdp' + Fill' - 1) % Size] = item
         /\ \A k \in 1 .. Fill : data'[(rdp' + k - 1) % Size] = Nth(k)
  <1>1. wrp' \in Slot /\ data' \in [Slot -> Item \cup {NoItem}]
    BY SuccIs, SizePositive, SMT DEF Slot
  <1>2. /\ Fill' = (IF rdp <= wrp' THEN wrp' - rdp ELSE wrp' - rdp + Size)
        /\ Fill = (IF rdp <= wrp THEN wrp - rdp ELSE wrp - rdp + Size)
        /\ wrp' = (IF wrp = Size - 1 THEN 0 ELSE wrp + 1)
    <2>1. Fill' = Distance(rdp, wrp')
      BY DEF Fill
    <2> QED BY <1>1, <2>1, DistanceIs, SuccIs DEF Fill
  <1>3. Fill' = Fill + 1 /\ Fill' \in 1 .. Size - 1 /\ Fill \in Nat
    BY <1>1, <1>2, SizePositive, SMT DEF Slot
  <1>4. \A k \in 1 .. Fill' :
          (rdp + k - 1) % Size = (IF rdp + k - 1 < Size THEN rdp + k - 1
                                  ELSE rdp + k - 1 - Size)
    <2>1. \A k \in 1 .. Fill' : k \in 1 .. Size
      BY <1>3, SizePositive, SMT
    <2> QED BY <2>1, PlaceIs
  <1>5. (rdp + Fill' - 1) % Size = wrp
    <2>1. Fill' \in 1 .. Fill'
      BY <1>3, SMT
    <2> QED BY <1>2, <1>3, <1>4, <2>1, SizePositive, SMT DEF Slot
  <1>6. \A k \in 1 .. Fill : (rdp + k - 1) % Size \in Slot \ {wrp}
    <2>1. \A k \in 1 .. Fill : k \in 1 .. Fill'
      BY <1>3, SMT
    <2> QED BY <1>2, <1>3, <1>4, <2>1, SizePositive, SMT DEF Slot
  <1> QED BY <1>1, <1>3, <1>5, <1>6 DEF Nth

\* A take from a ring that holds something removes the oldest item.
LEMMA TakeRing ==
  ASSUME rdp \in Slot, wrp \in Slot, Fill > 0,
         rdp' = Succ(rdp), wrp' = wrp, data' = data
  PROVE  /\ rdp' \in Slot
         /\ Fill' = Fill - 1
         /\ data[rdp] = Nth(1)
         /\ \A k \in 1 .. Fill - 1 : data'[(rdp' + k - 1) % Size] = Nth(k + 1)
  <1>1. rdp' \in Slot
    BY SuccIs, SizePositive, SMT DEF Slot
  <1>2. /\ Fill' = (IF rdp' <= wrp THEN wrp - rdp' ELSE wrp - rdp' + Size)
        /\ Fill = (IF rdp <= wrp THEN wrp - rdp ELSE wrp - rdp + Size)
        /\ rdp' = (IF rdp = Size - 1 THEN 0 ELSE rdp + 1)
    <2>1. Fill' = Distance(rdp', wrp)
      BY DEF Fill
    <2> QED BY <1>1, <2>1, DistanceIs, SuccIs DEF Fill
  <1>3. Fill' = Fill - 1
    BY <1>1, <1>2, SizePositive, SMT DEF Slot
  <1>4. (rdp + 1 - 1) % Size = rdp
    BY PlaceIs, SizePositive, SMT DEF Slot
  <1>5. \A k \in 1 .. Fill - 1 : (rdp' + k - 1) % Size = (rdp + (k + 1) - 1) % Size
    <2> SUFFICES ASSUME NEW k \in 1 .. Fill - 1
                 PROVE  (rdp' + k - 1) % Size = (rdp + (k + 1) - 1) % Size
      OBVIOUS
    <2>1. k \in 1 .. Size /\ k + 1 \in 1 .. Size
      BY FillFacts, SizePositive, SMT
    <2>2. (rdp' + k - 1) % Size = (IF rdp' + k - 1 < Size THEN rdp' + k - 1
                                   ELSE rdp' + k - 1 - Size)
      BY <1>1, <2>1, PlaceIs
    <2>3. (rdp + (k + 1) - 1) % Size = (IF rdp + (k + 1) - 1 < Size THEN rdp + (k + 1) - 1
                                        ELSE rdp + (k + 1) - 1 - Size)
      BY <2>1, PlaceIs
    <2> QED BY <1>1, <1>2, <2>1, <2>2, <2>3, SizePositive, SMT DEF Slot
  <1> QED BY <1>1, <1>3, <1>4, <1>5 DEF Nth

LEMMA SameRing == ASSUME UNCHANGED ring
                  PROVE  /\ Fill' = Fill
                         /\ Newest' = Newest
                         /\ Flushing' = Flushing
                         /\ EarlierFlush' = EarlierFlush
                         /\ UnreadAreItems' = UnreadAreItems
  BY DEF ring, Fill, Nth, Newest, Flushing, EarlierFlush, UnreadAreItems

LEMMA NewestOrEarlier ==
  ASSUME Fill \in Nat
  PROVE  /\ Fill > 0 => (Flushing <=> EarlierFlush \/ Newest.flush)
         /\ Fill = 0 => ~Flushing
  <1>1. Fill > 0 => \A k : k \in 1 .. Fill <=> k \in 1 .. Fill - 1 \/ k = Fill
    BY SMT
  <1>2. Fill = 0 => 1 .. Fill = {}
    BY SMT
  <1> QED BY <1>1, <1>2 DEF Flushing, EarlierFlush, Newest

-----------------------------------------------------------------------------
(* The invariant is inductive. *)

LEMMA ItemTypes == /\ NoItem \notin Item
                   /\ \A i \in Item : i.flush \in BOOLEAN
  BY PipeAssumption DEF Item

LEMMA InvInit == Init => IInv
  <1> SUFFICES ASSUME Init PROVE IInv
    OBVIOUS
  <1>1. rdp \in Slot /\ wrp \in Slot
    BY SizePositive, SMT DEF Init, Slot
  <1>2. Fill = 0
    BY <1>1, FillFacts DEF Init
  <1>3. TypeOK
    BY <1>1 DEF Init, TypeOK, Semaphore
  <1>4. LockInv /\ ReaderInv /\ WriterInv
    BY <1>2, SizePositive, SMT DEF Init, LockInv, ReaderInv, WriterInv, WriterLocked,
           ReaderLocked, ReaderGoesToSleep
  <1>5. SleepInv /\ WakeInv /\ DataInv
    BY <1>2, SizePositive, PipeAssumption, SMT DEF Init, SleepInv, WakeInv, DataInv,
           Flushing, UnreadAreItems
  <1> QED BY <1>3, <1>4, <1>5 DEF IInv

\* A step that leaves the ring alone.
LEMMA InvOffRing ==
  ASSUME IInv, UNCHANGED ring,
         \/ \E i \in Item : WriteCall(i)
         \/ Probe \/ WriteLock \/ TestFull \/ WriterSleep \/ WriteRelock
         \/ WakeReader \/ PostReader \/ WriteReturn
         \/ ReadCall \/ ReadLock \/ TestEmpty \/ ReadRelease \/ ReaderSleep
         \/ ReadRelock \/ WakeWriter \/ ReadReturn
  PROVE  IInv'
  <1> USE DEF IInv
  <1>1. /\ Fill' = Fill
        /\ Newest' = Newest
        /\ Flushing' = Flushing
        /\ EarlierFlush' = EarlierFlush
        /\ UnreadAreItems' = UnreadAreItems
    BY SameRing
  <1>2. /\ Fill \in 0 .. Size - 1
        /\ Fill = 0 <=> rdp = wrp
        /\ Fill = Size - 1 <=> Succ(wrp) = rdp
    BY FillFacts DEF TypeOK
  <1>3. ASSUME NEW i \in Item, WriteCall(i) PROVE IInv'
    <2>1. TypeOK'
      BY <1>3, SMT DEF WriteCall, TypeOK, Semaphore, WriterGoes, ring, flags, rvars,
             LockInv, ReaderInv, WriterInv, WriterLocked, ReaderLocked
    <2>2. LockInv' /\ ReaderInv' /\ WriterInv'
      BY <1>3, <1>1, <1>2, ItemTypes, SMT DEF WriteCall, TypeOK, Semaphore,
             WriterGoes, flags, rvars, LockInv, ReaderInv, WriterInv, WriterLocked,
             ReaderLocked, ReaderGoesToSleep
    <2>3. SleepInv' /\ WakeInv' /\ DataInv'
      BY <1>3, <1>1, <1>2, SMT DEF WriteCall, TypeOK, WriterGoes, flags, rvars,
             SleepInv, WakeInv, DataInv, LockInv, ReaderInv, WriterLocked,
             ReaderLocked
    <2> QED BY <2>1, <2>2, <2>3
  <1>4. CASE Probe
    <2>1. CASE reader_waiting
      <3>0. /\ wpc = "probe" /\ reader_waiting
            /\ wpc' = "store" /\ fast' /\ fast' \in BOOLEAN
            /\ UNCHANGED <<data, rdp, wrp, lock, reader_wait, writer_wait,
                           reader_waiting, writer_waiting, item, rpc, got>>
        BY <1>4, <2>1 DEF Probe, WriterGoes, flags, ring, rvars, TypeOK, LockInv,
               WriterInv, WriterLocked
      <3>1. TypeOK'
        BY <3>0, SMT DEF TypeOK, Semaphore
      <3>2. LockInv' /\ ReaderInv' /\ WriterInv'
        BY <3>0, <2>1, <1>1, <1>2, ItemTypes, SizePositive, PipeAssumption, SMT
           DEF TypeOK, Semaphore, LockInv, ReaderInv, SleepInv, WriterInv,
               WriterLocked, ReaderLocked, ReaderGoesToSleep
      <3>3. SleepInv' /\ WakeInv' /\ DataInv'
        BY <3>0, <2>1, <1>1, <1>2, NewestOrEarlier, PipeAssumption, SMT DEF TypeOK,
               SleepInv, WakeInv, DataInv, LockInv, ReaderInv, WriterLocked,
               ReaderLocked
      <3> QED BY <3>1, <3>2, <3>3
    <2>2. CASE ~reader_waiting
      <3>0. /\ wpc = "probe" /\ ~reader_waiting
            /\ wpc' = "lock" /\ ~fast' /\ fast' \in BOOLEAN
            /\ UNCHANGED <<data, rdp, wrp, lock, reader_wait, writer_wait,
                           reader_waiting, writer_waiting, item, rpc, got>>
        BY <1>4, <2>2 DEF Probe, WriterGoes, flags, ring, rvars, TypeOK, LockInv,
               WriterInv, WriterLocked
      <3>1. TypeOK'
        BY <3>0, SMT DEF TypeOK, Semaphore
      <3>2. LockInv' /\ ReaderInv' /\ WriterInv'
        BY <3>0, <2>2, <1>1, <1>2, ItemTypes, SizePositive, PipeAssumption, SMT
           DEF TypeOK, Semaphore, LockInv, ReaderInv, SleepInv, WriterInv,
               WriterLocked, ReaderLocked, ReaderGoesToSleep
      <3>3. SleepInv' /\ WakeInv' /\ DataInv'
        BY <3>0, <2>2, <1>1, <1>2, NewestOrEarlier, PipeAssumption, SMT DEF TypeOK,
               SleepInv, WakeInv, DataInv, LockInv, ReaderInv, WriterLocked,
               ReaderLocked
      <3> QED BY <3>1, <3>2, <3>3
    <2> QED BY <2>1, <2>2
  <1>5. CASE WriteLock
    <2>1. TypeOK'
      BY <1>5, SMT DEF WriteLock, TypeOK, Semaphore, Acquire, WriterGoes, ring, flags,
             rvars, LockInv, ReaderInv, WriterInv, WriterLocked, ReaderLocked
    <2>2. LockInv' /\ ReaderInv' /\ WriterInv'
      BY <1>5, <1>1, <1>2, ItemTypes, SMT DEF WriteLock, TypeOK, Semaphore, Acquire,
             WriterGoes, flags, rvars, LockInv, ReaderInv, WriterInv, WriterLocked,
             ReaderLocked, ReaderGoesToSleep
    <2>3. SleepInv' /\ WakeInv' /\ DataInv'
      BY <1>5, <1>1, <1>2, SMT DEF WriteLock, TypeOK, WriterGoes, flags, rvars,
             SleepInv, WakeInv, DataInv, LockInv, ReaderInv, WriterLocked,
             ReaderLocked
    <2> QED BY <2>1, <2>2, <2>3
  <1>6. CASE TestFull
    <2>1. CASE Succ(wrp) = rdp
      <3>0. /\ wpc = "full?" /\ lock = 0
            /\ wpc' = "sleep" /\ writer_waiting' /\ writer_waiting' \in BOOLEAN
            /\ lock' = lock + 1
            /\ UNCHANGED <<data, rdp, wrp, reader_wait, writer_wait,
                           reader_waiting, item, fast, rpc, got>>
        BY <1>6, <2>1 DEF TestFull, WriterGoes, Release, ring, rvars, TypeOK, LockInv,
               WriterInv, WriterLocked
      <3>1. TypeOK'
        BY <3>0, SMT DEF TypeOK, Semaphore
      <3>2. LockInv' /\ ReaderInv' /\ WriterInv'
        BY <3>0, <2>1, <1>1, <1>2, ItemTypes, SizePositive, PipeAssumption, SMT
           DEF TypeOK, Semaphore, LockInv, ReaderInv, SleepInv, WriterInv,
               WriterLocked, ReaderLocked, ReaderGoesToSleep
      <3>3. SleepInv' /\ WakeInv' /\ DataInv'
        BY <3>0, <2>1, <1>1, <1>2, NewestOrEarlier, PipeAssumption, SMT DEF TypeOK,
               SleepInv, WakeInv, DataInv, LockInv, ReaderInv, WriterLocked,
               ReaderLocked
      <3> QED BY <3>1, <3>2, <3>3
    <2>2. CASE Succ(wrp) # rdp
      <3>0. /\ wpc = "full?" /\ lock = 0
            /\ wpc' = "store"
            /\ UNCHANGED <<data, rdp, wrp, lock, reader_wait, writer_wait,
                           reader_waiting, writer_waiting, item, fast, rpc, got>>
        BY <1>6, <2>2 DEF TestFull, WriterGoes, Release, ring, rvars, TypeOK, LockInv,
               WriterInv, WriterLocked
      <3>1. TypeOK'
        BY <3>0, SMT DEF TypeOK, Semaphore
      <3>2. LockInv' /\ ReaderInv' /\ WriterInv'
        BY <3>0, <2>2, <1>1, <1>2, ItemTypes, SizePositive, PipeAssumption, SMT
           DEF TypeOK, Semaphore, LockInv, ReaderInv, SleepInv, WriterInv,
               WriterLocked, ReaderLocked, ReaderGoesToSleep
      <3>3. SleepInv' /\ WakeInv' /\ DataInv'
        BY <3>0, <2>2, <1>1, <1>2, NewestOrEarlier, PipeAssumption, SMT DEF TypeOK,
               SleepInv, WakeInv, DataInv, LockInv, ReaderInv, WriterLocked,
               ReaderLocked
      <3> QED BY <3>1, <3>2, <3>3
    <2> QED BY <2>1, <2>2
  <1>7. CASE WriterSleep
    <2>1. TypeOK'
      BY <1>7, SMT DEF WriterSleep, TypeOK, Semaphore, Acquire, WriterGoes, ring,
             flags, rvars, LockInv, ReaderInv, WriterInv, WriterLocked, ReaderLocked
    <2>2. LockInv' /\ ReaderInv' /\ WriterInv'
      BY <1>7, <1>1, <1>2, ItemTypes, SMT DEF WriterSleep, TypeOK, Semaphore, Acquire,
             WriterGoes, flags, rvars, LockInv, ReaderInv, WriterInv, WriterLocked,
             ReaderLocked, ReaderGoesToSleep
    <2>3. SleepInv' /\ WakeInv' /\ DataInv'
      BY <1>7, <1>1, <1>2, SMT DEF WriterSleep, TypeOK, WriterGoes, flags, rvars,
             SleepInv, WakeInv, DataInv, LockInv, ReaderInv, WriterLocked,
             ReaderLocked
    <2> QED BY <2>1, <2>2, <2>3
  <1>8. CASE WriteRelock
    <2>1. TypeOK'
      BY <1>8, SMT DEF WriteRelock, TypeOK, Semaphore, Acquire, WriterGoes, ring,
             flags, rvars, LockInv, ReaderInv, WriterInv, WriterLocked, ReaderLocked
    <2>2. LockInv' /\ ReaderInv' /\ WriterInv'
      BY <1>8, <1>1, <1>2, ItemTypes, SMT DEF WriteRelock, TypeOK, Semaphore, Acquire,
             WriterGoes, flags, rvars, LockInv, ReaderInv, WriterInv, WriterLocked,
             ReaderLocked, ReaderGoesToSleep
    <2>3. SleepInv' /\ WakeInv' /\ DataInv'
      BY <1>8, <1>1, <1>2, SMT DEF WriteRelock, TypeOK, WriterGoes, flags, rvars,
             SleepInv, WakeInv, DataInv, LockInv, ReaderInv, WriterLocked,
             ReaderLocked
    <2> QED BY <2>1, <2>2, <2>3
  <1>9. CASE WakeReader
    <2>1. CASE MustWake
      <3>0. /\ wpc = "wake" /\ reader_waiting
            /\ wpc' = "post" /\ ~reader_waiting' /\ reader_waiting' \in BOOLEAN
            /\ UNCHANGED <<data, rdp, wrp, lock, reader_wait, writer_wait,
                           writer_waiting, item, fast, rpc, got>>
        BY <1>9, <2>1 DEF WakeReader, MustWake, ring, rvars, TypeOK, LockInv,
               WriterInv, WriterLocked
      <3>1. TypeOK'
        BY <3>0, SMT DEF TypeOK, Semaphore
      <3>2. LockInv' /\ ReaderInv' /\ WriterInv'
        BY <3>0, <2>1, <1>1, <1>2, ItemTypes, SizePositive, PipeAssumption, SMT
           DEF TypeOK, Semaphore, LockInv, ReaderInv, SleepInv, WriterInv,
               WriterLocked, ReaderLocked, ReaderGoesToSleep
      <3>3. SleepInv' /\ WakeInv' /\ DataInv'
        BY <3>0, <2>1, <1>1, <1>2, NewestOrEarlier, PipeAssumption, SMT DEF TypeOK,
               SleepInv, WakeInv, DataInv, LockInv, ReaderInv, WriterLocked,
               ReaderLocked
      <3> QED BY <3>1, <3>2, <3>3
    <2>2. CASE ~MustWake
      <3>0. /\ wpc = "wake"
            /\ reader_waiting = TRUE => ~item.flush /\ ~(Fill >= Chunks)
            /\ wpc' = "return"
            /\ UNCHANGED <<data, rdp, wrp, lock, reader_wait, writer_wait,
                           reader_waiting, writer_waiting, item, fast, rpc, got>>
        BY <1>9, <2>2 DEF WakeReader, MustWake, ring, rvars, TypeOK, LockInv,
               WriterInv, WriterLocked
      <3>1. TypeOK'
        BY <3>0, SMT DEF TypeOK, Semaphore
      <3>2. LockInv' /\ ReaderInv' /\ WriterInv'
        BY <3>0, <2>2, <1>1, <1>2, ItemTypes, SizePositive, PipeAssumption, SMT
           DEF TypeOK, Semaphore, LockInv, ReaderInv, SleepInv, WriterInv,
               WriterLocked, ReaderLocked, ReaderGoesToSleep
      <3>3. SleepInv' /\ WakeInv' /\ DataInv'
        BY <3>0, <2>2, <1>1, <1>2, NewestOrEarlier, PipeAssumption, SMT DEF TypeOK,
               SleepInv, WakeInv, DataInv, LockInv, ReaderInv, WriterLocked,
               ReaderLocked
      <3> QED BY <3>1, <3>2, <3>3
    <2> QED BY <2>1, <2>2
  <1>10. CASE PostReader
    <2>1. TypeOK'
      BY <1>10, SMT DEF PostReader, TypeOK, Semaphore, Release, WriterGoes, ring,
             flags, rvars, LockInv, ReaderInv, WriterInv, WriterLocked, ReaderLocked
    <2>2. LockInv' /\ ReaderInv' /\ WriterInv'
      BY <1>10, <1>1, <1>2, ItemTypes, SMT DEF PostReader, TypeOK, Semaphore, Release,
             WriterGoes, flags, rvars, LockInv, ReaderInv, WriterInv, WriterLocked,
             ReaderLocked, ReaderGoesToSleep
    <2>3. SleepInv' /\ WakeInv' /\ DataInv'
      BY <1>10, <1>1, <1>2, SMT DEF PostReader, TypeOK, WriterGoes, flags, rvars,
             SleepInv, WakeInv, DataInv, LockInv, ReaderInv, WriterLocked,
             ReaderLocked
    <2> QED BY <2>1, <2>2, <2>3
  <1>11. CASE WriteReturn
    <2>1. CASE fast
      <3>0. /\ wpc = "return" /\ fast
            /\ wpc' = "idle" /\ item' = NoItem /\ ~fast' /\ fast' \in BOOLEAN
            /\ UNCHANGED <<data, rdp, wrp, lock, reader_wait, writer_wait,
                           reader_waiting, writer_waiting, rpc, got>>
        BY <1>11, <2>1 DEF WriteReturn, WriterGoes, Release, flags, ring, rvars,
               TypeOK, LockInv, WriterInv, WriterLocked
      <3>1. TypeOK'
        BY <3>0, SMT DEF TypeOK, Semaphore
      <3>2. LockInv' /\ ReaderInv' /\ WriterInv'
        BY <3>0, <2>1, <1>1, <1>2, ItemTypes, SizePositive, PipeAssumption, SMT
           DEF TypeOK, Semaphore, LockInv, ReaderInv, SleepInv, WriterInv,
               WriterLocked, ReaderLocked, ReaderGoesToSleep
      <3>3. SleepInv' /\ WakeInv' /\ DataInv'
        BY <3>0, <2>1, <1>1, <1>2, NewestOrEarlier, PipeAssumption, SMT DEF TypeOK,
               SleepInv, WakeInv, DataInv, LockInv, ReaderInv, WriterLocked,
               ReaderLocked
      <3> QED BY <3>1, <3>2, <3>3
    <2>2. CASE ~fast
      <3>0. /\ wpc = "return" /\ ~fast /\ lock = 0
            /\ wpc' = "idle" /\ lock' = lock + 1 /\ item' = NoItem
            /\ ~fast' /\ fast' \in BOOLEAN
            /\ UNCHANGED <<data, rdp, wrp, reader_wait, writer_wait,
                           reader_waiting, writer_waiting, rpc, got>>
        BY <1>11, <2>2 DEF WriteReturn, WriterGoes, Release, flags, ring, rvars,
               TypeOK, LockInv, WriterInv, WriterLocked
      <3>1. TypeOK'
        BY <3>0, SMT DEF TypeOK, Semaphore
      <3>2. LockInv' /\ ReaderInv' /\ WriterInv'
        BY <3>0, <2>2, <1>1, <1>2, ItemTypes, SizePositive, PipeAssumption, SMT
           DEF TypeOK, Semaphore, LockInv, ReaderInv, SleepInv, WriterInv,
               WriterLocked, ReaderLocked, ReaderGoesToSleep
      <3>3. SleepInv' /\ WakeInv' /\ DataInv'
        BY <3>0, <2>2, <1>1, <1>2, NewestOrEarlier, PipeAssumption, SMT DEF TypeOK,
               SleepInv, WakeInv, DataInv, LockInv, ReaderInv, WriterLocked,
               ReaderLocked
      <3> QED BY <3>1, <3>2, <3>3
    <2> QED BY <2>1, <2>2
  <1>12. CASE ReadCall
    <2>1. TypeOK'
      BY <1>12, SMT DEF ReadCall, TypeOK, Semaphore, ReaderGoes, ring, flags, wvars,
             LockInv, ReaderInv, WriterInv, WriterLocked, ReaderLocked
    <2>2. LockInv' /\ ReaderInv' /\ WriterInv'
      BY <1>12, <1>1, <1>2, ItemTypes, SMT DEF ReadCall, TypeOK, Semaphore,
             ReaderGoes, flags, wvars, LockInv, ReaderInv, WriterInv, WriterLocked,
             ReaderLocked, ReaderGoesToSleep
    <2>3. SleepInv' /\ WakeInv' /\ DataInv'
      BY <1>12, <1>1, <1>2, SMT DEF ReadCall, TypeOK, ReaderGoes, flags, wvars,
             SleepInv, WakeInv, DataInv, LockInv, ReaderInv, WriterLocked,
             ReaderLocked
    <2> QED BY <2>1, <2>2, <2>3
  <1>13. CASE ReadLock
    <2>1. TypeOK'
      BY <1>13, SMT DEF ReadLock, TypeOK, Semaphore, Acquire, ReaderGoes, ring, flags,
             wvars, LockInv, ReaderInv, WriterInv, WriterLocked, ReaderLocked
    <2>2. LockInv' /\ ReaderInv' /\ WriterInv'
      BY <1>13, <1>1, <1>2, ItemTypes, SMT DEF ReadLock, TypeOK, Semaphore, Acquire,
             ReaderGoes, flags, wvars, LockInv, ReaderInv, WriterInv, WriterLocked,
             ReaderLocked, ReaderGoesToSleep
    <2>3. SleepInv' /\ WakeInv' /\ DataInv'
      BY <1>13, <1>1, <1>2, SMT DEF ReadLock, TypeOK, ReaderGoes, flags, wvars,
             SleepInv, WakeInv, DataInv, LockInv, ReaderInv, WriterLocked,
             ReaderLocked
    <2> QED BY <2>1, <2>2, <2>3
  <1>14. CASE TestEmpty
    <2>1. CASE rdp = wrp
      <3>0. /\ rpc = "empty?"
            /\ rpc' = "release" /\ reader_waiting' /\ reader_waiting' \in BOOLEAN
            /\ UNCHANGED <<data, rdp, wrp, lock, reader_wait, writer_wait,
                           writer_waiting, wpc, item, fast, got>>
        BY <1>14, <2>1 DEF TestEmpty, ReaderGoes, ring, wvars, TypeOK, LockInv,
               WriterInv, WriterLocked
      <3>1. TypeOK'
        BY <3>0, SMT DEF TypeOK, Semaphore
      <3>2. LockInv' /\ ReaderInv' /\ WriterInv'
        BY <3>0, <2>1, <1>1, <1>2, ItemTypes, SizePositive, PipeAssumption, SMT
           DEF TypeOK, Semaphore, LockInv, ReaderInv, SleepInv, WriterInv,
               WriterLocked, ReaderLocked, ReaderGoesToSleep
      <3>3. SleepInv' /\ WakeInv' /\ DataInv'
        BY <3>0, <2>1, <1>1, <1>2, NewestOrEarlier, PipeAssumption, SMT DEF TypeOK,
               SleepInv, WakeInv, DataInv, LockInv, ReaderInv, WriterLocked,
               ReaderLocked
      <3> QED BY <3>1, <3>2, <3>3
    <2>2. CASE rdp # wrp
      <3>0. /\ rpc = "empty?"
            /\ rpc' = "take"
            /\ UNCHANGED <<data, rdp, wrp, lock, reader_wait, writer_wait,
                           reader_waiting, writer_waiting, wpc, item, fast, got>>
        BY <1>14, <2>2 DEF TestEmpty, ReaderGoes, ring, wvars, TypeOK, LockInv,
               WriterInv, WriterLocked
      <3>1. TypeOK'
        BY <3>0, SMT DEF TypeOK, Semaphore
      <3>2. LockInv' /\ ReaderInv' /\ WriterInv'
        BY <3>0, <2>2, <1>1, <1>2, ItemTypes, SizePositive, PipeAssumption, SMT
           DEF TypeOK, Semaphore, LockInv, ReaderInv, SleepInv, WriterInv,
               WriterLocked, ReaderLocked, ReaderGoesToSleep
      <3>3. SleepInv' /\ WakeInv' /\ DataInv'
        BY <3>0, <2>2, <1>1, <1>2, NewestOrEarlier, PipeAssumption, SMT DEF TypeOK,
               SleepInv, WakeInv, DataInv, LockInv, ReaderInv, WriterLocked,
               ReaderLocked
      <3> QED BY <3>1, <3>2, <3>3
    <2> QED BY <2>1, <2>2
  <1>15. CASE ReadRelease
    <2>1. TypeOK'
      BY <1>15, SMT DEF ReadRelease, TypeOK, Semaphore, Release, ReaderGoes, ring,
             flags, wvars, LockInv, ReaderInv, WriterInv, WriterLocked, ReaderLocked
    <2>2. LockInv' /\ ReaderInv' /\ WriterInv'
      BY <1>15, <1>1, <1>2, ItemTypes, SMT DEF ReadRelease, TypeOK, Semaphore,
             Release, ReaderGoes, flags, wvars, LockInv, ReaderInv, WriterInv,
             WriterLocked, ReaderLocked, ReaderGoesToSleep
    <2>3. SleepInv' /\ WakeInv' /\ DataInv'
      BY <1>15, <1>1, <1>2, SMT DEF ReadRelease, TypeOK, ReaderGoes, flags, wvars,
             SleepInv, WakeInv, DataInv, LockInv, ReaderInv, WriterLocked,
             ReaderLocked
    <2> QED BY <2>1, <2>2, <2>3
  <1>16. CASE ReaderSleep
    <2>1. TypeOK'
      BY <1>16, SMT DEF ReaderSleep, TypeOK, Semaphore, Acquire, ReaderGoes, ring,
             flags, wvars, LockInv, ReaderInv, WriterInv, WriterLocked, ReaderLocked
    <2>2. LockInv' /\ ReaderInv' /\ WriterInv'
      BY <1>16, <1>1, <1>2, ItemTypes, SMT DEF ReaderSleep, TypeOK, Semaphore,
             Acquire, ReaderGoes, flags, wvars, LockInv, ReaderInv, WriterInv,
             WriterLocked, ReaderLocked, ReaderGoesToSleep
    <2>3. SleepInv' /\ WakeInv' /\ DataInv'
      BY <1>16, <1>1, <1>2, SMT DEF ReaderSleep, TypeOK, ReaderGoes, flags, wvars,
             SleepInv, WakeInv, DataInv, LockInv, ReaderInv, WriterLocked,
             ReaderLocked
    <2> QED BY <2>1, <2>2, <2>3
  <1>17. CASE ReadRelock
    <2>1. TypeOK'
      BY <1>17, SMT DEF ReadRelock, TypeOK, Semaphore, Acquire, ReaderGoes, ring,
             flags, wvars, LockInv, ReaderInv, WriterInv, WriterLocked, ReaderLocked
    <2>2. LockInv' /\ ReaderInv' /\ WriterInv'
      BY <1>17, <1>1, <1>2, ItemTypes, SMT DEF ReadRelock, TypeOK, Semaphore, Acquire,
             ReaderGoes, flags, wvars, LockInv, ReaderInv, WriterInv, WriterLocked,
             ReaderLocked, ReaderGoesToSleep
    <2>3. SleepInv' /\ WakeInv' /\ DataInv'
      BY <1>17, <1>1, <1>2, SMT DEF ReadRelock, TypeOK, ReaderGoes, flags, wvars,
             SleepInv, WakeInv, DataInv, LockInv, ReaderInv, WriterLocked,
             ReaderLocked
    <2> QED BY <2>1, <2>2, <2>3
  <1>18. CASE WakeWriter
    <2>1. CASE writer_waiting
      <3>0. /\ rpc = "wake" /\ writer_waiting /\ writer_wait = 0
            /\ rpc' = "return" /\ ~writer_waiting' /\ writer_waiting' \in BOOLEAN
            /\ writer_wait' = writer_wait + 1
            /\ UNCHANGED <<data, rdp, wrp, lock, reader_wait, reader_waiting, wpc,
                           item, fast, got>>
        BY <1>18, <2>1 DEF WakeWriter, ReaderGoes, Release, ring, wvars, TypeOK,
               LockInv, WriterInv, WriterLocked
      <3>1. TypeOK'
        BY <3>0, SMT DEF TypeOK, Semaphore
      <3>2. LockInv' /\ ReaderInv' /\ WriterInv'
        BY <3>0, <2>1, <1>1, <1>2, ItemTypes, SizePositive, PipeAssumption, SMT
           DEF TypeOK, Semaphore, LockInv, ReaderInv, SleepInv, WriterInv,
               WriterLocked, ReaderLocked, ReaderGoesToSleep
      <3>3. SleepInv' /\ WakeInv' /\ DataInv'
        BY <3>0, <2>1, <1>1, <1>2, NewestOrEarlier, PipeAssumption, SMT DEF TypeOK,
               SleepInv, WakeInv, DataInv, LockInv, ReaderInv, WriterLocked,
               ReaderLocked
      <3> QED BY <3>1, <3>2, <3>3
    <2>2. CASE ~writer_waiting
      <3>0. /\ rpc = "wake" /\ ~writer_waiting
            /\ rpc' = "return"
            /\ UNCHANGED <<data, rdp, wrp, lock, reader_wait, writer_wait,
                           reader_waiting, writer_waiting, wpc, item, fast, got>>
        BY <1>18, <2>2 DEF WakeWriter, ReaderGoes, Release, ring, wvars, TypeOK,
               LockInv, WriterInv, WriterLocked
      <3>1. TypeOK'
        BY <3>0, SMT DEF TypeOK, Semaphore
      <3>2. LockInv' /\ ReaderInv' /\ WriterInv'
        BY <3>0, <2>2, <1>1, <1>2, ItemTypes, SizePositive, PipeAssumption, SMT
           DEF TypeOK, Semaphore, LockInv, ReaderInv, SleepInv, WriterInv,
               WriterLocked, ReaderLocked, ReaderGoesToSleep
      <3>3. SleepInv' /\ WakeInv' /\ DataInv'
        BY <3>0, <2>2, <1>1, <1>2, NewestOrEarlier, PipeAssumption, SMT DEF TypeOK,
               SleepInv, WakeInv, DataInv, LockInv, ReaderInv, WriterLocked,
               ReaderLocked
      <3> QED BY <3>1, <3>2, <3>3
    <2> QED BY <2>1, <2>2
  <1>19. CASE ReadReturn
    <2>1. TypeOK'
      BY <1>19, SMT DEF ReadReturn, TypeOK, Semaphore, Release, ReaderGoes, ring,
             flags, wvars, LockInv, ReaderInv, WriterInv, WriterLocked, ReaderLocked
    <2>2. LockInv' /\ ReaderInv' /\ WriterInv'
      BY <1>19, <1>1, <1>2, ItemTypes, SMT DEF ReadReturn, TypeOK, Semaphore, Release,
             ReaderGoes, flags, wvars, LockInv, ReaderInv, WriterInv, WriterLocked,
             ReaderLocked, ReaderGoesToSleep
    <2>3. SleepInv' /\ WakeInv' /\ DataInv'
      BY <1>19, <1>1, <1>2, SMT DEF ReadReturn, TypeOK, ReaderGoes, flags, wvars,
             SleepInv, WakeInv, DataInv, LockInv, ReaderInv, WriterLocked,
             ReaderLocked
    <2> QED BY <2>1, <2>2, <2>3
  <1> QED BY <1>3, <1>4, <1>5, <1>6, <1>7, <1>8, <1>9, <1>10, <1>11, <1>12, <1>13,
  <1>14, <1>15, <1>16, <1>17, <1>18, <1>19

\* The step that fills a slot.  The item is a real one and the ring has room:
\* WriterInv carries both from the test, over the writer's sleep, to here.
LEMMA InvStore == ASSUME IInv, Store PROVE IInv'
  <1> USE DEF IInv
  <1>1. item \in Item /\ Fill < Size - 1 /\ Fill \in Nat
    BY FillFacts, SMT DEF Store, WriterGoes, TypeOK, LockInv, WriterInv, SleepInv
  <1>2. /\ wpc = "store" /\ wpc' = "wake"
        /\ data' = [data EXCEPT ![wrp] = item] /\ wrp' = Succ(wrp)
        /\ UNCHANGED <<rdp, lock, reader_wait, writer_wait, reader_waiting,
                       writer_waiting, item, fast, rpc, got>>
    BY DEF Store, WriterGoes, flags, rvars
  <1>3. /\ wrp' \in Slot /\ data' \in [Slot -> Item \cup {NoItem}]
        /\ Fill' = Fill + 1
        /\ data'[(rdp' + Fill' - 1) % Size] = item
        /\ \A k \in 1 .. Fill : data'[(rdp' + k - 1) % Size] = Nth(k)
    BY <1>1, <1>2, StoreRing DEF TypeOK
  <1>4. Newest' = item /\ (EarlierFlush' <=> Flushing)
    <2>1. 1 .. Fill' - 1 = 1 .. Fill
      BY <1>1, <1>3, SMT
    <2> QED BY <1>3, <2>1 DEF Newest, EarlierFlush, Flushing, Nth
  <1>5. UnreadAreItems'
    <2>1. \A k \in 1 .. Fill' : k \in 1 .. Fill \/ k = Fill'
      BY <1>1, <1>3, SMT
    <2> QED BY <1>1, <1>3, <2>1 DEF UnreadAreItems, DataInv, Nth
  <1>6. TypeOK'
    BY <1>2, <1>3, SMT DEF TypeOK, Semaphore
  <1>7. LockInv' /\ ReaderInv' /\ WriterInv'
    BY <1>1, <1>2, <1>3, SMT DEF LockInv, ReaderInv, WriterInv, WriterLocked,
           ReaderLocked, ReaderGoesToSleep
  <1>8. SleepInv' /\ WakeInv' /\ DataInv'
    BY <1>1, <1>2, <1>3, <1>4, <1>5, PipeAssumption, SMT DEF SleepInv, WakeInv,
           DataInv
  <1> QED BY <1>6, <1>7, <1>8

\* The step that empties a slot: the reader is awake, so no writer counts on it.
LEMMA InvTake == ASSUME IInv, Take PROVE IInv'
  <1> USE DEF IInv
  <1>1. /\ Fill > 0 /\ Fill \in 0 .. Size - 1
        /\ ~reader_waiting /\ wpc \notin {"wake", "store", "post"}
    BY FillFacts, SMT DEF Take, ReaderGoes, TypeOK, ReaderInv, LockInv, WriterLocked,
           ReaderLocked, ReaderGoesToSleep
  <1>2. /\ rpc = "take" /\ rpc' = "wake" /\ got' = data[rdp] /\ rdp' = Succ(rdp)
        /\ UNCHANGED <<data, wrp, lock, reader_wait, writer_wait, reader_waiting,
                       writer_waiting, wpc, item, fast>>
    BY DEF Take, ReaderGoes, flags, wvars
  <1>3. /\ rdp' \in Slot /\ Fill' = Fill - 1 /\ data[rdp] = Nth(1)
        /\ \A k \in 1 .. Fill - 1 : data'[(rdp' + k - 1) % Size] = Nth(k + 1)
    BY <1>1, <1>2, TakeRing DEF TypeOK
  <1>4. got' \in Item
    <2>1. 1 \in 1 .. Fill
      BY <1>1, SMT
    <2> QED BY <1>2, <1>3, <2>1 DEF DataInv, UnreadAreItems
  <1>5. UnreadAreItems'
    <2>1. \A k \in 1 .. Fill' : k \in 1 .. Fill - 1 /\ k + 1 \in 1 .. Fill
      BY <1>1, <1>3, SMT
    <2> QED BY <1>3, <2>1 DEF UnreadAreItems, DataInv, Nth
  <1>6. TypeOK'
    BY <1>2, <1>3, <1>4, SMT DEF TypeOK, Semaphore
  <1>7. LockInv' /\ ReaderInv' /\ WriterInv'
    BY <1>1, <1>2, <1>3, SizePositive, SMT DEF LockInv, ReaderInv, WriterInv,
           WriterLocked, ReaderLocked, ReaderGoesToSleep
  <1>8. SleepInv' /\ WakeInv' /\ DataInv'
    BY <1>1, <1>2, <1>4, <1>5, ItemTypes DEF SleepInv, WakeInv, DataInv
  <1> QED BY <1>6, <1>7, <1>8

LEMMA InvNext == IInv /\ [Next]_vars => IInv'
  <1> SUFFICES ASSUME IInv, [Next]_vars PROVE IInv'
    OBVIOUS
  <1>1. CASE Store
    BY <1>1, InvStore
  <1>2. CASE Take
    BY <1>2, InvTake
  <1>3. CASE UNCHANGED vars
    <2>1. UNCHANGED ring
      BY <1>3 DEF vars, ring
    <2> QED BY <1>3, <2>1, SameRing DEF vars, IInv, TypeOK, LockInv, ReaderInv,
                   WriterInv, SleepInv, WakeInv, DataInv, WriterLocked, ReaderLocked,
                   ReaderGoesToSleep
  <1>4. CASE Next /\ ~Store /\ ~Take
    <2>1. \/ \E i \in Item : WriteCall(i)
          \/ Probe \/ WriteLock \/ TestFull \/ WriterSleep \/ WriteRelock
          \/ WakeReader \/ PostReader \/ WriteReturn
          \/ ReadCall \/ ReadLock \/ TestEmpty \/ ReadRelease \/ ReaderSleep
          \/ ReadRelock \/ WakeWriter \/ ReadReturn
      BY <1>4 DEF Next, WriterStep, ReaderStep
    <2>2. UNCHANGED ring
      BY <2>1 DEF ring, WriteCall, Probe, WriteLock, TestFull, WriterSleep,
             WriteRelock, WakeReader, PostReader, WriteReturn, ReadCall, ReadLock,
             TestEmpty, ReadRelease, ReaderSleep, ReadRelock, WakeWriter, ReadReturn
    <2> QED BY <2>1, <2>2, InvOffRing
  <1> QED BY <1>1, <1>2, <1>3, <1>4

\* The inductive invariant holds throughout.
THEOREM Invariance == Spec => []IInv
  <1> QED BY InvInit, InvNext, PTL DEF Spec
-----------------------------------------------------------------------------
(* The properties of CommPipe, for every ring. *)

\* Every variable keeps its type, and no semaphore ever counts past one.
THEOREM TypeCorrect == Spec => []TypeOK
  <1>1. IInv => TypeOK
    BY DEF IInv
  <1> QED BY <1>1, Invariance, PTL

\* The two threads never work on the ring at once, the unlocked path included.
THEOREM Exclusion == Spec => []RingExclusion
  <1>1. IInv => RingExclusion
    BY DEF IInv, RingExclusion, LockInv, ReaderInv, WriterLocked, ReaderLocked,
           ReaderGoesToSleep
  <1> QED BY <1>1, Invariance, PTL

\* No store lands on an unread slot and no take finds the ring empty.
THEOREM RingSound == Spec => [](NoOverrun /\ NoUnderrun)
  <1>1. IInv => NoOverrun /\ NoUnderrun
    <2> SUFFICES ASSUME IInv PROVE NoOverrun /\ NoUnderrun
      OBVIOUS
    <2> USE DEF IInv
    <2>1. wpc = "store" => Fill < Size - 1
      BY DEF WriterInv
    <2>2. rpc \in {"relock", "take"} => Fill > 0
      BY DEF ReaderInv
    <2> QED BY <2>1, <2>2, FillFacts, SizePositive, SMT DEF TypeOK, NoOverrun,
                   NoUnderrun
  <1> QED BY <1>1, Invariance, PTL

\* A token in a wait semaphore belongs to the sleep its thread is in.
THEOREM TokensMatch == Spec => []NoStrayWakeup
  <1>1. IInv => NoStrayWakeup
    BY DEF IInv, NoStrayWakeup, ReaderInv, WriterInv, ReaderGoesToSleep
  <1> QED BY <1>1, Invariance, PTL

\* A reader with no wakeup on its way sleeps over fewer than Chunks items, none
\* of them written with no_buffer.
THEOREM WakeupsArrive == Spec => []NoLostWakeup
  <1>1. IInv => NoLostWakeup
    BY SMT DEF IInv, NoLostWakeup, ReaderInv, SleepInv, ReaderGoesToSleep
  <1> QED BY <1>1, Invariance, PTL
-----------------------------------------------------------------------------
(* The pipe implements the bounded FIFO. *)

LEMMA TabulatedSeq == ASSUME NEW S, NEW n \in Nat, NEW f \in [1 .. n -> S]
                      PROVE  f \in Seq(S) /\ Len(f) = n
  BY SMT

ContentsFacts == /\ Contents \in Seq(Item)
                 /\ Len(Contents) = Fill
                 /\ \A k \in 1 .. Fill : Contents[k] = data[(rdp + k - 1) % Size]
                 /\ Fill \in 0 .. Size - 1

LEMMA ContentsIsSeq == IInv => ContentsFacts
  <1> SUFFICES ASSUME IInv
               PROVE  /\ Contents \in [1 .. Fill -> Item]
                      /\ \A k \in 1 .. Fill : Contents[k] = Nth(k)
                      /\ Fill \in 0 .. Size - 1
    BY TabulatedSeq, SMT DEF ContentsFacts, Nth
  <1>1. Fill \in 0 .. Size - 1
    BY FillFacts DEF IInv, TypeOK
  <1> QED BY <1>1 DEF IInv, DataInv, UnreadAreItems, Contents

\* A store is the abstract Put.
LEMMA StoreIsPut == ASSUME IInv, IInv', Store PROVE Fifo!Put
  <1>1. item \in Item /\ item # NoItem /\ Fill < Size - 1 /\ Fill \in Nat
    BY FillFacts, ItemTypes, SMT DEF IInv, Store, WriterGoes, TypeOK, LockInv,
           WriterInv
  <1>2. /\ wpc = "store" /\ wpc' = "wake" /\ got' = got
        /\ data' = [data EXCEPT ![wrp] = item] /\ wrp' = Succ(wrp) /\ rdp' = rdp
    BY DEF Store, WriterGoes, flags, rvars
  <1>3. /\ Fill' = Fill + 1
        /\ data'[(rdp' + Fill' - 1) % Size] = item
        /\ \A k \in 1 .. Fill : data'[(rdp' + k - 1) % Size] = data[(rdp + k - 1) % Size]
    BY <1>1, <1>2, StoreRing DEF IInv, TypeOK, Nth
  <1>4. ContentsFacts
    BY ContentsIsSeq
  <1>5. ContentsFacts'
    BY ContentsIsSeq, PTL
  <1>6. Contents' = Append(Contents, item)
    <2> DEFINE a == Append(Contents, item)
    <2>1. /\ a \in Seq(Item) /\ Len(a) = Fill + 1
          /\ \A k \in 1 .. Fill : a[k] = data[(rdp + k - 1) % Size]
          /\ a[Fill + 1] = item
      BY <1>1, <1>4, AppendProperties DEF ContentsFacts
    <2>2. \A k \in 1 .. Fill + 1 : a[k] = Contents'[k]
      <3>1. \A k \in 1 .. Fill + 1 : k \in 1 .. Fill \/ k = Fill + 1
        BY <1>1, SMT
      <3>2. Fill + 1 \in 1 .. Fill + 1
        BY <1>1, SMT
      <3>3. \A k \in 1 .. Fill : k \in 1 .. Fill + 1
        BY <1>1, SMT
      <3> HIDE DEF a
      <3> QED BY <1>3, <1>5, <2>1, <3>1, <3>2, <3>3 DEF ContentsFacts
    <2> HIDE DEF a
    <2>3. a = Contents'
      BY <1>3, <1>5, <2>1, <2>2, SeqEqual DEF ContentsFacts
    <2> QED BY <2>3 DEF a
  <1> QED BY <1>1, <1>2, <1>4, <1>6 DEF Fifo!Put, ContentsFacts

\* A take is the abstract Get.
LEMMA TakeIsGet == ASSUME IInv, IInv', Take PROVE Fifo!Get
  <1>1. Fill > 0 /\ Fill \in 0 .. Size - 1 /\ got = NoItem
    BY FillFacts, SMT DEF IInv, Take, ReaderGoes, TypeOK, ReaderInv, DataInv
  <1>2. /\ rpc = "take" /\ rpc' = "wake" /\ got' = data[rdp]
        /\ data' = data /\ wrp' = wrp /\ rdp' = Succ(rdp)
        /\ UNCHANGED <<wpc, item, fast>>
    BY DEF Take, ReaderGoes, flags, wvars
  <1>3. /\ Fill' = Fill - 1
        /\ data[rdp] = data[(rdp + 1 - 1) % Size]
        /\ \A k \in 1 .. Fill - 1 : data'[(rdp' + k - 1) % Size]
                                      = data[(rdp + (k + 1) - 1) % Size]
    BY <1>1, <1>2, TakeRing DEF IInv, TypeOK, Nth
  <1>4. ContentsFacts
    BY ContentsIsSeq
  <1>5. ContentsFacts'
    BY ContentsIsSeq, PTL
  <1>6. Contents # <<>>
    BY <1>1, <1>4, SMT DEF ContentsFacts
  <1>7. Head(Contents) = got'
    <2>1. Head(Contents) = Contents[1] /\ 1 \in 1 .. Fill
      BY <1>1, <1>4, <1>6, SMT DEF ContentsFacts
    <2> QED BY <1>2, <1>3, <1>4, <2>1 DEF ContentsFacts
  <1>8. Contents' = Tail(Contents)
    <2> DEFINE t == Tail(Contents)
    <2>1. /\ t \in Seq(Item) /\ Len(t) = Fill - 1
          /\ \A k \in 1 .. Fill - 1 : t[k] = Contents[k + 1]
      BY <1>4, <1>6, HeadTailProperties DEF ContentsFacts
    <2> HIDE DEF t
    <2>2. \A k \in 1 .. Fill - 1 : t[k] = Contents'[k]
      <3>1. \A k \in 1 .. Fill - 1 : k + 1 \in 1 .. Fill
        BY <1>1, SMT
      <3> QED BY <1>3, <1>4, <1>5, <2>1, <3>1 DEF ContentsFacts
    <2>3. t = Contents'
      BY <1>3, <1>5, <2>1, <2>2, SeqEqual DEF ContentsFacts
    <2> QED BY <2>3 DEF t
  <1> QED BY <1>1, <1>2, <1>6, <1>7, <1>8 DEF Fifo!Get

\* A step that touches neither end of the ring shows at most a call or a return.
LEMMA OffRing == ASSUME UNCHANGED ring PROVE Contents' = Contents
  BY DEF ring, Contents, Nth, Fill

\* Every behaviour of the pipe is one of a FIFO of Size - 1 items.
THEOREM Refinement == Spec => FifoSpec
  <1>1. Init => Fifo!Init
    <2> SUFFICES ASSUME Init PROVE Contents = <<>> /\ item = NoItem /\ got = NoItem
      BY DEF Init, Fifo!Init
    <2>1. IInv /\ Fill = 0
      BY InvInit, FillFacts DEF Init, IInv, TypeOK
    <2>2. Contents = <<>>
      BY <2>1, ContentsIsSeq, SMT DEF ContentsFacts
    <2> QED BY <2>2 DEF Init
  <1>2. IInv /\ IInv' /\ [Next]_vars => [Fifo!Next]_(Fifo!fifoVars)
    <2> SUFFICES ASSUME IInv, IInv', [Next]_vars
                 PROVE Fifo!Next \/ UNCHANGED Fifo!fifoVars
      BY DEF Fifo!fifoVars
    <2>1. CASE Store
      BY <2>1, StoreIsPut DEF Fifo!Next
    <2>2. CASE Take
      BY <2>2, TakeIsGet DEF Fifo!Next
    <2>3. ASSUME NEW i \in Item, WriteCall(i) PROVE Fifo!Next
      <3>1. Contents' = Contents
        BY <2>3, OffRing DEF WriteCall
      <3> QED BY <2>3, <3>1 DEF Fifo!Next, Fifo!PutCall, WriteCall, WriterGoes, rvars
    <2>4. CASE ReadReturn
      <3>1. Contents' = Contents
        BY <2>4, OffRing DEF ReadReturn
      <3> QED BY <2>4, <3>1 DEF Fifo!Next, Fifo!GetReturn, ReadReturn, ReaderGoes,
                     wvars, IInv, DataInv
    <2>5. CASE \/ Probe \/ WriteLock \/ TestFull \/ WriterSleep \/ WriteRelock
               \/ WakeReader \/ PostReader \/ WriteReturn
      <3>1. Contents' = Contents
        BY <2>5, OffRing DEF Probe, WriteLock, TestFull, WriterSleep, WriteRelock,
               WakeReader, PostReader, WriteReturn, ring
      <3> QED BY <2>5, <3>1 DEF Fifo!fifoVars, Probe, WriteLock, TestFull,
                     WriterSleep, WriteRelock, WakeReader, PostReader, WriteReturn,
                     WriterGoes, rvars
    <2>6. CASE \/ ReadCall \/ ReadLock \/ TestEmpty \/ ReadRelease \/ ReaderSleep
               \/ ReadRelock \/ WakeWriter
      <3>1. Contents' = Contents
        BY <2>6, OffRing DEF ReadCall, ReadLock, TestEmpty, ReadRelease, ReaderSleep,
               ReadRelock, WakeWriter, ring
      <3> QED BY <2>6, <3>1 DEF Fifo!fifoVars, ReadCall, ReadLock, TestEmpty,
                     ReadRelease, ReaderSleep, ReadRelock, WakeWriter, ReaderGoes,
                     wvars
    <2>7. CASE UNCHANGED vars
      BY <2>7, OffRing DEF vars, ring, Fifo!fifoVars
    <2> QED BY <2>1, <2>2, <2>3, <2>4, <2>5, <2>6, <2>7 DEF Next, WriterStep,
                   ReaderStep
  <1> QED BY <1>1, <1>2, Invariance, PTL DEF Spec, FifoSpec, Fifo!Spec
=============================================================================
