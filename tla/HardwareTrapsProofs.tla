------------------------ MODULE HardwareTrapsProofs ------------------------
(***************************************************************************)
(* Proofs about HardwareTraps, for any number of tasks, slots and          *)
(* commands, where handlers return before the unit's thread is done and    *)
(* one function of trap_callback is under way at a time.  The inductive    *)
(* invariant IInv follows each slot: at any time it is in one of the pipes *)
(* or with one thread, but for a slot that was given away, which the       *)
(* thread that ran its handler still holds until trap_done.  HeldInv adds  *)
(* that no wait is in vain: what a task, a thread or the unit waits for    *)
(* is with someone, so that they never all wait for each other.            *)
(***************************************************************************)
EXTENDS HardwareTraps, SequenceTheorems, FiniteSetTheorems, TLAPS

Pipe(t) == Range(trap_thread_pipe[t])
GivenAway(s) == s \in Range(unit_pipe) \/ on[Unit] = s

\* A task and its slot.
TaskInv ==
  /\ \A k \in Task : task[k] = "run" <=> at[k] = None
  /\ \A k \in Task : at[k] # None => locked[at[k]]
  /\ \A k, l \in Task : at[k] # None /\ at[k] = at[l] => k = l
  /\ \A k \in Task : task[k] = "store" => ~Used(at[k]) /\ ~ready[at[k]]
  /\ \A k \in Task : task[k] = "command" => second[at[k]] = "taken"

\* What the host works on is the slot of a task that waits for it.
UsedInv ==
  \A s \in Slot : Used(s) => /\ ~ready[s]
                             /\ \E k \in Task : at[k] = s /\ task[k] # "store"

\* A slot is in one pipe, once, and then with no thread.
PipeInv ==
  /\ \A t \in Thread : IsInjective(trap_thread_pipe[t])
  /\ \A t, u \in Thread : \A s \in AnySlot : s \in Pipe(t) /\ s \in Pipe(u) => t = u
  /\ \A t \in Thread : \A s \in Pipe(t) : (s = Send <=> t = Send) /\ s \notin Range(unit_pipe)
  /\ IsInjective(unit_pipe)
  /\ UnderWay <= 1
  /\ \A t \in Thread, w \in Worker : on[w] \notin Pipe(t)
  /\ on[Unit] \notin Range(unit_pipe)

\* A slot is with one of the threads of traps; the last one is for trap_callback.
WorkerInv ==
  /\ \A w \in Worker : place[w] = "read" <=> on[w] = None
  /\ \A t, u \in Thread : on[t] # None /\ on[t] = on[u] => t = u
  /\ \A t \in Thread : on[t] # None => (on[t] = Send <=> t = Send)
  /\ \A t \in Thread : place[t] # "complete"
  /\ on[Unit] # Send /\ place[Unit] \notin {"return", "done"}
  /\ place[Send] \notin {"return", "done"}
  /\ \A w \in Worker : place[w] \in {"request", "post"} => w = Send

\* The two threads that hold a slot which was given away.
ContextInv ==
  /\ \A t \in Thread : on[t] # None => (GivenAway(on[t]) <=> place[t] \in {"return", "done"})
  /\ \A t \in Thread : place[t] = "return" => background[on[t]]
  /\ \A s \in AnySlot : done[s] => GivenAway(s) /\ \A t \in Thread : on[t] # s

\* Commands and those that wait for their answers.
Spins(w, s) == on[w] = s /\ place[w] = "spin"
CommandInv ==
  /\ \A s \in AnySlot : second[s] # "none" <=> \E w \in Worker : Spins(w, s)
  /\ \A s \in AnySlot : second[s] \in {"task", "taken"} => s \in Slot
  /\ \A s \in AnySlot : second[s] = "interrupt" => s = Send
  /\ hwtrap_waiting = (IF second[Send] = "interrupt" THEN 1 ELSE 0)
                        + (IF place[Send] \in {"request", "post"} THEN 1 ELSE 0)

IInv == /\ TypeOK /\ TaskInv /\ UsedInv
        /\ PipeInv /\ WorkerInv /\ ContextInv /\ CommandInv
-----------------------------------------------------------------------------
LEMMA Names == /\ None \notin AnySlot /\ Unit \notin Thread /\ None \notin Slot
               /\ Send \in AnySlot /\ Send \notin Slot /\ Slot \subseteq AnySlot
               /\ AnySlot = Thread /\ Worker = Thread \cup {Unit}
               /\ \A s \in AnySlot : s \in Slot \/ s = Send
               /\ \A s \in Slot : s \in AnySlot /\ s # Send
  BY HardwareAssumption DEF AnySlot, Slot, Send, Thread, Worker

\* What is in a pipe after a write ...
LEMMA RangeAppend ==
  ASSUME NEW S, NEW q \in Seq(S), NEW e \in S
  PROVE  /\ Append(q, e) \in Seq(S)
         /\ Range(Append(q, e)) = Range(q) \cup {e}
         /\ IsInjective(q) /\ e \notin Range(q) => IsInjective(Append(q, e))
  <1>1. /\ Append(q, e) \in Seq(S) /\ Len(Append(q, e)) = Len(q) + 1
        /\ \A i \in 1 .. Len(q) : Append(q, e)[i] = q[i]
        /\ Append(q, e)[Len(q) + 1] = e
        /\ Len(q) \in Nat /\ DOMAIN q = 1 .. Len(q)
        /\ DOMAIN Append(q, e) = 1 .. Len(q) + 1
    BY AppendProperties, LenProperties
  <1> HIDE DEF Append
  <1>2. Range(Append(q, e)) = Range(q) \cup {e}
    BY <1>1 DEF Range
  <1>3. IsInjective(q) /\ e \notin Range(q) => IsInjective(Append(q, e))
    BY <1>1 DEF Range, IsInjective
  <1> QED BY <1>1, <1>2, <1>3

\* ... and before and after a read.
LEMMA RangeTail ==
  ASSUME NEW S, NEW q \in Seq(S), q # <<>>
  PROVE  /\ Tail(q) \in Seq(S) /\ Head(q) \in S
         /\ Len(Tail(q)) = Len(q) - 1 /\ Len(q) \in Nat
         /\ Range(q) = Range(Tail(q)) \cup {Head(q)}
         /\ IsInjective(q) => IsInjective(Tail(q)) /\ Head(q) \notin Range(Tail(q))
  <1>1. /\ Tail(q) \in Seq(S) /\ Len(Tail(q)) = Len(q) - 1 /\ Head(q) \in S
        /\ \A i \in 1 .. Len(q) - 1 : Tail(q)[i] = q[i + 1]
        /\ Len(q) \in Nat \ {0} /\ DOMAIN q = 1 .. Len(q)
        /\ DOMAIN Tail(q) = 1 .. Len(q) - 1
        /\ Head(q) = q[1]
    BY HeadTailProperties, LenProperties, EmptySeq
  <1> HIDE DEF Tail, Head
  <1>2. Range(q) = Range(Tail(q)) \cup {Head(q)}
    <2>1. \A i \in 1 .. Len(q) : i = 1 \/ (i - 1 \in 1 .. Len(q) - 1 /\ (i - 1) + 1 = i)
      BY <1>1
    <2>2. \A i \in 1 .. Len(q) - 1 : i + 1 \in 1 .. Len(q)
      BY <1>1
    <2>3. 1 \in 1 .. Len(q)
      BY <1>1
    <2>4. ASSUME NEW x \in Range(q) PROVE x \in Range(Tail(q)) \cup {Head(q)}
      <3>1. PICK i \in 1 .. Len(q) : x = q[i]
        BY <1>1 DEF Range
      <3>2. CASE i = 1
        BY <3>1, <3>2, <1>1
      <3>3. CASE i # 1
        <4>1. i - 1 \in 1 .. Len(q) - 1 /\ (i - 1) + 1 = i
          BY <3>3, <2>1
        <4>2. Tail(q)[i - 1] = x
          BY <4>1, <1>1, <3>1
        <4> QED BY <4>1, <4>2, <1>1 DEF Range
      <3> QED BY <3>2, <3>3
    <2>5. ASSUME NEW x \in Range(Tail(q)) PROVE x \in Range(q)
      BY <1>1, <2>2 DEF Range
    <2>6. Head(q) \in Range(q)
      BY <1>1, <2>3 DEF Range
    <2> QED BY <2>4, <2>5, <2>6
  <1>3. ASSUME IsInjective(q) PROVE IsInjective(Tail(q)) /\ Head(q) \notin Range(Tail(q))
    BY <1>1, <1>3 DEF Range, IsInjective
  <1> QED BY <1>1, <1>2, <1>3

LEMMA EmptyRange == Range(<<>>) = {} /\ IsInjective(<<>>)
  BY DEF Range, IsInjective

LEMMA InvInit == Init => IInv
  <1> SUFFICES ASSUME Init PROVE IInv
    OBVIOUS
  <1> USE Names, EmptyRange
  <1>1. TypeOK
    <2>1. <<>> \in Seq(AnySlot) /\ <<>> \in Seq(Slot) /\ 0 \in Slot /\ 0 \in 0 .. Commands
      BY HardwareAssumption, EmptySeq DEF Slot
    <2>2. trap_thread_pipe \in [Thread -> Seq(AnySlot)] /\ unit_pipe \in Seq(Slot)
      BY <2>1 DEF Init
    <2> QED BY <2>1, <2>2 DEF Init, TypeOK
  <1>2. \A s \in AnySlot : ~Used(s) /\ ~GivenAway(s)
    BY DEF Init, Used, Queued, GivenAway
  <1>3. TaskInv /\ UsedInv
    BY <1>2 DEF Init, TaskInv, UsedInv
  <1>4. PipeInv
    BY DEF Init, PipeInv, Pipe, UnderWay
  <1>5. WorkerInv /\ ContextInv /\ CommandInv
    BY <1>2 DEF Init, WorkerInv, ContextInv, CommandInv, Spins
  <1> QED BY <1>1, <1>3, <1>4, <1>5 DEF IInv

-----------------------------------------------------------------------------
(* Steps that leave the pipes alone and each thread with its slot.         *)

Holding == <<trap_thread_pipe, unit_pipe, on>>

LEMMA SameHolding ==
  ASSUME UNCHANGED Holding
  PROVE  /\ \A s : Used(s)' = Used(s) /\ GivenAway(s)' = GivenAway(s)
         /\ \A t : Pipe(t)' = Pipe(t)
  BY DEF Holding, Used, Queued, GivenAway, Pipe

\* The Amiga and the emulation thread change nothing about the host's threads.
LEMMA SameHost ==
  ASSUME PipeInv, WorkerInv, ContextInv, UNCHANGED <<Holding, place, contexts>>
  PROVE  PipeInv' /\ WorkerInv' /\ ContextInv'
  <1>1. PipeInv'
    <2>1. UnderWay' = UnderWay
      BY DEF UnderWay, Holding
    <2> QED BY <2>1 DEF PipeInv, Pipe, Holding
  <1>2. WorkerInv'
    BY DEF WorkerInv, Holding
  <1>3. ContextInv'
    BY DEF ContextInv, GivenAway, Holding, contexts
  <1> QED BY <1>1, <1>2, <1>3

LEMMA LockSlotKeeps ==
  ASSUME IInv, NEW k \in Task, NEW s \in Slot, LockSlot(k, s)
  PROVE  IInv'
  <1> USE Names DEF IInv, LockSlot, TaskGoes, contexts, pipes, workers, interrupt
  <1>1. TypeOK'
    BY DEF TypeOK
  <1>2. PipeInv' /\ WorkerInv' /\ ContextInv'
    BY SameHost DEF Holding
  <1>3. /\ \A r : Used(r)' = Used(r)
        /\ \A l \in Task : at[l] # s
        /\ ~Used(s)
    BY SameHolding DEF Holding, TaskInv, UsedInv
  <1>4. TaskInv'
    BY <1>3 DEF TaskInv, TypeOK
  <1>5. UsedInv'
    BY <1>3 DEF UsedInv, TaskInv, TypeOK
  <1>6. CommandInv'
    BY DEF CommandInv, Spins
  <1> QED BY <1>1, <1>2, <1>4, <1>5, <1>6

LEMMA TakeCommandKeeps ==
  ASSUME IInv, NEW k \in Task, TakeCommand(k) \/ Answer(k)
  PROVE  IInv'
  <1> USE Names DEF IInv, TaskGoes, contexts, pipes, workers, interrupt
  <1>1. /\ at[k] \in Slot /\ second[at[k]] # "none"
        /\ \/ task' = [task EXCEPT ![k] = "command"] /\ second' = [second EXCEPT ![at[k]] = "taken"]
           \/ task' = [task EXCEPT ![k] = "wait"] /\ second' = [second EXCEPT ![at[k]] = "done"]
        /\ task[k] \in {"wait", "command"}
        /\ UNCHANGED <<at, locked, ready, contexts, pipes, workers, interrupt>>
    BY DEF TakeCommand, Answer, TaskInv, TypeOK
  <1>2. TypeOK'
    BY <1>1 DEF TypeOK
  <1>3. PipeInv' /\ WorkerInv' /\ ContextInv'
    BY <1>1, SameHost DEF Holding
  <1>4. \A r : Used(r)' = Used(r)
    BY <1>1, SameHolding DEF Holding
  <1>5. TaskInv'
    <2>1. ASSUME NEW l \in Task, task'[l] = "command" PROVE second'[at'[l]] = "taken"
      <3>1. CASE l = k
        BY <3>1, <2>1, <1>1 DEF TypeOK
      <3>2. CASE l # k
        BY <3>2, <2>1, <1>1 DEF TaskInv, TypeOK
      <3> QED BY <3>1, <3>2
    <2>2. ASSUME NEW l \in Task, task'[l] = "store" PROVE ~Used(at[l])' /\ ~ready'[at'[l]]
      BY <2>2, <1>1, <1>4 DEF TaskInv, TypeOK
    <2>3. \A l \in Task : task'[l] = "run" <=> at'[l] = None
      BY <1>1 DEF TaskInv, TypeOK
    <2> QED BY <1>1, <2>1, <2>2, <2>3 DEF TaskInv
  <1>6. UsedInv'
    BY <1>1, <1>4 DEF UsedInv, TypeOK
  <1>7. CommandInv'
    BY <1>1 DEF CommandInv, Spins, TypeOK
  <1> QED BY <1>2, <1>3, <1>5, <1>6, <1>7

LEMMA LeaveKeeps ==
  ASSUME IInv, NEW k \in Task, Leave(k)
  PROVE  IInv'
  <1> USE Names DEF IInv, Leave, TaskGoes, contexts, pipes, workers, interrupt
  <1>1. at[k] \in Slot /\ ~Used(at[k])
    BY DEF TaskInv, UsedInv, TypeOK
  <1>2. TypeOK'
    BY <1>1 DEF TypeOK
  <1>3. PipeInv' /\ WorkerInv' /\ ContextInv'
    BY SameHost DEF Holding
  <1>4. \A r : Used(r)' = Used(r)
    BY SameHolding DEF Holding
  <1>5. TaskInv'
    BY <1>1, <1>4 DEF TaskInv, TypeOK
  <1>6. UsedInv'
    BY <1>1, <1>4 DEF UsedInv, TypeOK
  <1>7. CommandInv'
    BY DEF CommandInv, Spins
  <1> QED BY <1>2, <1>3, <1>5, <1>6, <1>7

LEMMA EmulationKeeps ==
  ASSUME IInv, SetInt \/ NothingWaits \/ ClearInt \/ Interrupt(Send) \/ UNCHANGED vars
  PROVE  IInv'
  <1> USE Names DEF IInv, amiga, status, contexts, pipes, workers, interrupt, vars
  <1>1. /\ UNCHANGED <<amiga, locked, ready, contexts, pipes, workers>>
        /\ \/ UNCHANGED <<second, hwtrap_waiting>>
           \/ /\ hwtrap_waiting # 0 /\ second[Send] = "interrupt"
              /\ second' = [second EXCEPT ![Send] = "done"]
              /\ hwtrap_waiting' = hwtrap_waiting - 1
        /\ uae_int_requested' \in BOOLEAN /\ checking' \in BOOLEAN
    BY DEF SetInt, NothingWaits, ClearInt, Interrupt, TypeOK
  <1>2. TypeOK'
    <2>1. hwtrap_waiting' \in Nat
      <3>1. hwtrap_waiting \in Nat
        BY DEF TypeOK
      <3>2. hwtrap_waiting # 0 => hwtrap_waiting - 1 \in Nat
        BY <3>1
      <3> QED BY <1>1, <3>1, <3>2
    <2>2. second' \in [AnySlot -> {"none", "task", "taken", "interrupt", "done"}]
      <3>1. second \in [AnySlot -> {"none", "task", "taken", "interrupt", "done"}]
        BY DEF TypeOK
      <3>2. second' = second \/ second' = [second EXCEPT ![Send] = "done"]
        BY <1>1
      <3> QED BY <3>1, <3>2
    <2> QED BY <1>1, <2>1, <2>2 DEF TypeOK
  <1>3. PipeInv' /\ WorkerInv' /\ ContextInv'
    BY <1>1, SameHost DEF Holding
  <1>4. \A r : Used(r)' = Used(r)
    BY <1>1, SameHolding DEF Holding
  <1>5. TaskInv'
    BY <1>1, <1>4 DEF TaskInv, TypeOK
  <1>6. UsedInv'
    BY <1>1, <1>4 DEF UsedInv
  <1>7. CommandInv'
    <2>1. CASE UNCHANGED <<second, hwtrap_waiting>>
      BY <2>1, <1>1 DEF CommandInv, Spins
    <2>2. CASE /\ hwtrap_waiting # 0 /\ second[Send] = "interrupt"
               /\ second' = [second EXCEPT ![Send] = "done"]
               /\ hwtrap_waiting' = hwtrap_waiting - 1
      <3>1. \A s \in AnySlot : second'[s] = IF s = Send THEN "done" ELSE second[s]
        BY <2>2 DEF TypeOK
      <3>2. \A s \in AnySlot : second'[s] # "none" <=> \E w \in Worker : Spins(w, s)'
        BY <2>2, <3>1, <1>1 DEF CommandInv, Spins
      <3>3. hwtrap_waiting' = (IF second'[Send] = "interrupt" THEN 1 ELSE 0)
                        + (IF place'[Send] \in {"request", "post"} THEN 1 ELSE 0)
        BY <2>2, <3>1, <1>1 DEF CommandInv
      <3> QED BY <3>1, <3>2, <3>3 DEF CommandInv
    <2> QED BY <1>1, <2>1, <2>2
  <1> QED BY <1>2, <1>3, <1>5, <1>6, <1>7
-----------------------------------------------------------------------------
(* Commands of a handler or of a unit's thread.                            *)

\* Who works on a slot at first hand is alone with it.
LEMMA Alone ==
  ASSUME IInv, NEW w \in Worker, place[w] \notin {"read", "return", "done"}
  PROVE  /\ on[w] \in AnySlot
         /\ \A v \in Worker : v # w /\ on[v] = on[w] => place[v] \in {"return", "done"}
         /\ ~Spins(w, on[w]) => second[on[w]] = "none"
  <1> USE Names DEF IInv
  <1>1. on[w] \in AnySlot /\ on[w] # None
    BY DEF TypeOK, WorkerInv
  <1>2. ASSUME NEW v \in Worker, v # w, on[v] = on[w] PROVE place[v] \in {"return", "done"}
    <2>1. CASE v \in Thread /\ w \in Thread
      BY <2>1, <1>1, <1>2 DEF WorkerInv
    <2>2. CASE v = Unit
      BY <2>2, <1>1, <1>2 DEF ContextInv, GivenAway
    <2>3. CASE w = Unit
      BY <2>3, <1>1, <1>2 DEF ContextInv, GivenAway
    <2> QED BY <2>1, <2>2, <2>3
  <1>3. ASSUME ~Spins(w, on[w]) PROVE second[on[w]] = "none"
    BY <1>1, <1>2, <1>3 DEF CommandInv, Spins
  <1> QED BY <1>1, <1>2, <1>3

\* A step of call_hardware_trap_back: the thread goes to another place, with a new
\* command in the slot or without.
Waiting == (IF second[Send] = "interrupt" THEN 1 ELSE 0)
             + (IF place[Send] \in {"request", "post"} THEN 1 ELSE 0)

LEMMA BackKeeps ==
  ASSUME IInv, NEW w \in Worker, NEW c \in {"none", "task", "interrupt"},
         NEW to \in {"handler", "request", "post", "spin"},
         place[w] \in {"handler", "request", "post", "spin"},
         place' = [place EXCEPT ![w] = to],
         second[on[w]] \in {"none", "done"},
         second' = [second EXCEPT ![on[w]] = c],
         (to = "spin") <=> (c # "none"),
         c = "task" => on[w] # Send, c = "interrupt" => on[w] = Send,
         to \in {"request", "post"} => w = Send,
         made' \in [Worker -> 0 .. Commands], uae_int_requested' \in BOOLEAN,
         hwtrap_waiting' = Waiting',
         UNCHANGED <<amiga, locked, ready, contexts, pipes, on, checking>>
  PROVE  IInv'
  <1> USE Names DEF IInv, amiga, contexts, pipes
  <1>1. /\ on[w] \in AnySlot
        /\ \A v \in Worker : v # w /\ on[v] = on[w] => place[v] \in {"return", "done"}
    BY Alone
  <1>2. /\ \A r : Used(r)' = Used(r) /\ GivenAway(r)' = GivenAway(r)
        /\ \A t : Pipe(t)' = Pipe(t)
    BY SameHolding DEF Holding
  <1>3. TypeOK'
    <2>1. second' \in [AnySlot -> {"none", "task", "taken", "interrupt", "done"}]
      BY DEF TypeOK
    <2>2. hwtrap_waiting' \in Nat
      BY DEF Waiting
    <2> QED BY <2>1, <2>2 DEF TypeOK
  <1>4. TaskInv'
    <2>1. ASSUME NEW l \in Task, task[l] = "command" PROVE second'[at[l]] = "taken"
      BY <2>1 DEF TaskInv, TypeOK
    <2> QED BY <2>1, <1>2 DEF TaskInv
  <1>5. UsedInv'
    BY <1>2 DEF UsedInv
  <1>6. PipeInv'
    <2>1. UnderWay' = UnderWay
      BY DEF UnderWay, TypeOK
    <2> QED BY <2>1 DEF PipeInv, Pipe
  <1>7. WorkerInv'
    BY DEF WorkerInv, TypeOK
  <1>8. ContextInv'
    BY <1>1, <1>2 DEF ContextInv, TypeOK
  <1>9. CommandInv'
    <2>1. ASSUME NEW s \in AnySlot
          PROVE  second'[s] # "none" <=> \E v \in Worker : Spins(v, s)'
      <3>1. CASE s = on[w]
        BY <3>1, <1>1 DEF Spins, TypeOK
      <3>2. CASE s # on[w]
        BY <3>2 DEF CommandInv, Spins, TypeOK
      <3> QED BY <3>1, <3>2
    <2>2. ASSUME NEW s \in AnySlot
          PROVE  /\ second'[s] \in {"task", "taken"} => s \in Slot
                 /\ second'[s] = "interrupt" => s = Send
      BY DEF CommandInv, TypeOK
    <2> QED BY <2>1, <2>2 DEF CommandInv, Waiting
  <1> QED BY <1>3, <1>4, <1>5, <1>6, <1>7, <1>8, <1>9

LEMMA TrapBackKeeps ==
  ASSUME IInv, NEW w \in Worker, TrapBack(w)
  PROVE  IInv'
  <1> USE Names DEF Goes, status, pipes, contexts, interrupt
  <1>1. place[w] \in {"handler", "request", "post", "spin"}
    BY DEF TrapBack, Answered, AskTask, Count, Request, Post
  <1>2. /\ on[w] \in AnySlot
        /\ ~Spins(w, on[w]) => second[on[w]] = "none"
    BY <1>1, Alone
  <1>3. /\ second \in [AnySlot -> {"none", "task", "taken", "interrupt", "done"}]
        /\ place \in [Worker -> {"read", "handler", "return", "done", "request", "post",
                           "spin", "complete"}]
        /\ hwtrap_waiting = Waiting /\ hwtrap_waiting \in Nat
        /\ made \in [Worker -> 0 .. Commands] /\ uae_int_requested \in BOOLEAN
        /\ place[w] \in {"request", "post"} => w = Send
        /\ on[w] = Send <=> w = Send
    BY <1>1 DEF IInv, TypeOK, CommandInv, Waiting, WorkerInv
  <1>4. Commands \in Nat /\ "none" \in {"none", "task", "interrupt"}
    BY HardwareAssumption
  <1>5. ASSUME ~Spins(w, on[w]) PROVE second = [second EXCEPT ![on[w]] = "none"]
    BY <1>2, <1>3, <1>5
  <1>6. CASE Answered(w)
    <2>1. second' = [second EXCEPT ![on[w]] = "none"] /\ place' = [place EXCEPT ![w] = "handler"]
      BY <1>6 DEF Answered
    <2>2. hwtrap_waiting' = Waiting'
      BY <2>1, <1>2, <1>3, <1>6 DEF Answered, Waiting
    <2> QED BY <2>1, <2>2, <1>1, <1>2, <1>3, <1>6, BackKeeps DEF Answered
  <1>7. CASE AskTask(w)
    <2>1. /\ second' = [second EXCEPT ![on[w]] = "task"] /\ place' = [place EXCEPT ![w] = "spin"]
          /\ on[w] # Send /\ ~Spins(w, on[w])
      BY <1>7 DEF AskTask, Spins
    <2>2. hwtrap_waiting' = Waiting'
      BY <2>1, <1>2, <1>3, <1>7 DEF AskTask, Waiting
    <2>3. made' \in [Worker -> 0 .. Commands]
      BY <1>3, <1>4, <1>7 DEF AskTask
    <2> QED BY <2>1, <2>2, <2>3, <1>1, <1>2, <1>3, <1>7, BackKeeps DEF AskTask
  <1>8. CASE Count(w)
    <2>1. /\ second' = [second EXCEPT ![on[w]] = "none"] /\ place' = [place EXCEPT ![w] = "request"]
          /\ w = Send /\ ~Spins(w, on[w])
      BY <1>3, <1>5, <1>8 DEF Count, Spins
    <2>2. hwtrap_waiting' = Waiting'
      BY <2>1, <1>2, <1>3, <1>8 DEF Count, Waiting
    <2>3. made' \in [Worker -> 0 .. Commands]
      BY <1>3, <1>4, <1>8 DEF Count
    <2> QED BY <2>1, <2>2, <2>3, <1>1, <1>2, <1>3, <1>8, BackKeeps DEF Count
  <1>9. CASE Request(w)
    <2>1. /\ second' = [second EXCEPT ![on[w]] = "none"] /\ place' = [place EXCEPT ![w] = "post"]
          /\ w = Send /\ ~Spins(w, on[w])
      BY <1>3, <1>5, <1>9 DEF Request, Spins
    <2>2. hwtrap_waiting' = Waiting'
      BY <2>1, <1>2, <1>3, <1>9 DEF Request, Waiting
    <2> QED BY <2>1, <2>2, <1>1, <1>2, <1>3, <1>9, BackKeeps DEF Request
  <1>10. CASE Post(w)
    <2>1. /\ second' = [second EXCEPT ![on[w]] = "interrupt"] /\ place' = [place EXCEPT ![w] = "spin"]
          /\ w = Send /\ on[w] = Send /\ ~Spins(w, on[w])
      BY <1>3, <1>10 DEF Post, Spins
    <2>2. hwtrap_waiting' = Waiting'
      BY <2>1, <1>2, <1>3, <1>10 DEF Post, Waiting
    <2> QED BY <2>1, <2>2, <1>1, <1>2, <1>3, <1>10, BackKeeps DEF Post
  <1> QED BY <1>6, <1>7, <1>8, <1>9, <1>10 DEF TrapBack
-----------------------------------------------------------------------------
(* Steps that move a slot.                                                 *)

\* Elements of the pipes are slots, and None is with nobody.
LEMMA PipeTypes ==
  ASSUME TypeOK
  PROVE  /\ \A t \in Thread : Pipe(t) \subseteq AnySlot
         /\ Range(unit_pipe) \subseteq Slot
         /\ \A t \in Thread : trap_thread_pipe[t] \in Seq(AnySlot)
         /\ unit_pipe \in Seq(Slot)
         /\ ~Used(None) \/ \E w \in Worker : on[w] = None
  <1>1. /\ \A t \in Thread : trap_thread_pipe[t] \in Seq(AnySlot)
        /\ unit_pipe \in Seq(Slot)
    BY DEF TypeOK
  <1> QED BY <1>1, RangeOfSeq, Names DEF Pipe, Used, Queued

\* The pipes after a write into that of a thread of traps.
LEMMA Written ==
  ASSUME TypeOK, NEW t \in Thread, NEW s \in AnySlot,
         trap_thread_pipe' = [trap_thread_pipe EXCEPT ![t] = Append(@, s)]
  PROVE  /\ trap_thread_pipe' \in [Thread -> Seq(AnySlot)]
         /\ \A u \in Thread : \A r : r \in Pipe(u)' <=> r \in Pipe(u) \/ (u = t /\ r = s)
         /\ \A u \in Thread : u # t => trap_thread_pipe'[u] = trap_thread_pipe[u]
         /\ IsInjective(trap_thread_pipe[t]) /\ s \notin Pipe(t)
              => IsInjective(trap_thread_pipe'[t])
         /\ trap_thread_pipe'[t] = Append(trap_thread_pipe[t], s)
         /\ Len(trap_thread_pipe'[t]) = Len(trap_thread_pipe[t]) + 1
         /\ Len(trap_thread_pipe[t]) \in Nat
  <1> DEFINE q == trap_thread_pipe[t]
  <1>1. q \in Seq(AnySlot) /\ trap_thread_pipe \in [Thread -> Seq(AnySlot)]
    BY DEF TypeOK
  <1>2. /\ Append(q, s) \in Seq(AnySlot)
        /\ Range(Append(q, s)) = Range(q) \cup {s}
        /\ IsInjective(q) /\ s \notin Range(q) => IsInjective(Append(q, s))
        /\ Len(Append(q, s)) = Len(q) + 1 /\ Len(q) \in Nat
    BY <1>1, RangeAppend, AppendProperties, LenProperties
  <1>3. /\ trap_thread_pipe'[t] = Append(q, s)
        /\ \A u \in Thread : u # t => trap_thread_pipe'[u] = trap_thread_pipe[u]
        /\ trap_thread_pipe' \in [Thread -> Seq(AnySlot)]
    BY <1>1, <1>2
  <1> QED BY <1>2, <1>3 DEF Pipe

LEMMA TriggerKeeps ==
  ASSUME IInv, NEW k \in Task, Trigger(k)
  PROVE  IInv'
  <1> USE Names DEF IInv, Pipe
  <1> DEFINE s == at[k]
             t == trap_thread_index
  <1>1. /\ task[k] = "store" /\ task' = [task EXCEPT ![k] = "wait"]
        /\ trap_thread_pipe' = [trap_thread_pipe EXCEPT ![t] = Append(@, s)]
        /\ trap_thread_index' = (t + 1) % Slots
        /\ UNCHANGED <<at, status, contexts, unit_pipe, workers, interrupt>>
    BY DEF Trigger, TaskGoes
  <1>2. s \in Slot /\ t \in Slot /\ t # Send /\ s # Send /\ t \in Thread /\ s \in AnySlot
    BY <1>1 DEF TaskInv, TypeOK
  <1>3. /\ ~Used(s) /\ ~ready[s]
        /\ \A u \in Thread : s \notin Pipe(u)
        /\ s \notin Range(unit_pipe) /\ \A w \in Worker : on[w] # s
    BY <1>1 DEF TaskInv, Used, Queued, Pipe
  <1> HIDE DEF s, t
  <1>4. /\ trap_thread_pipe' \in [Thread -> Seq(AnySlot)]
        /\ \A u \in Thread : \A r : r \in Pipe(u)' <=> r \in Pipe(u) \/ (u = t /\ r = s)
        /\ \A u \in Thread : u # t => trap_thread_pipe'[u] = trap_thread_pipe[u]
        /\ IsInjective(trap_thread_pipe'[t])
    BY <1>1, <1>2, <1>3, Written DEF PipeInv
  <1>5. \A r : Used(r)' <=> Used(r) \/ r = s
    BY <1>1, <1>2, <1>4 DEF Used, Queued, Pipe, workers
  <1>6. TypeOK'
    <2>1. trap_thread_index' \in Slot
      BY <1>1, <1>2, HardwareAssumption DEF Slot
    <2> QED BY <1>1, <1>4, <2>1 DEF TypeOK, status, contexts, workers, interrupt
  <1>7. TaskInv'
    <2>1. ASSUME NEW l \in Task, task'[l] = "store" PROVE ~Used(at[l])' /\ ~ready[at[l]]
      <3>1. task[l] = "store" /\ l # k
        BY <2>1, <1>1 DEF TypeOK
      <3>2. at[l] # s
        BY <3>1, <1>2 DEF TaskInv, s
      <3> QED BY <3>1, <3>2, <1>1, <1>5 DEF TaskInv
    <2>2. ASSUME NEW l \in Task
          PROVE  /\ task'[l] = "run" <=> task[l] = "run"
                 /\ task'[l] = "command" <=> task[l] = "command"
      BY <1>1 DEF TypeOK
    <2> QED BY <1>1, <2>1, <2>2 DEF TaskInv, status
  <1>8. UsedInv'
    <2> SUFFICES ASSUME NEW r \in Slot, Used(r)'
                 PROVE  ~ready[r] /\ \E l \in Task : at[l] = r /\ task'[l] # "store"
      BY <1>1 DEF UsedInv, status
    <2>1. CASE r = s
      BY <2>1, <1>1, <1>3 DEF TypeOK, s
    <2>2. CASE r # s
      BY <2>2, <1>1, <1>5 DEF UsedInv, TypeOK
    <2> QED BY <2>1, <2>2
  <1>9. PipeInv'
    <2>1. UnderWay' = UnderWay
      BY <1>1, <1>2, <1>4 DEF UnderWay, workers
    <2>2. \A u \in Thread : IsInjective(trap_thread_pipe[u])'
      BY <1>4 DEF PipeInv
    <2>3. ASSUME NEW u \in Thread, NEW v \in Thread, NEW r \in AnySlot,
                 r \in Pipe(u)', r \in Pipe(v)'
          PROVE  u = v
      <3>1. r \in Pipe(u) \/ (u = t /\ r = s)
        BY <2>3, <1>4
      <3>2. r \in Pipe(v) \/ (v = t /\ r = s)
        BY <2>3, <1>4
      <3> QED BY <3>1, <3>2, <1>3 DEF PipeInv
    <2>4. \A u \in Thread : \A r \in Pipe(u)' : (r = Send <=> u = Send) /\ r \notin Range(unit_pipe)
      BY <1>2, <1>3, <1>4 DEF PipeInv
    <2>5. \A u \in Thread, w \in Worker : on[w] \notin Pipe(u)'
      BY <1>3, <1>4 DEF PipeInv
    <2> QED BY <1>1, <2>1, <2>2, <2>3, <2>4, <2>5 DEF PipeInv, workers
  <1>10. WorkerInv' /\ ContextInv' /\ CommandInv'
    BY <1>1 DEF WorkerInv, ContextInv, CommandInv, Spins, GivenAway, workers, contexts,
                status, interrupt
  <1> QED BY <1>6, <1>7, <1>8, <1>9, <1>10

LEMMA TrapCallbackKeeps ==
  ASSUME IInv, Callbacks <= 1, TrapCallback
  PROVE  IInv'
  <1> USE Names DEF IInv, Pipe
  <1>1. /\ second' = [second EXCEPT ![Send] = "none"]
        /\ locked' = [locked EXCEPT ![Send] = TRUE] /\ ready' = [ready EXCEPT ![Send] = FALSE]
        /\ trap_thread_pipe' = [trap_thread_pipe EXCEPT ![Send] = Append(@, Send)]
        /\ UNCHANGED <<amiga, contexts, trap_thread_index, unit_pipe, workers, interrupt>>
    BY DEF TrapCallback
  <1>2. /\ Len(trap_thread_pipe[Send]) = 0 /\ place[Send] = "read" /\ on[Send] = None
        /\ trap_thread_pipe[Send] = <<>>
    <2>1. Len(trap_thread_pipe[Send]) \in Nat /\ UnderWay < 1
      BY HardwareAssumption, LenProperties DEF TrapCallback, TypeOK, UnderWay
    <2> QED BY <2>1, EmptySeq DEF UnderWay, WorkerInv, TypeOK
  <1>3. /\ \A u \in Thread : Send \notin Pipe(u)
        /\ Send \notin Range(unit_pipe) /\ \A w \in Worker : on[w] # Send
    BY <1>2, EmptyRange, PipeTypes DEF PipeInv, WorkerInv, Pipe
  <1>4. /\ trap_thread_pipe' \in [Thread -> Seq(AnySlot)]
        /\ \A u \in Thread : \A r : r \in Pipe(u)' <=> r \in Pipe(u) \/ (u = Send /\ r = Send)
        /\ \A u \in Thread : u # Send => trap_thread_pipe'[u] = trap_thread_pipe[u]
        /\ IsInjective(trap_thread_pipe'[Send])
        /\ Len(trap_thread_pipe'[Send]) = 1
    <2>1. IsInjective(trap_thread_pipe[Send])
      BY DEF PipeInv
    <2>2. Send \notin Pipe(Send) /\ 0 + 1 = 1
      BY <1>3
    <2> QED BY <1>1, <1>2, <2>1, <2>2, Written
  <1>5. \A r : r # Send => (Used(r)' <=> Used(r))
    BY <1>1, <1>4 DEF Used, Queued, Pipe, workers
  <1>6. second[Send] = "none" /\ second' = second
    BY <1>1, <1>3 DEF CommandInv, Spins, TypeOK
  <1>7. TypeOK'
    BY <1>1, <1>4, <1>6 DEF TypeOK, amiga, contexts, workers, interrupt
  <1>8. TaskInv'
    <2>1. \A k \in Task : at[k] # Send
      BY DEF TypeOK
    <2> QED BY <2>1, <1>1, <1>5, <1>6 DEF TaskInv, TypeOK, amiga
  <1>9. UsedInv'
    BY <1>1, <1>5 DEF UsedInv, TypeOK, amiga
  <1>10. PipeInv'
    <2>1. UnderWay' <= 1
      BY <1>1, <1>2, <1>4 DEF UnderWay, workers
    <2>2. \A u \in Thread : IsInjective(trap_thread_pipe[u])'
      BY <1>4 DEF PipeInv
    <2>3. \A u, v \in Thread : \A r \in AnySlot : (r \in Pipe(u) /\ r \in Pipe(v))' => u = v
      BY <1>3, <1>4 DEF PipeInv
    <2>4. \A u \in Thread : \A r \in Pipe(u)' : (r = Send <=> u = Send) /\ r \notin Range(unit_pipe)
      BY <1>3, <1>4 DEF PipeInv
    <2>5. \A u \in Thread, w \in Worker : on[w] \notin Pipe(u)'
      BY <1>3, <1>4 DEF PipeInv
    <2> QED BY <1>1, <2>1, <2>2, <2>3, <2>4, <2>5 DEF PipeInv, workers
  <1>11. WorkerInv' /\ ContextInv' /\ CommandInv'
    BY <1>1, <1>6 DEF WorkerInv, ContextInv, CommandInv, Spins, GivenAway, workers, contexts,
                interrupt
  <1> QED BY <1>7, <1>8, <1>9, <1>10, <1>11

LEMMA ReadKeeps ==
  ASSUME IInv, NEW t \in Thread, Read(t)
  PROVE  IInv'
  <1> USE Names DEF IInv, Pipe
  <1> DEFINE q == trap_thread_pipe[t]
             s == Head(q)
  <1>1. /\ place[t] = "read" /\ place' = [place EXCEPT ![t] = "handler"] /\ q # <<>>
        /\ trap_thread_pipe' = [trap_thread_pipe EXCEPT ![t] = Tail(@)]
        /\ on' = [on EXCEPT ![t] = s] /\ second' = [second EXCEPT ![s] = "none"]
        /\ UNCHANGED <<task, at, locked, ready, background, done, trap_thread_index,
                       unit_pipe, made, hwtrap_waiting, uae_int_requested, checking>>
    BY DEF Read, Goes, amiga, contexts, interrupt
  <1>2. q \in Seq(AnySlot) /\ trap_thread_pipe \in [Thread -> Seq(AnySlot)] /\ IsInjective(q)
    BY DEF TypeOK, PipeInv
  <1>3. /\ Tail(q) \in Seq(AnySlot) /\ s \in AnySlot
        /\ Len(Tail(q)) = Len(q) - 1 /\ Len(q) \in Nat
        /\ Range(q) = Range(Tail(q)) \cup {s}
        /\ IsInjective(Tail(q)) /\ s \notin Range(Tail(q))
    BY <1>1, <1>2, RangeTail
  <1>4. /\ trap_thread_pipe' \in [Thread -> Seq(AnySlot)]
        /\ trap_thread_pipe'[t] = Tail(q)
        /\ \A u \in Thread : u # t => trap_thread_pipe'[u] = trap_thread_pipe[u]
    BY <1>1, <1>2, <1>3
  <1>5. /\ s \in Pipe(t) /\ \A u \in Thread : s \in Pipe(u) => u = t
        /\ s = Send <=> t = Send
        /\ s \notin Range(unit_pipe) /\ \A w \in Worker : on[w] # s
    BY <1>3 DEF PipeInv
  <1> HIDE DEF s
  <1>6. \A u \in Thread : \A r : r \in Pipe(u)' <=> r \in Pipe(u) /\ r # s
    <2> SUFFICES ASSUME NEW u \in Thread, NEW r
                 PROVE  r \in Pipe(u)' <=> r \in Pipe(u) /\ r # s
      OBVIOUS
    <2>1. CASE u = t
      BY <2>1, <1>3, <1>4
    <2>2. CASE u # t
      BY <2>2, <1>4, <1>5
    <2> QED BY <2>1, <2>2
  <1>7. /\ on[t] = None /\ s # None /\ second[s] = "none" /\ second' = second
        /\ ~GivenAway(s) /\ ~done[s]
    <2>1. on[t] = None /\ s # None /\ ~GivenAway(s)
      BY <1>1, <1>3, <1>5 DEF WorkerInv, GivenAway
    <2>2. second[s] = "none" /\ ~done[s]
      BY <2>1, <1>3, <1>5 DEF CommandInv, ContextInv, Spins
    <2> QED BY <2>1, <2>2, <1>1 DEF TypeOK
  <1>8. /\ \A w \in Worker : on'[w] = IF w = t THEN s ELSE on[w]
        /\ \A w \in Worker : place'[w] = IF w = t THEN "handler" ELSE place[w]
    BY <1>1 DEF TypeOK
  <1>9. /\ \A r \in AnySlot : Used(r)' <=> Used(r)
        /\ \A r : GivenAway(r)' <=> GivenAway(r)
    <2> SUFFICES ASSUME NEW r \in AnySlot PROVE Used(r)' <=> Used(r)
      BY <1>1, <1>8 DEF GivenAway
    <2>1. CASE r = s
      BY <2>1, <1>5, <1>8 DEF Used, Queued
    <2>2. CASE r # s
      BY <2>2, <1>1, <1>6, <1>7, <1>8 DEF Used, Queued
    <2> QED BY <2>1, <2>2
  <1>10. TypeOK'
    <2>1. on' \in [Worker -> AnySlot \cup {None}]
      BY <1>1, <1>3 DEF TypeOK
    <2> QED BY <1>1, <1>4, <1>7, <2>1 DEF TypeOK
  <1>11. TaskInv'
    <2>1. ASSUME NEW k \in Task, task[k] = "store" PROVE ~Used(at[k])'
      BY <2>1, <1>1, <1>9 DEF TaskInv, TypeOK
    <2> QED BY <1>1, <1>7, <2>1 DEF TaskInv
  <1>12. UsedInv'
    BY <1>1, <1>9 DEF UsedInv
  <1>13. PipeInv'
    <2>1. UnderWay' <= 1
      <3>1. CASE t = Send
        BY <3>1, <1>1, <1>3, <1>4, <1>8 DEF UnderWay, PipeInv
      <3>2. CASE t # Send
        BY <3>2, <1>4, <1>8 DEF UnderWay, PipeInv
      <3> QED BY <3>1, <3>2
    <2>2. \A u \in Thread : IsInjective(trap_thread_pipe[u])'
      BY <1>3, <1>4 DEF PipeInv
    <2>3. \A u, v \in Thread : \A r \in AnySlot : (r \in Pipe(u) /\ r \in Pipe(v))' => u = v
      BY <1>6 DEF PipeInv
    <2>4. \A u \in Thread : \A r \in Pipe(u)' : (r = Send <=> u = Send) /\ r \notin Range(unit_pipe)
      BY <1>6 DEF PipeInv
    <2>5. \A u \in Thread, w \in Worker : on'[w] \notin Pipe(u)'
      BY <1>6, <1>8 DEF PipeInv
    <2> QED BY <1>1, <1>8, <2>1, <2>2, <2>3, <2>4, <2>5 DEF PipeInv
  <1>14. WorkerInv'
    BY <1>5, <1>7, <1>8 DEF WorkerInv
  <1>15. ContextInv'
    BY <1>1, <1>5, <1>7, <1>8, <1>9 DEF ContextInv, WorkerInv
  <1>16. CommandInv'
    <2>1. ASSUME NEW r \in AnySlot, NEW w \in Worker PROVE Spins(w, r)' <=> Spins(w, r)
      BY <1>1, <1>8 DEF Spins
    <2>2. place'[Send] \in {"request", "post"} <=> place[Send] \in {"request", "post"}
      BY <1>1, <1>8
    <2> QED BY <1>1, <1>7, <2>1, <2>2 DEF CommandInv
  <1> QED BY <1>10, <1>11, <1>12, <1>13, <1>14, <1>15, <1>16

\* The thread of the unit gets a slot, which its maker still holds.
LEMMA GiveAwayKeeps ==
  ASSUME IInv, NEW t \in Thread, GiveAway(t)
  PROVE  IInv'
  <1> USE Names DEF IInv, Pipe
  <1> DEFINE s == on[t]
  <1>1. /\ t # Send /\ place[t] = "handler" /\ place' = [place EXCEPT ![t] = "return"]
        /\ background' = [background EXCEPT ![s] = TRUE]
        /\ unit_pipe' = Append(unit_pipe, s)
        /\ UNCHANGED <<amiga, status, done, trap_thread_index, trap_thread_pipe, on, made,
                       interrupt>>
    BY DEF GiveAway, Goes
  <1>2. /\ s \in Slot /\ \A v \in Worker : v # t /\ on[v] = s => place[v] \in {"return", "done"}
        /\ ~GivenAway(s) /\ s \notin Range(unit_pipe) /\ s # on[Unit] /\ s # None
        /\ \A u \in Thread : s \notin Pipe(u)
        /\ \A u \in Thread : u # t => on[u] # s
        /\ ~done[s]
    <2>1. s \in AnySlot /\ s # None /\ s # Send
      BY <1>1, Alone DEF WorkerInv
    <2>2. ~GivenAway(s) /\ ~done[s]
      BY <1>1, <2>1 DEF ContextInv
    <2> QED BY <1>1, <2>1, <2>2, Alone DEF GivenAway, PipeInv, WorkerInv
  <1>3. unit_pipe \in Seq(Slot) /\ IsInjective(unit_pipe)
    BY DEF TypeOK, PipeInv
  <1> HIDE DEF s
  <1>4. /\ unit_pipe' \in Seq(Slot) /\ IsInjective(unit_pipe')
        /\ Range(unit_pipe') = Range(unit_pipe) \cup {s}
    BY <1>1, <1>2, <1>3, RangeAppend
  <1>5. \A r : r \in Range(unit_pipe') <=> r \in Range(unit_pipe) \/ r = s
    BY <1>4
  <1>6. \A w \in Worker : place'[w] = IF w = t THEN "return" ELSE place[w]
    BY <1>1 DEF TypeOK
  <1>7. /\ \A r : Used(r)' <=> Used(r)
        /\ \A r : GivenAway(r)' <=> GivenAway(r) \/ r = s
    <2>1. \A r : GivenAway(r)' <=> GivenAway(r) \/ r = s
      BY <1>1, <1>5 DEF GivenAway
    <2>2. ASSUME NEW r PROVE Used(r)' <=> Used(r)
      <3>1. CASE r = s
        BY <3>1, <1>1 DEF Used, s
      <3>2. CASE r # s
        BY <3>2, <1>1, <1>5 DEF Used, Queued
      <3> QED BY <3>1, <3>2
    <2> QED BY <2>1, <2>2
  <1>8. TypeOK'
    BY <1>1, <1>4 DEF TypeOK, amiga, status, interrupt
  <1>9. TaskInv'
    BY <1>1, <1>7 DEF TaskInv, amiga, status
  <1>10. UsedInv'
    BY <1>1, <1>7 DEF UsedInv, amiga, status
  <1>11. PipeInv'
    <2>1. UnderWay' <= 1
      BY <1>1, <1>6 DEF UnderWay, PipeInv
    <2> QED BY <1>1, <1>2, <1>4, <1>5, <2>1 DEF PipeInv
  <1>12. WorkerInv'
    BY <1>1, <1>6 DEF WorkerInv
  <1>13. ContextInv'
    <2>1. ASSUME NEW u \in Thread, on[u] # None
          PROVE  GivenAway(on[u])' <=> place'[u] \in {"return", "done"}
      <3>1. CASE u = t
        BY <3>1, <1>1, <1>6, <1>7 DEF s
      <3>2. CASE u # t
        BY <3>2, <2>1, <1>1, <1>2, <1>6, <1>7 DEF ContextInv
      <3> QED BY <3>1, <3>2
    <2>2. ASSUME NEW u \in Thread, place'[u] = "return" PROVE background'[on[u]]
      <3>1. on[u] \in AnySlot
        <4>1. CASE u = t
          BY <4>1, <1>2 DEF s
        <4>2. CASE u # t
          BY <4>2, <2>2, <1>6 DEF TypeOK, WorkerInv
        <4> QED BY <4>1, <4>2
      <3>2. u = t => on[u] = s
        BY DEF s
      <3>3. on[u] # s => u # t /\ background[on[u]]
        BY <2>2, <3>2, <1>6 DEF ContextInv
      <3> QED BY <3>1, <3>3, <1>1 DEF TypeOK
    <2>3. \A r \in AnySlot : done[r] => GivenAway(r)' /\ \A u \in Thread : on[u] # r
      BY <1>7 DEF ContextInv
    <2> QED BY <1>1, <2>1, <2>2, <2>3 DEF ContextInv
  <1>14. CommandInv'
    <2>1. ASSUME NEW r \in AnySlot, NEW w \in Worker PROVE Spins(w, r)' <=> Spins(w, r)
      BY <1>1, <1>6 DEF Spins
    <2>2. place'[Send] \in {"request", "post"} <=> place[Send] \in {"request", "post"}
      BY <1>1, <1>6
    <2> QED BY <1>1, <2>1, <2>2 DEF CommandInv, status, interrupt
  <1> QED BY <1>8, <1>9, <1>10, <1>11, <1>12, <1>13, <1>14

LEMMA IsBackgroundKeeps ==
  ASSUME IInv, NEW t \in Thread, IsBackground(t)
  PROVE  IInv'
  <1> USE Names DEF IInv, Pipe
  <1>1. /\ place[t] = "return" /\ place' = [place EXCEPT ![t] = "done"]
        /\ UNCHANGED <<amiga, status, contexts, pipes, on, made, interrupt>>
    BY DEF IsBackground, Goes
  <1>2. \A w \in Worker : place'[w] = IF w = t THEN "done" ELSE place[w]
    BY <1>1 DEF TypeOK
  <1>3. t # Send /\ t # Unit
    BY <1>1 DEF WorkerInv
  <1>4. \A r : Used(r)' = Used(r) /\ GivenAway(r)' = GivenAway(r)
    BY <1>1, SameHolding DEF Holding, pipes
  <1>5. TypeOK' /\ TaskInv' /\ UsedInv'
    BY <1>1, <1>4 DEF TypeOK, TaskInv, UsedInv, amiga, status, contexts, pipes, interrupt
  <1>6. PipeInv'
    <2>1. UnderWay' = UnderWay
      BY <1>1, <1>2, <1>3 DEF UnderWay, pipes
    <2> QED BY <1>1, <2>1 DEF PipeInv, pipes
  <1>7. WorkerInv'
    BY <1>1, <1>2, <1>3 DEF WorkerInv
  <1>8. ContextInv'
    BY <1>1, <1>2, <1>4 DEF ContextInv, contexts
  <1>9. CommandInv'
    <2>1. ASSUME NEW r \in AnySlot, NEW w \in Worker PROVE Spins(w, r)' <=> Spins(w, r)
      BY <1>1, <1>2 DEF Spins
    <2> QED BY <1>1, <1>2, <1>3, <2>1 DEF CommandInv, status, interrupt
  <1> QED BY <1>5, <1>6, <1>7, <1>8, <1>9

LEMMA SetCompleteKeeps ==
  ASSUME IInv, Prompt, SetComplete
  PROVE  IInv'
  <1> USE Names DEF IInv, Pipe
  <1>1. /\ place[Unit] = "handler" /\ place' = [place EXCEPT ![Unit] = "complete"]
        /\ background' = [background EXCEPT ![on[Unit]] = FALSE]
        /\ \A t \in Thread : place[t] = "return" => on[t] # on[Unit]
        /\ UNCHANGED <<amiga, status, done, pipes, on, made, interrupt>>
    BY DEF SetComplete, Goes, Returning
  <1>2. \A w \in Worker : place'[w] = IF w = Unit THEN "complete" ELSE place[w]
    BY <1>1 DEF TypeOK
  <1>4. \A r : Used(r)' = Used(r) /\ GivenAway(r)' = GivenAway(r)
    BY <1>1, SameHolding DEF Holding, pipes
  <1>5. TypeOK' /\ TaskInv' /\ UsedInv'
    <2>1. TypeOK'
      BY <1>1 DEF TypeOK, amiga, status, pipes, interrupt
    <2>2. TaskInv' /\ UsedInv'
      BY <1>1, <1>4 DEF TaskInv, UsedInv, amiga, status
    <2> QED BY <2>1, <2>2
  <1>6. PipeInv'
    <2>1. UnderWay' = UnderWay
      BY <1>1, <1>2 DEF UnderWay, pipes
    <2> QED BY <1>1, <2>1 DEF PipeInv, pipes
  <1>7. WorkerInv'
    BY <1>1, <1>2 DEF WorkerInv
  <1>8. ContextInv'
    <2>1. ASSUME NEW u \in Thread, place[u] = "return" PROVE background'[on[u]]
      BY <2>1, <1>1 DEF ContextInv, WorkerInv, TypeOK
    <2> QED BY <1>1, <1>2, <1>4, <2>1 DEF ContextInv
  <1>9. CommandInv'
    <2>1. ASSUME NEW r \in AnySlot, NEW w \in Worker PROVE Spins(w, r)' <=> Spins(w, r)
      BY <1>1, <1>2 DEF Spins
    <2> QED BY <1>1, <1>2, <2>1 DEF CommandInv, status, interrupt
  <1> QED BY <1>5, <1>6, <1>7, <1>8, <1>9

LEMMA UnitReadsKeeps ==
  ASSUME IInv, UnitReads
  PROVE  IInv'
  <1> USE Names DEF IInv, Pipe
  <1> DEFINE s == Head(unit_pipe)
  <1>1. /\ place[Unit] = "read" /\ place' = [place EXCEPT ![Unit] = "handler"]
        /\ unit_pipe # <<>> /\ unit_pipe' = Tail(unit_pipe)
        /\ on' = [on EXCEPT ![Unit] = s]
        /\ UNCHANGED <<amiga, status, contexts, trap_thread_index, trap_thread_pipe, made,
                       interrupt>>
    BY DEF UnitReads, Goes
  <1>2. unit_pipe \in Seq(Slot) /\ IsInjective(unit_pipe)
    BY DEF TypeOK, PipeInv
  <1>3. /\ Tail(unit_pipe) \in Seq(Slot) /\ s \in Slot
        /\ Range(unit_pipe) = Range(Tail(unit_pipe)) \cup {s}
        /\ IsInjective(Tail(unit_pipe)) /\ s \notin Range(Tail(unit_pipe))
    BY <1>1, <1>2, RangeTail
  <1> HIDE DEF s
  <1>4. \A r : r \in Range(unit_pipe) <=> r \in Range(unit_pipe') \/ r = s
    BY <1>1, <1>3
  <1>5. /\ on[Unit] = None /\ s # None
        /\ \A u \in Thread : s \notin Pipe(u)
    BY <1>1, <1>3, <1>4 DEF WorkerInv, PipeInv
  <1>6. /\ \A w \in Worker : on'[w] = IF w = Unit THEN s ELSE on[w]
        /\ \A w \in Worker : place'[w] = IF w = Unit THEN "handler" ELSE place[w]
    BY <1>1 DEF TypeOK
  <1>7. \A r \in AnySlot : (GivenAway(r)' <=> GivenAway(r)) /\ (Used(r)' <=> Used(r))
    <2> SUFFICES ASSUME NEW r \in AnySlot
                 PROVE  (GivenAway(r)' <=> GivenAway(r)) /\ (Used(r)' <=> Used(r))
      OBVIOUS
    <2>1. GivenAway(r)' <=> GivenAway(r)
      BY <1>4, <1>5, <1>6 DEF GivenAway
    <2>2. Used(r)' <=> Used(r)
      <3>1. CASE r = s
        BY <3>1, <1>4, <1>6 DEF Used, Queued
      <3>2. CASE r # s
        BY <3>2, <1>1, <1>4, <1>5, <1>6 DEF Used, Queued
      <3> QED BY <3>1, <3>2
    <2> QED BY <2>1, <2>2
  <1>8. TypeOK'
    <2>1. on' \in [Worker -> AnySlot \cup {None}]
      BY <1>1, <1>3 DEF TypeOK
    <2> QED BY <1>1, <1>3, <2>1 DEF TypeOK, amiga, status, contexts, interrupt
  <1>9. TaskInv'
    <2>1. ASSUME NEW k \in Task, task[k] = "store" PROVE ~Used(at[k])'
      BY <2>1, <1>1, <1>7 DEF TaskInv, TypeOK, amiga
    <2> QED BY <1>1, <2>1 DEF TaskInv, amiga, status
  <1>10. UsedInv'
    BY <1>1, <1>7 DEF UsedInv, amiga, status
  <1>11. PipeInv'
    <2>1. UnderWay' <= 1
      BY <1>1, <1>6 DEF UnderWay, PipeInv
    <2>2. on'[Unit] \notin Range(unit_pipe')
      BY <1>1, <1>3, <1>6
    <2>3. \A u \in Thread, w \in Worker : on'[w] \notin Pipe(u)'
      BY <1>1, <1>5, <1>6 DEF PipeInv
    <2>4. \A u \in Thread : \A r \in Pipe(u)' : (r = Send <=> u = Send) /\ r \notin Range(unit_pipe')
      BY <1>1, <1>4 DEF PipeInv
    <2> QED BY <1>1, <1>3, <2>1, <2>2, <2>3, <2>4 DEF PipeInv
  <1>12. WorkerInv'
    BY <1>3, <1>5, <1>6 DEF WorkerInv
  <1>13. ContextInv'
    <2>1. ASSUME NEW u \in Thread, on[u] # None
          PROVE  GivenAway(on[u])' <=> place[u] \in {"return", "done"}
      <3>1. on[u] \in AnySlot /\ on'[u] = on[u]
        BY <2>1, <1>6 DEF TypeOK
      <3> QED BY <2>1, <3>1, <1>7 DEF ContextInv
    <2>2. \A u \in Thread : place'[u] = "return" => background'[on'[u]]
      BY <1>1, <1>6 DEF ContextInv, contexts
    <2>3. \A r \in AnySlot : done'[r] => GivenAway(r)' /\ \A u \in Thread : on'[u] # r
      BY <1>1, <1>6, <1>7 DEF ContextInv, contexts
    <2> QED BY <1>6, <2>1, <2>2, <2>3 DEF ContextInv
  <1>14. CommandInv'
    <2>1. ASSUME NEW r \in AnySlot, NEW w \in Worker PROVE Spins(w, r)' <=> Spins(w, r)
      BY <1>1, <1>6 DEF Spins
    <2> QED BY <1>1, <1>6, <2>1 DEF CommandInv, status, interrupt
  <1> QED BY <1>8, <1>9, <1>10, <1>11, <1>12, <1>13, <1>14

\* A thread lets go of its slot: the thread of a trap that was given away, or, with
\* the acknowledgement, the last one that holds it.
LEMMA LetGo ==
  ASSUME IInv, NEW w \in Worker, place[w] \notin {"read", "spin", "request", "post"},
         place' = [place EXCEPT ![w] = "read"],
         on' = [on EXCEPT ![w] = None], made' = [made EXCEPT ![w] = 0],
         UNCHANGED <<amiga, locked, second, pipes, interrupt>>
  PROVE  /\ on[w] \in AnySlot
         /\ \A v \in Worker : on'[v] = IF v = w THEN None ELSE on[v]
         /\ \A v \in Worker : place'[v] = IF v = w THEN "read" ELSE place[v]
         /\ on' \in [Worker -> AnySlot \cup {None}]
         /\ place' \in [Worker -> {"read", "handler", "return", "done", "request", "post",
                                   "spin", "complete"}]
         /\ made' \in [Worker -> 0 .. Commands]
         /\ \A r \in AnySlot : Used(r)' => Used(r)
         /\ PipeInv' /\ WorkerInv' /\ CommandInv'
  <1> USE Names DEF IInv, Pipe
  <1>1. on[w] \in AnySlot
    BY DEF TypeOK, WorkerInv
  <1>2. /\ \A v \in Worker : on'[v] = IF v = w THEN None ELSE on[v]
        /\ \A v \in Worker : place'[v] = IF v = w THEN "read" ELSE place[v]
    BY DEF TypeOK
  <1>3. on' \in [Worker -> AnySlot \cup {None}] /\ made' \in [Worker -> 0 .. Commands]
    BY HardwareAssumption DEF TypeOK
  <1>4. place' \in [Worker -> {"read", "handler", "return", "done", "request", "post",
                               "spin", "complete"}]
    BY DEF TypeOK
  <1>5. \A r \in AnySlot : Used(r)' => Used(r)
    BY <1>2 DEF Used, Queued, pipes
  <1>6. PipeInv'
    <2>1. UnderWay' <= 1
      <3> DEFINE n == Len(trap_thread_pipe[Send])
      <3>1. n \in Nat
        BY LenProperties DEF TypeOK
      <3>2. trap_thread_pipe' = trap_thread_pipe
        BY DEF pipes
      <3>3. /\ UnderWay = n + (IF place[Send] = "read" THEN 0 ELSE 1)
            /\ UnderWay' = n + (IF place'[Send] = "read" THEN 0 ELSE 1)
        BY <3>2 DEF UnderWay
      <3>4. place[Send] = "read" => place'[Send] = "read"
        BY <1>2
      <3>5. UnderWay <= 1
        BY DEF PipeInv
      <3> HIDE DEF n, IInv
      <3> QED BY <3>1, <3>3, <3>4, <3>5
    <2>2. \A u \in Thread : None \notin Pipe(u)
      BY PipeTypes
    <2>3. None \notin Range(unit_pipe)
      BY PipeTypes
    <2> QED BY <1>2, <2>1, <2>2, <2>3 DEF PipeInv, pipes
  <1>7. WorkerInv'
    BY <1>2 DEF WorkerInv
  <1>8. CommandInv'
    <2>1. ASSUME NEW r \in AnySlot, NEW v \in Worker PROVE Spins(v, r)' <=> Spins(v, r)
      BY <1>2 DEF Spins
    <2> QED BY <1>2, <2>1 DEF CommandInv, interrupt
  <1> QED BY <1>1, <1>2, <1>3, <1>4, <1>5, <1>6, <1>7, <1>8

LEMMA TrapDoneKeeps ==
  ASSUME IInv, NEW t \in Thread, TrapDone(t)
  PROVE  IInv'
  <1> USE Names DEF IInv
  <1> DEFINE s == on[t]
  <1>1. /\ place[t] = "done" /\ place' = [place EXCEPT ![t] = "read"]
        /\ done' = [done EXCEPT ![s] = TRUE]
        /\ on' = [on EXCEPT ![t] = None] /\ made' = [made EXCEPT ![t] = 0]
        /\ UNCHANGED <<amiga, status, background, pipes, interrupt>>
    BY DEF TrapDone, Goes
  <1>2. /\ s \in AnySlot
        /\ \A v \in Worker : on'[v] = IF v = t THEN None ELSE on[v]
        /\ \A v \in Worker : place'[v] = IF v = t THEN "read" ELSE place[v]
        /\ on' \in [Worker -> AnySlot \cup {None}]
        /\ place' \in [Worker -> {"read", "handler", "return", "done", "request", "post",
                                  "spin", "complete"}]
        /\ made' \in [Worker -> 0 .. Commands]
        /\ \A r \in AnySlot : Used(r)' => Used(r)
        /\ PipeInv' /\ WorkerInv' /\ CommandInv'
    BY <1>1, LetGo DEF status
  <1>3. GivenAway(s) /\ \A u \in Thread : u # t => on[u] # s
    BY <1>1, <1>2 DEF ContextInv, WorkerInv
  <1> HIDE DEF s
  <1>4. \A r : GivenAway(r)' <=> GivenAway(r)
    BY <1>1, <1>2 DEF GivenAway, pipes
  <1>5. TypeOK'
    <2>1. done' \in [AnySlot -> BOOLEAN]
      BY <1>1 DEF TypeOK
    <2> QED BY <1>1, <1>2, <2>1 DEF TypeOK, amiga, status, pipes, interrupt
  <1>6. TaskInv'
    <2>1. ASSUME NEW k \in Task, task[k] = "store" PROVE ~Used(at[k])'
      BY <2>1, <1>1, <1>2 DEF TaskInv, TypeOK, amiga
    <2> QED BY <1>1, <2>1 DEF TaskInv, amiga, status
  <1>7. UsedInv'
    BY <1>1, <1>2 DEF UsedInv, amiga, status
  <1>8. ContextInv'
    <2>1. ASSUME NEW r \in AnySlot, done'[r]
          PROVE  GivenAway(r)' /\ \A u \in Thread : on'[u] # r
      <3>1. CASE r = s
        BY <3>1, <1>2, <1>3, <1>4
      <3>2. CASE r # s
        BY <3>2, <2>1, <1>1, <1>2, <1>4 DEF ContextInv, TypeOK
      <3> QED BY <3>1, <3>2
    <2>2. ASSUME NEW u \in Thread, on'[u] # None
          PROVE  GivenAway(on[u])' <=> place'[u] \in {"return", "done"}
      <3>1. on[u] # None /\ on'[u] = on[u] /\ place'[u] = place[u]
        BY <2>2, <1>2
      <3> QED BY <3>1, <1>4 DEF ContextInv
    <2>3. \A u \in Thread : place'[u] = "return" => background'[on'[u]]
      BY <1>1, <1>2 DEF ContextInv
    <2> QED BY <2>1, <2>2, <2>3 DEF ContextInv
  <1> QED BY <1>2, <1>5, <1>6, <1>7, <1>8

\* The acknowledgement, by the last thread that holds the slot.
LEMMA AcknowledgeKeeps ==
  ASSUME IInv, NEW w \in Worker, NEW from \in {"handler", "complete"},
         NEW s \in AnySlot, s = on[w],
         Acknowledge(w, from), UNCHANGED <<amiga, locked, second, pipes, interrupt>>,
         w \in Thread => ~GivenAway(s),
         w = Unit => done[s]
  PROVE  IInv'
  <1> USE Names DEF IInv
  <1>1. /\ place[w] = from /\ place' = [place EXCEPT ![w] = "read"]
        /\ ready' = [ready EXCEPT ![s] = TRUE]
        /\ on' = [on EXCEPT ![w] = None] /\ made' = [made EXCEPT ![w] = 0]
        /\ background' = [background EXCEPT ![s] = FALSE]
        /\ done' = [done EXCEPT ![s] = FALSE]
    BY DEF Acknowledge, Goes
  <1>2. /\ \A v \in Worker : on'[v] = IF v = w THEN None ELSE on[v]
        /\ \A v \in Worker : place'[v] = IF v = w THEN "read" ELSE place[v]
        /\ on' \in [Worker -> AnySlot \cup {None}]
        /\ place' \in [Worker -> {"read", "handler", "return", "done", "request", "post",
                                  "spin", "complete"}]
        /\ made' \in [Worker -> 0 .. Commands]
        /\ \A r \in AnySlot : Used(r)' => Used(r)
        /\ PipeInv' /\ WorkerInv' /\ CommandInv'
    BY <1>1, LetGo
  <1>3. /\ s # None /\ s \notin Range(unit_pipe) /\ \A u \in Thread : s \notin Pipe(u)
        /\ \A v \in Worker : v # w => on[v] # s
    <2>1. CASE w \in Thread
      BY <2>1, <1>2 DEF GivenAway, PipeInv, WorkerInv
    <2>2. CASE w = Unit
      BY <2>2, <1>2 DEF ContextInv, PipeInv
    <2> QED BY <2>1, <2>2
  <1>4. ~Used(s)' /\ ~GivenAway(s)'
    <2>1. \A v \in Worker : on'[v] # s
      BY <1>2, <1>3
    <2> QED BY <1>3, <2>1 DEF Used, Queued, GivenAway, Pipe, pipes
  <1>5. \A r \in AnySlot : r # s => (GivenAway(r)' <=> GivenAway(r))
    BY <1>2 DEF GivenAway, pipes
  <1>6. TypeOK'
    <2>1. /\ ready' \in [AnySlot -> BOOLEAN] /\ background' \in [AnySlot -> BOOLEAN]
          /\ done' \in [AnySlot -> BOOLEAN]
      BY <1>1 DEF TypeOK
    <2> QED BY <1>2, <2>1 DEF TypeOK, amiga, pipes, interrupt
  <1>7. Used(s)
    BY DEF Used
  <1>8. TaskInv'
    <2>1. ASSUME NEW k \in Task, task[k] = "store" PROVE ~Used(at[k])' /\ ~ready'[at[k]]
      <3>1. at[k] \in AnySlot /\ ~Used(at[k]) /\ ~ready[at[k]]
        BY <2>1 DEF TaskInv, TypeOK
      <3>2. at[k] # s
        BY <3>1, <1>7
      <3> QED BY <3>1, <3>2, <1>1, <1>2 DEF amiga, TypeOK
    <2> QED BY <2>1 DEF TaskInv, amiga
  <1>9. UsedInv'
    <2> SUFFICES ASSUME NEW r \in Slot, Used(r)'
                 PROVE  ~ready'[r] /\ \E k \in Task : at[k] = r /\ task[k] # "store"
      BY DEF UsedInv, amiga
    <2>1. r # s /\ Used(r)
      BY <1>2, <1>4
    <2> QED BY <2>1, <1>1 DEF UsedInv, TypeOK
  <1>10. ContextInv'
    <2>1. ASSUME NEW u \in Thread, on'[u] # None
          PROVE  /\ u # w /\ on'[u] = on[u] /\ place'[u] = place[u]
                 /\ on[u] # s /\ on[u] \in AnySlot
      BY <2>1, <1>2, <1>3 DEF TypeOK
    <2>2. ASSUME NEW u \in Thread, on'[u] # None
          PROVE  GivenAway(on[u])' <=> place'[u] \in {"return", "done"}
      BY <2>1, <2>2, <1>5 DEF ContextInv
    <2>3. ASSUME NEW u \in Thread, place'[u] = "return" PROVE background'[on'[u]]
      <3>1. on'[u] # None
        BY <2>3, <1>2 DEF WorkerInv
      <3> QED BY <2>1, <2>3, <3>1, <1>1 DEF ContextInv, TypeOK
    <2>4. ASSUME NEW r \in AnySlot, done'[r]
          PROVE  GivenAway(r)' /\ \A u \in Thread : on'[u] # r
      <3>1. r # s /\ done[r]
        BY <2>4, <1>1 DEF TypeOK
      <3> QED BY <3>1, <1>2, <1>5 DEF ContextInv
    <2> QED BY <2>2, <2>3, <2>4 DEF ContextInv
  <1> QED BY <1>2, <1>6, <1>8, <1>9, <1>10

LEMMA EndTrapKeeps ==
  ASSUME IInv, NEW t \in Thread, EndTrap(t)
  PROVE  IInv'
  <1> USE Names DEF IInv
  <1>1. /\ ~background[on[t]] /\ place[t] \in {"handler", "return"}
        /\ UNCHANGED <<amiga, locked, second, pipes, interrupt>>
    BY DEF EndTrap, InForeground, Acknowledge, Goes
  <1>2. Acknowledge(t, "handler") /\ place[t] = "handler"
    BY <1>1 DEF EndTrap, ContextInv, Acknowledge, Goes
  <1>3. on[t] \in AnySlot /\ ~GivenAway(on[t])
    BY <1>2 DEF ContextInv, WorkerInv, TypeOK
  <1> QED BY <1>1, <1>2, <1>3, AcknowledgeKeeps

LEMMA CompleteAckKeeps ==
  ASSUME IInv, CompleteAck
  PROVE  IInv'
  <1> USE Names DEF IInv
  <1>1. /\ Acknowledge(Unit, "complete") /\ done[on[Unit]] /\ place[Unit] = "complete"
        /\ UNCHANGED <<amiga, locked, second, pipes, interrupt>>
    BY DEF CompleteAck, Acknowledge, Goes
  <1>2. on[Unit] \in AnySlot
    BY <1>1 DEF WorkerInv, TypeOK
  <1> QED BY <1>1, <1>2, AcknowledgeKeeps
-----------------------------------------------------------------------------
\* The inductive invariant: which task, pipe or thread has a slot, and what waits in it.
THEOREM Invariance ==
  ASSUME Prompt, Callbacks <= 1
  PROVE  Spec => []IInv
  <1>1. IInv /\ [Next]_vars => IInv'
    <2> SUFFICES ASSUME IInv, [Next]_vars PROVE IInv'
      OBVIOUS
    <2>1. ASSUME NEW k \in Task, NEW s \in Slot, LockSlot(k, s) PROVE IInv'
      BY <2>1, LockSlotKeeps
    <2>2. ASSUME NEW k \in Task, InTrap(k) PROVE IInv'
      BY <2>2, TriggerKeeps, TakeCommandKeeps, LeaveKeeps DEF InTrap
    <2>3. ASSUME NEW t \in Thread, HardwareTrapThread(t) \/ GiveAway(t) PROVE IInv'
      <3>1. t \in Worker
        BY Names
      <3> QED BY <2>3, <3>1, ReadKeeps, TrapBackKeeps, EndTrapKeeps, IsBackgroundKeeps,
                 TrapDoneKeeps, GiveAwayKeeps DEF HardwareTrapThread
    <2>4. CASE UnitThread
      <3>1. Unit \in Worker
        BY Names
      <3> QED BY <2>4, <3>1, UnitReadsKeeps, TrapBackKeeps, SetCompleteKeeps,
                 CompleteAckKeeps DEF UnitThread
    <2>5. CASE TrapCallback
      BY <2>5, TrapCallbackKeeps
    <2>6. CASE NothingWaits \/ Emulation \/ UNCHANGED vars
      BY <2>6, EmulationKeeps DEF Emulation
    <2> QED BY <2>1, <2>2, <2>3, <2>4, <2>5, <2>6 DEF Next
  <1> QED BY <1>1, InvInit, PTL DEF Spec

\* Types hold: in particular no handler sends more commands than it may, and the next
\* thread is always one of those that the slots have.
THEOREM TypeCorrect ==
  ASSUME Prompt, Callbacks <= 1
  PROVE  Spec => []TypeOK
  BY Invariance, PTL DEF IInv

\* hardware_trap_ack comes last: the task that goes on finds no thread of the host
\* with its slot.
THEOREM LastIsReady ==
  ASSUME Prompt, Callbacks <= 1
  PROVE  Spec => []ReadyIsDone
  <1>1. IInv => ReadyIsDone
    BY DEF IInv, UsedInv, ReadyIsDone
  <1> QED BY <1>1, Invariance, PTL

\* One thread waits for the answer to a command, and hwtrap_waiting counts those
\* that the interrupt has to answer.
THEOREM CommandsCounted ==
  ASSUME Prompt, Callbacks <= 1
  PROVE  Spec => []CommandsAgree
  <1> USE Names
  <1>1. ASSUME IInv, NEW s \in AnySlot
        PROVE  Cardinality({w \in Worker : on[w] = s /\ place[w] = "spin"})
                 = IF second[s] = "none" THEN 0 ELSE 1
    <2> DEFINE S == {w \in Worker : on[w] = s /\ place[w] = "spin"}
    <2>1. CASE second[s] = "none"
      <3>1. S = {}
        BY <2>1, <1>1 DEF IInv, CommandInv, Spins
      <3> QED BY <2>1, <3>1, FS_EmptySet
    <2>2. CASE second[s] # "none"
      <3>1. PICK w \in Worker : on[w] = s /\ place[w] = "spin"
        BY <2>2, <1>1 DEF IInv, CommandInv, Spins
      <3>2. S = {w}
        BY <3>1, <1>1, Alone
      <3> HIDE DEF S
      <3>3. Cardinality(S) = 1
        BY <3>2, FS_Singleton
      <3> QED BY <2>2, <3>3 DEF S
    <2> QED BY <2>1, <2>2
  <1>2. ASSUME IInv PROVE WaitingCounts
    <2> DEFINE S == {s \in AnySlot : second[s] = "interrupt"}
               W == {w \in Worker : place[w] \in {"request", "post"}}
    <2>1. Cardinality(S) = IF second[Send] = "interrupt" THEN 1 ELSE 0
      <3>1. S = IF second[Send] = "interrupt" THEN {Send} ELSE {}
        BY <1>2 DEF IInv, CommandInv
      <3> HIDE DEF S
      <3> QED BY <3>1, FS_EmptySet, FS_Singleton
    <2>2. Cardinality(W) = IF place[Send] \in {"request", "post"} THEN 1 ELSE 0
      <3>1. W = IF place[Send] \in {"request", "post"} THEN {Send} ELSE {}
        BY <1>2 DEF IInv, WorkerInv
      <3> HIDE DEF W
      <3> QED BY <3>1, FS_EmptySet, FS_Singleton
    <2> QED BY <1>2, <2>1, <2>2 DEF IInv, CommandInv, WaitingCounts
  <1>3. IInv => CommandsAgree
    BY <1>1, <1>2 DEF CommandsAgree, OneCommand
  <1> QED BY <1>3, Invariance, PTL
-----------------------------------------------------------------------------
(* No trap is forgotten, and none waits for another: the safe part of      *)
(* TrapsReturn and CallbacksEnd.                                           *)

\* A task waits for a slot that is ready, or that the host has.
WaitInv == \A k \in Task : task[k] \in {"wait", "command"} => ready[at[k]] \/ Used(at[k])

\* A context that is marked has been given away, and one that was given away is marked as
\* done once its maker has let go of it.
MarkInv == /\ \A s \in AnySlot : background[s] => GivenAway(s)
           /\ \A s \in Slot : GivenAway(s) => done[s] \/ \E t \in Thread : on[t] = s

\* A command that was taken is with a task; the slot for sending is locked while it is used.
TakenInv == \A s \in AnySlot :
              second[s] = "taken" => \E k \in Task : at[k] = s /\ task[k] = "command"
SendInv == ~locked[Send] => trap_thread_pipe[Send] = <<>> /\ place[Send] = "read"

HeldInv == WaitInv /\ MarkInv /\ TakenInv /\ SendInv

\* Steps of the Amiga that leave the pipes alone.
LEMMA TaskHeld ==
  ASSUME IInv, HeldInv, NEW k \in Task,
         (\E s \in Slot : LockSlot(k, s)) \/ TakeCommand(k) \/ Answer(k) \/ Leave(k)
  PROVE  HeldInv'
  <1> USE Names DEF HeldInv
  <1>1. /\ UNCHANGED <<contexts, pipes, workers, Holding>>
        /\ \A r : Used(r)' = Used(r) /\ GivenAway(r)' = GivenAway(r)
    <2>1. UNCHANGED <<contexts, pipes, workers, Holding>>
      BY DEF LockSlot, TakeCommand, Answer, Leave, pipes, workers, Holding
    <2> QED BY <2>1, SameHolding
  <1>2. MarkInv'
    BY <1>1 DEF MarkInv, contexts, Holding
  <1>3. /\ task \in [Task -> {"run", "store", "wait", "command"}]
        /\ at \in [Task -> Slot \cup {None}] /\ \A l \in Task : at[l] # Send
        /\ second \in [AnySlot -> {"none", "task", "taken", "interrupt", "done"}]
        /\ locked \in [AnySlot -> BOOLEAN] /\ ready \in [AnySlot -> BOOLEAN]
        /\ \A l \in Task : /\ task[l] # "run" => at[l] \in Slot /\ locked[at[l]]
                           /\ at[l] # None /\ at[l] = at[k] => l = k
    BY DEF IInv, TypeOK, TaskInv
  <1>4. ASSUME NEW s \in Slot, LockSlot(k, s) PROVE HeldInv'
    <2>1. /\ task[k] = "run" /\ ~locked[s] /\ task' = [task EXCEPT ![k] = "store"]
          /\ at' = [at EXCEPT ![k] = s] /\ locked' = [locked EXCEPT ![s] = TRUE]
          /\ ready' = [ready EXCEPT ![s] = FALSE] /\ second' = second
      BY <1>4 DEF LockSlot, TaskGoes
    <2>2. WaitInv' /\ TakenInv'
      BY <1>1, <1>3, <2>1 DEF WaitInv, TakenInv
    <2>3. SendInv'
      BY <1>1, <1>3, <2>1 DEF SendInv, pipes, workers
    <2> QED BY <1>2, <2>2, <2>3
  <1>5. CASE TakeCommand(k)
    <2>1. /\ task[k] = "wait" /\ task' = [task EXCEPT ![k] = "command"]
          /\ second' = [second EXCEPT ![at[k]] = "taken"] /\ UNCHANGED <<at, locked, ready>>
      BY <1>5 DEF TakeCommand, TaskGoes
    <2>2. WaitInv' /\ TakenInv'
      BY <1>1, <1>3, <2>1 DEF WaitInv, TakenInv
    <2> QED BY <1>1, <1>2, <2>1, <2>2 DEF SendInv, pipes, workers
  <1>6. CASE Answer(k)
    <2>1. /\ task[k] = "command" /\ task' = [task EXCEPT ![k] = "wait"]
          /\ second' = [second EXCEPT ![at[k]] = "done"] /\ UNCHANGED <<at, locked, ready>>
      BY <1>6 DEF Answer, TaskGoes
    <2>2. WaitInv' /\ TakenInv'
      BY <1>1, <1>3, <2>1 DEF WaitInv, TakenInv
    <2> QED BY <1>1, <1>2, <2>1, <2>2 DEF SendInv, pipes, workers
  <1>7. CASE Leave(k)
    <2>1. /\ task[k] = "wait" /\ task' = [task EXCEPT ![k] = "run"]
          /\ at' = [at EXCEPT ![k] = None] /\ locked' = [locked EXCEPT ![at[k]] = FALSE]
          /\ ready' = [ready EXCEPT ![at[k]] = FALSE] /\ second' = second
      BY <1>7 DEF Leave, TaskGoes
    <2>2. WaitInv' /\ TakenInv'
      BY <1>1, <1>3, <2>1 DEF WaitInv, TakenInv
    <2>3. SendInv'
      BY <1>1, <1>3, <2>1 DEF SendInv, pipes, workers
    <2> QED BY <1>2, <2>2, <2>3
  <1> QED BY <1>4, <1>5, <1>6, <1>7

\* Commands, their answers by the interrupt, and the marks of a context.
LEMMA CommandHeld ==
  ASSUME IInv, HeldInv, NEW w \in Worker,
         \/ TrapBack(w) \/ (w \in Thread /\ IsBackground(w)) \/ (w = Unit /\ SetComplete)
         \/ Emulation \/ NothingWaits \/ UNCHANGED vars
  PROVE  HeldInv'
  <1> USE Names DEF HeldInv
  <1>1. /\ UNCHANGED <<amiga, locked, ready, done, pipes, on, Holding>>
        /\ \A s \in AnySlot : background'[s] => background[s]
        /\ \A s \in AnySlot : second'[s] = "taken" => second[s] = "taken"
        /\ place[Send] # place'[Send] => place[Send] # "read"
    <2>1. CASE TrapBack(w)
      <3>1. on[w] \in AnySlot
        BY <2>1, Alone DEF TrapBack, Answered, AskTask, Count, Request, Post, Goes
      <3>2. /\ UNCHANGED <<amiga, locked, ready, contexts, pipes, on>>
            /\ \/ second' = second
               \/ \E c \in {"none", "task", "interrupt"} : second' = [second EXCEPT ![on[w]] = c]
            /\ place[w] # "read" /\ \A v \in Worker : v # w => place'[v] = place[v]
        <4>1. \E to : place[w] # "read" /\ place' = [place EXCEPT ![w] = to]
          BY <2>1 DEF TrapBack, Answered, AskTask, Count, Request, Post, Goes
        <4>2. \A v \in Worker : v # w => place'[v] = place[v]
          BY <4>1 DEF IInv, TypeOK
        <4>3. \/ second' = second
              \/ \E c \in {"none", "task", "interrupt"} : second' = [second EXCEPT ![on[w]] = c]
          <5>1. CASE Post(w)
            <6>1. w = Send /\ on[w] = Send
              BY <5>1, <3>1 DEF Post, Goes, IInv, WorkerInv
            <6> QED BY <5>1, <6>1 DEF Post
          <5> QED BY <2>1, <5>1 DEF TrapBack, Answered, AskTask, Count, Request, status
        <4>4. UNCHANGED <<amiga, locked, ready, contexts, pipes, on>>
          BY <2>1 DEF TrapBack, Answered, AskTask, Count, Request, Post, status
        <4> QED BY <4>1, <4>2, <4>3, <4>4
      <3> QED BY <3>1, <3>2 DEF contexts, pipes, Holding, IInv, TypeOK
    <2>2. CASE (w \in Thread /\ IsBackground(w)) \/ (w = Unit /\ SetComplete)
      <3>1. /\ UNCHANGED <<amiga, status, done, pipes, on>>
            /\ background' = background \/ background' = [background EXCEPT ![on[Unit]] = FALSE]
            /\ place[w] # "read" /\ \A v \in Worker : v # w => place'[v] = place[v]
        BY <2>2 DEF IsBackground, SetComplete, Goes, contexts, IInv, TypeOK
      <3> QED BY <3>1 DEF status, pipes, Holding, IInv, TypeOK
    <2>3. CASE Emulation \/ NothingWaits \/ UNCHANGED vars
      BY <2>3 DEF Emulation, SetInt, ClearInt, Interrupt, NothingWaits, vars, amiga, status,
                  contexts, pipes, workers, Holding, IInv, TypeOK
    <2> QED BY <2>1, <2>2, <2>3
  <1>2. \A r : Used(r)' = Used(r) /\ GivenAway(r)' = GivenAway(r)
    BY <1>1, SameHolding
  <1>3. WaitInv' /\ TakenInv'
    BY <1>1, <1>2 DEF WaitInv, TakenInv, amiga
  <1>4. MarkInv' /\ SendInv'
    BY <1>1, <1>2 DEF MarkInv, SendInv, pipes
  <1> QED BY <1>3, <1>4

\* Slots that go into a pipe ...
LEMMA WriteHeld ==
  ASSUME IInv, HeldInv, TrapCallback \/ \E k \in Task : Trigger(k)
  PROVE  HeldInv'
  <1> USE Names DEF HeldInv
  <1>1. PICK t \in Thread, s \in AnySlot :
          /\ trap_thread_pipe' = [trap_thread_pipe EXCEPT ![t] = Append(@, s)]
          /\ UNCHANGED <<at, contexts, unit_pipe, workers>>
          /\ \A r \in Slot : locked'[r] = locked[r] /\ ready'[r] = ready[r] /\ second'[r] = second[r]
          /\ t = Send => locked'[Send]
          /\ locked[Send] => locked'[Send]
          /\ second'[Send] = "taken" => second[Send] = "taken"
          /\ \A k \in Task : \/ task'[k] = task[k]
                             \/ task[k] = "store" /\ task'[k] = "wait" /\ at[k] = s
    <2>1. CASE TrapCallback
      BY <2>1 DEF TrapCallback, IInv, TypeOK, amiga, contexts, workers
    <2>2. ASSUME NEW k \in Task, Trigger(k)
          PROVE  \E t \in Thread, s \in AnySlot :
                   /\ trap_thread_pipe' = [trap_thread_pipe EXCEPT ![t] = Append(@, s)]
                   /\ t # Send /\ UNCHANGED <<at, status, contexts, unit_pipe, workers>>
                   /\ \A l \in Task : \/ task'[l] = task[l]
                                      \/ task[l] = "store" /\ task'[l] = "wait" /\ at[l] = s
      <3>1. task[k] = "store" /\ task' = [task EXCEPT ![k] = "wait"]
        BY <2>2 DEF Trigger, TaskGoes
      <3>2. at[k] \in AnySlot /\ trap_thread_index \in Thread /\ trap_thread_index # Send
        BY <3>1 DEF IInv, TypeOK, TaskInv
      <3>3. \A l \in Task : \/ task'[l] = task[l]
                            \/ task[l] = "store" /\ task'[l] = "wait" /\ at[l] = at[k]
        BY <3>1 DEF IInv, TypeOK
      <3> QED BY <2>2, <3>2, <3>3 DEF Trigger
    <2> QED BY <2>1, <2>2 DEF status
  <1>2. /\ \A u \in Thread : \A r : r \in Pipe(u)' <=> r \in Pipe(u) \/ (u = t /\ r = s)
        /\ \A u \in Thread : u # t => trap_thread_pipe'[u] = trap_thread_pipe[u]
    BY <1>1, Written DEF IInv
  <1>3. \A r : Used(r) \/ r = s => Used(r)'
    BY <1>1, <1>2 DEF Used, Queued, Pipe, workers
  <1>4. WaitInv'
    <2> SUFFICES ASSUME NEW k \in Task, task'[k] \in {"wait", "command"}
                 PROVE  ready'[at[k]] \/ Used(at[k])'
      BY <1>1 DEF WaitInv
    <2>1. at[k] \in Slot
      BY <1>1 DEF IInv, TaskInv, TypeOK
    <2> QED BY <1>1, <1>3, <2>1 DEF WaitInv
  <1>5. MarkInv'
    BY <1>1 DEF MarkInv, GivenAway, contexts, workers
  <1>6. TakenInv'
    <2> SUFFICES ASSUME NEW r \in AnySlot, second'[r] = "taken"
                 PROVE  \E k \in Task : at[k] = r /\ task'[k] = "command"
      BY <1>1 DEF TakenInv
    <2>1. second[r] = "taken"
      BY <1>1
    <2>2. PICK k \in Task : at[k] = r /\ task[k] = "command"
      BY <2>1 DEF TakenInv
    <2> QED BY <1>1, <2>2
  <1>7. SendInv'
    BY <1>1, <1>2 DEF SendInv, workers
  <1> QED BY <1>4, <1>5, <1>6, <1>7

\* ... and out of one ...
LEMMA ReadHeld ==
  ASSUME IInv, HeldInv, UnitReads \/ \E t \in Thread : Read(t)
  PROVE  HeldInv'
  <1> USE Names DEF HeldInv
  <1>1. CASE UnitReads
    <2> DEFINE s == Head(unit_pipe)
    <2>1. /\ unit_pipe # <<>> /\ unit_pipe' = Tail(unit_pipe) /\ place[Unit] = "read"
          /\ on' = [on EXCEPT ![Unit] = s] /\ place' = [place EXCEPT ![Unit] = "handler"]
          /\ UNCHANGED <<amiga, status, contexts, trap_thread_pipe>>
      BY <1>1 DEF UnitReads, Goes
    <2>2. Range(unit_pipe) = Range(Tail(unit_pipe)) \cup {s} /\ s \in Slot
      BY <2>1, RangeTail DEF IInv, TypeOK
    <2> HIDE DEF s
    <2>3. /\ on[Unit] = None /\ \A w \in Worker : on'[w] = IF w = Unit THEN s ELSE on[w]
          /\ place'[Send] = place[Send]
      BY <2>1 DEF IInv, WorkerInv, TypeOK
    <2>4. /\ \A r \in AnySlot : GivenAway(r)' <=> GivenAway(r)
          /\ \A r \in AnySlot : Used(r) => Used(r)'
      BY <2>1, <2>2, <2>3 DEF GivenAway, Used, Queued
    <2>5. WaitInv'
      BY <2>1, <2>4 DEF WaitInv, IInv, TaskInv, TypeOK, amiga, status
    <2>6. MarkInv'
      BY <2>1, <2>3, <2>4 DEF MarkInv, contexts
    <2>7. TakenInv' /\ SendInv'
      BY <2>1, <2>3 DEF TakenInv, SendInv, amiga, status
    <2> QED BY <2>5, <2>6, <2>7
  <1>2. ASSUME NEW t \in Thread, Read(t) PROVE HeldInv'
    <2> DEFINE q == trap_thread_pipe[t]
               s == Head(q)
    <2>1. /\ q # <<>> /\ trap_thread_pipe' = [trap_thread_pipe EXCEPT ![t] = Tail(@)]
          /\ place[t] = "read" /\ place' = [place EXCEPT ![t] = "handler"]
          /\ on' = [on EXCEPT ![t] = s] /\ second' = [second EXCEPT ![s] = "none"]
          /\ UNCHANGED <<amiga, locked, ready, contexts, unit_pipe>>
      BY <1>2 DEF Read, Goes
    <2>2. /\ Range(q) = Range(Tail(q)) \cup {s} /\ s \in AnySlot
          /\ \A u \in Thread : trap_thread_pipe'[u] = IF u = t THEN Tail(q) ELSE trap_thread_pipe[u]
      BY <2>1, RangeTail DEF IInv, TypeOK
    <2>3. /\ on[t] = None /\ \A w \in Worker : on'[w] = IF w = t THEN s ELSE on[w]
          /\ \A w \in Worker : w # t => place'[w] = place[w]
      BY <2>1 DEF IInv, WorkerInv, TypeOK
    <2>4. t = Send => locked[Send]
      BY <2>1 DEF SendInv
    <2> HIDE DEF s
    <2>5. \A r \in AnySlot : Used(r) => Used(r)'
      <3> SUFFICES ASSUME NEW r \in AnySlot, Used(r) PROVE Used(r)'
        OBVIOUS
      <3>1. CASE \E u \in Thread : r \in Range(trap_thread_pipe[u])
        <4>1. PICK u \in Thread : r \in Range(trap_thread_pipe[u])
          BY <3>1
        <4>2. CASE u = t /\ r = s
          BY <2>3, <4>2 DEF Used
        <4>3. CASE ~(u = t /\ r = s)
          BY <2>2, <4>1, <4>3 DEF Used, Queued
        <4> QED BY <4>2, <4>3
      <3>2. CASE r \in Range(unit_pipe)
        BY <2>1, <3>2 DEF Used, Queued
      <3>3. CASE \E w \in Worker : on[w] = r
        BY <2>3, <3>3 DEF Used
      <3> QED BY <3>1, <3>2, <3>3 DEF Used, Queued
    <2>6. WaitInv'
      BY <2>1, <2>5 DEF WaitInv, IInv, TaskInv, TypeOK, amiga
    <2>7. MarkInv'
      BY <2>1, <2>3 DEF MarkInv, GivenAway, contexts
    <2>8. TakenInv'
      BY <2>1, <2>2 DEF TakenInv, IInv, TypeOK, amiga
    <2>9. SendInv'
      BY <2>1, <2>2, <2>3, <2>4 DEF SendInv
    <2> QED BY <2>6, <2>7, <2>8, <2>9
  <1> QED BY <1>1, <1>2

\* ... and those that are given away ...
LEMMA GiveAwayHeld ==
  ASSUME IInv, HeldInv, NEW t \in Thread, GiveAway(t)
  PROVE  HeldInv'
  <1> USE Names DEF HeldInv
  <1> DEFINE s == on[t]
  <1>1. /\ t # Send /\ place[t] = "handler" /\ place' = [place EXCEPT ![t] = "return"]
        /\ background' = [background EXCEPT ![s] = TRUE]
        /\ unit_pipe' = Append(unit_pipe, s)
        /\ UNCHANGED <<amiga, status, done, trap_thread_pipe, on>>
    BY DEF GiveAway, Goes
  <1>2. s \in Slot
    BY <1>1 DEF IInv, WorkerInv, TypeOK
  <1>3. Range(unit_pipe') = Range(unit_pipe) \cup {s}
    BY <1>1, <1>2, RangeAppend DEF IInv, TypeOK
  <1>4. /\ \A r : Used(r) => Used(r)'
        /\ \A r : GivenAway(r)' <=> GivenAway(r) \/ r = s
    <2> HIDE DEF s
    <2> QED BY <1>1, <1>3 DEF Used, Queued, GivenAway
  <1>5. WaitInv' /\ TakenInv'
    BY <1>1, <1>4 DEF WaitInv, TakenInv, amiga, status
  <1>6. MarkInv'
    BY <1>1, <1>4 DEF MarkInv, IInv, TypeOK
  <1>7. SendInv'
    BY <1>1 DEF SendInv, IInv, TypeOK, status
  <1> QED BY <1>5, <1>6, <1>7

\* ... or let go of.
LEMMA LetGoHeld ==
  ASSUME IInv, HeldInv,
         CompleteAck \/ \E t \in Thread : TrapDone(t) \/ EndTrap(t)
  PROVE  HeldInv'
  <1> USE Names DEF HeldInv
  <1>1. PICK w \in Worker :
          /\ place[w] \notin {"read", "spin", "request", "post"}
          /\ place' = [place EXCEPT ![w] = "read"]
          /\ on' = [on EXCEPT ![w] = None] /\ made' = [made EXCEPT ![w] = 0]
          /\ UNCHANGED <<amiga, locked, second, pipes, interrupt>>
          /\ \/ /\ w \in Thread /\ place[w] = "done" /\ UNCHANGED <<ready, background>>
                /\ done' = [done EXCEPT ![on[w]] = TRUE]
             \/ /\ w = Unit \/ (w \in Thread /\ place[w] \in {"handler", "return"}
                                  /\ ~background[on[w]])
                /\ ready' = [ready EXCEPT ![on[w]] = TRUE]
                /\ background' = [background EXCEPT ![on[w]] = FALSE]
                /\ done' = [done EXCEPT ![on[w]] = FALSE]
    <2>1. CASE CompleteAck
      BY <2>1 DEF CompleteAck, Acknowledge, Goes
    <2>2. ASSUME NEW t \in Thread, TrapDone(t) \/ EndTrap(t) PROVE t \in Worker
      OBVIOUS
    <2> QED BY <2>1, <2>2 DEF TrapDone, EndTrap, Acknowledge, Goes, InForeground, status
  <1>2. PICK s \in AnySlot :
          s = on[w] /\ \A v \in Worker : on'[v] = IF v = w THEN None ELSE on[v]
    BY <1>1, LetGo
  <1>3. \A r : r # s /\ Used(r) => Used(r)'
    BY <1>1, <1>2 DEF Used, Queued, pipes
  <1>4. TakenInv' /\ SendInv'
    BY <1>1 DEF TakenInv, SendInv, IInv, TypeOK, amiga, pipes
  <1>5. \A k \in Task : task[k] \in {"wait", "command"} => at[k] \in Slot
    BY DEF IInv, TaskInv, TypeOK
  <1>6. CASE w \in Thread /\ place[w] = "done" /\ UNCHANGED <<ready, background>>
             /\ done' = [done EXCEPT ![s] = TRUE]
    <2>1. GivenAway(s) /\ on'[Unit] = on[Unit]
      BY <1>2, <1>6 DEF IInv, ContextInv, WorkerInv
    <2>2. \A r : GivenAway(r)' <=> GivenAway(r)
      BY <1>1, <2>1 DEF GivenAway, pipes
    <2>3. Used(s)'
      <3>1. s \in Range(unit_pipe)' \/ on'[Unit] = s
        BY <2>1, <2>2 DEF GivenAway
      <3>2. Unit \in Worker
        OBVIOUS
      <3> QED BY <3>1, <3>2 DEF Used, Queued
    <2>4. WaitInv'
      <3>1. UNCHANGED <<task, at, ready>>
        BY <1>1, <1>6 DEF amiga
      <3>2. \A r : Used(r) => Used(r)'
        BY <1>3, <2>3
      <3> SUFFICES ASSUME NEW k \in Task, task'[k] \in {"wait", "command"}
                   PROVE  ready'[at[k]] \/ Used(at[k])'
        BY <3>1 DEF WaitInv
      <3> QED BY <3>1, <3>2 DEF WaitInv
    <2>5. MarkInv'
      <3>1. \A r \in AnySlot : done'[r] = (done[r] \/ r = s)
        BY <1>6, <1>2 DEF IInv, TypeOK
      <3>2. \A r \in Slot : (\E t \in Thread : on[t] = r) => r = s \/ \E t \in Thread : on'[t] = r
        BY <1>2
      <3> QED BY <1>6, <2>2, <3>1, <3>2 DEF MarkInv
    <2> QED BY <1>4, <2>4, <2>5
  <1>7. CASE /\ w = Unit \/ (w \in Thread /\ place[w] \in {"handler", "return"} /\ ~background[s])
             /\ ready' = [ready EXCEPT ![s] = TRUE]
             /\ background' = [background EXCEPT ![s] = FALSE]
             /\ done' = [done EXCEPT ![s] = FALSE]
    <2>1. /\ ready \in [AnySlot -> BOOLEAN] /\ background \in [AnySlot -> BOOLEAN]
          /\ done \in [AnySlot -> BOOLEAN]
      BY DEF IInv, TypeOK
    <2>2. WaitInv'
      BY <1>1, <1>2, <1>3, <1>5, <1>7, <2>1 DEF WaitInv, amiga
    <2>3. ~GivenAway(s)' /\ \A r \in AnySlot : r # s => (GivenAway(r)' <=> GivenAway(r))
      <3>1. CASE w = Unit
        <4>1. s \notin Range(unit_pipe)
          BY <1>2, <3>1 DEF IInv, PipeInv
        <4>2. /\ on'[Unit] = None /\ on[Unit] = s /\ s # None
              /\ unit_pipe' = unit_pipe /\ \A r \in AnySlot : r # None
          BY <1>1, <1>2, <3>1 DEF pipes
        <4>3. ~GivenAway(s)'
          BY <4>1, <4>2 DEF GivenAway
        <4>4. \A r \in AnySlot : r # s => (GivenAway(r)' <=> GivenAway(r))
          BY <4>2 DEF GivenAway
        <4> QED BY <4>3, <4>4
      <3>2. CASE w # Unit
        <4>1. s # None /\ (GivenAway(s) <=> place[w] \in {"return", "done"})
              /\ (place[w] = "return" => background[s])
          BY <1>2, <1>7, <3>2 DEF IInv, ContextInv
        <4>2. ~GivenAway(s)
          BY <1>7, <3>2, <4>1
        <4>3. on'[Unit] = on[Unit] /\ unit_pipe' = unit_pipe
          BY <1>1, <1>2, <3>2 DEF pipes
        <4>4. \A r : GivenAway(r)' <=> GivenAway(r)
          BY <4>3 DEF GivenAway
        <4> QED BY <4>2, <4>4
      <3> QED BY <3>1, <3>2
    <2>4. MarkInv'
      <3>1. \A r \in Slot : r # s /\ (\E t \in Thread : on[t] = r) => \E t \in Thread : on'[t] = r
        BY <1>2
      <3>2. \A r \in AnySlot : /\ background'[r] = (background[r] /\ r # s)
                               /\ done'[r] = (done[r] /\ r # s)
        BY <1>2, <1>7, <2>1
      <3>3. \A r \in AnySlot : background'[r] => GivenAway(r)'
        BY <2>3, <3>2 DEF MarkInv
      <3>4. \A r \in Slot : GivenAway(r)' => done'[r] \/ \E t \in Thread : on'[t] = r
        BY <2>3, <3>1, <3>2 DEF MarkInv
      <3> QED BY <3>3, <3>4 DEF MarkInv
    <2> QED BY <1>4, <2>2, <2>4
  <1> QED BY <1>1, <1>2, <1>6, <1>7

LEMMA HeldInvariance ==
  ASSUME Prompt, Callbacks <= 1
  PROVE  Spec => []HeldInv
  <1>1. Init => HeldInv
    <2> SUFFICES ASSUME Init PROVE HeldInv
      OBVIOUS
    <2>1. \A s \in AnySlot : ~GivenAway(s)
      BY EmptyRange, Names DEF Init, GivenAway
    <2> QED BY <2>1, Names DEF Init, HeldInv, WaitInv, MarkInv, TakenInv, SendInv
  <1>2. IInv /\ HeldInv /\ [Next]_vars => HeldInv'
    <2> SUFFICES ASSUME IInv, HeldInv, [Next]_vars PROVE HeldInv'
      OBVIOUS
    <2> USE Names
    <2>1. ASSUME NEW k \in Task, (\E s \in Slot : LockSlot(k, s)) \/ InTrap(k) PROVE HeldInv'
      BY <2>1, TaskHeld, WriteHeld DEF InTrap
    <2>2. ASSUME NEW t \in Thread, HardwareTrapThread(t) \/ GiveAway(t) PROVE HeldInv'
      BY <2>2, ReadHeld, CommandHeld, LetGoHeld, GiveAwayHeld DEF HardwareTrapThread
    <2>3. CASE UnitThread
      BY <2>3, ReadHeld, CommandHeld, LetGoHeld DEF UnitThread
    <2>4. CASE TrapCallback
      BY <2>4, WriteHeld
    <2>5. CASE NothingWaits \/ Emulation \/ UNCHANGED vars
      BY <2>5, CommandHeld
    <2> QED BY <2>1, <2>2, <2>3, <2>4, <2>5 DEF Next
  <1> QED BY <1>1, <1>2, Invariance, PTL DEF Spec

\* A task of the Amiga that can go on, a thread of the host, or the emulation thread.
TaskMoves(k) == /\ AmigaRuns
                /\ \/ task[k] \in {"store", "command"}
                   \/ task[k] = "wait" /\ (ready[at[k]] \/ second[at[k]] = "task")
ThreadMoves(t) == \/ place[t] = "read" /\ trap_thread_pipe[t] # <<>>
                  \/ place[t] = "handler" /\ InForeground(t)
                  \/ place[t] \in {"return", "done", "request", "post"}
                  \/ place[t] = "spin" /\ second[on[t]] = "done"
UnitMoves == \/ place[Unit] = "read" /\ unit_pipe # <<>>
             \/ place[Unit] = "handler" /\ (Prompt => ~Returning(on[Unit]))
             \/ place[Unit] = "spin" /\ second[on[Unit]] = "done"
             \/ place[Unit] = "complete" /\ done[on[Unit]]
InterruptMoves == AmigaRuns /\ second[Send] = "interrupt" /\ locked[Send] /\ hwtrap_waiting # 0
SomeoneMoves ==
  (\E k \in Task : task[k] # "run") \/ UnderWay > 0
    => \/ \E k \in Task : TaskMoves(k)
       \/ \E t \in Thread : ThreadMoves(t)
       \/ UnitMoves \/ InterruptMoves
       \/ checking    \* ends with ClearInt

\* While a trap or a function of trap_callback is under way someone has a step to take that
\* brings it on: threads, tasks and the interrupt never all wait for each other, although a
\* trap goes to the next thread whether or not that one is busy.
THEOREM NoDeadlock ==
  ASSUME Prompt, Callbacks <= 1
  PROVE  Spec => []SomeoneMoves
  <1> USE Names
  <1>1. ASSUME IInv, HeldInv, ~checking, NEW w \in Worker, place[w] # "read"
        PROVE  \/ \E k \in Task : TaskMoves(k)
               \/ \E t \in Thread : ThreadMoves(t)
               \/ UnitMoves \/ InterruptMoves
    <2>1. on[w] \in AnySlot
      BY <1>1 DEF IInv, WorkerInv, TypeOK
    <2>2. CASE place[w] = "spin"
      <3>1. second[on[w]] # "none"
        BY <2>1, <2>2, <1>1 DEF IInv, CommandInv, Spins
      <3>2. CASE second[on[w]] = "done"
        BY <2>2, <3>2 DEF ThreadMoves, UnitMoves
      <3>3. CASE second[on[w]] = "interrupt"
        <4>1. on[w] = Send /\ second[Send] = "interrupt"
          BY <2>1, <3>3, <1>1 DEF IInv, CommandInv
        <4>2. hwtrap_waiting # 0
          BY <4>1, <1>1 DEF IInv, CommandInv
        <4>3. w = Send
          BY <4>1, <1>1 DEF IInv, WorkerInv
        <4>4. locked[Send]
          BY <4>3, <1>1 DEF HeldInv, SendInv
        <4> QED BY <1>1, <4>1, <4>2, <4>4 DEF InterruptMoves, AmigaRuns
      <3>4. CASE second[on[w]] = "taken"
        BY <2>1, <3>4, <1>1 DEF HeldInv, TakenInv, TaskMoves, AmigaRuns
      <3>5. CASE second[on[w]] = "task"
        <4>1. on[w] \in Slot /\ Used(on[w])
          BY <2>1, <3>5, <1>1 DEF IInv, CommandInv, Used
        <4>2. PICK k \in Task : at[k] = on[w] /\ task[k] # "store"
          BY <4>1, <1>1 DEF IInv, UsedInv
        <4>3. task[k] = "wait"
          <5>1. task[k] # "run"
            BY <4>1, <4>2, <1>1 DEF IInv, TaskInv
          <5>2. task[k] # "command"
            BY <4>2, <3>5, <1>1 DEF IInv, TaskInv
          <5>3. task[k] \in {"run", "store", "wait", "command"}
            BY <1>1 DEF IInv, TypeOK
          <5> QED BY <4>2, <5>1, <5>2, <5>3
        <4> QED BY <1>1, <3>5, <4>2, <4>3 DEF TaskMoves, AmigaRuns
      <3> QED BY <2>1, <3>1, <3>2, <3>3, <3>4, <3>5, <1>1 DEF IInv, TypeOK
    <2>3. CASE w \in Thread /\ place[w] # "spin"
      <3>1. place[w] = "handler" => InForeground(w)
        BY <2>1, <2>3, <1>1 DEF IInv, ContextInv, InForeground, HeldInv, MarkInv
      <3>2. place[w] \in {"handler", "return", "done", "request", "post"}
        BY <2>3, <1>1 DEF IInv, TypeOK, WorkerInv
      <3> QED BY <2>3, <3>1, <3>2 DEF ThreadMoves
    <2>4. CASE w = Unit /\ place[w] # "spin"
      <3>1. place[Unit] \in {"handler", "complete"}
        BY <2>4, <1>1 DEF IInv, TypeOK, WorkerInv
      <3>2. CASE place[Unit] = "handler"
        <4>1. CASE Returning(on[Unit])
          BY <4>1 DEF Returning, ThreadMoves
        <4>2. CASE ~Returning(on[Unit])
          BY <3>2, <4>2 DEF UnitMoves
        <4> QED BY <4>1, <4>2
      <3>3. CASE place[Unit] = "complete" /\ ~done[on[Unit]]
        <4>1. on[Unit] \in Slot /\ GivenAway(on[Unit])
          BY <2>1, <2>4, <1>1 DEF IInv, WorkerInv, GivenAway
        <4>2. PICK t \in Thread : on[t] = on[Unit]
          BY <3>3, <4>1, <1>1 DEF HeldInv, MarkInv
        <4>3. place[t] \in {"return", "done"}
          BY <4>1, <4>2, <1>1 DEF IInv, ContextInv
        <4> QED BY <4>3 DEF ThreadMoves
      <3> QED BY <3>1, <3>2, <3>3 DEF UnitMoves
    <2> QED BY <2>2, <2>3, <2>4
  <1>2. ASSUME IInv, HeldInv, NEW s \in AnySlot, Used(s)
        PROVE  \/ \E w \in Worker : place[w] # "read"
               \/ \E t \in Thread : ThreadMoves(t)
               \/ UnitMoves
    <2>1. ASSUME NEW t \in Thread, s \in Range(trap_thread_pipe[t])
          PROVE  place[t] # "read" \/ ThreadMoves(t)
      BY <2>1, EmptyRange DEF ThreadMoves
    <2>2. ASSUME s \in Range(unit_pipe) PROVE place[Unit] # "read" \/ UnitMoves
      BY <2>2, EmptyRange DEF UnitMoves
    <2>3. ASSUME NEW w \in Worker, on[w] = s PROVE place[w] # "read"
      BY <2>3, <1>2 DEF IInv, WorkerInv
    <2> QED BY <1>2, <2>1, <2>2, <2>3 DEF Used, Queued
  <1>3. ASSUME IInv, HeldInv, ~checking, NEW k \in Task, task[k] # "run"
        PROVE  TaskMoves(k) \/ \E s \in AnySlot : Used(s)
    <2>1. at[k] \in Slot
      BY <1>3 DEF IInv, TaskInv, TypeOK
    <2>2. CASE task[k] \in {"store", "command"}
      BY <1>3, <2>2 DEF TaskMoves, AmigaRuns
    <2>3. CASE task[k] = "wait"
      BY <1>3, <2>1, <2>3 DEF TaskMoves, AmigaRuns, HeldInv, WaitInv
    <2> QED BY <1>3, <2>2, <2>3 DEF IInv, TypeOK
  <1>4. ASSUME UnderWay > 0 PROVE place[Send] # "read" \/ ThreadMoves(Send)
    <2>1. CASE place[Send] = "read" /\ trap_thread_pipe[Send] = <<>>
      <3>1. Len(<<>>) = 0
        BY EmptySeq
      <3> QED BY <1>4, <2>1, <3>1 DEF UnderWay
    <2> QED BY <2>1 DEF ThreadMoves
  <1>5. IInv /\ HeldInv => SomeoneMoves
    BY <1>1, <1>2, <1>3, <1>4 DEF SomeoneMoves
  <1> QED BY <1>5, Invariance, HeldInvariance, PTL
=============================================================================
