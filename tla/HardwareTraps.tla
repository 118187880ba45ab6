--------------------------- MODULE HardwareTraps ---------------------------
(***************************************************************************)
(* Traps through the UAE board, traps.cpp and autoconf.cpp, for uaeboard   *)
(* above 2: the Amiga and the host meet in the slots of the board's        *)
(* memory.  A task of the Amiga locks a slot, stores its registers and     *)
(* writes the number of the trap, hwtrap_entry; the write starts the trap  *)
(* in one of the threads, which the host takes in turn.  The task polls    *)
(* the slot until the trap is acknowledged.  A handler has no access to    *)
(* the Amiga's memory: it writes a command into the slot, which the task,  *)
(* or the interrupt, carries out and answers.  It may also give the trap   *)
(* away to the thread of a unit, which acknowledges it later.              *)
(*                                                                         *)
(* One more slot and one more thread serve trap_callback, by which the     *)
(* emulation thread itself lets a function use the Amiga; its commands go  *)
(* through the interrupt.                                                  *)
(*                                                                         *)
(* The task polls, trap_mode being 0 in all the code sets, so the parts    *)
(* that serve mode 1 in other slots, the trap task and the Signal to a     *)
(* waiting task are left out, and so is the end of the threads.  Commands  *)
(* that call the Amiga's libraries are taken to come back without help     *)
(* from another trap.  A context is known by its slot; what the host does  *)
(* after the acknowledgement, to free it, is part of that step.            *)
(***************************************************************************)
EXTENDS Naturals, Sequences, FiniteSets, Functions

CONSTANTS Task,      \* tasks of the Amiga that run into traps
          Unit,      \* the thread of a unit of a file system or device
          Slots,     \* RTAREA_TRAP_DATA_NUM, 4
          Commands,  \* bound: commands of one handler, or of one unit's work
          Callbacks, \* bound: calls of trap_callback under way
          Busy,      \* bound: traps and callbacks under way, together
          Prompt,    \* the handler returns before the unit's thread is done
          None

ASSUME HardwareAssumption == /\ Slots \in Nat \ {0} /\ Commands \in Nat
                             /\ Callbacks \in Nat /\ Busy \in Nat /\ Prompt \in BOOLEAN
                             /\ {None, Unit} \cap (0 .. Slots) = {}

Slot == 0 .. Slots - 1
Send == Slots
AnySlot == Slot \cup {Send}
Thread == AnySlot            \* the threads have the numbers of the slots
Worker == Thread \cup {Unit}

VARIABLES
  task, at,            \* of each task: where it is in hwtrap_entry, and its slot
  locked, ready,       \* of each slot: its two bytes of status,
  second,              \* and the status of the command in it
  background, done,    \* of the context of each slot
  trap_thread_index, trap_thread_pipe, unit_pipe,
  place, on, made,     \* of each thread: where it is, its slot, its commands
  hwtrap_waiting, uae_int_requested,
  checking             \* the emulation thread is in hwtrap_check_int

amiga == <<task, at>>
status == <<locked, ready, second>>
contexts == <<background, done>>
pipes == <<trap_thread_index, trap_thread_pipe, unit_pipe>>
workers == <<place, on, made>>
interrupt == <<hwtrap_waiting, uae_int_requested, checking>>
vars == <<amiga, status, contexts, pipes, workers, interrupt>>

Init == /\ task = [k \in Task |-> "run"] /\ at = [k \in Task |-> None]
        /\ locked = [s \in AnySlot |-> FALSE] /\ ready = [s \in AnySlot |-> FALSE]
        /\ second = [s \in AnySlot |-> "none"]
        /\ background = [s \in AnySlot |-> FALSE] /\ done = [s \in AnySlot |-> FALSE]
        /\ trap_thread_index = 0
        /\ trap_thread_pipe = [t \in Thread |-> <<>>] /\ unit_pipe = <<>>
        /\ place = [w \in Worker |-> "read"] /\ on = [w \in Worker |-> None]
        /\ made = [w \in Worker |-> 0]
        /\ hwtrap_waiting = 0 /\ uae_int_requested = FALSE /\ checking = FALSE

Goes(w, from, to) == place[w] = from /\ place' = [place EXCEPT ![w] = to]
TaskGoes(k, from, to) == task[k] = from /\ task' = [task EXCEPT ![k] = to]
-----------------------------------------------------------------------------
(* hwtrap_entry.  The Amiga does one thing at a time, and nothing while    *)
(* the emulation thread is in hwtrap_check_int.                            *)

AmigaRuns == ~checking

UnderWay == Len(trap_thread_pipe[Send]) + (IF place[Send] = "read" THEN 0 ELSE 1)
MayBegin == AmigaRuns /\ Cardinality({k \in Task : task[k] # "run"}) + UnderWay < Busy

\* The read that finds a slot free locks it, rtarea_wget.
LockSlot(k, s) == /\ MayBegin /\ TaskGoes(k, "run", "store")
                  /\ ~locked[s]
                  /\ locked' = [locked EXCEPT ![s] = TRUE]
                  /\ ready' = [ready EXCEPT ![s] = FALSE]
                  /\ at' = [at EXCEPT ![k] = s]
                  /\ UNCHANGED <<second, contexts, pipes, workers, interrupt>>

\* Mutant: the index counts the thread of trap_callback too.
BugTrigger(k) ==
  /\ AmigaRuns /\ TaskGoes(k, "store", "wait")
  /\ trap_thread_pipe' = [trap_thread_pipe EXCEPT ![trap_thread_index] = Append(@, at[k])]
  /\ trap_thread_index' = (trap_thread_index + 1) % (Slots + 1)
  /\ UNCHANGED <<at, status, contexts, unit_pipe, workers, interrupt>>

\* The write of the trap's number, call_hardware_trap: a new context for the next
\* thread.
Trigger(k) ==
  /\ AmigaRuns /\ TaskGoes(k, "store", "wait")
  /\ trap_thread_pipe' = [trap_thread_pipe EXCEPT ![trap_thread_index] = Append(@, at[k])]
  /\ trap_thread_index' = (trap_thread_index + 1) % Slots
  /\ UNCHANGED <<at, status, contexts, unit_pipe, workers, interrupt>>

TakeCommand(k) == /\ AmigaRuns /\ TaskGoes(k, "wait", "command")
                  /\ ~ready[at[k]] /\ second[at[k]] = "task"
                  /\ second' = [second EXCEPT ![at[k]] = "taken"]
                  /\ UNCHANGED <<at, locked, ready, contexts, pipes, workers, interrupt>>

\* Mutant: a command carried out by a task is there to be carried out again.
BugAnswer(k) == /\ AmigaRuns /\ TaskGoes(k, "command", "wait")
                /\ second' = [second EXCEPT ![at[k]] = "task"]
                /\ UNCHANGED <<at, locked, ready, contexts, pipes, workers, interrupt>>

Answer(k) == /\ AmigaRuns /\ TaskGoes(k, "command", "wait")
             /\ second' = [second EXCEPT ![at[k]] = "done"]
             /\ UNCHANGED <<at, locked, ready, contexts, pipes, workers, interrupt>>

\* The task takes its registers and gives the slot back, rtarea_wput.
Leave(k) == /\ AmigaRuns /\ TaskGoes(k, "wait", "run")
            /\ ready[at[k]]
            /\ locked' = [locked EXCEPT ![at[k]] = FALSE]
            /\ ready' = [ready EXCEPT ![at[k]] = FALSE]
            /\ at' = [at EXCEPT ![k] = None]
            /\ UNCHANGED <<second, contexts, pipes, workers, interrupt>>

InTrap(k) == Trigger(k) \/ TakeCommand(k) \/ Answer(k) \/ Leave(k)
-----------------------------------------------------------------------------
(* hardware_trap_thread                                                    *)

Read(t) == LET s == Head(trap_thread_pipe[t]) IN
           /\ Goes(t, "read", "handler") /\ trap_thread_pipe[t] # <<>>
           /\ trap_thread_pipe' = [trap_thread_pipe EXCEPT ![t] = Tail(@)]
           /\ on' = [on EXCEPT ![t] = s]
           /\ second' = [second EXCEPT ![s] = "none"]
           /\ UNCHANGED <<amiga, locked, ready, contexts, trap_thread_index, unit_pipe,
                          made, interrupt>>

\* filesys_handler and its like: trap_set_background, and the context goes to the
\* thread of the unit.
GiveAway(t) ==
  /\ t # Send /\ Goes(t, "handler", "return")
  /\ background' = [background EXCEPT ![on[t]] = TRUE]
  /\ unit_pipe' = Append(unit_pipe, on[t])
  /\ UNCHANGED <<amiga, status, done, trap_thread_index, trap_thread_pipe, on, made,
                 interrupt>>

\* hardware_trap_ack, which frees the context; the next one of the slot is all zero.
Acknowledge(w, from) == /\ Goes(w, from, "read")
                        /\ ready' = [ready EXCEPT ![on[w]] = TRUE]
                        /\ on' = [on EXCEPT ![w] = None] /\ made' = [made EXCEPT ![w] = 0]
                        /\ background' = [background EXCEPT ![on[w]] = FALSE]
                        /\ done' = [done EXCEPT ![on[w]] = FALSE]

InForeground(t) == ~background[on[t]]

EndTrap(t) == /\ Acknowledge(t, "handler") \/ Acknowledge(t, "return")
              /\ InForeground(t)
              /\ UNCHANGED <<amiga, locked, second, pipes, interrupt>>

\* The test of trap_background, and then trap_done.
IsBackground(t) == /\ Goes(t, "return", "done") /\ ~InForeground(t)
                   /\ UNCHANGED <<amiga, status, contexts, pipes, on, made, interrupt>>

TrapDone(t) == /\ Goes(t, "done", "read")
               /\ done' = [done EXCEPT ![on[t]] = TRUE]
               /\ on' = [on EXCEPT ![t] = None] /\ made' = [made EXCEPT ![t] = 0]
               /\ UNCHANGED <<amiga, status, background, pipes, interrupt>>
-----------------------------------------------------------------------------
(* call_hardware_trap_back: a command through the task of the slot, or     *)
(* through the interrupt.                                                  *)

AskTask(w) == /\ on[w] # Send /\ made[w] < Commands /\ Goes(w, "handler", "spin")
              /\ second' = [second EXCEPT ![on[w]] = "task"]
              /\ made' = [made EXCEPT ![w] = @ + 1]
              /\ UNCHANGED <<amiga, locked, ready, contexts, pipes, on, interrupt>>

\* Mutant: the command is there before it is counted.
BugCount(w) == /\ on[w] = Send /\ made[w] < Commands /\ Goes(w, "handler", "request")
               /\ made' = [made EXCEPT ![w] = @ + 1]
               /\ second' = [second EXCEPT ![Send] = "interrupt"]
               /\ hwtrap_waiting' = hwtrap_waiting + 1
               /\ UNCHANGED <<amiga, locked, ready, contexts, pipes, on,
                              uae_int_requested, checking>>

Count(w) == /\ on[w] = Send /\ made[w] < Commands /\ Goes(w, "handler", "request")
            /\ made' = [made EXCEPT ![w] = @ + 1]
            /\ hwtrap_waiting' = hwtrap_waiting + 1
            /\ UNCHANGED <<amiga, status, contexts, pipes, on, uae_int_requested,
                           checking>>

Request(w) == /\ Goes(w, "request", "post")
              /\ uae_int_requested' = TRUE
              /\ UNCHANGED <<amiga, status, contexts, pipes, on, made, hwtrap_waiting,
                             checking>>

Post(w) == /\ Goes(w, "post", "spin")
           /\ second' = [second EXCEPT ![Send] = "interrupt"]
           /\ UNCHANGED <<amiga, locked, ready, contexts, pipes, on, made, interrupt>>

Answered(w) == /\ Goes(w, "spin", "handler") /\ second[on[w]] = "done"
               /\ second' = [second EXCEPT ![on[w]] = "none"]
               /\ UNCHANGED <<amiga, locked, ready, contexts, pipes, on, made, interrupt>>

TrapBack(w) == Answered(w) \/ AskTask(w) \/ Count(w) \/ Request(w) \/ Post(w)

HardwareTrapThread(t) == \/ Read(t) \/ TrapBack(t)
                         \/ EndTrap(t) \/ IsBackground(t) \/ TrapDone(t)
-----------------------------------------------------------------------------
(* filesys_iteration, hardfile_thread or dev_thread, as far as the context *)
(* goes, and trap_background_set_complete.                                 *)

UnitReads == /\ Goes(Unit, "read", "handler") /\ unit_pipe # <<>>
             /\ unit_pipe' = Tail(unit_pipe)
             /\ on' = [on EXCEPT ![Unit] = Head(unit_pipe)]
             /\ UNCHANGED <<amiga, status, contexts, trap_thread_index,
                            trap_thread_pipe, made, interrupt>>

Returning(s) == \E t \in Thread : place[t] = "return" /\ on[t] = s

SetComplete == /\ Goes(Unit, "handler", "complete")
               /\ Prompt => ~Returning(on[Unit])
               /\ background' = [background EXCEPT ![on[Unit]] = FALSE]
               /\ UNCHANGED <<amiga, status, done, pipes, on, made, interrupt>>

\* Mutant: the thread of the unit does not wait for trap_done.
BugCompleteAck == /\ Acknowledge(Unit, "complete")
                  /\ UNCHANGED <<amiga, locked, second, pipes, interrupt>>

CompleteAck == /\ Acknowledge(Unit, "complete")
               /\ done[on[Unit]]
               /\ UNCHANGED <<amiga, locked, second, pipes, interrupt>>

UnitThread == UnitReads \/ TrapBack(Unit) \/ SetComplete \/ CompleteAck
-----------------------------------------------------------------------------
(* The emulation thread: trap_callback, hwtrap_check_int at every byte     *)
(* that the Amiga reads, and hwtrap_interrupt.                             *)

TrapCallback ==
  /\ MayBegin /\ UnderWay < Callbacks
  /\ second' = [second EXCEPT ![Send] = "none"]
  /\ locked' = [locked EXCEPT ![Send] = TRUE] /\ ready' = [ready EXCEPT ![Send] = FALSE]
  /\ trap_thread_pipe' = [trap_thread_pipe EXCEPT ![Send] = Append(@, Send)]
  /\ UNCHANGED <<amiga, contexts, trap_thread_index, unit_pipe, workers, interrupt>>

\* Mutant: the request stays as it is while a command waits.
BugSetInt == FALSE /\ UNCHANGED vars

SetInt == /\ AmigaRuns /\ hwtrap_waiting # 0
          /\ uae_int_requested' = TRUE
          /\ UNCHANGED <<amiga, status, contexts, pipes, workers, hwtrap_waiting, checking>>

\* Only a check that a request can come into, or that ends one, makes a difference.
NothingWaits == /\ AmigaRuns /\ hwtrap_waiting = 0
                /\ uae_int_requested \/ UnderWay > 0
                /\ checking' = TRUE
                /\ UNCHANGED <<amiga, status, contexts, pipes, workers, hwtrap_waiting,
                               uae_int_requested>>

ClearInt == /\ checking
            /\ uae_int_requested' = FALSE /\ checking' = FALSE
            /\ UNCHANGED <<amiga, status, contexts, pipes, workers, hwtrap_waiting>>

\* hwtrap_interrupt answers a command; the write of the answer counts down.
Interrupt(s) == /\ AmigaRuns /\ uae_int_requested /\ hwtrap_waiting # 0
                /\ locked[s] /\ second[s] = "interrupt"
                /\ second' = [second EXCEPT ![s] = "done"]
                /\ hwtrap_waiting' = hwtrap_waiting - 1
                /\ UNCHANGED <<amiga, locked, ready, contexts, pipes, workers,
                               uae_int_requested, checking>>

Emulation == SetInt \/ ClearInt \/ Interrupt(Send)

Next == \/ \E k \in Task, s \in Slot : LockSlot(k, s)
        \/ \E k \in Task : InTrap(k)
        \/ \E t \in Thread : HardwareTrapThread(t) \/ GiveAway(t)
        \/ UnitThread
        \/ TrapCallback \/ NothingWaits \/ Emulation

Spec == Init /\ [][Next]_vars

\* Threads run; Exec runs each task in turn, which lowers its priority when it has
\* polled in vain for long; and the Amiga goes on reading bytes of the board, at
\* the latest when an interrupt of another source runs exter_server_new.
Fairness == /\ \A k \in Task : SF_vars(InTrap(k))
            /\ \A t \in Thread : WF_vars(HardwareTrapThread(t))
            /\ WF_vars(UnitThread)
            /\ WF_vars(SetInt) /\ WF_vars(ClearInt) /\ WF_vars(Interrupt(Send))
FairSpec == Spec /\ Fairness
-----------------------------------------------------------------------------
TypeOK ==
  /\ task \in [Task -> {"run", "store", "wait", "command"}]
  /\ at \in [Task -> Slot \cup {None}]
  /\ locked \in [AnySlot -> BOOLEAN] /\ ready \in [AnySlot -> BOOLEAN]
  /\ second \in [AnySlot -> {"none", "task", "taken", "interrupt", "done"}]
  /\ background \in [AnySlot -> BOOLEAN] /\ done \in [AnySlot -> BOOLEAN]
  /\ trap_thread_index \in Slot
  /\ trap_thread_pipe \in [Thread -> Seq(AnySlot)] /\ unit_pipe \in Seq(Slot)
  /\ place \in [Worker -> {"read", "handler", "return", "done", "request", "post",
                           "spin", "complete"}]
  /\ on \in [Worker -> AnySlot \cup {None}]
  /\ made \in [Worker -> 0 .. Commands]
  /\ hwtrap_waiting \in Nat
  /\ uae_int_requested \in BOOLEAN /\ checking \in BOOLEAN

\* A trap is acknowledged when nothing of the host will use its slot any more: no
\* handler, no unit's thread, and no context that still waits for either.
Queued(s) == \/ \E t \in Thread : s \in Range(trap_thread_pipe[t])
             \/ s \in Range(unit_pipe)
Used(s) == Queued(s) \/ \E w \in Worker : on[w] = s
ReadyIsDone == \A s \in Slot : ready[s] => ~Used(s)

\* A slot has a command in it exactly while one thread waits for its answer, and
\* hwtrap_waiting counts those that wait, or will wait, for the interrupt.
OneCommand ==
  \A s \in AnySlot :
    Cardinality({w \in Worker : on[w] = s /\ place[w] = "spin"})
      = IF second[s] = "none" THEN 0 ELSE 1
WaitingCounts ==
  hwtrap_waiting = Cardinality({s \in AnySlot : second[s] = "interrupt"})
                     + Cardinality({w \in Worker : place[w] \in {"request", "post"}})
CommandsAgree == OneCommand /\ WaitingCounts

\* Each trap that has a slot comes back to its task, whichever threads and tasks its
\* commands have to pass.
TrapsReturn == \A k \in Task : task[k] # "run" ~> task[k] = "run"

\* Each function that trap_callback starts comes to its end, whatever interrupts are
\* lost when hwtrap_check_int and the thread meet.
CallbacksEnd == place[Send] # "read" ~> place[Send] = "read"

\* What trap_set_background says, traps.cpp:224 "do not ack automatically": a context
\* that was given away is not acknowledged by the thread that ran its handler.
NoAutoAck == [][\A t \in Slot : place[t] = "return" => on'[t] = on[t]]_vars
=============================================================================
