--------------------------- MODULE ExtendedTraps ---------------------------
(***************************************************************************)
(* Extended traps, traps.cpp: 68k code calls a function of the host, which *)
(* runs in a thread of its own and may in turn call 68k functions before   *)
(* it returns.  The emulation thread and the thread of the trap context    *)
(* hand the machine to each other through two semaphores per context; the  *)
(* machine reaches the host's side of the protocol by executing one of     *)
(* three trap addresses.  Meanwhile Amiga tasks are switched, and each may *)
(* be anywhere in calls of its own.                                        *)
(*                                                                         *)
(* The registers of the machine are abstracted to the activation they      *)
(* belong to: an Amiga task and the number of 68k functions that its stack *)
(* holds on behalf of trap handlers.  One step is one operation on a       *)
(* semaphore, or what a thread does between two of them.                   *)
(***************************************************************************)
EXTENDS Naturals, Sequences, SequencesExt

CONSTANTS Task,       \* tasks of the Amiga
          Context,    \* trap contexts, as many as are ever allocated at a time
          None,
          MaxDepth,   \* bound: 68k functions on one task's stack
          MaxCalls,   \* bound: 68k functions that one trap handler calls
          Resets      \* bound: resets of the Amiga

ASSUME TrapsAssumption == /\ None \notin Context
                          /\ {MaxDepth, MaxCalls, Resets} \subseteq Nat

VARIABLES
  \* the emulated machine
  task, regs,         \* the running task, and whose registers the CPU holds
  tcb,                \* the registers of the tasks that do not run
  stack,              \* per task: the frames m68k_call_handler has pushed
  pc,                 \* "code", or at one of the trap addresses
  masked,             \* regs.intmask = 7
  \* the emulation thread, and the context it waits for to switch back
  emu, awaited,
  trap_mutex, current_context,
  \* the trap contexts
  thread, running,    \* where each is, and those whose host thread has not ended
  switch_to_trap_sem, switch_to_emu_sem, saved_regs,
  calls,              \* 68k functions called so far, the last one is call68k_func_addr
  call68k_retval,
  resets

machine == <<task, regs, tcb, stack, pc, masked>>
sems == <<switch_to_trap_sem, switch_to_emu_sem>>
local == <<running, saved_regs, calls, call68k_retval>>
vars == <<machine, emu, awaited, trap_mutex, current_context, thread, sems, local,
          resets>>

Activation == Task \X (0 .. MaxDepth)
Function == Context \X (0 .. MaxCalls)
Frame == [context : Context, function : Function]
Depth(t) == Len(stack[t])

Set(f, c, v) == [f EXCEPT ![c] = v]
Post(sem, c) == [sem EXCEPT ![c] = @ + 1]
Waited(sem, c) == [sem EXCEPT ![c] = @ - 1]

Booted == /\ task \in Task
          /\ regs = <<task, 0>>
          /\ tcb = [t \in Task |-> <<t, 0>>]
          /\ stack = [t \in Task |-> <<>>]
          /\ pc = "code" /\ masked = FALSE

Init == /\ Booted
        /\ emu = "run" /\ awaited = None
        /\ trap_mutex = 1 /\ current_context = None
        /\ thread = [c \in Context |-> "free"] /\ running = {}
        /\ switch_to_trap_sem = [c \in Context |-> 0]
        /\ switch_to_emu_sem = [c \in Context |-> 0]
        /\ saved_regs = [c \in Context |-> [act |-> regs, masked |-> FALSE]]
        /\ calls = [c \in Context |-> 0]
        /\ call68k_retval = [c \in Context |-> <<c, 0>>]
        /\ resets = 0
-----------------------------------------------------------------------------
(* What the machine does by itself.                                        *)

Running68k == emu = "run" /\ pc = "code"

\* An interrupt makes the Amiga's exec switch tasks.
TaskSwitch(t) == /\ Running68k /\ ~masked /\ t # task
                 /\ tcb' = Set(tcb, task, regs)
                 /\ regs' = tcb[t]
                 /\ task' = t
                 /\ UNCHANGED <<stack, pc, masked, emu, awaited, trap_mutex,
                                current_context, thread, sems, local, resets>>

\* A 68k function called by a trap handler is over: the CPU pulls the address of
\* the return trap off the stack.
FunctionReturns == /\ Running68k /\ stack[task] # <<>>
                   /\ pc' = "return_trap"
                   /\ UNCHANGED <<task, regs, tcb, stack, masked, emu, awaited, trap_mutex,
                                  current_context, thread, sems, local, resets>>

\* A reset falls between two instructions.  The trap contexts are not told.
Reset == /\ emu = "run" /\ resets < Resets
         /\ task' \in Task
         /\ regs' = <<task', 0>>
         /\ tcb' = [t \in Task |-> <<t, 0>>]
         /\ stack' = [t \in Task |-> <<>>]
         /\ pc' = "code" /\ masked' = FALSE
         /\ resets' = resets + 1
         /\ UNCHANGED <<emu, awaited, trap_mutex, current_context, thread, sems, local>>
-----------------------------------------------------------------------------
(* The emulation thread's side of the protocol.                            *)

\* The emulation thread gives the machine to context c and waits.
SwitchToTrap(c) == /\ switch_to_trap_sem' = Post(switch_to_trap_sem, c)
                   /\ emu' = "wait" /\ awaited' = c

\* Mutant: the registers of the trap are not saved.
BugHandleExtendedTrap(c) ==
  /\ Running68k /\ thread[c] = "free"
  /\ thread' = Set(thread, c, "start") /\ running' = running \cup {c}
  /\ calls' = Set(calls, c, 0)
  /\ SwitchToTrap(c)
  /\ UNCHANGED <<machine, trap_mutex, current_context, switch_to_emu_sem, saved_regs,
                 call68k_retval, resets>>

HandleExtendedTrap(c) ==
  /\ Running68k /\ thread[c] = "free"
  /\ thread' = Set(thread, c, "start") /\ running' = running \cup {c}
  /\ saved_regs' = Set(saved_regs, c, [act |-> regs, masked |-> masked])
  /\ calls' = Set(calls, c, 0)
  /\ SwitchToTrap(c)
  /\ UNCHANGED <<machine, trap_mutex, current_context, switch_to_emu_sem,
                 call68k_retval, resets>>

\* Mutant: the emulation thread does not wait.
BugSwitchedBack == /\ emu = "wait"
                   /\ emu' = "run"
                   /\ UNCHANGED <<machine, awaited, trap_mutex, current_context, thread,
                                  sems, local, resets>>

SwitchedBack == /\ emu = "wait" /\ switch_to_emu_sem[awaited] > 0
                /\ switch_to_emu_sem' = Waited(switch_to_emu_sem, awaited)
                /\ emu' = "run"
                /\ UNCHANGED <<machine, awaited, trap_mutex, current_context, thread,
                               switch_to_trap_sem, local, resets>>

\* m68k_call_handler, up to its end of the critical section ...
CallHandler ==
  LET c == current_context IN
  /\ emu = "run" /\ pc = "call_trap"
  /\ stack' = Set(stack, task,
                  Append(stack[task], [context |-> c, function |-> <<c, calls[c]>>]))
  /\ regs' = <<task, Depth(task) + 1>>
  /\ pc' = "code"
  /\ trap_mutex' = trap_mutex + 1
  /\ emu' = "unmask" /\ awaited' = c
  /\ UNCHANGED <<task, tcb, masked, current_context, thread, sems, local, resets>>

\* ... and the restored interrupts.
Unmask == /\ emu = "unmask"
          /\ masked' = saved_regs[awaited].masked
          /\ emu' = "run"
          /\ UNCHANGED <<task, regs, tcb, stack, pc, awaited, trap_mutex,
                         current_context, thread, sems, local, resets>>

\* Mutant: the return handler does not enter the critical section.
BugReturnHandlerLock == /\ emu = "run" /\ pc = "return_trap"
                        /\ emu' = "returning"
                        /\ UNCHANGED <<machine, awaited, trap_mutex, current_context, thread,
                                       sems, local, resets>>

ReturnHandlerLock == /\ emu = "run" /\ pc = "return_trap"
                     /\ trap_mutex > 0
                     /\ trap_mutex' = trap_mutex - 1
                     /\ emu' = "returning"
                     /\ UNCHANGED <<machine, awaited, current_context, thread, sems, local,
                                    resets>>

\* Mutant: the return handler takes the value for that of the last call.
BugReturnHandler == /\ emu = "returning"
                    /\ stack' = Set(stack, task, Front(stack[task]))
                    /\ call68k_retval' = Set(call68k_retval, current_context,
                                             Last(stack[task]).function)
                    /\ SwitchToTrap(Last(stack[task]).context)
                    /\ UNCHANGED <<task, regs, tcb, pc, masked, trap_mutex, current_context,
                                   thread, running, switch_to_emu_sem, saved_regs, calls, resets>>

\* Mutant: the return handler leaves the stack pointer as it is.
BugReturnPop == /\ emu = "returning"
                /\ call68k_retval' = Set(call68k_retval, Last(stack[task]).context,
                                         Last(stack[task]).function)
                /\ SwitchToTrap(Last(stack[task]).context)
                /\ UNCHANGED <<machine, trap_mutex, current_context, thread, running,
                               switch_to_emu_sem, saved_regs, calls, resets>>

ReturnHandler ==
  LET c == Last(stack[task]).context IN
  /\ emu = "returning"
  /\ stack' = Set(stack, task, Front(stack[task]))
  /\ call68k_retval' = Set(call68k_retval, c, Last(stack[task]).function)
  /\ SwitchToTrap(c)
  /\ UNCHANGED <<task, regs, tcb, pc, masked, trap_mutex, current_context, thread, running,
                 switch_to_emu_sem, saved_regs, calls, resets>>

\* Mutant: the exit handler does not end the critical section.
BugExitHandler ==
  LET c == current_context IN
  /\ emu = "run" /\ pc = "exit_trap" /\ c \notin running
  /\ regs' = saved_regs[c].act /\ masked' = saved_regs[c].masked
  /\ pc' = "code"
  /\ thread' = Set(thread, c, "free")
  /\ UNCHANGED <<task, tcb, stack, emu, awaited, trap_mutex, current_context, sems, local,
                 resets>>

\* Mutant: the exit handler waits for the thread and forgets to free the context.
BugExitKeeps ==
  LET c == current_context IN
  /\ emu = "run" /\ pc = "exit_trap" /\ c \notin running
  /\ regs' = saved_regs[c].act /\ masked' = saved_regs[c].masked
  /\ pc' = "code"
  /\ trap_mutex' = trap_mutex + 1
  /\ UNCHANGED <<task, tcb, stack, emu, awaited, current_context, thread, sems, local,
                 resets>>

\* Mutant: the exit handler frees the context without waiting for the thread.
BugExitFrees ==
  LET c == current_context IN
  /\ emu = "run" /\ pc = "exit_trap"
  /\ regs' = saved_regs[c].act /\ masked' = saved_regs[c].masked
  /\ pc' = "code"
  /\ thread' = Set(thread, c, "free")
  /\ trap_mutex' = trap_mutex + 1
  /\ UNCHANGED <<task, tcb, stack, emu, awaited, current_context, sems, local, resets>>

\* exit_trap_handler waits for the thread before it frees the context.
ExitHandler ==
  LET c == current_context IN
  /\ emu = "run" /\ pc = "exit_trap" /\ c \notin running
  /\ regs' = saved_regs[c].act /\ masked' = saved_regs[c].masked
  /\ pc' = "code"
  /\ thread' = Set(thread, c, "free")
  /\ trap_mutex' = trap_mutex + 1
  /\ UNCHANGED <<task, tcb, stack, emu, awaited, current_context, sems, local, resets>>
-----------------------------------------------------------------------------
(* The trap context's side: trap_thread and, called by its handler,        *)
(* trap_Call68k.                                                           *)

Goes(c, from, to) == thread[c] = from /\ thread' = Set(thread, c, to)

Wakes(c, from, to) == /\ Goes(c, from, to)
                      /\ switch_to_trap_sem[c] > 0
                      /\ switch_to_trap_sem' = Waited(switch_to_trap_sem, c)
                      /\ UNCHANGED <<machine, emu, awaited, trap_mutex, current_context,
                                     switch_to_emu_sem, local, resets>>

Enters(c, to) == /\ Goes(c, "handler", to)
                 /\ trap_mutex > 0
                 /\ trap_mutex' = trap_mutex - 1
                 /\ UNCHANGED <<machine, emu, awaited, current_context, sems, local, resets>>

SwitchToEmu(c, from, to) ==
  /\ Goes(c, from, to)
  /\ switch_to_emu_sem' = Post(switch_to_emu_sem, c)
  /\ UNCHANGED <<machine, emu, awaited, trap_mutex, current_context, switch_to_trap_sem,
                 local, resets>>

HandlerStarts(c) == Wakes(c, "start", "handler")

\* A handler that calls nests on the stack of the task that trapped.
CallEnters(c) == calls[c] < MaxCalls /\ Depth(task) < MaxDepth /\ Enters(c, "call")
CallPrepares(c) == /\ Goes(c, "call", "callpost")
                   /\ current_context' = c
                   /\ masked' = TRUE
                   /\ calls' = [calls EXCEPT ![c] = @ + 1]
                   /\ pc' = "call_trap"
                   /\ UNCHANGED <<task, regs, tcb, stack, emu, awaited, trap_mutex, sems,
                                  running, saved_regs, call68k_retval, resets>>
CallSwitches(c) == SwitchToEmu(c, "callpost", "called")
CallWakes(c) == Wakes(c, "called", "callend")

CallEnds(c) == /\ Goes(c, "callend", "handler")
               /\ trap_mutex' = trap_mutex + 1
               /\ UNCHANGED <<machine, emu, awaited, current_context, sems, local, resets>>

HandlerEnds(c) == Enters(c, "exit")

ExitPrepares(c) == /\ Goes(c, "exit", "exitpost")
                   /\ regs' = saved_regs[c].act
                   /\ masked' = TRUE
                   /\ pc' = "exit_trap"
                   /\ current_context' = c
                   /\ UNCHANGED <<task, tcb, stack, emu, awaited, trap_mutex, sems, local,
                                  resets>>
ExitSwitches(c) == SwitchToEmu(c, "exitpost", "gone")

\* The thread, which the emulation thread no longer waits for to switch back, ends.
ThreadEnds(c) == /\ thread[c] = "gone" /\ c \in running
                 /\ running' = running \ {c}
                 /\ UNCHANGED <<machine, emu, awaited, trap_mutex, current_context, thread, sems,
                                saved_regs, calls, call68k_retval, resets>>

TrapThread(c) == \/ HandlerStarts(c)
                 \/ CallEnters(c) \/ CallPrepares(c) \/ CallSwitches(c)
                 \/ CallWakes(c) \/ CallEnds(c)
                 \/ HandlerEnds(c) \/ ExitPrepares(c) \/ ExitSwitches(c) \/ ThreadEnds(c)

Handlers == SwitchedBack \/ CallHandler \/ Unmask \/ ReturnHandlerLock
              \/ ReturnHandler \/ ExitHandler

Next == \/ Handlers \/ FunctionReturns \/ Reset
        \/ \E t \in Task : TaskSwitch(t)
        \/ \E c \in Context : HandleExtendedTrap(c) \/ TrapThread(c)

Spec == Init /\ [][Next]_vars

(***************************************************************************)
(* Threads run when they can.  The Amiga's scheduler lets each task run    *)
(* again and again, and each 68k function that a handler calls returns.    *)
(***************************************************************************)
Fairness == /\ WF_vars(Handlers)
            /\ \A c \in Context : WF_vars(TrapThread(c))
            /\ \A t \in Task :
                 /\ SF_vars(TaskSwitch(t))
                 /\ \A d \in 1 .. MaxDepth :
                      SF_vars(task = t /\ Depth(t) = d /\ FunctionReturns)
FairSpec == Spec /\ Fairness
-----------------------------------------------------------------------------
OnTrap == {"handler", "call", "callpost", "callend", "exit", "exitpost"}

TypeOK == /\ task \in Task /\ regs \in Activation
          /\ tcb \in [Task -> Activation]
          /\ stack \in [Task -> Seq(Frame)]
          /\ pc \in {"code", "call_trap", "return_trap", "exit_trap"}
          /\ masked \in BOOLEAN
          /\ emu \in {"run", "unmask", "returning", "wait"}
          /\ awaited \in Context \cup {None}
          /\ trap_mutex \in {0, 1}
          /\ current_context \in Context \cup {None}
          /\ thread \in [Context -> OnTrap \cup {"free", "start", "called", "gone"}]
          /\ running \subseteq Context
          /\ switch_to_trap_sem \in [Context -> {0, 1}]
          /\ switch_to_emu_sem \in [Context -> {0, 1}]
          /\ saved_regs \in [Context -> [act : Activation, masked : BOOLEAN]]
          /\ calls \in [Context -> 0 .. MaxCalls]
          /\ call68k_retval \in [Context -> Function]
          /\ resets \in 0 .. Resets

\* The machine is handed over and never shared: a thread that runs a handler, and
\* writes the registers and the program counter, is the one the emulation thread
\* waits for, and it has been neither woken twice nor switched back from already.  When
\* it has handed the machine back for good its context is not freed before it has ended.
Handoff ==
  \A c \in Context :
    /\ thread[c] \in OnTrap => emu = "wait" /\ awaited = c /\ switch_to_emu_sem[c] = 0
    /\ switch_to_trap_sem[c] + switch_to_emu_sem[c] > 0 => emu = "wait" /\ awaited = c
    /\ c \in running => thread[c] # "free"

\* Whoever gets the machine back to run 68k code, the critical section is over:
\* the emulation thread would wait for itself otherwise.
MutexFree == Running68k /\ resets = 0 => trap_mutex = 1

\* A handler gets the value of the function that it called itself, whatever calls
\* of other tasks and of nested traps have been made in between.
RightCaller ==
  \A c \in Context : thread[c] = "callend" => call68k_retval[c] = <<c, calls[c]>>

\* The CPU's registers are those of the task that runs and of the activation that
\* its stack is at: a trap restores the registers of who trapped.
RightStack == Running68k => regs = <<task, Depth(task)>>

\* Each context pointer on an Amiga stack is that of a trap that still waits for
\* its 68k function, and is there once.
NoDangling ==
  \A t, u \in Task : \A i \in 1 .. Depth(t), j \in 1 .. Depth(u) :
    /\ thread[stack[t][i].context] = "called"
    /\ stack[t][i].context = stack[u][j].context => t = u /\ i = j

\* Each trap comes to its end.
TrapsEnd ==
  \A c \in Context : thread[c] = "start" ~> thread[c] = "free" \/ resets > 0
=============================================================================
