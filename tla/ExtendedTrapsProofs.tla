------------------------ MODULE ExtendedTrapsProofs ------------------------
(***************************************************************************)
(* Proofs about ExtendedTraps, for any number of tasks, trap contexts,     *)
(* nested calls and resets.  The inductive invariant IInv says whose turn  *)
(* it is, who is inside the critical section, what the trap addresses find *)
(* and to whom the frames on the stacks belong.  KeptInv adds that every   *)
(* trap under way has its frame or acts for the task that runs.            *)
(***************************************************************************)
EXTENDS ExtendedTraps, SequenceTheorems, TLAPS

Token(c) == switch_to_trap_sem[c] + switch_to_emu_sem[c]

\* Whose turn it is.  The emulation thread has the machine, or the context that it
\* waits for has, or exactly one semaphore of that context is about to hand it over.
Baton ==
  /\ emu \in {"wait", "unmask"} => awaited \in Context
  /\ emu = "wait" =>
       \/ thread[awaited] = "start" /\ switch_to_trap_sem[awaited] = 1
                                    /\ switch_to_emu_sem[awaited] = 0
       \/ thread[awaited] = "called" /\ Token(awaited) = 1
       \/ thread[awaited] \in OnTrap /\ Token(awaited) = 0
       \/ thread[awaited] = "gone" /\ switch_to_trap_sem[awaited] = 0
                                   /\ switch_to_emu_sem[awaited] = 1
  /\ \A c \in Context : emu # "wait" \/ c # awaited =>
       thread[c] \in {"free", "called", "gone"} /\ Token(c) = 0

\* Who is inside the critical section.
Inside ==
  \/ emu = "wait" /\ thread[awaited] \notin {"start", "handler"}
  \/ emu = "returning"
  \/ emu = "run" /\ pc \in {"call_trap", "exit_trap"}

Section == /\ Inside => trap_mutex = 0
           /\ ~Inside /\ resets = 0 => trap_mutex = 1

\* Who has set the program counter to a trap address, and what it finds there.
Calling(c) == \/ emu = "wait" /\ awaited = c /\ thread[c] = "callpost"
              \/ emu = "wait" /\ awaited = c /\ thread[c] = "called"
                              /\ switch_to_emu_sem[c] = 1
              \/ emu = "run" /\ pc = "call_trap" /\ current_context = c

Exiting(c) == \/ emu = "wait" /\ awaited = c /\ thread[c] \in {"exitpost", "gone"}
              \/ emu = "run" /\ pc = "exit_trap" /\ current_context = c

Address ==
  /\ emu = "run" /\ pc \in {"call_trap", "exit_trap"} => current_context \in Context
  /\ \A c \in Context : Calling(c) => /\ pc = "call_trap" /\ current_context = c
                                      /\ thread[c] \in {"callpost", "called"}
  /\ \A c \in Context : Exiting(c) => /\ pc = "exit_trap" /\ current_context = c
                                      /\ thread[c] \in {"exitpost", "gone"}
  /\ emu = "unmask" => pc = "code"
  /\ emu = "run" /\ pc = "return_trap" => Depth(task) > 0
  /\ emu = "returning" => Depth(task) > 0

\* The contexts that act for the running task, on top of its stack.
Acting(c) == \/ emu = "wait" /\ awaited = c
             \/ emu = "run" /\ pc \in {"call_trap", "exit_trap"} /\ current_context = c

Frames ==
  \A t \in Task : \A i \in 1 .. Depth(t) :
    LET c == stack[t][i].context IN
    /\ stack[t][i].function = <<c, calls[c]>>
    /\ saved_regs[c].act = <<t, i - 1>>
    /\ ~Acting(c)

Calls ==
  /\ \A t \in Task : Depth(t) <= MaxDepth
  /\ \A c \in Context :
       /\ emu = "wait" /\ awaited = c /\ thread[c] = "called" /\ switch_to_trap_sem[c] = 1
            => call68k_retval[c] = <<c, calls[c]>>
       /\ thread[c] = "callend" => call68k_retval[c] = <<c, calls[c]>>
       /\ thread[c] = "call" => Depth(task) < MaxDepth /\ calls[c] < MaxCalls
       /\ Calling(c) => Depth(task) < MaxDepth

Registers ==
  /\ RightStack
  /\ emu = "unmask" => regs = <<task, Depth(task)>>
  /\ \A t \in Task : t # task => tcb[t] = <<t, Depth(t)>>
  /\ \A c \in Context : Acting(c) => saved_regs[c].act = <<task, Depth(task)>>

IInv == /\ TypeOK /\ Baton /\ Section /\ Address
        /\ NoDangling /\ Frames /\ Calls /\ Registers
-----------------------------------------------------------------------------
LEMMA TokenIs ==
  ASSUME TypeOK, NEW c \in Context
  PROVE  /\ Token(c) = 0 <=> switch_to_trap_sem[c] = 0 /\ switch_to_emu_sem[c] = 0
         /\ Token(c) = 1 <=>
              \/ switch_to_trap_sem[c] = 1 /\ switch_to_emu_sem[c] = 0
              \/ switch_to_trap_sem[c] = 0 /\ switch_to_emu_sem[c] = 1
  <1>1. switch_to_trap_sem[c] \in {0, 1} /\ switch_to_emu_sem[c] \in {0, 1}
    BY DEF TypeOK
  <1> QED BY <1>1, SMT DEF Token

\* While the emulation thread has the machine every other thread is at rest.
LEMMA AtRest == ASSUME IInv, NEW c \in Context, emu # "wait" \/ c # awaited
                PROVE  /\ thread[c] \in {"free", "called", "gone"}
                       /\ switch_to_trap_sem[c] = 0 /\ switch_to_emu_sem[c] = 0
  BY TokenIs DEF IInv, Baton

\* A thread that runs its handler has the machine.
LEMMA HasMachine == ASSUME IInv, NEW c \in Context, thread[c] \in OnTrap
                    PROVE  /\ emu = "wait" /\ awaited = c
                           /\ switch_to_trap_sem[c] = 0 /\ switch_to_emu_sem[c] = 0
  <1>1. emu = "wait" /\ awaited = c
    BY AtRest DEF OnTrap
  <1> QED BY <1>1, TokenIs DEF IInv, Baton, OnTrap

\* So does one that is woken.
LEMMA Woken == ASSUME IInv, NEW c \in Context, switch_to_trap_sem[c] > 0
               PROVE  /\ emu = "wait" /\ awaited = c /\ thread[c] \in {"start", "called"}
                      /\ switch_to_trap_sem[c] = 1 /\ switch_to_emu_sem[c] = 0
  <1>1. switch_to_trap_sem[c] = 1 /\ switch_to_trap_sem[c] # 0
    BY SMT DEF IInv, TypeOK
  <1>2. emu = "wait" /\ awaited = c
    BY <1>1, AtRest
  <1> QED BY <1>1, <1>2, TokenIs DEF IInv, Baton, OnTrap

LEMMA FrameIs == ASSUME TypeOK, NEW t \in Task, NEW i \in 1 .. Depth(t)
                PROVE  stack[t][i] \in Frame /\ stack[t][i].context \in Context
  <1>1. stack[t] \in Seq(Frame)
    BY DEF TypeOK
  <1>2. stack[t][i] \in Frame
    BY <1>1, ElementOfSeq DEF Depth
  <1> QED BY <1>2 DEF Frame

LEMMA SameStack ==
  ASSUME TypeOK, NoDangling, Frames, stack' = stack,
         \A c \in Context : thread[c] = "called" /\ ~Acting(c) =>
           /\ thread'[c] = "called" /\ ~Acting(c)'
           /\ calls'[c] = calls[c] /\ saved_regs'[c] = saved_regs[c]
  PROVE  NoDangling' /\ Frames'
  <1>1. \A t \in Task : \A i \in 1 .. Depth(t) :
          /\ stack[t][i].context \in Context
          /\ thread[stack[t][i].context] = "called" /\ ~Acting(stack[t][i].context)
    BY FrameIs DEF NoDangling, Frames
  <1>2. \A t \in Task : Depth(t)' = Depth(t)
    BY DEF Depth
  <1>3. NoDangling'
    BY <1>1, <1>2 DEF NoDangling
  <1>4. Frames'
    BY <1>1, <1>2 DEF Frames
  <1> QED BY <1>3, <1>4

LEMMA TaskSwitchKeeps == ASSUME NEW t \in Task, IInv, TaskSwitch(t)
  PROVE  IInv'
  <1>1. TypeOK'
    <2>1. tcb' \in [Task -> Activation]
      BY SMT DEF IInv, TypeOK, sems, local, Set, Running68k, TaskSwitch
    <2>2. regs' \in Activation
      BY SMT DEF IInv, TypeOK, sems, local, Set, Running68k, TaskSwitch
    <2>3. task' \in Task
      BY SMT DEF sems, local, Set, Running68k, TaskSwitch
    <2> QED BY <2>1, <2>2, <2>3 DEF IInv, TypeOK, sems, local, Set, Running68k,
                   TaskSwitch
  <1>2. Baton'
    BY SMT DEF IInv, Baton, Token, OnTrap, sems, local, Set, Running68k, TaskSwitch
  <1>3. Section'
    BY SMT DEF IInv, Section, Inside, sems, local, Set, Running68k, TaskSwitch
  <1>4. Address'
    BY SMT DEF IInv, Address, Calling, Exiting, sems, local, Set, Running68k,
           TaskSwitch
  <1>5. Calls'
    <2>1. \A d \in Context :
             thread[d] \notin {"call", "callend"} /\ switch_to_trap_sem[d] # 1
      BY AtRest, SMT DEF TaskSwitch, Running68k
    <2>2. \A d \in Context : ~Calling(d)'
      BY DEF TaskSwitch, Running68k, Calling
    <2>3. \A u \in Task : Depth(u)' = Depth(u)
      BY DEF TaskSwitch, Depth
    <2> QED BY <2>1, <2>2, <2>3 DEF IInv, Calls, TaskSwitch, sems, local
  <1>6. Registers'
    BY SMT DEF IInv, TypeOK, Registers, Acting, RightStack, sems, local, Set,
           Running68k, Depth, TaskSwitch
  <1>7. \A d \in Context : thread[d] = "called" /\ ~Acting(d) =>
          /\ thread'[d] = "called" /\ ~Acting(d)'
          /\ calls'[d] = calls[d] /\ saved_regs'[d] = saved_regs[d]
    BY SMT DEF Acting, sems, local, Set, Running68k, TaskSwitch
  <1>8. NoDangling' /\ Frames'
    <2>1. stack' = stack
      BY DEF sems, local, Set, Running68k, TaskSwitch
    <2> QED BY <1>7, <2>1, SameStack DEF IInv
  <1> QED BY <1>1, <1>2, <1>3, <1>4, <1>5, <1>6, <1>7, <1>8 DEF IInv

LEMMA FunctionReturnsKeeps == ASSUME IInv, FunctionReturns
  PROVE  IInv'
  <1>1. TypeOK'
    <2>1. pc' \in {"code", "call_trap", "return_trap", "exit_trap"}
      BY SMT DEF sems, local, Running68k, FunctionReturns
    <2> QED BY <2>1 DEF IInv, TypeOK, sems, local, Running68k, FunctionReturns
  <1>2. Baton'
    BY SMT DEF IInv, Baton, Token, OnTrap, sems, local, Running68k, FunctionReturns
  <1>3. Section'
    BY SMT DEF IInv, Section, Inside, sems, local, Running68k, FunctionReturns
  <1>4. Address'
    BY SMT DEF IInv, Address, Calling, Exiting, sems, local, Running68k, Depth,
           FunctionReturns
  <1>5. Calls'
    BY SMT DEF IInv, Calling, Exiting, Calls, sems, local, Running68k, Depth,
           FunctionReturns
  <1>6. Registers'
    BY SMT DEF IInv, Registers, Acting, RightStack, sems, local, Running68k, Depth,
           FunctionReturns
  <1>7. \A d \in Context : thread[d] = "called" /\ ~Acting(d) =>
          /\ thread'[d] = "called" /\ ~Acting(d)'
          /\ calls'[d] = calls[d] /\ saved_regs'[d] = saved_regs[d]
    BY SMT DEF Acting, sems, local, Running68k, FunctionReturns
  <1>8. NoDangling' /\ Frames'
    <2>1. stack' = stack
      BY DEF sems, local, Running68k, FunctionReturns
    <2> QED BY <1>7, <2>1, SameStack DEF IInv
  <1> QED BY <1>1, <1>2, <1>3, <1>4, <1>5, <1>6, <1>7, <1>8 DEF IInv

LEMMA ResetKeeps == ASSUME IInv, Reset
  PROVE  IInv'
  <1>1. TypeOK'
    <2>1. task' \in Task
      BY SMT DEF sems, local, Reset
    <2>2. regs' \in Activation
      BY TrapsAssumption, SMT DEF Activation, sems, local, Reset
    <2>3. tcb' \in [Task -> Activation]
      BY TrapsAssumption, SMT DEF Activation, sems, local, Reset
    <2>4. stack' \in [Task -> Seq(Frame)]
      BY SMT DEF sems, local, Reset
    <2>5. pc' \in {"code", "call_trap", "return_trap", "exit_trap"}
      BY SMT DEF sems, local, Reset
    <2>6. masked' \in BOOLEAN
      BY DEF Reset
    <2>7. resets' \in 0 .. Resets
      BY TrapsAssumption, SMT DEF IInv, TypeOK, Activation, sems, local, Reset
    <2> QED BY <2>1, <2>2, <2>3, <2>4, <2>5, <2>6, <2>7 DEF IInv, TypeOK, sems, local,
                   Reset
  <1>2. Baton'
    BY SMT DEF IInv, Baton, Token, OnTrap, sems, local, Reset
  <1>3. Section'
    BY SMT DEF IInv, TypeOK, Section, Inside, sems, local, Reset
  <1>4. Address'
    BY SMT DEF IInv, Address, Calling, Exiting, sems, local, Reset
  <1>5. Calls'
    BY TrapsAssumption, SMT DEF IInv, Calling, Exiting, Calls, sems, local, Depth,
           Reset
  <1>6. Registers'
    BY SMT DEF IInv, Registers, Acting, RightStack, sems, local, Running68k, Depth,
           Reset
  <1>7. NoDangling'
    BY SMT DEF IInv, NoDangling, Frames, sems, local, Depth, Reset
  <1>8. Frames'
    BY SMT DEF IInv, NoDangling, Frames, sems, local, Depth, Reset
  <1> QED BY <1>1, <1>2, <1>3, <1>4, <1>5, <1>6, <1>7, <1>8 DEF IInv

LEMMA HandleExtendedTrapKeeps == ASSUME NEW c \in Context, IInv, HandleExtendedTrap(c)
  PROVE  IInv'
  <1>0. /\ emu = "run" /\ pc = "code"
        /\ switch_to_trap_sem[c] = 0 /\ switch_to_emu_sem[c] = 0
    BY AtRest DEF HandleExtendedTrap, Running68k
  <1>1. TypeOK'
    <2>1. thread' \in [Context -> OnTrap \cup {"free", "start", "called", "gone"}]
      BY <1>0, SMT DEF IInv, TypeOK, machine, Set, Post, SwitchToTrap, Running68k,
             HandleExtendedTrap
    <2>2. saved_regs' \in [Context -> [act : Activation, masked : BOOLEAN]]
      BY <1>0, SMT DEF IInv, TypeOK, machine, Set, Post, SwitchToTrap, Running68k,
             HandleExtendedTrap
    <2>3. calls' \in [Context -> 0 .. MaxCalls]
      BY <1>0, TrapsAssumption, SMT DEF IInv, TypeOK, Activation, machine, Set, Post,
             SwitchToTrap, Running68k, HandleExtendedTrap
    <2>4. switch_to_trap_sem' \in [Context -> {0, 1}]
      BY <1>0, SMT DEF IInv, TypeOK, machine, Set, Post, SwitchToTrap, Running68k,
             HandleExtendedTrap
    <2>5. emu' \in {"run", "unmask", "returning", "wait"}
      BY <1>0, SMT DEF machine, Set, Post, SwitchToTrap, Running68k,
             HandleExtendedTrap
    <2>6. awaited' \in Context \cup {None}
      BY <1>0, SMT DEF machine, Set, Post, SwitchToTrap, Running68k,
             HandleExtendedTrap
    <2>7. running' \subseteq Context
      BY SMT DEF IInv, TypeOK, HandleExtendedTrap
    <2> QED BY <2>1, <2>2, <2>3, <2>4, <2>5, <2>6, <2>7 DEF IInv, TypeOK, machine, Set,
                   Post, SwitchToTrap, Running68k, HandleExtendedTrap
  <1>2. Baton'
    BY <1>0, SMT DEF IInv, TypeOK, Baton, Token, OnTrap, machine, Set, Post,
           SwitchToTrap, Running68k, HandleExtendedTrap
  <1>3. Section'
    BY <1>0, SMT DEF IInv, TypeOK, Section, Inside, machine, Set, Post, SwitchToTrap,
           Running68k, HandleExtendedTrap
  <1>4. Address'
    BY <1>0, SMT DEF IInv, Address, Calling, Exiting, machine, Set, Post,
           SwitchToTrap, Running68k, HandleExtendedTrap
  <1>5. Calls'
    BY <1>0, SMT DEF IInv, Calling, Exiting, Calls, machine, Set, Post, SwitchToTrap,
           Running68k, Depth, HandleExtendedTrap
  <1>6. Registers'
    BY <1>0, SMT DEF IInv, TypeOK, Registers, Acting, RightStack, machine, Set, Post,
           SwitchToTrap, Running68k, Depth, HandleExtendedTrap
  <1>7. \A d \in Context : thread[d] = "called" /\ ~Acting(d) =>
          /\ thread'[d] = "called" /\ ~Acting(d)'
          /\ calls'[d] = calls[d] /\ saved_regs'[d] = saved_regs[d]
    BY <1>0, SMT DEF Acting, machine, Set, Post, SwitchToTrap, Running68k,
           HandleExtendedTrap
  <1>8. NoDangling' /\ Frames'
    <2>1. stack' = stack
      BY DEF machine, Set, Post, SwitchToTrap, Running68k, HandleExtendedTrap
    <2> QED BY <1>7, <2>1, SameStack DEF IInv
  <1> QED BY <1>1, <1>2, <1>3, <1>4, <1>5, <1>6, <1>7, <1>8 DEF IInv

LEMMA SwitchedBackKeeps == ASSUME IInv, SwitchedBack
  PROVE  IInv'
  <1>0. /\ awaited \in Context /\ emu = "wait"
        /\ switch_to_trap_sem[awaited] = 0 /\ switch_to_emu_sem[awaited] = 1
        /\ thread[awaited] \in {"called", "gone"}
    <2>1. awaited \in Context /\ emu = "wait" /\ switch_to_emu_sem[awaited] # 0
      BY SMT DEF IInv, Baton, SwitchedBack
    <2>2. switch_to_emu_sem[awaited] = 1
      BY <2>1 DEF IInv, TypeOK
    <2> QED BY <2>1, <2>2, TokenIs DEF IInv, Baton
  <1>a. /\ thread[awaited] = "called" <=> Calling(awaited)
        /\ thread[awaited] = "gone" <=> Exiting(awaited)
        /\ current_context = awaited
        /\ thread[awaited] = "called" => pc = "call_trap"
        /\ thread[awaited] = "gone" => pc = "exit_trap"
    BY <1>0 DEF IInv, Address, Calling, Exiting
  <1>b. /\ emu' = "run" /\ switch_to_emu_sem' = [switch_to_emu_sem EXCEPT ![awaited] = 0]
        /\ UNCHANGED <<machine, awaited, trap_mutex, current_context, thread,
                       switch_to_trap_sem, local, resets>>
    BY <1>0, SMT DEF SwitchedBack, Waited
  <1>c. pc \in {"call_trap", "exit_trap"}
    BY <1>0, <1>a
  <1>1. TypeOK'
    BY <1>0, <1>b DEF IInv, TypeOK, machine, sems, local
  <1>2. Baton'
    <2>1. \A c \in Context : thread[c] \in {"free", "called", "gone"} /\ Token(c)' = 0
      <3>1. ASSUME NEW c \in Context, c # awaited
            PROVE  thread[c] \in {"free", "called", "gone"} /\ Token(c)' = 0
        <4>1. switch_to_trap_sem'[c] = 0 /\ switch_to_emu_sem'[c] = 0
          BY <1>b, <3>1, AtRest DEF IInv, TypeOK
        <4> QED BY <3>1, <4>1, AtRest, SMT DEF Token
      <3>2. ASSUME NEW c \in Context, c = awaited
            PROVE  thread[c] \in {"free", "called", "gone"} /\ Token(c)' = 0
        <4>1. switch_to_trap_sem'[c] = 0 /\ switch_to_emu_sem'[c] = 0
          BY <1>0, <1>b, <3>2 DEF IInv, TypeOK
        <4> QED BY <1>0, <3>2, <4>1, SMT DEF Token
      <3> QED BY <3>1, <3>2
    <2> QED BY <1>b, <2>1 DEF Baton
  <1>3. Section'
    BY <1>0, <1>b, <1>c DEF IInv, Section, Inside, machine
  <1>4. Address'
    BY <1>0, <1>a, <1>b DEF IInv, Address, Calling, Exiting, machine
  <1>5. Calls'
    <2>1. \A c \in Context : Calling(c)' => c = awaited /\ Calling(c)
      BY <1>a, <1>b, <1>0 DEF Calling, Exiting, machine
    <2>2. Depth(task)' = Depth(task) /\ \A t \in Task : Depth(t)' = Depth(t)
      BY <1>b DEF Depth, machine
    <2>3. \A c \in Context : thread[c] \notin {"call", "callend"}
      BY <1>0, AtRest
    <2> QED BY <1>b, <2>1, <2>2, <2>3 DEF IInv, Calls, machine, local
  <1>6. Registers'
    <2>1. \A c \in Context : Acting(c)' => Acting(c)
      BY <1>0, <1>a, <1>b DEF Acting, machine
    <2>2. Depth(task)' = Depth(task) /\ \A t \in Task : Depth(t)' = Depth(t)
      BY <1>b DEF Depth, machine
    <2> QED BY <1>b, <1>c, <2>1, <2>2 DEF IInv, Registers, RightStack, Running68k,
                   machine, local
  <1>7. \A d \in Context : thread[d] = "called" /\ ~Acting(d) =>
          /\ thread'[d] = "called" /\ ~Acting(d)'
          /\ calls'[d] = calls[d] /\ saved_regs'[d] = saved_regs[d]
    BY <1>0, <1>a, <1>b DEF Acting, machine, local
  <1>8. NoDangling' /\ Frames'
    BY <1>b, <1>7, SameStack DEF IInv, machine
  <1> QED BY <1>1, <1>2, <1>3, <1>4, <1>5, <1>6, <1>8 DEF IInv

LEMMA CallHandlerKeeps == ASSUME IInv, CallHandler
  PROVE  IInv'
  <1> DEFINE c == current_context
             f == [context |-> c, function |-> <<c, calls[c]>>]
  <1>0. /\ emu = "run" /\ pc = "call_trap" /\ c \in Context /\ thread[c] = "called"
        /\ switch_to_trap_sem[c] = 0 /\ switch_to_emu_sem[c] = 0
        /\ Acting(c) /\ Depth(task) < MaxDepth /\ Depth(task) \in Nat
        /\ saved_regs[c].act = <<task, Depth(task)>> /\ calls[c] \in 0 .. MaxCalls
        /\ task \in Task
    <2>1. emu = "run" /\ pc = "call_trap" /\ c \in Context
      BY DEF IInv, Address, CallHandler
    <2>2. Calling(c) /\ Acting(c) /\ ~Exiting(c)
      BY <2>1 DEF Calling, Acting, Exiting
    <2>3. thread[c] = "called" /\ switch_to_trap_sem[c] = 0 /\ switch_to_emu_sem[c] = 0
      BY <2>1, <2>2, AtRest DEF IInv, Address
    <2>4. Depth(task) \in Nat /\ task \in Task /\ calls[c] \in 0 .. MaxCalls
      BY <2>1, LenProperties DEF IInv, TypeOK, Depth
    <2> QED BY <2>1, <2>2, <2>3, <2>4 DEF IInv, Calls, Registers
  <1>a. /\ stack' = [stack EXCEPT ![task] = Append(stack[task], f)]
        /\ regs' = <<task, Depth(task) + 1>> /\ pc' = "code"
        /\ trap_mutex' = trap_mutex + 1 /\ emu' = "unmask" /\ awaited' = c
        /\ UNCHANGED <<task, tcb, masked, current_context, thread, sems, local, resets>>
    BY DEF CallHandler, Set
  <1>b. f \in Frame /\ stack \in [Task -> Seq(Frame)]
    <2>1. <<c, calls[c]>> \in Function
      BY <1>0 DEF Function
    <2> QED BY <1>0, <2>1 DEF IInv, TypeOK, Frame
  <1>c. /\ stack' \in [Task -> Seq(Frame)]
        /\ Depth(task)' = Depth(task) + 1
        /\ \A t \in Task : t # task => stack'[t] = stack[t] /\ Depth(t)' = Depth(t)
        /\ \A i \in 1 .. Depth(task) : stack'[task][i] = stack[task][i]
        /\ stack'[task][Depth(task) + 1] = f
    <2>1. stack'[task] = Append(stack[task], f) /\ stack[task] \in Seq(Frame)
      BY <1>0, <1>a, <1>b
    <2>2. /\ Append(stack[task], f) \in Seq(Frame)
          /\ Len(Append(stack[task], f)) = Len(stack[task]) + 1
          /\ \A i \in 1 .. Len(stack[task]) : Append(stack[task], f)[i] = stack[task][i]
          /\ Append(stack[task], f)[Len(stack[task]) + 1] = f
      <3> HIDE DEF f
      <3> QED BY <1>b, <2>1, AppendProperties
    <2>3. task' = task
      BY <1>a
    <2> QED BY <1>0, <1>a, <1>b, <2>1, <2>2, <2>3 DEF Depth
  <1>d. \A t \in Task : \A i \in 1 .. Depth(t) :
          stack[t][i].context \in Context \ {c}
    BY <1>0, FrameIs DEF IInv, Frames
  <1>e. \A t \in Task : Depth(t) \in Nat
    BY <1>b, LenProperties DEF Depth
  <1>g. \A t \in Task : \A i \in 1 .. Depth(t)' :
          /\ t = task /\ i = Depth(task) + 1 => stack'[t][i] = f
          /\ ~(t = task /\ i = Depth(task) + 1) =>
               i \in 1 .. Depth(t) /\ stack'[t][i] = stack[t][i]
    <2> HIDE DEF f
    <2>1. ASSUME NEW t \in Task, NEW i \in 1 .. Depth(t)', t # task
          PROVE  i \in 1 .. Depth(t) /\ stack'[t][i] = stack[t][i]
      BY <1>c, <2>1
    <2>2. ASSUME NEW i \in 1 .. Depth(task)'
          PROVE  /\ i = Depth(task) + 1 => stack'[task][i] = f
                 /\ i # Depth(task) + 1 =>
                      i \in 1 .. Depth(task) /\ stack'[task][i] = stack[task][i]
      <3>1. i \in 1 .. Depth(task) + 1
        BY <1>c, <2>2
      <3>2. i # Depth(task) + 1 => i \in 1 .. Depth(task)
        BY <1>0, <3>1, SMT
      <3> QED BY <1>c, <3>2
    <2>3. task' = task
      BY <1>a
    <2> QED BY <2>1, <2>2, <2>3
  <1>1. TypeOK'
    <2>1. regs' \in Activation
      BY <1>0, <1>a, TrapsAssumption, SMT DEF Activation
    <2>2. trap_mutex' \in {0, 1}
      BY <1>0, <1>a, SMT DEF IInv, Section, Inside
    <2> QED BY <1>0, <1>a, <1>c, <2>1, <2>2 DEF IInv, TypeOK, sems, local
  <1>2. Baton'
    <2>1. \A d \in Context : thread[d] \in {"free", "called", "gone"} /\ Token(d) = 0
      BY <1>0 DEF IInv, Baton
    <2>2. \A d \in Context : Token(d)' = Token(d)
      BY <1>a DEF Token, sems
    <2> QED BY <1>0, <1>a, <2>1, <2>2 DEF Baton
  <1>3. Section'
    BY <1>0, <1>a, SMT DEF IInv, Section, Inside
  <1>4. Address'
    BY <1>a DEF Address, Calling, Exiting
  <1>5. Calls'
    <2>1. \A t \in Task : Depth(t)' <= MaxDepth
      <3>1. Depth(task) + 1 <= MaxDepth
        BY <1>0, TrapsAssumption, SMT
      <3>2. ASSUME NEW t \in Task PROVE Depth(t)' <= MaxDepth
        <4>1. CASE t = task
          BY <1>a, <1>c, <3>1, <4>1
        <4>2. CASE t # task
          BY <1>c, <4>2 DEF IInv, Calls
        <4> QED BY <4>1, <4>2
      <3> QED BY <3>2
    <2>2. \A d \in Context : thread[d] \notin {"call", "callend"}
      BY <1>0, AtRest
    <2> QED BY <1>a, <2>1, <2>2 DEF Calls, Calling
  <1>6. Registers'
    BY <1>0, <1>a, <1>c DEF IInv, Registers, RightStack, Running68k, Acting
  <1>7. NoDangling'
    <2>2. f.context = c
      OBVIOUS
    <2>3. \A t, u \in Task : \A i \in 1 .. Depth(t), j \in 1 .. Depth(u) :
            /\ thread[stack[t][i].context] = "called"
            /\ stack[t][i].context = stack[u][j].context => t = u /\ i = j
      BY DEF IInv, NoDangling
    <2>4. thread' = thread
      BY <1>a
    <2> HIDE DEF c, f
    <2>5. ASSUME NEW t \in Task, NEW u \in Task, NEW i \in 1 .. Depth(t)',
                 NEW j \in 1 .. Depth(u)'
          PROVE  /\ thread'[stack'[t][i].context] = "called"
                 /\ stack'[t][i].context = stack'[u][j].context => t = u /\ i = j
      <3>1. thread'[stack'[t][i].context] = "called"
        BY <1>0, <1>g, <2>2, <2>3, <2>4, <2>5
      <3>2. ASSUME stack'[t][i].context = stack'[u][j].context PROVE t = u /\ i = j
        BY <1>d, <1>g, <2>2, <2>3, <2>5, <3>2
      <3> QED BY <3>1, <3>2
    <2> QED BY <2>5 DEF NoDangling
  <1>8. Frames'
    <2>2. calls' = calls /\ saved_regs' = saved_regs /\ \A d : ~Acting(d)'
      BY <1>a DEF local, Acting
    <2>3. ASSUME NEW t \in Task, NEW i \in 1 .. Depth(t)'
          PROVE  LET d == stack'[t][i].context IN
                 /\ stack'[t][i].function = <<d, calls'[d]>>
                 /\ saved_regs'[d].act = <<t, i - 1>>
      <3>1. CASE t = task /\ i = Depth(task) + 1
        <4>1. stack'[t][i] = f /\ i - 1 = Depth(task)
          BY <1>0, <1>g, <3>1, SMT
        <4> QED BY <1>0, <2>2, <3>1, <4>1
      <3>2. CASE ~(t = task /\ i = Depth(task) + 1)
        BY <1>g, <2>2, <3>2 DEF IInv, Frames
      <3> QED BY <3>1, <3>2
    <2> QED BY <2>2, <2>3 DEF Frames
  <1> QED BY <1>1, <1>2, <1>3, <1>4, <1>5, <1>6, <1>7, <1>8 DEF IInv

LEMMA UnmaskKeeps == ASSUME IInv, Unmask
  PROVE  IInv'
  <1>1. TypeOK'
    <2>1. masked' \in BOOLEAN
      BY SMT DEF IInv, TypeOK, Baton, OnTrap, sems, local, Unmask
    <2>2. emu' \in {"run", "unmask", "returning", "wait"}
      BY SMT DEF sems, local, Unmask
    <2> QED BY <2>1, <2>2 DEF IInv, TypeOK, sems, local, Unmask
  <1>2. Baton'
    BY SMT DEF IInv, Baton, Token, OnTrap, sems, local, Unmask
  <1>3. Section'
    BY SMT DEF IInv, Section, Inside, Address, sems, local, Unmask
  <1>4. Address'
    BY SMT DEF IInv, Address, Calling, Exiting, sems, local, Unmask
  <1>5. Calls'
    BY SMT DEF IInv, Address, Calling, Exiting, Calls, sems, local, Depth, Unmask
  <1>6. Registers'
    BY SMT DEF IInv, Address, Registers, Acting, RightStack, sems, local, Running68k,
           Depth, Unmask
  <1>7. \A d \in Context : thread[d] = "called" /\ ~Acting(d) =>
          /\ thread'[d] = "called" /\ ~Acting(d)'
          /\ calls'[d] = calls[d] /\ saved_regs'[d] = saved_regs[d]
    BY SMT DEF IInv, Address, Acting, sems, local, Unmask
  <1>8. NoDangling' /\ Frames'
    <2>1. stack' = stack
      BY DEF sems, local, Unmask
    <2> QED BY <1>7, <2>1, SameStack DEF IInv
  <1> QED BY <1>1, <1>2, <1>3, <1>4, <1>5, <1>6, <1>7, <1>8 DEF IInv

LEMMA ReturnHandlerLockKeeps == ASSUME IInv, ReturnHandlerLock
  PROVE  IInv'
  <1>1. TypeOK'
    <2>1. trap_mutex' \in {0, 1}
      BY SMT DEF IInv, TypeOK, machine, sems, local, ReturnHandlerLock
    <2>2. emu' \in {"run", "unmask", "returning", "wait"}
      BY SMT DEF machine, sems, local, ReturnHandlerLock
    <2> QED BY <2>1, <2>2 DEF IInv, TypeOK, machine, sems, local, ReturnHandlerLock
  <1>2. Baton'
    BY SMT DEF IInv, Baton, Token, OnTrap, machine, sems, local, ReturnHandlerLock
  <1>3. Section'
    BY SMT DEF IInv, TypeOK, Section, Inside, machine, sems, local, ReturnHandlerLock
  <1>4. Address'
    BY SMT DEF IInv, Address, Calling, Exiting, machine, sems, local, Depth,
           ReturnHandlerLock
  <1>5. Calls'
    BY SMT DEF IInv, Calling, Exiting, Calls, machine, sems, local, Depth,
           ReturnHandlerLock
  <1>6. Registers'
    BY SMT DEF IInv, Registers, Acting, RightStack, machine, sems, local, Running68k,
           Depth, ReturnHandlerLock
  <1>7. \A d \in Context : thread[d] = "called" /\ ~Acting(d) =>
          /\ thread'[d] = "called" /\ ~Acting(d)'
          /\ calls'[d] = calls[d] /\ saved_regs'[d] = saved_regs[d]
    BY SMT DEF Acting, machine, sems, local, ReturnHandlerLock
  <1>8. NoDangling' /\ Frames'
    <2>1. stack' = stack
      BY DEF machine, sems, local, ReturnHandlerLock
    <2> QED BY <1>7, <2>1, SameStack DEF IInv
  <1> QED BY <1>1, <1>2, <1>3, <1>4, <1>5, <1>6, <1>7, <1>8 DEF IInv

LEMMA ReturnHandlerKeeps == ASSUME IInv, ReturnHandler
  PROVE  IInv'
  <1>p. PICK n \in Nat, f \in Frame : n = Depth(task) /\ f = Last(stack[task])
    <2>1. task \in Task /\ Depth(task) > 0
      BY DEF IInv, TypeOK, Address, ReturnHandler
    <2>2. Depth(task) \in Nat /\ Depth(task) = Len(stack[task])
      BY <2>1, LenProperties DEF IInv, TypeOK, Depth
    <2>3. Last(stack[task]) = stack[task][Depth(task)] /\ Depth(task) \in 1 .. Depth(task)
      BY <2>1, <2>2, SMT DEF Last
    <2>4. Last(stack[task]) \in Frame
      BY <2>1, <2>3, FrameIs DEF IInv
    <2> QED BY <2>2, <2>4
  <1> DEFINE c == f.context
  <1>0. /\ emu = "returning" /\ task \in Task /\ stack \in [Task -> Seq(Frame)]
        /\ stack[task] \in Seq(Frame) /\ n \in Nat \ {0} /\ n \in 1 .. n
        /\ n = Len(stack[task]) /\ n <= MaxDepth
    <2>1. /\ emu = "returning" /\ task \in Task /\ stack \in [Task -> Seq(Frame)]
          /\ Depth(task) > 0
      BY DEF IInv, TypeOK, Address, ReturnHandler
    <2> QED BY <1>p, <2>1, SMT DEF IInv, Calls, Depth
  <1>a. /\ f = stack[task][n] /\ f \in Frame /\ c \in Context /\ thread[c] = "called"
        /\ f.function = <<c, calls[c]>> /\ f.function \in Function
        /\ saved_regs[c].act = <<task, n - 1>> /\ ~Acting(c)
        /\ switch_to_trap_sem[c] = 0 /\ switch_to_emu_sem[c] = 0
    <2>1. f = stack[task][n] /\ f \in Frame /\ c \in Context /\ thread[c] = "called"
      <3>1. f = stack[task][n]
        BY <1>0, <1>p DEF Last
      <3>2. n \in 1 .. Depth(task)
        BY <1>0, <1>p
      <3> QED BY <1>0, <3>1, <3>2 DEF IInv, NoDangling, Frame
    <2>2. f.function \in Function
      BY <2>1 DEF Frame
    <2>3. n \in 1 .. Depth(task)
      BY <1>0, <1>p
    <2> QED BY <1>0, <2>1, <2>2, <2>3, AtRest DEF IInv, Frames
  <1>b. /\ stack' = [stack EXCEPT ![task] = Front(stack[task])]
        /\ call68k_retval' = [call68k_retval EXCEPT ![c] = f.function]
        /\ switch_to_trap_sem' = [switch_to_trap_sem EXCEPT ![c] = 1]
        /\ emu' = "wait" /\ awaited' = c
        /\ UNCHANGED <<task, regs, tcb, pc, masked, trap_mutex, current_context, thread,
                       running, switch_to_emu_sem, saved_regs, calls, resets>>
    <2>1. /\ stack' = [stack EXCEPT ![task] = Front(stack[task])]
          /\ call68k_retval' = [call68k_retval EXCEPT ![c] = f.function]
          /\ switch_to_trap_sem' = [switch_to_trap_sem EXCEPT
                                      ![c] = switch_to_trap_sem[c] + 1]
          /\ emu' = "wait" /\ awaited' = c
          /\ UNCHANGED <<task, regs, tcb, pc, masked, trap_mutex, current_context, thread,
                         running, switch_to_emu_sem, saved_regs, calls, resets>>
      BY <1>p DEF ReturnHandler, SwitchToTrap, Post, Set
    <2>2. switch_to_trap_sem[c] + 1 = 1
      BY <1>a, SMT
    <2> QED BY <2>1, <2>2
  <1>c. /\ stack' \in [Task -> Seq(Frame)]
        /\ Depth(task)' = n - 1
        /\ \A t \in Task : t # task => stack'[t] = stack[t] /\ Depth(t)' = Depth(t)
        /\ \A i \in 1 .. n - 1 : stack'[task][i] = stack[task][i]
    <2>1. stack'[task] = SubSeq(stack[task], 1, n - 1)
      BY <1>0, <1>b DEF Front
    <2>2. /\ SubSeq(stack[task], 1, n - 1) \in Seq(Frame)
          /\ Len(SubSeq(stack[task], 1, n - 1)) = n - 1
          /\ \A i \in 1 .. n - 1 : SubSeq(stack[task], 1, n - 1)[i] = stack[task][i]
      <3>1. /\ 1 \in 1 .. Len(stack[task]) + 1 /\ n - 1 \in 1 - 1 .. Len(stack[task])
            /\ (n - 1) - 1 + 1 = n - 1
            /\ \A i \in 1 .. n - 1 : 1 + i - 1 = i
        BY <1>0, SMT
      <3> QED BY <1>0, <3>1, SMT
    <2>3. task' = task
      BY <1>b
    <2> QED BY <1>0, <1>b, <2>1, <2>2, <2>3 DEF Depth
  <1>d. \A t \in Task : Depth(t) \in Nat
    BY <1>0, LenProperties DEF Depth
  <1>e. \A t \in Task : \A i \in 1 .. Depth(t)' :
          /\ i \in 1 .. Depth(t) /\ stack'[t][i] = stack[t][i]
          /\ ~(t = task /\ i = n)
    <2>1. ASSUME NEW t \in Task, NEW i \in 1 .. Depth(t)', t # task
          PROVE  i \in 1 .. Depth(t) /\ stack'[t][i] = stack[t][i]
      BY <1>c, <2>1
    <2>2. ASSUME NEW i \in 1 .. Depth(task)'
          PROVE  i \in 1 .. Depth(task) /\ stack'[task][i] = stack[task][i] /\ i # n
      <3>1. i \in 1 .. n - 1
        BY <1>c, <2>2
      <3>2. i \in 1 .. n /\ i # n
        BY <3>1, SMT
      <3> QED BY <1>c, <1>p, <3>1, <3>2
    <2>3. task' = task
      BY <1>b
    <2> QED BY <2>1, <2>2, <2>3
  <1>f. \A t \in Task : \A i \in 1 .. Depth(t)' :
          /\ stack'[t][i] = stack[t][i] /\ stack[t][i].context \in Context \ {c}
          /\ i \in 1 .. Depth(t)
    <2>1. n \in 1 .. Depth(task)
      BY <1>0, <1>p
    <2>2. ASSUME NEW t \in Task, NEW i \in 1 .. Depth(t)'
          PROVE  /\ i \in 1 .. Depth(t) /\ stack'[t][i] = stack[t][i]
                 /\ stack[t][i].context \in Context \ {c}
      <3>1. i \in 1 .. Depth(t) /\ stack'[t][i] = stack[t][i] /\ ~(t = task /\ i = n)
        BY <1>e
      <3>2. stack[t][i].context # stack[task][n].context
        BY <1>0, <2>1, <3>1 DEF IInv, NoDangling
      <3>3. stack[t][i].context \in Context
        BY <3>1, FrameIs DEF IInv
      <3> QED BY <1>a, <3>1, <3>2, <3>3
    <2> QED BY <2>2
  <1> HIDE DEF c
  <1>1. TypeOK'
    BY <1>0, <1>a, <1>b, <1>c DEF IInv, TypeOK
  <1>2. Baton'
    <2>1. \A d \in Context : thread[d] \in {"free", "called", "gone"} /\ Token(d) = 0
      BY <1>0 DEF IInv, Baton
    <2>2. \A d \in Context : d # c => Token(d)' = Token(d)
      BY <1>b DEF IInv, TypeOK, Token
    <2>3. Token(c)' = 1
      <3>1. switch_to_trap_sem'[c] = 1 /\ switch_to_emu_sem'[c] = 0
        BY <1>a, <1>b DEF IInv, TypeOK
      <3> QED BY <3>1, SMT DEF Token, c
    <2> QED BY <1>a, <1>b, <2>1, <2>2, <2>3 DEF Baton
  <1>3. Section'
    BY <1>0, <1>a, <1>b DEF IInv, Section, Inside
  <1>4. Address'
    BY <1>a, <1>b DEF Address, Calling, Exiting
  <1>5. Calls'
    <2>1. \A t \in Task : Depth(t)' <= MaxDepth
      <3>1. n - 1 <= MaxDepth
        BY <1>0, TrapsAssumption, SMT
      <3>2. ASSUME NEW t \in Task PROVE Depth(t)' <= MaxDepth
        <4>1. CASE t = task
          BY <1>b, <1>c, <3>1, <4>1
        <4>2. CASE t # task
          BY <1>c, <4>2 DEF IInv, Calls
        <4> QED BY <4>1, <4>2
      <3> QED BY <3>2
    <2>2. \A d \in Context : thread[d] \notin {"call", "callend"}
      BY <1>0, AtRest
    <2>3. \A d \in Context : ~Calling(d)'
      BY <1>a, <1>b DEF Calling
    <2>4. call68k_retval'[c] = <<c, calls'[c]>>
      BY <1>a, <1>b DEF IInv, TypeOK
    <2> QED BY <1>b, <2>1, <2>2, <2>3, <2>4 DEF Calls
  <1>6. Registers'
    <2>1. \A t \in Task : t # task => tcb[t] = <<t, Depth(t)>>
      BY DEF IInv, Registers
    <2> QED BY <1>a, <1>b, <1>c, <2>1 DEF Registers, RightStack, Running68k, Acting
  <1>7. NoDangling'
    <2>1. \A t, u \in Task : \A i \in 1 .. Depth(t), j \in 1 .. Depth(u) :
            /\ thread[stack[t][i].context] = "called"
            /\ stack[t][i].context = stack[u][j].context => t = u /\ i = j
      BY DEF IInv, NoDangling
    <2> QED BY <1>b, <1>f, <2>1 DEF NoDangling
  <1>8. Frames'
    <2>1. \A d \in Context : d # c => ~Acting(d)'
      BY <1>b DEF Acting
    <2> QED BY <1>b, <1>f, <2>1 DEF IInv, Frames
  <1> QED BY <1>1, <1>2, <1>3, <1>4, <1>5, <1>6, <1>7, <1>8 DEF IInv

LEMMA ExitHandlerKeeps == ASSUME IInv, ExitHandler
  PROVE  IInv'
  <1>1. TypeOK'
    <2>1. regs' \in Activation
      BY SMT DEF IInv, TypeOK, Address, sems, local, Set, ExitHandler
    <2>2. masked' \in BOOLEAN
      BY SMT DEF IInv, TypeOK, Address, sems, local, Set, ExitHandler
    <2>3. pc' \in {"code", "call_trap", "return_trap", "exit_trap"}
      BY SMT DEF sems, local, Set, ExitHandler
    <2>4. thread' \in [Context -> OnTrap \cup {"free", "start", "called", "gone"}]
      BY SMT DEF IInv, TypeOK, Address, sems, local, Set, ExitHandler
    <2>5. trap_mutex' \in {0, 1}
      BY SMT DEF IInv, Section, Inside, sems, local, Set, ExitHandler
    <2> QED BY <2>1, <2>2, <2>3, <2>4, <2>5 DEF IInv, TypeOK, sems, local, Set,
                   ExitHandler
  <1>2. Baton'
    BY SMT DEF IInv, Baton, Token, OnTrap, sems, local, Set, ExitHandler
  <1>3. Section'
    BY SMT DEF IInv, Section, Inside, sems, local, Set, ExitHandler
  <1>4. Address'
    BY SMT DEF IInv, Address, Calling, Exiting, sems, local, Set, ExitHandler
  <1>5. Calls'
    BY SMT DEF IInv, Calling, Exiting, Calls, sems, local, Set, Depth, ExitHandler
  <1>6. Registers'
    BY SMT DEF IInv, Address, Registers, Acting, RightStack, sems, local, Set,
           Running68k, Depth, ExitHandler
  <1>7. \A d \in Context : thread[d] = "called" /\ ~Acting(d) =>
          /\ thread'[d] = "called" /\ ~Acting(d)'
          /\ calls'[d] = calls[d] /\ saved_regs'[d] = saved_regs[d]
    BY SMT DEF Acting, sems, local, Set, ExitHandler
  <1>8. NoDangling' /\ Frames'
    <2>1. stack' = stack
      BY DEF sems, local, Set, ExitHandler
    <2> QED BY <1>7, <2>1, SameStack DEF IInv
  <1> QED BY <1>1, <1>2, <1>3, <1>4, <1>5, <1>6, <1>7, <1>8 DEF IInv

LEMMA HandlerStartsKeeps == ASSUME NEW c \in Context, IInv, HandlerStarts(c)
  PROVE  IInv'
  <1>1. TypeOK'
    <2>1. thread' \in [Context -> OnTrap \cup {"free", "start", "called", "gone"}]
      BY SMT DEF IInv, TypeOK, OnTrap, machine, local, Set, Waited, Goes, Wakes,
             HandlerStarts
    <2>2. switch_to_trap_sem' \in [Context -> {0, 1}]
      BY SMT DEF IInv, TypeOK, machine, local, Set, Waited, Goes, Wakes, HandlerStarts
    <2> QED BY <2>1, <2>2 DEF IInv, TypeOK, machine, local, Set, Waited, Goes, Wakes,
                   HandlerStarts
  <1>2. Baton'
    BY SMT DEF IInv, TypeOK, Baton, Token, OnTrap, machine, local, Set, Waited, Goes,
           Wakes, HandlerStarts
  <1>3. Section'
    BY SMT DEF IInv, Section, Inside, machine, local, Set, Waited, Goes, Wakes,
           HandlerStarts
  <1>4. Address'
    BY SMT DEF IInv, Address, Calling, Exiting, machine, local, Set, Waited, Goes,
           Wakes, Depth, HandlerStarts
  <1>5. Calls'
    BY SMT DEF IInv, Calling, Exiting, Calls, machine, local, Set, Waited, Goes,
           Wakes, Depth, HandlerStarts
  <1>6. Registers'
    BY SMT DEF IInv, Registers, Acting, RightStack, machine, local, Set, Waited,
           Running68k, Goes, Wakes, Depth, HandlerStarts
  <1>7. \A d \in Context : thread[d] = "called" /\ ~Acting(d) =>
          /\ thread'[d] = "called" /\ ~Acting(d)'
          /\ calls'[d] = calls[d] /\ saved_regs'[d] = saved_regs[d]
    BY SMT DEF Acting, machine, local, Set, Waited, Goes, Wakes, HandlerStarts
  <1>8. NoDangling' /\ Frames'
    <2>1. stack' = stack
      BY DEF machine, local, Set, Waited, Goes, Wakes, HandlerStarts
    <2> QED BY <1>7, <2>1, SameStack DEF IInv
  <1> QED BY <1>1, <1>2, <1>3, <1>4, <1>5, <1>6, <1>7, <1>8 DEF IInv

LEMMA CallEntersKeeps == ASSUME NEW c \in Context, IInv, CallEnters(c)
  PROVE  IInv'
  <1>0. /\ emu = "wait" /\ awaited = c
        /\ switch_to_trap_sem[c] = 0 /\ switch_to_emu_sem[c] = 0
          /\ thread[c] = "handler"
    BY HasMachine DEF OnTrap, CallEnters, Goes, Enters, SwitchToEmu
  <1>1. TypeOK'
    <2>1. thread' \in [Context -> OnTrap \cup {"free", "start", "called", "gone"}]
      BY <1>0, SMT DEF IInv, TypeOK, OnTrap, machine, sems, local, Set, Goes, Enters,
             CallEnters
    <2>2. trap_mutex' \in {0, 1}
      BY <1>0, SMT DEF IInv, TypeOK, machine, sems, local, Set, Goes, Enters,
             CallEnters
    <2> QED BY <2>1, <2>2 DEF IInv, TypeOK, machine, sems, local, Set, Goes, Enters,
                   CallEnters
  <1>2. Baton'
    BY <1>0, SMT DEF IInv, Baton, Token, OnTrap, machine, sems, local, Set, Goes,
           Enters, CallEnters
  <1>3. Section'
    BY <1>0, SMT DEF IInv, TypeOK, Section, Inside, machine, sems, local, Set, Goes,
           Enters, CallEnters
  <1>4. Address'
    BY <1>0, SMT DEF IInv, Address, Calling, Exiting, machine, sems, local, Set, Goes,
           Enters, CallEnters
  <1>5. Calls'
    BY <1>0, SMT DEF IInv, Calls, machine, sems, local, Set, Goes, Enters, Depth,
           CallEnters
  <1>6. Registers'
    BY <1>0, SMT DEF IInv, Registers, Acting, RightStack, machine, sems, local, Set,
           Running68k, Goes, Enters, Depth, CallEnters
  <1>7. \A d \in Context : thread[d] = "called" /\ ~Acting(d) =>
          /\ thread'[d] = "called" /\ ~Acting(d)'
          /\ calls'[d] = calls[d] /\ saved_regs'[d] = saved_regs[d]
    BY <1>0, SMT DEF Acting, machine, sems, local, Set, Goes, Enters, CallEnters
  <1>8. NoDangling' /\ Frames'
    <2>1. stack' = stack
      BY DEF machine, sems, local, Set, Goes, Enters, CallEnters
    <2> QED BY <1>7, <2>1, SameStack DEF IInv
  <1> QED BY <1>1, <1>2, <1>3, <1>4, <1>5, <1>6, <1>7, <1>8 DEF IInv

LEMMA CallPreparesKeeps == ASSUME NEW c \in Context, IInv, CallPrepares(c)
  PROVE  IInv'
  <1>0. /\ emu = "wait" /\ awaited = c
        /\ switch_to_trap_sem[c] = 0 /\ switch_to_emu_sem[c] = 0
          /\ thread[c] = "call"
    BY HasMachine DEF OnTrap, CallPrepares, Goes, Enters, SwitchToEmu
  <1>1. TypeOK'
    <2>1. thread' \in [Context -> OnTrap \cup {"free", "start", "called", "gone"}]
      BY <1>0, SMT DEF IInv, TypeOK, OnTrap, sems, Set, Goes, CallPrepares
    <2>2. current_context' \in Context \cup {None}
      BY <1>0, SMT DEF sems, Set, Goes, CallPrepares
    <2>3. masked' \in BOOLEAN
      BY <1>0, SMT DEF sems, Set, Goes, CallPrepares
    <2>4. calls' \in [Context -> 0 .. MaxCalls]
      BY <1>0, TrapsAssumption, SMT DEF IInv, TypeOK, Calls, Activation, sems, Set,
             Goes, CallPrepares
    <2>5. pc' \in {"code", "call_trap", "return_trap", "exit_trap"}
      BY <1>0, SMT DEF sems, Set, Goes, CallPrepares
    <2> QED BY <2>1, <2>2, <2>3, <2>4, <2>5 DEF IInv, TypeOK, sems, Set, Goes,
                   CallPrepares
  <1>2. Baton'
    BY <1>0, SMT DEF IInv, Baton, Token, OnTrap, sems, Set, Goes, CallPrepares
  <1>3. Section'
    BY <1>0, SMT DEF IInv, Section, Inside, sems, Set, Goes, CallPrepares
  <1>4. Address'
    BY <1>0, SMT DEF IInv, Address, Calling, Exiting, sems, Set, Goes, CallPrepares
  <1>5. Calls'
    BY <1>0, SMT DEF IInv, TypeOK, Calls, sems, Set, Goes, Depth, CallPrepares
  <1>6. Registers'
    BY <1>0, SMT DEF IInv, Registers, Acting, RightStack, sems, Set, Running68k, Goes,
           Depth, CallPrepares
  <1>7. \A d \in Context : thread[d] = "called" /\ ~Acting(d) =>
          /\ thread'[d] = "called" /\ ~Acting(d)'
          /\ calls'[d] = calls[d] /\ saved_regs'[d] = saved_regs[d]
    BY <1>0, SMT DEF Acting, sems, Set, Goes, CallPrepares
  <1>8. NoDangling' /\ Frames'
    <2>1. stack' = stack
      BY DEF sems, Set, Goes, CallPrepares
    <2> QED BY <1>7, <2>1, SameStack DEF IInv
  <1> QED BY <1>1, <1>2, <1>3, <1>4, <1>5, <1>6, <1>7, <1>8 DEF IInv

LEMMA CallSwitchesKeeps == ASSUME NEW c \in Context, IInv, CallSwitches(c)
  PROVE  IInv'
  <1>0. /\ emu = "wait" /\ awaited = c
        /\ switch_to_trap_sem[c] = 0 /\ switch_to_emu_sem[c] = 0
          /\ thread[c] = "callpost"
    BY HasMachine DEF OnTrap, CallSwitches, Goes, Enters, SwitchToEmu
  <1>1. TypeOK'
    <2>1. thread' \in [Context -> OnTrap \cup {"free", "start", "called", "gone"}]
      BY <1>0, SMT DEF IInv, TypeOK, machine, local, Set, Post, Goes, SwitchToEmu,
             CallSwitches
    <2>2. switch_to_emu_sem' \in [Context -> {0, 1}]
      BY <1>0, SMT DEF IInv, TypeOK, machine, local, Set, Post, Goes, SwitchToEmu,
             CallSwitches
    <2> QED BY <2>1, <2>2 DEF IInv, TypeOK, machine, local, Set, Post, Goes,
                   SwitchToEmu, CallSwitches
  <1>2. Baton'
    BY <1>0, SMT DEF IInv, TypeOK, Baton, Token, OnTrap, machine, local, Set, Post,
           Goes, SwitchToEmu, CallSwitches
  <1>3. Section'
    BY <1>0, SMT DEF IInv, Section, Inside, machine, local, Set, Post, Goes,
           SwitchToEmu, CallSwitches
  <1>4. Address'
    BY <1>0, SMT DEF IInv, Address, Calling, Exiting, machine, local, Set, Post, Goes,
           SwitchToEmu, CallSwitches
  <1>5. Calls'
    BY <1>0, SMT DEF IInv, Calling, Exiting, Calls, machine, local, Set, Post, Goes,
           SwitchToEmu, Depth, CallSwitches
  <1>6. Registers'
    BY <1>0, SMT DEF IInv, Registers, Acting, RightStack, machine, local, Set, Post,
           Running68k, Goes, SwitchToEmu, Depth, CallSwitches
  <1>7. \A d \in Context : thread[d] = "called" /\ ~Acting(d) =>
          /\ thread'[d] = "called" /\ ~Acting(d)'
          /\ calls'[d] = calls[d] /\ saved_regs'[d] = saved_regs[d]
    BY <1>0, SMT DEF Acting, machine, local, Set, Post, Goes, SwitchToEmu,
           CallSwitches
  <1>8. NoDangling' /\ Frames'
    <2>1. stack' = stack
      BY DEF machine, local, Set, Post, Goes, SwitchToEmu, CallSwitches
    <2> QED BY <1>7, <2>1, SameStack DEF IInv
  <1> QED BY <1>1, <1>2, <1>3, <1>4, <1>5, <1>6, <1>7, <1>8 DEF IInv

LEMMA CallWakesKeeps == ASSUME NEW c \in Context, IInv, CallWakes(c)
  PROVE  IInv'
  <1>0. /\ emu = "wait" /\ awaited = c
        /\ switch_to_trap_sem[c] = 1 /\ switch_to_emu_sem[c] = 0
          /\ thread[c] = "called"
    BY Woken DEF CallWakes, Wakes, Goes
  <1>1. TypeOK'
    <2>1. thread' \in [Context -> OnTrap \cup {"free", "start", "called", "gone"}]
      BY <1>0, SMT DEF IInv, TypeOK, OnTrap, machine, local, Set, Waited, Goes, Wakes,
             CallWakes
    <2>2. switch_to_trap_sem' \in [Context -> {0, 1}]
      BY <1>0, SMT DEF IInv, TypeOK, machine, local, Set, Waited, Goes, Wakes,
             CallWakes
    <2> QED BY <2>1, <2>2 DEF IInv, TypeOK, machine, local, Set, Waited, Goes, Wakes,
                   CallWakes
  <1>2. Baton'
    BY <1>0, SMT DEF IInv, TypeOK, Baton, Token, OnTrap, machine, local, Set, Waited,
           Goes, Wakes, CallWakes
  <1>3. Section'
    BY <1>0, SMT DEF IInv, Section, Inside, machine, local, Set, Waited, Goes, Wakes,
           CallWakes
  <1>4. Address'
    BY <1>0, SMT DEF IInv, Address, Calling, Exiting, machine, local, Set, Waited,
           Goes, Wakes, CallWakes
  <1>5. Calls'
    BY <1>0, SMT DEF IInv, Calling, Exiting, Calls, machine, local, Set, Waited, Goes,
           Wakes, Depth, CallWakes
  <1>6. Registers'
    BY <1>0, SMT DEF IInv, Registers, Acting, RightStack, machine, local, Set, Waited,
           Running68k, Goes, Wakes, Depth, CallWakes
  <1>7. \A d \in Context : thread[d] = "called" /\ ~Acting(d) =>
          /\ thread'[d] = "called" /\ ~Acting(d)'
          /\ calls'[d] = calls[d] /\ saved_regs'[d] = saved_regs[d]
    BY <1>0, SMT DEF Acting, machine, local, Set, Waited, Goes, Wakes, CallWakes
  <1>8. NoDangling' /\ Frames'
    <2>1. stack' = stack
      BY DEF machine, local, Set, Waited, Goes, Wakes, CallWakes
    <2> QED BY <1>7, <2>1, SameStack DEF IInv
  <1> QED BY <1>1, <1>2, <1>3, <1>4, <1>5, <1>6, <1>7, <1>8 DEF IInv

LEMMA CallEndsKeeps == ASSUME NEW c \in Context, IInv, CallEnds(c)
  PROVE  IInv'
  <1>0. /\ emu = "wait" /\ awaited = c
        /\ switch_to_trap_sem[c] = 0 /\ switch_to_emu_sem[c] = 0
          /\ thread[c] = "callend"
    BY HasMachine DEF OnTrap, CallEnds, Goes, Enters, SwitchToEmu
  <1>1. TypeOK'
    <2>1. thread' \in [Context -> OnTrap \cup {"free", "start", "called", "gone"}]
      BY <1>0, SMT DEF IInv, TypeOK, OnTrap, machine, sems, local, Set, Goes, CallEnds
    <2>2. trap_mutex' \in {0, 1}
      BY <1>0, SMT DEF IInv, Section, Inside, machine, sems, local, Set, Goes,
             CallEnds
    <2> QED BY <2>1, <2>2 DEF IInv, TypeOK, machine, sems, local, Set, Goes, CallEnds
  <1>2. Baton'
    BY <1>0, SMT DEF IInv, Baton, Token, OnTrap, machine, sems, local, Set, Goes,
           CallEnds
  <1>3. Section'
    BY <1>0, SMT DEF IInv, TypeOK, Section, Inside, machine, sems, local, Set, Goes,
           CallEnds
  <1>4. Address'
    BY <1>0, SMT DEF IInv, Address, Calling, Exiting, machine, sems, local, Set, Goes,
           CallEnds
  <1>5. Calls'
    BY <1>0, SMT DEF IInv, Calling, Exiting, Calls, machine, sems, local, Set, Goes,
           Depth, CallEnds
  <1>6. Registers'
    BY <1>0, SMT DEF IInv, Registers, Acting, RightStack, machine, sems, local, Set,
           Running68k, Goes, Depth, CallEnds
  <1>7. \A d \in Context : thread[d] = "called" /\ ~Acting(d) =>
          /\ thread'[d] = "called" /\ ~Acting(d)'
          /\ calls'[d] = calls[d] /\ saved_regs'[d] = saved_regs[d]
    BY <1>0, SMT DEF Acting, machine, sems, local, Set, Goes, CallEnds
  <1>8. NoDangling' /\ Frames'
    <2>1. stack' = stack
      BY DEF machine, sems, local, Set, Goes, CallEnds
    <2> QED BY <1>7, <2>1, SameStack DEF IInv
  <1> QED BY <1>1, <1>2, <1>3, <1>4, <1>5, <1>6, <1>7, <1>8 DEF IInv

LEMMA HandlerEndsKeeps == ASSUME NEW c \in Context, IInv, HandlerEnds(c)
  PROVE  IInv'
  <1>0. /\ emu = "wait" /\ awaited = c
        /\ switch_to_trap_sem[c] = 0 /\ switch_to_emu_sem[c] = 0
          /\ thread[c] = "handler"
    BY HasMachine DEF OnTrap, HandlerEnds, Goes, Enters, SwitchToEmu
  <1>1. TypeOK'
    <2>1. thread' \in [Context -> OnTrap \cup {"free", "start", "called", "gone"}]
      BY <1>0, SMT DEF IInv, TypeOK, OnTrap, machine, sems, local, Set, Goes, Enters,
             HandlerEnds
    <2>2. trap_mutex' \in {0, 1}
      BY <1>0, SMT DEF IInv, TypeOK, machine, sems, local, Set, Goes, Enters,
             HandlerEnds
    <2> QED BY <2>1, <2>2 DEF IInv, TypeOK, machine, sems, local, Set, Goes, Enters,
                   HandlerEnds
  <1>2. Baton'
    BY <1>0, SMT DEF IInv, Baton, Token, OnTrap, machine, sems, local, Set, Goes,
           Enters, HandlerEnds
  <1>3. Section'
    BY <1>0, SMT DEF IInv, TypeOK, Section, Inside, machine, sems, local, Set, Goes,
           Enters, HandlerEnds
  <1>4. Address'
    BY <1>0, SMT DEF IInv, Address, Calling, Exiting, machine, sems, local, Set, Goes,
           Enters, HandlerEnds
  <1>5. Calls'
    BY <1>0, SMT DEF IInv, Calling, Exiting, Calls, machine, sems, local, Set, Goes,
           Enters, Depth, HandlerEnds
  <1>6. Registers'
    BY <1>0, SMT DEF IInv, Registers, Acting, RightStack, machine, sems, local, Set,
           Running68k, Goes, Enters, Depth, HandlerEnds
  <1>7. \A d \in Context : thread[d] = "called" /\ ~Acting(d) =>
          /\ thread'[d] = "called" /\ ~Acting(d)'
          /\ calls'[d] = calls[d] /\ saved_regs'[d] = saved_regs[d]
    BY <1>0, SMT DEF Acting, machine, sems, local, Set, Goes, Enters, HandlerEnds
  <1>8. NoDangling' /\ Frames'
    <2>1. stack' = stack
      BY DEF machine, sems, local, Set, Goes, Enters, HandlerEnds
    <2> QED BY <1>7, <2>1, SameStack DEF IInv
  <1> QED BY <1>1, <1>2, <1>3, <1>4, <1>5, <1>6, <1>7, <1>8 DEF IInv

LEMMA ExitPreparesKeeps == ASSUME NEW c \in Context, IInv, ExitPrepares(c)
  PROVE  IInv'
  <1>0. /\ emu = "wait" /\ awaited = c
        /\ switch_to_trap_sem[c] = 0 /\ switch_to_emu_sem[c] = 0
          /\ thread[c] = "exit"
    BY HasMachine DEF OnTrap, ExitPrepares, Goes, Enters, SwitchToEmu
  <1>1. TypeOK'
    <2>1. thread' \in [Context -> OnTrap \cup {"free", "start", "called", "gone"}]
      BY <1>0, SMT DEF IInv, TypeOK, OnTrap, sems, local, Set, Goes, ExitPrepares
    <2>2. regs' \in Activation
      BY <1>0, SMT DEF IInv, TypeOK, sems, local, Set, Goes, ExitPrepares
    <2>3. masked' \in BOOLEAN
      BY <1>0, SMT DEF sems, local, Set, Goes, ExitPrepares
    <2>4. pc' \in {"code", "call_trap", "return_trap", "exit_trap"}
      BY <1>0, SMT DEF sems, local, Set, Goes, ExitPrepares
    <2>5. current_context' \in Context \cup {None}
      BY <1>0, SMT DEF sems, local, Set, Goes, ExitPrepares
    <2> QED BY <2>1, <2>2, <2>3, <2>4, <2>5 DEF IInv, TypeOK, sems, local, Set, Goes,
                   ExitPrepares
  <1>2. Baton'
    BY <1>0, SMT DEF IInv, Baton, Token, OnTrap, sems, local, Set, Goes, ExitPrepares
  <1>3. Section'
    BY <1>0, SMT DEF IInv, Section, Inside, sems, local, Set, Goes, ExitPrepares
  <1>4. Address'
    BY <1>0, SMT DEF IInv, Address, Calling, Exiting, sems, local, Set, Goes,
           ExitPrepares
  <1>5. Calls'
    BY <1>0, SMT DEF IInv, Calling, Exiting, Calls, sems, local, Set, Goes, Depth,
           ExitPrepares
  <1>6. Registers'
    BY <1>0, SMT DEF IInv, Registers, Acting, RightStack, sems, local, Set,
           Running68k, Goes, Depth, ExitPrepares
  <1>7. \A d \in Context : thread[d] = "called" /\ ~Acting(d) =>
          /\ thread'[d] = "called" /\ ~Acting(d)'
          /\ calls'[d] = calls[d] /\ saved_regs'[d] = saved_regs[d]
    BY <1>0, SMT DEF Acting, sems, local, Set, Goes, ExitPrepares
  <1>8. NoDangling' /\ Frames'
    <2>1. stack' = stack
      BY DEF sems, local, Set, Goes, ExitPrepares
    <2> QED BY <1>7, <2>1, SameStack DEF IInv
  <1> QED BY <1>1, <1>2, <1>3, <1>4, <1>5, <1>6, <1>7, <1>8 DEF IInv

LEMMA ExitSwitchesKeeps == ASSUME NEW c \in Context, IInv, ExitSwitches(c)
  PROVE  IInv'
  <1>0. /\ emu = "wait" /\ awaited = c
        /\ switch_to_trap_sem[c] = 0 /\ switch_to_emu_sem[c] = 0
          /\ thread[c] = "exitpost"
    BY HasMachine DEF OnTrap, ExitSwitches, Goes, Enters, SwitchToEmu
  <1>1. TypeOK'
    <2>1. thread' \in [Context -> OnTrap \cup {"free", "start", "called", "gone"}]
      BY <1>0, SMT DEF IInv, TypeOK, machine, local, Set, Post, Goes, SwitchToEmu,
             ExitSwitches
    <2>2. switch_to_emu_sem' \in [Context -> {0, 1}]
      BY <1>0, SMT DEF IInv, TypeOK, machine, local, Set, Post, Goes, SwitchToEmu,
             ExitSwitches
    <2> QED BY <2>1, <2>2 DEF IInv, TypeOK, machine, local, Set, Post, Goes,
                   SwitchToEmu, ExitSwitches
  <1>2. Baton'
    BY <1>0, SMT DEF IInv, TypeOK, Baton, Token, OnTrap, machine, local, Set, Post,
           Goes, SwitchToEmu, ExitSwitches
  <1>3. Section'
    BY <1>0, SMT DEF IInv, Section, Inside, machine, local, Set, Post, Goes,
           SwitchToEmu, ExitSwitches
  <1>4. Address'
    BY <1>0, SMT DEF IInv, Address, Calling, Exiting, machine, local, Set, Post, Goes,
           SwitchToEmu, ExitSwitches
  <1>5. Calls'
    BY <1>0, SMT DEF IInv, Calling, Exiting, Calls, machine, local, Set, Post, Goes,
           SwitchToEmu, Depth, ExitSwitches
  <1>6. Registers'
    BY <1>0, SMT DEF IInv, Registers, Acting, RightStack, machine, local, Set, Post,
           Running68k, Goes, SwitchToEmu, Depth, ExitSwitches
  <1>7. \A d \in Context : thread[d] = "called" /\ ~Acting(d) =>
          /\ thread'[d] = "called" /\ ~Acting(d)'
          /\ calls'[d] = calls[d] /\ saved_regs'[d] = saved_regs[d]
    BY <1>0, SMT DEF Acting, machine, local, Set, Post, Goes, SwitchToEmu,
           ExitSwitches
  <1>8. NoDangling' /\ Frames'
    <2>1. stack' = stack
      BY DEF machine, local, Set, Post, Goes, SwitchToEmu, ExitSwitches
    <2> QED BY <1>7, <2>1, SameStack DEF IInv
  <1> QED BY <1>1, <1>2, <1>3, <1>4, <1>5, <1>6, <1>7, <1>8 DEF IInv

-----------------------------------------------------------------------------
LEMMA ThreadEndsKeeps == ASSUME NEW c \in Context, IInv, ThreadEnds(c)
  PROVE  IInv'
  <1>1. UNCHANGED <<task, regs, tcb, stack, pc, masked, emu, awaited, trap_mutex, current_context,
                    thread, switch_to_trap_sem, switch_to_emu_sem, saved_regs, calls,
                    call68k_retval, resets>>
    BY DEF ThreadEnds, machine, sems
  <1>2. TypeOK'
    <2>1. running' \subseteq Context
      BY DEF IInv, TypeOK, ThreadEnds
    <2> QED BY <1>1, <2>1 DEF IInv, TypeOK
  <1>3. Baton' /\ Section' /\ Address'
    BY <1>1 DEF IInv, Baton, Token, Section, Inside, Address, Calling, Exiting, Depth
  <1>4. NoDangling' /\ Frames'
    BY <1>1, SameStack DEF IInv, Acting
  <1>5. Calls' /\ Registers'
    BY <1>1 DEF IInv, Calls, Calling, Registers, RightStack, Running68k, Acting, Depth
  <1> QED BY <1>2, <1>3, <1>4, <1>5 DEF IInv

LEMMA InitIInv == Init => IInv
  <1> SUFFICES ASSUME Init PROVE IInv
    OBVIOUS
  <1>1. /\ task \in Task /\ regs = <<task, 0>> /\ pc = "code"
        /\ emu = "run" /\ trap_mutex = 1
    BY DEF Init, Booted
  <1>2. stack = [t \in Task |-> <<>>] /\ \A t \in Task : Depth(t) = 0
    BY DEF Init, Booted, Depth
  <1>3. TypeOK
    <2>1. regs \in Activation /\ tcb \in [Task -> Activation]
      BY <1>1, TrapsAssumption, SMT DEF Init, Booted, Activation
    <2>2. stack \in [Task -> Seq(Frame)]
      BY <1>2
    <2>3. call68k_retval \in [Context -> Function] /\ calls \in [Context -> 0 .. MaxCalls]
      BY TrapsAssumption, SMT DEF Init, Function
    <2>4. saved_regs \in [Context -> [act : Activation, masked : BOOLEAN]]
      BY <2>1 DEF Init
    <2>5. resets \in 0 .. Resets
      BY TrapsAssumption, SMT DEF Init
    <2> QED BY <1>1, <2>1, <2>2, <2>3, <2>4, <2>5 DEF Init, Booted, TypeOK, OnTrap
  <1>4. Baton /\ Section
    BY <1>1, SMT DEF Init, Baton, Token, Section, Inside
  <1>5. Address
    BY <1>1 DEF Address, Calling, Exiting
  <1>6. NoDangling
    BY <1>2, SMT DEF NoDangling
  <1>7. Frames
    BY <1>2, SMT DEF Frames
  <1>8. Calls
    BY <1>1, <1>2, TrapsAssumption, SMT DEF Init, Calls, Calling
  <1>9. Registers
    <2>1. \A t \in Task : tcb[t] = <<t, 0>>
      BY DEF Init, Booted
    <2> QED BY <1>1, <1>2, <2>1 DEF Registers, RightStack, Acting
  <1> QED BY <1>3, <1>4, <1>5, <1>6, <1>7, <1>8, <1>9 DEF IInv

LEMMA TrapThreadKeeps == ASSUME NEW c \in Context, IInv, TrapThread(c)
                         PROVE  IInv'
  BY HandlerStartsKeeps, CallEntersKeeps, CallPreparesKeeps, CallSwitchesKeeps,
     CallWakesKeeps, CallEndsKeeps, HandlerEndsKeeps, ExitPreparesKeeps,
     ExitSwitchesKeeps, ThreadEndsKeeps
     DEF TrapThread

LEMMA HandlersKeep == ASSUME IInv, Handlers PROVE IInv'
  BY SwitchedBackKeeps, CallHandlerKeeps, UnmaskKeeps, ReturnHandlerLockKeeps,
     ReturnHandlerKeeps, ExitHandlerKeeps
     DEF Handlers

LEMMA StutterKeeps == ASSUME IInv, UNCHANGED vars PROVE IInv'
  <1>1. TypeOK'
    BY DEF IInv, TypeOK, vars, machine, sems, local
  <1>2. Baton' /\ Section' /\ Address'
    BY DEF IInv, Baton, Token, Section, Inside, Address, Calling, Exiting, Depth,
           vars, machine, sems, local
  <1>3. NoDangling' /\ Frames'
    BY SameStack DEF IInv, Acting, vars, machine, local
  <1>4. Calls' /\ Registers'
    BY DEF IInv, Calls, Calling, Registers, RightStack, Running68k, Acting, Depth,
           vars, machine, sems, local
  <1> QED BY <1>1, <1>2, <1>3, <1>4 DEF IInv

LEMMA StepKeeps == ASSUME IInv, [Next]_vars PROVE IInv'
  <1>1. CASE Handlers
    BY <1>1, HandlersKeep
  <1>2. CASE FunctionReturns
    BY <1>2, FunctionReturnsKeeps
  <1>3. CASE Reset
    BY <1>3, ResetKeeps
  <1>4. ASSUME NEW t \in Task, TaskSwitch(t) PROVE IInv'
    BY <1>4, TaskSwitchKeeps
  <1>5. ASSUME NEW c \in Context, HandleExtendedTrap(c) PROVE IInv'
    BY <1>5, HandleExtendedTrapKeeps
  <1>6. ASSUME NEW c \in Context, TrapThread(c) PROVE IInv'
    BY <1>6, TrapThreadKeeps
  <1>7. CASE UNCHANGED vars
    BY <1>7, StutterKeeps
  <1> QED BY <1>1, <1>2, <1>3, <1>4, <1>5, <1>6, <1>7 DEF Next

\* The inductive invariant holds in every behaviour of traps.cpp that is modelled,
\* whatever the number of tasks, contexts, nested calls and resets.
THEOREM Invariance == Spec => []IInv
  <1>1. IInv /\ [Next]_vars => IInv'
    BY StepKeeps
  <1> QED BY InitIInv, <1>1, PTL DEF Spec

\* The host thread of a context is there from the start of its trap, and has ended by the
\* time that the context is freed.
RunInv == \A c \in Context : IF thread[c] = "free" THEN c \notin running
                                                   ELSE thread[c] = "gone" \/ c \in running

LEMMA RunInvariance == Spec => []RunInv
  <1>1. Init => RunInv
    BY DEF Init, RunInv
  <1>2. IInv /\ RunInv /\ [Next]_vars => RunInv'
    <2> SUFFICES ASSUME IInv, RunInv, [Next]_vars PROVE RunInv'
      OBVIOUS
    <2>1. thread \in [Context -> OnTrap \cup {"free", "start", "called", "gone"}]
      BY DEF IInv, TypeOK
    <2>2. ASSUME NEW c \in Context, HandleExtendedTrap(c) PROVE RunInv'
      BY <2>1, <2>2 DEF HandleExtendedTrap, Set, RunInv
    <2>3. ASSUME NEW c \in Context, ThreadEnds(c) PROVE RunInv'
      BY <2>3 DEF ThreadEnds, RunInv
    <2>4. ASSUME NEW c \in Context, TrapThread(c), ~ThreadEnds(c) PROVE RunInv'
      <3>1. /\ UNCHANGED running /\ thread[c] \notin {"free", "gone"} /\ thread'[c] # "free"
            /\ \A d \in Context : d # c => thread'[d] = thread[d]
        BY <2>1, <2>4 DEF TrapThread, HandlerStarts, CallEnters, CallPrepares, CallSwitches,
             CallWakes, CallEnds, HandlerEnds, ExitPrepares, ExitSwitches, Wakes, Enters,
             SwitchToEmu, Goes, Set, local
      <3> QED BY <3>1 DEF RunInv
    <2>5. CASE ExitHandler
      BY <2>1, <2>5 DEF ExitHandler, Set, RunInv, local
    <2>6. CASE (Handlers /\ ~ExitHandler) \/ FunctionReturns \/ Reset
               \/ (\E t \in Task : TaskSwitch(t)) \/ UNCHANGED vars
      <3>1. UNCHANGED <<thread, running>>
        BY <2>6 DEF Handlers, SwitchedBack, CallHandler, Unmask, ReturnHandlerLock, ReturnHandler,
             FunctionReturns, Reset, TaskSwitch, vars, local
      <3> QED BY <3>1 DEF RunInv
    <2> QED BY <2>2, <2>3, <2>4, <2>5, <2>6 DEF Next
  <1> QED BY <1>1, <1>2, Invariance, PTL DEF Spec

\* Variables keep their types: no semaphore of trap_Call68k, trap_mutex and the two
\* of each context, is ever posted beyond one.
THEOREM TypeCorrect == Spec => []TypeOK
  <1>1. IInv => TypeOK
    BY DEF IInv
  <1> QED BY <1>1, Invariance, PTL

\* A trap thread runs a handler only while trap_HandleExtendedTrap or
\* m68k_return_handler waits for it, and for no other, and exit_trap_handler frees no
\* context whose thread still runs.
THEOREM MachineHandedOver == Spec => []Handoff
  <1>1. ASSUME IInv, RunInv PROVE Handoff
    <2>1. ASSUME NEW c \in Context, thread[c] \in OnTrap
          PROVE  emu = "wait" /\ awaited = c /\ switch_to_emu_sem[c] = 0
      BY <1>1, <2>1, HasMachine
    <2>2. ASSUME NEW c \in Context,
                 switch_to_trap_sem[c] + switch_to_emu_sem[c] > 0
          PROVE  emu = "wait" /\ awaited = c
      BY <1>1, <2>2, AtRest, SMT
    <2> QED BY <1>1, <2>1, <2>2 DEF Handoff, RunInv
  <1> QED BY <1>1, Invariance, RunInvariance, PTL

\* Whenever 68k code runs trap_mutex is free, unless a reset has cut a hand-over
\* short: m68k_return_handler then waits for no one but trap threads that run.
THEOREM SectionOver == Spec => []MutexFree
  <1>1. IInv => MutexFree
    BY DEF IInv, Section, Inside, MutexFree, Running68k
  <1> QED BY <1>1, Invariance, PTL

\* m68k_return_handler leaves the value of a 68k function with the context whose
\* handler called it.
THEOREM ValueReturned == Spec => []RightCaller
  <1>1. IInv => RightCaller
    BY DEF IInv, Calls, RightCaller
  <1> QED BY <1>1, Invariance, PTL

\* exit_trap_handler, m68k_call_handler and exec's task switches leave the CPU with
\* the registers of the task that runs, at the depth of its stack.
THEOREM RegistersRestored == Spec => []RightStack
  <1>1. IInv => RightStack
    BY DEF IInv, Registers
  <1> QED BY <1>1, Invariance, PTL

\* Every context pointer that m68k_call_handler has pushed belongs to a trap that
\* still waits for its function.
THEOREM PointersValid == Spec => []NoDangling
  <1>1. IInv => NoDangling
    BY DEF IInv
  <1> QED BY <1>1, Invariance, PTL
-----------------------------------------------------------------------------
(* No trap is forgotten, and none waits in vain: the safe part of          *)
(* TrapsEnd.                                                               *)

\* A context that waits for its 68k function has a frame on a stack, or acts for the task
\* that runs; one whose thread is over waits to be freed.
OnStack(c) == \E t \in Task : \E i \in 1 .. Depth(t) : stack[t][i].context = c
KeptInv == resets = 0 => \A c \in Context : /\ thread[c] = "called" => OnStack(c) \/ Acting(c)
                                            /\ thread[c] = "gone" => Acting(c)

\* Interrupts are masked only from the preparation of a call or an exit to its trap.
MaskInv == /\ Running68k => ~masked
           /\ \A c \in Context : ~saved_regs[c].masked

\* Frames are pushed ...
LEMMA Pushed ==
  ASSUME IInv, CallHandler
  PROVE  /\ current_context \in Context /\ thread[current_context] = "called"
         /\ Acting(current_context)
         /\ \A d : OnStack(d) \/ d = current_context => OnStack(d)'
  <1> DEFINE c == current_context
             f == [context |-> c, function |-> <<c, calls[c]>>]
  <1>1. /\ emu = "run" /\ pc = "call_trap" /\ task \in Task
        /\ stack' = [stack EXCEPT ![task] = Append(stack[task], f)] /\ task' = task
    BY DEF CallHandler, Set, IInv, TypeOK
  <1>2. c \in Context /\ Calling(c) /\ Acting(c)
    BY <1>1 DEF IInv, Address, Calling, Acting
  <1>3. thread[c] = "called"
    BY <1>1, <1>2, AtRest DEF IInv, Address
  <1>4. f \in Frame /\ stack \in [Task -> Seq(Frame)]
    BY <1>2 DEF IInv, TypeOK, Frame, Function
  <1>5. /\ \A t \in Task : t # task => stack'[t] = stack[t]
        /\ Len(stack[task]) \in Nat /\ Len(stack'[task]) = Len(stack[task]) + 1
        /\ stack'[task][Len(stack[task]) + 1] = f
        /\ \A i \in 1 .. Len(stack[task]) : stack'[task][i] = stack[task][i]
    <2>1. stack'[task] = Append(stack[task], f) /\ stack[task] \in Seq(Frame)
      BY <1>1, <1>4
    <2> HIDE DEF f
    <2> QED BY <1>1, <1>4, <2>1, AppendProperties, LenProperties
  <1>6. f.context = c
    OBVIOUS
  <1> HIDE DEF c, f
  <1>7. PICK k \in Context : k = c
    BY <1>2
  <1>8. OnStack(k)'
    <2>1. /\ Len(stack'[task]) \in 1 .. Len(stack'[task])
          /\ stack'[task][Len(stack'[task])].context = k
      BY <1>5, <1>6, <1>7
    <2> QED BY <1>1, <2>1 DEF OnStack, Depth
  <1>9. ASSUME NEW d, OnStack(d) PROVE OnStack(d)'
    <2>a. PICK t \in Task : \E i \in 1 .. Len(stack[t]) : stack[t][i].context = d
      BY <1>9 DEF OnStack, Depth
    <2>1. PICK i \in 1 .. Len(stack[t]) : stack[t][i].context = d
      BY <2>a
    <2>2. i \in 1 .. Len(stack'[t]) /\ stack'[t][i].context = d
      <3>1. CASE t = task
        BY <1>5, <2>1, <3>1
      <3>2. CASE t # task
        BY <1>5, <2>1, <3>2
      <3> QED BY <3>1, <3>2
    <2> QED BY <2>2 DEF OnStack, Depth
  <1> QED BY <1>2, <1>3, <1>7, <1>8, <1>9 DEF c

\* ... and popped.
LEMMA Popped ==
  ASSUME IInv, ReturnHandler
  PROVE  /\ emu' = "wait" /\ awaited' \in Context
         /\ \A d : OnStack(d) => d = awaited' \/ OnStack(d)'
  <1> DEFINE n == Len(stack[task])
  <1>1. /\ task \in Task /\ stack \in [Task -> Seq(Frame)] /\ stack[task] \in Seq(Frame)
        /\ n \in Nat /\ n > 0
    <2>1. task \in Task /\ stack \in [Task -> Seq(Frame)] /\ Depth(task) > 0
      BY DEF IInv, TypeOK, Address, ReturnHandler
    <2> QED BY <2>1, LenProperties DEF Depth
  <1>2. stack[task][n].context \in Context
    BY <1>1, FrameIs DEF Depth, IInv
  <1>3. /\ emu' = "wait" /\ awaited' = stack[task][n].context /\ task' = task
        /\ stack' = [stack EXCEPT ![task] = SubSeq(stack[task], 1, n - 1)]
    BY DEF ReturnHandler, SwitchToTrap, Set, Last, Front
  <1>4. /\ \A t \in Task : t # task => stack'[t] = stack[t]
        /\ Len(stack'[task]) = n - 1
        /\ \A i \in 1 .. n - 1 : stack'[task][i] = stack[task][i]
    <2>1. stack'[task] = SubSeq(stack[task], 1, n - 1)
      BY <1>1, <1>3
    <2>2. /\ Len(SubSeq(stack[task], 1, n - 1)) = n - 1
          /\ \A i \in 1 .. n - 1 : SubSeq(stack[task], 1, n - 1)[i] = stack[task][i]
      <3> HIDE DEF n
      <3>1. n = Len(stack[task]) /\ n - 1 \in Nat
        BY <1>1 DEF n
      <3> QED BY <1>1, <3>1, SubSeqProperties
    <2> QED BY <1>1, <1>3, <2>1, <2>2
  <1>5. ASSUME NEW d, OnStack(d), d # awaited' PROVE OnStack(d)'
    <2>a. PICK t \in Task : \E i \in 1 .. Len(stack[t]) : stack[t][i].context = d
      BY <1>5 DEF OnStack, Depth
    <2>1. PICK i \in 1 .. Len(stack[t]) : stack[t][i].context = d
      BY <2>a
    <2>2. i \in 1 .. Len(stack'[t]) /\ stack'[t][i].context = d
      <3>1. CASE t = task
        <4>1. i # n
          BY <1>3, <1>5, <2>1, <3>1
        <4>2. i \in 1 .. n - 1
          BY <1>1, <2>1, <3>1, <4>1
        <4> QED BY <1>4, <2>1, <3>1, <4>2
      <3>2. CASE t # task
        BY <1>4, <2>1, <3>2
      <3> QED BY <3>1, <3>2
    <2> QED BY <2>2 DEF OnStack, Depth
  <1> QED BY <1>2, <1>3, <1>5

LEMMA SameFrames ==
  ASSUME stack' = stack, NEW d, OnStack(d) PROVE OnStack(d)'
  BY DEF OnStack, Depth

\* The machine by itself, and the emulation thread.
LEMMA MachineKeeps ==
  ASSUME IInv, KeptInv,
         Handlers \/ FunctionReturns \/ Reset \/ (\E t \in Task : TaskSwitch(t)) \/ UNCHANGED vars
  PROVE  KeptInv'
  <1> USE DEF KeptInv
  <1>1. CASE FunctionReturns \/ (\E t \in Task : TaskSwitch(t)) \/ UNCHANGED vars \/ Unmask
             \/ ReturnHandlerLock
    <2>1. UNCHANGED <<stack, thread, resets>> /\ \A c \in Context : Acting(c) => Acting(c)'
      BY <1>1 DEF FunctionReturns, TaskSwitch, Unmask, ReturnHandlerLock, Running68k, vars,
                  machine, Acting
    <2> QED BY <2>1, SameFrames
  <1>2. CASE Reset
    <2>1. resets' # 0
      BY <1>2, TrapsAssumption DEF Reset, IInv, TypeOK
    <2> QED BY <2>1
  <1>3. CASE SwitchedBack
    <2>1. /\ emu = "wait" /\ switch_to_emu_sem[awaited] > 0 /\ emu' = "run" /\ awaited \in Context
          /\ UNCHANGED <<machine, current_context, thread, resets>>
      BY <1>3 DEF SwitchedBack, IInv, Baton
    <2>2. switch_to_emu_sem[awaited] = 1
      BY <2>1 DEF IInv, TypeOK
    <2>3. thread[awaited] = "called" \/ thread[awaited] = "gone"
      BY <2>1, <2>2, TokenIs DEF IInv, Baton
    <2>4. Calling(awaited) \/ Exiting(awaited)
      BY <2>1, <2>2, <2>3 DEF Calling, Exiting
    <2>5. pc \in {"call_trap", "exit_trap"} /\ current_context = awaited
      BY <2>1, <2>4 DEF IInv, Address
    <2>6. \A c \in Context : Acting(c) => Acting(c)'
      BY <2>1, <2>5 DEF Acting, machine
    <2> QED BY <2>1, <2>6, SameFrames DEF machine
  <1>4. CASE CallHandler
    <2>1. emu = "run" /\ UNCHANGED <<thread, resets>>
      BY <1>4 DEF CallHandler
    <2>2. \A c \in Context : Acting(c) => c = current_context
      BY <2>1 DEF Acting
    <2> QED BY <1>4, <2>1, <2>2, Pushed
  <1>5. CASE ReturnHandler
    <2>1. emu = "returning" /\ UNCHANGED <<thread, resets>>
      BY <1>5 DEF ReturnHandler
    <2>2. \A c \in Context : ~Acting(c)
      BY <2>1 DEF Acting
    <2>3. \A c \in Context : c = awaited' => Acting(c)'
      BY <1>5, Popped DEF Acting
    <2> QED BY <1>5, <2>1, <2>2, <2>3, Popped
  <1>6. CASE ExitHandler
    <2>1. /\ emu = "run" /\ pc = "exit_trap" /\ thread' = Set(thread, current_context, "free")
          /\ UNCHANGED <<stack, resets>>
      BY <1>6 DEF ExitHandler
    <2>2. \A c \in Context : /\ Acting(c) => c = current_context
                             /\ thread'[c] = IF c = current_context THEN "free" ELSE thread[c]
      BY <2>1 DEF Acting, Set, IInv, TypeOK
    <2> QED BY <2>1, <2>2, SameFrames
  <1> QED BY <1>1, <1>2, <1>3, <1>4, <1>5, <1>6 DEF Handlers

\* A trap begins, or the thread of one that has the machine goes on.
LEMMA ContextsKeep ==
  ASSUME IInv, KeptInv, NEW c \in Context, HandleExtendedTrap(c) \/ TrapThread(c)
  PROVE  KeptInv'
  <1> USE DEF KeptInv
  <1>1. CASE HandleExtendedTrap(c)
    <2>1. /\ emu = "run" /\ pc = "code" /\ UNCHANGED <<stack, resets>>
          /\ \A d \in Context : thread'[d] = IF d = c THEN "start" ELSE thread[d]
      BY <1>1 DEF HandleExtendedTrap, Running68k, machine, Set, IInv, TypeOK
    <2>2. \A d \in Context : ~Acting(d)
      BY <2>1 DEF Acting
    <2> QED BY <2>1, <2>2, SameFrames
  <1>2. CASE ThreadEnds(c)
    <2>1. UNCHANGED <<stack, thread, resets>> /\ \A d \in Context : Acting(d) => Acting(d)'
      BY <1>2 DEF ThreadEnds, machine, Acting
    <2> QED BY <2>1, SameFrames
  <1>3. CASE TrapThread(c) /\ ~ThreadEnds(c)
    <2>1. /\ UNCHANGED <<stack, emu, awaited, resets>>
          /\ \A d \in Context : d # c => thread'[d] = thread[d]
          /\ thread[c] \in OnTrap \/ switch_to_trap_sem[c] > 0
      BY <1>3 DEF TrapThread, HandlerStarts, CallEnters, CallPrepares, CallSwitches, CallWakes,
                  CallEnds, HandlerEnds, ExitPrepares, ExitSwitches, Wakes, Enters, SwitchToEmu,
                  Goes, machine, Set, OnTrap, IInv, TypeOK
    <2>2. emu = "wait" /\ awaited = c
      BY <2>1, HasMachine, Woken
    <2>3. \A d \in Context : Acting(d)' <=> Acting(d)
      BY <2>1, <2>2 DEF Acting
    <2>4. Acting(c)
      BY <2>2 DEF Acting
    <2> QED BY <2>1, <2>3, <2>4, SameFrames
  <1> QED BY <1>1, <1>2, <1>3

LEMMA KeptInvariance == Spec => []KeptInv
  <1>1. Init => KeptInv
    BY DEF Init, KeptInv
  <1>2. IInv /\ KeptInv /\ [Next]_vars => KeptInv'
    BY MachineKeeps, ContextsKeep DEF Next
  <1> QED BY <1>1, <1>2, Invariance, PTL DEF Spec

NoneForgotten == Running68k /\ resets = 0 =>
                   \A c \in Context : thread[c] # "free" => thread[c] = "called" /\ OnStack(c)


\* While the Amiga runs no trap is under way but those whose handlers wait for a 68k function,
\* and each of these has its frame on the stack of a task: the function's return will find it.
THEOREM TrapsKept == Spec => []NoneForgotten
  <1>1. ASSUME IInv, KeptInv PROVE NoneForgotten
    <2> SUFFICES ASSUME Running68k, resets = 0, NEW c \in Context, thread[c] # "free"
                 PROVE  thread[c] = "called" /\ OnStack(c)
      BY DEF NoneForgotten
    <2>1. thread[c] \in {"called", "gone"}
      BY <1>1, AtRest DEF Running68k
    <2>2. ~Acting(c)
      BY DEF Acting, Running68k
    <2> QED BY <1>1, <2>1, <2>2 DEF KeptInv
  <1> QED BY <1>1, Invariance, KeptInvariance, PTL

Unmasked == Running68k => ~masked

\* m68k_call_handler and exit_trap_handler take back the mask that the thread of a trap has
\* set: 68k code, which does not mask interrupts by itself here, never runs with them masked,
\* so that the tasks are switched and every function on a stack can be reached.
THEOREM MaskRestored == Spec => []Unmasked
  <1>1. Init => MaskInv
    BY DEF Init, Booted, MaskInv
  <1>2. IInv /\ MaskInv /\ [Next]_vars => MaskInv'
    <2> SUFFICES ASSUME IInv, MaskInv, [Next]_vars PROVE MaskInv'
      OBVIOUS
    <2> USE DEF MaskInv, Running68k
    <2>1. CASE SwitchedBack
      <3>1. /\ emu = "wait" /\ switch_to_emu_sem[awaited] > 0 /\ awaited \in Context
            /\ UNCHANGED <<machine, saved_regs>>
        BY <2>1 DEF SwitchedBack, IInv, Baton, local
      <3>2. switch_to_emu_sem[awaited] = 1
        BY <3>1 DEF IInv, TypeOK
      <3>3. thread[awaited] = "called" \/ thread[awaited] = "gone"
        BY <3>1, <3>2, TokenIs DEF IInv, Baton
      <3>4. Calling(awaited) \/ Exiting(awaited)
        BY <3>1, <3>2, <3>3 DEF Calling, Exiting
      <3>5. pc \in {"call_trap", "exit_trap"}
        BY <3>1, <3>4 DEF IInv, Address
      <3> QED BY <3>1, <3>5 DEF machine
    <2>2. CASE Unmask
      <3>1. awaited \in Context
        BY <2>2 DEF Unmask, IInv, Baton
      <3> QED BY <2>2, <3>1 DEF Unmask, local
    <2>3. CASE ExitHandler
      <3>1. current_context \in Context
        BY <2>3 DEF ExitHandler, IInv, Address
      <3> QED BY <2>3, <3>1 DEF ExitHandler, local
    <2>4. CASE CallHandler \/ ReturnHandlerLock \/ ReturnHandler
      BY <2>4 DEF CallHandler, ReturnHandlerLock, ReturnHandler, SwitchToTrap, local
    <2>5. CASE FunctionReturns \/ Reset \/ (\E t \in Task : TaskSwitch(t)) \/ UNCHANGED vars
      BY <2>5 DEF FunctionReturns, Reset, TaskSwitch, vars, machine, local
    <2>6. ASSUME NEW c \in Context, HandleExtendedTrap(c) PROVE MaskInv'
      BY <2>6 DEF HandleExtendedTrap, SwitchToTrap, Set, IInv, TypeOK
    <2>7. ASSUME NEW c \in Context, ThreadEnds(c) PROVE MaskInv'
      BY <2>7 DEF ThreadEnds, machine
    <2>8. ASSUME NEW c \in Context, TrapThread(c), ~ThreadEnds(c) PROVE MaskInv'
      <3>1. UNCHANGED <<emu, saved_regs>> /\ (thread[c] \in OnTrap \/ switch_to_trap_sem[c] > 0)
        BY <2>8 DEF TrapThread, HandlerStarts, CallEnters, CallPrepares, CallSwitches, CallWakes,
                    CallEnds, HandlerEnds, ExitPrepares, ExitSwitches, Wakes, Enters, SwitchToEmu,
                    Goes, local, OnTrap
      <3>2. emu = "wait"
        BY <3>1, HasMachine, Woken
      <3> QED BY <3>1, <3>2
    <2> QED BY <2>1, <2>2, <2>3, <2>4, <2>5, <2>6, <2>7, <2>8 DEF Next, Handlers
  <1>3. MaskInv => Unmasked
    BY DEF MaskInv, Unmasked
  <1> QED BY <1>1, <1>2, <1>3, Invariance, PTL DEF Spec

\* What the emulation thread or the context it waits for can do next.
HostMoves ==
  CASE emu \in {"unmask", "returning"} -> TRUE
    [] emu = "wait" -> \/ switch_to_emu_sem[awaited] > 0
                       \/ thread[awaited] \in {"start", "called"}
                            /\ switch_to_trap_sem[awaited] > 0
                       \/ thread[awaited] = "handler" /\ trap_mutex > 0
                       \/ thread[awaited] \in OnTrap \ {"handler"}
    [] emu = "run" -> \/ pc = "return_trap" /\ trap_mutex > 0
                      \/ pc = "exit_trap" /\ (\/ current_context \notin running
                                              \/ thread[current_context] = "gone")
                      \/ pc \in {"code", "call_trap"}
SomeoneMoves == resets = 0 => HostMoves

\* Until a reset the emulation thread and the threads of the traps never all wait, for
\* trap_mutex, for a semaphore of a context or for a thread to end.
THEOREM NoDeadlock == Spec => []SomeoneMoves
  <1>1. ASSUME IInv, KeptInv, resets = 0 PROVE HostMoves
    <2>1. CASE emu = "wait"
      <3>1. awaited \in Context /\ switch_to_emu_sem[awaited] \in {0, 1}
                                /\ switch_to_trap_sem[awaited] \in {0, 1}
        BY <1>1, <2>1 DEF IInv, Baton, TypeOK
      <3>2. thread[awaited] = "handler" => trap_mutex = 1
        BY <1>1, <2>1 DEF IInv, Section, Inside
      <3>3. Token(awaited) = 1 =>
              switch_to_trap_sem[awaited] = 1 \/ switch_to_emu_sem[awaited] = 1
        BY <1>1, <3>1, TokenIs DEF IInv
      <3> QED BY <1>1, <2>1, <3>1, <3>2, <3>3 DEF HostMoves, IInv, Baton, OnTrap
    <2>2. CASE emu = "run"
      <3>1. pc = "return_trap" => trap_mutex = 1
        BY <1>1, <2>2 DEF IInv, Section, Inside
      <3>2. pc = "exit_trap" => thread[current_context] = "gone"
        <4> SUFFICES ASSUME pc = "exit_trap" PROVE thread[current_context] = "gone"
          OBVIOUS
        <4>1. current_context \in Context /\ Exiting(current_context)
          BY <1>1, <2>2 DEF IInv, Address, Exiting
        <4>2. thread[current_context] \in {"exitpost", "gone"}
          BY <1>1, <4>1 DEF IInv, Address
        <4> QED BY <1>1, <2>2, <4>1, <4>2, AtRest
      <3> QED BY <1>1, <2>2, <3>1, <3>2 DEF HostMoves, IInv, TypeOK
    <2>3. CASE emu \in {"unmask", "returning"}
      BY <2>3 DEF HostMoves
    <2> QED BY <1>1, <2>1, <2>2, <2>3 DEF IInv, TypeOK
  <1>2. IInv /\ KeptInv => SomeoneMoves
    BY <1>1 DEF SomeoneMoves
  <1> QED BY <1>2, Invariance, KeptInvariance, PTL
=============================================================================
