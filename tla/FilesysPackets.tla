--------------------------- MODULE FilesysPackets ---------------------------
(***************************************************************************)
(* The packets of the virtual file systems.  A handler task of the Amiga   *)
(* takes DOS packets from its message port and hands them to the host      *)
(* thread of its unit, filesys_thread.  The thread marks a packet that is  *)
(* done and raises an interrupt, the EXTER task of the Amiga asks          *)
(* exter_int_helper what to do and puts a dummy message into the handler's *)
(* port, and the handler looks through its queue for packets to reply to.  *)
(* (filesys.cpp, and the Amiga's side of it in filesys.asm.)               *)
(*                                                                         *)
(* Traps that exter_int_helper and filesys_handler are called by are       *)
(* executed by the emulation thread like one instruction; tasks of the     *)
(* Amiga are switched between any two of them, and the host threads run    *)
(* all the time.  The pipes between handler and thread are FIFO queues, as *)
(* CommPipe establishes.  What a packet asks for, record locks that time   *)
(* out, and what the locks sent back are, is left out.                     *)
(***************************************************************************)
EXTENDS Naturals, Sequences, FiniteSets, SequencesExt, Selection

CONSTANTS Units,    \* MAX_FILESYSTEM_UNITS
          Packet,   \* DOS packets of the clients, sent again once replied to
          Dummy,    \* the dummy_message of a unit
          Death,    \* the death message of filesys_prepare_reset2
          None,
          Limit,    \* commands a handler starts at a time, 20 in filesys.asm
          Wrap,     \* the counters are unsigned, 2^32
          Resets    \* bound: resets of the Amiga

ASSUME PacketsAssumption == /\ Units \in Nat \ {0} /\ Limit \in Nat \ {0} /\ Resets \in Nat
                            /\ Wrap \in Nat /\ Wrap > 2 * Limit
                            /\ Cardinality({Dummy, Death, None} \ Packet) = 3

Unit == 1 .. Units

VARIABLES
  \* the handler tasks: message port, place and packet in hand, chain of packets
  \* at 4(a3), status of each packet at offset 4, and the count in d5
  port, handler, hand, queue, status, started,
  \* the units and their host threads
  unit_pipe, back_pipe, thread, work, cmds_sent, cmds_acked, cmds_complete,
  \* the interrupt and the EXTER task
  uae_int_requested, signalled, exter, unit_no, singlethread_int_sem,
  \* a reset: the unit whose thread it waits for, 0 while the Amiga runs
  going_down, reset_state, resets

amiga == <<port, handler, hand, queue, started>>
pipes == <<unit_pipe, back_pipe>>
threads == <<thread, work>>
cmds == <<cmds_sent, cmds_acked, cmds_complete>>
interrupt == <<uae_int_requested, signalled, exter, unit_no, singlethread_int_sem>>
reset == <<going_down, reset_state, resets>>
vars == <<amiga, status, pipes, threads, cmds, interrupt, reset>>

Inc(n) == (n + 1) % Wrap

\* The state that a reset of the Amiga builds anew, and the counters of a unit.
Boot == /\ port' = [u \in Unit |-> <<>>] /\ handler' = [u \in Unit |-> "loop"]
        /\ hand' = [u \in Unit |-> None] /\ queue' = [u \in Unit |-> <<>>]
        /\ started' = [u \in Unit |-> 0] /\ status' = [p \in Packet |-> "client"]
        /\ unit_pipe' = [u \in Unit |-> <<>>] /\ back_pipe' = [u \in Unit |-> 0]
        /\ thread' = [u \in Unit |-> "read"] /\ work' = [u \in Unit |-> None]
        /\ cmds_sent' = [u \in Unit |-> 0] /\ cmds_acked' = [u \in Unit |-> 0]
        /\ cmds_complete' = [u \in Unit |-> 0]
        /\ uae_int_requested' = FALSE /\ signalled' = FALSE
        /\ exter' = "wait"
        /\ going_down' = 0 /\ reset_state' = [u \in Unit |-> "startup"]

Init == /\ port = [u \in Unit |-> <<>>] /\ handler = [u \in Unit |-> "loop"]
        /\ hand = [u \in Unit |-> None] /\ queue = [u \in Unit |-> <<>>]
        /\ started = [u \in Unit |-> 0] /\ status = [p \in Packet |-> "client"]
        /\ unit_pipe = [u \in Unit |-> <<>>] /\ back_pipe = [u \in Unit |-> 0]
        /\ thread = [u \in Unit |-> "read"] /\ work = [u \in Unit |-> None]
        /\ cmds_sent = [u \in Unit |-> 0] /\ cmds_acked = [u \in Unit |-> 0]
        /\ cmds_complete = [u \in Unit |-> 0]
        /\ uae_int_requested = FALSE /\ signalled = FALSE
        /\ exter = "wait" /\ unit_no = 1 /\ singlethread_int_sem = 1
        /\ going_down = 0 /\ reset_state = [u \in Unit |-> "startup"] /\ resets = 0
-----------------------------------------------------------------------------
(* The handler tasks of the Amiga.                                         *)

AmigaRuns == going_down = 0

\* A client, who waits for the reply, sends a packet to a unit.
Send(p, u) == /\ AmigaRuns /\ status[p] = "client"
              /\ status' = [status EXCEPT ![p] = "sent"]
              /\ port' = [port EXCEPT ![u] = Append(@, p)]
              /\ UNCHANGED <<handler, hand, queue, started, pipes, threads, cmds, interrupt,
                             reset>>

GetMsg(u) == /\ AmigaRuns /\ handler[u] = "loop" /\ port[u] # <<>>
             /\ port' = [port EXCEPT ![u] = Tail(@)]

\* Mutant: no limit.
BugMayStart(u) == TRUE

MayStart(u) == started[u] < Limit

\* FSML_DoCommand and filesys_handler: the packet goes to the unit's thread.
DoCommand(u) ==
  LET p == Head(port[u]) IN
  /\ GetMsg(u) /\ p # Dummy /\ MayStart(u)
  /\ status' = [status EXCEPT ![p] = "handed"]
  /\ unit_pipe' = [unit_pipe EXCEPT ![u] = Append(@, p)]
  /\ handler' = [handler EXCEPT ![u] = "enqueue"]
  /\ hand' = [hand EXCEPT ![u] = p]
  /\ UNCHANGED <<queue, started, back_pipe, threads, cmds, interrupt, reset>>

\* filesys_handler fails, for want of a volume, of the unit's pipe or of a valid address:
\* FSML_Reply replies at once.
Refuse(u) ==
  LET p == Head(port[u]) IN
  /\ GetMsg(u) /\ p # Dummy /\ MayStart(u)
  /\ status' = [status EXCEPT ![p] = "client"]
  /\ UNCHANGED <<handler, hand, queue, started, pipes, threads, cmds, interrupt, reset>>

\* Mutant: the queue's other end.
BugEnqueue(u) == /\ AmigaRuns /\ handler[u] = "enqueue"
                 /\ queue' = [queue EXCEPT ![u] = Append(@, hand[u])]
                 /\ started' = [started EXCEPT ![u] = @ + 1]
                 /\ handler' = [handler EXCEPT ![u] = "loop"]
                 /\ hand' = [hand EXCEPT ![u] = None]
                 /\ UNCHANGED <<port, status, pipes, threads, cmds, interrupt, reset>>

Enqueue(u) == /\ AmigaRuns /\ handler[u] = "enqueue"
              /\ queue' = [queue EXCEPT ![u] = <<hand[u]>> \o @]
              /\ started' = [started EXCEPT ![u] = @ + 1]
              /\ handler' = [handler EXCEPT ![u] = "loop"]
              /\ hand' = [hand EXCEPT ![u] = None]
              /\ UNCHANGED <<port, status, pipes, threads, cmds, interrupt, reset>>

\* Too many commands are under way: this one is queued without being started.
SetAside(u) ==
  LET p == Head(port[u]) IN
  /\ GetMsg(u) /\ p # Dummy /\ ~MayStart(u)
  /\ status' = [status EXCEPT ![p] = "aside"]
  /\ queue' = [queue EXCEPT ![u] = <<p>> \o @]
  /\ UNCHANGED <<handler, hand, started, pipes, threads, cmds, interrupt, reset>>

\* The dummy message: exter_int_helper (1) releases the message lock and takes the
\* locks the thread has sent back.
TakeDummy(u) ==
  /\ GetMsg(u) /\ Head(port[u]) = Dummy
  /\ cmds_complete' = [cmds_complete EXCEPT ![u] = cmds_acked[u]]
  /\ back_pipe' = [back_pipe EXCEPT ![u] = 0]
  /\ handler' = [handler EXCEPT ![u] = "scan"]
  /\ UNCHANGED <<hand, queue, status, started, unit_pipe, threads, cmds_sent, cmds_acked,
                 interrupt, reset>>

Done(p) == status[p] = "done"

\* Mutant: only the first packet that is done is replied to.
BugReplied(u) == IF \E i \in 1 .. Len(queue[u]) : Done(queue[u][i])
                   THEN {Kept(queue[u], {p \in Packet : Done(p)})[1]} ELSE {}

Replied(u) == {p \in ToSet(queue[u]) : Done(p)}

\* The scan goes from the latest packet to the oldest while the thread marks them
\* from the oldest on: it finds what it would find if it were done at once.
Scan(u) ==
  /\ AmigaRuns /\ handler[u] = "scan"
  /\ status' = [p \in Packet |-> IF p \in Replied(u) THEN "client" ELSE status[p]]
  /\ queue' = [queue EXCEPT ![u] = Kept(@, Packet \ Replied(u))]
  /\ started' = [started EXCEPT ![u] = @ - Cardinality(Replied(u))]
  /\ handler' = [handler EXCEPT ![u] = "loop"]
  /\ UNCHANGED <<port, hand, pipes, threads, cmds, interrupt, reset>>

HandlerTask(u) == \/ DoCommand(u) \/ Refuse(u) \/ Enqueue(u) \/ SetAside(u)
                  \/ TakeDummy(u) \/ Scan(u)
-----------------------------------------------------------------------------
(* filesys_iteration, the loop of a unit's thread.                         *)

ThreadReads(u) ==
  LET p == Head(unit_pipe[u])
      place == CASE p = Death -> "dead"
                 [] p # Death /\ reset_state[u] = "go_down" -> "read"
                 [] OTHER -> "process" IN
  /\ thread[u] = "read" /\ unit_pipe[u] # <<>>
  /\ unit_pipe' = [unit_pipe EXCEPT ![u] = Tail(@)]
  /\ thread' = [thread EXCEPT ![u] = place]
  /\ work' = [work EXCEPT ![u] = IF place = "process" THEN p ELSE None]
  /\ UNCHANGED <<amiga, status, back_pipe, cmds, interrupt, reset>>

ThreadGoes(u, from, to) == thread[u] = from /\ thread' = [thread EXCEPT ![u] = to]

Sends(u) == /\ ThreadGoes(u, "process", "mark")
            /\ cmds_sent' = [cmds_sent EXCEPT ![u] = Inc(@)]
            /\ UNCHANGED <<amiga, status, pipes, work, cmds_acked, cmds_complete, interrupt,
                           reset>>

Marks(u) == /\ ThreadGoes(u, "mark", "back")
            /\ status' = [status EXCEPT ![work[u]] = "done"]
            /\ work' = [work EXCEPT ![u] = None]
            /\ UNCHANGED <<amiga, pipes, cmds, interrupt, reset>>

SendsBack(u) == /\ ThreadGoes(u, "back", "request")
                /\ back_pipe' = [back_pipe EXCEPT ![u] = @ + 1]
                /\ UNCHANGED <<amiga, status, unit_pipe, work, cmds, interrupt, reset>>

Requests(u) == /\ ThreadGoes(u, "request", "read")
               /\ uae_int_requested' = TRUE
               /\ UNCHANGED <<amiga, status, pipes, work, cmds, signalled, exter, unit_no,
                              singlethread_int_sem, reset>>

UnitThread(u) == ThreadReads(u) \/ Sends(u) \/ Marks(u) \/ SendsBack(u) \/ Requests(u)
-----------------------------------------------------------------------------
(* The interrupt, the EXTER task and exter_int_helper (10) and (11).       *)

\* Other parts of the emulator use the interrupt as well, native2amiga.cpp.  To ask again for
\* what is asked for already changes nothing, and is no step.
OtherRequest == /\ ~uae_int_requested
                /\ uae_int_requested' = TRUE
                /\ UNCHANGED <<amiga, status, pipes, threads, cmds, signalled, exter,
                               unit_no, singlethread_int_sem, reset>>

\* exter_server_new reads the request, which takes it back, and signals the task.
Server == /\ AmigaRuns /\ uae_int_requested
          /\ uae_int_requested' = FALSE /\ signalled' = TRUE
          /\ UNCHANGED <<amiga, status, pipes, threads, cmds, exter, unit_no,
                         singlethread_int_sem, reset>>

\* Mutant: the message is sent although it may be on its way already.
BugSendable(u) == cmds_acked[u] # cmds_sent[u]

Sendable(u) == /\ cmds_acked[u] = cmds_complete[u]
               /\ cmds_acked[u] # cmds_sent[u]

\* The first unit from n on that needs its message sent, or the end of the loop.
FindWork(n) ==
  \/ \E u \in n .. Units :
       /\ Sendable(u) /\ \A v \in n .. u - 1 : ~Sendable(v)
       /\ cmds_acked' = [cmds_acked EXCEPT ![u] = cmds_sent[u]]
       /\ unit_no' = u + 1
       /\ exter' = "put" /\ singlethread_int_sem' = 0
  \/ /\ \A u \in n .. Units : ~Sendable(u)
     /\ unit_no' = Units + 1
     /\ exter' = "wait" /\ singlethread_int_sem' = 1
     /\ UNCHANGED cmds_acked

Helper10 == /\ AmigaRuns /\ exter = "wait" /\ signalled
            /\ signalled' = FALSE
            /\ singlethread_int_sem = 1
            /\ FindWork(1)
            /\ UNCHANGED <<amiga, status, pipes, threads, cmds_sent, cmds_complete,
                           uae_int_requested, reset>>

\* "Pretend it isn't for us.  We might get it again later."
NotForUs == /\ AmigaRuns /\ exter = "wait" /\ signalled
            /\ singlethread_int_sem = 0
            /\ signalled' = FALSE /\ uae_int_requested' = TRUE
            /\ UNCHANGED <<amiga, status, pipes, threads, cmds, exter, unit_no,
                           singlethread_int_sem, reset>>

PutsDummy == LET u == unit_no - 1 IN
             /\ AmigaRuns /\ exter = "put"
             /\ port' = [port EXCEPT ![u] = Append(@, Dummy)]
             /\ exter' = "next"
             /\ UNCHANGED <<handler, hand, queue, status, started, pipes, threads, cmds,
                            uae_int_requested, signalled, unit_no, singlethread_int_sem,
                            reset>>

Helper11 == /\ AmigaRuns /\ exter = "next"
            /\ FindWork(unit_no)
            /\ UNCHANGED <<amiga, status, pipes, threads, cmds_sent, cmds_complete,
                           uae_int_requested, signalled, reset>>

ExterTask == Helper10 \/ NotForUs \/ PutsDummy \/ Helper11

\* Mutant: the lock is given back whether or not it was obtained.
BugVsync == /\ AmigaRuns /\ ~uae_int_requested
            /\ singlethread_int_sem' = singlethread_int_sem + 1
            /\ UNCHANGED <<amiga, status, pipes, threads, cmds, uae_int_requested, signalled,
                           exter, unit_no, reset>>

\* filesys_vsync asks for an interrupt when work waits without one.
Vsync == /\ AmigaRuns /\ ~uae_int_requested
         /\ singlethread_int_sem = 1
         /\ \E u \in Unit : Sendable(u)
         /\ uae_int_requested' = TRUE
         /\ UNCHANGED <<amiga, status, pipes, threads, cmds, signalled, exter, unit_no,
                        singlethread_int_sem, reset>>
-----------------------------------------------------------------------------
(* A reset, devices_reset: filesys_prepare_reset ends the threads one by   *)
(* one, filesys_start_threads starts new ones.                             *)

Kill(u) == /\ going_down' = u
           /\ reset_state' = [reset_state EXCEPT ![u] = "go_down"]
           /\ unit_pipe' = [unit_pipe EXCEPT ![u] = Append(@, Death)]
           /\ UNCHANGED <<amiga, status, back_pipe, threads, cmds, interrupt, resets>>

Down(u) == going_down = u /\ thread[u] = "dead"

ResetBegins == AmigaRuns /\ resets < Resets /\ Kill(1)
ResetGoesOn == \E u \in Unit : Down(u) /\ u < Units /\ Kill(u + 1)
ResetEnds == /\ Down(Units)
             /\ Boot
             /\ resets' = resets + 1
             /\ UNCHANGED <<unit_no, singlethread_int_sem>>

Next == \/ \E u \in Unit : HandlerTask(u) \/ UnitThread(u)
        \/ \E p \in Packet, u \in Unit : Send(p, u)
        \/ OtherRequest \/ Server \/ ExterTask \/ Vsync
        \/ ResetBegins \/ ResetGoesOn \/ ResetEnds

Spec == Init /\ [][Next]_vars

\* Threads run, and so do the tasks of the Amiga and its interrupt.
Fairness == /\ \A u \in Unit : WF_vars(HandlerTask(u)) /\ WF_vars(UnitThread(u))
            /\ WF_vars(Server) /\ WF_vars(ExterTask)
            /\ WF_vars(ResetGoesOn) /\ WF_vars(ResetEnds)
FairSpec == Spec /\ Fairness
-----------------------------------------------------------------------------
TypeOK ==
  /\ port \in [Unit -> Seq(Packet \cup {Dummy})]
  /\ handler \in [Unit -> {"loop", "enqueue", "scan"}]
  /\ hand \in [Unit -> Packet \cup {None}]
  /\ queue \in [Unit -> Seq(Packet)]
  /\ started \in [Unit -> 0 .. Limit]
  /\ status \in [Packet -> {"client", "sent", "handed", "aside", "done"}]
  /\ unit_pipe \in [Unit -> Seq(Packet \cup {Death})] /\ back_pipe \in [Unit -> Nat]
  /\ thread \in [Unit -> {"read", "process", "mark", "back", "request", "dead"}]
  /\ work \in [Unit -> Packet \cup {None}]
  /\ cmds_sent \in [Unit -> 0 .. Wrap - 1] /\ cmds_acked \in [Unit -> 0 .. Wrap - 1]
  /\ cmds_complete \in [Unit -> 0 .. Wrap - 1]
  /\ uae_int_requested \in BOOLEAN /\ signalled \in BOOLEAN
  /\ exter \in {"wait", "put", "next"} /\ unit_no \in 1 .. Units + 1
  /\ singlethread_int_sem \in {0, 1}
  /\ going_down \in 0 .. Units /\ reset_state \in [Unit -> {"startup", "go_down"}]
  /\ resets \in 0 .. Resets

Dummies(u) == Cardinality({i \in 1 .. Len(port[u]) : port[u][i] = Dummy})
Putting(u) == exter = "put" /\ unit_no = u + 1

\* The message lock, cmds_acked # cmds_complete, is taken exactly while the dummy
\* message of the unit is on its way to the handler.  The Amiga would corrupt the
\* port's list of messages if it put the same message twice.
MessageLock ==
  \A u \in Unit :
    IF cmds_acked[u] = cmds_complete[u]
      THEN Dummies(u) = 0 /\ ~Putting(u)
      ELSE Dummies(u) + (IF Putting(u) THEN 1 ELSE 0) = 1

\* The emulation thread never waits for room in a unit's pipe, nor the thread for
\* room in the pipe back: the limit on started commands, which the Amiga's code
\* keeps, bounds what is in the pipes of the host's code (99 entries of each).  That
\* holds during a reset as well, when the death message is added, nobody takes what is
\* sent back any more, and the emulation thread waits for the thread of the unit.
PipesHaveRoom ==
  \A u \in Unit : /\ Len(unit_pipe[u]) <= Limit + (IF AmigaRuns THEN 0 ELSE 1)
                  /\ back_pipe[u] <= 2 * Limit + 1

\* The handler's chain of unfinished commands is, backwards, what its thread has
\* still to do: neither forgets a packet, nor does one that the other does not know.
Chain(u) == IF handler[u] = "enqueue" THEN <<hand[u]>> \o queue[u] ELSE queue[u]
Handed == {p \in Packet : status[p] = "handed"}
Unfinished(u) == Reverse(Kept(Chain(u), Handed))
Backlog(u) == IF work[u] = None THEN unit_pipe[u] ELSE <<work[u]>> \o unit_pipe[u]
SameWork == AmigaRuns => \A u \in Unit : Unfinished(u) = Backlog(u)

\* In a unit that goes on finishing commands no finished command waits for ever.
UsedUnitsReply ==
  \A u \in Unit, p \in Packet :
    []<>(thread[u] = "mark")
      => []((p \in ToSet(queue[u]) /\ Done(p)) => <>~(p \in ToSet(queue[u]) /\ Done(p)))

\* What filesys.cpp:6812 says: the interrupt that a thread asks for sends the
\* message.  When the interrupt is over no finished packet is left in the queue.
Quiet(u) == /\ thread[u] = "read" /\ handler[u] = "loop" /\ Dummies(u) = 0
            /\ ~uae_int_requested /\ ~signalled /\ exter = "wait"
InterruptSends ==
  \A u \in Unit : Quiet(u) => \A p \in ToSet(queue[u]) : ~Done(p)

\* What filesys.asm:1854 says: any number of unstarted commands can be handled.
UnstartedHandled == \A p \in Packet : status[p] = "aside" ~> status[p] # "aside"
=============================================================================
