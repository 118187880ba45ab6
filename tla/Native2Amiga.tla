---------------------------- MODULE Native2Amiga ----------------------------
(***************************************************************************)
(* Calls of Amiga exec functions from outside the emulation thread,        *)
(* native2amiga.cpp: a thread writes a message of two to four words into   *)
(* the pipe native2amiga_pending and raises the interrupt of the EXTER     *)
(* task; the task asks exter_int_helper, which parses one message out of   *)
(* the pipe at a time, and does what the message says.                     *)
(*                                                                         *)
(* Traps run in the emulation thread, which also sends messages of its     *)
(* own: a reply to an I/O request that is done at once, for example.       *)
(* While it waits, for the semaphore or at either end of the pipe, the     *)
(* Amiga stands still.  The pipe is a FIFO of words, as CommPipe           *)
(* establishes; uae_ShellExecute and the units' packets, which use the     *)
(* same interrupt, are left out.                                           *)
(***************************************************************************)
EXTENDS Naturals, Sequences, FiniteSets, Selection

CONSTANTS Sender,    \* the threads that call uae_PutMsg and its like
          Emu,       \* the emulation thread, which may be one of them
          Message,
          Words,     \* how many words a message has
          Capacity,  \* 299 words fit into the pipe
          None

ASSUME NativeAssumption == /\ Words \in [Message -> 2 .. 4]
                           /\ Capacity \in Nat \ {0}
                           /\ None \notin Message

VARIABLES pipe, n2asem, uae_int_requested,
          place, sending, written,  \* per sender: where it is, and its message
          flying,                   \* messages sent and not delivered
          signalled, exter, got     \* the EXTER task, and the words it has parsed

senders == <<n2asem, place, sending, written>>
interrupt == <<uae_int_requested, signalled>>
vars == <<pipe, senders, interrupt, flying, exter, got>>

Word == [msg : Message, index : 1 .. 4]

Init == /\ pipe = <<>> /\ n2asem = 1
        /\ uae_int_requested = FALSE /\ signalled = FALSE
        /\ place = [t \in Sender |-> "idle"]
        /\ sending = [t \in Sender |-> None]
        /\ written = [t \in Sender |-> 0]
        /\ flying = {} /\ exter = "wait" /\ got = <<>>

InHelper == exter \in {"helper", "args"}
AmigaRuns == ~InHelper /\ (Emu \in Sender => place[Emu] = "idle")
-----------------------------------------------------------------------------
(* uae_Cause, uae_ReplyMsg, uae_PutMsg, uae_Signal, uae_Signal_with_Func   *)
(* and uae_NotificationHack.                                               *)

Goes(t, from, to) == place[t] = from /\ place' = [place EXCEPT ![t] = to]

Call(t, m) == /\ Goes(t, "idle", "wait")
              /\ t = Emu => AmigaRuns
              /\ m \notin flying
              /\ flying' = flying \cup {m}
              /\ sending' = [sending EXCEPT ![t] = m]
              /\ UNCHANGED <<pipe, n2asem, written, interrupt, exter, got>>

\* Mutant: no semaphore.
BugNativeSemWait(t) == /\ Goes(t, "wait", "write")
                       /\ UNCHANGED <<pipe, n2asem, sending, written, interrupt, flying,
                                      exter, got>>

NativeSemWait(t) == /\ Goes(t, "wait", "write")
                    /\ n2asem > 0
                    /\ n2asem' = n2asem - 1
                    /\ UNCHANGED <<pipe, sending, written, interrupt, flying, exter,
                                   got>>

\* Mutant: the last word is not the end of the message.
BugWrite(t) ==
  /\ Goes(t, "write", IF written[t] = Words[sending[t]] THEN "request" ELSE "write")
  /\ Len(pipe) < Capacity
  /\ pipe' = Append(pipe, [msg |-> sending[t], index |-> written[t] + 1])
  /\ written' = [written EXCEPT ![t] = @ + 1]
  /\ UNCHANGED <<n2asem, sending, interrupt, flying, exter, got>>

Write(t) ==
  LET k == written[t] + 1
      m == sending[t] IN
  /\ Goes(t, "write", IF k = Words[m] THEN "request" ELSE "write")
  /\ Len(pipe) < Capacity
  /\ pipe' = Append(pipe, [msg |-> m, index |-> k])
  /\ written' = [written EXCEPT ![t] = k]
  /\ UNCHANGED <<n2asem, sending, interrupt, flying, exter, got>>

\* Mutant: no interrupt.
BugRequest(t) == /\ Goes(t, "request", "post")
                 /\ UNCHANGED <<pipe, n2asem, sending, written, interrupt, flying, exter,
                                got>>

Request(t) == /\ Goes(t, "request", "post")
              /\ uae_int_requested' = TRUE
              /\ UNCHANGED <<pipe, n2asem, sending, written, signalled, flying, exter,
                             got>>

NativeSemPost(t) == /\ Goes(t, "post", "idle")
                    /\ n2asem' = n2asem + 1
                    /\ sending' = [sending EXCEPT ![t] = None]
                    /\ written' = [written EXCEPT ![t] = 0]
                    /\ UNCHANGED <<pipe, interrupt, flying, exter, got>>

\* Other threads use the interrupt as well, filesys_iteration for one.  To ask again for what
\* is asked for already changes nothing, and is no step.
OtherRequest == /\ ~uae_int_requested
                /\ uae_int_requested' = TRUE
                /\ UNCHANGED <<pipe, senders, signalled, flying, exter, got>>

Sends(t) == NativeSemWait(t) \/ Write(t) \/ Request(t) \/ NativeSemPost(t)
-----------------------------------------------------------------------------
(* The interrupt, the EXTER task and exter_int_helper.                     *)

\* exter_server_new reads the request, which takes it back, and signals the task.
Server == /\ AmigaRuns /\ uae_int_requested
          /\ uae_int_requested' = FALSE /\ signalled' = TRUE
          /\ UNCHANGED <<pipe, senders, flying, exter, got>>

TaskWakes == /\ AmigaRuns /\ exter = "wait" /\ signalled
             /\ exter' = "helper" /\ signalled' = FALSE
             /\ UNCHANGED <<pipe, senders, uae_int_requested, flying, got>>

\* Mutant: one argument is left in the pipe.
BugRead == /\ pipe # <<>>
           /\ got' = Append(got, Head(pipe))
           /\ pipe' = Tail(pipe)
           /\ exter' = IF Len(got') + 1 = Words[got'[1].msg] THEN "deliver" ELSE "args"
           /\ UNCHANGED <<senders, interrupt, flying>>

\* A word is read; after a message's last one the task gets the message.
Read == /\ pipe # <<>>
        /\ got' = Append(got, Head(pipe))
        /\ pipe' = Tail(pipe)
        /\ exter' = IF Len(got') = Words[got'[1].msg] THEN "deliver" ELSE "args"
        /\ UNCHANGED <<senders, interrupt, flying>>

HasData == exter = "helper" /\ Read
NoMore == /\ exter = "helper" /\ pipe = <<>>
          /\ exter' = "wait"
          /\ UNCHANGED <<pipe, senders, interrupt, flying, got>>
ReadArgs == exter = "args" /\ Read

\* The task does it, and asks for more.
Deliver == /\ AmigaRuns /\ exter = "deliver"
           /\ exter' = "helper"
           /\ flying' = flying \ {got[1].msg}
           /\ got' = <<>>
           /\ UNCHANGED <<pipe, senders, interrupt>>

ExterTask == TaskWakes \/ HasData \/ NoMore \/ ReadArgs \/ Deliver

Next == \/ \E t \in Sender, m \in Message : Call(t, m)
        \/ \E t \in Sender : Sends(t)
        \/ OtherRequest \/ Server \/ ExterTask

Spec == Init /\ [][Next]_vars

\* Threads run, and so do the Amiga's interrupt and its EXTER task.
Fairness == /\ \A t \in Sender : WF_vars(Sends(t))
            /\ WF_vars(Server) /\ WF_vars(ExterTask)
FairSpec == Spec /\ Fairness
-----------------------------------------------------------------------------
TypeOK == /\ pipe \in Seq(Word) /\ Len(pipe) <= Capacity
          /\ n2asem \in {0, 1}
          /\ uae_int_requested \in BOOLEAN /\ signalled \in BOOLEAN
          /\ place \in [Sender -> {"idle", "wait", "write", "request", "post"}]
          /\ sending \in [Sender -> Message \cup {None}]
          /\ written \in [Sender -> 0 .. 4]
          /\ flying \subseteq Message
          /\ exter \in {"wait", "helper", "args", "deliver"}
          /\ got \in Seq(Word)

\* What exter_int_helper takes for a message is one: its words, from the first on,
\* and none of another sender's in between.
WholeMessages == \A i \in 1 .. Len(got) : got[i] = [msg |-> got[1].msg, index |-> i]

\* No request is lost between the task and the interrupt, whichever of them is
\* busy: a word that waits in the pipe has an interrupt coming.
Writing == \E t \in Sender : place[t] \in {"write", "request"}
InterruptDue == pipe # <<>> /\ ~Writing
                  => uae_int_requested \/ signalled \/ exter # "wait"

\* As seen from outside, messages go through a FIFO: each comes out once, complete,
\* and in the order in which the senders obtained the semaphore.
LastWord == {w \in Word : w.index = Words[w.msg]}
Sent == LET last == Kept(pipe, LastWord) IN [i \in 1 .. Len(last) |-> last[i].msg]
Unsent == {t \in Sender : place[t] = "write"}
Mail == INSTANCE BoundedFifo WITH
          Item <- Message, NoItem <- None,
          queue <- Sent,
          in <- IF Unsent = {} THEN None ELSE sending[CHOOSE t \in Unsent : TRUE],
          out <- IF exter = "deliver" THEN got[1].msg ELSE None
MailSpec == Mail!Spec

\* Each message whose sender has the semaphore is delivered.
Delivered ==
  \A t \in Sender, m \in Message :
    (sending[t] = m /\ place[t] = "write") ~> m \notin flying

=============================================================================
