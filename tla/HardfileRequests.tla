-------------------------- MODULE HardfileRequests --------------------------
(***************************************************************************)
(* The I/O requests of one unit of uaehf.device, hardfile.cpp.  The        *)
(* emulation thread runs hardfile_beginio and its like, which enter a      *)
(* request into the table d_request and hand it to the thread of the unit; *)
(* hardfile_thread carries it out, removes it from the table and replies.  *)
(* Both threads work on the table without a lock, field by field; the only *)
(* thing that one of them waits for is the type of an entry, abort_async.  *)
(*                                                                         *)
(* CMD_ADDCHANGEINT, which stays in the table, is left out, and so are the *)
(* buffers that belong to its entries and change_sem, which only disk      *)
(* changes wait for.  The pipe between the threads is a FIFO, as CommPipe  *)
(* establishes.  A thread's last steps, from thread_running on, are one.   *)
(***************************************************************************)
EXTENDS Naturals, Sequences, FiniteSets

CONSTANTS Request,    \* I/O requests of the Amiga's programs
          Slots,      \* MAX_ASYNC_REQUESTS, 50
          None,
          Death,      \* the request 0 that ends the thread
          Closes,     \* bound: times the last opener closes the unit
          Resets      \* bound: resets of the Amiga

\* The table is never full.
ASSUME HardfileAssumption == /\ IsFiniteSet(Request)
                             /\ Slots \in Nat \ {0} /\ Slots >= Cardinality(Request)
                             /\ None \notin Request /\ Death \notin Request
                             /\ {Closes, Resets} \subseteq Nat

VARIABLES
  d_request, d_request_type,  \* the table
  requests,                   \* the pipe
  thread_running,
  place, cur, slot,  \* of each thread: where it is, its request, an entry
  status,          \* of each request: with the client or with the device
  resetting,       \* the emulation thread is in hardfile_reset
  opened, closes, resets

table == <<d_request, d_request_type>>
threads == <<place, cur, slot>>
bounds == <<resetting, opened, closes, resets>>
vars == <<table, requests, thread_running, threads, status, bounds>>

Slot == 1 .. Slots
Thread == {"emu", "unit"}

Empty == [i \in Slot |-> None]
NoTypes == [i \in Slot |-> "none"]

Init == /\ d_request = Empty /\ d_request_type = NoTypes
        /\ requests = <<>>
        /\ thread_running = TRUE
        /\ place = [emu |-> "amiga", unit |-> "read"]
        /\ cur = [t \in Thread |-> None] /\ slot = [t \in Thread |-> 1]
        /\ status = [r \in Request |-> "client"]
        /\ resetting = FALSE /\ opened = TRUE /\ closes = 0 /\ resets = 0

Goes(t, from, to) == place[t] = from /\ place' = [place EXCEPT ![t] = to]
Entries(r) == {i \in Slot : d_request[i] = r}
First(S) == CHOOSE i \in S : \A j \in S : i <= j
-----------------------------------------------------------------------------
(* hardfile_beginio, add_async_request                                     *)

Forget == /\ d_request' = Empty /\ d_request_type' = NoTypes
          /\ requests' = <<>>

\* A new thread starts with everything cleared, the table and the pipe included.
StartThread == IF thread_running
                 THEN UNCHANGED <<table, requests, thread_running>>
                 ELSE Forget /\ thread_running' = TRUE

BeginIO(r) ==
  /\ Goes("emu", "amiga", "begin") /\ opened /\ status[r] = "client"
  /\ status' = [status EXCEPT ![r] = "device"]
  /\ cur' = [cur EXCEPT !["emu"] = r]
  /\ StartThread
  /\ UNCHANGED <<slot, bounds>>

\* The call returns at once: the command was quick, or the thread had ended by now.  Then
\* nothing is replied, and only a caller that asked for a quick answer sees the error.
ReturnsAtOnce ==
  /\ Goes("emu", "begin", "amiga")
  /\ \E s \in IF thread_running THEN {"client"} ELSE {"client", "device"} :
       status' = [status EXCEPT ![cur["emu"]] = s]
  /\ cur' = [cur EXCEPT !["emu"] = None]
  /\ UNCHANGED <<table, requests, thread_running, slot, bounds>>

BeginAsync == /\ thread_running /\ Goes("emu", "begin", "enter")
              /\ UNCHANGED <<table, requests, thread_running, cur, slot, status, bounds>>

\* The entry of the request or, if it has none, the first free one, which is then filled in
\* field by field.
FindEntry ==
  LET own == Entries(cur["emu"]) IN
  /\ place["emu"] = "enter"
  /\ place' = [place EXCEPT !["emu"] = IF own = {} THEN "found" ELSE "type"]
  /\ slot' = [slot EXCEPT !["emu"] = First(IF own = {} THEN Entries(None) ELSE own)]
  /\ UNCHANGED <<table, requests, thread_running, cur, status, bounds>>

EnterRequest == /\ Goes("emu", "found", "type")
                /\ d_request' = [d_request EXCEPT ![slot["emu"]] = cur["emu"]]
                /\ UNCHANGED <<d_request_type, requests,
                               thread_running, cur, slot, status, bounds>>

EnterType == /\ Goes("emu", "type", "entered")
             /\ d_request_type' = [d_request_type EXCEPT ![slot["emu"]] = "temp"]
             /\ UNCHANGED <<d_request, requests, thread_running,
                            cur, slot, status, bounds>>

Enter == FindEntry \/ EnterRequest \/ EnterType

HandOver == /\ Goes("emu", "entered", "amiga")
            /\ requests' = Append(requests, cur["emu"])
            /\ cur' = [cur EXCEPT !["emu"] = None]
            /\ UNCHANGED <<table, thread_running, slot, status, bounds>>
-----------------------------------------------------------------------------
(* release_async_request, which both threads call.                         *)

\* The entry is looked for ...
FindRelease(t) ==
  LET found == Entries(cur[t]) IN
  /\ place[t] = "release"
  /\ IF found = {}
       THEN place' = [place EXCEPT ![t] = "released"] /\ UNCHANGED slot
       ELSE /\ place' = [place EXCEPT ![t] = "drop"]
            /\ slot' = [slot EXCEPT ![t] = First(found)]
  /\ UNCHANGED <<table, requests, thread_running, cur, status, bounds>>

\* Mutant: the entry keeps its request, only its buffer and type are cleared.
BugReleaseRequest(t) ==
  /\ Goes(t, "drop", "clear")
  /\ UNCHANGED <<table, requests, thread_running, cur, slot, status, bounds>>

\* ... and then cleared, whatever the other thread has made of it meanwhile.
ReleaseRequest(t) ==
  /\ Goes(t, "drop", "clear")
  /\ d_request' = [d_request EXCEPT ![slot[t]] = None]
  /\ UNCHANGED <<d_request_type, requests, thread_running, cur, slot, status, bounds>>

ReleaseType(t) ==
  /\ Goes(t, "clear", "released")
  /\ d_request_type' = [d_request_type EXCEPT ![slot[t]] = "none"]
  /\ UNCHANGED <<d_request, requests, thread_running, cur, slot,
                 status, bounds>>

Release(t) == FindRelease(t) \/ ReleaseRequest(t) \/ ReleaseType(t)
-----------------------------------------------------------------------------
(* hardfile_thread                                                         *)

\* Mutant: the request that ends the thread is carried out like another.
BugUnitReads ==
  /\ Goes("unit", "read", "io") /\ thread_running /\ requests # <<>>
  /\ requests' = Tail(requests)
  /\ cur' = [cur EXCEPT !["unit"] = Head(requests)]
  /\ UNCHANGED <<table, thread_running, slot, status, bounds>>

UnitReads ==
  LET r == Head(requests) IN
  /\ place["unit"] = "read" /\ thread_running /\ requests # <<>>
  /\ requests' = Tail(requests)
  /\ IF r = Death
       THEN /\ thread_running' = FALSE
            /\ UNCHANGED <<place, cur>>
       ELSE /\ place' = [place EXCEPT !["unit"] = "io"]
            /\ cur' = [cur EXCEPT !["unit"] = r]
            /\ UNCHANGED thread_running
  /\ UNCHANGED <<table, slot, status, bounds>>

DoIO == /\ Goes("unit", "io", "release")
        /\ UNCHANGED <<table, requests, thread_running, cur, slot, status, bounds>>

\* Mutant: the reply is left out.
BugReply == /\ Goes("unit", "released", "read")
            /\ cur' = [cur EXCEPT !["unit"] = None]
            /\ UNCHANGED <<table, requests, thread_running, slot, status, bounds>>

Reply == /\ Goes("unit", "released", "read")
         /\ status' = [status EXCEPT ![cur["unit"]] = "client"]
         /\ cur' = [cur EXCEPT !["unit"] = None]
         /\ UNCHANGED <<table, requests, thread_running, slot, bounds>>

UnitThread == UnitReads \/ DoIO \/ Release("unit") \/ Reply
-----------------------------------------------------------------------------
(* abort_async, for hardfile_abortio and for hardfile_reset                *)

Temp(r) == \E i \in Entries(r) : d_request_type[i] = "temp"

AbortIO(r) == /\ Goes("emu", "amiga", "abortio") /\ status[r] = "device"
              /\ cur' = [cur EXCEPT !["emu"] = r]
              /\ StartThread
              /\ UNCHANGED <<slot, status, bounds>>

\* A thread that has ended by now has nothing to abort.
AbortBegins ==
  /\ Goes("emu", "abortio", IF thread_running THEN "abort" ELSE "amiga")
  /\ cur' = IF thread_running THEN cur ELSE [cur EXCEPT !["emu"] = None]
  /\ UNCHANGED <<table, requests, thread_running, slot, status, bounds>>

\* While the request is in the table as being processed the emulation thread sleeps.
AbortGoesOn == /\ ~Temp(cur["emu"]) /\ Goes("emu", "abort", "release")
               /\ UNCHANGED <<table, requests, thread_running, cur, slot, status,
                              bounds>>

\* The thread replies to the request, if it gets to it.
Released == /\ Goes("emu", "released", IF resetting THEN "reset" ELSE "amiga")
            /\ cur' = [cur EXCEPT !["emu"] = None]
            /\ UNCHANGED <<table, requests, thread_running, slot, status, bounds>>
-----------------------------------------------------------------------------
(* hardfile_close and hardfile_open, hardfile_reset                        *)

\* Programs close the unit once their requests are done.
Close == /\ place["emu"] = "amiga" /\ opened /\ closes < Closes
         /\ \A r \in Request : status[r] = "client"
         /\ opened' = FALSE /\ closes' = closes + 1
         /\ requests' = Append(requests, Death)
         /\ UNCHANGED <<table, thread_running, threads, status, resetting, resets>>

Open == /\ place["emu"] = "amiga" /\ ~opened
        /\ opened' = TRUE
        /\ StartThread
        /\ UNCHANGED <<threads, status, resetting, closes, resets>>

Reset == /\ Goes("emu", "amiga", "reset") /\ resets < Resets
         /\ resetting' = TRUE /\ resets' = resets + 1
         /\ UNCHANGED <<table, requests, thread_running, cur, slot, status, opened,
                        closes>>

Used == {i \in Slot : d_request[i] # None}

ResetAborts == /\ opened /\ Used # {}
               /\ Goes("emu", "reset", "abort")
               /\ cur' = [cur EXCEPT !["emu"] = d_request[First(Used)]]
               /\ UNCHANGED <<table, requests, thread_running, slot, status,
                              bounds>>

\* Mutant: the thread is told to end only if nothing is queued.
BugResetKills == /\ opened => Used = {}
                 /\ Goes("emu", "reset", "kill")
                 /\ requests' = IF thread_running /\ requests = <<>> THEN <<Death>>
                                ELSE requests
                 /\ UNCHANGED <<table, thread_running, cur, slot, status, bounds>>

ResetKills == /\ opened => Used = {}
              /\ Goes("emu", "reset", "kill")
              /\ requests' = IF thread_running THEN Append(requests, Death) ELSE requests
              /\ UNCHANGED <<table, thread_running, cur, slot, status, bounds>>

\* Once the thread has ended, which the emulation thread sleeps for.  The programs of the Amiga
\* are gone; the next one to open the unit starts afresh.
ResetEnds == /\ ~thread_running
             /\ Goes("emu", "kill", "amiga")
             /\ Forget
             /\ status' = [r \in Request |-> "client"]
             /\ opened' = FALSE /\ resetting' = FALSE
             /\ UNCHANGED <<thread_running, cur, slot, closes, resets>>

Emulation == \/ ReturnsAtOnce \/ BeginAsync \/ Enter \/ HandOver
             \/ AbortBegins \/ AbortGoesOn \/ Release("emu") \/ Released
             \/ ResetAborts \/ ResetKills \/ ResetEnds

Next == \/ \E r \in Request : BeginIO(r) \/ AbortIO(r)
        \/ Emulation \/ UnitThread \/ Close \/ Open \/ Reset

Spec == Init /\ [][Next]_vars

\* Both threads run; programs need not call again.
FairSpec == Spec /\ WF_vars(Emulation) /\ WF_vars(UnitThread)
-----------------------------------------------------------------------------
TypeOK ==
  /\ d_request \in [Slot -> Request \cup {None}]
  /\ d_request_type \in [Slot -> {"none", "temp"}]
  /\ requests \in Seq(Request \cup {Death})
  /\ thread_running \in BOOLEAN
  /\ place \in [Thread -> {"amiga", "abortio", "abort", "reset", "kill", "read", "io",
                           "begin", "enter", "found", "type", "entered",
                           "release", "drop", "clear", "released"}]
  /\ cur \in [Thread -> Request \cup {None}] /\ slot \in [Thread -> Slot]
  /\ status \in [Request -> {"client", "device"}]
  /\ resetting \in BOOLEAN /\ opened \in BOOLEAN
  /\ closes \in 0 .. Closes /\ resets \in 0 .. Resets

\* A request is in the table once, and no longer by the time that the client may
\* send it again.
OneEntry == \A r \in Request :
              Cardinality(Entries(r)) <= (IF status[r] = "client" THEN 0 ELSE 1)

\* The emulation thread, and with it the Amiga, waits for the thread of the unit in
\* abort_async and at the end of hardfile_reset, but not for ever: what it waits for is
\* a request that the thread gets to.  A unit that was closed is the exception: it may
\* be opened again while its thread is yet to read that it has to end, and whatever is
\* sent then is never carried out.
WaitsEnd == LET Waits == place["emu"] \in {"abort", "kill"} IN
            Waits ~> (~Waits \/ closes > 0)

\* A request is replied to, aborted or not.
Answered ==
  \A r \in Request : (status[r] = "device") ~> (status[r] = "client" \/ closes > 0)
=============================================================================
