------------------------------- MODULE Events -------------------------------
(***************************************************************************)
(* The event scheduler of events.cpp, which runs the custom chips between  *)
(* two instructions of the emulated CPU.  eventtab holds one event for     *)
(* each periodic chip; its entry ev_misc drives the second table,          *)
(* eventtab2, of one-shot events.  do_cycles moves the time currcycle from *)
(* event to event and calls the handlers that are due; a handler may       *)
(* schedule events itself, also from inside MISC_handler's scan.           *)
(*                                                                         *)
(* The clock is an unsigned long, which is 32 bits wide on 32-bit hosts    *)
(* and wraps there every few seconds: all times are taken modulo Wrap.     *)
(* Everything runs in the emulation thread; pc says how far a call has     *)
(* come, and only a call from the CPU (pc = "cpu") lets time pass.         *)
(***************************************************************************)
EXTENDS Integers, Sequences, FiniteSets, FiniteSetsExt

CONSTANTS Wrap,       \* number of values of the clock, 2^32 or 2^64
          Ev2Misc,    \* ev2_misc, 2: the slots below it are ev2_blitter, ev2_disk
          Ev2Max,     \* slots of eventtab2, 12: from ev2_misc on they are shared
          Device,     \* the chips among copper, cia and audio that are in use
          Func,       \* handler and data of a one-shot event, taken together
          NoEvent,    \* what an inactive slot holds
          Delay,      \* how far ahead an event is scheduled
          LineTime,   \* HSYNCTIME
          Quantum,    \* cycles that one call of do_cycles may add
          Slack       \* pissoff_value: cycles granted while the host is awaited

Fixed   == 0 .. Ev2Misc - 1
Misc    == Ev2Misc .. Ev2Max - 1
Slots   == 0 .. Ev2Max - 1
Order   == <<"copper", "cia", "audio", "misc", "hsync">>
Entries == {"copper", "cia", "audio", "misc", "hsync"}
Never   == Wrap - 1   \* ~0, `no event'
Off     == -1         \* an inactive entry; its old evtime is never read

ASSUME EventsAssumption ==
  /\ Wrap \in Nat /\ Ev2Misc \in Nat /\ Ev2Max \in Nat /\ Ev2Max > Ev2Misc
  /\ Device \subseteq {"copper", "cia", "audio"}
  /\ Delay \cup {LineTime} \subseteq 1 .. Never - 1
  /\ Quantum \subseteq 1 .. Never - 1 /\ Slack \in Nat

VARIABLES currcycle, nextevent,
          eventtab,          \* entry -> evtime while it is active, or Off
          eventtab2,         \* slot  -> evtime and func, or NoEvent
          next,              \* where the search for a shared slot starts
          cycles_to_add, fastest, pissoff, is_syncline,     \* of do_cycles
          mintime, recheck,  \* of MISC_handler's scan
          pc, entry, slot, back   \* place, indices, return of MISC_handler

sync == <<fastest, pissoff, is_syncline>>
scan == <<mintime, recheck, slot, back>>
vars == <<currcycle, nextevent, eventtab, eventtab2, next, cycles_to_add, sync,
          scan, pc, entry>>

\* Mutant: a clock of unlimited width.
BugAfter(d) == currcycle + d

After(d) == (currcycle + d) % Wrap
Ahead(t) == (t - currcycle) % Wrap       \* the unsigned difference
Least(S) == Min(S \cup {Never})

\* events_schedule, for the table as a step leaves it.
Schedule(tab) ==
  nextevent' = After(Least({Ahead(tab[e]) : e \in {x \in Entries : tab[x] # Off}}))

\* init_eventtab
Cleared  == [e \in Entries |-> IF e = "hsync" THEN LineTime ELSE Off]
Cleared2 == [s \in Slots |-> NoEvent]

Init == /\ currcycle = 0 /\ nextevent = LineTime
        /\ eventtab = Cleared /\ eventtab2 = Cleared2 /\ next = Ev2Misc
        /\ cycles_to_add = 0
        /\ fastest \in BOOLEAN /\ pissoff = 0 /\ is_syncline = FALSE
        /\ mintime = Never /\ recheck = FALSE /\ slot = 0 /\ back = "cpu"
        /\ pc = "cpu" /\ entry = 1
-----------------------------------------------------------------------------
(* Scheduling.  A request names a shared event (Func) or a fixed slot.     *)

Arm(e, d) == [eventtab EXCEPT ![e] = After(d)]
Disarm(e) == [eventtab EXCEPT ![e] = Off]
Request   == Func \cup Fixed
Posted(r, d) == [evtime |-> After(d), func |-> IF r \in Fixed THEN "own" ELSE r]

\* event2_newevent_xx tries the shared slots in turn and takes the first that is
\* free or holds the very same event; there may be none ("out of event2's!").
Tried(j)     == Ev2Misc + ((next - Ev2Misc + j) % Cardinality(Misc))
\* Mutant: takes any event of the same time for the same event.
BugUsable(r, d) == {j \in 0 .. Cardinality(Misc) - 1 :
                      \/ eventtab2[Tried(j)] = NoEvent
                      \/ eventtab2[Tried(j)].evtime = After(d)}

Usable(r, d) == {j \in 0 .. Cardinality(Misc) - 1 :
                   eventtab2[Tried(j)] \in {NoEvent, Posted(r, d)}}

Full(r, d) == r \notin Fixed /\ Usable(r, d) = {}
Post(r, d) == LET s == IF r \in Fixed THEN r ELSE Tried(Min(Usable(r, d)))
              IN  /\ ~Full(r, d)
                  /\ eventtab2' = [eventtab2 EXCEPT ![s] = Posted(r, d)]
                  /\ next' = IF r \in Fixed THEN next ELSE s

\* MISC_handler up to its loop, entered with the table tab.
EnterMisc(tab, from) == /\ eventtab' = [tab EXCEPT !["misc"] = Off]
                        /\ mintime' = Never /\ recheck' = FALSE /\ slot' = 0
                        /\ back' = from
                        /\ pc' = "misc"
-----------------------------------------------------------------------------
(* The CPU, between two calls of do_cycles, and what it does to the chips. *)

CpuPosts(r, d) == /\ pc = "cpu"
                  /\ Post(r, d)
                  /\ EnterMisc(eventtab, "cpu")
                  /\ UNCHANGED <<currcycle, nextevent, cycles_to_add, sync, entry>>

\* event2_remevent
CpuWithdraws(s) == /\ pc = "cpu"
                   /\ eventtab2' = [eventtab2 EXCEPT ![s] = NoEvent]
                   /\ UNCHANGED <<currcycle, nextevent, eventtab, next, cycles_to_add,
                                  sync, scan, pc, entry>>

CpuArms(e) == /\ pc = "cpu"
              /\ \E tab \in {Arm(e, d) : d \in Delay} \cup {Disarm(e)} :
                   eventtab' = tab /\ Schedule(tab)
              /\ UNCHANGED <<currcycle, eventtab2, next, cycles_to_add, sync, scan, pc,
                             entry>>

\* set_special and set_x_funcs
SetSpecial == /\ pc = "cpu"
              /\ pissoff' = 0
              /\ UNCHANGED <<currcycle, nextevent, eventtab, eventtab2, next,
                             cycles_to_add, fastest, is_syncline, scan, pc, entry>>

SetSpeed == /\ pc = "cpu"
            /\ fastest' = ~fastest
            /\ UNCHANGED <<currcycle, nextevent, eventtab, eventtab2, next,
                           cycles_to_add, pissoff, is_syncline, scan, pc, entry>>

\* m68k_go after a reset: set_cycles (0), then init_eventtab.
Reset == /\ pc = "cpu"
         /\ currcycle' = 0 /\ nextevent' = LineTime
         /\ eventtab' = Cleared /\ eventtab2' = Cleared2
         /\ UNCHANGED <<next, cycles_to_add, sync, scan, pc, entry>>
-----------------------------------------------------------------------------
(* do_cycles_cpu_norm and do_cycles_cpu_fastest *)

DoCyclesNorm(n) == /\ pc = "cpu" /\ ~fastest
                   /\ cycles_to_add' = n
                   /\ pc' = "loop"
                   /\ UNCHANGED <<currcycle, nextevent, eventtab, eventtab2, next, sync,
                                  scan, entry>>

DoCyclesFastest(n) ==
  /\ pc = "cpu" /\ fastest
  /\ \/ /\ pissoff >= n
        /\ pissoff' = pissoff - n
        /\ UNCHANGED <<cycles_to_add, pc>>
     \/ /\ pissoff < n
        /\ cycles_to_add' = n - pissoff /\ pissoff' = 0
        /\ pc' = "loop"
  /\ UNCHANGED <<currcycle, nextevent, eventtab, eventtab2, next, fastest, is_syncline,
                 scan, entry>>

More     == pc = "loop" /\ Ahead(nextevent) <= cycles_to_add
Awaiting == fastest /\ is_syncline

\* event_check_vsync: the host clock has not reached the sync point, and the
\* CPU gets cycles to run with the chips standing still ...
HostNotReady == /\ More /\ Awaiting
                /\ pissoff' = Slack
                /\ cycles_to_add' = 0
                /\ pc' = "cpu"
                /\ UNCHANGED <<currcycle, nextevent, eventtab, eventtab2, next, fastest,
                               is_syncline, scan, entry>>

\* ... or it has.
\* Mutant: the awaited sync point is never ticked off.
BugHostReady == /\ More /\ Awaiting
                /\ pissoff' = 0
                /\ UNCHANGED <<currcycle, nextevent, eventtab, eventtab2, next, fastest,
                               is_syncline, cycles_to_add, scan, pc, entry>>

HostReady == /\ More /\ Awaiting
             /\ pissoff' = 0 /\ is_syncline' = FALSE
             /\ UNCHANGED <<currcycle, nextevent, eventtab, eventtab2, next,
                            cycles_to_add, fastest, scan, pc, entry>>

ToEvent == /\ More /\ ~Awaiting
           /\ cycles_to_add' = cycles_to_add - Ahead(nextevent)
           /\ currcycle' = nextevent
           /\ pc' = "fire"
           /\ UNCHANGED <<nextevent, eventtab, eventtab2, next, sync, scan, entry>>

LastCycles == /\ pc = "loop" /\ ~More
              /\ currcycle' = After(cycles_to_add)
              /\ cycles_to_add' = 0
              /\ pc' = "cpu"
              /\ UNCHANGED <<nextevent, eventtab, eventtab2, next, sync, scan, entry>>

\* The entries that are due, from the loop's index on.
Due(e)     == eventtab[e] = currcycle
Left       == {j \in entry .. Len(Order) : Due(Order[j])}
Fires(e)   == pc = "fire" /\ Left # {} /\ Order[Min(Left)] = e

\* A chip's handler: it arms or disarms its own entry and may post an event.
FireChip(e) ==
  /\ Fires(e)
  /\ entry' = Min(Left) + 1
  /\ is_syncline' \in IF e = "hsync" THEN {is_syncline, TRUE} ELSE {is_syncline}
  /\ \E tab \in IF e = "hsync" THEN {Arm(e, LineTime)}
                               ELSE {Arm(e, d) : d \in Delay} \cup {Disarm(e)} :
       \/ /\ eventtab' = tab
          /\ UNCHANGED <<eventtab2, next, scan, pc>>
       \/ \E r \in Request, d \in Delay : Post(r, d) /\ EnterMisc(tab, "fire")
  /\ UNCHANGED <<currcycle, nextevent, cycles_to_add, fastest, pissoff>>

FireMisc == /\ Fires("misc")
            /\ entry' = Min(Left) + 1
            /\ EnterMisc(eventtab, "fire")
            /\ UNCHANGED <<currcycle, nextevent, eventtab2, next, cycles_to_add, sync>>

FireEnd == /\ pc = "fire" /\ Left = {}
           /\ Schedule(eventtab)
           /\ pc' = "loop" /\ entry' = 1
           /\ UNCHANGED <<currcycle, eventtab, eventtab2, next, cycles_to_add, sync, scan>>
-----------------------------------------------------------------------------
(* MISC_handler: the scan of eventtab2.                                    *)

Live(s) == eventtab2[s] # NoEvent
Due2(s) == Live(s) /\ eventtab2[s].evtime = currcycle

ScanPast == /\ pc = "misc" /\ slot < Ev2Max /\ ~Due2(slot)
            /\ mintime' = IF Live(slot) THEN Min({mintime, Ahead(eventtab2[slot].evtime)})
                                        ELSE mintime
            /\ slot' = slot + 1
            /\ UNCHANGED <<currcycle, nextevent, eventtab, eventtab2, next,
                           cycles_to_add, sync, recheck, back, pc, entry>>

ScanDue == /\ pc = "misc" /\ slot < Ev2Max /\ Due2(slot)
           /\ eventtab2' = [eventtab2 EXCEPT ![slot] = NoEvent]
           /\ pc' = "handler"
           /\ UNCHANGED <<currcycle, nextevent, eventtab, next, cycles_to_add, sync, scan,
                          entry>>

\* Back from the handler: a nested MISC_handler has only set dorecheck.
HandlerReturns(nested) == /\ pc' = "misc" /\ slot' = slot + 1
                          /\ recheck' = (recheck \/ nested \/ eventtab2'[slot] # NoEvent)
                          /\ UNCHANGED <<currcycle, cycles_to_add, sync, mintime, back,
                                         entry>>

HandlerOnly == /\ pc = "handler"
               /\ UNCHANGED <<nextevent, eventtab, eventtab2, next>>
               /\ HandlerReturns(FALSE)

HandlerPosts(r, d) == /\ pc = "handler"
                      /\ Post(r, d)
                      /\ UNCHANGED <<nextevent, eventtab>>
                      /\ HandlerReturns(TRUE)

HandlerArms(e) == /\ pc = "handler"
                  /\ \E d \in Delay : eventtab' = Arm(e, d)
                  /\ Schedule(eventtab')
                  /\ UNCHANGED <<eventtab2, next>>
                  /\ HandlerReturns(FALSE)

ScanAgain == /\ pc = "misc" /\ slot = Ev2Max /\ recheck
             /\ slot' = 0 /\ recheck' = FALSE /\ mintime' = Never
             /\ UNCHANGED <<currcycle, nextevent, eventtab, eventtab2, next,
                            cycles_to_add, sync, back, pc, entry>>

\* Mutant: ev_misc is armed and nextevent left as it was.
BugScanEnd == /\ pc = "misc" /\ slot = Ev2Max /\ ~recheck
              /\ eventtab' = IF mintime = Never THEN eventtab ELSE Arm("misc", mintime)
              /\ pc' = back /\ back' = "cpu"
              /\ mintime' = Never /\ slot' = 0
              /\ UNCHANGED <<currcycle, nextevent, eventtab2, next, cycles_to_add, sync,
                             recheck, entry>>

ScanEnd == /\ pc = "misc" /\ slot = Ev2Max /\ ~recheck
           /\ IF mintime = Never
                THEN UNCHANGED <<eventtab, nextevent>>
                ELSE eventtab' = Arm("misc", mintime) /\ Schedule(eventtab')
           /\ pc' = back /\ back' = "cpu"
           /\ mintime' = Never /\ slot' = 0
           /\ UNCHANGED <<currcycle, eventtab2, next, cycles_to_add, sync, recheck, entry>>
-----------------------------------------------------------------------------
DoCycles == \E n \in Quantum : DoCyclesNorm(n) \/ DoCyclesFastest(n)

Cpu == \/ \E r \in Request, d \in Delay : CpuPosts(r, d)
       \/ \E s \in Fixed : CpuWithdraws(s)
       \/ \E e \in Device : CpuArms(e)
       \/ SetSpecial \/ SetSpeed \/ Reset

Run == \/ HostNotReady \/ HostReady \/ ToEvent \/ LastCycles
       \/ \E e \in Device \cup {"hsync"} : FireChip(e)
       \/ FireMisc \/ FireEnd
       \/ ScanPast \/ ScanDue \/ ScanAgain \/ ScanEnd
       \/ HandlerOnly
       \/ \E r \in Request, d \in Delay : HandlerPosts(r, d)
       \/ \E e \in Device : HandlerArms(e)

Next == Cpu \/ DoCycles \/ Run

Spec == Init /\ [][Next]_vars

\* A call of do_cycles runs to its end, the CPU ends every instruction with such
\* a call, and the host clock reaches a sync point that is awaited again and
\* again.
FairSpec == /\ Spec
            /\ WF_vars(Run) /\ SF_vars(DoCycles) /\ SF_vars(HostReady)
-----------------------------------------------------------------------------
(* Properties *)

TypeOK ==
  /\ currcycle \in 0 .. Never /\ nextevent \in 0 .. Never
  /\ eventtab \in [Entries -> 0 .. Never \cup {Off}]
  /\ eventtab2 \in [Slots -> {NoEvent} \cup [evtime : 0 .. Never,
                                             func : Func \cup {"own"}]]
  /\ next \in Misc
  /\ cycles_to_add \in Nat /\ pissoff \in Nat
  /\ fastest \in BOOLEAN /\ is_syncline \in BOOLEAN /\ recheck \in BOOLEAN
  /\ mintime \in 0 .. Never /\ slot \in 0 .. Ev2Max /\ entry \in 1 .. Len(Order) + 1
  /\ pc \in {"cpu", "loop", "fire", "misc", "handler"} /\ back \in {"cpu", "fire"}

\* The clock never moves past an armed event, on either side of its wraparound, whatever
\* was posted, withdrawn or posted again by a handler during the scan: nextevent and the
\* time of ev_misc, which cache the earliest one, are never late.
NothingPassed ==
  [][pc = "loop" =>
       /\ \A e \in Entries : eventtab[e] # Off => Ahead(currcycle') <= Ahead(eventtab[e])
       /\ \A s \in Slots : Live(s) => Ahead(currcycle') <= Ahead(eventtab2[s].evtime)]_vars

\* The one-shot events keep what EventQueue promises.
Queue == INSTANCE EventQueue WITH
           Slot <- Slots, Event <- [evtime : 0 .. Never, func : Func \cup {"own"}],
           Empty <- NoEvent, now <- currcycle, pending <- eventtab2
QueueSpec == Queue!Spec

\* A shared event that was accepted is taken in the end: neither the host sync
\* nor a stream of requests keeps the chips standing still.
SharedEventFires == \A s \in Misc : Live(s) ~> ~Live(s)
=============================================================================
