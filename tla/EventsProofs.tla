---------------------------- MODULE EventsProofs ----------------------------
(***************************************************************************)
(* Proofs about Events, for any number of slots and chips, any delays      *)
(* shorter than the range of the clock and any width of the clock.  The    *)
(* inductive invariant IInv says that the two caches, nextevent and the    *)
(* entry ev_misc, are never late, and what MISC_handler has found out so   *)
(* far; from it follow that the clock passes no event and that one-shot    *)
(* events keep the promise of EventQueue.                                  *)
(***************************************************************************)
EXTENDS Events, FiniteSetTheorems, TLAPS

Time == 0 .. Never
Later(c, d) == (c + d) % Wrap
Distance(t, c) == (t - c) % Wrap

Armed(e) == eventtab[e] # Off
InScan == pc \in {"misc", "handler"}

\* Where a call can stand.
PlaceInv == /\ ~InScan => back = "cpu"
            /\ pc = "handler" => slot \in Slots

\* No entry is due before nextevent, but while the entries are being looked at.
NextInv == pc # "fire" /\ back = "cpu" =>
             \A e \in Entries :
               Armed(e) => Distance(nextevent, currcycle) <= Distance(eventtab[e], currcycle)

\* No one-shot event is as far ahead as `no event' is.
FarInv == \A s \in Slots : Live(s) => Distance(eventtab2[s].evtime, currcycle) < Never

\* None is due before ev_misc, but during the scan ...
MiscInv == ~InScan =>
             \A s \in Slots : Live(s) =>
               /\ Armed("misc")
               /\ Distance(eventtab["misc"], currcycle) <= Distance(eventtab2[s].evtime, currcycle)

\* ... which knows the first of those that it has come past, or has to look again.
ScanInv == InScan /\ ~recheck =>
             \A s \in Slots :
               Live(s) /\ s < slot => mintime <= Distance(eventtab2[s].evtime, currcycle)

IInv == TypeOK /\ PlaceInv /\ NextInv /\ FarInv /\ MiscInv /\ ScanInv
-----------------------------------------------------------------------------
(* The clock.                                                              *)

LEMMA Sizes == /\ Wrap \in Nat /\ Wrap > 2 /\ Never = Wrap - 1 /\ LineTime \in 1 .. Never - 1
               /\ \A d \in Delay : d \in 1 .. Never - 1
               /\ \A n \in Quantum : n \in 1 .. Never - 1
               /\ Slack \in Nat
               /\ Ev2Misc \in Nat /\ Ev2Max \in Nat /\ Ev2Max > Ev2Misc
               /\ Off \notin Time /\ 0 \in Time
  <1>1. LineTime \in 1 .. Never - 1 /\ Wrap \in Nat
    BY EventsAssumption
  <1>2. Wrap > 2
    BY <1>1 DEF Never
  <1>3. Off \notin Time /\ 0 \in Time
    BY <1>1, <1>2 DEF Never, Off, Time
  <1> QED BY <1>1, <1>2, <1>3, EventsAssumption DEF Never

LEMMA DifferenceIs ==
  ASSUME NEW t \in Time, NEW c \in Time
  PROVE  Distance(t, c) = IF t >= c THEN t - c ELSE t - c + Wrap
  <1>1. Wrap \in Nat \ {0} /\ t \in 0 .. Wrap - 1 /\ c \in 0 .. Wrap - 1
    BY Sizes DEF Time, Never
  <1>2. CASE t >= c
    BY <1>1, <1>2 DEF Distance
  <1>3. CASE ~(t >= c)
    <2>1. t - c \in Int /\ 0 - Wrap <= t - c /\ t - c < 0
      BY <1>1, <1>3
    <2> QED BY <1>1, <1>3, <2>1 DEF Distance
  <1> QED BY <1>2, <1>3

LEMMA SumIs ==
  ASSUME NEW c \in Time, NEW d \in Time
  PROVE  Later(c, d) = IF c + d < Wrap THEN c + d ELSE c + d - Wrap
  <1>1. Wrap \in Nat \ {0} /\ d \in 0 .. Wrap - 1 /\ c \in 0 .. Wrap - 1
    BY Sizes DEF Time, Never
  <1>2. CASE c + d < Wrap
    BY <1>1, <1>2 DEF Later
  <1>3. CASE ~(c + d < Wrap)
    <2>1. c + d \in Int /\ Wrap <= c + d /\ c + d < 2 * Wrap
      BY <1>1, <1>3
    <2> QED BY <1>1, <1>3, <2>1 DEF Later
  <1> QED BY <1>2, <1>3

\* Differences are times, and only that of the same time is 0.
LEMMA DifferenceType ==
  ASSUME NEW t \in Time, NEW c \in Time
  PROVE  Distance(t, c) \in Time /\ (Distance(t, c) = 0 <=> t = c)
  <1>1. Wrap \in Nat \ {0} /\ t \in 0 .. Wrap - 1 /\ c \in 0 .. Wrap - 1
    BY Sizes DEF Time, Never
  <1> QED BY <1>1, DifferenceIs DEF Time, Never

\* A time that is d ahead is d ahead, on either side of the wraparound.
LEMMA AheadAfter ==
  ASSUME NEW c \in Time, NEW d \in Time
  PROVE  Later(c, d) \in Time /\ Distance(Later(c, d), c) = d
  <1>1. Wrap \in Nat \ {0} /\ d \in 0 .. Wrap - 1 /\ c \in 0 .. Wrap - 1
    BY Sizes DEF Time, Never
  <1>2. Later(c, d) \in Time
    BY <1>1, SumIs DEF Time, Never
  <1>3. Distance(Later(c, d), c)
          = IF Later(c, d) >= c THEN Later(c, d) - c ELSE Later(c, d) - c + Wrap
    BY <1>2, DifferenceIs
  <1> QED BY <1>1, <1>2, <1>3, SumIs

\* A step of the clock from c to n takes as much from the distance of every time that is not
\* passed by it.
LEMMA ClockMoves ==
  ASSUME NEW c \in Time, NEW n \in Time, NEW t \in Time, Distance(n, c) <= Distance(t, c)
  PROVE  Distance(t, n) = Distance(t, c) - Distance(n, c)
  <1>1. Wrap \in Nat \ {0} /\ t \in 0 .. Wrap - 1 /\ c \in 0 .. Wrap - 1 /\ n \in 0 .. Wrap - 1
    BY Sizes DEF Time, Never
  <1>2. /\ Distance(n, c) = IF n >= c THEN n - c ELSE n - c + Wrap
        /\ Distance(t, c) = IF t >= c THEN t - c ELSE t - c + Wrap
        /\ Distance(t, n) = IF t >= n THEN t - n ELSE t - n + Wrap
    BY DifferenceIs
  <1> QED BY <1>1, <1>2
-----------------------------------------------------------------------------
(* Tables.                                                                 *)

LEMMA MinIs ==
  ASSUME NEW S \in SUBSET Nat, S # {}
  PROVE  Min(S) \in S /\ \A y \in S : Min(S) <= y
  <1>1. \E x \in S : \A y \in S : ~ (<<y, x>> \in OpToRel(<, Nat))
    BY NatLessThanWellFounded, WFMin
  <1>2. \E x \in S : \A y \in S : ~ (y < x)
    BY <1>1, Zenon DEF OpToRel
  <1>3. \E x \in S : \A y \in S : x <= y
    BY <1>2
  <1> QED BY <1>3 DEF Min

LEMMA LeastIs ==
  ASSUME NEW S \in SUBSET Time
  PROVE  Least(S) \in Time /\ \A y \in S : Least(S) <= y
  <1>1. S \cup {Never} \in SUBSET Nat /\ S \cup {Never} # {} /\ Never \in Time
    BY Sizes DEF Time
  <1>2. Min(S \cup {Never}) \in S \cup {Never} /\ \A y \in S \cup {Never} : Min(S \cup {Never}) <= y
    BY <1>1, MinIs
  <1> QED BY <1>1, <1>2 DEF Least

\* events_schedule finds a time that no armed entry comes before.
LEMMA ScheduleIs ==
  ASSUME currcycle \in Time, NEW tab \in [Entries -> Time \cup {Off}], Schedule(tab)
  PROVE  /\ nextevent' \in Time
         /\ \A e \in Entries : tab[e] # Off =>
              Distance(nextevent', currcycle) <= Distance(tab[e], currcycle)
  <1> DEFINE S == {Ahead(tab[e]) : e \in {x \in Entries : tab[x] # Off}}
  <1>1. ASSUME NEW e \in Entries, tab[e] # Off
        PROVE  Ahead(tab[e]) \in Time /\ Ahead(tab[e]) = Distance(tab[e], currcycle)
    <2>1. tab[e] \in Time
      BY <1>1
    <2>2. Distance(tab[e], currcycle) \in Time
      BY <2>1, DifferenceType
    <2> QED BY <2>2 DEF Ahead, Distance
  <1>2. S \in SUBSET Time
    BY <1>1
  <1>3. Least(S) \in Time /\ \A y \in S : Least(S) <= y
    BY <1>2, LeastIs
  <1>4. nextevent' = Later(currcycle, Least(S))
    BY DEF Schedule, After, Later
  <1>5. nextevent' \in Time /\ Distance(nextevent', currcycle) = Least(S)
    BY <1>3, <1>4, AheadAfter
  <1>6. ASSUME NEW e \in Entries, tab[e] # Off
        PROVE  Least(S) <= Distance(tab[e], currcycle)
    <2>1. Ahead(tab[e]) \in S
      BY <1>6
    <2> QED BY <1>1, <1>3, <1>6, <2>1
  <1> QED BY <1>5, <1>6

\* Where event2_newevent puts an event, and that it is then ahead by the delay asked for.
Event == [evtime : 0 .. Never, func : Func \cup {"own"}]

LEMMA PostIs ==
  ASSUME TypeOK, NEW r \in Request, NEW d \in Delay, Post(r, d)
  PROVE  \E s \in Slots, ev \in Event :
           /\ eventtab2' = [eventtab2 EXCEPT ![s] = ev]
           /\ eventtab2[s] \in {NoEvent, ev} \/ s \in Fixed
           /\ next' \in Misc
           /\ Distance(ev.evtime, currcycle) = d /\ d \in 1 .. Never - 1
  <1> DEFINE ev == Posted(r, d)
  <1>1. d \in 1 .. Never - 1 /\ d \in Time /\ currcycle \in Time
    BY Sizes DEF TypeOK, Time
  <1>2. After(d) \in Time /\ Distance(After(d), currcycle) = d
    BY <1>1, AheadAfter DEF After, Later
  <1>3. ev \in Event /\ ev.evtime = After(d)
    BY <1>2 DEF Posted, Event, Time, Request
  <1> HIDE DEF ev
  <1>4. CASE r \in Fixed
    <2>1. r \in Slots /\ eventtab2' = [eventtab2 EXCEPT ![r] = ev] /\ next' = next
      BY <1>4, Sizes DEF Post, Fixed, Slots, ev
    <2> QED BY <1>1, <1>2, <1>3, <1>4, <2>1 DEF TypeOK
  <1>5. CASE r \notin Fixed
    <2> DEFINE n == Cardinality(Misc)
               j == Min(Usable(r, d))
    <2>1. n = Ev2Max - Ev2Misc /\ n \in Nat \ {0}
      <3>1. Ev2Misc \in Int /\ Ev2Max - 1 \in Int /\ Ev2Misc <= Ev2Max - 1
        BY Sizes
      <3>2. Cardinality(Misc) = Ev2Max - 1 - Ev2Misc + 1
        BY <3>1, FS_Interval DEF Misc
      <3> QED BY <3>1, <3>2, Sizes
    <2>2. /\ Usable(r, d) \in SUBSET Nat /\ Usable(r, d) # {}
          /\ \A i \in Usable(r, d) : i \in 0 .. n - 1 /\ eventtab2[Tried(i)] \in {NoEvent, ev}
      BY <1>5 DEF Post, Full, Usable, ev
    <2>3. j \in Usable(r, d)
      BY <2>2, MinIs
    <2>4. j \in Nat /\ eventtab2[Tried(j)] \in {NoEvent, ev}
      BY <2>2, <2>3
    <2>5. eventtab2' = [eventtab2 EXCEPT ![Tried(j)] = ev] /\ next' = Tried(j)
      BY <1>5 DEF Post, ev
    <2> HIDE DEF j
    <2>6. Tried(j) \in Misc
      <3>1. next - Ev2Misc + j \in Nat
        BY <2>4, Sizes DEF TypeOK, Misc
      <3>2. (next - Ev2Misc + j) % n \in 0 .. n - 1
        BY <2>1, <3>1
      <3> QED BY <2>1, <3>2, Sizes DEF Tried, Misc
    <2>7. Tried(j) \in Slots
      BY <2>6, Sizes DEF Misc, Slots
    <2> QED BY <1>1, <1>2, <1>3, <2>4, <2>5, <2>6, <2>7
  <1> QED BY <1>4, <1>5
-----------------------------------------------------------------------------
LEMMA LiveIs == ASSUME TypeOK, NEW s \in Slots, Live(s)
                PROVE  eventtab2[s] \in Event /\ eventtab2[s].evtime \in Time
  <1>1. eventtab2[s] \in Event
    BY DEF TypeOK, Live, Event
  <1> QED BY <1>1 DEF Event, Time

LEMMA OrderIs == /\ Len(Order) = 5
                 /\ \A i \in 1 .. 5 : Order[i] \in Entries
  BY DEF Order, Entries

LEMMA InvInit == Init => IInv
  <1> SUFFICES ASSUME Init PROVE IInv
    OBVIOUS
  <1>1. Cleared \in [Entries -> 0 .. Never \cup {Off}] /\ Cleared2 \in [Slots -> {NoEvent}]
    BY Sizes DEF Cleared, Cleared2
  <1>2. 0 \in 0 .. Never /\ LineTime \in 0 .. Never /\ Never \in 0 .. Never /\ 0 \in 0 .. Ev2Max
        /\ Ev2Misc \in Misc
    BY Sizes DEF Misc
  <1>3. TypeOK
    <2>1. Len(Order) = 5
      BY OrderIs
    <2>2. /\ currcycle \in 0 .. Never /\ nextevent \in 0 .. Never
          /\ eventtab \in [Entries -> 0 .. Never \cup {Off}]
          /\ next \in Misc /\ mintime \in 0 .. Never /\ slot \in 0 .. Ev2Max
      BY <1>1, <1>2 DEF Init
    <2>3. eventtab2 \in [Slots -> {NoEvent} \cup [evtime : 0 .. Never,
                                                  func : Func \cup {"own"}]]
      BY DEF Init, Cleared2
    <2>4. /\ fastest \in BOOLEAN /\ is_syncline \in BOOLEAN /\ recheck \in BOOLEAN
          /\ pc \in {"cpu", "loop", "fire", "misc", "handler"} /\ back \in {"cpu", "fire"}
      BY Zenon DEF Init
    <2>5. cycles_to_add \in Nat /\ pissoff \in Nat /\ entry \in 1 .. Len(Order) + 1
      <3>1. cycles_to_add = 0 /\ pissoff = 0 /\ entry = 1
        BY DEF Init
      <3> QED BY <2>1, <3>1
    <2> QED BY <2>2, <2>3, <2>4, <2>5 DEF TypeOK
  <1>4. PlaceInv /\ ~InScan
    BY DEF Init, PlaceInv, InScan
  <1>5. \A s \in Slots : ~Live(s)
    BY DEF Init, Live, Cleared2
  <1>6. NextInv
    <2>1. \A e \in Entries : Armed(e) => eventtab[e] = LineTime
      BY DEF Init, Armed, Cleared
    <2>2. Distance(nextevent, currcycle) \in Nat
      BY <1>2, DifferenceType DEF Init, Time
    <2> QED BY <2>1, <2>2 DEF Init, NextInv
  <1> QED BY <1>3, <1>4, <1>5, <1>6 DEF IInv, FarInv, MiscInv, ScanInv
-----------------------------------------------------------------------------
(* Steps of do_cycles that leave the tables and the clock alone.           *)

LEMMA QuietKeeps ==
  ASSUME IInv,
         UNCHANGED <<currcycle, nextevent, eventtab, eventtab2, next, scan, entry>>,
         pc \in {"cpu", "loop"}, pc' \in {"cpu", "loop"},
         cycles_to_add' \in Nat, pissoff' \in Nat, fastest' \in BOOLEAN, is_syncline' \in BOOLEAN
  PROVE  IInv'
  <1>1. UNCHANGED <<mintime, recheck, slot, back>>
    BY DEF scan
  <1>2. TypeOK'
    BY <1>1 DEF IInv, TypeOK
  <1>3. PlaceInv' /\ NextInv'
    BY <1>1 DEF IInv, PlaceInv, NextInv, InScan, Armed
  <1>4. FarInv' /\ MiscInv' /\ ScanInv'
    BY <1>1 DEF IInv, FarInv, MiscInv, ScanInv, InScan, Live, Armed
  <1> QED BY <1>2, <1>3, <1>4 DEF IInv

LEMMA CallsKeep ==
  ASSUME IInv, DoCycles \/ SetSpecial \/ SetSpeed \/ HostNotReady \/ HostReady
  PROVE  IInv'
  <1>1. /\ cycles_to_add \in Nat /\ pissoff \in Nat /\ fastest \in BOOLEAN
        /\ is_syncline \in BOOLEAN
    BY DEF IInv, TypeOK
  <1>2. CASE DoCycles
    <2>1. PICK n \in Quantum : DoCyclesNorm(n) \/ DoCyclesFastest(n)
      BY <1>2 DEF DoCycles
    <2>2. n \in Nat
      BY Sizes
    <2>3. CASE DoCyclesNorm(n)
      BY <1>1, <2>2, <2>3, QuietKeeps DEF DoCyclesNorm, sync
    <2>4. CASE DoCyclesFastest(n)
      <3>1. /\ pc = "cpu" /\ pc' \in {"cpu", "loop"}
            /\ UNCHANGED <<currcycle, nextevent, eventtab, eventtab2, next, fastest, is_syncline,
                           scan, entry>>
        BY <2>4 DEF DoCyclesFastest
      <3>2. pissoff' \in Nat /\ cycles_to_add' \in Nat
        BY <1>1, <2>2, <2>4 DEF DoCyclesFastest
      <3> QED BY <1>1, <3>1, <3>2, QuietKeeps
    <2> QED BY <2>1, <2>3, <2>4
  <1>3. CASE SetSpecial \/ SetSpeed
    <2>1. CASE SetSpecial
      BY <1>1, <2>1, QuietKeeps DEF SetSpecial
    <2>2. CASE SetSpeed
      BY <1>1, <2>2, QuietKeeps DEF SetSpeed
    <2> QED BY <1>3, <2>1, <2>2
  <1>4. CASE HostNotReady \/ HostReady
    <2>1. CASE HostNotReady
      <3>1. Slack \in Nat
        BY Sizes
      <3> QED BY <1>1, <2>1, <3>1, QuietKeeps DEF HostNotReady, More
    <2>2. CASE HostReady
      BY <1>1, <2>2, QuietKeeps DEF HostReady, More
    <2> QED BY <1>4, <2>1, <2>2
  <1> QED BY <1>2, <1>3, <1>4

\* What the clock does not pass keeps its order.
LEMMA TimeKeeps ==
  ASSUME IInv, pc = "loop", pc' \in {"cpu", "fire"},
         currcycle' \in Time, Distance(currcycle', currcycle) <= Distance(nextevent, currcycle),
         cycles_to_add' \in Nat,
         UNCHANGED <<nextevent, eventtab, eventtab2, next, sync, scan, entry>>
  PROVE  IInv'
  <1> DEFINE k == Distance(currcycle', currcycle)
  <1>1. UNCHANGED <<mintime, recheck, slot, back, fastest, pissoff, is_syncline>>
    BY DEF scan, sync
  <1>2. TypeOK'
    BY <1>1 DEF IInv, TypeOK, Time
  <1>3. back = "cpu" /\ ~InScan /\ ~InScan'
    BY DEF IInv, PlaceInv, InScan
  <1>4. /\ currcycle \in Time /\ nextevent \in Time
        /\ \A e \in Entries : Armed(e) => eventtab[e] \in Time
    BY DEF IInv, TypeOK, Armed, Time
  <1>5. /\ k \in Int /\ Distance(nextevent, currcycle) \in Int
        /\ Distance(nextevent, currcycle') = Distance(nextevent, currcycle) - k
    BY <1>4, ClockMoves, DifferenceType DEF Time
  <1>6. ASSUME NEW e \in Entries, Armed(e)
        PROVE  /\ Distance(nextevent, currcycle) <= Distance(eventtab[e], currcycle)
               /\ Distance(eventtab[e], currcycle) \in Int
               /\ Distance(eventtab[e], currcycle') = Distance(eventtab[e], currcycle) - k
    <2>1. Distance(nextevent, currcycle) <= Distance(eventtab[e], currcycle)
      BY <1>3, <1>6 DEF IInv, NextInv
    <2>2. eventtab[e] \in Time /\ Distance(eventtab[e], currcycle) \in Int
      <3>1. eventtab[e] \in Time
        BY <1>4, <1>6
      <3>2. Distance(eventtab[e], currcycle) \in Time
        BY <1>4, <3>1, DifferenceType
      <3> QED BY <3>1, <3>2 DEF Time
    <2>3. k <= Distance(eventtab[e], currcycle)
      BY <1>5, <2>1, <2>2
    <2> QED BY <1>4, <2>1, <2>2, <2>3, ClockMoves
  <1>7. ASSUME NEW s \in Slots, Live(s)
        PROVE  /\ Armed("misc")
               /\ Distance(eventtab["misc"], currcycle) <= Distance(eventtab2[s].evtime, currcycle)
               /\ Distance(eventtab2[s].evtime, currcycle) \in Int
               /\ Distance(eventtab2[s].evtime, currcycle')
                    = Distance(eventtab2[s].evtime, currcycle) - k
    <2>1. /\ Armed("misc")
          /\ Distance(eventtab["misc"], currcycle) <= Distance(eventtab2[s].evtime, currcycle)
      BY <1>3, <1>7 DEF IInv, MiscInv
    <2>2. /\ eventtab2[s].evtime \in Time /\ Distance(eventtab2[s].evtime, currcycle) \in Int
      BY <1>4, <1>7, LiveIs, DifferenceType DEF IInv, Time
    <2>3. /\ Distance(nextevent, currcycle) <= Distance(eventtab["misc"], currcycle)
          /\ Distance(eventtab["misc"], currcycle) \in Int
      BY <1>6, <2>1 DEF Entries
    <2>4. k <= Distance(eventtab2[s].evtime, currcycle)
      BY <1>5, <2>1, <2>2, <2>3
    <2> QED BY <1>4, <2>1, <2>2, <2>4, ClockMoves
  <1>8. k >= 0
    BY <1>4, DifferenceType DEF Time
  <1> HIDE DEF k
  <1>9. PlaceInv' /\ ScanInv'
    BY <1>1, <1>3 DEF PlaceInv, ScanInv, InScan
  <1>10. NextInv'
    BY <1>5, <1>6 DEF NextInv, Armed
  <1>11. FarInv'
    <2>1. ASSUME NEW s \in Slots, Live(s)
          PROVE  Distance(eventtab2[s].evtime, currcycle') < Never
      <3>1. Distance(eventtab2[s].evtime, currcycle) < Never
        BY <2>1 DEF IInv, FarInv
      <3>2. Never \in Int
        BY Sizes
      <3> QED BY <1>5, <1>7, <1>8, <2>1, <3>1, <3>2
    <2> QED BY <2>1 DEF FarInv, Live
  <1>12. MiscInv'
    <2>1. "misc" \in Entries
      BY DEF Entries
    <2> QED BY <1>5, <1>6, <1>7, <2>1 DEF MiscInv, Live, Armed
  <1> QED BY <1>2, <1>9, <1>10, <1>11, <1>12 DEF IInv

\* do_cycles moves the clock to nextevent or by less than that.
LEMMA ClockSteps ==
  ASSUME IInv, ToEvent \/ LastCycles
  PROVE  /\ pc = "loop" /\ pc' \in {"cpu", "fire"} /\ currcycle' \in Time
         /\ Distance(currcycle', currcycle) <= Distance(nextevent, currcycle)
         /\ cycles_to_add' \in Nat
         /\ UNCHANGED <<nextevent, eventtab, eventtab2, next, sync, scan, entry>>
  <1>1. /\ currcycle \in Time /\ nextevent \in Time /\ cycles_to_add \in Nat
        /\ Ahead(nextevent) = Distance(nextevent, currcycle)
        /\ Distance(nextevent, currcycle) \in Nat /\ Distance(nextevent, currcycle) \in Time
    <2>1. currcycle \in Time /\ nextevent \in Time /\ cycles_to_add \in Nat
      BY DEF IInv, TypeOK, Time
    <2>2. Distance(nextevent, currcycle) \in Time
      BY <2>1, DifferenceType
    <2> QED BY <2>1, <2>2 DEF Ahead, Distance, Time
  <1>2. CASE ToEvent
    <2>1. /\ pc = "loop" /\ pc' = "fire" /\ currcycle' = nextevent
          /\ cycles_to_add' = cycles_to_add - Ahead(nextevent)
          /\ Ahead(nextevent) <= cycles_to_add
          /\ UNCHANGED <<nextevent, eventtab, eventtab2, next, sync, scan, entry>>
      BY <1>2 DEF ToEvent, More
    <2> QED BY <1>1, <2>1
  <1>3. CASE LastCycles
    <2>1. /\ pc = "loop" /\ pc' = "cpu" /\ cycles_to_add' = 0
          /\ currcycle' = Later(currcycle, cycles_to_add)
          /\ ~(Ahead(nextevent) <= cycles_to_add)
          /\ UNCHANGED <<nextevent, eventtab, eventtab2, next, sync, scan, entry>>
      BY <1>3 DEF LastCycles, More, After, Later
    <2>2. cycles_to_add \in Time /\ cycles_to_add <= Distance(nextevent, currcycle)
      BY <1>1, <2>1, Sizes DEF Time
    <2>3. currcycle' \in Time /\ Distance(currcycle', currcycle) = cycles_to_add
      BY <1>1, <2>1, <2>2, AheadAfter
    <2> QED BY <2>1, <2>2, <2>3
  <1> QED BY <1>2, <1>3
-----------------------------------------------------------------------------
(* Scheduling.                                                             *)

LEMMA ArmType ==
  ASSUME IInv, NEW e \in Entries, NEW d \in Time
  PROVE  /\ Arm(e, d) \in [Entries -> 0 .. Never \cup {Off}]
         /\ Disarm(e) \in [Entries -> 0 .. Never \cup {Off}]
         /\ Arm(e, d)[e] = Later(currcycle, d)
         /\ \A x \in Entries : x # e => Arm(e, d)[x] = eventtab[x] /\ Disarm(e)[x] = eventtab[x]
  <1>1. currcycle \in Time /\ eventtab \in [Entries -> 0 .. Never \cup {Off}]
    BY DEF IInv, TypeOK, Time
  <1>2. After(d) \in 0 .. Never /\ After(d) = Later(currcycle, d)
    BY <1>1, AheadAfter DEF After, Later, Time
  <1> QED BY <1>1, <1>2 DEF Arm, Disarm

LEMMA PostKeeps ==
  ASSUME IInv, NEW r \in Request, NEW d \in Delay, Post(r, d), UNCHANGED currcycle
  PROVE  /\ eventtab2' \in [Slots -> {NoEvent} \cup [evtime : 0 .. Never, func : Func \cup {"own"}]]
         /\ next' \in Misc /\ FarInv'
  <1>1. PICK s \in Slots, ev \in Event :
          /\ eventtab2' = [eventtab2 EXCEPT ![s] = ev]
          /\ next' \in Misc
          /\ Distance(ev.evtime, currcycle) = d /\ d \in 1 .. Never - 1
    BY PostIs DEF IInv
  <1>2. /\ eventtab2' \in [Slots -> {NoEvent} \cup [evtime : 0 .. Never, func : Func \cup {"own"}]]
        /\ \A x \in Slots : eventtab2'[x] = IF x = s THEN ev ELSE eventtab2[x]
    BY <1>1 DEF IInv, TypeOK, Event
  <1>3. d < Never
    BY <1>1, Sizes
  <1>4. FarInv'
    BY <1>1, <1>2, <1>3 DEF IInv, FarInv, Live
  <1> QED BY <1>1, <1>2, <1>4

\* MISC_handler begins.
LEMMA EnterKeeps ==
  ASSUME IInv, pc \in {"cpu", "fire"}, NEW tab \in [Entries -> 0 .. Never \cup {Off}],
         NEW from \in {"cpu", "fire"}, from = "cpu" => pc = "cpu" /\ tab = eventtab,
         EnterMisc(tab, from),
         UNCHANGED <<currcycle, nextevent, cycles_to_add, fastest, pissoff>>,
         is_syncline' \in BOOLEAN, entry' \in 1 .. Len(Order) + 1, next' \in Misc,
         eventtab2' \in [Slots -> {NoEvent} \cup [evtime : 0 .. Never, func : Func \cup {"own"}]],
         FarInv'
  PROVE  IInv'
  <1>1. /\ eventtab' = [tab EXCEPT !["misc"] = Off]
        /\ mintime' = Never /\ recheck' = FALSE /\ slot' = 0 /\ back' = from /\ pc' = "misc"
    BY DEF EnterMisc
  <1>2. Never \in 0 .. Never /\ 0 \in 0 .. Ev2Max
    BY Sizes
  <1>3. TypeOK'
    <2>1. eventtab' \in [Entries -> 0 .. Never \cup {Off}] /\ slot' \in 0 .. Ev2Max
      BY <1>1, <1>2
    <2> QED BY <1>1, <1>2, <2>1 DEF IInv, TypeOK
  <1>4. PlaceInv' /\ MiscInv'
    BY <1>1 DEF PlaceInv, MiscInv, InScan
  <1>5. NextInv'
    <2>1. CASE from = "cpu"
      <3>1. \A e \in Entries : eventtab'[e] # Off => eventtab'[e] = eventtab[e]
        BY <1>1, <2>1
      <3>2. pc # "fire" /\ back = "cpu"
        BY <2>1 DEF IInv, PlaceInv, InScan
      <3> QED BY <3>1, <3>2 DEF IInv, NextInv, Armed
    <2>2. CASE from # "cpu"
      BY <1>1, <2>2 DEF NextInv
    <2> QED BY <2>1, <2>2
  <1>6. ScanInv'
    <2>1. \A s \in Slots : ~(s < 0)
      BY Sizes DEF Slots
    <2> QED BY <1>1, <2>1 DEF ScanInv
  <1> QED BY <1>3, <1>4, <1>5, <1>6 DEF IInv

LEMMA CpuKeeps == ASSUME IInv, Cpu PROVE IInv'
  <1>1. ASSUME NEW r \in Request, NEW d \in Delay, CpuPosts(r, d) PROVE IInv'
    <2>1. /\ pc = "cpu" /\ Post(r, d) /\ EnterMisc(eventtab, "cpu")
          /\ UNCHANGED <<currcycle, nextevent, cycles_to_add, fastest, pissoff, is_syncline, entry>>
      BY <1>1 DEF CpuPosts, sync
    <2>2. /\ eventtab \in [Entries -> 0 .. Never \cup {Off}]
          /\ is_syncline' \in BOOLEAN /\ entry' \in 1 .. Len(Order) + 1
      BY <2>1 DEF IInv, TypeOK
    <2> QED BY <2>1, <2>2, PostKeeps, EnterKeeps
  <1>2. ASSUME NEW s \in Fixed, CpuWithdraws(s) PROVE IInv'
    <2>1. /\ pc = "cpu" /\ eventtab2' = [eventtab2 EXCEPT ![s] = NoEvent]
          /\ UNCHANGED <<currcycle, nextevent, eventtab, next, cycles_to_add, fastest, pissoff,
                         is_syncline, mintime, recheck, slot, back, pc, entry>>
      BY <1>2 DEF CpuWithdraws, sync, scan
    <2>2. \A x \in Slots : eventtab2'[x] # NoEvent => eventtab2'[x] = eventtab2[x]
      BY <2>1 DEF IInv, TypeOK
    <2>3. TypeOK'
      BY <2>1 DEF IInv, TypeOK
    <2>4. PlaceInv' /\ NextInv'
      BY <2>1 DEF IInv, PlaceInv, NextInv, InScan, Armed
    <2>5. FarInv' /\ MiscInv' /\ ScanInv'
      BY <2>1, <2>2 DEF IInv, FarInv, MiscInv, ScanInv, InScan, Live, Armed
    <2> QED BY <2>3, <2>4, <2>5 DEF IInv
  <1>3. ASSUME NEW e \in Device, CpuArms(e) PROVE IInv'
    <2>1. PICK tab \in {Arm(e, d) : d \in Delay} \cup {Disarm(e)} :
            eventtab' = tab /\ Schedule(tab)
      BY <1>3 DEF CpuArms
    <2>2. /\ pc = "cpu"
          /\ UNCHANGED <<currcycle, eventtab2, next, cycles_to_add, fastest, pissoff,
                         is_syncline, mintime, recheck, slot, back, pc, entry>>
      BY <1>3 DEF CpuArms, sync, scan
    <2>3. e \in Entries /\ e # "misc" /\ "misc" \in Entries
      BY EventsAssumption DEF Entries
    <2>4. /\ tab \in [Entries -> Time \cup {Off}] /\ tab["misc"] = eventtab["misc"]
      <3>1. \A d \in Delay : d \in Time
        BY Sizes DEF Time
      <3>2. 0 \in Time
        BY Sizes
      <3> QED BY <2>1, <2>3, <3>1, <3>2, ArmType DEF Time
    <2>5. /\ nextevent' \in Time
          /\ \A x \in Entries : tab[x] # Off =>
               Distance(nextevent', currcycle) <= Distance(tab[x], currcycle)
      BY <2>1, <2>4, ScheduleIs DEF IInv, TypeOK, Time
    <2>6. TypeOK'
      BY <2>1, <2>2, <2>4, <2>5 DEF IInv, TypeOK, Time
    <2>7. PlaceInv' /\ NextInv'
      BY <2>1, <2>2, <2>5 DEF IInv, PlaceInv, NextInv, InScan, Armed
    <2>8. FarInv' /\ MiscInv' /\ ScanInv'
      BY <2>1, <2>2, <2>4 DEF IInv, FarInv, MiscInv, ScanInv, InScan, Live, Armed
    <2> QED BY <2>6, <2>7, <2>8 DEF IInv
  <1>4. CASE SetSpecial \/ SetSpeed
    BY <1>4, CallsKeep
  <1>5. CASE Reset
    <2>1. /\ pc = "cpu" /\ currcycle' = 0 /\ nextevent' = LineTime
          /\ eventtab' = Cleared /\ eventtab2' = Cleared2
          /\ UNCHANGED <<next, cycles_to_add, fastest, pissoff, is_syncline, mintime, recheck, slot,
                         back, pc, entry>>
      BY <1>5 DEF Reset, sync, scan
    <2>2. /\ Cleared \in [Entries -> 0 .. Never \cup {Off}] /\ Cleared2 \in [Slots -> {NoEvent}]
          /\ 0 \in Time /\ LineTime \in Time
          /\ \A e \in Entries : Cleared[e] # Off => Cleared[e] = LineTime
      BY Sizes DEF Cleared, Cleared2, Time
    <2>3. TypeOK'
      BY <2>1, <2>2 DEF IInv, TypeOK, Time
    <2>4. PlaceInv'
      BY <2>1 DEF IInv, PlaceInv, InScan
    <2>5. NextInv'
      <3>1. Distance(LineTime, 0) \in Time
        BY <2>2, DifferenceType
      <3>2. Distance(LineTime, 0) <= Distance(LineTime, 0)
        BY <3>1 DEF Time
      <3> QED BY <2>1, <2>2, <3>2 DEF NextInv, Armed
    <2>6. \A s \in Slots : eventtab2'[s] = NoEvent
      BY <2>1, <2>2
    <2> QED BY <2>3, <2>4, <2>5, <2>6 DEF IInv, FarInv, MiscInv, ScanInv, Live
  <1> QED BY <1>1, <1>2, <1>3, <1>4, <1>5 DEF Cpu
-----------------------------------------------------------------------------
(* The entries that are due.                                               *)

LEMMA LeftIs ==
  ASSUME IInv, Left # {}
  PROVE  Min(Left) + 1 \in 1 .. Len(Order) + 1
  <1>1. Left \in SUBSET Nat /\ \A j \in Left : j \in 1 .. Len(Order)
    BY OrderIs DEF IInv, TypeOK, Left
  <1>2. Min(Left) \in 1 .. Len(Order)
    BY <1>1, MinIs
  <1> QED BY <1>2, OrderIs

LEMMA FireKeeps ==
  ASSUME IInv, FireMisc \/ FireEnd \/ \E e \in Device \cup {"hsync"} : FireChip(e)
  PROVE  IInv'
  <1>1. /\ eventtab \in [Entries -> Time \cup {Off}] /\ currcycle \in Time
        /\ is_syncline \in BOOLEAN
    BY DEF IInv, TypeOK, Time
  <1>2. ASSUME NEW e \in Device \cup {"hsync"}, FireChip(e) PROVE IInv'
    <2>1. /\ pc = "fire" /\ Left # {} /\ entry' = Min(Left) + 1
          /\ is_syncline' \in BOOLEAN
          /\ UNCHANGED <<currcycle, nextevent, cycles_to_add, fastest, pissoff>>
      BY <1>1, <1>2 DEF FireChip, Fires
    <2>2. entry' \in 1 .. Len(Order) + 1
      BY <2>1, LeftIs
    <2>3. PICK tab \in {Arm(e, d) : d \in Delay \cup {LineTime}} \cup {Disarm(e)} :
            \/ eventtab' = tab /\ UNCHANGED <<eventtab2, next, scan, pc>>
            \/ \E r \in Request, d \in Delay : Post(r, d) /\ EnterMisc(tab, "fire")
      <3>1. CASE e = "hsync"
        BY <1>2, <3>1 DEF FireChip
      <3>2. CASE e # "hsync"
        BY <1>2, <3>2 DEF FireChip
      <3> QED BY <3>1, <3>2
    <2>4. /\ tab \in [Entries -> 0 .. Never \cup {Off}] /\ tab["misc"] = eventtab["misc"]
      <3>1. \A d \in Delay \cup {LineTime} : d \in Time
        BY Sizes DEF Time
      <3>2. e \in Entries /\ e # "misc" /\ "misc" \in Entries /\ 0 \in Time
        BY Sizes, EventsAssumption DEF Entries
      <3> QED BY <3>1, <3>2, ArmType
    <2>5. CASE eventtab' = tab /\ UNCHANGED <<eventtab2, next, scan, pc>>
      <3>1. UNCHANGED <<eventtab2, next, mintime, recheck, slot, back, pc>> /\ eventtab' = tab
        BY <2>5 DEF scan
      <3>2. TypeOK'
        BY <2>1, <2>2, <2>4, <3>1 DEF IInv, TypeOK
      <3>3. PlaceInv' /\ NextInv'
        BY <2>1, <3>1 DEF IInv, PlaceInv, NextInv, InScan
      <3>4. FarInv' /\ MiscInv' /\ ScanInv'
        BY <2>1, <2>4, <3>1 DEF IInv, FarInv, MiscInv, ScanInv, InScan, Live, Armed
      <3> QED BY <3>2, <3>3, <3>4 DEF IInv
    <2>6. ASSUME NEW r \in Request, NEW d \in Delay, Post(r, d), EnterMisc(tab, "fire")
          PROVE  IInv'
      BY <2>1, <2>2, <2>4, <2>6, PostKeeps, EnterKeeps
    <2> QED BY <2>3, <2>5, <2>6
  <1>3. CASE FireMisc
    <2>1. /\ pc = "fire" /\ Left # {} /\ entry' = Min(Left) + 1
          /\ EnterMisc(eventtab, "fire")
          /\ UNCHANGED <<currcycle, nextevent, eventtab2, next, cycles_to_add, fastest, pissoff,
                         is_syncline>>
      BY <1>3 DEF FireMisc, Fires, sync
    <2>2. entry' \in 1 .. Len(Order) + 1
      BY <2>1, LeftIs
    <2>3. /\ eventtab \in [Entries -> 0 .. Never \cup {Off}] /\ next' \in Misc
          /\ eventtab2' \in [Slots -> {NoEvent} \cup [evtime : 0 .. Never, func : Func \cup {"own"}]]
          /\ FarInv' /\ is_syncline' \in BOOLEAN
      BY <2>1 DEF IInv, TypeOK, FarInv, Live
    <2> QED BY <2>1, <2>2, <2>3, EnterKeeps
  <1>4. CASE FireEnd
    <2>1. /\ pc = "fire" /\ pc' = "loop" /\ entry' = 1 /\ Schedule(eventtab)
          /\ UNCHANGED <<currcycle, eventtab, eventtab2, next, cycles_to_add, fastest, pissoff,
                         is_syncline, mintime, recheck, slot, back>>
      BY <1>4 DEF FireEnd, sync, scan
    <2>2. /\ nextevent' \in Time
          /\ \A e \in Entries : eventtab[e] # Off =>
               Distance(nextevent', currcycle) <= Distance(eventtab[e], currcycle)
      BY <1>1, <2>1, ScheduleIs
    <2>3. TypeOK'
      <3>1. 1 \in 1 .. Len(Order) + 1
        BY OrderIs
      <3> QED BY <2>1, <2>2, <3>1 DEF IInv, TypeOK, Time
    <2>4. PlaceInv' /\ NextInv'
      BY <2>1, <2>2 DEF IInv, PlaceInv, NextInv, InScan, Armed
    <2>5. FarInv' /\ MiscInv' /\ ScanInv'
      BY <2>1 DEF IInv, FarInv, MiscInv, ScanInv, InScan, Live, Armed
    <2> QED BY <2>3, <2>4, <2>5 DEF IInv
  <1> QED BY <1>2, <1>3, <1>4
-----------------------------------------------------------------------------
(* The scan.                                                               *)

LEMMA ScanKeeps ==
  ASSUME IInv, ScanPast \/ ScanDue \/ ScanAgain
  PROVE  IInv'
  <1>1. CASE ScanPast
    <2> DEFINE m == Ahead(eventtab2[slot].evtime)
    <2>1. /\ pc = "misc" /\ slot < Ev2Max /\ slot' = slot + 1
          /\ mintime' = IF Live(slot) THEN Min({mintime, m}) ELSE mintime
          /\ UNCHANGED <<currcycle, nextevent, eventtab, eventtab2, next, cycles_to_add, fastest,
                         pissoff, is_syncline, recheck, back, pc, entry>>
      BY <1>1 DEF ScanPast, sync
    <2>2. /\ slot \in Slots /\ slot' \in 0 .. Ev2Max /\ slot \in Nat
          /\ mintime \in Time /\ currcycle \in Time
      BY <2>1, Sizes DEF IInv, TypeOK, Slots, Time
    <2>3. Live(slot) => m \in Time /\ m = Distance(eventtab2[slot].evtime, currcycle)
      <3>1. ASSUME Live(slot) PROVE Distance(eventtab2[slot].evtime, currcycle) \in Time
        BY <2>2, <3>1, LiveIs, DifferenceType DEF IInv
      <3> QED BY <3>1 DEF Ahead, Distance
    <2> HIDE DEF m
    <2>4. /\ mintime' \in Time /\ mintime' <= mintime
          /\ Live(slot) => mintime' <= Distance(eventtab2[slot].evtime, currcycle)
      <3>1. CASE Live(slot)
        <4>1. {mintime, m} \in SUBSET Nat /\ {mintime, m} # {}
          BY <2>2, <2>3, <3>1 DEF Time
        <4>2. Min({mintime, m}) \in {mintime, m} /\ \A y \in {mintime, m} : Min({mintime, m}) <= y
          BY <4>1, MinIs
        <4> QED BY <2>1, <2>2, <2>3, <3>1, <4>2
      <3>2. CASE ~Live(slot)
        BY <2>1, <2>2, <3>2 DEF Time
      <3> QED BY <3>1, <3>2
    <2>5. TypeOK'
      BY <2>1, <2>2, <2>4 DEF IInv, TypeOK, Time
    <2>6. PlaceInv' /\ NextInv' /\ FarInv' /\ MiscInv'
      BY <2>1 DEF IInv, PlaceInv, NextInv, FarInv, MiscInv, InScan, Live, Armed
    <2>7. ScanInv'
      <3>1. ASSUME ~recheck, NEW s \in Slots, Live(s), s < slot + 1
            PROVE  mintime' <= Distance(eventtab2[s].evtime, currcycle)
        <4>1. CASE s = slot
          BY <2>4, <3>1, <4>1
        <4>2. CASE s # slot
          <5>1. s < slot
            BY <2>2, <3>1, <4>2, Sizes DEF Slots
          <5>2. mintime <= Distance(eventtab2[s].evtime, currcycle)
            BY <2>1, <3>1, <5>1 DEF IInv, ScanInv, InScan
          <5>3. Distance(eventtab2[s].evtime, currcycle) \in Time
            BY <2>2, <3>1, LiveIs, DifferenceType DEF IInv
          <5> QED BY <2>2, <2>4, <5>2, <5>3 DEF Time
        <4> QED BY <4>1, <4>2
      <3> QED BY <2>1, <3>1 DEF ScanInv, Live
    <2> QED BY <2>5, <2>6, <2>7 DEF IInv
  <1>2. CASE ScanDue
    <2>1. /\ pc = "misc" /\ pc' = "handler" /\ slot < Ev2Max
          /\ eventtab2' = [eventtab2 EXCEPT ![slot] = NoEvent]
          /\ UNCHANGED <<currcycle, nextevent, eventtab, next, cycles_to_add, fastest, pissoff,
                         is_syncline, mintime, recheck, slot, back, entry>>
      BY <1>2 DEF ScanDue, sync, scan
    <2>2. slot \in Slots
      BY <2>1, Sizes DEF IInv, TypeOK, Slots
    <2>3. \A x \in Slots : eventtab2'[x] # NoEvent => eventtab2'[x] = eventtab2[x]
      BY <2>1 DEF IInv, TypeOK
    <2>4. TypeOK'
      BY <2>1 DEF IInv, TypeOK
    <2>5. PlaceInv' /\ NextInv'
      BY <2>1, <2>2 DEF IInv, PlaceInv, NextInv, InScan, Armed
    <2>6. FarInv' /\ MiscInv' /\ ScanInv'
      BY <2>1, <2>3 DEF IInv, FarInv, MiscInv, ScanInv, InScan, Live, Armed
    <2> QED BY <2>4, <2>5, <2>6 DEF IInv
  <1>3. CASE ScanAgain
    <2>1. /\ pc = "misc" /\ slot' = 0 /\ recheck' = FALSE /\ mintime' = Never
          /\ UNCHANGED <<currcycle, nextevent, eventtab, eventtab2, next, cycles_to_add, fastest,
                         pissoff, is_syncline, back, pc, entry>>
      BY <1>3 DEF ScanAgain, sync
    <2>2. Never \in 0 .. Never /\ 0 \in 0 .. Ev2Max /\ \A s \in Slots : ~(s < 0)
      BY Sizes DEF Slots
    <2>3. TypeOK'
      BY <2>1, <2>2 DEF IInv, TypeOK
    <2>4. PlaceInv' /\ NextInv' /\ FarInv' /\ MiscInv'
      BY <2>1 DEF IInv, PlaceInv, NextInv, FarInv, MiscInv, InScan, Live, Armed
    <2>5. ScanInv'
      BY <2>1, <2>2 DEF ScanInv
    <2> QED BY <2>3, <2>4, <2>5 DEF IInv
  <1> QED BY <1>1, <1>2, <1>3

\* A handler is called in the midst of the scan: where it has posted, the scan begins again.
LEMMA HandlerKeeps ==
  ASSUME IInv, \/ HandlerOnly
               \/ \E r \in Request, d \in Delay : HandlerPosts(r, d)
               \/ \E e \in Device : HandlerArms(e)
  PROVE  IInv'
  <1>1. PICK nested \in BOOLEAN : /\ pc = "handler" /\ HandlerReturns(nested)
                                  /\ nested = FALSE => eventtab2' = eventtab2
    BY DEF HandlerOnly, HandlerPosts, HandlerArms
  <1>2. /\ pc' = "misc" /\ slot' = slot + 1
        /\ recheck' = (recheck \/ nested \/ eventtab2'[slot] # NoEvent)
        /\ UNCHANGED <<currcycle, cycles_to_add, fastest, pissoff, is_syncline, mintime, back, entry>>
    BY <1>1 DEF HandlerReturns, sync
  <1>3. slot \in Slots /\ slot' \in 0 .. Ev2Max /\ slot \in Nat
    BY <1>1, <1>2, Sizes DEF IInv, PlaceInv, Slots
  <1>4. /\ eventtab2' \in [Slots -> {NoEvent} \cup [evtime : 0 .. Never, func : Func \cup {"own"}]]
        /\ next' \in Misc /\ FarInv'
    <2>1. CASE HandlerOnly \/ \E e \in Device : HandlerArms(e)
      BY <1>2, <2>1 DEF HandlerOnly, HandlerArms, IInv, TypeOK, FarInv, Live
    <2>2. ASSUME NEW r \in Request, NEW d \in Delay, HandlerPosts(r, d)
          PROVE  Post(r, d)
      BY <2>2 DEF HandlerPosts
    <2> QED BY <1>2, <2>1, <2>2, PostKeeps
  <1>5. nextevent' \in Time /\ eventtab' \in [Entries -> Time \cup {Off}] /\ NextInv'
    <2>1. CASE UNCHANGED <<nextevent, eventtab>>
      BY <1>1, <1>2, <2>1 DEF IInv, TypeOK, NextInv, Armed, Time
    <2>2. ASSUME NEW e \in Device, HandlerArms(e)
          PROVE  nextevent' \in Time /\ eventtab' \in [Entries -> Time \cup {Off}] /\ NextInv'
      <3>1. PICK d \in Delay : eventtab' = Arm(e, d) /\ Schedule(Arm(e, d))
        BY <2>2 DEF HandlerArms
      <3>2. d \in Time /\ e \in Entries
        BY Sizes, EventsAssumption DEF Time, Entries
      <3>3. Arm(e, d) \in [Entries -> Time \cup {Off}]
        BY <3>2, ArmType DEF Time
      <3>4. /\ nextevent' \in Time
            /\ \A x \in Entries : Arm(e, d)[x] # Off =>
                 Distance(nextevent', currcycle) <= Distance(Arm(e, d)[x], currcycle)
        BY <3>1, <3>3, ScheduleIs DEF IInv, TypeOK, Time
      <3> QED BY <1>2, <3>1, <3>3, <3>4 DEF NextInv, Armed
    <2> QED BY <2>1, <2>2 DEF HandlerOnly, HandlerPosts
  <1>6. TypeOK'
    <2>1. recheck' \in BOOLEAN
      BY <1>2, Zenon
    <2> QED BY <1>2, <1>3, <1>4, <1>5, <2>1 DEF IInv, TypeOK, Time
  <1>7. PlaceInv' /\ MiscInv'
    BY <1>2 DEF PlaceInv, MiscInv, InScan
  <1>8. ScanInv'
    <2>1. ASSUME ~recheck', NEW s \in Slots, Live(s)', s < slot + 1
          PROVE  mintime <= Distance(eventtab2'[s].evtime, currcycle)
      <3>1. ~recheck /\ eventtab2' = eventtab2 /\ eventtab2'[slot] = NoEvent
        BY <1>1, <1>2, <2>1
      <3>2. s < slot
        BY <1>3, <2>1, <3>1, Sizes DEF Slots, Live
      <3> QED BY <1>1, <2>1, <3>1, <3>2 DEF IInv, ScanInv, InScan, Live
    <2> QED BY <1>2, <2>1 DEF ScanInv
  <1> QED BY <1>4, <1>5, <1>6, <1>7, <1>8 DEF IInv

\* The end of MISC_handler arms ev_misc with the least of all times.
LEMMA ScanEndKeeps ==
  ASSUME IInv, ScanEnd
  PROVE  IInv'
  <1>1. /\ pc = "misc" /\ slot = Ev2Max /\ ~recheck
        /\ pc' = back /\ back' = "cpu" /\ mintime' = Never /\ slot' = 0
        /\ UNCHANGED <<currcycle, eventtab2, next, cycles_to_add, fastest, pissoff, is_syncline,
                       recheck, entry>>
    BY DEF ScanEnd, sync
  <1>2. /\ Never \in 0 .. Never /\ 0 \in 0 .. Ev2Max /\ \A s \in Slots : s < Ev2Max
        /\ back \in {"cpu", "fire"} /\ currcycle \in Time /\ mintime \in Time
    BY Sizes DEF Slots, IInv, TypeOK, Time
  <1>3. \A s \in Slots : Live(s) => mintime <= Distance(eventtab2[s].evtime, currcycle)
    BY <1>1, <1>2 DEF IInv, ScanInv, InScan
  <1>4. PlaceInv' /\ ScanInv' /\ ~InScan' /\ FarInv'
    BY <1>1, <1>2 DEF IInv, PlaceInv, ScanInv, FarInv, InScan, Live
  <1>5. CASE mintime = Never
    <2>1. UNCHANGED <<eventtab, nextevent>>
      BY <1>5 DEF ScanEnd
    <2>2. TypeOK'
      BY <1>1, <1>2, <2>1 DEF IInv, TypeOK
    <2>3. NextInv'
      BY <1>1, <1>2, <2>1 DEF IInv, NextInv, Armed
    <2>4. \A s \in Slots : ~Live(s)
      <3>1. ASSUME NEW s \in Slots, Live(s) PROVE FALSE
        <4>1. Distance(eventtab2[s].evtime, currcycle) \in Time
          BY <1>2, <3>1, LiveIs, DifferenceType DEF IInv
        <4>2. /\ Distance(eventtab2[s].evtime, currcycle) < Never
              /\ Never <= Distance(eventtab2[s].evtime, currcycle)
          BY <1>3, <1>5, <3>1 DEF IInv, FarInv
        <4>3. Never \in Int /\ Distance(eventtab2[s].evtime, currcycle) \in Int
          BY <4>1, Sizes DEF Time
        <4> QED BY <4>2, <4>3
      <3> QED BY <3>1
    <2>5. MiscInv'
      BY <1>1, <2>4 DEF MiscInv, Live
    <2> QED BY <1>4, <2>2, <2>3, <2>5 DEF IInv
  <1>6. CASE mintime # Never
    <2>1. eventtab' = Arm("misc", mintime) /\ Schedule(Arm("misc", mintime))
      BY <1>6 DEF ScanEnd
    <2>2. "misc" \in Entries
      BY DEF Entries
    <2>3. /\ Arm("misc", mintime) \in [Entries -> Time \cup {Off}]
          /\ Arm("misc", mintime)["misc"] = Later(currcycle, mintime)
      BY <1>2, <2>2, ArmType DEF Time
    <2>4. /\ Later(currcycle, mintime) \in Time
          /\ Distance(Later(currcycle, mintime), currcycle) = mintime
      BY <1>2, AheadAfter
    <2>5. /\ nextevent' \in Time
          /\ \A x \in Entries : Arm("misc", mintime)[x] # Off =>
               Distance(nextevent', currcycle) <= Distance(Arm("misc", mintime)[x], currcycle)
      BY <1>2, <2>1, <2>3, ScheduleIs
    <2>6. TypeOK'
      BY <1>1, <1>2, <2>1, <2>3, <2>5 DEF IInv, TypeOK, Time
    <2>7. NextInv'
      BY <1>1, <2>1, <2>5 DEF NextInv, Armed
    <2>8. MiscInv'
      <3>1. Later(currcycle, mintime) # Off
        BY <2>4, Sizes
      <3> QED BY <1>1, <1>3, <2>1, <2>3, <2>4, <3>1 DEF MiscInv, Live, Armed
    <2> QED BY <1>4, <2>6, <2>7, <2>8 DEF IInv
  <1> QED BY <1>5, <1>6

LEMMA StutterKeeps ==
  ASSUME IInv, UNCHANGED vars
  PROVE  IInv'
  <1>1. UNCHANGED <<currcycle, nextevent, eventtab, eventtab2, next, cycles_to_add, fastest, pissoff,
                    is_syncline, mintime, recheck, slot, back, pc, entry>>
    BY DEF vars, sync, scan
  <1>2. TypeOK' /\ PlaceInv' /\ NextInv'
    BY <1>1 DEF IInv, TypeOK, PlaceInv, NextInv, InScan, Armed
  <1>3. FarInv' /\ MiscInv' /\ ScanInv'
    BY <1>1 DEF IInv, FarInv, MiscInv, ScanInv, InScan, Live, Armed
  <1> QED BY <1>2, <1>3 DEF IInv

LEMMA InvNext == IInv /\ [Next]_vars => IInv'
  <1> SUFFICES ASSUME IInv, [Next]_vars PROVE IInv'
    OBVIOUS
  <1>1. CASE Cpu
    BY <1>1, CpuKeeps
  <1>2. CASE DoCycles \/ HostNotReady \/ HostReady
    BY <1>2, CallsKeep
  <1>3. CASE ToEvent \/ LastCycles
    BY <1>3, ClockSteps, TimeKeeps
  <1>4. CASE FireMisc \/ FireEnd \/ \E e \in Device \cup {"hsync"} : FireChip(e)
    BY <1>4, FireKeeps
  <1>5. CASE ScanPast \/ ScanDue \/ ScanAgain
    BY <1>5, ScanKeeps
  <1>6. CASE ScanEnd
    BY <1>6, ScanEndKeeps
  <1>7. CASE \/ HandlerOnly
             \/ \E r \in Request, d \in Delay : HandlerPosts(r, d)
             \/ \E e \in Device : HandlerArms(e)
    BY <1>7, HandlerKeeps
  <1>8. CASE UNCHANGED vars
    BY <1>8, StutterKeeps
  <1> QED BY <1>1, <1>2, <1>3, <1>4, <1>5, <1>6, <1>7, <1>8 DEF Next, Run

\* No step of do_cycles passes an event.
LEMMA Passed ==
  ASSUME IInv, [Next]_vars, pc = "loop"
  PROVE  /\ \A e \in Entries : eventtab[e] # Off => Ahead(currcycle') <= Ahead(eventtab[e])
         /\ \A s \in Slots : Live(s) => Ahead(currcycle') <= Ahead(eventtab2[s].evtime)
  <1>1. /\ currcycle \in Time /\ nextevent \in Time
        /\ \A e \in Entries : Armed(e) => eventtab[e] \in Time
        /\ back = "cpu"
    BY DEF IInv, TypeOK, PlaceInv, InScan, Armed, Time
  <1>2. currcycle' \in Time /\ Distance(currcycle', currcycle) <= Distance(nextevent, currcycle)
    <2>1. CASE ToEvent \/ LastCycles
      BY <2>1, ClockSteps
    <2>2. CASE UNCHANGED currcycle
      <3>1. Distance(currcycle, currcycle) = 0 /\ Distance(nextevent, currcycle) \in Time
        BY <1>1, DifferenceType
      <3> QED BY <1>1, <2>2, <3>1 DEF Time
    <2>3. UNCHANGED currcycle \/ ToEvent \/ LastCycles
      <3>1. CASE Cpu \/ DoCycles
        BY <3>1 DEF Cpu, CpuPosts, CpuWithdraws, CpuArms, SetSpecial, SetSpeed, Reset,
                          DoCycles, DoCyclesNorm, DoCyclesFastest
      <3>2. CASE Run
        BY <3>2 DEF Run, HostNotReady, HostReady, FireChip, FireMisc, FireEnd, Fires,
                          ScanPast, ScanDue, ScanAgain, ScanEnd, HandlerOnly, HandlerPosts,
                          HandlerArms
      <3>3. CASE UNCHANGED vars
        BY <3>3 DEF vars
      <3> QED BY <3>1, <3>2, <3>3 DEF Next
    <2> QED BY <2>1, <2>2, <2>3
  <1>3. /\ Distance(currcycle', currcycle) \in Int /\ Distance(nextevent, currcycle) \in Int
    <2>1. /\ Distance(currcycle', currcycle) \in Time /\ Distance(nextevent, currcycle) \in Time
      BY <1>1, <1>2, DifferenceType
    <2> QED BY <2>1 DEF Time
  <1>4. ASSUME NEW e \in Entries, Armed(e)
        PROVE  /\ Distance(currcycle', currcycle) <= Distance(eventtab[e], currcycle)
               /\ Distance(eventtab[e], currcycle) \in Int
    <2>1. Distance(nextevent, currcycle) <= Distance(eventtab[e], currcycle)
      BY <1>1, <1>4 DEF IInv, NextInv
    <2>2. Distance(eventtab[e], currcycle) \in Time
      BY <1>1, <1>4, DifferenceType
    <2>3. Distance(eventtab[e], currcycle) \in Int
      BY <2>2 DEF Time
    <2> QED BY <1>2, <1>3, <2>1, <2>3
  <1>5. ASSUME NEW s \in Slots, Live(s)
        PROVE  Distance(currcycle', currcycle) <= Distance(eventtab2[s].evtime, currcycle)
    <2>1. /\ Armed("misc")
          /\ Distance(eventtab["misc"], currcycle) <= Distance(eventtab2[s].evtime, currcycle)
      BY <1>5 DEF IInv, MiscInv, InScan
    <2>2. /\ Distance(currcycle', currcycle) <= Distance(eventtab["misc"], currcycle)
          /\ Distance(eventtab["misc"], currcycle) \in Int
      BY <1>4, <2>1 DEF Entries
    <2>3. Distance(eventtab2[s].evtime, currcycle) \in Time
      BY <1>1, <1>5, LiveIs, DifferenceType DEF IInv
    <2>4. Distance(eventtab2[s].evtime, currcycle) \in Int
      BY <2>3 DEF Time
    <2> QED BY <1>3, <2>1, <2>2, <2>4
  <1>6. \A t : Ahead(t) = Distance(t, currcycle)
    BY DEF Ahead, Distance
  <1> QED BY <1>4, <1>5, <1>6 DEF Armed
-----------------------------------------------------------------------------
\* IInv is an invariant: nextevent and ev_misc are never late.
THEOREM Invariance == Spec => []IInv
  BY InvInit, InvNext, PTL DEF Spec

\* Types hold: times stay within the width of the clock, event2_newevent finds its slots within
\* eventtab2, and the counts of do_cycles do not go below zero.
THEOREM TypeCorrect == Spec => []TypeOK
  <1>1. IInv => TypeOK
    BY DEF IInv
  <1> QED BY <1>1, Invariance, PTL

\* do_cycles never moves the clock past an armed entry or a one-shot event, on either side of
\* its wraparound, whatever the handlers schedule during MISC_handler's scan.
THEOREM NonePassed == Spec => NothingPassed
  <1> DEFINE Passes ==
        pc = "loop" =>
          /\ \A e \in Entries : eventtab[e] # Off => Ahead(currcycle') <= Ahead(eventtab[e])
          /\ \A s \in Slots : Live(s) => Ahead(currcycle') <= Ahead(eventtab2[s].evtime)
  <1>1. IInv /\ [Next]_vars => Passes
    BY Passed
  <1>2. IInv /\ [Next]_vars => [Passes]_vars
    BY <1>1
  <1>3. Spec => [][Passes]_vars
    BY <1>2, Invariance, PTL DEF Spec
  <1> QED BY <1>3 DEF NothingPassed

\* The one-shot events keep what EventQueue promises: an event that event2_newevent has accepted
\* stays in its slot as it was posted, until the clock shows its time and MISC_handler takes it.
THEOREM Refinement == Spec => QueueSpec
  <1>1. Init => Queue!Init
    BY DEF Init, Queue!Init, Cleared2
  <1>2. ASSUME IInv, [Next]_vars
        PROVE  Queue!Next \/ UNCHANGED <<currcycle, eventtab2>>
    <2>1. ASSUME NEW r \in Request, NEW d \in Delay, Post(r, d), UNCHANGED currcycle
          PROVE  Queue!Next \/ UNCHANGED <<currcycle, eventtab2>>
      <3>1. PICK s \in Slots, ev \in Event :
              /\ eventtab2' = [eventtab2 EXCEPT ![s] = ev]
              /\ eventtab2[s] \in {NoEvent, ev} \/ s \in Fixed
              /\ Distance(ev.evtime, currcycle) = d /\ d \in 1 .. Never - 1
        BY <1>2, <2>1, PostIs DEF IInv
      <3>2. ev.evtime # currcycle
        <4>1. currcycle \in Time
          BY <1>2 DEF IInv, TypeOK, Time
        <4>2. Distance(currcycle, currcycle) = 0
          BY <4>1, DifferenceType
        <4> QED BY <3>1, <4>2
      <3>3. CASE eventtab2[s] = NoEvent \/ s \in Fixed
        <4>1. Queue!Accept(s, ev)
          BY <2>1, <3>1, <3>2, <3>3 DEF Queue!Accept
        <4> QED BY <4>1 DEF Queue!Next, Event
      <3>4. CASE eventtab2[s] = ev
        <4>1. eventtab2' = eventtab2
          BY <1>2, <3>1, <3>4 DEF IInv, TypeOK
        <4> QED BY <2>1, <4>1
      <3> QED BY <3>1, <3>3, <3>4
    <2>2. CASE Cpu
      <3>1. ASSUME NEW r \in Request, NEW d \in Delay, CpuPosts(r, d)
            PROVE  Queue!Next \/ UNCHANGED <<currcycle, eventtab2>>
        BY <2>1, <3>1 DEF CpuPosts
      <3>2. ASSUME NEW s \in Fixed, CpuWithdraws(s)
            PROVE  Queue!Next
        <4>1. s \in Slots
          BY Sizes DEF Fixed, Slots
        <4>2. Queue!Withdraw(s)
          BY <3>2 DEF CpuWithdraws, Queue!Withdraw
        <4> QED BY <4>1, <4>2 DEF Queue!Next
      <3>3. ASSUME NEW e \in Device, CpuArms(e)
            PROVE  UNCHANGED <<currcycle, eventtab2>>
        BY <3>3 DEF CpuArms
      <3>4. CASE SetSpecial \/ SetSpeed
        BY <3>4 DEF SetSpecial, SetSpeed
      <3>5. CASE Reset
        <4>1. Queue!Restart
          BY <3>5 DEF Reset, Queue!Restart, Cleared2
        <4> QED BY <4>1 DEF Queue!Next
      <3> QED BY <2>2, <3>1, <3>2, <3>3, <3>4, <3>5 DEF Cpu
    <2>3. CASE ToEvent \/ LastCycles
      <3>1. pc = "loop" /\ eventtab2' = eventtab2
        BY <1>2, <2>3, ClockSteps
      <3>2. ASSUME NEW s \in Slots, Live(s)
            PROVE  Ahead(currcycle') <= Ahead(eventtab2[s].evtime)
        BY <1>2, <3>1, <3>2, Passed
      <3>3. ASSUME NEW s \in Slots, eventtab2[s] # NoEvent
            PROVE  (eventtab2[s].evtime - currcycle) % Wrap >= (currcycle' - currcycle) % Wrap
        BY <3>2, <3>3 DEF Live, Ahead
      <3>4. Queue!Advance
        BY <3>1, <3>3 DEF Queue!Advance, Queue!Ahead
      <3> QED BY <3>4 DEF Queue!Next
    <2>4. CASE ScanDue
      <3>1. slot \in Slots
        BY <1>2, <2>4, Sizes DEF ScanDue, IInv, TypeOK, Slots
      <3>2. Queue!Fire(slot)
        BY <2>4 DEF ScanDue, Due2, Live, Queue!Fire
      <3> QED BY <3>1, <3>2 DEF Queue!Next
    <2>5. ASSUME NEW e \in Device \cup {"hsync"}, FireChip(e)
          PROVE  Queue!Next \/ UNCHANGED <<currcycle, eventtab2>>
      BY <2>1, <2>5 DEF FireChip
    <2>6. ASSUME NEW r \in Request, NEW d \in Delay, HandlerPosts(r, d)
          PROVE  Queue!Next \/ UNCHANGED <<currcycle, eventtab2>>
      BY <2>1, <2>6 DEF HandlerPosts, HandlerReturns
    <2>7. CASE DoCycles \/ HostNotReady \/ HostReady \/ FireMisc \/ FireEnd
      BY <2>7 DEF DoCycles, DoCyclesNorm, DoCyclesFastest, HostNotReady, HostReady, FireMisc, FireEnd
    <2>8. CASE \/ ScanPast \/ ScanAgain \/ ScanEnd \/ HandlerOnly
               \/ \E e \in Device : HandlerArms(e)
      BY <2>8 DEF ScanPast, ScanAgain, ScanEnd, HandlerOnly, HandlerArms, HandlerReturns
    <2>9. CASE UNCHANGED vars
      BY <2>9 DEF vars
    <2> QED BY <1>2, <2>2, <2>3, <2>4, <2>5, <2>6, <2>7, <2>8, <2>9 DEF Next, Run
  <1>3. IInv /\ [Next]_vars => [Queue!Next]_<<currcycle, eventtab2>>
    BY <1>2
  <1>4. Spec => Queue!Init /\ [][Queue!Next]_<<currcycle, eventtab2>>
    BY <1>1, <1>3, Invariance, PTL DEF Spec
  <1> QED BY <1>4 DEF QueueSpec, Queue!Spec
=============================================================================
