----------------------- MODULE HardfileRequestsProofs -----------------------
(***************************************************************************)
(* Proofs about HardfileRequests, for any number of requests, closes and   *)
(* resets and any table that the requests fit into.  The inductive         *)
(* invariant IInv follows a request that the client has sent: the          *)
(* emulation thread enters it, then it is in the pipe, then with the       *)
(* thread of the unit, never in two of these places, and only the first    *)
(* of them enters it into the table.  TempInv and LifeInv add what the     *)
(* emulation thread waits for: a request that gets to the unit's thread,   *)
(* and the end of that thread; QueueInv adds that the device forgets none. *)
(***************************************************************************)
EXTENDS HardfileRequests, SequenceTheorems, FiniteSetTheorems, TLAPS

\* The pipe holds a request once; the request that ends the thread may be there again.
Once(q) == \A i, j \in 1 .. Len(q) : q[i] = q[j] /\ q[i] # Death => i = j
InTable(r) == \E i \in Slot : d_request[i] = r
Entering == place["emu"] \in {"begin", "enter", "found", "type", "entered"}

TableInv == \A i, j \in Slot : d_request[i] = d_request[j] /\ d_request[i] # None => i = j

PipeInv == Once(requests)

\* Where the threads may be, and when they have a request.
PlaceInv ==
  /\ place["unit"] \in {"read", "io", "release", "drop", "clear", "released"}
  /\ place["emu"] \in {"begin", "enter", "found", "type", "entered", "abortio", "abort",
                       "release", "drop", "clear", "released", "amiga", "reset", "kill"}
  /\ place["unit"] = "read" <=> cur["unit"] = None
  /\ place["emu"] \in {"amiga", "reset", "kill"} <=> cur["emu"] = None
  /\ ~thread_running => place["unit"] = "read"

\* A request that is with its client is nowhere else.
ClientInv ==
  \A r \in Request :
    status[r] = "client" => /\ ~InTable(r) /\ r \notin Range(requests)
                            /\ cur["unit"] # r
                            /\ Entering => cur["emu"] # r

\* The request that is entered, and the entry for it.
EnterInv ==
  /\ Entering => cur["unit"] # cur["emu"] /\ cur["emu"] \notin Range(requests)
  /\ place["emu"] \in {"begin", "enter", "found"} => ~InTable(cur["emu"])
  /\ place["emu"] = "found" => d_request[slot["emu"]] = None

\* The request that is carried out, and the entry that it is cleared from.
UnitInv == /\ place["unit"] # "read" => cur["unit"] \notin Range(requests)
           /\ place["unit"] = "drop" =>
                \A i \in Slot : d_request[i] = cur["unit"] => i = slot["unit"]
           /\ place["unit"] \in {"clear", "released"} => ~InTable(cur["unit"])

IInv == /\ TypeOK /\ TableInv /\ PipeInv
        /\ PlaceInv /\ ClientInv /\ EnterInv /\ UnitInv
-----------------------------------------------------------------------------
LEMMA Names == /\ None \notin Request /\ Death \notin Request
               /\ "emu" \in Thread /\ "unit" \in Thread /\ \A t \in Thread : t \in {"emu", "unit"}
               /\ 1 \in Slot
  BY HardfileAssumption DEF Thread, Slot

\* The pipe after a request that is not in it is written ...
LEMMA OnceAppend ==
  ASSUME NEW S, NEW q \in Seq(S), NEW e \in S
  PROVE  /\ Append(q, e) \in Seq(S)
         /\ \A x : x \in Range(Append(q, e)) <=> x \in Range(q) \/ x = e
         /\ Once(q) /\ (e = Death \/ e \notin Range(q)) => Once(Append(q, e))
  <1>1. /\ Append(q, e) \in Seq(S) /\ Len(Append(q, e)) = Len(q) + 1
        /\ \A i \in 1 .. Len(q) : Append(q, e)[i] = q[i]
        /\ Append(q, e)[Len(q) + 1] = e
        /\ Len(q) \in Nat /\ DOMAIN q = 1 .. Len(q)
        /\ DOMAIN Append(q, e) = 1 .. Len(q) + 1
    BY AppendProperties, LenProperties
  <1> HIDE DEF Append
  <1>2. \A x : x \in Range(Append(q, e)) <=> x \in Range(q) \/ x = e
    BY <1>1 DEF Range
  <1>3. Once(q) /\ (e = Death \/ e \notin Range(q)) => Once(Append(q, e))
    BY <1>1 DEF Range, Once
  <1> QED BY <1>1, <1>2, <1>3

\* ... and after one is read.
LEMMA OnceTail ==
  ASSUME NEW S, NEW q \in Seq(S), q # <<>>
  PROVE  /\ Tail(q) \in Seq(S) /\ Head(q) \in S
         /\ Head(q) \in Range(q)
         /\ \A x : x \in Range(Tail(q)) => x \in Range(q)
         /\ Once(q) => /\ Once(Tail(q))
                       /\ Head(q) # Death => Head(q) \notin Range(Tail(q))
  <1>1. /\ Tail(q) \in Seq(S) /\ Len(Tail(q)) = Len(q) - 1 /\ Head(q) \in S
        /\ \A i \in 1 .. Len(q) - 1 : Tail(q)[i] = q[i + 1]
        /\ Len(q) \in Nat \ {0} /\ DOMAIN q = 1 .. Len(q)
        /\ DOMAIN Tail(q) = 1 .. Len(q) - 1
        /\ Head(q) = q[1]
    BY HeadTailProperties, LenProperties, EmptySeq
  <1> HIDE DEF Tail, Head
  <1>2. 1 \in 1 .. Len(q) /\ \A i \in 1 .. Len(q) - 1 : i + 1 \in 1 .. Len(q)
    BY <1>1
  <1>3. Head(q) \in Range(q) /\ \A x : x \in Range(Tail(q)) => x \in Range(q)
    BY <1>1, <1>2 DEF Range
  <1>4. ASSUME Once(q)
        PROVE  Once(Tail(q)) /\ (Head(q) # Death => Head(q) \notin Range(Tail(q)))
    BY <1>1, <1>4 DEF Range, Once
  <1> QED BY <1>1, <1>3, <1>4

\* First finds the first.
LEMMA FirstIs ==
  ASSUME NEW S \in SUBSET Slot, S # {}
  PROVE  First(S) \in S
  <1>1. S \subseteq Nat
    BY DEF Slot
  <1>2. \E i \in S : \A j \in S : ~ (<<j, i>> \in OpToRel(<, Nat))
    BY <1>1, NatLessThanWellFounded, WFMin
  <1>3. \E i \in S : \A j \in S : ~ (j < i)
    BY <1>1, <1>2, Zenon DEF OpToRel
  <1>4. \E i \in S : \A j \in S : i <= j
    BY <1>1, <1>3
  <1> QED BY <1>4 DEF First

\* While a request is on its way into the table there is a free entry for it.
LEMMA FreeEntry ==
  ASSUME d_request \in [Slot -> Request \cup {None}], TableInv,
         NEW r \in Request, ~InTable(r)
  PROVE  First(Entries(None)) \in Slot /\ d_request[First(Entries(None))] = None
  <1>1. ASSUME Entries(None) = {} PROVE FALSE
    <2>1. d_request \in [Slot -> Request \ {r}]
      BY <1>1 DEF Entries, InTable
    <2>2. d_request \in Injection(Slot, Request \ {r})
      BY <2>1, Names DEF Injection, IsInjective, TableInv
    <2>3. /\ IsFiniteSet(Request \ {r}) /\ Cardinality(Request \ {r}) = Cardinality(Request) - 1
          /\ Cardinality(Request) \in Nat
      BY HardfileAssumption, FS_RemoveElement, FS_CardinalityType
    <2>4. Cardinality(Slot) = Slots
      BY HardfileAssumption, FS_Interval DEF Slot
    <2>5. Cardinality(Slot) <= Cardinality(Request \ {r})
      BY <2>2, <2>3, FS_Injection
    <2> QED BY <2>3, <2>4, <2>5, HardfileAssumption
  <1>2. Entries(None) \in SUBSET Slot
    BY DEF Entries
  <1>3. First(Entries(None)) \in Entries(None)
    BY <1>1, <1>2, FirstIs
  <1> QED BY <1>3 DEF Entries

LEMMA InvInit == Init => IInv
  <1> SUFFICES ASSUME Init PROVE IInv
    OBVIOUS
  <1> USE Names
  <1>1. <<>> \in Seq(Request \cup {Death}) /\ Range(<<>>) = {} /\ Once(<<>>)
    BY EmptySeq DEF Range, Once
  <1>2. TypeOK
    <2>1. requests \in Seq(Request \cup {Death}) /\ closes \in 0 .. Closes /\ resets \in 0 .. Resets
      BY <1>1, HardfileAssumption DEF Init
    <2>2. /\ d_request \in [Slot -> Request \cup {None}]
          /\ d_request_type \in [Slot -> {"none", "temp"}]
          /\ cur \in [Thread -> Request \cup {None}] /\ slot \in [Thread -> Slot]
          /\ status \in [Request -> {"client", "device"}]
      BY DEF Init, Empty, NoTypes
    <2>3. place \in [Thread -> {"amiga", "abortio", "abort", "reset", "kill", "read", "io",
                                "begin", "enter", "found", "type", "entered",
                                "release", "drop", "clear", "released"}]
      BY DEF Init, Thread
    <2> QED BY <2>1, <2>2, <2>3 DEF Init, TypeOK
  <1>3. TableInv /\ PipeInv /\ PlaceInv /\ EnterInv /\ UnitInv
    BY <1>1 DEF Init, TableInv, PipeInv, PlaceInv, EnterInv, UnitInv, Empty, Entering, Thread
  <1>4. ClientInv
    BY <1>1 DEF Init, ClientInv, Empty, Entering, InTable, Thread
  <1> QED BY <1>2, <1>3, <1>4 DEF IInv
-----------------------------------------------------------------------------
\* A thread that starts finds an empty table and an empty pipe.
LEMMA Starts ==
  ASSUME IInv, StartThread \/ (Forget /\ UNCHANGED thread_running)
  PROVE  /\ d_request' \in [Slot -> Request \cup {None}]
         /\ d_request_type' \in [Slot -> {"none", "temp"}]
         /\ requests' \in Seq(Request \cup {Death})
         /\ thread_running' \in BOOLEAN
         /\ ~thread_running' => ~thread_running
         /\ TableInv' /\ PipeInv'
         /\ \A r \in Request : InTable(r)' => InTable(r)
         /\ \A i \in Slot : d_request'[i] \in {d_request[i], None}
         /\ \A r : r \in Range(requests') => r \in Range(requests)
  <1> USE Names DEF IInv
  <1>1. <<>> \in Seq(Request \cup {Death}) /\ Range(<<>>) = {} /\ Once(<<>>)
    BY EmptySeq DEF Range, Once
  <1>2. CASE UNCHANGED <<table, requests, thread_running>>
    BY <1>2 DEF table, TypeOK, TableInv, PipeInv, InTable
  <1>3. CASE Forget /\ thread_running' \in {TRUE, thread_running}
    BY <1>1, <1>3 DEF Forget, Empty, NoTypes, TypeOK, TableInv, PipeInv, InTable
  <1> QED BY <1>2, <1>3 DEF StartThread

LEMMA BeginIOKeeps ==
  ASSUME IInv, NEW r \in Request, BeginIO(r)
  PROVE  IInv'
  <1> USE Names DEF IInv
  <1>1. /\ place["emu"] = "amiga" /\ place' = [place EXCEPT !["emu"] = "begin"]
        /\ status[r] = "client" /\ status' = [status EXCEPT ![r] = "device"]
        /\ cur' = [cur EXCEPT !["emu"] = r]
        /\ StartThread
        /\ UNCHANGED <<slot, resetting, opened, closes, resets>>
    BY DEF BeginIO, Goes, bounds
  <1>2. /\ d_request' \in [Slot -> Request \cup {None}]
        /\ d_request_type' \in [Slot -> {"none", "temp"}]
        /\ requests' \in Seq(Request \cup {Death})
        /\ thread_running' \in BOOLEAN
        /\ ~thread_running' => ~thread_running
        /\ TableInv' /\ PipeInv'
        /\ \A q \in Request : InTable(q)' => InTable(q)
        /\ \A i \in Slot : d_request'[i] \in {d_request[i], None}
        /\ \A q : q \in Range(requests') => q \in Range(requests)
    BY <1>1, Starts
  <1>3. /\ place'["unit"] = place["unit"] /\ place'["emu"] = "begin"
        /\ cur'["unit"] = cur["unit"] /\ cur'["emu"] = r
        /\ \A q \in Request : status'[q] = IF q = r THEN "device" ELSE status[q]
    BY <1>1 DEF TypeOK
  <1>4. ~InTable(r) /\ r \notin Range(requests) /\ cur["unit"] # r
    BY <1>1 DEF ClientInv
  <1>5. TypeOK'
    BY <1>1, <1>2 DEF TypeOK
  <1>6. PlaceInv'
    BY <1>2, <1>3 DEF PlaceInv
  <1>7. ClientInv'
    BY <1>2, <1>3 DEF ClientInv
  <1>8. EnterInv'
    BY <1>2, <1>3, <1>4 DEF EnterInv
  <1>9. UnitInv'
    <2>1. cur["unit"] \in Request \cup {None}
      BY DEF TypeOK
    <2>2. place["unit"] # "read" => cur["unit"] \in Request
      BY <2>1 DEF PlaceInv
    <2> QED BY <1>1, <1>2, <1>3, <2>2 DEF UnitInv
  <1> QED BY <1>2, <1>5, <1>6, <1>7, <1>8, <1>9

LEMMA EnterKeeps ==
  ASSUME IInv, Enter
  PROVE  IInv'
  <1> USE Names DEF IInv
  <1> DEFINE e == slot["emu"]
             r == cur["emu"]
  <1>1. Entering /\ r \in Request
    BY DEF Enter, FindEntry, EnterRequest, EnterType, Goes, Entering, PlaceInv, TypeOK
  <1>2. CASE FindEntry
    <2>0. Entries(cur["emu"]) = {}
      BY <1>2 DEF FindEntry, EnterInv, InTable, Entries
    <2>1. /\ place["emu"] = "enter" /\ place' = [place EXCEPT !["emu"] = "found"]
          /\ slot' = [slot EXCEPT !["emu"] = First(Entries(None))]
          /\ UNCHANGED <<table, requests, thread_running, cur, status, bounds>>
      BY <1>2, <2>0 DEF FindEntry
    <2>2. First(Entries(None)) \in Slot /\ d_request[First(Entries(None))] = None
      BY <1>1, <2>1, FreeEntry DEF EnterInv, TypeOK
    <2>3. place'["unit"] = place["unit"] /\ place'["emu"] = "found"
      BY <2>1 DEF TypeOK
    <2>4. TypeOK'
      BY <2>1, <2>2 DEF TypeOK, table, bounds
    <2>5. TableInv' /\ PipeInv' /\ PlaceInv'
      BY <2>1, <2>3 DEF TableInv, PipeInv, PlaceInv, table
    <2>6. ClientInv' /\ UnitInv'
      BY <1>1, <2>1, <2>3 DEF ClientInv, UnitInv, InTable, Entering, table
    <2>7. EnterInv'
      BY <2>1, <2>2, <2>3 DEF EnterInv, InTable, Entering, table, TypeOK
    <2> QED BY <2>4, <2>5, <2>6, <2>7
  <1>3. CASE EnterRequest
    <2>1. /\ place["emu"] = "found" /\ place' = [place EXCEPT !["emu"] = "type"]
          /\ d_request' = [d_request EXCEPT ![e] = r]
          /\ UNCHANGED <<d_request_type, requests, thread_running, cur, slot, status, bounds>>
      BY <1>3 DEF EnterRequest, Goes
    <2>2. /\ ~InTable(r) /\ e \in Slot /\ status[r] # "client"
          /\ cur["unit"] # r
      BY <1>1, <2>1 DEF EnterInv, ClientInv, TypeOK
    <2>3. place'["unit"] = place["unit"] /\ place'["emu"] = "type"
      BY <2>1 DEF TypeOK
    <2>4. \A i \in Slot : d_request'[i] = IF i = e THEN r ELSE d_request[i]
      BY <2>1 DEF TypeOK
    <2>5. \A q : q # r => (InTable(q)' => InTable(q))
      BY <2>2, <2>4 DEF InTable
    <2>6. TypeOK'
      BY <1>1, <2>1 DEF TypeOK, bounds
    <2>7. TableInv'
      BY <2>2, <2>4 DEF TableInv, InTable
    <2>8. PipeInv' /\ PlaceInv'
      BY <2>1, <2>3 DEF PipeInv, PlaceInv
    <2>9. ClientInv' /\ UnitInv'
      BY <2>1, <2>2, <2>3, <2>5, <1>1 DEF ClientInv, UnitInv, Entering
    <2>10. EnterInv'
      BY <2>1, <2>3, <1>1 DEF EnterInv, Entering
    <2> QED BY <2>6, <2>7, <2>8, <2>9, <2>10
  <1>4. CASE EnterType
    <2>1. /\ place["emu"] = "type" /\ place' = [place EXCEPT !["emu"] = "entered"]
          /\ d_request_type' = [d_request_type EXCEPT ![e] = "temp"]
          /\ UNCHANGED <<d_request, requests, thread_running, cur, slot, status, bounds>>
      BY <1>4 DEF EnterType, Goes
    <2>2. place'["unit"] = place["unit"] /\ place'["emu"] = "entered"
      BY <2>1 DEF TypeOK
    <2>3. TypeOK'
      BY <2>1 DEF TypeOK, bounds
    <2>4. TableInv' /\ PipeInv' /\ PlaceInv'
      BY <2>1, <2>2 DEF TableInv, PipeInv, PlaceInv
    <2>5. ClientInv' /\ UnitInv' /\ EnterInv'
      BY <1>1, <2>1, <2>2 DEF ClientInv, UnitInv, EnterInv, InTable, Entering
    <2> QED BY <2>3, <2>4, <2>5
  <1> QED BY <1>2, <1>3, <1>4 DEF Enter

LEMMA HandOverKeeps ==
  ASSUME IInv, HandOver
  PROVE  IInv'
  <1> USE Names DEF IInv
  <1> DEFINE r == cur["emu"]
  <1>1. /\ place["emu"] = "entered" /\ place' = [place EXCEPT !["emu"] = "amiga"]
        /\ requests' = Append(requests, r)
        /\ cur' = [cur EXCEPT !["emu"] = None]
        /\ UNCHANGED <<table, thread_running, slot, status, bounds>>
    BY DEF HandOver, Goes
  <1>2. /\ r \in Request /\ r \notin Range(requests) /\ cur["unit"] # r
        /\ status[r] # "client"
    BY <1>1 DEF EnterInv, ClientInv, Entering, PlaceInv, TypeOK
  <1>3. requests \in Seq(Request \cup {Death}) /\ Once(requests)
    BY DEF TypeOK, PipeInv
  <1>4. /\ requests' \in Seq(Request \cup {Death}) /\ Once(requests')
        /\ \A x : x \in Range(requests') <=> x \in Range(requests) \/ x = r
    BY <1>1, <1>2, <1>3, OnceAppend
  <1>5. /\ place'["unit"] = place["unit"] /\ place'["emu"] = "amiga"
        /\ cur'["unit"] = cur["unit"] /\ cur'["emu"] = None
    BY <1>1 DEF TypeOK
  <1>6. TypeOK'
    BY <1>1, <1>4 DEF TypeOK, table, bounds
  <1>7. TableInv' /\ PipeInv' /\ PlaceInv' /\ EnterInv'
    BY <1>1, <1>4, <1>5 DEF TableInv, PipeInv, PlaceInv, EnterInv, Entering, table
  <1>8. ClientInv' /\ UnitInv'
    BY <1>1, <1>2, <1>4, <1>5 DEF ClientInv, UnitInv, InTable, Entering, table
  <1> QED BY <1>6, <1>7, <1>8

LEMMA ReleaseKeeps ==
  ASSUME IInv, NEW t \in Thread, Release(t)
  PROVE  IInv'
  <1> USE Names DEF IInv
  <1>0. cur["unit"] \in Request \cup {None} /\ (place["unit"] # "read" => cur["unit"] \in Request)
    BY DEF PlaceInv, TypeOK
  <1>1. CASE FindRelease(t)
    <2> DEFINE found == Entries(cur[t])
    <2>1. /\ place[t] = "release"
          /\ UNCHANGED <<d_request, d_request_type, requests, thread_running, cur, status,
                         resetting, opened, closes, resets>>
      BY <1>1 DEF FindRelease, table, bounds
    <2>2. PICK to \in {"drop", "released"} :
            /\ place' = [place EXCEPT ![t] = to]
            /\ slot' \in [Thread -> Slot] /\ \A u \in Thread : u # t => slot'[u] = slot[u]
            /\ to = "released" => ~InTable(cur[t])
            /\ to = "drop" => d_request[slot'[t]] = cur[t]
      <3>1. CASE found = {}
        <4>1. place' = [place EXCEPT ![t] = "released"] /\ UNCHANGED slot
          BY <1>1, <3>1 DEF FindRelease
        <4> QED BY <3>1, <4>1 DEF Entries, TypeOK, InTable
      <3>2. CASE found # {}
        <4>1. First(found) \in Slot /\ d_request[First(found)] = cur[t]
          BY <3>2, FirstIs DEF Entries
        <4>2. /\ place' = [place EXCEPT ![t] = "drop"]
              /\ slot' = [slot EXCEPT ![t] = First(found)]
          BY <1>1, <3>2 DEF FindRelease
        <4> HIDE DEF found
        <4> QED BY <4>1, <4>2 DEF TypeOK
      <3> QED BY <3>1, <3>2
    <2>3. \A u \in Thread : place'[u] = IF u = t THEN to ELSE place[u]
      BY <2>2 DEF TypeOK
    <2>4. Entering' => Entering /\ place'["emu"] = place["emu"] /\ t = "unit"
      BY <2>1, <2>3 DEF Entering
    <2>5. TypeOK'
      BY <2>1, <2>2 DEF TypeOK
    <2>6. TableInv' /\ PipeInv' /\ PlaceInv'
      BY <2>1, <2>3 DEF TableInv, PipeInv, PlaceInv
    <2>7. ClientInv'
      BY <2>1, <2>4 DEF ClientInv, InTable
    <2>8. EnterInv'
      BY <2>1, <2>2, <2>4 DEF EnterInv, InTable, Entering
    <2>9. UnitInv'
      <3>1. CASE t = "unit"
        <4>1. \A i, j \in Slot : d_request[i] = cur["unit"] /\ d_request[j] = cur["unit"] => i = j
          BY <1>0, <2>1, <3>1 DEF TableInv
        <4> QED BY <2>1, <2>2, <2>3, <3>1, <4>1 DEF UnitInv, InTable, TypeOK
      <3>2. CASE t # "unit"
        BY <2>1, <2>2, <2>3, <3>2 DEF UnitInv, InTable
      <3> QED BY <3>1, <3>2
    <2> QED BY <2>5, <2>6, <2>7, <2>8, <2>9
  <1>3. CASE ReleaseRequest(t)
    <2>1. /\ place[t] = "drop" /\ place' = [place EXCEPT ![t] = "clear"]
          /\ d_request' = [d_request EXCEPT ![slot[t]] = None]
          /\ UNCHANGED <<d_request_type, requests, thread_running, cur, slot, status, bounds>>
      BY <1>3 DEF ReleaseRequest, Goes
    <2>2. \A u \in Thread : place'[u] = IF u = t THEN "clear" ELSE place[u]
      BY <2>1 DEF TypeOK
    <2>3. /\ d_request' \in [Slot -> Request \cup {None}]
          /\ \A i \in Slot : d_request'[i] = IF i = slot[t] THEN None ELSE d_request[i]
      BY <2>1 DEF TypeOK
    <2>4. \A q \in Request : InTable(q)' => InTable(q)
      BY <2>3 DEF InTable
    <2>5. Entering' => Entering /\ place'["emu"] = place["emu"] /\ t = "unit"
      BY <2>1, <2>2 DEF Entering
    <2>6. TypeOK'
      BY <2>1, <2>3 DEF TypeOK, bounds
    <2>7. TableInv' /\ PipeInv' /\ PlaceInv'
      BY <2>1, <2>2, <2>3 DEF TableInv, PipeInv, PlaceInv
    <2>8. ClientInv'
      BY <2>1, <2>4, <2>5 DEF ClientInv
    <2>9. EnterInv'
      <3>1. cur["emu"] \in Request \cup {None} /\ (Entering => cur["emu"] \in Request)
        BY DEF TypeOK, PlaceInv, Entering
      <3>2. place'["emu"] \in {"begin", "enter", "found"} => ~InTable(cur["emu"])'
        BY <2>1, <2>4, <2>5, <3>1 DEF EnterInv, Entering
      <3>3. place'["emu"] = "found" => d_request'[slot'["emu"]] = None
        BY <2>1, <2>3, <2>5 DEF EnterInv, Entering, TypeOK
      <3> QED BY <2>1, <2>5, <3>2, <3>3 DEF EnterInv
    <2>10. UnitInv'
      <3>1. CASE t = "unit"
        <4>1. ~InTable(cur["unit"])'
          BY <1>0, <2>1, <2>3, <3>1 DEF UnitInv, InTable
        <4> QED BY <2>1, <2>2, <3>1, <4>1 DEF UnitInv
      <3>2. CASE t # "unit"
        BY <1>0, <2>1, <2>2, <2>3, <2>4, <3>2 DEF UnitInv
      <3> QED BY <3>1, <3>2
    <2> QED BY <2>6, <2>7, <2>8, <2>9, <2>10
  <1>2. CASE ReleaseType(t)
    <2>1. /\ place[t] = "clear" /\ place' = [place EXCEPT ![t] = "released"]
          /\ d_request_type' = [d_request_type EXCEPT ![slot[t]] = "none"]
          /\ UNCHANGED <<d_request, requests, thread_running, cur, slot, status, bounds>>
      BY <1>2 DEF ReleaseType, Goes
    <2>2. \A u \in Thread : place'[u] = IF u = t THEN "released" ELSE place[u]
      BY <2>1 DEF TypeOK
    <2>3. TypeOK'
      BY <2>1 DEF TypeOK, bounds
    <2>4. TableInv' /\ PipeInv' /\ PlaceInv'
      BY <2>1, <2>2 DEF TableInv, PipeInv, PlaceInv
    <2>5. ClientInv' /\ UnitInv' /\ EnterInv'
      BY <2>1, <2>2 DEF ClientInv, UnitInv, EnterInv, InTable, Entering
    <2> QED BY <2>3, <2>4, <2>5
  <1> QED BY <1>1, <1>2, <1>3 DEF Release

LEMMA UnitReadsKeeps ==
  ASSUME IInv, UnitReads
  PROVE  IInv'
  <1> USE Names DEF IInv
  <1> DEFINE r == Head(requests)
  <1>1. /\ place["unit"] = "read" /\ thread_running /\ requests # <<>>
        /\ requests' = Tail(requests)
        /\ UNCHANGED <<table, slot, status, bounds>>
        /\ \/ /\ r = Death /\ thread_running' = FALSE /\ UNCHANGED <<place, cur>>
           \/ /\ r # Death /\ thread_running' = thread_running
              /\ place' = [place EXCEPT !["unit"] = "io"] /\ cur' = [cur EXCEPT !["unit"] = r]
    BY DEF UnitReads
  <1>2. requests \in Seq(Request \cup {Death}) /\ Once(requests)
    BY DEF TypeOK, PipeInv
  <1>3. /\ requests' \in Seq(Request \cup {Death}) /\ Once(requests')
        /\ r \in Request \cup {Death} /\ r \in Range(requests)
        /\ \A x : x \in Range(requests') => x \in Range(requests)
        /\ r # Death => r \notin Range(requests')
    BY <1>1, <1>2, OnceTail
  <1>4. cur["unit"] = None
    BY <1>1 DEF PlaceInv
  <1> HIDE DEF r
  <1>5. CASE r = Death
    <2> thread_running' = FALSE /\ UNCHANGED <<place, cur, table, slot, status, bounds>>
      BY <1>1, <1>5
    <2>1. TypeOK'
      BY <1>3 DEF TypeOK, table, bounds
    <2>2. TableInv' /\ PipeInv' /\ PlaceInv'
      BY <1>1, <1>3 DEF TableInv, PipeInv, PlaceInv, table
    <2>3. ClientInv' /\ EnterInv' /\ UnitInv'
      BY <1>1, <1>3 DEF ClientInv, EnterInv, UnitInv, InTable, Entering, table
    <2> QED BY <2>1, <2>2, <2>3
  <1>6. CASE r # Death
    <2> /\ place' = [place EXCEPT !["unit"] = "io"] /\ cur' = [cur EXCEPT !["unit"] = r]
        /\ UNCHANGED <<thread_running, table, slot, status, bounds>> /\ r \in Request
      BY <1>1, <1>3, <1>6
    <2>1. /\ place'["unit"] = "io" /\ place'["emu"] = place["emu"]
          /\ cur'["unit"] = r /\ cur'["emu"] = cur["emu"]
      BY DEF TypeOK
    <2>2. TypeOK'
      BY <1>3 DEF TypeOK, table, bounds
    <2>3. TableInv' /\ PipeInv' /\ PlaceInv'
      BY <1>1, <1>3, <1>6, <2>1 DEF TableInv, PipeInv, PlaceInv, table
    <2>4. ClientInv' /\ EnterInv' /\ UnitInv'
      BY <1>1, <1>3, <1>6, <2>1 DEF ClientInv, EnterInv, UnitInv, InTable, Entering, table
    <2> QED BY <2>2, <2>3, <2>4
  <1> QED BY <1>5, <1>6

LEMMA ReplyKeeps ==
  ASSUME IInv, Reply
  PROVE  IInv'
  <1> USE Names DEF IInv
  <1> DEFINE r == cur["unit"]
  <1>1. /\ place["unit"] = "released" /\ place' = [place EXCEPT !["unit"] = "read"]
        /\ status' = [status EXCEPT ![r] = "client"]
        /\ cur' = [cur EXCEPT !["unit"] = None]
        /\ UNCHANGED <<table, requests, thread_running, slot, bounds>>
    BY DEF Reply, Goes
  <1>2. /\ r \in Request /\ r \notin Range(requests) /\ ~InTable(r)
        /\ Entering => cur["emu"] # r
    BY <1>1 DEF PlaceInv, UnitInv, EnterInv, TypeOK
  <1> HIDE DEF r
  <1>3. /\ place'["unit"] = "read" /\ place'["emu"] = place["emu"]
        /\ cur'["unit"] = None /\ cur'["emu"] = cur["emu"]
        /\ \A q \in Request : status'[q] = IF q = r THEN "client" ELSE status[q]
    BY <1>1, <1>2 DEF TypeOK
  <1>4. TypeOK'
    BY <1>1, <1>2 DEF TypeOK, table, bounds
  <1>5. TableInv' /\ PipeInv' /\ PlaceInv'
    BY <1>1, <1>3 DEF TableInv, PipeInv, PlaceInv, table
  <1>6. ClientInv'
    BY <1>1, <1>2, <1>3 DEF ClientInv, InTable, Entering, table
  <1>7. UnitInv'
    BY <1>1, <1>3 DEF UnitInv
  <1>8. EnterInv'
    <2>1. Entering => cur["emu"] # None
      BY DEF PlaceInv, Entering
    <2> QED BY <1>1, <1>3, <2>1 DEF EnterInv, InTable, Entering, table
  <1> QED BY <1>4, <1>5, <1>6, <1>7, <1>8

LEMMA DoIOKeeps ==
  ASSUME IInv, DoIO
  PROVE  IInv'
  <1> USE Names DEF IInv
  <1>1. /\ place["unit"] = "io" /\ place' = [place EXCEPT !["unit"] = "release"]
        /\ UNCHANGED <<table, requests, thread_running, cur, slot, status, bounds>>
    BY DEF DoIO, Goes
  <1>2. place'["unit"] = "release" /\ place'["emu"] = place["emu"]
    BY <1>1 DEF TypeOK
  <1>3. TypeOK'
    BY <1>1 DEF TypeOK, table, bounds
  <1>4. TableInv' /\ PipeInv' /\ PlaceInv'
    BY <1>1, <1>2 DEF TableInv, PipeInv, PlaceInv, table
  <1>5. ClientInv' /\ EnterInv' /\ UnitInv'
    BY <1>1, <1>2 DEF ClientInv, EnterInv, UnitInv, InTable, Entering, table
  <1> QED BY <1>3, <1>4, <1>5

\* Steps that only move.
LEMMA MovesKeep ==
  ASSUME IInv, BeginAsync \/ AbortGoesOn \/ Reset \/ UNCHANGED vars
  PROVE  IInv'
  <1> USE Names DEF IInv
  <1>1. CASE UNCHANGED vars
    <2>1. UNCHANGED <<d_request, d_request_type, requests, thread_running, place, cur, slot,
                      status, resetting, opened, closes, resets>>
      BY <1>1 DEF vars, table, threads, bounds
    <2>2. TypeOK' /\ TableInv' /\ PipeInv' /\ PlaceInv'
      BY <2>1 DEF TypeOK, TableInv, PipeInv, PlaceInv
    <2>3. ClientInv' /\ EnterInv' /\ UnitInv'
      BY <2>1 DEF ClientInv, EnterInv, UnitInv, InTable, Entering
    <2> QED BY <2>2, <2>3
  <1>2. CASE BeginAsync \/ AbortGoesOn \/ Reset
    <2>1. /\ <<place["emu"], place'["emu"]>> \in
               {<<"begin", "enter">>, <<"abort", "release">>, <<"amiga", "reset">>}
          /\ place' \in [Thread -> {"amiga", "abortio", "abort", "reset", "kill", "read", "io",
                                    "begin", "enter", "found", "type", "entered",
                                    "release", "drop", "clear", "released"}]
          /\ place'["unit"] = place["unit"]
      BY <1>2 DEF BeginAsync, AbortGoesOn, Reset, Goes, TypeOK
    <2>2. /\ UNCHANGED <<d_request, d_request_type, requests, thread_running, cur, slot, status,
                         opened, closes>>
          /\ resetting' \in BOOLEAN /\ resets' \in 0 .. Resets
      <3>1. CASE BeginAsync \/ AbortGoesOn
        BY <3>1 DEF BeginAsync, AbortGoesOn, TypeOK, table, bounds
      <3>2. CASE Reset
        <4>1. resets \in 0 .. Resets /\ resets < Resets /\ resets' = resets + 1
          BY <3>2 DEF Reset, TypeOK
        <4>2. resets' \in 0 .. Resets
          BY <4>1, HardfileAssumption
        <4> QED BY <3>2, <4>2 DEF Reset, table
      <3> QED BY <1>2, <3>1, <3>2
    <2>3. TypeOK'
      BY <2>1, <2>2 DEF TypeOK
    <2>4. TableInv' /\ PipeInv' /\ PlaceInv'
      BY <2>1, <2>2 DEF TableInv, PipeInv, PlaceInv
    <2>5. ClientInv' /\ EnterInv' /\ UnitInv'
      BY <2>1, <2>2 DEF ClientInv, EnterInv, UnitInv, InTable, Entering
    <2> QED BY <2>3, <2>4, <2>5
  <1> QED BY <1>1, <1>2

LEMMA AbortIOKeeps ==
  ASSUME IInv, NEW r \in Request, AbortIO(r)
  PROVE  IInv'
  <1> USE Names DEF IInv
  <1>1. /\ place["emu"] = "amiga" /\ place' = [place EXCEPT !["emu"] = "abortio"]
        /\ cur' = [cur EXCEPT !["emu"] = r]
        /\ StartThread
        /\ UNCHANGED <<slot, status, resetting, opened, closes, resets>>
    BY DEF AbortIO, Goes, bounds
  <1>2. /\ d_request' \in [Slot -> Request \cup {None}]
        /\ d_request_type' \in [Slot -> {"none", "temp"}]
        /\ requests' \in Seq(Request \cup {Death})
        /\ thread_running' \in BOOLEAN
        /\ ~thread_running' => ~thread_running
        /\ TableInv' /\ PipeInv'
        /\ \A q \in Request : InTable(q)' => InTable(q)
        /\ \A i \in Slot : d_request'[i] \in {d_request[i], None}
        /\ \A q : q \in Range(requests') => q \in Range(requests)
    BY <1>1, Starts
  <1>3. /\ place'["unit"] = place["unit"] /\ place'["emu"] = "abortio"
        /\ cur'["unit"] = cur["unit"] /\ cur'["emu"] = r
    BY <1>1 DEF TypeOK
  <1>4. TypeOK'
    BY <1>1, <1>2 DEF TypeOK
  <1>5. PlaceInv' /\ EnterInv'
    BY <1>2, <1>3 DEF PlaceInv, EnterInv, Entering
  <1>6. ClientInv'
    BY <1>1, <1>2, <1>3 DEF ClientInv, Entering
  <1>7. UnitInv'
    <2>1. place["unit"] # "read" => cur["unit"] \in Request
      BY DEF PlaceInv, TypeOK
    <2> QED BY <1>1, <1>2, <1>3, <2>1 DEF UnitInv
  <1> QED BY <1>2, <1>4, <1>5, <1>6, <1>7

\* An abort takes a request of the table, or is done with it.
LEMMA CurKeeps ==
  ASSUME IInv, AbortBegins \/ ResetAborts \/ Released
  PROVE  IInv'
  <1> USE Names DEF IInv
  <1>1. PICK r \in Request \cup {None}, to \in {"abort", "reset", "amiga"} :
          /\ place' = [place EXCEPT !["emu"] = to] /\ cur' = [cur EXCEPT !["emu"] = r]
          /\ to = "abort" <=> r # None
    <2>1. CASE ResetAborts
      <3>1. Used \in SUBSET Slot /\ Used # {}
        BY <2>1 DEF ResetAborts, Used
      <3>2. First(Used) \in Used
        BY <3>1, FirstIs
      <3>3. d_request[First(Used)] \in Request
        BY <3>2 DEF Used, TypeOK
      <3> QED BY <2>1, <3>3 DEF ResetAborts, Goes
    <2>2. CASE Released
      BY <2>2 DEF Released, Goes
    <2>3. CASE AbortBegins
      <3>1. cur["emu"] \in Request /\ cur = [cur EXCEPT !["emu"] = cur["emu"]]
        BY <2>3 DEF AbortBegins, Goes, PlaceInv, TypeOK
      <3> QED BY <2>3, <3>1 DEF AbortBegins, Goes
    <2> QED BY <2>1, <2>2, <2>3
  <1>2. UNCHANGED <<d_request, d_request_type, requests, thread_running, slot, status, resetting,
                    opened, closes, resets>>
    BY DEF AbortBegins, ResetAborts, Released, table, bounds
  <1>3. /\ place'["unit"] = place["unit"] /\ place'["emu"] = to
        /\ cur'["unit"] = cur["unit"] /\ cur'["emu"] = r
    BY <1>1 DEF TypeOK
  <1>4. TypeOK'
    BY <1>1, <1>2 DEF TypeOK
  <1>5. TableInv' /\ PipeInv' /\ PlaceInv'
    BY <1>1, <1>2, <1>3 DEF TableInv, PipeInv, PlaceInv
  <1>6. ClientInv' /\ EnterInv' /\ UnitInv'
    BY <1>2, <1>3 DEF ClientInv, EnterInv, UnitInv, InTable, Entering
  <1> QED BY <1>4, <1>5, <1>6

LEMMA ReturnsKeeps ==
  ASSUME IInv, ReturnsAtOnce
  PROVE  IInv'
  <1> USE Names DEF IInv
  <1> DEFINE r == cur["emu"]
  <1>1. /\ place["emu"] = "begin" /\ place' = [place EXCEPT !["emu"] = "amiga"]
        /\ cur' = [cur EXCEPT !["emu"] = None]
        /\ UNCHANGED <<table, requests, thread_running, slot, bounds>>
    BY DEF ReturnsAtOnce, Goes
  <1>2. PICK s \in {"client", "device"} : status' = [status EXCEPT ![r] = s]
    BY DEF ReturnsAtOnce
  <1>3. /\ r \in Request /\ ~InTable(r) /\ r \notin Range(requests) /\ cur["unit"] # r
    BY <1>1 DEF EnterInv, Entering, PlaceInv, TypeOK
  <1> HIDE DEF r
  <1>4. /\ place'["unit"] = place["unit"] /\ place'["emu"] = "amiga"
        /\ cur'["unit"] = cur["unit"] /\ cur'["emu"] = None
        /\ \A q \in Request : q # r => status'[q] = status[q]
    BY <1>1, <1>2, <1>3 DEF TypeOK
  <1>5. TypeOK'
    BY <1>1, <1>2, <1>3 DEF TypeOK, table, bounds
  <1>6. TableInv' /\ PipeInv' /\ PlaceInv' /\ EnterInv'
    BY <1>1, <1>4 DEF TableInv, PipeInv, PlaceInv, EnterInv, Entering, table
  <1>7. ClientInv'
    BY <1>1, <1>3, <1>4 DEF ClientInv, InTable, Entering, table
  <1>8. UnitInv'
    BY <1>1, <1>4 DEF UnitInv, InTable, table
  <1> QED BY <1>5, <1>6, <1>7, <1>8

\* The request that ends the thread is written.
LEMMA DeathKeeps ==
  ASSUME IInv, Close \/ ResetKills
  PROVE  IInv'
  <1> USE Names DEF IInv
  <1>1. /\ requests' \in {requests, Append(requests, Death)}
        /\ closes' \in 0 .. Closes /\ opened' \in BOOLEAN
        /\ UNCHANGED <<d_request, d_request_type, thread_running, cur, slot, status, resetting,
                       resets>>
    <2>1. CASE Close
      <3>1. closes \in 0 .. Closes /\ closes < Closes /\ closes' = closes + 1
        BY <2>1 DEF Close, TypeOK
      <3>2. closes' \in 0 .. Closes
        BY <3>1, HardfileAssumption
      <3> QED BY <2>1, <3>2 DEF Close, table, threads
    <2>2. CASE ResetKills
      BY <2>2 DEF ResetKills, TypeOK, table, bounds
    <2> QED BY <2>1, <2>2
  <1>2. /\ place' = place \/ place' = [place EXCEPT !["emu"] = "kill"]
        /\ place["emu"] \in {"amiga", "reset"}
    BY DEF Close, ResetKills, Goes, threads
  <1>3. requests \in Seq(Request \cup {Death}) /\ Once(requests)
    BY DEF TypeOK, PipeInv
  <1>4. /\ requests' \in Seq(Request \cup {Death}) /\ Once(requests')
        /\ \A x : x \in Range(requests') => x \in Range(requests) \/ x = Death
    <2>1. Death \in Request \cup {Death}
      OBVIOUS
    <2>2. /\ Append(requests, Death) \in Seq(Request \cup {Death}) /\ Once(Append(requests, Death))
          /\ \A x : x \in Range(Append(requests, Death)) <=> x \in Range(requests) \/ x = Death
      BY <1>3, <2>1, OnceAppend
    <2>3. CASE requests' = requests
      BY <1>3, <2>3
    <2>4. CASE requests' = Append(requests, Death)
      BY <2>2, <2>4
    <2> QED BY <1>1, <2>3, <2>4
  <1>5. place'["unit"] = place["unit"] /\ place'["emu"] \in {"amiga", "reset", "kill"}
    BY <1>2 DEF TypeOK
  <1>6. TypeOK'
    BY <1>1, <1>2, <1>4 DEF TypeOK
  <1>7. TableInv' /\ PipeInv' /\ PlaceInv' /\ EnterInv'
    BY <1>1, <1>2, <1>4, <1>5 DEF TableInv, PipeInv, PlaceInv, EnterInv, Entering
  <1>8. ClientInv'
    BY <1>1, <1>4, <1>5 DEF ClientInv, InTable, Entering
  <1>9. UnitInv'
    <2>1. place["unit"] # "read" => cur["unit"] \in Request
      BY DEF PlaceInv, TypeOK
    <2> QED BY <1>1, <1>4, <1>5, <2>1 DEF UnitInv, InTable
  <1> QED BY <1>4, <1>6, <1>7, <1>8, <1>9

LEMMA OpenKeeps ==
  ASSUME IInv, Open
  PROVE  IInv'
  <1> USE Names DEF IInv
  <1>1. /\ StartThread /\ opened' = TRUE
        /\ UNCHANGED <<place, cur, slot, status, resetting, closes, resets>>
    BY DEF Open, threads
  <1>2. /\ d_request' \in [Slot -> Request \cup {None}]
        /\ d_request_type' \in [Slot -> {"none", "temp"}]
        /\ requests' \in Seq(Request \cup {Death})
        /\ thread_running' \in BOOLEAN
        /\ ~thread_running' => ~thread_running
        /\ TableInv' /\ PipeInv'
        /\ \A q \in Request : InTable(q)' => InTable(q)
        /\ \A i \in Slot : d_request'[i] \in {d_request[i], None}
        /\ \A q : q \in Range(requests') => q \in Range(requests)
    BY <1>1, Starts
  <1>3. place["emu"] = "amiga"
    BY DEF Open
  <1>4. TypeOK' /\ PlaceInv' /\ EnterInv'
    BY <1>1, <1>2, <1>3 DEF TypeOK, PlaceInv, EnterInv, Entering
  <1>5. ClientInv'
    BY <1>1, <1>2 DEF ClientInv, Entering
  <1>6. UnitInv'
    <2>1. place["unit"] # "read" => cur["unit"] \in Request
      BY DEF PlaceInv, TypeOK
    <2> QED BY <1>1, <1>2, <2>1 DEF UnitInv
  <1> QED BY <1>2, <1>4, <1>5, <1>6

LEMMA ResetEndsKeeps ==
  ASSUME IInv, ResetEnds
  PROVE  IInv'
  <1> USE Names DEF IInv
  <1>1. /\ ~thread_running /\ Forget
        /\ place["emu"] = "kill" /\ place' = [place EXCEPT !["emu"] = "amiga"]
        /\ status' = [q \in Request |-> "client"]
        /\ opened' = FALSE /\ resetting' = FALSE
        /\ UNCHANGED <<thread_running, cur, slot, closes, resets>>
    BY DEF ResetEnds, Goes
  <1>2. /\ d_request' \in [Slot -> Request \cup {None}]
        /\ d_request_type' \in [Slot -> {"none", "temp"}]
        /\ requests' \in Seq(Request \cup {Death})
        /\ TableInv' /\ PipeInv'
    BY <1>1, Starts
  <1>3. Range(requests') = {} /\ \A q \in Request : ~InTable(q)'
    BY <1>1, EmptySeq DEF Forget, Empty, InTable, Range
  <1>4. place'["unit"] = "read" /\ place'["emu"] = "amiga" /\ cur'["unit"] = None
    BY <1>1 DEF PlaceInv, TypeOK
  <1>5. TypeOK'
    BY <1>1, <1>2 DEF TypeOK
  <1>6. PlaceInv' /\ EnterInv' /\ UnitInv'
    BY <1>1, <1>4 DEF PlaceInv, EnterInv, UnitInv, Entering
  <1>7. ClientInv'
    BY <1>3, <1>4 DEF ClientInv, Entering
  <1> QED BY <1>2, <1>5, <1>6, <1>7
-----------------------------------------------------------------------------
\* IInv is an invariant: of the entries, the pipe and the thread, a request is in one place.
THEOREM Invariance == Spec => []IInv
  <1>1. Init => IInv
    BY InvInit
  <1>2. IInv /\ [Next]_vars => IInv'
    <2> SUFFICES ASSUME IInv, [Next]_vars PROVE IInv'
      OBVIOUS
    <2>1. ASSUME NEW r \in Request, BeginIO(r) \/ AbortIO(r) PROVE IInv'
      BY <2>1, BeginIOKeeps, AbortIOKeeps
    <2>2. CASE Emulation
      BY <2>2, Names, ReturnsKeeps, EnterKeeps, HandOverKeeps, MovesKeep, ReleaseKeeps, CurKeeps,
         DeathKeeps, ResetEndsKeeps DEF Emulation
    <2>3. CASE UnitThread
      BY <2>3, Names, UnitReadsKeeps, DoIOKeeps, ReleaseKeeps, ReplyKeeps DEF UnitThread
    <2>4. CASE Close \/ Open \/ Reset \/ UNCHANGED vars
      BY <2>4, DeathKeeps, OpenKeeps, MovesKeep
    <2> QED BY <2>1, <2>2, <2>3, <2>4 DEF Next
  <1> QED BY <1>1, <1>2, PTL DEF Spec

\* The table, the pipe and the two threads keep their types: whatever abort_async and
\* hardfile_reset find in the table is a request, and the threads work on entries of it.
THEOREM TypeCorrect == Spec => []TypeOK
  <1>1. IInv => TypeOK
    BY DEF IInv
  <1> QED BY <1>1, Invariance, PTL

\* A request is in the table of add_async_request once, and not while its client may send it
\* again: the device never carries out a request that was replied to.
THEOREM EnteredOnce == Spec => []OneEntry
  <1>1. ASSUME IInv PROVE OneEntry
    <2> SUFFICES ASSUME NEW r \in Request
                 PROVE  Cardinality(Entries(r)) <= (IF status[r] = "client" THEN 0 ELSE 1)
      BY DEF OneEntry
    <2>1. CASE ~InTable(r)
      <3>1. Entries(r) = {}
        BY <2>1 DEF InTable, Entries
      <3> QED BY <3>1, FS_EmptySet
    <2>2. CASE InTable(r)
      <3>1. PICK i \in Slot : d_request[i] = r
        BY <2>2 DEF InTable
      <3>2. Entries(r) = {i}
        BY <1>1, <3>1, Names DEF IInv, TableInv, Entries
      <3>3. Cardinality(Entries(r)) = 1
        BY <3>2, FS_Singleton
      <3>4. status[r] # "client"
        BY <1>1, <2>2 DEF IInv, ClientInv
      <3> QED BY <3>3, <3>4
    <2> QED BY <2>1, <2>2
  <1> QED BY <1>1, Invariance, PTL
-----------------------------------------------------------------------------
(* What the emulation thread waits for is on its way to the unit's thread, *)
(* and that thread reads on: the safe part of WaitsEnd.                    *)

\* A request that the thread of the unit gets to, or has.
UnderWay(r) == \/ r \in Range(requests)
               \/ cur["unit"] = r /\ place["unit"] \in {"io", "release", "drop"}
               \/ Entering /\ cur["emu"] = r

\* An entry that abort_async waits for has its request under way.  The other thread may have
\* cleared the entry that is being filled in.
TempInv == /\ place["emu"] = "type" => d_request[slot["emu"]] \in {cur["emu"], None}
           /\ \A r \in Request : Temp(r) => UnderWay(r)

\* Unless the unit was closed, only a reset ends its thread, and then waits for it.
LifeInv ==
  /\ ~opened => \A r \in Request : status[r] = "client"
  /\ closes = 0 => /\ Death \in Range(requests) => place["emu"] = "kill"
                   /\ place["emu"] = "kill" /\ thread_running => Death \in Range(requests)
                   /\ opened /\ place["emu"] # "kill" => thread_running
                   /\ ~opened => place["emu"] \in {"amiga", "reset", "kill"}

PlaceType ==
  /\ place \in [Thread -> {"amiga", "abortio", "abort", "reset", "kill", "read", "io",
                           "begin", "enter", "found", "type", "entered",
                           "release", "drop", "clear", "released"}]
  /\ cur \in [Thread -> Request \cup {None}] /\ slot \in [Thread -> Slot]
  /\ d_request \in [Slot -> Request \cup {None}]
  /\ requests \in Seq(Request \cup {Death})
  /\ "emu" \in Thread /\ "unit" \in Thread /\ None \notin Request /\ Death \notin Request

LEMMA Placed == IInv => PlaceType
  BY Names DEF IInv, TypeOK, PlaceType

LEMMA StartIs ==
  ASSUME StartThread
  PROVE  \/ thread_running /\ UNCHANGED <<table, requests, thread_running>>
         \/ ~thread_running /\ thread_running' /\ Range(requests') = {} /\ d_request' = Empty
  BY EmptySeq DEF StartThread, Forget, Range

LEMMA NoTemp ==
  ASSUME d_request' = Empty
  PROVE  \A r \in Request : ~Temp(r)'
  BY Names DEF Empty, Temp, Entries

\* A request that is read leaves the others in the pipe.
LEMMA TailKeeps ==
  ASSUME NEW S, NEW q \in Seq(S), q # <<>>
  PROVE  \A x : x \in Range(q) => x = Head(q) \/ x \in Range(Tail(q))
  <1>1. /\ Len(Tail(q)) = Len(q) - 1
        /\ \A i \in 1 .. Len(q) - 1 : Tail(q)[i] = q[i + 1]
        /\ Len(q) \in Nat \ {0} /\ DOMAIN q = 1 .. Len(q)
        /\ DOMAIN Tail(q) = 1 .. Len(q) - 1
        /\ Head(q) = q[1]
    BY HeadTailProperties, LenProperties, EmptySeq
  <1> HIDE DEF Tail, Head
  <1> SUFFICES ASSUME NEW i \in 1 .. Len(q), i # 1 PROVE q[i] \in Range(Tail(q))
    BY <1>1 DEF Range
  <1>2. i - 1 \in 1 .. Len(q) - 1 /\ (i - 1) + 1 = i
    BY <1>1
  <1> QED BY <1>1, <1>2 DEF Range

\* Steps that leave table and pipe alone.
LEMMA SameTable ==
  ASSUME UNCHANGED <<table, requests>>
  PROVE  \A r : Temp(r)' = Temp(r) /\ (Range(requests))' = Range(requests)
  BY DEF table, Temp, Entries

LEMMA EnterWaits ==
  ASSUME IInv, TempInv, LifeInv, Enter \/ HandOver
  PROVE  TempInv' /\ LifeInv'
  <1> USE Placed DEF PlaceType
  <1>1. CASE FindEntry
    <2>1. UNCHANGED <<table, requests>> /\ Entering /\ place["emu"] = "enter"
      BY <1>1 DEF FindEntry, Entering
    <2>2. place'["emu"] = "found" /\ place'["unit"] = place["unit"] /\ Entering'
      BY <1>1 DEF FindEntry, Entering, IInv, EnterInv, InTable, Entries
    <2> QED BY <1>1, <2>1, <2>2, SameTable DEF FindEntry, TempInv, LifeInv, UnderWay, bounds
  <1>2. CASE EnterRequest
    <2>1. /\ place["emu"] = "found" /\ Entering /\ Entering'
          /\ place' = [place EXCEPT !["emu"] = "type"]
          /\ d_request' = [d_request EXCEPT ![slot["emu"]] = cur["emu"]]
          /\ UNCHANGED <<d_request_type, requests, cur, slot, status, thread_running, bounds>>
      BY <1>2 DEF EnterRequest, Goes, Entering
    <2>2. \A r \in Request : Temp(r)' => Temp(r) \/ r = cur["emu"]
      BY <2>1 DEF Temp, Entries
    <2>3. TempInv'
      BY <2>1, <2>2 DEF TempInv, UnderWay
    <2> QED BY <2>1, <2>3 DEF LifeInv, bounds
  <1>3. CASE EnterType
    <2>1. /\ place["emu"] = "type" /\ Entering /\ Entering'
          /\ place' = [place EXCEPT !["emu"] = "entered"]
          /\ d_request_type' = [d_request_type EXCEPT ![slot["emu"]] = "temp"]
          /\ UNCHANGED <<d_request, requests, cur, slot, status, thread_running, bounds>>
      BY <1>3 DEF EnterType, Goes, Entering
    <2>2. d_request[slot["emu"]] \in {cur["emu"], None}
      BY <2>1 DEF TempInv
    <2>3. \A r \in Request : Temp(r)' => Temp(r) \/ r = cur["emu"]
      BY <2>1, <2>2 DEF Temp, Entries, IInv, TypeOK
    <2>4. TempInv'
      BY <2>1, <2>3 DEF TempInv, UnderWay
    <2> QED BY <2>1, <2>4 DEF LifeInv, bounds
  <1>4. CASE HandOver
    <2>1. /\ place["emu"] = "entered" /\ Entering /\ cur["emu"] \in Request
          /\ place' = [place EXCEPT !["emu"] = "amiga"]
          /\ cur' = [cur EXCEPT !["emu"] = None]
          /\ requests' = Append(requests, cur["emu"])
          /\ UNCHANGED <<table, thread_running, slot, status, bounds>>
      BY <1>4 DEF HandOver, Goes, Entering, IInv, PlaceInv
    <2>2. \A x : x \in Range(requests') <=> x \in Range(requests) \/ x = cur["emu"]
      BY <2>1, OnceAppend
    <2>3. \A r \in Request : Temp(r)' = Temp(r)
      BY <2>1 DEF table, Temp, Entries
    <2>4. TempInv'
      BY <2>1, <2>2, <2>3 DEF TempInv, UnderWay
    <2>5. LifeInv'
      BY <2>1, <2>2 DEF LifeInv, bounds
    <2> QED BY <2>4, <2>5
  <1> QED BY <1>1, <1>2, <1>3, <1>4 DEF Enter

\* A quick command was never entered.
LEMMA ReturnsWaits ==
  ASSUME IInv, TempInv, LifeInv, ReturnsAtOnce
  PROVE  TempInv' /\ LifeInv'
  <1> USE Placed DEF PlaceType
  <1>1. /\ UNCHANGED <<table, requests, thread_running, opened, closes>>
        /\ place["emu"] = "begin" /\ place'["emu"] = "amiga"
        /\ place'["unit"] = place["unit"] /\ cur'["unit"] = cur["unit"] /\ Entering
    BY DEF ReturnsAtOnce, Goes, Entering, bounds
  <1>2. cur["emu"] \in Request /\ status[cur["emu"]] = "device" /\ ~Temp(cur["emu"])
    BY <1>1 DEF IInv, PlaceInv, TypeOK, ClientInv, EnterInv, InTable, Temp, Entries
  <1>3. \A r \in Request : status'[r] = "client" \/ status[r] = "device"
    BY <1>2 DEF ReturnsAtOnce, IInv, TypeOK
  <1>4. TempInv'
    BY <1>1, <1>2, SameTable DEF TempInv, UnderWay
  <1>5. LifeInv'
    BY <1>1, <1>3 DEF LifeInv
  <1> QED BY <1>4, <1>5

LEMMA ReleaseWaits ==
  ASSUME IInv, TempInv, LifeInv, NEW t \in Thread, Release(t)
  PROVE  TempInv' /\ LifeInv'
  <1> USE Placed DEF PlaceType
  <1>1. /\ place[t] \in {"release", "drop", "clear"} /\ place'[t] \in {"drop", "clear", "released"}
        /\ \A u \in Thread : u # t => place'[u] = place[u]
        /\ UNCHANGED <<requests, thread_running, cur, status, bounds>>
    BY DEF Release, FindRelease, ReleaseRequest, ReleaseType, Goes
  <1>2. LifeInv'
    BY <1>1 DEF LifeInv, bounds
  <1>3. CASE ReleaseType(t)
    <2>1. /\ UNCHANGED <<d_request, slot>> /\ place[t] = "clear"
          /\ d_request_type' = [d_request_type EXCEPT ![slot[t]] = "none"]
      BY <1>3 DEF ReleaseType, Goes
    <2>2. \A r \in Request : Temp(r)' => Temp(r)
      BY <2>1 DEF Temp, Entries, IInv, TypeOK
    <2> QED BY <1>1, <1>2, <2>1, <2>2 DEF TempInv, UnderWay, Entering
  <1>4. CASE FindRelease(t)
    <2>1. /\ UNCHANGED table /\ place[t] = "release"
          /\ \A u \in Thread : u # t => slot'[u] = slot[u]
          /\ place'[t] # "drop" => Entries(cur[t]) = {}
      BY <1>4 DEF FindRelease
    <2>2. \A r \in Request : Temp(r)' = Temp(r)
      BY <2>1 DEF table, Temp, Entries
    <2>3. place'[t] # "drop" => ~Temp(cur[t])
      BY <2>1 DEF Temp
    <2> QED BY <1>1, <1>2, <2>1, <2>2, <2>3 DEF TempInv, UnderWay, Entering, Thread, table
  <1>5. CASE ReleaseRequest(t)
    <2>1. /\ place[t] = "drop" /\ UNCHANGED <<d_request_type, slot>>
          /\ d_request' = [d_request EXCEPT ![slot[t]] = None]
      BY <1>5 DEF ReleaseRequest, Goes
    <2>2. \A i \in Slot : d_request'[i] = IF i = slot[t] THEN None ELSE d_request[i]
      BY <2>1
    <2>3. \A r \in Request : Temp(r)' => Temp(r)
      BY <2>1, <2>2 DEF Temp, Entries
    <2>4. t = "unit" => ~Temp(cur["unit"])'
      <3>1. place["unit"] = "drop" => cur["unit"] \in Request
        BY DEF IInv, PlaceInv
      <3> QED BY <1>1, <2>1, <2>2, <3>1 DEF IInv, UnitInv, Temp, Entries
    <2> QED BY <1>1, <1>2, <2>1, <2>2, <2>3, <2>4 DEF TempInv, UnderWay, Entering, Thread
  <1> QED BY <1>3, <1>4, <1>5 DEF Release

LEMMA UnitWaits ==
  ASSUME IInv, TempInv, LifeInv, UnitReads \/ DoIO \/ Reply
  PROVE  TempInv' /\ LifeInv'
  <1> USE Placed DEF PlaceType
  <1>1. CASE UnitReads
    <2> DEFINE r == Head(requests)
    <2>1. /\ place["unit"] = "read" /\ requests # <<>> /\ requests' = Tail(requests)
          /\ place'["emu"] = place["emu"] /\ cur'["emu"] = cur["emu"]
          /\ UNCHANGED <<table, slot, status, bounds>>
          /\ r = Death => ~thread_running' /\ UNCHANGED <<place, cur>>
          /\ r # Death => /\ place'["unit"] = "io" /\ cur'["unit"] = r
                          /\ UNCHANGED thread_running
      BY <1>1 DEF UnitReads
    <2> HIDE DEF r
    <2>2. /\ r \in Range(requests)
          /\ \A x : x \in Range(requests') => x \in Range(requests)
          /\ \A x : x \in Range(requests) => x = r \/ x \in Range(requests')
      BY <2>1, OnceTail, TailKeeps DEF r
    <2>3. \A q \in Request : Temp(q)' = Temp(q)
      BY <2>1 DEF table, Temp, Entries
    <2>4. TempInv'
      BY <2>1, <2>2, <2>3 DEF TempInv, UnderWay, Entering, table
    <2>5. LifeInv'
      BY <2>1, <2>2 DEF LifeInv, bounds
    <2> QED BY <2>4, <2>5
  <1>2. CASE DoIO \/ Reply
    <2>1. /\ UNCHANGED <<table, requests, thread_running, slot, bounds>>
          /\ place'["emu"] = place["emu"] /\ cur'["emu"] = cur["emu"]
      BY <1>2 DEF DoIO, Reply, Goes
    <2>2. \/ place["unit"] = "io" /\ place'["unit"] = "release" /\ UNCHANGED cur
          \/ place["unit"] = "released"
      BY <1>2 DEF DoIO, Reply, Goes
    <2>3. \A r \in Request : status[r] = "client" => status'[r] = "client"
      BY <1>2 DEF DoIO, Reply, IInv, TypeOK
    <2>4. TempInv'
      BY <2>1, <2>2, SameTable DEF TempInv, UnderWay, Entering, table
    <2> QED BY <2>1, <2>3, <2>4 DEF LifeInv, bounds
  <1> QED BY <1>1, <1>2

\* What the emulation thread does besides entering and releasing.
LEMMA CallsWait ==
  ASSUME IInv, TempInv, LifeInv, Open \/ \E r \in Request : BeginIO(r) \/ AbortIO(r)
  PROVE  TempInv' /\ LifeInv'
  <1> USE Placed DEF PlaceType
  <1>1. /\ StartThread /\ place["emu"] = "amiga" /\ ~Entering
        /\ place'["emu"] \in {"amiga", "begin", "abortio"}
        /\ place'["unit"] = place["unit"] /\ cur'["unit"] = cur["unit"]
        /\ closes' = closes
    BY DEF BeginIO, AbortIO, Open, Goes, Entering, bounds, threads
  <1>2. /\ opened \/ Open
        /\ opened' /\ (Open => place'["emu"] = "amiga")
    BY DEF BeginIO, AbortIO, Open, Goes, LifeInv, bounds, threads
  <1>3. TempInv'
    BY <1>1, StartIs, SameTable, NoTemp DEF TempInv, UnderWay
  <1>4. LifeInv'
    BY <1>1, <1>2, StartIs DEF LifeInv
  <1> QED BY <1>3, <1>4

LEMMA MovesWait ==
  ASSUME IInv, TempInv, LifeInv,
         \/ BeginAsync \/ AbortBegins \/ AbortGoesOn \/ Released \/ Reset \/ ResetAborts
         \/ UNCHANGED vars
  PROVE  TempInv' /\ LifeInv'
  <1> USE Placed DEF PlaceType
  <1>1. CASE UNCHANGED vars
    BY <1>1 DEF vars, table, threads, bounds, TempInv, LifeInv, UnderWay, Temp, Entries, Entering
  <1>2. CASE ~UNCHANGED vars
    <2>1. /\ UNCHANGED <<table, requests, thread_running, slot, status, opened, closes>>
          /\ place["emu"] \in {"begin", "abortio", "abort", "released", "amiga", "reset"}
          /\ place'["emu"] \in {"enter", "abort", "release", "amiga", "reset"}
          /\ place'["unit"] = place["unit"] /\ cur'["unit"] = cur["unit"]
          /\ place["emu"] = "begin" => place'["emu"] = "enter" /\ UNCHANGED cur
          /\ (~opened /\ place["emu"] \in {"amiga", "reset"} => place'["emu"] = "reset")
      BY <1>2 DEF BeginAsync, AbortBegins, AbortGoesOn, Released, Reset, ResetAborts, Goes, bounds
    <2>2. TempInv'
      BY <2>1, SameTable DEF TempInv, UnderWay, Entering
    <2>3. LifeInv'
      BY <2>1 DEF LifeInv
    <2> QED BY <2>2, <2>3
  <1> QED BY <1>1, <1>2

LEMMA EndsWait ==
  ASSUME IInv, TempInv, LifeInv, ResetKills \/ Close \/ ResetEnds
  PROVE  TempInv' /\ LifeInv'
  <1> USE Placed DEF PlaceType
  <1>1. CASE ResetKills \/ Close
    <2>1. /\ UNCHANGED <<table, thread_running, cur, slot, status>>
          /\ place["emu"] \in {"amiga", "reset"} /\ place'["emu"] \in {"amiga", "kill"}
          /\ place'["unit"] = place["unit"]
          /\ \/ requests' = Append(requests, Death)
             \/ ~thread_running /\ UNCHANGED requests /\ ResetKills
      BY <1>1 DEF ResetKills, Close, Goes, threads
    <2>2. \A x : x \in Range(requests) => x \in Range(requests')
      <3>1. \A x : x \in Range(Append(requests, Death)) <=> x \in Range(requests) \/ x = Death
        BY OnceAppend
      <3> QED BY <2>1, <3>1
    <2>3. requests' = Append(requests, Death) => Death \in Range(requests')
      BY OnceAppend
    <2>4. \A r \in Request : Temp(r)' = Temp(r)
      BY <2>1 DEF table, Temp, Entries
    <2>5. TempInv'
      BY <2>1, <2>2, <2>4 DEF TempInv, UnderWay, Entering
    <2>6. CASE Close
      BY <2>1, <2>5, <2>6 DEF Close, LifeInv, IInv, TypeOK
    <2>7. CASE ResetKills
      <3>1. place'["emu"] = "kill" /\ UNCHANGED <<opened, closes>>
        BY <2>7 DEF ResetKills, Goes, bounds
      <3> QED BY <2>1, <2>3, <2>5, <3>1 DEF LifeInv
    <2> QED BY <1>1, <2>6, <2>7
  <1>2. CASE ResetEnds
    <2>1. /\ place'["emu"] = "amiga" /\ d_request' = Empty /\ requests' = <<>>
          /\ ~opened' /\ status' = [r \in Request |-> "client"]
      BY <1>2 DEF ResetEnds, Goes, Forget
    <2>2. Range(<<>>) = {}
      BY EmptySeq DEF Range
    <2> QED BY <2>1, <2>2, NoTemp DEF TempInv, LifeInv
  <1> QED BY <1>1, <1>2

LEMMA WaitsInvariance == Spec => [](TempInv /\ LifeInv)
  <1>1. Init => TempInv /\ LifeInv
    <2> SUFFICES ASSUME Init PROVE TempInv /\ LifeInv
      OBVIOUS
    <2>1. Range(<<>>) = {}
      BY EmptySeq DEF Range
    <2> QED BY <2>1, Names DEF Init, TempInv, LifeInv, Temp, Entries, Empty
  <1>2. IInv /\ TempInv /\ LifeInv /\ [Next]_vars => TempInv' /\ LifeInv'
    <2> SUFFICES ASSUME IInv, TempInv, LifeInv, [Next]_vars PROVE TempInv' /\ LifeInv'
      OBVIOUS
    <2>1. ASSUME NEW r \in Request, BeginIO(r) \/ AbortIO(r) PROVE TempInv' /\ LifeInv'
      BY <2>1, CallsWait
    <2>2. CASE Open
      BY <2>2, CallsWait
    <2>3. CASE Emulation
      BY <2>3, ReturnsWaits, EnterWaits, ReleaseWaits, MovesWait, EndsWait, Names DEF Emulation
    <2>4. CASE UnitThread
      BY <2>4, ReleaseWaits, UnitWaits, Names DEF UnitThread
    <2>5. CASE Close \/ Reset \/ UNCHANGED vars
      BY <2>5, MovesWait, EndsWait
    <2> QED BY <2>1, <2>2, <2>3, <2>4, <2>5 DEF Next
  <1> QED BY <1>1, <1>2, Invariance, PTL DEF Spec

UnitMoves == place["unit"] # "read" \/ (thread_running /\ requests # <<>>)
WaitsForUnit ==
  closes = 0 /\ \/ place["emu"] = "abort" /\ Temp(cur["emu"])
                \/ place["emu"] = "kill" /\ thread_running
    => UnitMoves

\* While the emulation thread waits, in abort_async or at the end of hardfile_reset, the thread
\* of a unit that no program has closed has a step to take, whatever programs abort and however
\* often there is a reset: the two never wait for each other.
THEOREM NeverBothWait == Spec => []WaitsForUnit
  <1>1. IInv /\ TempInv /\ LifeInv => WaitsForUnit
    <2> SUFFICES ASSUME IInv, TempInv, LifeInv, closes = 0, place["unit"] = "read",
                        \/ place["emu"] = "abort" /\ Temp(cur["emu"])
                        \/ place["emu"] = "kill" /\ thread_running
                 PROVE  thread_running /\ requests # <<>>
      BY DEF WaitsForUnit, UnitMoves
    <2>1. Range(<<>>) = {}
      BY EmptySeq DEF Range
    <2>2. CASE place["emu"] = "kill" /\ thread_running
      BY <2>1, <2>2 DEF LifeInv
    <2>3. CASE place["emu"] = "abort" /\ Temp(cur["emu"])
      <3>1. cur["emu"] \in Request
        BY <2>3, Placed DEF PlaceType, IInv, PlaceInv
      <3>2. UnderWay(cur["emu"])
        BY <2>3, <3>1 DEF TempInv
      <3> QED BY <2>1, <2>3, <3>2 DEF UnderWay, Entering, LifeInv
    <2> QED BY <2>2, <2>3
  <1> QED BY <1>1, Invariance, WaitsInvariance, PTL
-----------------------------------------------------------------------------
(* A request that the device has is being entered, in the pipe or with the *)
(* unit's thread, until it is replied to; nothing comes after the request  *)
(* that ends the thread.                                                   *)

Last(q) == \A i \in 1 .. Len(q) : q[i] = Death => i = Len(q)
Coming(r) == r \in Range(requests) \/ cur["unit"] = r \/ (Entering /\ cur["emu"] = r)

QueueInv == closes = 0 => /\ Last(requests)
                          /\ ~thread_running => requests = <<>>
                          /\ \A r \in Request : status[r] = "device" => Coming(r)

LEMMA LastAppend ==
  ASSUME NEW S, NEW q \in Seq(S), NEW e \in S, Death \notin Range(q)
  PROVE  Last(Append(q, e))
  <1>1. /\ Len(Append(q, e)) = Len(q) + 1 /\ Len(q) \in Nat /\ DOMAIN q = 1 .. Len(q)
        /\ \A i \in 1 .. Len(q) : Append(q, e)[i] = q[i]
    BY AppendProperties, LenProperties
  <1> HIDE DEF Append
  <1> QED BY <1>1 DEF Last, Range

LEMMA LastTail ==
  ASSUME NEW S, NEW q \in Seq(S), q # <<>>, Last(q)
  PROVE  Last(Tail(q)) /\ (Head(q) = Death => Tail(q) = <<>>)
  <1>1. /\ Len(Tail(q)) = Len(q) - 1 /\ Len(q) \in Nat \ {0} /\ Tail(q) \in Seq(S)
        /\ \A i \in 1 .. Len(q) - 1 : Tail(q)[i] = q[i + 1]
        /\ Head(q) = q[1] /\ (Len(Tail(q)) = 0 => Tail(q) = <<>>)
    BY HeadTailProperties, LenProperties, EmptySeq
  <1> HIDE DEF Tail, Head
  <1>2. 1 \in 1 .. Len(q) /\ \A i \in 1 .. Len(q) - 1 : i + 1 \in 1 .. Len(q)
    BY <1>1
  <1>3. Last(Tail(q))
    <2> SUFFICES ASSUME NEW i \in 1 .. Len(q) - 1, q[i + 1] = Death PROVE i = Len(q) - 1
      BY <1>1 DEF Last
    <2>1. i + 1 = Len(q)
      BY <1>2 DEF Last
    <2>2. i \in Int
      OBVIOUS
    <2> QED BY <2>1, <2>2
  <1>4. Head(q) = Death => Len(q) = 1
    BY <1>1, <1>2 DEF Last
  <1> QED BY <1>1, <1>3, <1>4

\* Steps that leave alone the pipe, what the device has, and the request being entered.
LEMMA QueueSame ==
  ASSUME QueueInv, UNCHANGED <<requests, thread_running, status, closes, cur["unit"]>>,
         Entering => Entering' /\ cur'["emu"] = cur["emu"]
  PROVE  QueueInv'
  BY DEF QueueInv, Coming

LEMMA MovesQueue ==
  ASSUME IInv, QueueInv,
         \/ BeginAsync \/ Enter \/ AbortBegins \/ AbortGoesOn \/ Released \/ Reset
         \/ ResetAborts \/ DoIO \/ UNCHANGED vars
         \/ \E t \in Thread : Release(t)
  PROVE  QueueInv'
  <1> USE Placed DEF PlaceType
  <1>1. CASE BeginAsync \/ Enter \/ DoIO
    BY <1>1, QueueSame
       DEF BeginAsync, Enter, FindEntry, EnterRequest, EnterType, DoIO, Goes, Entering, bounds
  <1>2. CASE \E t \in Thread : Release(t)
    <2>1. PICK t \in Thread : Release(t)
      BY <1>2
    <2>2. /\ UNCHANGED <<requests, thread_running, status, closes, cur>>
          /\ place[t] \in {"release", "drop", "clear"}
          /\ \A u \in Thread : u # t => place'[u] = place[u]
      BY <2>1 DEF Release, FindRelease, ReleaseRequest, ReleaseType, Goes, bounds
    <2>3. Entering => Entering'
      BY <2>2 DEF Entering
    <2> QED BY <2>2, <2>3, QueueSame
  <1>3. CASE AbortBegins \/ AbortGoesOn \/ Released \/ Reset \/ ResetAborts \/ UNCHANGED vars
    BY <1>3, QueueSame
       DEF AbortBegins, AbortGoesOn, Released, Reset, ResetAborts, Goes, Entering, bounds, threads,
           vars
  <1> QED BY <1>1, <1>2, <1>3

\* A request that is done at once is with its client again: nobody ended the thread.
LEMMA ReturnsQueue ==
  ASSUME IInv, LifeInv, QueueInv, ReturnsAtOnce
  PROVE  QueueInv'
  <1> USE Placed DEF PlaceType
  <1> SUFFICES ASSUME closes' = 0 PROVE QueueInv'
    BY DEF QueueInv
  <1>1. /\ closes = 0 /\ UNCHANGED <<requests, thread_running>> /\ cur'["unit"] = cur["unit"]
        /\ place["emu"] = "begin" /\ Entering /\ cur["emu"] \in Request
    BY DEF ReturnsAtOnce, Goes, Entering, bounds, IInv, PlaceInv
  <1>2. thread_running
    BY <1>1 DEF LifeInv
  <1>3. status' = [status EXCEPT ![cur["emu"]] = "client"]
    BY <1>2 DEF ReturnsAtOnce
  <1>4. \A r \in Request : status'[r] = "device" => status[r] = "device" /\ r # cur["emu"]
    BY <1>1, <1>3 DEF IInv, TypeOK
  <1> QED BY <1>1, <1>4 DEF QueueInv, Coming

\* A new thread, which finds an empty pipe, finds it as it was left.
LEMMA CallsQueue ==
  ASSUME IInv, QueueInv, Open \/ \E r \in Request : BeginIO(r) \/ AbortIO(r)
  PROVE  QueueInv'
  <1> USE Placed DEF PlaceType
  <1> SUFFICES ASSUME closes' = 0 PROVE QueueInv'
    BY DEF QueueInv
  <1>1. /\ StartThread /\ closes = 0 /\ ~Entering /\ cur'["unit"] = cur["unit"]
    BY DEF BeginIO, AbortIO, Open, Goes, Entering, bounds, threads
  <1>2. requests' = requests /\ thread_running'
    BY <1>1 DEF StartThread, Forget, QueueInv
  <1>3. \A r \in Request :
          status'[r] = "device" => status[r] = "device" \/ (Entering' /\ cur'["emu"] = r)
    <2>1. CASE Open \/ \E r \in Request : AbortIO(r)
      BY <2>1 DEF Open, AbortIO
    <2>2. ASSUME NEW r \in Request, BeginIO(r)
          PROVE  /\ Entering' /\ cur'["emu"] = r
                 /\ \A q \in Request : q # r => status'[q] = status[q]
      BY <2>2 DEF BeginIO, Goes, Entering, IInv, TypeOK
    <2> QED BY <2>1, <2>2
  <1> QED BY <1>1, <1>2, <1>3 DEF QueueInv, Coming

\* What the emulation thread writes comes last, ...
LEMMA WritesQueue ==
  ASSUME IInv, LifeInv, QueueInv, HandOver \/ ResetKills
  PROVE  QueueInv'
  <1> USE Placed DEF PlaceType
  <1> SUFFICES ASSUME closes' = 0 PROVE QueueInv'
    BY DEF QueueInv
  <1>1. /\ closes = 0 /\ UNCHANGED <<thread_running, status>> /\ cur'["unit"] = cur["unit"]
        /\ place["emu"] # "kill"
    BY DEF HandOver, ResetKills, Goes, bounds
  <1>2. Death \notin Range(requests)
    BY <1>1 DEF LifeInv
  <1>3. CASE HandOver
    <2>1. /\ Entering /\ cur["emu"] \in Request /\ requests' = Append(requests, cur["emu"])
      BY <1>3 DEF HandOver, Goes, Entering, IInv, PlaceInv
    <2>2. opened /\ thread_running
      BY <1>1, <2>1 DEF LifeInv, Entering
    <2>3. /\ Last(requests')
          /\ \A x : x \in Range(requests') <=> x \in Range(requests) \/ x = cur["emu"]
      BY <1>2, <2>1, LastAppend, OnceAppend
    <2> QED BY <1>1, <2>2, <2>3 DEF QueueInv, Coming
  <1>4. CASE ResetKills
    <2>1. /\ ~Entering /\ UNCHANGED cur
          /\ IF thread_running THEN requests' = Append(requests, Death)
                               ELSE UNCHANGED requests
      BY <1>4 DEF ResetKills, Goes, Entering
    <2>2. CASE thread_running
      <3>1. /\ Last(Append(requests, Death))
            /\ \A x : x \in Range(Append(requests, Death)) <=> x \in Range(requests) \/ x = Death
        BY <1>2, LastAppend, OnceAppend
      <3> QED BY <1>1, <2>1, <2>2, <3>1 DEF QueueInv, Coming
    <2>3. CASE ~thread_running
      BY <1>1, <2>1, <2>3 DEF QueueInv, Coming
    <2> QED BY <2>2, <2>3
  <1> QED BY <1>3, <1>4

\* ... and the thread of the unit takes what comes first.
LEMMA UnitQueue ==
  ASSUME IInv, QueueInv, UnitReads \/ Reply
  PROVE  QueueInv'
  <1> USE Placed DEF PlaceType
  <1> SUFFICES ASSUME closes' = 0 PROVE QueueInv'
    BY DEF QueueInv
  <1>1. /\ closes = 0 /\ UNCHANGED <<place["emu"], cur["emu"]>>
    BY DEF UnitReads, Reply, Goes, bounds
  <1>2. CASE UnitReads
    <2> DEFINE e == Head(requests)
    <2>1. /\ place["unit"] = "read" /\ cur["unit"] = None
          /\ requests # <<>> /\ requests' = Tail(requests) /\ UNCHANGED status
          /\ thread_running
          /\ IF e = Death THEN UNCHANGED cur
                          ELSE cur'["unit"] = e /\ thread_running'
      BY <1>2 DEF UnitReads, IInv, PlaceInv
    <2> HIDE DEF e
    <2>2. /\ Last(requests') /\ (e = Death => requests' = <<>>)
          /\ \A x : x \in Range(requests) => x = e \/ x \in Range(requests')
      BY <1>1, <2>1, LastTail, TailKeeps DEF QueueInv, e
    <2>3. \A r \in Request : Coming(r) => Coming(r)'
      BY <1>1, <2>1, <2>2, Names DEF Coming, Entering
    <2> QED BY <1>1, <2>1, <2>2, <2>3 DEF QueueInv
  <1>3. CASE Reply
    <2>1. /\ UNCHANGED <<requests, thread_running>> /\ cur["unit"] \in Request
          /\ status' = [status EXCEPT ![cur["unit"]] = "client"]
      BY <1>3 DEF Reply, Goes, IInv, PlaceInv
    <2>2. \A r \in Request : status'[r] = "device" => status[r] = "device" /\ r # cur["unit"]
      BY <2>1 DEF IInv, TypeOK
    <2> QED BY <1>1, <2>1, <2>2 DEF QueueInv, Coming, Entering
  <1> QED BY <1>2, <1>3

LEMMA QueueInvariance == Spec => []QueueInv
  <1>1. Init => QueueInv
    BY DEF Init, QueueInv, Last
  <1>2. IInv /\ LifeInv /\ QueueInv /\ [Next]_vars => QueueInv'
    <2> SUFFICES ASSUME IInv, LifeInv, QueueInv, [Next]_vars PROVE QueueInv'
      OBVIOUS
    <2>1. ASSUME NEW r \in Request, BeginIO(r) \/ AbortIO(r) PROVE QueueInv'
      BY <2>1, CallsQueue
    <2>2. CASE Open
      BY <2>2, CallsQueue
    <2>3. CASE Close
      <3>1. closes' = closes + 1 /\ closes \in Nat
        BY <2>3, HardfileAssumption DEF Close, IInv, TypeOK
      <3> QED BY <3>1 DEF QueueInv
    <2>4. CASE ResetEnds
      <3>1. requests' = <<>> /\ status' = [r \in Request |-> "client"]
        BY <2>4 DEF ResetEnds, Forget
      <3>2. Last(<<>>)
        BY DEF Last
      <3> QED BY <3>1, <3>2 DEF QueueInv
    <2>5. CASE Emulation /\ ~ResetEnds
      BY <2>5, ReturnsQueue, MovesQueue, WritesQueue, Names DEF Emulation
    <2>6. CASE UnitThread
      BY <2>6, MovesQueue, UnitQueue, Names DEF UnitThread
    <2>7. CASE Reset \/ UNCHANGED vars
      BY <2>7, MovesQueue
    <2> QED BY <2>1, <2>2, <2>3, <2>4, <2>5, <2>6, <2>7 DEF Next
  <1> QED BY <1>1, <1>2, Invariance, WaitsInvariance, PTL DEF Spec

NoneLost == closes = 0 => \A r \in Request :
                            status[r] = "device" => Coming(r) /\ (Entering \/ UnitMoves)

\* Until its unit is closed a request that was not replied to is on its way to the thread of the
\* unit or with it, aborted or not, and the thread, unless the request is just being entered,
\* has a step to take: no abort, reset or end of the thread leaves a request without an answer.
THEOREM NoneForgotten == Spec => []NoneLost
  <1>1. ASSUME IInv, QueueInv, closes = 0, NEW r \in Request, status[r] = "device", ~Entering
        PROVE  Coming(r) /\ UnitMoves
    <2>1. Coming(r)
      BY <1>1 DEF QueueInv
    <2>2. CASE r \in Range(requests)
      <3>1. requests # <<>>
        BY <2>2, EmptySeq DEF Range
      <3> QED BY <1>1, <2>1, <3>1 DEF QueueInv, UnitMoves
    <2>3. CASE cur["unit"] = r
      BY <2>1, <2>3, <1>1, Names DEF IInv, PlaceInv, UnitMoves
    <2> QED BY <1>1, <2>1, <2>2, <2>3 DEF Coming
  <1>2. IInv /\ QueueInv => NoneLost
    BY <1>1 DEF NoneLost, QueueInv
  <1> QED BY <1>2, Invariance, QueueInvariance, PTL
=============================================================================
