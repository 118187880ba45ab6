---------------------------- MODULE KeyBufProofs ----------------------------
(***************************************************************************)
(* Proofs about KeyBuf, for every size of the ring, all sets of keys and   *)
(* any number of pastes and purges.  Types hold whoever records.  The rest *)
(* holds where one thread records in a session, which is what Single says. *)
(***************************************************************************)
EXTENDS KeyBuf, SequenceTheorems, TLAPS

Slot == 0 .. Size - 1
Nth(k) == keybuf[(kpb_last + k - 1) % Size]

Single == Writer \notin Recorders
-----------------------------------------------------------------------------
(* Arithmetic of the ring. *)

LEMMA SizePositive == Size \in Nat \ {0} /\ Size > 1
  BY KeyBufAssumption, SMT

LEMMA ModSmall == ASSUME NEW n \in Nat \ {0}, NEW x \in 0 .. n - 1
                  PROVE  x % n = x
  BY SMT

LEMMA ModWrap == ASSUME NEW n \in Nat \ {0}, NEW x \in n .. 2 * n - 1
                 PROVE  x % n = x - n
  BY SMT

LEMMA WrapsToIs == ASSUME NEW p \in Slot
                   PROVE  /\ WrapsTo(p) = (IF p = Size - 1 THEN 0 ELSE p + 1)
                          /\ WrapsTo(p) \in Slot /\ WrapsTo(p) # p
  BY SizePositive, SMT DEF Slot, WrapsTo

LEMMA DistanceIs ==
  ASSUME NEW l \in Slot, NEW f \in Slot
  PROVE  (f + Size - l) % Size = (IF l <= f THEN f - l ELSE f - l + Size)
  <1>1. CASE l <= f
    BY <1>1, SizePositive, ModWrap, SMT DEF Slot
  <1>2. CASE ~(l <= f)
    BY <1>2, SizePositive, ModSmall, SMT DEF Slot
  <1> QED BY <1>1, <1>2

LEMMA PlaceIs == ASSUME NEW l \in Slot, NEW k \in 1 .. Size
                 PROVE  (l + k - 1) % Size = (IF l + k - 1 < Size THEN l + k - 1
                                              ELSE l + k - 1 - Size)
  <1>1. CASE l + k - 1 < Size
    BY <1>1, SizePositive, ModSmall, SMT DEF Slot
  <1>2. CASE ~(l + k - 1 < Size)
    BY <1>2, SizePositive, ModWrap, SMT DEF Slot
  <1> QED BY <1>1, <1>2

\* What the two indices say of the number of keys.
LEMMA LengthFacts == ASSUME kpb_first \in Slot, kpb_last \in Slot
                     PROVE  /\ Length \in 0 .. Size - 1
                            /\ Length = 0 <=> kpb_first = kpb_last
                            /\ Length = Size - 1 <=> WrapsTo(kpb_first) = kpb_last
  <1>1. Length = (IF kpb_last <= kpb_first THEN kpb_first - kpb_last
                  ELSE kpb_first - kpb_last + Size)
    BY DistanceIs DEF Length
  <1>2. WrapsTo(kpb_first) = (IF kpb_first = Size - 1 THEN 0 ELSE kpb_first + 1)
    BY WrapsToIs
  <1> QED BY <1>1, <1>2, SizePositive, SMT DEF Slot

\* The slot that is written is none of those that are still to be read.
LEMMA FreeSlot ==
  ASSUME kpb_first \in Slot, kpb_last \in Slot, NEW k \in 1 .. Length
  PROVE  (kpb_last + k - 1) % Size \in Slot \ {kpb_first}
  <1>1. k \in 1 .. Size
    BY LengthFacts, SizePositive, SMT
  <1>2. (kpb_last + k - 1) % Size = (IF kpb_last + k - 1 < Size THEN kpb_last + k - 1
                                     ELSE kpb_last + k - 1 - Size)
    BY <1>1, PlaceIs
  <1>3. Length = (IF kpb_last <= kpb_first THEN kpb_first - kpb_last
                  ELSE kpb_first - kpb_last + Size)
    BY DistanceIs DEF Length
  <1> QED BY <1>1, <1>2, <1>3, SizePositive, SMT DEF Slot

LEMMA StoreRing ==
  ASSUME keybuf \in [Slot -> Stroke \cup {NoCode}], kpb_first \in Slot, kpb_last \in Slot,
         NEW c, keybuf' = [keybuf EXCEPT ![kpb_first] = c], UNCHANGED <<kpb_first, kpb_last>>
  PROVE  Length' = Length /\ \A k \in 1 .. Length : Nth(k)' = Nth(k)
  BY FreeSlot DEF Length, Nth

\* To publish is to add the key in the free slot at the end.
LEMMA PublishRing ==
  ASSUME kpb_first \in Slot, kpb_last \in Slot, WrapsTo(kpb_first) # kpb_last,
         kpb_first' = WrapsTo(kpb_first), UNCHANGED <<kpb_last, keybuf>>
  PROVE  /\ kpb_first' \in Slot /\ kpb_first' # kpb_last'
         /\ Length' = Length + 1 /\ Length \in 0 .. Size - 2
         /\ Nth(Length)' = keybuf[kpb_first]
         /\ \A k \in 1 .. Length : Nth(k)' = Nth(k)
  <1>1. kpb_first' \in Slot /\ Length \in 0 .. Size - 2
    BY WrapsToIs, LengthFacts, SizePositive, SMT
  <1>2. /\ Length' = (IF kpb_last <= kpb_first' THEN kpb_first' - kpb_last
                      ELSE kpb_first' - kpb_last + Size)
        /\ Length = (IF kpb_last <= kpb_first THEN kpb_first - kpb_last
                     ELSE kpb_first - kpb_last + Size)
        /\ kpb_first' = (IF kpb_first = Size - 1 THEN 0 ELSE kpb_first + 1)
    <2>1. Length' = (kpb_first' + Size - kpb_last) % Size
      BY DEF Length
    <2> QED BY <1>1, <2>1, DistanceIs, WrapsToIs DEF Length
  <1>3. Length' = Length + 1
    BY <1>1, <1>2, SizePositive, SMT DEF Slot
  <1>4. (kpb_last + (Length + 1) - 1) % Size = kpb_first
    <2>1. Length + 1 \in 1 .. Size
      BY <1>1, SizePositive, SMT
    <2> HIDE DEF Length
    <2>2. (kpb_last + (Length + 1) - 1) % Size
            = (IF kpb_last + (Length + 1) - 1 < Size THEN kpb_last + (Length + 1) - 1
               ELSE kpb_last + (Length + 1) - 1 - Size)
      BY <2>1, PlaceIs
    <2> QED BY <1>1, <1>2, <2>2, SizePositive, SMT DEF Slot
  <1>5. Nth(Length)' = keybuf[kpb_first]
    <2>1. Nth(Length)' = keybuf[(kpb_last + Length' - 1) % Size]
      BY DEF Nth
    <2> QED BY <1>3, <1>4, <2>1
  <1>6. \A k \in 1 .. Length : Nth(k)' = Nth(k)
    BY DEF Nth
  <1> QED BY <1>1, <1>3, <1>5, <1>6

\* A take from a ring that holds something removes the oldest key.
LEMMA TakeRing ==
  ASSUME kpb_first \in Slot, kpb_last \in Slot, kpb_first # kpb_last,
         kpb_last' = WrapsTo(kpb_last), UNCHANGED <<kpb_first, keybuf>>
  PROVE  /\ kpb_last' \in Slot
         /\ Length' = Length - 1 /\ Length \in 1 .. Size - 1
         /\ keybuf[kpb_last] = Nth(1)
         /\ \A k \in 1 .. Length - 1 : Nth(k)' = Nth(k + 1)
  <1>1. kpb_last' \in Slot /\ Length \in 1 .. Size - 1
    BY WrapsToIs, LengthFacts, SizePositive, SMT
  <1>2. /\ Length' = (IF kpb_last' <= kpb_first THEN kpb_first - kpb_last'
                      ELSE kpb_first - kpb_last' + Size)
        /\ Length = (IF kpb_last <= kpb_first THEN kpb_first - kpb_last
                     ELSE kpb_first - kpb_last + Size)
        /\ kpb_last' = (IF kpb_last = Size - 1 THEN 0 ELSE kpb_last + 1)
    <2>1. Length' = (kpb_first + Size - kpb_last') % Size
      BY DEF Length
    <2> QED BY <1>1, <2>1, DistanceIs, WrapsToIs DEF Length
  <1>3. Length' = Length - 1
    BY <1>1, <1>2, SizePositive, SMT DEF Slot
  <1>4. (kpb_last + 1 - 1) % Size = kpb_last
    BY PlaceIs, SizePositive, SMT DEF Slot
  <1>5. \A k \in 1 .. Length - 1 : (kpb_last' + k - 1) % Size = (kpb_last + (k + 1) - 1) % Size
    <2> SUFFICES ASSUME NEW k \in 1 .. Length - 1
                 PROVE  (kpb_last' + k - 1) % Size = (kpb_last + (k + 1) - 1) % Size
      OBVIOUS
    <2>1. k \in 1 .. Size /\ k + 1 \in 1 .. Size
      BY <1>1, SizePositive, SMT
    <2>2. (kpb_last' + k - 1) % Size
            = (IF kpb_last' + k - 1 < Size THEN kpb_last' + k - 1 ELSE kpb_last' + k - 1 - Size)
      BY <1>1, <2>1, PlaceIs
    <2>3. (kpb_last + (k + 1) - 1) % Size
            = (IF kpb_last + (k + 1) - 1 < Size THEN kpb_last + (k + 1) - 1
               ELSE kpb_last + (k + 1) - 1 - Size)
      BY <2>1, PlaceIs
    <2> QED BY <1>1, <1>2, <2>1, <2>2, <2>3, SizePositive, SMT DEF Slot
  <1> QED BY <1>1, <1>3, <1>4, <1>5 DEF Nth
-----------------------------------------------------------------------------
(* Types, whoever records. *)

\* The key that was pressed last is known when it is to be released.
TypeInv == TypeOK /\ (keyinject_state => keyinject_previous \in Char)

LEMMA TabulatedSeq == ASSUME NEW S, NEW n \in Nat, NEW f \in [1 .. n -> S]
                      PROVE  f \in Seq(S) /\ Len(f) = n
  BY SMT

LEMMA StrokeIs ==
  /\ \A k \in Char \cup {"shift"} \cup HostKey \cup ConsoleKey : \A up \in BOOLEAN : Key(k, up) \in Stroke
  /\ \A c \in Stroke : /\ c = Key(c.key, c.up) /\ c.up \in BOOLEAN
                       /\ c.key \in Char \cup {"shift"} \cup HostKey \cup ConsoleKey
  /\ NoCode \notin Stroke
  /\ \A k : \A up : Key(k, up).key = k /\ Key(k, up).up = up
  <1>1. \A k : \A up : Key(k, up).key = k /\ Key(k, up).up = up
    BY DEF Key
  <1>2. NoCode.key = "none"
    BY DEF NoCode, Key
  <1> QED BY <1>1, <1>2, KeyNames DEF Stroke

LEMMA ScancodesType ==
  ASSUME NEW c \in Char, NEW up \in BOOLEAN
  PROVE  /\ Scancodes(c, up) \in Seq(Stroke) /\ Len(Scancodes(c, up)) <= 2
         /\ \A i \in 1 .. Len(Scancodes(c, up)) :
              /\ Scancodes(c, up)[i].up = up
              /\ Scancodes(c, up)[i].key \in {c} \cup (IF c \in Shifted THEN {"shift"} ELSE {})
         /\ \A k \in {c} \cup (IF c \in Shifted THEN {"shift"} ELSE {}) :
              \E i \in 1 .. Len(Scancodes(c, up)) : Scancodes(c, up)[i].key = k
  <1>1. Key(c, up) \in Stroke /\ Key("shift", up) \in Stroke
    BY StrokeIs
  <1>2. /\ Key(c, up).key = c /\ Key(c, up).up = up
        /\ Key("shift", up).key = "shift" /\ Key("shift", up).up = up
    BY StrokeIs
  <1>3. CASE c \notin Shifted
    <2> DEFINE a == Key(c, up)
    <2>1. Scancodes(c, up) = <<a>>
      BY <1>3 DEF Scancodes
    <2>2. a \in Stroke /\ a.key = c /\ a.up = up
      BY <1>1, <1>2
    <2> HIDE DEF a
    <2> QED BY <1>3, <2>1, <2>2, SMT
  <1>4. CASE c \in Shifted /\ up
    <2> DEFINE a == Key(c, up)
               b == Key("shift", up)
    <2>1. Scancodes(c, up) = <<a, b>>
      BY <1>4 DEF Scancodes
    <2>2. a \in Stroke /\ a.key = c /\ a.up = up /\ b \in Stroke /\ b.key = "shift" /\ b.up = up
      BY <1>1, <1>2
    <2> HIDE DEF a, b
    <2>3. <<a, b>> \in Seq(Stroke) /\ Len(<<a, b>>) = 2 /\ <<a, b>>[1] = a /\ <<a, b>>[2] = b
      BY <2>2, SMT
    <2>4. \A i \in 1 .. 2 : <<a, b>>[i].up = up /\ <<a, b>>[i].key \in {c, "shift"}
      <3>1. \A i \in 1 .. 2 : i = 1 \/ i = 2
        BY SMT
      <3> QED BY <2>2, <2>3, <3>1
    <2>5. \A k \in {c, "shift"} : \E i \in 1 .. 2 : <<a, b>>[i].key = k
      <3>1. 1 \in 1 .. 2 /\ 2 \in 1 .. 2
        BY SMT
      <3> QED BY <2>2, <2>3, <3>1
    <2>6. 2 \in 1 .. 2 /\ {c} \cup (IF c \in Shifted THEN {"shift"} ELSE {}) = {c, "shift"}
      BY <1>4, SMT
    <2> QED BY <2>1, <2>3, <2>4, <2>5, <2>6
  <1>5. CASE c \in Shifted /\ ~up
    <2> DEFINE a == Key("shift", up)
               b == Key(c, up)
    <2>1. Scancodes(c, up) = <<a, b>>
      BY <1>5 DEF Scancodes
    <2>2. a \in Stroke /\ a.key = "shift" /\ a.up = up /\ b \in Stroke /\ b.key = c /\ b.up = up
      BY <1>1, <1>2
    <2> HIDE DEF a, b
    <2>3. <<a, b>> \in Seq(Stroke) /\ Len(<<a, b>>) = 2 /\ <<a, b>>[1] = a /\ <<a, b>>[2] = b
      BY <2>2, SMT
    <2>4. \A i \in 1 .. 2 : <<a, b>>[i].up = up /\ <<a, b>>[i].key \in {c, "shift"}
      <3>1. \A i \in 1 .. 2 : i = 1 \/ i = 2
        BY SMT
      <3> QED BY <2>2, <2>3, <3>1
    <2>5. \A k \in {c, "shift"} : \E i \in 1 .. 2 : <<a, b>>[i].key = k
      <3>1. 1 \in 1 .. 2 /\ 2 \in 1 .. 2
        BY SMT
      <3> QED BY <2>2, <2>3, <3>1
    <2>6. 2 \in 1 .. 2 /\ {c} \cup (IF c \in Shifted THEN {"shift"} ELSE {}) = {c, "shift"}
      BY <1>5, SMT
    <2> QED BY <2>1, <2>3, <2>4, <2>5, <2>6
  <1> QED BY <1>3, <1>4, <1>5

WriterType == [at : {"idle", "test", "store", "publish"}, code : Stroke \cup {NoCode}, next : Slot]

LEMMA RecordType ==
  ASSUME TypeOK, NEW t \in Writer, NEW c \in Stroke, Record(t, c)
  PROVE  writer' \in [Writer -> WriterType]
  <1>1. WrapsTo(kpb_first) \in Slot
    BY WrapsToIs DEF TypeOK, Slot
  <1>2. [at |-> "test", code |-> c, next |-> WrapsTo(kpb_first)] \in WriterType
    BY <1>1 DEF WriterType
  <1>3. writer \in [Writer -> WriterType]
    BY DEF TypeOK, WriterType, Slot
  <1> QED BY <1>2, <1>3 DEF Record

LEMMA TypesKept == TypeInv /\ [Next]_vars => TypeInv'
  <1> SUFFICES ASSUME TypeInv, [Next]_vars PROVE TypeInv'
    OBVIOUS
  <1> USE DEF TypeInv
  <1>1. writer \in [Writer -> WriterType] /\ Idle \in WriterType
    <2>1. 0 \in Slot
      BY SizePositive, SMT DEF Slot
    <2> QED BY <2>1 DEF TypeOK, WriterType, Slot, Idle
  <1>2. CASE HostRecords
    <2>1. PICK k \in HostKey : Record("emu", Key(k, FALSE))
      BY <1>2 DEF HostRecords
    <2>2. writer' \in [Writer -> WriterType]
      BY <2>1, StrokeIs, RecordType DEF Writer
    <2> QED BY <1>2, <2>2 DEF HostRecords, TypeOK, ring, inject, user, WriterType, Slot
  <1>3. CASE ConsoleRecords
    <2>1. PICK k \in ConsoleKey : Record("con", Key(k, FALSE))
      BY <1>3 DEF ConsoleRecords
    <2>2. writer' \in [Writer -> WriterType]
      BY <2>1, StrokeIs, RecordType DEF Writer
    <2> QED BY <1>3, <2>2 DEF ConsoleRecords, TypeOK, ring, inject, user, WriterType, Slot
  <1>4. ASSUME NEW t \in Writer, Test(t) PROVE TypeInv'
    <2>1. [writer[t] EXCEPT !.at = "store"] \in WriterType
      BY <1>1 DEF WriterType
    <2>2. writer' \in [Writer -> WriterType] /\ lost' \in BOOLEAN
      BY <1>1, <1>4, <2>1 DEF Test, TypeOK
    <2> QED BY <1>4, <2>2 DEF Test, TypeOK, ring, inject, user, WriterType, Slot
  <1>5. ASSUME NEW t \in Writer, Store(t) PROVE TypeInv'
    <2>1. [writer[t] EXCEPT !.at = "publish"] \in WriterType /\ writer[t].code \in Stroke \cup {NoCode}
      BY <1>1 DEF WriterType
    <2>2. writer' \in [Writer -> WriterType]
      BY <1>1, <1>5, <2>1 DEF Store
    <2>3. keybuf' \in [0 .. Size - 1 -> Stroke \cup {NoCode}]
      BY <1>5, <2>1 DEF Store, TypeOK
    <2> QED BY <1>5, <2>2, <2>3 DEF Store, TypeOK, inject, user, WriterType, Slot
  <1>6. ASSUME NEW t \in Writer, Publish(t) PROVE TypeInv'
    <2>1. writer' \in [Writer -> WriterType] /\ kpb_first' \in 0 .. Size - 1
      BY <1>1, <1>6 DEF Publish, WriterType, Slot
    <2> QED BY <1>6, <2>1 DEF Publish, TypeOK, inject, user, WriterType, Slot
  <1>7. ASSUME NEW sameLine \in BOOLEAN, NEW take \in BOOLEAN, Poll(sameLine, take) PROVE TypeInv'
    <2>1. cnt' \in 0 .. 3
      <3>1. cnt \in 0 .. 3
        BY DEF TypeOK
      <3>2. (cnt + 1) % 4 \in 0 .. 3
        BY <3>1, SMT
      <3> QED BY <1>7, <3>1, <3>2 DEF Poll
    <2>2. keyinject_do' \in BOOLEAN /\ reader' \in {"run", "get"}
      BY <1>7 DEF Poll
    <2> QED BY <1>7, <2>1, <2>2 DEF Poll, TypeOK, ring, user
  <1>8. CASE Get
    <2>1. Pressed => Head(keyinject) \in Char /\ Tail(keyinject) \in Seq(Char) /\ Len(Tail(keyinject)) <= 2
      <3> SUFFICES ASSUME Pressed
                   PROVE  Head(keyinject) \in Char /\ Tail(keyinject) \in Seq(Char) /\ Len(Tail(keyinject)) <= 2
        OBVIOUS
      <3>1. keyinject # <<>> /\ keyinject \in Seq(Char) /\ Len(keyinject) <= 2
        BY DEF Pressed, TypeOK
      <3> QED BY <3>1, SMT
    <2>2. todo' \in Seq(Stroke) /\ Len(todo') <= 2
      <3>1. CASE Pressed
        <4>1. PICK c \in Char : c = Head(keyinject)
          BY <2>1, <3>1
        <4>2. todo' = Scancodes(c, FALSE)
          BY <1>8, <3>1, <4>1 DEF Get
        <4>3. Scancodes(c, FALSE) \in Seq(Stroke) /\ Len(Scancodes(c, FALSE)) <= 2
          BY ScancodesType
        <4> QED BY <4>2, <4>3
      <3>2. CASE ~Pressed /\ Released
        <4>1. keyinject_previous \in Char
          BY <3>2 DEF Released
        <4>2. todo' = Scancodes(keyinject_previous, TRUE)
          BY <1>8, <3>2 DEF Get
        <4>3. /\ Scancodes(keyinject_previous, TRUE) \in Seq(Stroke)
              /\ Len(Scancodes(keyinject_previous, TRUE)) <= 2
          BY <4>1, ScancodesType
        <4> QED BY <4>2, <4>3
      <3>3. CASE ~Pressed /\ ~Released
        BY <1>8, <3>3, SMT DEF Get
      <3> QED BY <3>1, <3>2, <3>3
    <2>3. /\ keyinject' \in Seq(Char) /\ Len(keyinject') <= 2
          /\ keyinject_previous' \in Char \cup {"none"}
          /\ keyinject_state' \in BOOLEAN /\ keyinject_do' \in BOOLEAN
          /\ keyinject_state' => keyinject_previous' \in Char
      BY <1>8, <2>1 DEF Get, TypeOK, Pressed
    <2> QED BY <1>8, <2>2, <2>3 DEF Get, TypeOK, ring, user
  <1>9. CASE InjectNext
    <2>1. todo \in Seq(Stroke) /\ todo # <<>> /\ Len(todo) <= 2
      BY <1>9 DEF InjectNext, TypeOK
    <2>2. Head(todo) \in Stroke /\ Tail(todo) \in Seq(Stroke) /\ Len(Tail(todo)) <= 2
      BY <2>1, SMT
    <2>3. writer' \in [Writer -> WriterType] /\ lost' \in BOOLEAN
      <3>1. CASE paused
        BY <1>1, <1>9, <3>1 DEF InjectNext
      <3>2. CASE ~paused
        BY <1>9, <2>2, <3>2, RecordType DEF InjectNext, Writer, TypeOK
      <3> QED BY <3>1, <3>2
    <2> QED BY <1>9, <2>2, <2>3 DEF InjectNext, TypeOK, ring, inject, user, WriterType, Slot
  <1>10. CASE AssertFails
    BY <1>10 DEF AssertFails, TypeOK, ring, inject, user
  <1>11. CASE Take
    <2>1. kpb_last' \in 0 .. Size - 1
      BY <1>11, WrapsToIs DEF Take, TypeOK, Slot
    <2>2. down' \subseteq Char \cup {"shift"}
      BY <1>11 DEF Take, TypeOK
    <2> QED BY <1>11, <2>1, <2>2 DEF Take, TypeOK, inject, user
  <1>12. CASE Paste
    <2>1. PICK s \in TupleOf(Char, 2) \cup TupleOf(Char, 1) : keyinject' = s
      BY <1>12 DEF Paste
    <2>2. s \in [1 .. 2 -> Char] \/ s \in [1 .. 1 -> Char]
      BY <2>1 DEF TupleOf
    <2>20. s \in Seq(Char) /\ Len(s) <= 2
      <3>1. CASE s \in [1 .. 2 -> Char]
        <4>1. 2 \in Nat /\ 2 <= 2
          BY SMT
        <4>2. s \in Seq(Char) /\ Len(s) = 2
          BY <3>1, <4>1, TabulatedSeq
        <4> QED BY <4>1, <4>2
      <3>2. CASE s \in [1 .. 1 -> Char]
        <4>1. 1 \in Nat /\ 1 <= 2
          BY SMT
        <4>2. s \in Seq(Char) /\ Len(s) = 1
          BY <3>2, <4>1, TabulatedSeq
        <4> QED BY <4>1, <4>2
      <3> QED BY <2>2, <3>1, <3>2
    <2>3. pastes' \in 0 .. Pastes
      BY <1>12, KeyBufAssumption, SMT DEF Paste, TypeOK
    <2> QED BY <1>12, <2>1, <2>20, <2>3 DEF Paste, TypeOK, ring
  <1>13. CASE KeybufInit
    <2>1. purges' \in 0 .. Purges
      BY <1>13, KeyBufAssumption, SMT DEF KeybufInit, TypeOK
    <2>2. keyinject' \in Seq(Char) /\ Len(keyinject') <= 2
      BY <1>13, SMT DEF KeybufInit
    <2>3. 0 \in 0 .. Size - 1
      BY SizePositive, SMT
    <2> QED BY <1>13, <2>1, <2>2, <2>3 DEF KeybufInit, TypeOK
  <1>14. CASE Pause
    BY <1>14 DEF Pause, TypeOK, ring, inject
  <1>15. CASE UNCHANGED vars
    BY <1>15 DEF vars, ring, inject, user, TypeOK
  <1> QED BY <1>2, <1>3, <1>4, <1>5, <1>6, <1>7, <1>8, <1>9, <1>10, <1>11, <1>12, <1>13, <1>14,
              <1>15 DEF Next

LEMMA TypesInit == Init => TypeInv
  <1> SUFFICES ASSUME Init PROVE TypeInv
    OBVIOUS
  <1>1. 0 \in 0 .. Size - 1 /\ 0 \in 0 .. Pastes /\ 0 \in 0 .. Purges /\ 0 \in 0 .. 3
    BY SizePositive, KeyBufAssumption, SMT
  <1>2. keyinject \in Seq(Char) /\ Len(keyinject) <= 2 /\ todo \in Seq(Stroke) /\ Len(todo) <= 2
    BY SMT DEF Init
  <1> QED BY <1>1, <1>2 DEF Init, TypeInv, TypeOK, Idle

\* Every variable keeps its type, whoever records: no index leaves the ring, no more than one
\* pasted character is under way, and only a character that was pressed is released.
THEOREM TypeCorrect == Spec => []TypeOK
  <1>1. Spec => []TypeInv
    BY TypesInit, TypesKept, PTL DEF Spec
  <1> QED BY <1>1, PTL DEF TypeInv
-----------------------------------------------------------------------------
(* One recording thread. *)

\* The other thread does nothing.
SoloInv == /\ recorders # Writer
           /\ "con" \notin recorders => writer["con"] = Idle
           /\ "emu" \notin recorders => /\ writer["emu"] = Idle
                                        /\ keyinject = <<>> /\ ~keyinject_state /\ todo = <<>>

\* While a thread records nobody else moves kpb_first, so that what it has read stays true: the
\* slot it writes is free, and is published with the key in it.
WriteInv == \A t \in Writer :
  /\ writer[t].at = "idle" => writer[t] = Idle
  /\ writer[t].at # "idle" => writer[t].code \in Stroke /\ writer[t].next = WrapsTo(kpb_first)
  /\ writer[t].at \in {"store", "publish"} => writer[t].next # kpb_last
  /\ writer[t].at = "publish" => keybuf[kpb_first] = writer[t].code

\* Why there is a key when it is taken: it was there at the poll, is about to be injected, is being
\* recorded, or was recorded since.
ReadInv ==
  /\ reader # "inject" => todo = <<>>
  /\ reader \in {"get", "aborted"} => writer["emu"] = Idle
  /\ reader = "get" => \/ kpb_first # kpb_last
                       \/ keyinject_do /\ (keyinject # <<>> \/ keyinject_state)
  /\ reader = "inject" /\ ~paused => \/ kpb_first # kpb_last
                                     \/ todo # <<>>
                                     \/ writer["emu"] # Idle

IInv == TypeInv /\ SoloInv /\ WriteInv /\ ReadInv

LEMMA Names == /\ Writer = {"emu", "con"} /\ "emu" \in Writer /\ "con" \in Writer
               /\ "emu" # "con" /\ Idle.at = "idle"
  BY DEF Writer, Idle

\* Who does something records, and the other does not.
LEMMA Alone ==
  ASSUME IInv
  PROVE  /\ \A t \in Writer : writer[t] # Idle => t \in recorders
         /\ recorders \in SUBSET Writer
         /\ "emu" \notin recorders \/ "con" \notin recorders
         /\ \A t \in Writer, u \in Writer : writer[t] # Idle /\ u # t => writer[u] = Idle
         /\ \A t \in Writer : writer[t] # Idle <=> writer[t].at # "idle"
  <1>1. recorders \in SUBSET Writer
    BY KeyBufAssumption DEF IInv, TypeInv, TypeOK
  <1>2. "emu" \notin recorders \/ "con" \notin recorders
    BY <1>1, Names DEF IInv, SoloInv
  <1>3. \A t \in Writer : writer[t] # Idle => t \in recorders
    BY Names DEF IInv, SoloInv
  <1>4. \A t \in Writer : writer[t] # Idle <=> writer[t].at # "idle"
    BY Names DEF IInv, WriteInv
  <1> QED BY <1>1, <1>2, <1>3, <1>4, Names

LEMMA Typed == ASSUME IInv
               PROVE  /\ kpb_first \in Slot /\ kpb_last \in Slot
                      /\ keybuf \in [Slot -> Stroke \cup {NoCode}]
                      /\ writer \in [Writer -> WriterType]
                      /\ \A t \in Writer : writer[t].at \in {"idle", "test", "store", "publish"}
  BY DEF IInv, TypeInv, TypeOK, Slot, WriterType

\* A thread starts to record.
LEMMA RecordKeeps ==
  ASSUME IInv, NEW t \in Writer, NEW c \in Stroke, Record(t, c), writer[t] = Idle,
         UNCHANGED <<ring, recorders, paused>>
  PROVE  /\ WriteInv'
         /\ writer'[t] = [at |-> "test", code |-> c, next |-> WrapsTo(kpb_first)]
         /\ writer'[t] # Idle /\ \A u \in Writer \ {t} : writer'[u] = writer[u]
  <1>1. /\ writer'[t] = [at |-> "test", code |-> c, next |-> WrapsTo(kpb_first)]
        /\ \A u \in Writer \ {t} : writer'[u] = writer[u]
    BY Typed DEF Record
  <1>2. writer'[t].at = "test" /\ writer'[t].code = c /\ writer'[t].next = WrapsTo(kpb_first)
    BY <1>1
  <1>3. ASSUME NEW u \in Writer
        PROVE  /\ writer'[u].at = "idle" => writer'[u] = Idle
               /\ writer'[u].at # "idle" => /\ writer'[u].code \in Stroke
                                            /\ writer'[u].next = WrapsTo(kpb_first)
               /\ writer'[u].at \in {"store", "publish"} => writer'[u].next # kpb_last
               /\ writer'[u].at = "publish" => keybuf[kpb_first] = writer'[u].code
    BY <1>1, <1>2 DEF IInv, WriteInv
  <1>4. kpb_first' = kpb_first /\ kpb_last' = kpb_last /\ keybuf' = keybuf
    BY DEF ring
  <1> QED BY <1>1, <1>2, <1>3, <1>4, Names DEF WriteInv, WrapsTo

LEMMA HostKeeps == ASSUME IInv, HostRecords PROVE SoloInv' /\ WriteInv' /\ ReadInv'
  <1>1. PICK k \in HostKey : Record("emu", Key(k, FALSE))
    BY DEF HostRecords
  <1>2. Key(k, FALSE) \in Stroke
    BY StrokeIs
  <1>3. /\ "emu" \in recorders /\ writer["emu"] = Idle /\ reader = "run"
        /\ UNCHANGED <<ring, inject, user, reader, todo>>
    BY DEF HostRecords, EmuFree
  <1>4. UNCHANGED <<ring, recorders, paused>>
    BY <1>3 DEF user
  <1>5. WriteInv' /\ writer'["con"] = writer["con"]
    BY <1>1, <1>2, <1>3, <1>4, RecordKeeps, Names
  <1>6. SoloInv'
    BY <1>3, <1>4, <1>5 DEF IInv, SoloInv
  <1>7. ReadInv'
    BY <1>3, <1>4 DEF IInv, ReadInv
  <1> QED BY <1>5, <1>6, <1>7

LEMMA ConsoleKeeps == ASSUME IInv, ConsoleRecords PROVE SoloInv' /\ WriteInv' /\ ReadInv'
  <1>1. PICK k \in ConsoleKey : Record("con", Key(k, FALSE))
    BY DEF ConsoleRecords
  <1>2. Key(k, FALSE) \in Stroke
    BY StrokeIs
  <1>3. /\ "con" \in recorders /\ writer["con"] = Idle
        /\ UNCHANGED <<ring, inject, user, reader, todo>>
    BY DEF ConsoleRecords
  <1>4. UNCHANGED <<ring, recorders, paused, kpb_first, kpb_last, keyinject, keyinject_state, keyinject_do>>
    BY <1>3 DEF user, ring, inject
  <1>5. WriteInv' /\ writer'["emu"] = writer["emu"]
    BY <1>1, <1>2, <1>3, <1>4, RecordKeeps, Names
  <1>6. SoloInv'
    BY <1>3, <1>4, <1>5 DEF IInv, SoloInv
  <1>7. ReadInv'
    BY <1>3, <1>4, <1>5 DEF IInv, ReadInv
  <1> QED BY <1>5, <1>6, <1>7

LEMMA TestKeeps == ASSUME IInv, NEW t \in Writer, Test(t) PROVE SoloInv' /\ WriteInv' /\ ReadInv'
  <1>1. /\ writer[t].at = "test" /\ UNCHANGED <<ring, inject, user, reader, todo>>
        /\ \A u \in Writer \ {t} : writer'[u] = writer[u]
        /\ writer'[t] = IF writer[t].next = kpb_last THEN Idle ELSE [writer[t] EXCEPT !.at = "store"]
    BY Typed DEF Test
  <1>2. UNCHANGED <<kpb_first, kpb_last, keybuf, recorders, paused, keyinject, keyinject_state, keyinject_do>>
    BY <1>1 DEF user, ring, inject
  <1>3. t \in recorders /\ \A u \in Writer \ {t} : writer'[u] = Idle /\ writer[u] = Idle
    BY <1>1, Alone, Names
  <1>4. writer[t].next = WrapsTo(kpb_first) /\ writer[t].code \in Stroke
    BY <1>1 DEF IInv, WriteInv
  <1>5. CASE writer[t].next = kpb_last
    <2>1. writer'[t] = Idle /\ kpb_first # kpb_last
      BY <1>1, <1>4, <1>5, Typed, WrapsToIs
    <2>2. \A u \in Writer : writer'[u] = Idle
      BY <1>3, <2>1
    <2>3. WriteInv'
      BY <2>2, Names DEF WriteInv
    <2>4. SoloInv'
      BY <1>1, <1>2, <2>2, Names DEF IInv, SoloInv
    <2>5. ReadInv'
      BY <1>1, <1>2, <2>1, <2>2, Names DEF IInv, ReadInv
    <2> QED BY <2>3, <2>4, <2>5
  <1>6. CASE writer[t].next # kpb_last
    <2>1. /\ writer'[t].at = "store" /\ writer'[t].code = writer[t].code
          /\ writer'[t].next = writer[t].next
      BY <1>1, <1>6, Typed DEF WriterType
    <2>2. WriteInv'
      <3>1. ASSUME NEW u \in Writer
            PROVE  /\ writer'[u].at = "idle" => writer'[u] = Idle
                   /\ writer'[u].at # "idle" => /\ writer'[u].code \in Stroke
                                                /\ writer'[u].next = WrapsTo(kpb_first)
                   /\ writer'[u].at \in {"store", "publish"} => writer'[u].next # kpb_last
                   /\ writer'[u].at # "publish"
        <4>1. CASE u = t
          BY <1>4, <1>6, <2>1, <4>1
        <4>2. CASE u # t
          BY <1>3, <4>2, Names
        <4> QED BY <4>1, <4>2
      <3> QED BY <1>2, <3>1 DEF WriteInv, WrapsTo
    <2>3. writer'[t] # Idle /\ writer[t] # Idle
      BY <1>1, <2>1, Names
    <2>4. SoloInv'
      BY <1>1, <1>2, <1>3, <2>3, Names DEF IInv, SoloInv
    <2>5. ReadInv'
      BY <1>1, <1>2, <1>3, <2>3, Names DEF IInv, ReadInv
    <2> QED BY <2>2, <2>4, <2>5
  <1> QED BY <1>5, <1>6

LEMMA StoreKeeps == ASSUME IInv, NEW t \in Writer, Store(t) PROVE SoloInv' /\ WriteInv' /\ ReadInv'
  <1>1. /\ writer[t].at = "store" /\ UNCHANGED <<kpb_first, kpb_last, inject, user, reader, todo>>
        /\ \A u \in Writer \ {t} : writer'[u] = writer[u]
        /\ writer'[t] = [writer[t] EXCEPT !.at = "publish"]
        /\ keybuf' = [keybuf EXCEPT ![kpb_first] = writer[t].code]
    BY Typed DEF Store
  <1>2. UNCHANGED <<recorders, paused, keyinject, keyinject_state, keyinject_do>>
    BY <1>1 DEF user, inject
  <1>3. t \in recorders /\ \A u \in Writer \ {t} : writer'[u] = Idle /\ writer[u] = Idle
    BY <1>1, Alone, Names
  <1>4. /\ writer[t].next = WrapsTo(kpb_first) /\ writer[t].code \in Stroke
        /\ writer[t].next # kpb_last
    BY <1>1 DEF IInv, WriteInv
  <1>5. /\ writer'[t].at = "publish" /\ writer'[t].code = writer[t].code
        /\ writer'[t].next = writer[t].next /\ keybuf'[kpb_first] = writer[t].code
    BY <1>1, Typed DEF WriterType
  <1>6. WriteInv'
    <2>1. ASSUME NEW u \in Writer
          PROVE  /\ writer'[u].at = "idle" => writer'[u] = Idle
                 /\ writer'[u].at # "idle" => /\ writer'[u].code \in Stroke
                                              /\ writer'[u].next = WrapsTo(kpb_first)
                 /\ writer'[u].at \in {"store", "publish"} => writer'[u].next # kpb_last
                 /\ writer'[u].at = "publish" => keybuf'[kpb_first] = writer'[u].code
      <3>1. CASE u = t
        BY <1>4, <1>5, <3>1
      <3>2. CASE u # t
        BY <1>3, <3>2, Names
      <3> QED BY <3>1, <3>2
    <2> QED BY <1>1, <2>1 DEF WriteInv, WrapsTo
  <1>7. writer'[t] # Idle /\ writer[t] # Idle
    BY <1>1, <1>5, Names
  <1>8. SoloInv'
    BY <1>1, <1>2, <1>3, <1>7, Names DEF IInv, SoloInv
  <1>9. ReadInv'
    BY <1>1, <1>2, <1>3, <1>7, Names DEF IInv, ReadInv
  <1> QED BY <1>6, <1>8, <1>9

LEMMA PublishKeeps == ASSUME IInv, NEW t \in Writer, Publish(t) PROVE SoloInv' /\ WriteInv' /\ ReadInv'
  <1>1. /\ writer[t].at = "publish" /\ UNCHANGED <<kpb_last, keybuf, inject, user, reader, todo>>
        /\ \A u \in Writer \ {t} : writer'[u] = writer[u]
        /\ writer'[t] = Idle /\ kpb_first' = writer[t].next
    BY Typed DEF Publish
  <1>2. UNCHANGED <<recorders, paused, keyinject, keyinject_state, keyinject_do>>
    BY <1>1 DEF user, inject
  <1>3. t \in recorders /\ \A u \in Writer \ {t} : writer[u] = Idle
    BY <1>1, Alone, Names
  <1>4. kpb_first' # kpb_last'
    BY <1>1 DEF IInv, WriteInv
  <1>5. \A u \in Writer : writer'[u] = Idle
    BY <1>1, <1>3
  <1>6. WriteInv'
    BY <1>5, Names DEF WriteInv
  <1>7. SoloInv'
    BY <1>1, <1>2, <1>5, Names DEF IInv, SoloInv
  <1>8. ReadInv'
    BY <1>1, <1>2, <1>4, <1>5, Names DEF IInv, ReadInv
  <1> QED BY <1>6, <1>7, <1>8

LEMMA PollKeeps ==
  ASSUME IInv, NEW sameLine \in BOOLEAN, NEW take \in BOOLEAN, Poll(sameLine, take)
  PROVE  SoloInv' /\ WriteInv' /\ ReadInv'
  <1>1. /\ reader = "run" /\ writer["emu"] = Idle
        /\ UNCHANGED <<ring, keyinject, keyinject_state, user, writer, todo>>
        /\ take => Available(sameLine)
        /\ keyinject_do' <=> (keyinject_do \/ CanInject(sameLine))
        /\ reader' = IF take THEN "get" ELSE "run"
    BY DEF Poll, EmuFree, IInv, TypeInv, TypeOK
  <1>2. UNCHANGED <<kpb_first, kpb_last, keybuf, recorders, paused>>
    BY <1>1 DEF user, ring
  <1>3. SoloInv'
    BY <1>1, <1>2 DEF IInv, SoloInv
  <1>4. WriteInv'
    BY <1>1, <1>2 DEF IInv, WriteInv, WrapsTo
  <1>5. ReadInv'
    BY <1>1, <1>2 DEF IInv, ReadInv, Available
  <1> QED BY <1>3, <1>4, <1>5

LEMMA GetKeeps == ASSUME IInv, Get PROVE SoloInv' /\ WriteInv' /\ ReadInv'
  <1>1. /\ reader = "get" /\ reader' = "inject" /\ todo = <<>>
        /\ UNCHANGED <<ring, user, writer>>
        /\ keyinject_state' = (IF keyinject_do THEN Pressed ELSE keyinject_state)
        /\ keyinject' = IF Pressed THEN Tail(keyinject) ELSE keyinject
        /\ todo' = IF Pressed THEN Scancodes(Head(keyinject), FALSE)
                   ELSE IF Released THEN Scancodes(keyinject_previous, TRUE)
                   ELSE <<>>
    BY DEF Get, IInv, ReadInv
  <1>2. UNCHANGED <<kpb_first, kpb_last, keybuf, recorders, paused>>
    BY <1>1 DEF user, ring
  <1>3. "emu" \notin recorders => ~Pressed /\ ~Released
    BY DEF Pressed, Released, IInv, SoloInv
  <1>4. SoloInv'
    BY <1>1, <1>2, <1>3 DEF IInv, SoloInv
  <1>5. WriteInv'
    BY <1>1, <1>2 DEF IInv, WriteInv, WrapsTo
  <1>6. kpb_first # kpb_last \/ Pressed \/ Released
    BY <1>1 DEF IInv, ReadInv, Pressed, Released
  <1>7. \A c : \A up : Scancodes(c, up) # <<>>
    BY SMT DEF Scancodes
  <1>8. ReadInv'
    BY <1>1, <1>2, <1>6, <1>7 DEF ReadInv
  <1> QED BY <1>4, <1>5, <1>8

LEMMA InjectKeeps == ASSUME IInv, InjectNext PROVE SoloInv' /\ WriteInv' /\ ReadInv'
  <1>1. /\ reader = "inject" /\ writer["emu"] = Idle /\ todo # <<>> /\ todo \in Seq(Stroke)
        /\ UNCHANGED <<ring, inject, user, reader>>
        /\ todo' = Tail(todo)
    BY DEF InjectNext, IInv, TypeInv, TypeOK
  <1>2. UNCHANGED <<ring, kpb_first, kpb_last, keybuf, recorders, paused, keyinject, keyinject_state>>
    BY <1>1 DEF user, ring, inject
  <1>3. "emu" \in recorders
    BY <1>1 DEF IInv, SoloInv
  <1>4. CASE paused
    <2>1. writer' = writer
      BY <1>4 DEF InjectNext
    <2>2. SoloInv'
      BY <1>1, <1>2, <1>3, <2>1 DEF IInv, SoloInv
    <2>3. WriteInv'
      BY <1>2, <2>1 DEF IInv, WriteInv, WrapsTo
    <2>4. ReadInv'
      BY <1>1, <1>2, <1>4 DEF ReadInv
    <2> QED BY <2>2, <2>3, <2>4
  <1>5. CASE ~paused
    <2>1. Head(todo) \in Stroke /\ Record("emu", Head(todo))
      <3>1. Head(todo) \in Stroke
        BY <1>1, SMT
      <3> QED BY <1>5, <3>1 DEF InjectNext
    <2>2. WriteInv' /\ writer'["emu"] # Idle /\ writer'["con"] = writer["con"]
      BY <1>1, <1>2, <2>1, RecordKeeps, Names
    <2>3. SoloInv'
      BY <1>2, <1>3, <2>2 DEF IInv, SoloInv
    <2>4. ReadInv'
      BY <1>1, <2>2 DEF ReadInv
    <2> QED BY <2>2, <2>3, <2>4
  <1> QED BY <1>4, <1>5

LEMMA TakeKeeps == ASSUME IInv, AssertFails \/ Take PROVE SoloInv' /\ WriteInv' /\ ReadInv'
  <1>1. CASE AssertFails
    <2>1. /\ reader = "inject" /\ todo = <<>> /\ writer["emu"] = Idle /\ reader' = "aborted"
          /\ UNCHANGED <<ring, inject, user, writer, todo>>
      BY <1>1 DEF AssertFails, Asserts
    <2>2. UNCHANGED <<kpb_first, kpb_last, keybuf, recorders, paused, keyinject, keyinject_state>>
      BY <2>1 DEF user, ring, inject
    <2> QED BY <2>1, <2>2 DEF IInv, SoloInv, WriteInv, ReadInv, WrapsTo
  <1>2. CASE Take
    <2>1. /\ reader = "inject" /\ todo = <<>> /\ writer["emu"] = Idle /\ reader' = "run"
          /\ kpb_first # kpb_last /\ kpb_last' = WrapsTo(kpb_last)
          /\ UNCHANGED <<kpb_first, keybuf, inject, user, writer, todo>>
      BY <1>2 DEF Take, Asserts
    <2>2. UNCHANGED <<recorders, paused, keyinject, keyinject_state>>
      BY <2>1 DEF user, inject
    <2>3. SoloInv' /\ ReadInv'
      BY <2>1, <2>2 DEF IInv, SoloInv, ReadInv
    <2>4. WrapsTo(kpb_first) # WrapsTo(kpb_last)
      BY <2>1, Typed, WrapsToIs, SizePositive, SMT DEF Slot
    <2>5. WriteInv'
      BY <2>1, <2>4 DEF IInv, WriteInv, WrapsTo
    <2> QED BY <2>3, <2>5
  <1> QED BY <1>1, <1>2

LEMMA UserKeeps == ASSUME IInv, Paste \/ KeybufInit \/ Pause PROVE SoloInv' /\ WriteInv' /\ ReadInv'
  <1>1. /\ "emu" \in recorders /\ reader = "run" /\ writer["emu"] = Idle
        /\ UNCHANGED <<keyinject_state, recorders, writer, reader, todo>>
    BY DEF Paste, KeybufInit, Pause, EmuFree, inject
  <1>2. \A t \in Writer : writer'[t] = Idle
    BY <1>1, Alone, Names DEF IInv, SoloInv
  <1>3. SoloInv'
    BY <1>1, <1>2 DEF IInv, SoloInv
  <1>4. WriteInv'
    BY <1>2, Names DEF WriteInv
  <1>5. ReadInv'
    BY <1>1 DEF IInv, ReadInv
  <1> QED BY <1>3, <1>4, <1>5

LEMMA StutterKeeps == ASSUME IInv, UNCHANGED vars PROVE SoloInv' /\ WriteInv' /\ ReadInv'
  <1>1. UNCHANGED <<kpb_first, kpb_last, keybuf, recorders, paused, keyinject, keyinject_state,
                    keyinject_do, writer, reader, todo>>
    BY DEF vars, ring, inject, user
  <1> QED BY <1>1 DEF IInv, SoloInv, WriteInv, ReadInv, WrapsTo

LEMMA InvInit == ASSUME Single, Init PROVE IInv
  <1>1. TypeInv
    BY TypesInit
  <1>2. SoloInv
    BY Names DEF Single, Init, SoloInv
  <1>3. WriteInv /\ ReadInv
    BY Names DEF Init, WriteInv, ReadInv
  <1> QED BY <1>1, <1>2, <1>3 DEF IInv

LEMMA InvNext == IInv /\ [Next]_vars => IInv'
  <1> SUFFICES ASSUME IInv, [Next]_vars PROVE IInv'
    OBVIOUS
  <1>1. TypeInv'
    BY TypesKept DEF IInv
  <1>2. SoloInv' /\ WriteInv' /\ ReadInv'
    BY HostKeeps, ConsoleKeeps, TestKeeps, StoreKeeps, PublishKeeps, PollKeeps, GetKeeps,
       InjectKeeps, TakeKeeps, UserKeeps, StutterKeeps DEF Next
  <1> QED BY <1>1, <1>2 DEF IInv

\* The inductive invariant holds where one thread records.
THEOREM Invariance ==
  ASSUME Single
  PROVE  Spec => []IInv
  <1>1. Init => IInv
    BY InvInit
  <1> QED BY <1>1, InvNext, PTL DEF Spec

\* get_next_key finds a key whenever a poll said so, unless the emulation is paused.
THEOREM AssertionHolds ==
  ASSUME Single
  PROVE  Spec => []KeyIsThere
  <1>1. IInv => KeyIsThere
    BY DEF IInv, ReadInv, KeyIsThere, Asserts
  <1> QED BY <1>1, Invariance, PTL
-----------------------------------------------------------------------------
(* The buffer is a queue. *)

InHand == [t \in Writer |-> IF writer[t].at = "idle" THEN NoCode ELSE writer[t].code]

ContentsFacts == /\ Contents \in Seq(Stroke \cup {NoCode})
                 /\ Len(Contents) = Length
                 /\ \A k \in 1 .. Length : Contents[k] = Nth(k)
                 /\ Length \in 0 .. Size - 1

LEMMA ContentsIsSeq == IInv => ContentsFacts
  <1> SUFFICES ASSUME IInv PROVE ContentsFacts
    OBVIOUS
  <1>1. Length \in 0 .. Size - 1
    BY Typed, LengthFacts
  <1>2. \A k \in 1 .. Length : (kpb_last + k - 1) % Size \in Slot
    BY Typed, FreeSlot
  <1>3. Contents \in [1 .. Length -> Stroke \cup {NoCode}]
    BY <1>2, Typed DEF Contents
  <1>4. \A k \in 1 .. Length : Contents[k] = Nth(k)
    BY DEF Contents, Nth
  <1>5. Length \in Nat
    BY <1>1, SMT
  <1>6. Contents \in Seq(Stroke \cup {NoCode}) /\ Len(Contents) = Length
    BY <1>3, <1>5, TabulatedSeq
  <1> QED BY <1>1, <1>4, <1>6 DEF ContentsFacts

LEMMA SameContents == ASSUME UNCHANGED ring PROVE Contents' = Contents
  BY DEF ring, Contents, Length

\* To begin to record is the abstract Call.
LEMMA RecordIsCall ==
  ASSUME IInv, NEW t \in Writer, NEW c \in Stroke, Record(t, c), writer[t] = Idle, UNCHANGED ring
  PROVE  Keys!Call(t)
  <1>1. /\ writer'[t].at = "test" /\ writer'[t].code = c
        /\ \A u \in Writer \ {t} : writer'[u] = writer[u]
    BY Typed DEF Record
  <1>2. InHand[t] = NoCode /\ InHand'[t] = c
    BY <1>1, Names DEF InHand
  <1>3. InHand' = [InHand EXCEPT ![t] = InHand'[t]]
    BY <1>1, <1>2 DEF InHand
  <1>4. Contents' = Contents
    BY SameContents
  <1> QED BY <1>2, <1>3, <1>4 DEF Keys!Call, InHand

\* A key that finds the buffer full is refused; otherwise nothing shows yet.
LEMMA TestIsRefuse ==
  ASSUME IInv, NEW t \in Writer, Test(t)
  PROVE  Keys!Refuse(t) \/ (Contents' = Contents /\ InHand' = InHand)
  <1>1. /\ writer[t].at = "test" /\ UNCHANGED ring
        /\ \A u \in Writer \ {t} : writer'[u] = writer[u]
        /\ writer'[t] = IF writer[t].next = kpb_last THEN Idle ELSE [writer[t] EXCEPT !.at = "store"]
    BY Typed DEF Test
  <1>2. Contents' = Contents
    BY <1>1, SameContents
  <1>3. writer[t].next = WrapsTo(kpb_first) /\ writer[t].code \in Stroke /\ writer[t].code # NoCode
    BY <1>1, StrokeIs DEF IInv, WriteInv
  <1>4. CASE writer[t].next = kpb_last
    <2>1. Len(Contents) = Size - 1
      BY <1>3, <1>4, ContentsIsSeq, Typed, LengthFacts DEF ContentsFacts
    <2>2. InHand[t] # NoCode /\ InHand' = [InHand EXCEPT ![t] = NoCode]
      BY <1>1, <1>3, <1>4, Names DEF InHand
    <2> QED BY <1>2, <2>1, <2>2 DEF Keys!Refuse, InHand
  <1>5. CASE writer[t].next # kpb_last
    <2>1. writer'[t].at = "store" /\ writer'[t].code = writer[t].code
      BY <1>1, <1>5, Typed DEF WriterType
    <2>2. \A u \in Writer : InHand'[u] = InHand[u]
      BY <1>1, <2>1 DEF InHand
    <2>3. InHand' = InHand
      BY <2>2 DEF InHand
    <2> QED BY <1>2, <2>3
  <1> QED BY <1>4, <1>5

LEMMA StoreShowsNothing ==
  ASSUME IInv, IInv', NEW t \in Writer, Store(t)
  PROVE  Contents' = Contents /\ InHand' = InHand
  <1>1. /\ writer[t].at = "store" /\ UNCHANGED <<kpb_first, kpb_last>>
        /\ \A u \in Writer \ {t} : writer'[u] = writer[u]
        /\ writer'[t] = [writer[t] EXCEPT !.at = "publish"]
        /\ keybuf' = [keybuf EXCEPT ![kpb_first] = writer[t].code]
    BY Typed DEF Store
  <1>2. Length' = Length /\ \A k \in 1 .. Length : Nth(k)' = Nth(k)
    BY <1>1, Typed, StoreRing
  <1>3. ContentsFacts /\ ContentsFacts'
    BY ContentsIsSeq, PTL
  <1>4. Contents' = Contents
    BY <1>2, <1>3, SeqEqual DEF ContentsFacts
  <1>5. writer'[t].at = "publish" /\ writer'[t].code = writer[t].code
    BY <1>1, Typed DEF WriterType
  <1>6. \A u \in Writer : InHand'[u] = InHand[u]
    BY <1>1, <1>5 DEF InHand
  <1> QED BY <1>4, <1>6 DEF InHand

\* To publish is the abstract Add.
LEMMA PublishIsAdd ==
  ASSUME IInv, IInv', NEW t \in Writer, Publish(t)
  PROVE  Keys!Add(t)
  <1>1. /\ writer[t].at = "publish" /\ UNCHANGED <<kpb_last, keybuf>>
        /\ \A u \in Writer \ {t} : writer'[u] = writer[u]
        /\ writer'[t] = Idle /\ kpb_first' = writer[t].next
    BY Typed DEF Publish
  <1>2. /\ writer[t].next = WrapsTo(kpb_first) /\ WrapsTo(kpb_first) # kpb_last
        /\ writer[t].code \in Stroke /\ keybuf[kpb_first] = writer[t].code
    BY <1>1 DEF IInv, WriteInv
  <1>3. /\ Length' = Length + 1 /\ Length \in 0 .. Size - 2
        /\ Nth(Length)' = writer[t].code
        /\ \A k \in 1 .. Length : Nth(k)' = Nth(k)
    BY <1>1, <1>2, Typed, PublishRing
  <1>4. ContentsFacts /\ ContentsFacts'
    BY ContentsIsSeq, PTL
  <1> DEFINE c == writer[t].code
             a == Append(Contents, c)
  <1>5. c \in Stroke \cup {NoCode}
    BY <1>2
  <1>6. /\ a \in Seq(Stroke \cup {NoCode}) /\ Len(a) = Length + 1
        /\ \A k \in 1 .. Length : a[k] = Nth(k)
        /\ a[Length + 1] = c
    <2> HIDE DEF c
    <2> QED BY <1>4, <1>5, AppendProperties DEF ContentsFacts
  <1>7. Contents' = a
    <2>1. \A k \in 1 .. Length + 1 : k \in 1 .. Length \/ k = Length + 1
      BY <1>3, SMT
    <2>2. Length + 1 \in 1 .. Length + 1
      BY <1>3, SMT
    <2>3. Contents'[Length + 1] = c
      <3>1. \A k \in 1 .. Length' : Contents'[k] = Nth(k)'
        BY <1>4 DEF ContentsFacts
      <3>2. Contents'[Length'] = Nth(Length)'
        BY <1>3, <2>2, <3>1
      <3> QED BY <1>3, <3>2
    <2> HIDE DEF a, c
    <2>4. \A k \in 1 .. Length + 1 : a[k] = Contents'[k]
      BY <1>3, <1>4, <1>6, <2>1, <2>3 DEF ContentsFacts
    <2>5. a = Contents'
      BY <1>3, <1>4, <1>6, <2>4, SeqEqual DEF ContentsFacts
    <2> QED BY <2>5
  <1>8. InHand[t] = c /\ c # NoCode /\ InHand' = [InHand EXCEPT ![t] = NoCode]
    BY <1>1, <1>2, StrokeIs, Names DEF InHand
  <1>9. Len(Contents) < Size - 1
    BY <1>3, <1>4, SizePositive, SMT DEF ContentsFacts
  <1> QED BY <1>7, <1>8, <1>9 DEF Keys!Add, InHand

\* To take is the abstract Take.
LEMMA TakeIsTake == ASSUME IInv, IInv', Take PROVE Keys!Take
  <1>1. /\ kpb_first # kpb_last /\ kpb_last' = WrapsTo(kpb_last)
        /\ UNCHANGED <<kpb_first, keybuf, writer>>
    BY DEF Take
  <1>2. /\ Length' = Length - 1 /\ Length \in 1 .. Size - 1
        /\ \A k \in 1 .. Length - 1 : Nth(k)' = Nth(k + 1)
    BY <1>1, Typed, TakeRing
  <1>3. ContentsFacts /\ ContentsFacts'
    BY ContentsIsSeq, PTL
  <1>4. Contents # <<>>
    BY <1>2, <1>3, SMT DEF ContentsFacts
  <1> DEFINE r == Tail(Contents)
  <1>5. /\ r \in Seq(Stroke \cup {NoCode}) /\ Len(r) = Length - 1
        /\ \A k \in 1 .. Length - 1 : r[k] = Contents[k + 1]
    BY <1>3, <1>4, HeadTailProperties DEF ContentsFacts
  <1>6. \A k \in 1 .. Length - 1 : k + 1 \in 1 .. Length
    BY <1>2, SMT
  <1> HIDE DEF r
  <1>7. r = Contents'
    <2>1. \A k \in 1 .. Length - 1 : r[k] = Contents'[k]
      BY <1>2, <1>3, <1>5, <1>6 DEF ContentsFacts
    <2> QED BY <1>2, <1>3, <1>5, <2>1, SeqEqual DEF ContentsFacts
  <1> QED BY <1>1, <1>4, <1>7 DEF Keys!Take, r

\* With one recording thread the ring is a queue of Size - 1 keys without any locking, as
\* keybuf.cpp:7 claims, although text is recorded while it is read.
THEOREM Refinement ==
  ASSUME Single
  PROVE  Spec => QueueSpec
  <1>1. Init => Keys!Init
    <2> SUFFICES ASSUME Init PROVE Contents = <<>> /\ InHand = [t \in Writer |-> NoCode]
      BY DEF Keys!Init, InHand
    <2>1. IInv /\ Length = 0
      BY InvInit, Typed, LengthFacts DEF Init
    <2>2. Contents = <<>>
      BY <2>1, ContentsIsSeq, SMT DEF ContentsFacts
    <2> QED BY <2>2, Names DEF Init, InHand
  <1>2. IInv /\ IInv' /\ [Next]_vars => [Keys!Next]_(Keys!queueVars)
    <2> SUFFICES ASSUME IInv, IInv', [Next]_vars
                 PROVE  Keys!Next \/ (Contents' = Contents /\ InHand' = InHand)
      BY DEF Keys!queueVars, InHand
    <2>1. CASE HostRecords
      <3>1. PICK k \in HostKey : Record("emu", Key(k, FALSE))
        BY <2>1 DEF HostRecords
      <3> QED BY <2>1, <3>1, StrokeIs, RecordIsCall, Names DEF HostRecords, EmuFree, Keys!Next
    <2>2. CASE ConsoleRecords
      <3>1. PICK k \in ConsoleKey : Record("con", Key(k, FALSE))
        BY <2>2 DEF ConsoleRecords
      <3> QED BY <2>2, <3>1, StrokeIs, RecordIsCall, Names DEF ConsoleRecords, Keys!Next
    <2>3. CASE InjectNext
      <3>1. CASE paused
        BY <2>3, <3>1, SameContents DEF InjectNext, InHand
      <3>2. CASE ~paused
        <4>1. todo \in Seq(Stroke) /\ todo # <<>>
          BY <2>3 DEF InjectNext, IInv, TypeInv, TypeOK
        <4>2. Head(todo) \in Stroke
          BY <4>1, SMT
        <4> QED BY <2>3, <3>2, <4>2, RecordIsCall, Names DEF InjectNext, Keys!Next
      <3> QED BY <3>1, <3>2
    <2>4. ASSUME NEW t \in Writer, Test(t)
          PROVE  Keys!Next \/ (Contents' = Contents /\ InHand' = InHand)
      BY <2>4, TestIsRefuse DEF Keys!Next
    <2>5. ASSUME NEW t \in Writer, Store(t) PROVE Contents' = Contents /\ InHand' = InHand
      BY <2>5, StoreShowsNothing
    <2>6. ASSUME NEW t \in Writer, Publish(t) PROVE Keys!Next
      BY <2>6, PublishIsAdd DEF Keys!Next
    <2>7. CASE Take
      BY <2>7, TakeIsTake DEF Keys!Next
    <2>8. CASE KeybufInit
      <3>1. kpb_first' = 0 /\ kpb_last' = 0 /\ InHand' = InHand
        BY <2>8 DEF KeybufInit, InHand
      <3>2. Length' = 0
        <4>1. Length' = (0 + Size - 0) % Size
          BY <3>1 DEF Length
        <4>2. 0 \in Slot
          BY SizePositive, SMT DEF Slot
        <4> QED BY <4>1, <4>2, DistanceIs, SMT
      <3>3. ContentsFacts'
        BY ContentsIsSeq, PTL
      <3>4. Contents' = <<>>
        BY <3>2, <3>3, SMT DEF ContentsFacts
      <3> QED BY <3>1, <3>4 DEF Keys!Next, Keys!Clear, InHand
    <2>9. CASE (\E sameLine, take \in BOOLEAN : Poll(sameLine, take)) \/ Get \/ AssertFails \/ Paste
               \/ Pause \/ UNCHANGED vars
      <3>1. UNCHANGED ring /\ writer' = writer
        BY <2>9 DEF Poll, Get, AssertFails, Paste, Pause, vars
      <3> QED BY <3>1, SameContents DEF InHand
    <2> QED BY <2>1, <2>2, <2>3, <2>4, <2>5, <2>6, <2>7, <2>8, <2>9 DEF Next
  <1> QED BY <1>1, <1>2, Invariance, PTL DEF Spec, QueueSpec, Keys!Spec
-----------------------------------------------------------------------------
(* Nothing stays down.  What was recorded of a pasted key and what is still *)
(* to be recorded end, in this order, with the last event that holds the    *)
(* key down exactly as long as it is the one that was pressed last.         *)

Pasted == Char \cup {"shift"}

Keyed(c) == {c} \cup (IF c \in Shifted THEN {"shift"} ELSE {})

\* Is k to be down once all is recorded and taken?
Held(k) == keyinject_state /\ k \in Keyed(keyinject_previous)

InTodo(k) == \E i \in 1 .. Len(todo) : todo[i].key = k
Recorded(k) == writer["emu"].at # "idle" /\ writer["emu"].code.key = k
InRing(k) == \E j \in 1 .. Length : Nth(j).key = k
Newest(k, j) == Nth(j).key = k /\ \A i \in j + 1 .. Length : Nth(i).key # k

TodoLast(k) == \A i \in 1 .. Len(todo) : todo[i].key = k => (todo[i].up <=> ~Held(k))
HandLast(k) == Recorded(k) => (writer["emu"].code.up <=> ~Held(k))
RingLast(k) == ~InTodo(k) /\ ~Recorded(k) =>
                 /\ \A j \in 1 .. Length : Newest(k, j) => (Nth(j).up <=> ~Held(k))
                 /\ ~InRing(k) => (k \in down <=> Held(k))

Fate(k) == TodoLast(k) /\ HandLast(k) /\ RingLast(k)

\* The keys of the console are none of the pasted ones.
HeldInv == /\ writer["con"].at # "idle" => writer["con"].code.key \notin Pasted
           /\ ~lost => \A k \in Pasted : Fate(k)


LEMMA NewestSame ==
  ASSUME Length \in Nat, Length' = Length, \A j \in 1 .. Length : Nth(j)' = Nth(j)
  PROVE  \A k : /\ InRing(k)' <=> InRing(k)
                /\ \A j \in 1 .. Length : Newest(k, j)' <=> Newest(k, j)
  <1>1. \A j \in 1 .. Length : \A i \in j + 1 .. Length : i \in 1 .. Length
    BY SMT
  <1> QED BY <1>1 DEF InRing, Newest

LEMMA NewestPublished ==
  ASSUME Length \in Nat, Length' = Length + 1, NEW c, Nth(Length)' = c,
         \A j \in 1 .. Length : Nth(j)' = Nth(j)
  PROVE  /\ InRing(c.key)'
         /\ \A j \in 1 .. Length' : Newest(c.key, j)' => Nth(j)' = c
         /\ \A k : k # c.key =>
              /\ InRing(k)' <=> InRing(k)
              /\ \A j \in 1 .. Length' : Newest(k, j)' =>
                   j \in 1 .. Length /\ Newest(k, j) /\ Nth(j)' = Nth(j)
  <1>1. /\ \A j \in 1 .. Length' : j \in 1 .. Length \/ j = Length'
        /\ \A j \in 1 .. Length : j \in 1 .. Length' /\ Length' \in j + 1 .. Length'
        /\ \A j \in 1 .. Length : \A i \in j + 1 .. Length : i \in 1 .. Length /\ i \in j + 1 .. Length'
        /\ Length' \in 1 .. Length'
    BY SMT
  <1>2. \A j : j = Length' => Nth(j)' = c
    BY DEF Nth
  <1>3. InRing(c.key)'
    BY <1>1, <1>2 DEF InRing
  <1>4. \A j \in 1 .. Length' : Newest(c.key, j)' => Nth(j)' = c
    BY <1>1, <1>2 DEF Newest
  <1>5. ASSUME NEW k, k # c.key
        PROVE  /\ InRing(k)' <=> InRing(k)
               /\ \A j \in 1 .. Length' : Newest(k, j)' =>
                   j \in 1 .. Length /\ Newest(k, j) /\ Nth(j)' = Nth(j)
    <2>1. InRing(k)' <=> InRing(k)
      BY <1>1, <1>2, <1>5 DEF InRing
    <2>2. ASSUME NEW j \in 1 .. Length', Newest(k, j)'
          PROVE  j \in 1 .. Length /\ Newest(k, j) /\ Nth(j)' = Nth(j)
      <3>1. Nth(j)'.key = k /\ \A i \in j + 1 .. Length' : Nth(i)'.key # k
        BY <2>2 DEF Newest
      <3>2. j \in 1 .. Length
        BY <1>1, <1>2, <1>5, <3>1
      <3> QED BY <1>1, <3>1, <3>2 DEF Newest
    <2> QED BY <2>1, <2>2
  <1> QED BY <1>3, <1>4, <1>5

LEMMA NewestTaken ==
  ASSUME Length \in Nat, Length # 0, Length' = Length - 1,
         \A j \in 1 .. Length - 1 : Nth(j)' = Nth(j + 1)
  PROVE  \A k : /\ \A j \in 1 .. Length' : Newest(k, j)' =>
                     j + 1 \in 1 .. Length /\ Newest(k, j + 1) /\ Nth(j)' = Nth(j + 1)
                /\ ~InRing(k)' => IF Nth(1).key = k THEN 1 \in 1 .. Length /\ Newest(k, 1)
                                  ELSE ~InRing(k)
  <1>1. /\ 1 \in 1 .. Length
        /\ \A j \in 1 .. Length' : j \in 1 .. Length - 1 /\ j + 1 \in 1 .. Length
        /\ \A i \in 1 .. Length : i # 1 => i - 1 \in 1 .. Length' /\ (i - 1) + 1 = i
        /\ \A j \in 1 .. Length' : \A i \in (j + 1) + 1 .. Length :
             i - 1 \in j + 1 .. Length' /\ i - 1 \in 1 .. Length' /\ (i - 1) + 1 = i
        /\ \A i \in 1 + 1 .. Length : i \in 1 .. Length /\ i # 1
    BY SMT
  <1> SUFFICES ASSUME NEW k
               PROVE  /\ \A j \in 1 .. Length' : Newest(k, j)' =>
                          j + 1 \in 1 .. Length /\ Newest(k, j + 1) /\ Nth(j)' = Nth(j + 1)
                      /\ ~InRing(k)' => IF Nth(1).key = k THEN 1 \in 1 .. Length /\ Newest(k, 1)
                                        ELSE ~InRing(k)
    OBVIOUS
  <1>2. \A i \in 1 .. Length : i # 1 => Nth(i - 1)' = Nth(i)
    <2> SUFFICES ASSUME NEW i \in 1 .. Length, i # 1 PROVE Nth(i - 1)' = Nth(i)
      OBVIOUS
    <2>1. i - 1 \in 1 .. Length - 1 /\ (i - 1) + 1 = i
      BY SMT
    <2>2. Nth(i - 1)' = Nth((i - 1) + 1)
      BY <2>1
    <2> QED BY <2>1, <2>2
  <1>3. ASSUME NEW j \in 1 .. Length', Newest(k, j)'
        PROVE  j + 1 \in 1 .. Length /\ Newest(k, j + 1) /\ Nth(j)' = Nth(j + 1)
    <2>1. Nth(j)'.key = k /\ \A i \in j + 1 .. Length' : Nth(i)'.key # k
      BY <1>3 DEF Newest
    <2>2. Nth(j)' = Nth(j + 1) /\ j + 1 \in 1 .. Length
      BY <1>1
    <2>3. ASSUME NEW i \in (j + 1) + 1 .. Length PROVE Nth(i).key # k
      <3>1. i - 1 \in j + 1 .. Length' /\ i \in 1 .. Length /\ i # 1
        BY SMT
      <3> QED BY <1>2, <2>1, <3>1
    <2> QED BY <2>1, <2>2, <2>3 DEF Newest
  <1>4. ASSUME ~InRing(k)'
        PROVE  IF Nth(1).key = k THEN 1 \in 1 .. Length /\ Newest(k, 1) ELSE ~InRing(k)
    <2>1. \A i \in 1 .. Length : i # 1 => Nth(i).key # k
      BY <1>1, <1>2, <1>4 DEF InRing
    <2> QED BY <1>1, <2>1 DEF InRing, Newest
  <1> QED BY <1>3, <1>4

LEMMA LengthNat == IInv => Length \in Nat
  <1> SUFFICES ASSUME IInv PROVE Length \in Nat
    OBVIOUS
  <1>1. Length \in 0 .. Size - 1
    BY Typed, LengthFacts
  <1> QED BY <1>1, SMT

\* A step that touches nothing of this.
LEMMA HeldSame ==
  ASSUME HeldInv, UNCHANGED <<keyinject_state, keyinject_previous, todo, writer, down>>,
         lost' = lost, Length' = Length, \A j : Nth(j)' = Nth(j)
  PROVE  HeldInv'
  <1>1. \A k : /\ Held(k)' = Held(k) /\ InTodo(k)' = InTodo(k) /\ Recorded(k)' = Recorded(k)
               /\ InRing(k)' = InRing(k) /\ \A j : Newest(k, j)' = Newest(k, j)
    BY DEF Held, InTodo, Recorded, InRing, Newest
  <1> QED BY <1>1 DEF HeldInv, Fate, TodoLast, HandLast, RingLast

LEMMA HeldInit == ASSUME Single, Init PROVE HeldInv
  <1>1. IInv /\ Length = 0
    BY InvInit, Typed, LengthFacts DEF Init
  <1>2. 1 .. Length = {} /\ 1 .. Len(todo) = {}
    <2>1. Len(todo) = 0
      BY SMT DEF Init
    <2> QED BY <1>1, <2>1, SMT
  <1>3. writer["con"].at = "idle" /\ writer["emu"].at = "idle"
    BY Names DEF Init
  <1>4. \A k \in Pasted : Fate(k)
    BY <1>2, <1>3 DEF Fate, TodoLast, HandLast, RingLast, Held, Recorded, Init
  <1> QED BY <1>3, <1>4 DEF HeldInv

\* A key that is not a pasted one is recorded.
LEMMA OtherHeld ==
  ASSUME IInv, HeldInv, HostRecords \/ ConsoleRecords
  PROVE  HeldInv'
  <1>1. PICK t \in Writer, c \in Stroke :
          /\ Record(t, c) /\ writer[t] = Idle /\ c.key \notin Pasted
    <2>1. CASE HostRecords
      <3>1. PICK k \in HostKey : Record("emu", Key(k, FALSE))
        BY <2>1 DEF HostRecords
      <3>2. Key(k, FALSE) \in Stroke /\ Key(k, FALSE).key = k /\ k \notin Pasted
        BY StrokeIs, KeyNames DEF Pasted
      <3> QED BY <2>1, <3>1, <3>2, Names DEF HostRecords, EmuFree
    <2>2. CASE ConsoleRecords
      <3>1. PICK k \in ConsoleKey : Record("con", Key(k, FALSE))
        BY <2>2 DEF ConsoleRecords
      <3>2. Key(k, FALSE) \in Stroke /\ Key(k, FALSE).key = k /\ k \notin Pasted
        BY StrokeIs, KeyNames DEF Pasted
      <3> QED BY <2>2, <3>1, <3>2, Names DEF ConsoleRecords
    <2> QED BY <2>1, <2>2
  <1>2. UNCHANGED <<keyinject_state, keyinject_previous, todo, down, lost, kpb_first, kpb_last, keybuf>>
    BY DEF HostRecords, ConsoleRecords, inject, ring
  <1>3. writer'[t].code = c /\ \A u \in Writer \ {t} : writer'[u] = writer[u]
    BY <1>1, Typed DEF Record
  <1>4. ASSUME NEW k \in Pasted PROVE Recorded(k)' <=> Recorded(k)
    <2>1. t = "emu" => ~Recorded(k)' /\ ~Recorded(k)
      BY <1>1, <1>3, Names DEF Recorded
    <2>2. t # "emu" => writer'["emu"] = writer["emu"]
      BY <1>3, Names
    <2> QED BY <2>1, <2>2 DEF Recorded
  <1>5. \A k \in Pasted : Recorded(k) => writer'["emu"] = writer["emu"]
    BY <1>1, <1>3, Names DEF Recorded
  <1>6. /\ Length' = Length /\ \A j : Nth(j)' = Nth(j)
        /\ \A k : Held(k)' = Held(k) /\ InTodo(k)' = InTodo(k) /\ InRing(k)' = InRing(k)
        /\ \A k, j : Newest(k, j)' = Newest(k, j)
    BY <1>2 DEF Length, Nth, Held, InTodo, InRing, Newest
  <1>7. ASSUME NEW k \in Pasted, Fate(k) PROVE Fate(k)'
    BY <1>2, <1>4, <1>5, <1>6, <1>7 DEF Fate, TodoLast, HandLast, RingLast
  <1>8. writer'["con"].at # "idle" => writer'["con"].code.key \notin Pasted
    BY <1>1, <1>3, Names DEF HeldInv
  <1> QED BY <1>2, <1>7, <1>8 DEF HeldInv

LEMMA TestHeld == ASSUME IInv, HeldInv, NEW t \in Writer, Test(t) PROVE HeldInv'
  <1>1. /\ writer[t].at = "test"
        /\ UNCHANGED <<keyinject_state, keyinject_previous, todo, down, kpb_first, kpb_last, keybuf>>
        /\ \A u \in Writer \ {t} : writer'[u] = writer[u]
        /\ writer'[t] = IF writer[t].next = kpb_last THEN Idle ELSE [writer[t] EXCEPT !.at = "store"]
        /\ lost' = (lost \/ writer[t].next = kpb_last)
    BY Typed DEF Test, inject, ring
  <1>2. CASE writer[t].next = kpb_last
    <2>1. writer'["con"].at # "idle" => writer'["con"] = writer["con"]
      BY <1>1, <1>2, Names
    <2> QED BY <1>1, <1>2, <2>1 DEF HeldInv
  <1>3. CASE writer[t].next # kpb_last
    <2>1. writer'[t].at = "store" /\ writer'[t].code = writer[t].code
      BY <1>1, <1>3, Typed DEF WriterType
    <2>2. \A u \in Writer : /\ writer'[u].code = writer[u].code
                            /\ writer'[u].at = "idle" <=> writer[u].at = "idle"
      BY <1>1, <2>1
    <2>3. \A k : Recorded(k)' <=> Recorded(k)
      BY <2>2, Names DEF Recorded
    <2>4. /\ Length' = Length /\ \A j : Nth(j)' = Nth(j)
          /\ \A k : Held(k)' = Held(k) /\ InTodo(k)' = InTodo(k) /\ InRing(k)' = InRing(k)
          /\ \A k, j : Newest(k, j)' = Newest(k, j)
      BY <1>1 DEF Length, Nth, Held, InTodo, InRing, Newest
    <2>5. ASSUME NEW k \in Pasted, Fate(k) PROVE Fate(k)'
      BY <1>1, <2>2, <2>3, <2>4, <2>5, Names DEF Fate, TodoLast, HandLast, RingLast
    <2>6. lost' <=> lost
      BY <1>1, <1>3
    <2> QED BY <2>2, <2>5, <2>6, Names DEF HeldInv
  <1> QED BY <1>2, <1>3

LEMMA StoreHeld == ASSUME IInv, HeldInv, NEW t \in Writer, Store(t) PROVE HeldInv'
  <1>1. /\ writer[t].at = "store"
        /\ UNCHANGED <<keyinject_state, keyinject_previous, todo, down, kpb_first, kpb_last, lost>>
        /\ \A u \in Writer \ {t} : writer'[u] = writer[u]
        /\ writer'[t] = [writer[t] EXCEPT !.at = "publish"]
        /\ keybuf' = [keybuf EXCEPT ![kpb_first] = writer[t].code]
    BY Typed DEF Store, inject
  <1>2. Length' = Length /\ \A j \in 1 .. Length : Nth(j)' = Nth(j)
    BY <1>1, Typed, StoreRing
  <1>3. writer'[t].at = "publish" /\ writer'[t].code = writer[t].code
    BY <1>1, Typed DEF WriterType
  <1>4. \A u \in Writer : /\ writer'[u].code = writer[u].code
                          /\ writer'[u].at = "idle" <=> writer[u].at = "idle"
    BY <1>1, <1>3
  <1>5. \A k : Recorded(k)' <=> Recorded(k)
    BY <1>4, Names DEF Recorded
  <1>6. \A k : Held(k)' = Held(k) /\ InTodo(k)' = InTodo(k)
    BY <1>1 DEF Held, InTodo
  <1>7. \A k : (InRing(k)' <=> InRing(k)) /\ \A j \in 1 .. Length : Newest(k, j)' <=> Newest(k, j)
    BY <1>2, NewestSame, LengthNat
  <1>8. ASSUME NEW k \in Pasted, Fate(k) PROVE Fate(k)'
    BY <1>1, <1>2, <1>4, <1>5, <1>6, <1>7, <1>8, Names DEF Fate, TodoLast, HandLast, RingLast
  <1> QED BY <1>1, <1>4, <1>8, Names DEF HeldInv

LEMMA PublishHeld == ASSUME IInv, HeldInv, NEW t \in Writer, Publish(t) PROVE HeldInv'
  <1>1. /\ writer[t].at = "publish"
        /\ UNCHANGED <<keyinject_state, keyinject_previous, todo, down, kpb_last, keybuf, lost>>
        /\ \A u \in Writer \ {t} : writer'[u] = writer[u]
        /\ writer'[t] = Idle /\ kpb_first' = writer[t].next
    BY Typed DEF Publish, inject
  <1>2. /\ writer[t].next = WrapsTo(kpb_first) /\ WrapsTo(kpb_first) # kpb_last
        /\ keybuf[kpb_first] = writer[t].code
    BY <1>1 DEF IInv, WriteInv
  <1>0. PICK c : c = writer[t].code
    OBVIOUS
  <1>3. /\ Length' = Length + 1 /\ Length \in Nat
        /\ Nth(Length)' = c
        /\ \A j \in 1 .. Length : Nth(j)' = Nth(j)
    <2>1. /\ Length' = Length + 1 /\ Length \in 0 .. Size - 2
          /\ Nth(Length)' = keybuf[kpb_first]
          /\ \A j \in 1 .. Length : Nth(j)' = Nth(j)
      BY <1>1, <1>2, Typed, PublishRing
    <2> QED BY <1>2, <1>0, <2>1, SMT
  <1>4. /\ InRing(c.key)'
        /\ \A j \in 1 .. Length' : Newest(c.key, j)' => Nth(j)' = c
        /\ \A k : k # c.key =>
              /\ InRing(k)' <=> InRing(k)
              /\ \A j \in 1 .. Length' : Newest(k, j)' =>
                   j \in 1 .. Length /\ Newest(k, j) /\ Nth(j)' = Nth(j)
    BY <1>3, NewestPublished
  <1>5. \A k : Held(k)' = Held(k) /\ InTodo(k)' = InTodo(k)
    BY <1>1 DEF Held, InTodo
  <1>6. \A u \in Writer : writer'[u] = Idle /\ (u # t => writer[u] = Idle)
    BY <1>1, Alone, Names
  <1>7. /\ \A k : ~Recorded(k)'
        /\ \A k : Recorded(k) <=> t = "emu" /\ c.key = k
    BY <1>1, <1>6, <1>0, Names DEF Recorded
  <1>8. ASSUME NEW k \in Pasted, Fate(k) PROVE Fate(k)'
    <2>1. TodoLast(k)' /\ HandLast(k)'
      BY <1>1, <1>5, <1>7, <1>8 DEF Fate, TodoLast, HandLast
    <2>2. CASE k = c.key
      <3>1. t = "emu"
        BY <1>1, <1>0, <2>2, Names DEF HeldInv
      <3>2. c.up <=> ~Held(k)
        BY <1>7, <1>8, <1>0, <2>2, <3>1 DEF Fate, HandLast
      <3>3. InRing(k)' /\ \A j \in 1 .. Length' : Newest(k, j)' => (Nth(j)'.up <=> ~Held(k))
        BY <1>4, <2>2, <3>2
      <3>4. RingLast(k)'
        BY <1>5, <3>3 DEF RingLast
      <3> QED BY <2>1, <3>4 DEF Fate
    <2>3. CASE k # c.key
      <3>1. ~Recorded(k)
        BY <1>7, <2>3
      <3> QED BY <1>1, <1>4, <1>5, <1>8, <2>1, <2>3, <3>1 DEF Fate, RingLast
    <2> QED BY <2>2, <2>3
  <1> QED BY <1>1, <1>6, <1>8, Names DEF HeldInv

LEMMA TakeHeld == ASSUME IInv, HeldInv, Take PROVE HeldInv'
  <1>1. /\ kpb_first # kpb_last /\ kpb_last' = WrapsTo(kpb_last)
        /\ UNCHANGED <<kpb_first, keybuf, keyinject_state, keyinject_previous, writer, todo, lost>>
    BY DEF Take, inject
  <1>2. /\ Length' = Length - 1 /\ Length \in Nat /\ Length # 0 /\ keybuf[kpb_last] = Nth(1)
        /\ \A j \in 1 .. Length - 1 : Nth(j)' = Nth(j + 1)
    <2>1. /\ Length' = Length - 1 /\ Length \in 1 .. Size - 1 /\ keybuf[kpb_last] = Nth(1)
          /\ \A j \in 1 .. Length - 1 : Nth(j)' = Nth(j + 1)
      BY <1>1, Typed, TakeRing
    <2> QED BY <2>1, SMT
  <1>3. \A k : /\ \A j \in 1 .. Length' : Newest(k, j)' =>
                    j + 1 \in 1 .. Length /\ Newest(k, j + 1) /\ Nth(j)' = Nth(j + 1)
               /\ ~InRing(k)' => IF Nth(1).key = k THEN 1 \in 1 .. Length /\ Newest(k, 1)
                                 ELSE ~InRing(k)
    BY <1>2, NewestTaken
  <1>4. /\ \A k : Held(k)' = Held(k) /\ InTodo(k)' = InTodo(k) /\ Recorded(k)' = Recorded(k)
    BY <1>1 DEF Held, InTodo, Recorded
  <1>5. \A k \in Pasted : k \in down' <=> IF Nth(1).key = k THEN ~Nth(1).up ELSE k \in down
    BY <1>2 DEF Take, Pasted
  <1>6. ASSUME NEW k \in Pasted, Fate(k) PROVE Fate(k)'
    <2>1. TodoLast(k)' /\ HandLast(k)'
      BY <1>1, <1>4, <1>6 DEF Fate, TodoLast, HandLast
    <2>2. ASSUME ~InTodo(k), ~Recorded(k)
          PROVE  /\ \A j \in 1 .. Length' : Newest(k, j)' => (Nth(j)'.up <=> ~Held(k))
                 /\ ~InRing(k)' => (k \in down' <=> Held(k))
      <3>1. /\ \A j \in 1 .. Length : Newest(k, j) => (Nth(j).up <=> ~Held(k))
            /\ ~InRing(k) => (k \in down <=> Held(k))
        BY <1>6, <2>2 DEF Fate, RingLast
      <3>2. \A j \in 1 .. Length' : Newest(k, j)' => (Nth(j)'.up <=> ~Held(k))
        BY <1>3, <3>1
      <3>3. ~InRing(k)' => (k \in down' <=> Held(k))
        BY <1>3, <1>5, <3>1
      <3> QED BY <3>2, <3>3
    <2> QED BY <1>4, <2>1, <2>2 DEF Fate, RingLast
  <1> QED BY <1>1, <1>6 DEF HeldInv

\* The next character is pressed or the last one released: all that was recorded before ended with
\* the keys as they had been, and what is to be recorded changes them.
LEMMA GetHeld == ASSUME IInv, HeldInv, Get PROVE HeldInv'
  <1>1. /\ reader = "get" /\ todo = <<>> /\ writer["emu"] = Idle
        /\ UNCHANGED <<writer, lost, down, kpb_first, kpb_last, keybuf>>
        /\ keyinject_state' = (IF keyinject_do THEN Pressed ELSE keyinject_state)
        /\ keyinject_previous' = IF Pressed THEN Head(keyinject) ELSE keyinject_previous
        /\ todo' = IF Pressed THEN Scancodes(Head(keyinject), FALSE)
                   ELSE IF Released THEN Scancodes(keyinject_previous, TRUE)
                   ELSE <<>>
    BY DEF Get, IInv, ReadInv, ring
  <1>2. /\ \A j : Nth(j)' = Nth(j) /\ Length' = Length
        /\ \A k : InRing(k)' = InRing(k) /\ \A j : Newest(k, j)' = Newest(k, j)
    BY <1>1 DEF Nth, Length, InRing, Newest
  <1>3. \A k : ~Recorded(k) /\ ~Recorded(k)'
    BY <1>1, Names DEF Recorded
  <1>4. 1 .. Len(<<>>) = {}
    BY SMT
  <1>5. \A k : ~InTodo(k)
    BY <1>1, <1>4 DEF InTodo
  <1>6. ASSUME NEW k \in Pasted, Fate(k)
        PROVE  /\ \A i \in 1 .. Len(todo') : todo'[i].key = k => (todo'[i].up <=> ~Held(k)')
               /\ ~InTodo(k)' => (Held(k)' <=> Held(k))
    <2>1. CASE Pressed
      <3>1. PICK c \in Char : c = Head(keyinject)
        <4>1. keyinject \in Seq(Char) /\ keyinject # <<>>
          BY <2>1 DEF Pressed, IInv, TypeInv, TypeOK
        <4>2. Head(keyinject) \in Char
          BY <4>1, SMT
        <4> QED BY <4>2
      <3>2. todo' = Scancodes(c, FALSE) /\ keyinject_state' /\ keyinject_previous' = c
        BY <1>1, <2>1, <3>1 DEF Pressed
      <3>3. /\ \A i \in 1 .. Len(todo') : todo'[i].up = FALSE /\ todo'[i].key \in Keyed(c)
            /\ \A l \in Keyed(c) : \E i \in 1 .. Len(todo') : todo'[i].key = l
        <4>1. /\ \A i \in 1 .. Len(Scancodes(c, FALSE)) : /\ Scancodes(c, FALSE)[i].up = FALSE
                                                          /\ Scancodes(c, FALSE)[i].key \in Keyed(c)
              /\ \A l \in Keyed(c) :
                   \E i \in 1 .. Len(Scancodes(c, FALSE)) : Scancodes(c, FALSE)[i].key = l
          BY ScancodesType DEF Keyed
        <4> QED BY <3>2, <4>1
      <3>4. Held(k)' <=> k \in Keyed(c)
        BY <3>2 DEF Held, Keyed
      <3>5. ~Held(k)
        BY <2>1 DEF Pressed, Held
      <3> QED BY <3>3, <3>4, <3>5 DEF InTodo
    <2>2. CASE ~Pressed /\ Released
      <3>1. keyinject_previous \in Char /\ keyinject_state
        BY <2>2 DEF Released, IInv, TypeInv
      <3>2. todo' = Scancodes(keyinject_previous, TRUE) /\ ~keyinject_state'
        BY <1>1, <2>2 DEF Pressed, Released
      <3>3. /\ \A i \in 1 .. Len(todo') : todo'[i].up = TRUE
            /\ \A l \in Keyed(keyinject_previous) : \E i \in 1 .. Len(todo') : todo'[i].key = l
        <4> DEFINE p == keyinject_previous
        <4>1. /\ \A i \in 1 .. Len(Scancodes(p, TRUE)) : Scancodes(p, TRUE)[i].up = TRUE
              /\ \A l \in Keyed(p) : \E i \in 1 .. Len(Scancodes(p, TRUE)) : Scancodes(p, TRUE)[i].key = l
          BY <3>1, ScancodesType DEF Keyed
        <4> QED BY <3>2, <4>1
      <3>4. ~Held(k)' /\ (Held(k) <=> k \in Keyed(keyinject_previous))
        BY <3>1, <3>2 DEF Held
      <3> QED BY <3>3, <3>4 DEF InTodo
    <2>3. CASE ~Pressed /\ ~Released
      <3>1. todo' = <<>> /\ keyinject_previous' = keyinject_previous
            /\ keyinject_state' = keyinject_state
        BY <1>1, <2>3 DEF Pressed, Released, IInv, TypeInv, TypeOK
      <3> QED BY <1>4, <3>1 DEF Held
    <2> QED BY <2>1, <2>2, <2>3
  <1>7. ASSUME NEW k \in Pasted, Fate(k) PROVE Fate(k)'
    <2>1. TodoLast(k)' /\ HandLast(k)'
      BY <1>3, <1>6, <1>7 DEF TodoLast, HandLast
    <2>2. /\ \A j \in 1 .. Length : Newest(k, j) => (Nth(j).up <=> ~Held(k))
          /\ ~InRing(k) => (k \in down <=> Held(k))
      BY <1>3, <1>5, <1>7 DEF Fate, RingLast
    <2>3. ~InTodo(k)' => (Held(k)' <=> Held(k))
      BY <1>6, <1>7
    <2> QED BY <1>1, <1>2, <2>1, <2>2, <2>3 DEF Fate, RingLast
  <1> QED BY <1>1, <1>7 DEF HeldInv

LEMMA InjectHeld == ASSUME IInv, HeldInv, InjectNext PROVE HeldInv'
  <1>1. /\ writer["emu"] = Idle /\ todo # <<>> /\ todo \in Seq(Stroke) /\ todo' = Tail(todo)
        /\ UNCHANGED <<keyinject_state, keyinject_previous, down, kpb_first, kpb_last, keybuf>>
    BY DEF InjectNext, IInv, TypeInv, TypeOK, ring, inject
  <1>2. CASE paused
    BY <1>2 DEF InjectNext, HeldInv
  <1>3. CASE ~paused
    <2>1. /\ Head(todo) = todo[1] /\ todo[1] \in Stroke /\ 1 \in 1 .. Len(todo)
          /\ \A i \in 1 .. Len(todo') : todo'[i] = todo[i + 1] /\ i + 1 \in 1 .. Len(todo)
          /\ \A i \in 1 .. Len(todo) : i # 1 => i - 1 \in 1 .. Len(todo') /\ todo'[i - 1] = todo[i]
      <3>1. /\ Len(todo) \in Nat \ {0} /\ Len(todo') = Len(todo) - 1 /\ Head(todo) = todo[1]
            /\ todo[1] \in Stroke
        BY <1>1, SMT
      <3>2. \A i \in 1 .. Len(todo) - 1 : todo'[i] = todo[i + 1]
        BY <1>1, SMT
      <3> QED BY <3>1, <3>2, SMT
    <2>2. Record("emu", todo[1]) /\ lost' = lost
      BY <1>3, <2>1 DEF InjectNext
    <2>3. /\ writer'["emu"].at = "test" /\ writer'["emu"].code = todo[1]
          /\ writer'["con"] = writer["con"]
      BY <2>2, Typed, Names DEF Record
    <2>4. \A k : ~Recorded(k) /\ (Recorded(k)' <=> todo[1].key = k)
      BY <1>1, <2>3, Names DEF Recorded
    <2>5. \A k : InTodo(k) <=> InTodo(k)' \/ todo[1].key = k
      <3> SUFFICES ASSUME NEW k PROVE InTodo(k) <=> InTodo(k)' \/ todo[1].key = k
        OBVIOUS
      <3>1. InTodo(k) => InTodo(k)' \/ todo[1].key = k
        <4> SUFFICES ASSUME NEW i \in 1 .. Len(todo), todo[i].key = k
                     PROVE  InTodo(k)' \/ todo[1].key = k
          BY DEF InTodo
        <4>1. CASE i = 1
          BY <4>1
        <4>2. CASE i # 1
          BY <2>1, <4>2 DEF InTodo
        <4> QED BY <4>1, <4>2
      <3>2. InTodo(k)' \/ todo[1].key = k => InTodo(k)
        BY <2>1 DEF InTodo
      <3> QED BY <3>1, <3>2
    <2>6. /\ \A j : Nth(j)' = Nth(j) /\ Length' = Length
          /\ \A k : Held(k)' = Held(k) /\ InRing(k)' = InRing(k) /\ \A j : Newest(k, j)' = Newest(k, j)
      BY <1>1 DEF Nth, Length, Held, InRing, Newest
    <2>7. ASSUME NEW k \in Pasted, Fate(k) PROVE Fate(k)'
      <3>1. TodoLast(k)'
        BY <2>1, <2>6, <2>7 DEF Fate, TodoLast
      <3>2. HandLast(k)'
        BY <2>1, <2>3, <2>4, <2>6, <2>7 DEF Fate, TodoLast, HandLast
      <3>3. ~InTodo(k)' /\ ~Recorded(k)' => ~InTodo(k) /\ ~Recorded(k)
        BY <2>4, <2>5
      <3>4. RingLast(k)'
        BY <1>1, <2>6, <2>7, <3>3 DEF Fate, RingLast
      <3> QED BY <3>1, <3>2, <3>4 DEF Fate
    <2> QED BY <2>2, <2>3, <2>7 DEF HeldInv
  <1> QED BY <1>2, <1>3

LEMMA RestHeld ==
  ASSUME IInv, HeldInv,
         \/ \E sameLine, take \in BOOLEAN : Poll(sameLine, take)
         \/ AssertFails \/ Paste \/ Pause \/ UNCHANGED vars
  PROVE  HeldInv'
  <1>1. UNCHANGED <<kpb_first, kpb_last, keybuf, keyinject_state, keyinject_previous, todo, writer,
                    down, lost>>
    BY DEF Poll, AssertFails, Paste, Pause, vars, ring, inject
  <1>2. Length' = Length /\ \A j : Nth(j)' = Nth(j)
    BY <1>1 DEF Length, Nth
  <1> QED BY <1>1, <1>2, HeldSame

LEMMA HeldNext == IInv /\ HeldInv /\ [Next]_vars => HeldInv'
  <1> SUFFICES ASSUME IInv, HeldInv, [Next]_vars PROVE HeldInv'
    OBVIOUS
  <1>1. CASE KeybufInit
    BY <1>1 DEF KeybufInit, HeldInv
  <1> QED BY <1>1, OtherHeld, TestHeld, StoreHeld, PublishHeld, TakeHeld, GetHeld, InjectHeld,
             RestHeld DEF Next

\* No pasted key and no shift stays down once the buffer has run dry between two characters, unless
\* a key was refused or purged, whatever else is typed.
THEOREM AllReleased ==
  ASSUME Single
  PROVE  Spec => []NothingStuck
  <1>1. Spec => []HeldInv
    <2>1. Init => HeldInv
      BY HeldInit
    <2> QED BY <2>1, HeldNext, Invariance, PTL DEF Spec
  <1>2. ASSUME IInv, HeldInv, EmuFree, ~keyinject_state, kpb_first = kpb_last, ~lost
        PROVE  down = {}
    <2>1. todo = <<>> /\ \A k : ~Recorded(k) /\ ~Held(k)
      BY <1>2, Names DEF EmuFree, IInv, ReadInv, Recorded, Held
    <2>2. 1 .. Len(todo) = {} /\ 1 .. Length = {}
      <3>1. Length = 0
        BY <1>2, Typed, LengthFacts
      <3>2. Len(todo) = 0
        BY <2>1, SMT
      <3> QED BY <3>1, <3>2, SMT
    <2>3. \A k : ~InTodo(k) /\ ~InRing(k)
      BY <2>2 DEF InTodo, InRing
    <2>4. \A k \in Pasted : k \notin down
      BY <1>2, <2>1, <2>3 DEF HeldInv, Fate, RingLast
    <2>5. down \subseteq Pasted
      BY <1>2 DEF IInv, TypeInv, TypeOK, Pasted
    <2> QED BY <2>4, <2>5
  <1>3. IInv /\ HeldInv => NothingStuck
    BY <1>2 DEF NothingStuck
  <1> QED BY <1>1, <1>3, Invariance, PTL
=============================================================================
