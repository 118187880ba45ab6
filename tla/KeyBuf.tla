------------------------------- MODULE KeyBuf -------------------------------
(***************************************************************************)
(* The keyboard buffer of keybuf.cpp.  Keys are recorded by the emulation  *)
(* thread, which also polls host input, and, when a console is emulated    *)
(* (--cli), by the thread that reads the host's console.  The emulation    *)
(* thread takes them for the Amiga keyboard on some raster lines.  Pasted  *)
(* text is injected: the thread that takes keys records them too, a press  *)
(* on one occasion and the release on the next.                            *)
(*                                                                         *)
(* record_key_direct is four steps, as the threads share its two indices:  *)
(* read kpb_first, test, store, publish.  Nothing keeps two threads from   *)
(* doing so at once, or one from doing so while the other purges: Recorders *)
(* says which of them do either, and what follows holds where one does.    *)
(***************************************************************************)
EXTENDS Naturals, Sequences, SequencesExt, FiniteSets

CONSTANTS Size,            \* KEYBUF_SIZE
          Char, Shifted,   \* what can be pasted; what of it needs the shift key
          HostKey,         \* keys the emulation thread records for the host
          ConsoleKey,      \* keys the console thread records, {} without --cli
          Recorders,       \* the sets of threads that may record in a session
          Pastes, Purges,  \* bounds: calls of keybuf_inject and keybuf_init
          Pausing          \* does the user pause the emulation

Writer == {"emu", "con"}

ASSUME KeyBufAssumption == /\ Size \in Nat \ {0, 1}
                           /\ Recorders \subseteq SUBSET Writer
                           /\ Shifted \subseteq Char
                           /\ Pausing \in BOOLEAN
                           /\ {Pastes, Purges} \subseteq Nat

\* Where a key comes from shows in its name.
ASSUME KeyNames == /\ "shift" \notin Char
                   /\ (HostKey \cup ConsoleKey) \cap (Char \cup {"shift"}) = {}
                   /\ "none" \notin Char \cup HostKey \cup ConsoleKey

VARIABLES kpb_first, kpb_last, keybuf,
          keyinject,           \* the rest of the pasted text
          keyinject_previous, keyinject_state, keyinject_do,
          cnt,                 \* of can_inject
          paused,              \* pause_emulation
          recorders,           \* the threads that record in this session
          writer,              \* per thread: its call of record_key_direct
          reader,              \* where get_next_key is
          todo,                \* what keytoscancode has still to record
          down,                \* injected keys the Amiga has seen go down only
          lost,                \* has a key been refused or purged
          pastes, purges

ring == <<kpb_first, kpb_last, keybuf>>
inject == <<keyinject, keyinject_previous, keyinject_state, keyinject_do, cnt>>
user == <<paused, recorders, pastes, purges>>
vars == <<ring, inject, user, writer, reader, todo, down, lost>>

Key(k, up) == [key |-> k, up |-> up]
NoCode == Key("none", FALSE)
Stroke == {Key(k, up) : k \in Char \cup {"shift"} \cup HostKey \cup ConsoleKey,
                        up \in BOOLEAN}
Idle == [at |-> "idle", code |-> NoCode, next |-> 0]

\* Mutant: shift goes down and stays.
BugScancodes(c, up) == IF c \in Shifted /\ ~up THEN <<Key("shift", up), Key(c, up)>>
                       ELSE <<Key(c, up)>>

\* The shift key goes down before the key and comes up after it.
Scancodes(c, up) ==
  IF c \notin Shifted THEN <<Key(c, up)>>
  ELSE IF up THEN <<Key(c, up), Key("shift", up)>>
  ELSE <<Key("shift", up), Key(c, up)>>

Init == /\ kpb_first = 0 /\ kpb_last = 0
        /\ keybuf = [i \in 0 .. Size - 1 |-> NoCode]
        /\ keyinject = <<>> /\ keyinject_previous = "none"
        /\ keyinject_state = FALSE /\ keyinject_do = FALSE /\ cnt = 0
        /\ paused = FALSE /\ recorders \in Recorders /\ pastes = 0 /\ purges = 0
        /\ writer = [t \in Writer |-> Idle]
        /\ reader = "run" /\ todo = <<>> /\ down = {} /\ lost = FALSE

EmuFree == reader = "run" /\ writer["emu"] = Idle
-----------------------------------------------------------------------------
(* record_key_direct, called by thread t.                                  *)

\* Mutant: wraps one slot too late.
BugWrapsTo(i) == IF i = Size THEN 0 ELSE i + 1

WrapsTo(i) == IF i + 1 = Size THEN 0 ELSE i + 1

Record(t, c) ==
  writer' = [writer EXCEPT ![t] = [at |-> "test", code |-> c, next |-> WrapsTo(kpb_first)]]

Test(t) ==
  LET full == writer[t].next = kpb_last IN
  /\ writer[t].at = "test"
  /\ writer' = [writer EXCEPT ![t] = IF full THEN Idle ELSE [@ EXCEPT !.at = "store"]]
  /\ lost' = (lost \/ full)
  /\ UNCHANGED <<ring, inject, user, reader, todo, down>>

Store(t) == /\ writer[t].at = "store"
            /\ keybuf' = [keybuf EXCEPT ![kpb_first] = writer[t].code]
            /\ writer' = [writer EXCEPT ![t].at = "publish"]
            /\ UNCHANGED <<kpb_first, kpb_last, inject, user, reader, todo, down, lost>>

\* Mutant: publishes the slot before the key is in it.
BugPublish(t) == /\ writer[t].at = "test" /\ writer[t].next # kpb_last
                 /\ kpb_first' = writer[t].next
                 /\ writer' = [writer EXCEPT ![t] = Idle]
                 /\ UNCHANGED <<kpb_last, keybuf, inject, user, reader, todo, down, lost>>

Publish(t) == /\ writer[t].at = "publish"
              /\ kpb_first' = writer[t].next
              /\ writer' = [writer EXCEPT ![t] = Idle]
              /\ UNCHANGED <<kpb_last, keybuf, inject, user, reader, todo, down, lost>>

\* record_key refuses while the emulation is paused; record_key_direct does not.
HostRecords == /\ "emu" \in recorders /\ EmuFree /\ ~paused
               /\ \E k \in HostKey : Record("emu", Key(k, FALSE))
               /\ UNCHANGED <<ring, inject, user, reader, todo, down, lost>>

ConsoleRecords == /\ "con" \in recorders /\ writer["con"] = Idle
                  /\ \E k \in ConsoleKey : Record("con", Key(k, FALSE))
                  /\ UNCHANGED <<ring, inject, user, reader, todo, down, lost>>
-----------------------------------------------------------------------------
(* The emulation thread polls (keys_available) and takes (get_next_key).   *)
(* A poll need not be followed by a take: the Amiga's keyboard may still   *)
(* be starting up or out of synchronisation.  sameLine is ovpos == vpos.   *)

\* Mutant: resets the count before it is looked at.
BugCanInject(sameLine) == ~sameLine /\ cnt = 4

CanInject(sameLine) == ~sameLine /\ cnt = 3

\* Mutant: counts on the pasted text before its turn.
BugAvailable(sameLine) == kpb_first # kpb_last \/ keyinject # <<>> \/ keyinject_state

Available(sameLine) == \/ kpb_first # kpb_last
                       \/ CanInject(sameLine) /\ (keyinject # <<>> \/ keyinject_state)

Poll(sameLine, take) ==
  /\ EmuFree
  /\ take => Available(sameLine)
  /\ cnt' = IF sameLine THEN cnt ELSE (cnt + 1) % 4
  /\ keyinject_do' = (keyinject_do \/ CanInject(sameLine))
  /\ reader' = IF take THEN "get" ELSE "run"
  /\ UNCHANGED <<ring, keyinject, keyinject_previous, keyinject_state, user,
                 writer, todo, down, lost>>

Released == keyinject_state /\ keyinject_do
Pressed == ~keyinject_state /\ keyinject_do /\ keyinject # <<>>

Get == /\ reader = "get"
       /\ keyinject_do' = FALSE
       /\ keyinject_state' = IF keyinject_do THEN Pressed ELSE keyinject_state
       /\ keyinject_previous' = IF Pressed THEN Head(keyinject) ELSE keyinject_previous
       /\ keyinject' = IF Pressed THEN Tail(keyinject) ELSE keyinject
       /\ todo' = IF Pressed THEN Scancodes(Head(keyinject), FALSE)
                  ELSE IF Released THEN Scancodes(keyinject_previous, TRUE)
                  ELSE <<>>
       /\ reader' = "inject"
       /\ UNCHANGED <<ring, cnt, user, writer, down, lost>>

InjectNext ==
  /\ reader = "inject" /\ todo # <<>> /\ writer["emu"] = Idle
  /\ IF paused THEN lost' = TRUE /\ UNCHANGED writer
     ELSE Record("emu", Head(todo)) /\ UNCHANGED lost
  /\ todo' = Tail(todo)
  /\ UNCHANGED <<ring, inject, user, reader, down>>

Asserts == reader = "inject" /\ todo = <<>> /\ writer["emu"] = Idle

\* The assertion before the key is read: the program stops when it fails.
AssertFails == /\ Asserts /\ kpb_first = kpb_last
               /\ reader' = "aborted"
               /\ UNCHANGED <<ring, inject, user, writer, todo, down, lost>>

Take ==
  /\ Asserts /\ kpb_first # kpb_last
  /\ LET c == keybuf[kpb_last] IN
     down' = IF c.key \notin Char \cup {"shift"} THEN down
             ELSE IF c.up THEN down \ {c.key} ELSE down \cup {c.key}
  /\ kpb_last' = WrapsTo(kpb_last)
  /\ reader' = "run"
  /\ UNCHANGED <<kpb_first, keybuf, inject, user, writer, todo, lost>>
-----------------------------------------------------------------------------
(* keybuf_inject, keybuf_init and the pause key, all on the emulation      *)
(* thread.  keybuf_init leaves keyinject_state and keyinject_do alone.     *)

Paste == /\ "emu" \in recorders /\ EmuFree /\ pastes < Pastes
         /\ \E s \in TupleOf(Char, 2) \cup TupleOf(Char, 1) : keyinject' = s
         /\ pastes' = pastes + 1
         /\ UNCHANGED <<ring, keyinject_previous, keyinject_state, keyinject_do, cnt,
                        paused, recorders, purges, writer, reader, todo, down,
                        lost>>

KeybufInit == /\ "emu" \in recorders /\ EmuFree /\ purges < Purges
              /\ kpb_first' = 0 /\ kpb_last' = 0
              /\ keyinject' = <<>>
              /\ purges' = purges + 1
              /\ lost' = TRUE
              /\ UNCHANGED <<keybuf, keyinject_previous, keyinject_state, keyinject_do,
                             cnt, paused, recorders, pastes, writer, reader, todo, down>>

\* It matters to record_key only.
Pause == /\ "emu" \in recorders /\ EmuFree /\ Pausing
         /\ paused' = ~paused
         /\ UNCHANGED <<ring, inject, recorders, pastes, purges, writer, reader, todo, down,
                        lost>>

Next == \/ HostRecords \/ ConsoleRecords
        \/ \E t \in Writer : Test(t) \/ Store(t) \/ Publish(t)
        \/ \E sameLine, take \in BOOLEAN : Poll(sameLine, take)
        \/ Get \/ InjectNext \/ AssertFails \/ Take
        \/ Paste \/ KeybufInit \/ Pause

Spec == Init /\ [][Next]_vars

(***************************************************************************)
(* The emulation thread runs, however busy the host's keyboard keeps it,   *)
(* and polls line after line; and it is not always between two polls that  *)
(* take that there is something to take: once the Amiga's keyboard is up,  *)
(* each poll that finds a key takes it.                                    *)
(***************************************************************************)
Fairness == /\ WF_vars(\/ Test("emu") \/ Store("emu") \/ Publish("emu")
                       \/ Get \/ InjectNext \/ AssertFails \/ Take)
            /\ SF_vars(Poll(FALSE, FALSE))
            /\ SF_vars(Poll(FALSE, TRUE))
FairSpec == Spec /\ Fairness
-----------------------------------------------------------------------------
TypeOK == /\ kpb_first \in 0 .. Size - 1
          /\ kpb_last \in 0 .. Size - 1
          /\ keybuf \in [0 .. Size - 1 -> Stroke \cup {NoCode}]
          /\ keyinject \in Seq(Char) /\ Len(keyinject) <= 2
          /\ keyinject_previous \in Char \cup {"none"}
          /\ {keyinject_state, keyinject_do, paused, lost} \subseteq BOOLEAN
          /\ recorders \in Recorders
          /\ cnt \in 0 .. 3 /\ pastes \in 0 .. Pastes /\ purges \in 0 .. Purges
          /\ writer \in [Writer -> [at : {"idle", "test", "store", "publish"},
                                    code : Stroke \cup {NoCode}, next : 0 .. Size - 1]]
          /\ reader \in {"run", "get", "inject", "aborted"}
          /\ todo \in Seq(Stroke) /\ Len(todo) <= 2
          /\ down \subseteq Char \cup {"shift"}

\* keybuf.cpp:247 asserts that there is a key whenever a poll said so, also when
\* the poll counted on a key that was still to be injected.  That is so unless the
\* emulation is paused: then record_key refuses the key, and the assertion fails.
KeyIsThere == Asserts /\ ~paused => kpb_first # kpb_last

\* When the buffer has run dry between two injections and no key was refused or
\* purged, the Amiga holds no pasted key and no shift down: what keytoscancode
\* pressed, it released, in whatever order polls, pastes and host keys came.
NothingStuck ==
  EmuFree /\ ~keyinject_state /\ kpb_first = kpb_last /\ ~lost => down = {}

\* A paste is typed to its end, unless the assertion ends the program: every
\* character is pressed, and the last released.
PasteTyped == (keyinject # <<>> \/ keyinject_state)
                ~> (keyinject = <<>> /\ ~keyinject_state) \/ reader = "aborted"

\* keybuf.cpp:7 claims that no synchronisation is needed, and for one recording
\* thread none is: the keys form a queue, into which each key goes whole or is
\* refused, and nothing overtakes.
Length == (kpb_first + Size - kpb_last) % Size
Contents == [i \in 1 .. Length |-> keybuf[(kpb_last + i - 1) % Size]]

Keys == INSTANCE KeyQueue WITH
          Code <- Stroke, Capacity <- Size - 1, queue <- Contents,
          in <- [t \in Writer |-> IF writer[t].at = "idle" THEN NoCode ELSE writer[t].code]
QueueSpec == Keys!Spec
=============================================================================
