----------------------------- MODULE BoundedFifo -----------------------------
(***************************************************************************)
(* What a communication pipe promises to the two threads it joins: items   *)
(* come out in the order in which they went in, none is lost, none comes   *)
(* out twice, and at most Capacity of them are under way.  The writer's    *)
(* and the reader's sides of the interface are visible: `in' is the item a *)
(* call of the writer is handing over, `out' the item a call of the reader *)
(* has obtained and not yet returned.                                      *)
(***************************************************************************)
EXTENDS Naturals, Sequences

CONSTANTS Item,      \* what can be put into the pipe
          NoItem,    \* no call under way, or nothing obtained yet
          Capacity   \* how many items the pipe holds

VARIABLES queue, in, out

fifoVars == <<queue, in, out>>

Init == queue = <<>> /\ in = NoItem /\ out = NoItem

PutCall(i) == /\ in = NoItem
              /\ in' = i
              /\ UNCHANGED <<queue, out>>

Put == /\ in # NoItem
       /\ Len(queue) < Capacity
       /\ queue' = Append(queue, in)
       /\ in' = NoItem
       /\ UNCHANGED out

Get == /\ out = NoItem
       /\ queue # <<>>
       /\ out' = Head(queue)
       /\ queue' = Tail(queue)
       /\ UNCHANGED in

GetReturn == /\ out # NoItem
             /\ out' = NoItem
             /\ UNCHANGED <<queue, in>>

Next == (\E i \in Item : PutCall(i)) \/ Put \/ Get \/ GetReturn

Spec == Init /\ [][Next]_fifoVars
=============================================================================
