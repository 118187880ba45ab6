------------------------------ MODULE KeyQueue ------------------------------
(***************************************************************************)
(* What the keyboard buffer promises to the threads that record keys and   *)
(* to the keyboard of the emulated machine that takes them: each writer's  *)
(* key is either added whole at the end of the queue or refused because    *)
(* the queue is full, and keys are taken in the order they were added.     *)
(***************************************************************************)
EXTENDS Naturals, Sequences

CONSTANTS Writer, Code, NoCode, Capacity

VARIABLES queue,   \* the keys recorded and not yet taken
          in       \* writer |-> the key it is recording

queueVars == <<queue, in>>

Init == queue = <<>> /\ in = [t \in Writer |-> NoCode]

Call(t) == /\ in[t] = NoCode /\ in'[t] \in Code
           /\ in' = [in EXCEPT ![t] = in'[t]]
           /\ UNCHANGED queue

Add(t) == /\ in[t] # NoCode
          /\ Len(queue) < Capacity
          /\ queue' = Append(queue, in[t])
          /\ in' = [in EXCEPT ![t] = NoCode]

Refuse(t) == /\ in[t] # NoCode
             /\ Len(queue) = Capacity
             /\ in' = [in EXCEPT ![t] = NoCode]
             /\ UNCHANGED queue

Take == queue # <<>> /\ queue' = Tail(queue) /\ UNCHANGED in

Clear == queue' = <<>> /\ UNCHANGED in

Next == \/ \E t \in Writer : Call(t) \/ Add(t) \/ Refuse(t)
        \/ Take
        \/ Clear

Spec == Init /\ [][Next]_queueVars
=============================================================================
