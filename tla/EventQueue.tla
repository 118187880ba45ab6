----------------------------- MODULE EventQueue -----------------------------
(***************************************************************************)
(* What the one-shot events of events.cpp promise to the code that posts   *)
(* them: an event that was accepted stays as it was posted until the clock *)
(* shows its time; it is taken then, once, and the clock does not move on  *)
(* while it is due.  Slots are the handles; a slot in Fixed belongs to one *)
(* client, which may move or withdraw its event.  The clock counts modulo  *)
(* Wrap.                                                                   *)
(***************************************************************************)
EXTENDS Integers

CONSTANTS Wrap, Slot, Fixed, Event, Empty

VARIABLES now, pending     \* slot -> an event with its evtime, or Empty

Ahead(t) == (t - now) % Wrap

Init == now = 0 /\ pending = [s \in Slot |-> Empty]

Accept(s, ev) == /\ pending[s] = Empty \/ s \in Fixed
                 /\ ev.evtime # now
                 /\ pending' = [pending EXCEPT ![s] = ev]
                 /\ now' = now

Withdraw(s) == /\ s \in Fixed
               /\ pending' = [pending EXCEPT ![s] = Empty]
               /\ now' = now

Fire(s) == /\ pending[s] # Empty
           /\ pending[s].evtime = now
           /\ pending' = [pending EXCEPT ![s] = Empty]
           /\ now' = now

Advance == /\ \A s \in Slot : pending[s] # Empty =>
                                Ahead(pending[s].evtime) >= Ahead(now')
           /\ pending' = pending

Restart == now' = 0 /\ pending' = [s \in Slot |-> Empty]

Next == \/ \E s \in Slot, ev \in Event : Accept(s, ev)
        \/ \E s \in Slot : Withdraw(s) \/ Fire(s)
        \/ Advance
        \/ Restart

Spec == Init /\ [][Next]_<<now, pending>>
=============================================================================
