----------------------------- MODULE MailBoxes ------------------------------
(***************************************************************************)
(* What the messages of the kernel promise: every task has a box of its    *)
(* own, a message sent to a task goes behind the ones that are there, and  *)
(* a task takes its messages in the order they were sent.                  *)
(***************************************************************************)
EXTENDS Sequences

CONSTANTS Owner, Letter

VARIABLE box

Init == box = [t \in Owner |-> <<>>]

Send(t, m) == box' = [box EXCEPT ![t] = Append(@, m)]

Take(t) == box[t] # <<>> /\ box' = [box EXCEPT ![t] = Tail(@)]

Next == \E t \in Owner : Take(t) \/ \E m \in Letter : Send(t, m)

Spec == Init /\ [][Next]_box
=============================================================================
