---------------------------- MODULE BoundedFifo ----------------------------
(***************************************************************************)
(* What the keyboard driver promises the programs: a first-in first-out    *)
(* queue of scancodes with a capacity.  A key typed into a full queue is   *)
(* dropped, a read of an empty queue answers None, and a switch of the     *)
(* terminal empties the queue.                                             *)
(***************************************************************************)
EXTENDS Integers, Sequences

CONSTANTS Capacity, Value, None

VARIABLES queue,
          out     \* the answer to the last read

Init == queue = <<>> /\ out = None

Put(v) == queue' = IF Len(queue) < Capacity THEN Append(queue, v) ELSE queue

Get ==
    \/ queue = <<>> /\ out' = None /\ UNCHANGED queue
    \/ queue # <<>> /\ out' = Head(queue) /\ queue' = Tail(queue)

Clear == queue' = <<>>

(* A key that switches the terminal: the queue is emptied, then the key goes in. *)
Restart(v) == queue' = <<v>>

(* The asking program is told None although it asked no queue. *)
Refuse == out' = None /\ UNCHANGED queue

Next ==
    \/ (\E v \in Value : Put(v) \/ Restart(v)) /\ UNCHANGED out
    \/ Clear /\ UNCHANGED out
    \/ Get
    \/ Refuse

Spec == Init /\ [][Next]_<<queue, out>>
=============================================================================
