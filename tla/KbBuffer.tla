------------------------------ MODULE KbBuffer ------------------------------
(***************************************************************************)
(* The keyboard buffer of kernel/interrupt/keyboard.c: an array used as a  *)
(* ring.  head is the slot the next key goes to, tail the slot the last    *)
(* key was taken from (-1 after a reset), len the number of keys held.     *)
(***************************************************************************)
EXTENDS Integers

CONSTANTS KB_BUFFER_MAX,  \* 128 in include/constants.h
          Scancode        \* the make codes the keyboard sends

NoKey == 255              \* 0xff, what pop_kb_buffer answers when there is none
Nul == 0                  \* '\0', the contents of the array when the kernel starts

ASSUME KbBufferAssumption ==
    KB_BUFFER_MAX \in Nat \ {0} /\ NoKey \notin Scancode

VARIABLES kb_buffer, kb_buffer_len, kb_buffer_head, kb_buffer_tail,
          key             \* the answer to the last request for a key

kbvars == <<kb_buffer, kb_buffer_len, kb_buffer_head, kb_buffer_tail>>

KbInit ==
    /\ kb_buffer = [i \in 0 .. KB_BUFFER_MAX - 1 |-> Nul]
    /\ kb_buffer_len = 0
    /\ kb_buffer_head = 0
    /\ kb_buffer_tail = -1
    /\ key = NoKey

reset_kb_buffer ==
    /\ kb_buffer' = [kb_buffer EXCEPT ![0] = Nul]
    /\ kb_buffer_head' = 0
    /\ kb_buffer_len' = 0
    /\ kb_buffer_tail' = -1

(* Definitions named Faulty... are what a slip in the definition after them
   would be; no action uses them, they are there to be put in its place. *)
FaultyAfter(slot) == IF slot + 1 > KB_BUFFER_MAX THEN 0 ELSE slot + 1

After(slot) == IF slot + 1 >= KB_BUFFER_MAX THEN 0 ELSE slot + 1

FaultyPop ==  \* does not count the key as taken
    \/ kb_buffer_len = 0 /\ key' = NoKey /\ UNCHANGED kbvars
    \/ /\ kb_buffer_len # 0
       /\ kb_buffer_tail' = After(kb_buffer_tail)
       /\ key' = kb_buffer[After(kb_buffer_tail)]
       /\ UNCHANGED <<kb_buffer, kb_buffer_head, kb_buffer_len>>

pop_kb_buffer ==
    \/ /\ kb_buffer_len = 0
       /\ key' = NoKey
       /\ UNCHANGED kbvars
    \/ /\ kb_buffer_len # 0
       /\ kb_buffer_len' = kb_buffer_len - 1
       /\ kb_buffer_tail' = After(kb_buffer_tail)
       /\ key' = kb_buffer[After(kb_buffer_tail)]
       /\ UNCHANGED <<kb_buffer, kb_buffer_head>>

FaultyPush(scancode) ==  \* overwrites when full
    /\ kb_buffer_len' = IF kb_buffer_len < KB_BUFFER_MAX THEN kb_buffer_len + 1
                                                        ELSE kb_buffer_len
    /\ kb_buffer' = [kb_buffer EXCEPT ![kb_buffer_head] = scancode]
    /\ kb_buffer_head' = After(kb_buffer_head)
    /\ UNCHANGED kb_buffer_tail

push_kb_buffer(scancode) ==
    \/ kb_buffer_len >= KB_BUFFER_MAX /\ UNCHANGED kbvars
    \/ /\ kb_buffer_len < KB_BUFFER_MAX
       /\ kb_buffer_len' = kb_buffer_len + 1
       /\ kb_buffer' = [kb_buffer EXCEPT ![kb_buffer_head] = scancode]
       /\ kb_buffer_head' = After(kb_buffer_head)
       /\ UNCHANGED kb_buffer_tail

(* A key that switches the terminal: reset_kb_buffer, then push_kb_buffer. *)
reset_and_push(scancode) ==
    /\ kb_buffer' = [kb_buffer EXCEPT ![0] = scancode]
    /\ kb_buffer_len' = 1
    /\ kb_buffer_head' = After(0)
    /\ kb_buffer_tail' = -1

(* The buffer in the hands of any caller. *)
KbNext ==
    \/ reset_kb_buffer /\ UNCHANGED key
    \/ pop_kb_buffer
    \/ (\E s \in Scancode : push_kb_buffer(s) \/ reset_and_push(s)) /\ UNCHANGED key

KbSpec == KbInit /\ [][KbNext]_<<kbvars, key>>

-----------------------------------------------------------------------------
(* The i-th oldest key held is in slot Slot(i). *)
Slot(i) == IF kb_buffer_tail + i >= KB_BUFFER_MAX
           THEN kb_buffer_tail + i - KB_BUFFER_MAX
           ELSE kb_buffer_tail + i

Contents == [i \in 1 .. kb_buffer_len |-> kb_buffer[Slot(i)]]

Fifo == INSTANCE BoundedFifo
            WITH Capacity <- KB_BUFFER_MAX, Value <- Scancode, None <- NoKey,
                 queue <- Contents, out <- key

(* Indices stay inside the array and the count inside the capacity. *)
KbTypeOK ==
    /\ kb_buffer \in [0 .. KB_BUFFER_MAX - 1 -> Scancode \cup {Nul}]
    /\ kb_buffer_len \in 0 .. KB_BUFFER_MAX
    /\ kb_buffer_head \in 0 .. KB_BUFFER_MAX - 1
    /\ kb_buffer_tail \in -1 .. KB_BUFFER_MAX - 1
    /\ key \in Scancode \cup {NoKey}

(* The ring of slots is a bounded first-in first-out queue: no key is lost,
   repeated, reordered or made up, except that a full buffer drops the newest
   and a switch of the terminal drops all. *)
FifoSpec == Fifo!Spec
=============================================================================
