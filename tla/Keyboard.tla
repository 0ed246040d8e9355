------------------------------ MODULE Keyboard ------------------------------
(***************************************************************************)
(* The path of a key from the interrupt to a program:                      *)
(* keyboard_handler and get_key_for_syscall of kernel/interrupt/keyboard.c *)
(* around the ring of module KbBuffer, and the loop of getch in            *)
(* user/library/stdio.c.  Programs run on video pages (terminals); only    *)
(* those on the visible page may take keys, and all of them compete for    *)
(* the one buffer.                                                         *)
(*                                                                         *)
(* The handler runs with interrupts off and so does the system call: each  *)
(* is one action, in any order, because the keyboard and the clock strike  *)
(* at any time.                                                            *)
(***************************************************************************)
EXTENDS KbBuffer, FiniteSets

CONSTANTS Pages,        \* the pages Ctrl-F1.. select
          KEY_CTRL, KEY_ALT,
          FunctionKey,  \* page -> the scancode that selects it
          Reader,       \* the programs that read keys
          video_page,   \* program -> its page
          MaxTyped      \* bound of the model: how many keys are pressed

ASSUME KeyboardAssumption ==
    /\ {KEY_CTRL, KEY_ALT} \cup {FunctionKey[p] : p \in Pages} \subseteq Scancode
    /\ video_page \in [Reader -> Pages]
    /\ MaxTyped \in Nat

VARIABLES
    ctrl, alt,          \* __ctrl, __alt
    cur_video_page,
    eax,                \* what the last get_key call told each program
    (* History, to state the properties with: the number of keys typed so far,
       the number of the key in each slot, and of the last key that switched
       the page. *)
    typed, stamp, switched

vars == <<kbvars, key, ctrl, alt, cur_video_page, eax, typed, stamp, switched>>

(* The state at the end of main: page 1 is selected and all shells run. *)
Init ==
    /\ KbInit
    /\ ctrl = FALSE /\ alt = FALSE
    /\ cur_video_page \in Pages
    /\ eax = [r \in Reader |-> NoKey]
    /\ typed = 0 /\ switched = 0
    /\ stamp = [i \in 0 .. KB_BUFFER_MAX - 1 |-> 0]

-----------------------------------------------------------------------------
(* A byte with the top bit set: a key was released. *)
Release(scancode) ==
    /\ alt' = (alt /\ scancode # KEY_ALT)
    /\ ctrl' = (ctrl /\ scancode # KEY_CTRL)
    /\ UNCHANGED <<kbvars, key, cur_video_page, eax, typed, stamp, switched>>

FaultySwitch(scancode, page) ==  \* does not reset the buffer
    /\ cur_video_page' = page
    /\ push_kb_buffer(scancode)
    /\ stamp' = IF kb_buffer_len < KB_BUFFER_MAX
                THEN [stamp EXCEPT ![kb_buffer_head] = typed + 1] ELSE stamp
    /\ switched' = typed + 1

(* switch_video_page as the keyboard sees it: the buffer is reset and the page
   changes; the function key itself is pushed afterwards. *)
SwitchPage(scancode, page) ==
    /\ cur_video_page' = page
    /\ reset_and_push(scancode)
    /\ stamp' = [stamp EXCEPT ![0] = typed + 1]
    /\ switched' = typed + 1

Enter(scancode) ==
    /\ push_kb_buffer(scancode)
    /\ stamp' = IF kb_buffer_len < KB_BUFFER_MAX
                THEN [stamp EXCEPT ![kb_buffer_head] = typed + 1] ELSE stamp
    /\ UNCHANGED <<cur_video_page, switched>>

Selected(scancode) == {p \in Pages : FunctionKey[p] = scancode}

(* A key was pressed, or repeats. *)
Press(scancode) ==
    /\ typed < MaxTyped
    /\ typed' = typed + 1
    /\ alt' = (alt \/ scancode = KEY_ALT)
    /\ ctrl' = (ctrl \/ scancode = KEY_CTRL)
    /\ \/ ctrl /\ \E p \in Selected(scancode) : SwitchPage(scancode, p)
       \/ ~(ctrl /\ Selected(scancode) # {}) /\ Enter(scancode)
    /\ UNCHANGED <<key, eax>>

keyboard_handler(scancode) == Press(scancode) \/ Release(scancode)

FaultyGetKey(r) ==  \* the test the wrong way round
    /\ \/ video_page[r] = cur_video_page /\ key' = NoKey /\ UNCHANGED kbvars
       \/ video_page[r] # cur_video_page /\ pop_kb_buffer
    /\ eax' = [eax EXCEPT ![r] = key']
    /\ UNCHANGED <<ctrl, alt, cur_video_page, typed, stamp, switched>>

(* A program in getch asks again until the answer is not 0xff. *)
get_key_for_syscall(r) ==
    /\ \/ video_page[r] # cur_video_page /\ key' = NoKey /\ UNCHANGED kbvars
       \/ video_page[r] = cur_video_page /\ pop_kb_buffer
    /\ eax' = [eax EXCEPT ![r] = key']
    /\ UNCHANGED <<ctrl, alt, cur_video_page, typed, stamp, switched>>

Next ==
    \/ \E s \in Scancode : keyboard_handler(s)
    \/ \E r \in Reader : get_key_for_syscall(r)

(* Every program that reads keeps getting slices and keeps asking. *)
Spec == Init /\ [][Next]_vars /\ \A r \in Reader : WF_vars(get_key_for_syscall(r))

-----------------------------------------------------------------------------
TypeOK ==
    /\ KbTypeOK
    /\ ctrl \in BOOLEAN /\ alt \in BOOLEAN
    /\ cur_video_page \in Pages
    /\ eax \in [Reader -> Scancode \cup {NoKey}]
    /\ typed \in 0 .. MaxTyped /\ switched \in 0 .. typed
    /\ stamp \in [0 .. KB_BUFFER_MAX - 1 -> 0 .. typed]

(* Nothing typed for one terminal is left in the buffer for another: what it
   holds was typed at or after the last change of the page, in the order of
   the slots. *)
NothingLeftOver ==
    \A i \in 1 .. kb_buffer_len :
        /\ stamp[Slot(i)] >= switched
        /\ i > 1 => stamp[Slot(i)] > stamp[Slot(i - 1)]

(* A key is taken out of the buffer only by a program on the visible page, and
   never disappears otherwise than by a change of the page. *)
TakenWhereVisible ==
    [][kb_buffer_len' < kb_buffer_len =>
          \/ switched' # switched
          \/ /\ kb_buffer_len' = kb_buffer_len - 1
             /\ \E r \in Reader : /\ video_page[r] = cur_video_page
                                  /\ eax'[r] = kb_buffer[Slot(1)]]_vars

(* With a program reading on every page no key lingers: it is taken, or flushed
   by a change of the page. *)
NoKeyLingers ==
    \A n \in 1 .. MaxTyped :
        (\E i \in 1 .. kb_buffer_len : stamp[Slot(i)] = n)
            ~> ~(\E i \in 1 .. kb_buffer_len : stamp[Slot(i)] = n)
=============================================================================
