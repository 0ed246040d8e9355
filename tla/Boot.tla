-------------------------------- MODULE Boot --------------------------------
(***************************************************************************)
(* From main's first line to its endless loop (init/main.c): the tables    *)
(* and handlers it sets up with interrupts off, and what it does with      *)
(* interrupts on afterwards: cls, init_multitask, and for every shell      *)
(* switch_video_page and exec, which elsewhere run in system calls and     *)
(* interrupt handlers only and here step by step, with the end of a slice, *)
(* a page key and the output of the shells already running in between.     *)
(* The build is not optimised: a variable is loaded in one step and what   *)
(* is made of it stored in another.                                        *)
(*                                                                         *)
(* Of the video memory only this is kept: which terminal's text each page  *)
(* and the screen hold, and where the next character goes.                 *)
(***************************************************************************)
EXTENDS Tasks

CONSTANTS MaxPrinted,  \* bound of the model: characters each shell prints
          MaxStruck    \* bound of the model: page keys and output are followed
                       \* until interrupts have fallen into so many windows

ASSUME BootAssumption ==
    MaxPrinted \in Nat /\ MaxStruck \in Nat /\ Shells >= 1 /\ MaxTasks > Shells

Page == 0 .. Shells      \* page 0 is the screen main starts with
Status == -1             \* a cursor in the status row: out of the text for ever

VARIABLES
    mode,            \* "run"; "fault" or "lost" when it will never go on
    enabled,         \* main's interrupt flag
    gates,           \* vectors with a gate in the IDT that lidt has loaded
    remapped,        \* the interrupt controller delivers vectors 32 .. 47
    irq_routines, idt_routines,  \* those that are set
    in_service,      \* requests the controller waits to be acknowledged
    
    reg, dest,       \* a cursor and a page main has loaded and will use
    scr, store,      \* scr_x, scr_y and store_x, store_y
    cursor,          \* curx, cury
    screen, text,    \* whose text the screen and each page show
    cur_video_page,
    video_page,      \* of each task
    printed,         \* characters printed on each page (history)
    struck           \* windows an interrupt has fallen into (history)

tasks == <<pid_counter, next, status, family, cur_task, estatus, launched>>
tables == <<enabled, gates, remapped, irq_routines, idt_routines, in_service>>
held == <<reg, dest>>
shown == <<held, scr, store, cursor, screen, text, cur_video_page, printed>>
bvars == <<vars, mode, tables, shown, video_page, struck>>

(* What main does, in its order; the steps from "store" to "context" for every
   shell, those up to "restore" once more at the end.  (Definitions named Faulty...
   are what a slip in the one after them would be; nothing uses them.) *)
FaultySetup == <<"preset", "idt_init", "init_keyboard", "info", "init_syscall", "sti", "irq_init",
                 "cls", "init_multitask", "init_fs", "start", "next", "advance", "arguments",
                 "assign", "int127">>

Setup == <<"preset", "idt_init", "irq_init", "init_keyboard", "info", "init_syscall", "sti",
           "cls", "init_multitask", "init_fs", "start", "next", "advance", "arguments",
           "assign", "int127">>
Showing == <<"store", "save", "column", "load", "move", "page", "aside", "keep", "name", "back",
             "restore">>
Executing == <<"find", "create", "segments", "context">>

StepsOf(steps) == {steps[i] : i \in DOMAIN steps}
MainPlace == StepsOf(Setup) \cup StepsOf(Showing) \cup StepsOf(Executing) \cup {"loop"}

Following(place, steps) == steps[1 + CHOOSE i \in DOMAIN steps : steps[i] = place]

(* The place main is at once it is done with place. *)
After(place) ==
    CASE place = "int127" -> "store"
      [] place = "restore" -> IF launched < Shells THEN "find" ELSE "loop"
      [] place = "context" -> "store"
      [] place \in StepsOf(Setup) \ {"int127"} -> Following(place, Setup)
      [] place \in StepsOf(Showing) \ {"restore"} -> Following(place, Showing)
      [] place \in StepsOf(Executing) \ {"context"} -> Following(place, Executing)

(* The page main shows: those of the shells in turn, then the first again. *)
PageToShow == IF launched < Shells THEN launched + 1 ELSE 1

(* Before init_multitask no task block exists and cur_task is null. *)
BInit ==
    /\ pid_counter = 0 /\ cur_task = Null
    /\ next = [t \in Task |-> IF t = Main THEN Main ELSE Null]
    /\ status = [t \in Task |-> Ready]
    /\ parent = [t \in Task |-> Null] /\ children = [t \in Task |-> Null]
    /\ brothers = [t \in Task |-> IF t = Main THEN Wild ELSE Null]
    /\ children_count = [t \in Task |-> 0]
    /\ estatus = [t \in Task |-> "none"] /\ cpu = "preset"
    /\ launched = 0
    /\ mode = "run" /\ enabled = FALSE
    /\ gates = {} /\ remapped = FALSE
    /\ irq_routines = {} /\ idt_routines = {} /\ in_service = {}
    /\ reg = 0 /\ dest = 0 /\ scr = 0 /\ store = 0
    /\ cursor = [p \in Page |-> 0]
    /\ screen = 0 /\ text = [p \in Page |-> p]
    /\ cur_video_page = 0
    /\ video_page = [t \in Task |-> 0]
    /\ printed = [p \in Page |-> 0]
    /\ struck = {}

-----------------------------------------------------------------------------
(* main's steps *)

MainAt(place) == mode = "run" /\ cur_task \in {Null, Main} /\ cpu = place
Goes == cpu' = After(cpu)
Keeps == UNCHANGED <<pid_counter, next, status, family, cur_task, estatus, mode, video_page,
                     struck>>

(* main runs twice: gdt_flush, at the end of init_gdt, calls it again. *)
init_gdt ==
    /\ MainAt("preset") /\ Goes
    /\ Keeps /\ UNCHANGED <<launched, tables, shown>>

idt_init ==
    /\ MainAt("idt_init") /\ Goes
    /\ gates' = gates \cup (0 .. 31) \cup {127, 128}
    /\ Keeps /\ UNCHANGED <<launched, enabled, remapped, irq_routines, idt_routines, in_service,
                            shown>>

irq_init ==
    /\ MainAt("irq_init") /\ Goes
    /\ remapped' = TRUE
    /\ gates' = gates \cup (32 .. 47)
    /\ irq_routines' = irq_routines \cup {0}
    /\ Keeps /\ UNCHANGED <<launched, enabled, idt_routines, in_service, shown>>

init_keyboard ==
    /\ MainAt("init_keyboard") /\ Goes
    /\ irq_routines' = irq_routines \cup {1}
    /\ Keeps /\ UNCHANGED <<launched, enabled, gates, remapped, idt_routines, in_service,
                            shown>>

init_syscall ==
    /\ MainAt("init_syscall") /\ Goes
    /\ idt_routines' = {127, 128}
    /\ Keeps /\ UNCHANGED <<launched, enabled, gates, remapped, irq_routines, in_service,
                            shown>>

sti ==
    /\ MainAt("sti") /\ Goes
    /\ enabled' = TRUE
    /\ Keeps /\ UNCHANGED <<launched, gates, remapped, irq_routines, idt_routines, in_service,
                            shown>>

(* A line on the screen main started with, one character standing for it; the
   first is printed with interrupts off. *)
kprintf ==
    /\ MainAt("info") /\ Goes
    /\ scr' = scr + 1
    /\ printed' = [printed EXCEPT ![cur_video_page] = @ + 1]
    /\ Keeps /\ UNCHANGED <<launched, tables, held, store, cursor, screen, text,
                            cur_video_page>>

(* The second, with interrupts on: the character goes to the screen, *)
print_start ==
    /\ MainAt("start") /\ Goes
    /\ printed' = [printed EXCEPT ![cur_video_page] = @ + 1]
    /\ Keeps /\ UNCHANGED <<launched, tables, held, scr, store, cursor, screen, text,
                            cur_video_page>>

(* scr_y is loaded, for scr_y++ and as an argument of scr_update_cursor, *)
load_scr ==
    /\ MainAt("next") \/ MainAt("arguments") \/ MainAt("aside")
    /\ Goes
    /\ reg' = scr
    /\ Keeps /\ UNCHANGED <<launched, tables, dest, scr, store, cursor, screen, text,
                            cur_video_page, printed>>

(* and stored, one further, and as the argument is. *)
store_scr ==
    /\ MainAt("advance") \/ MainAt("assign")
    /\ Goes
    /\ scr' = IF cpu = "advance" THEN reg + 1 ELSE reg
    /\ reg' = 0
    /\ Keeps /\ UNCHANGED <<launched, tables, dest, store, cursor, screen, text,
                            cur_video_page, printed>>

(* video_mem is still null, so cls blanks the memory from address 0 on, and
   moves the cursor of the screen it did not clear. *)
cls ==
    /\ MainAt("cls") /\ Goes
    /\ scr' = 0
    /\ printed' = [printed EXCEPT ![cur_video_page] = 0]
    /\ Keeps /\ UNCHANGED <<launched, tables, held, store, cursor, screen, text,
                            cur_video_page>>

FaultyMultitask ==  \* assigns the new block to task_queue only
    /\ MainAt("init_multitask") /\ Goes
    /\ CreateTask(Main, "none")
    /\ scr' = scr + 1
    /\ printed' = [printed EXCEPT ![cur_video_page] = @ + 1]
    /\ UNCHANGED <<cur_task, family, launched, mode, tables, held, store, cursor, screen, text,
                   cur_video_page, video_page, struck>>

(* Runs between cli and sti. *)
BootMultitask ==
    /\ MainAt("init_multitask") /\ Goes
    /\ CreateTask(Main, "none")
    /\ cur_task' = Main
    /\ scr' = scr + 1
    /\ printed' = [printed EXCEPT ![cur_video_page] = @ + 1]
    /\ UNCHANGED <<family, launched, mode, tables, held, store, cursor, screen, text,
                   cur_video_page, video_page, struck>>

init_fs ==
    /\ MainAt("init_fs") /\ Goes
    /\ Keeps /\ UNCHANGED <<launched, tables, shown>>

(* switch_video_page, with interrupts on.  It finds the page shown, *)
find_page ==
    /\ MainAt("store") /\ Goes
    /\ dest' = cur_video_page
    /\ Keeps /\ UNCHANGED <<launched, tables, reg, scr, store, cursor, screen, text,
                            cur_video_page, printed>>

(* copies the screen to it, finds it again, *)
store_page ==
    /\ MainAt("save") /\ Goes
    /\ text' = [text EXCEPT ![dest] = screen]
    /\ dest' = cur_video_page
    /\ Keeps /\ UNCHANGED <<launched, tables, reg, scr, store, cursor, screen, cur_video_page,
                            printed>>

(* and stores the cursor with it. *)
store_cursor ==
    /\ MainAt("column") /\ Goes
    /\ cursor' = [cursor EXCEPT ![dest] = scr]
    /\ dest' = 0
    /\ Keeps /\ UNCHANGED <<launched, tables, reg, scr, store, screen, text, cur_video_page,
                            printed>>

FaultyLoad ==  \* copies the screen to the page
    /\ MainAt("load") /\ Goes
    /\ text' = [text EXCEPT ![PageToShow] = screen]
    /\ Keeps /\ UNCHANGED <<launched, tables, held, scr, store, cursor, screen, cur_video_page,
                            printed>>

load_page ==
    /\ MainAt("load") /\ Goes
    /\ screen' = text[PageToShow]
    /\ Keeps /\ UNCHANGED <<launched, tables, held, scr, store, cursor, text,
                            cur_video_page, printed>>

move_cursor ==
    /\ MainAt("move") /\ Goes
    /\ scr' = cursor[PageToShow]
    /\ Keeps /\ UNCHANGED <<launched, tables, held, store, cursor, screen, text,
                            cur_video_page, printed>>

set_page ==
    /\ MainAt("page") /\ Goes
    /\ cur_video_page' = PageToShow
    /\ Keeps /\ UNCHANGED <<launched, tables, held, scr, store, cursor, screen, text,
                            printed>>

FaultyTempMoveTo ==  \* forgets scr_backup_cursor
    /\ MainAt("keep") /\ Goes
    /\ scr' = Status /\ reg' = 0
    /\ Keeps /\ UNCHANGED <<launched, tables, dest, store, cursor, screen, text,
                            cur_video_page, printed>>

scr_temp_move_to ==
    /\ MainAt("keep") /\ Goes
    /\ store' = reg
    /\ scr' = Status /\ reg' = 0
    /\ Keeps /\ UNCHANGED <<launched, tables, dest, cursor, screen, text,
                            cur_video_page, printed>>

(* The name of the terminal, into the status row. *)
print_name ==
    /\ MainAt("name") /\ Goes
    /\ Keeps /\ UNCHANGED <<launched, tables, shown>>

load_store ==
    /\ MainAt("back") /\ Goes
    /\ reg' = store
    /\ Keeps /\ UNCHANGED <<launched, tables, dest, scr, store, cursor, screen, text,
                            cur_video_page, printed>>

scr_temp_retrieve ==
    /\ MainAt("restore") /\ Goes
    /\ scr' = reg /\ reg' = 0
    /\ Keeps /\ UNCHANGED <<launched, tables, dest, store, cursor, screen, text,
                            cur_video_page, printed>>

(* exec, with interrupts on: it finds and reads the file, *)
find_file ==
    /\ MainAt("find") /\ Goes
    /\ Keeps /\ UNCHANGED <<launched, tables, shown>>

FaultyContext == "none"  \* the first switch to the block finds no context in it

(* The context create_task_from_mem gives its task in the end. *)
FirstContext == "run"

FaultyCreate ==  \* takes the page of the parent
    /\ MainAt("create") /\ Goes
    /\ CreateTask(pid_counter, "none")
    /\ LinkChild(pid_counter, children[Main], 1)
    /\ video_page' = [video_page EXCEPT ![pid_counter] = video_page[cur_task]]
    /\ UNCHANGED <<cur_task, launched, mode, tables, shown, struck>>

(* makes a block READY and puts it on the ring, its context all zero, *)
create_empty_task ==
    /\ MainAt("create") /\ Goes
    /\ CreateTask(pid_counter, "none")
    /\ LinkChild(pid_counter, children[Main], 1)
    /\ video_page' = [video_page EXCEPT ![pid_counter] = cur_video_page]
    /\ UNCHANGED <<cur_task, launched, mode, tables, shown, struck>>

(* copies the program and adds two descriptors, *)
add_segments ==
    /\ MainAt("segments") /\ Goes
    /\ Keeps /\ UNCHANGED <<launched, tables, shown>>

(* and writes the context the task starts with. *)
write_context ==
    /\ MainAt("context") /\ Goes
    /\ estatus' = [estatus EXCEPT ![pid_counter - 1] = FirstContext]
    /\ launched' = launched + 1
    /\ UNCHANGED <<pid_counter, next, status, family, cur_task, mode, tables, 
                   shown, video_page, struck>>

-----------------------------------------------------------------------------
(* Interrupts *)

FaultyAcknowledge(requests) == requests  \* leaves it to _irq_handler, which does not come to it

(* The outb(0x20) of task_switch, which does not return to _irq_handler. *)
Acknowledge(requests) == {}

(* The processor takes request n, which goes to vector 32 + n. *)
Accepts(n) ==
    /\ mode = "run"
    /\ cur_task \in Task \ {Main} \/ enabled
    /\ in_service = {}

(* After reset the controller delivers request n as vector 8 + n. *)
VectorOf(n) == IF remapped THEN 32 + n ELSE 8 + n

(* _irq_handler copies the saved registers through cur_task.  While that is null
   it copies from an address made of what lies near address 0; the number it
   finds there may have no routine, or lead anywhere. *)
null_task ==
    /\ \E n \in {0, 1} : Accepts(n) /\ VectorOf(n) \in gates
    /\ cur_task = Null
    /\ mode' \in {"run", "lost"}
    /\ struck' = struck \cup {"early"}
    /\ UNCHANGED <<vars, tables, shown, video_page>>

(* A switch to a block whose context is zero loads a null stack segment: the
   fault handler returns to the same instruction, with interrupts off. *)
Switch ==
    /\ task_switch
    /\ mode' = IF cpu' = "none" THEN "fault" ELSE "run"

Struck(window, places) == IF At(Main) \in places THEN {window} ELSE {}

(* The tick that ends a slice: spin and the line task_switch prints move the
   cursor aside and back, through the same store_x, store_y. *)
timer_slice ==
    /\ Accepts(0) /\ cur_task # Null /\ 0 \in irq_routines
    /\ Switch
    /\ store' = scr
    /\ in_service' = Acknowledge({0})
    /\ struck' = struck \cup Struck("status", {"keep", "name", "back", "restore"})
                        \cup Struck("show", {"load", "move", "page"})
                        \cup Struck("exec", {"create", "segments", "context"})
    /\ UNCHANGED <<enabled, gates, remapped, irq_routines, idt_routines, held, scr,
                   cursor, screen, text, cur_video_page, printed, video_page>>

(* int $127 of main, in place of the step of that name. *)
int127 ==
    /\ MainAt("int127")
    /\ 127 \in gates \cap idt_routines
    /\ cpu' = After(cpu)
    /\ store' = scr
    /\ in_service' = Acknowledge(in_service)
    /\ Keeps /\ UNCHANGED <<launched, enabled, gates, remapped, irq_routines, idt_routines,
                            held, scr, cursor, screen, text, cur_video_page, printed>>

(* Ctrl and F1, F2 or F3: the keyboard handler shows a page, in one step. *)
page_key(page) ==
    /\ Accepts(1) /\ cur_task # Null /\ 1 \in irq_routines
    /\ Cardinality(struck) < MaxStruck
    /\ LET stored == [text EXCEPT ![cur_video_page] = screen]
           cursors == [cursor EXCEPT ![cur_video_page] = scr]
       IN  /\ text' = stored /\ screen' = stored[page]
           /\ cursor' = cursors /\ scr' = cursors[page] /\ store' = cursors[page]
    /\ cur_video_page' = page
    /\ struck' = struck \cup Struck("start", {"next", "advance", "assign"})
                        \cup Struck("show", {"save", "column", "load", "move", "page", "keep",
                                             "name", "back", "restore"})
                        \cup Struck("page", {"aside", "keep", "name", "back", "restore", "find",
                                             "create"})
    /\ UNCHANGED <<vars, mode, tables, held, printed, video_page>>

(* A shell prints a character on its page. *)
putch_for_syscall ==
    /\ mode = "run" /\ cur_task \in Task \ {Main}
    /\ Cardinality(struck) < MaxStruck
    /\ 128 \in gates \cap idt_routines
    /\ LET page == video_page[cur_task]
           saved == [cursor EXCEPT ![cur_video_page] = scr]
       IN  /\ printed[page] < MaxPrinted
           /\ cursor' = [saved EXCEPT ![page] = IF @ = Status THEN Status ELSE @ + 1]
           /\ scr' = cursor'[cur_video_page]
           /\ printed' = [printed EXCEPT ![page] = @ + 1]
    /\ UNCHANGED <<vars, mode, tables, held, store, screen, text, cur_video_page,
                   video_page, struck>>

main_step ==
    \/ init_gdt \/ idt_init \/ irq_init \/ init_keyboard \/ init_syscall \/ sti
    \/ kprintf \/ cls \/ BootMultitask \/ init_fs \/ print_start \/ load_scr \/ store_scr
    \/ int127
    \/ find_page \/ store_page \/ store_cursor \/ load_page \/ move_cursor \/ set_page
    \/ scr_temp_move_to \/ print_name \/ load_store \/ scr_temp_retrieve
    \/ find_file \/ create_empty_task \/ add_segments \/ write_context

BNext ==
    \/ main_step
    \/ null_task \/ timer_slice \/ putch_for_syscall
    \/ \E page \in Page \ {0} : page_key(page)
    \/ mode # "run" /\ UNCHANGED bvars

BSpec == BInit /\ [][BNext]_bvars

(* Slices end for ever, and a slice is long enough for main to go on. *)
BFairSpec == BSpec /\ WF_bvars(timer_slice) /\ SF_bvars(main_step)

-----------------------------------------------------------------------------
(* Properties *)

CursorOf(page) == IF page = cur_video_page THEN scr ELSE cursor[page]

(* The variables stay in their types, and the tasks main is done with have a
   context. *)
BTypeOK ==
    /\ mode \in {"run", "fault", "lost"}
    /\ cur_task \in Created \cup {Null}
    /\ At(Main) \in MainPlace \cup {"none"}
    /\ \A t \in Task \ {Main} : At(t) \in {"none", "run"}
    /\ \A t \in 1 .. launched : At(t) = "run"
    /\ reg \in Nat \cup {Status} /\ dest \in Page
    /\ scr \in Nat \cup {Status} /\ store \in Nat \cup {Status}
    /\ cursor \in [Page -> Nat \cup {Status}]
    /\ screen \in Page /\ text \in [Page -> Page] /\ cur_video_page \in Page
    /\ video_page \in [Task -> Page]

(* Whatever request comes once interrupts are enabled has a gate, and not that
   of an exception. *)
RequestsHaveGates == enabled => \A n \in 0 .. 15 : VectorOf(n) \in gates \ 0 .. 31

(* The processor is never given to a task without a context, except when a
   slice ends while main is inside exec, and never follows the null cur_task
   except on a request between sti and the end of init_multitask. *)
StopsOnlyInWindows ==
    /\ mode = "fault" => "exec" \in struck
    /\ mode = "lost" => "early" \in struck /\ cpu \in {"cls", "init_multitask"}

(* The next character of each terminal goes behind those printed on it, except
   after an interrupt inside switch_video_page: then store_x, store_y hold the
   status row, or the cursor of one page is kept for another; and except after a
   page key while main prints that the system starts: then the page the key shows
   gets the cursor of the one before. *)
CursorsStay ==
    mode = "run" /\ struck \cap {"status", "show", "start"} = {}
    /\ At(Main) \notin {"next", "advance", "load", "move", "page", "name", "back", "restore"}
        => \A p \in Page : CursorOf(p) = printed[p]

(* The screen shows the text of the page that is current and every other page
   holds its own, except after an interrupt inside switch_video_page. *)
TextsStay ==
    "show" \notin struck /\ At(Main) \notin {"load", "move", "page"}
        => screen = cur_video_page /\ \A p \in Page \ {screen} : text[p] = p

(* The first shell has page 1, the second page 2, ..., unless a page key was
   struck between main's choice of the page and its exec. *)
ShellPages == "page" \notin struck => \A t \in Created \ {Main} : video_page[t] = t

(* main starts every shell, and each gets the processor again and again. *)
ShellsRun == \A t \in 1 .. Shells : []<>(mode # "run" \/ cur_task = t)
=============================================================================
